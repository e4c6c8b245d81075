----------------------------- MODULE MCAccounts -----------------------------
(***************************************************************************)
(* Model checking of Accounts, from empty stores.  The two roles of        *)
(* officials are treated alike by register and revokeUser: one of them     *)
(* stands for both.  Of what a form sends, one value at most looks like a  *)
(* hash, and who sends such a phone number has no invitation code.         *)
(***************************************************************************)
EXTENDS AccountsInvariant, TLC

Symmetry == Permutations(Txs) \cup Permutations(Users) \cup Permutations(Persons \ HashLike)
              \cup Permutations(Phones \ HashLike) \cup Permutations(Codes) \cup Permutations(Governorates)
              \cup Permutations(Revocations)

SomeForms ==
    {form \in Form : form.phone \in HashLike => form.person \notin HashLike /\ form.code = Nil}

FewerNext ==
    \/ \E c \in Codes : GenerateCode(c, "auditor")
    \/ \E u \in Users, form \in SomeForms : Register(u, form)
    \/ AccountStep

FewerSpec == AccountInit /\ [][FewerNext]_accountVars
=============================================================================
