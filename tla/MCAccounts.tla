----------------------------- MODULE MCAccounts -----------------------------
(* An instance of Accounts for TLC: an admin and a developer to begin with,   *)
(* and a third address for those who register.                               *)
EXTENDS Accounts, TLC

CONSTANTS r1, r2, r3, e1, e2, e3, p1, p2

Founded(e, a) == [email |-> e, password |-> p1, admin |-> a, origin |-> Nobody]
Founders      == <<Founded(e1, TRUE), Founded(e2, FALSE)>>
EveryKind     == Kinds
AnyRequest    == Permutations(Requests)
=============================================================================
