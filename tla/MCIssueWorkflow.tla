-------------------------- MODULE MCIssueWorkflow --------------------------
(* Instances of IssueWorkflow for TLC: an issue in a project of owner, and  *)
(* requests that are told apart by what they do only.                       *)
EXTENDS IssueWorkflow, TLC

CONSTANTS i1, r1, r2, r3, owner, dev, admin

OwnedBy      == [i \in Issues |-> owner]
AnyRequest   == Permutations(Requests)
=============================================================================
