----------------------------- MODULE OrmSession -----------------------------
(***************************************************************************)
(* How a SQLAlchemy session writes an object back.  Every service function *)
(* of DevTrack loads a row, assigns attributes and commits; the unit of    *)
(* work then emits UPDATE ... SET for the columns whose assigned value     *)
(* differs from the value the session loaded, and for no others.  A column *)
(* another transaction changed in between therefore survives when this     *)
(* session assigned it the value it had loaded, and is overwritten when it *)
(* assigned anything else.  No row is ever locked or version-checked.      *)
(***************************************************************************)

\* The value of one column after a commit: stored is what the database holds
\* at that moment, seen what this session had loaded, want what it assigned.
Column(stored, seen, want) == IF want = seen THEN stored ELSE want
=============================================================================
