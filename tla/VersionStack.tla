---------------------------- MODULE VersionStack ----------------------------
(***************************************************************************)
(* What graphene's undo_database promises to the chain, independently of   *)
(* how it records changes: a database whose earlier versions are kept on a *)
(* stack.  A session saves the present version; undoing it brings exactly  *)
(* that version back; merging it forgets the version; committing it leaves *)
(* the version on the stack for a later pop.  Old versions may be dropped  *)
(* from the bottom of the stack when a session starts, never elsewhere.    *)
(*                                                                         *)
(* UndoDatabase implements this specification (checked by TLC, proved in   *)
(* UndoDatabaseProofs); ChainDatabase is written on top of it.             *)
(***************************************************************************)
EXTENDS Naturals, Sequences

VARIABLES
  db,       \* the present version of all objects and next ids
  saved,    \* earlier versions, oldest first
  active    \* number of sessions neither committed, merged nor undone

vars == <<db, saved, active>>

Front(s) == SubSeq(s, 1, Len(s) - 1)
Top(s) == s[Len(s)]

Init ==
  /\ saved = << >>
  /\ active = 0

\* A change of the database.  A change made while nothing is saved may save
\* the version it replaces (an undo hook that finds the stack empty).
Write ==
  /\ saved' = saved \/ (saved = << >> /\ saved' = <<db>>)
  /\ active' = active

\* A session starts: the present version is saved, the oldest ones may go.
Begin ==
  /\ \E k \in 0..Len(saved) : saved' = Append(SubSeq(saved, k + 1, Len(saved)), db)
  /\ active' = active + 1
  /\ db' = db

\* The newest session is undone: the version it saved is the present again.
Rollback ==
  /\ active > 0
  /\ saved # << >>
  /\ db' = Top(saved)
  /\ saved' = Front(saved)
  /\ active' = active - 1

\* The newest session becomes part of the one below it.
Merge ==
  /\ active > 0
  /\ saved # << >>
  /\ saved' = Front(saved)
  /\ active' = active - 1
  /\ db' = db

\* The newest session ends and keeps its saved version.
Commit ==
  /\ active > 0
  /\ active' = active - 1
  /\ UNCHANGED <<db, saved>>

\* A committed version is taken back.
Pop ==
  /\ active = 0
  /\ saved # << >>
  /\ db' = Top(saved)
  /\ saved' = Front(saved)
  /\ active' = active

Next == Write \/ Begin \/ Rollback \/ Merge \/ Commit \/ Pop

Spec == Init /\ [][Next]_vars
=============================================================================
