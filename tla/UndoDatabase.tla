---------------------------- MODULE UndoDatabase ----------------------------
(***************************************************************************)
(* libraries/db: object_database with its undo_database.  Objects live in  *)
(* indexes; every create, modify and remove passes through a hook that     *)
(* records, in the undo_state on top of the stack, only what is needed to  *)
(* take the change back.  Sessions push undo_states; undo, merge, commit   *)
(* and pop_commit take them off.                                           *)
(*                                                                         *)
(* Abstractions: an object's fields are one element of Values; a partial   *)
(* map of undo_state (old_values, removed, old_index_next_ids) is a total  *)
(* function with None or NoId for "no entry".  MaxInstance bounds the ids  *)
(* an index hands out, MaxForced the nesting of forced sessions (the code  *)
(* bounds it by undo_session_nesting_guard) and MaxHistory the sizes that  *)
(* set_max_size is called with.                                            *)
(*                                                                         *)
(* versions is a history variable: for every undo_state on the stack, the  *)
(* objects and next ids at the moment it was pushed.  No action reads it.  *)
(***************************************************************************)
EXTENDS Integers, Sequences

CONSTANTS
  Indexes,      \* the (space, type) pairs of object ids
  Values,       \* what an object may hold
  None,         \* no object, no entry
  MaxInstance,  \* bound: instances per index
  MaxForced,    \* nesting guard of forced sessions
  MaxHistory    \* bound: largest argument of set_max_size

ASSUME ValuesAssumption == None \notin Values
ASSUME BoundsAssumption == MaxInstance \in Nat /\ MaxForced \in Nat /\ MaxHistory \in Nat

NoId == -1

Ids == Indexes \X (0 .. MaxInstance - 1)

MaybeValue == Values \cup {None}

VARIABLES
  objects,     \* the object in every id, or None
  nextId,      \* index::_next_id
  stack,       \* undo_database::_stack, oldest first
  sessions,    \* live sessions, oldest first: their _disable_on_exit
  disabled,    \* undo_database::_disabled
  maxSize,     \* undo_database::_max_size
  versions     \* history: the database when each undo_state was pushed

vars == <<objects, nextId, stack, sessions, disabled, maxSize, versions>>

Database == [objects |-> objects, nextId |-> nextId]

Front(s) == SubSeq(s, 1, Len(s) - 1)
Top(s) == s[Len(s)]

-----------------------------------------------------------------------------
(* undo_state and what the hooks record in it.                             *)

EmptyState ==
  [old_values |-> [id \in Ids |-> None],
   new_ids |-> {},
   old_next |-> [i \in Indexes |-> NoId],
   removed |-> [id \in Ids |-> None]]

UndoStates ==
  [old_values : [Ids -> MaybeValue],
   new_ids : SUBSET Ids,
   old_next : [Indexes -> Int],
   removed : [Ids -> MaybeValue]]

RecordCreate(st, id) ==
  [st EXCEPT
    !.old_next = [st.old_next EXCEPT ![id[1]] = IF @ = NoId THEN id[2] ELSE @],
    !.new_ids = @ \cup {id}]

\* on_modify that keeps the latest value instead of the first one.
RecordModifyLast(st, id, v) ==
  IF id \in st.new_ids THEN st ELSE [st EXCEPT !.old_values[id] = v]

RecordModify(st, id, v) ==
  IF id \in st.new_ids \/ st.old_values[id] # None
  THEN st
  ELSE [st EXCEPT !.old_values[id] = v]

RecordRemove(st, id, v) ==
  IF id \in st.new_ids THEN [st EXCEPT !.new_ids = @ \ {id}]
  ELSE IF st.old_values[id] # None
       THEN [st EXCEPT !.removed[id] = st.old_values[id], !.old_values[id] = None]
       ELSE IF st.removed[id] # None THEN st
            ELSE [st EXCEPT !.removed[id] = v]

(* What undo() and pop_commit() make of the database.                      *)
Restored(st, d) ==
  [objects |-> [id \in Ids |->
      IF st.removed[id] # None THEN st.removed[id]
      ELSE IF id \in st.new_ids THEN None
      ELSE IF st.old_values[id] # None THEN st.old_values[id]
      ELSE d.objects[id]],
   nextId |-> [i \in Indexes |->
      IF st.old_next[i] # NoId THEN st.old_next[i] ELSE d.nextId[i]]]

\* Restoring throws, and a session's destructor then terminates the node,
\* when an object to restore or to remove is missing or one to insert exists.
RestoreThrows(st, d) ==
  \E id \in Ids :
    \/ (st.old_values[id] # None \/ id \in st.new_ids) /\ d.objects[id] = None
    \/ st.removed[id] # None /\ id \notin st.new_ids /\ d.objects[id] # None

(* merge(): prev_state := the composition of prev_state (a) and state (b). *)
\* merge() that forgets "new + del -> nop".
MergedKeepNew(a, b) ==
  [old_values |-> [id \in Ids |->
      IF b.removed[id] # None THEN None
      ELSE IF id \in a.new_ids \/ a.old_values[id] # None THEN a.old_values[id]
      ELSE b.old_values[id]],
   new_ids |-> a.new_ids \cup b.new_ids,
   old_next |-> [i \in Indexes |-> IF a.old_next[i] # NoId THEN a.old_next[i] ELSE b.old_next[i]],
   removed |-> [id \in Ids |->
      IF b.removed[id] = None THEN a.removed[id]
      ELSE IF id \in a.new_ids THEN a.removed[id]
      ELSE IF a.old_values[id] # None THEN a.old_values[id]
      ELSE b.removed[id]]]

Merged(a, b) ==
  LET \* after the *+upd loop
      upd == [id \in Ids |->
                IF id \in a.new_ids \/ a.old_values[id] # None
                THEN a.old_values[id]
                ELSE b.old_values[id]]
      \* after the *+new loop
      new == a.new_ids \cup b.new_ids
  IN  [old_values |-> [id \in Ids |->
          IF b.removed[id] # None /\ id \notin new THEN None ELSE upd[id]],
       new_ids |-> {id \in new : b.removed[id] = None},
       old_next |-> [i \in Indexes |->
          IF a.old_next[i] # NoId THEN a.old_next[i] ELSE b.old_next[i]],
       removed |-> [id \in Ids |->
          IF b.removed[id] = None \/ id \in new THEN a.removed[id]
          ELSE IF upd[id] # None THEN upd[id]
          ELSE b.removed[id]]]

\* The combinations the table in merge() calls N/A.
MergeIllegal(a, b) ==
  \E id \in Ids :
    \/ id \in b.new_ids
       /\ (id \in a.new_ids \/ a.old_values[id] # None \/ a.removed[id] # None)
    \/ a.removed[id] # None /\ (b.old_values[id] # None \/ b.removed[id] # None)

-----------------------------------------------------------------------------
(* start_undo_session drops the oldest states down to max_size, then pushes.*)
Pruned(s, size) ==
  IF Len(s) > size THEN SubSeq(s, Len(s) - size + 1, Len(s)) ELSE s

Push(size, flag) ==
  /\ stack' = Append(Pruned(stack, size), EmptyState)
  /\ versions' = Append(Pruned(versions, size), Database)
  /\ sessions' = Append(sessions, flag)
  /\ UNCHANGED <<objects, nextId>>

\* Block, pending, temporary and validation sessions.  The chain nests at most
\* two of them (a temporary one inside the pending one) and starts none while
\* undo is disabled.
StartSession ==
  /\ ~disabled
  /\ Len(sessions) <= 1
  /\ Push(maxSize, FALSE)
  /\ UNCHANGED <<disabled, maxSize>>

\* push_proposal without the growth of max_size.
StartForcedNoGrowth ==
  /\ Len(sessions) < 2 + MaxForced
  /\ Push(maxSize, disabled)
  /\ disabled' = FALSE
  /\ maxSize' = maxSize

\* The sessions of push_proposal and try_push_virtual_operation: they enable
\* undo if need be and first make room, so that nothing is dropped.
StartForcedSession ==
  /\ Len(sessions) < 2 + MaxForced
  /\ LET size == IF Len(stack) >= maxSize THEN Len(stack) + 1 ELSE maxSize
     IN  /\ Push(size, disabled)
         /\ maxSize' = size
  /\ disabled' = FALSE

\* A hook works on the top undo_state, pushing an empty one if there is none.
Hooked(st) ==
  IF disabled THEN UNCHANGED <<stack, versions>>
  ELSE IF stack = << >>
       THEN stack' = <<st>> /\ versions' = <<Database>>
       ELSE stack' = [stack EXCEPT ![Len(stack)] = st] /\ versions' = versions

TopState == IF stack = << >> THEN EmptyState ELSE Top(stack)

Create(i, v) ==
  /\ nextId[i] < MaxInstance
  /\ LET id == <<i, nextId[i]>>
     IN  /\ objects' = [objects EXCEPT ![id] = v]
         /\ Hooked(RecordCreate(TopState, id))
  /\ nextId' = [nextId EXCEPT ![i] = @ + 1]
  /\ UNCHANGED <<sessions, disabled, maxSize>>

Modify(id, v) ==
  /\ objects[id] # None
  /\ Hooked(RecordModify(TopState, id, objects[id]))
  /\ objects' = [objects EXCEPT ![id] = v]
  /\ UNCHANGED <<nextId, sessions, disabled, maxSize>>

\* Remove that gives the instance back to the index.
RemoveReusesId(id) ==
  /\ objects[id] # None
  /\ Hooked(RecordRemove(TopState, id, objects[id]))
  /\ objects' = [objects EXCEPT ![id] = None]
  /\ nextId' = [nextId EXCEPT ![id[1]] = id[2]]
  /\ UNCHANGED <<sessions, disabled, maxSize>>

Remove(id) ==
  /\ objects[id] # None
  /\ Hooked(RecordRemove(TopState, id, objects[id]))
  /\ objects' = [objects EXCEPT ![id] = None]
  /\ UNCHANGED <<nextId, sessions, disabled, maxSize>>

PopTop ==
  /\ stack' = Front(stack)
  /\ versions' = Front(versions)

\* undo() that does not set the next ids back.
UndoKeepsNextId ==
  /\ ~disabled
  /\ sessions # << >>
  /\ objects' = Restored(Top(stack), Database).objects
  /\ PopTop
  /\ disabled' = Top(sessions)
  /\ sessions' = Front(sessions)
  /\ UNCHANGED <<nextId, maxSize>>

\* undo(), by a call or by the destructor of the newest session.
Undo ==
  /\ ~disabled
  /\ sessions # << >>
  /\ LET d == Restored(Top(stack), Database)
     IN  objects' = d.objects /\ nextId' = d.nextId
  /\ PopTop
  /\ disabled' = Top(sessions)
  /\ sessions' = Front(sessions)
  /\ maxSize' = maxSize

\* merge(): a lone undo_state is simply forgotten.
Merge ==
  /\ sessions # << >>
  /\ \/ /\ Len(sessions) = 1 /\ Len(stack) = 1
        /\ stack' = << >>
     \/ /\ Len(stack) >= 2
        /\ stack' = [Front(stack) EXCEPT ![Len(stack) - 1] = Merged(@, Top(stack))]
  /\ versions' = Front(versions)
  /\ disabled' = (disabled \/ Top(sessions))
  /\ sessions' = Front(sessions)
  /\ UNCHANGED <<objects, nextId, maxSize>>

\* commit(): only block sessions are committed, and they are never forced.
Commit ==
  /\ sessions = <<FALSE>>
  /\ sessions' = << >>
  /\ UNCHANGED <<objects, nextId, stack, disabled, maxSize, versions>>

\* pop_commit() leaves undo enabled.
PopCommit ==
  /\ sessions = << >>
  /\ stack # << >>
  /\ LET d == Restored(Top(stack), Database)
     IN  objects' = d.objects /\ nextId' = d.nextId
  /\ PopTop
  /\ disabled' = FALSE
  /\ UNCHANGED <<sessions, maxSize>>

\* update_global_dynamic_data, inside the session of a block.
SetMaxSize(n) ==
  /\ Len(sessions) <= 1
  /\ maxSize' = n
  /\ UNCHANGED <<objects, nextId, stack, sessions, disabled, versions>>

\* init_genesis and reindex switch recording off before anything is recorded.
Disable ==
  /\ sessions = << >> /\ stack = << >>
  /\ disabled' = TRUE
  /\ UNCHANGED <<objects, nextId, stack, sessions, maxSize, versions>>

Enable ==
  /\ sessions = << >>
  /\ disabled' = FALSE
  /\ UNCHANGED <<objects, nextId, stack, sessions, maxSize, versions>>

-----------------------------------------------------------------------------
Init ==
  /\ objects = [id \in Ids |-> None]
  /\ nextId = [i \in Indexes |-> 0]
  /\ stack = << >>
  /\ sessions = << >>
  /\ disabled = TRUE
  /\ maxSize \in 1..MaxHistory
  /\ versions = << >>

Next ==
  \/ StartSession
  \/ StartForcedSession
  \/ \E i \in Indexes, v \in Values : Create(i, v)
  \/ \E id \in Ids, v \in Values : Modify(id, v)
  \/ \E id \in Ids : Remove(id)
  \/ Undo
  \/ Merge
  \/ Commit
  \/ PopCommit
  \/ \E n \in 1..MaxHistory : SetMaxSize(n)
  \/ Disable
  \/ Enable

Spec == Init /\ [][Next]_vars

-----------------------------------------------------------------------------
Databases == [objects : [Ids -> MaybeValue], nextId : [Indexes -> Nat]]

\* Types of the objects, the undo_states and the versions; max_size, from
\* which start_undo_session computes what to drop, is never zero.
TypeOK ==
  /\ Database \in Databases
  /\ stack \in Seq(UndoStates)
  /\ versions \in Seq(Databases)
  /\ sessions \in Seq(BOOLEAN)
  /\ disabled \in BOOLEAN
  /\ maxSize \in Nat \ {0}

\* The version that followed the i-th undo_state: the next one on the stack,
\* or the present database.
After(i) == IF i < Len(stack) THEN versions[i + 1] ELSE Database

\* For every undo_state on the stack, at any depth: undoing everything above
\* it and then it (undo, pop_commit) brings back exactly the objects and the
\* next ids that the database had when the state was pushed, whatever mixture
\* of creates, modifies, removes, merges and nested undos came in between.
LayersRestore ==
  /\ Len(versions) = Len(stack)
  /\ \A i \in 1..Len(stack) : Restored(stack[i], After(i)) = versions[i]

\* Undoing never throws: every object the undo_states restore or delete is
\* there and every object they re-insert is not.  undo() runs in a session's
\* destructor, where an exception terminates the node.
RestoreNeverThrows ==
  \A i \in 1..Len(stack) : ~RestoreThrows(stack[i], After(i))

\* Two neighbouring undo_states are never in one of the combinations that the
\* table in merge() calls N/A (its assert()s vanish in a release build).
MergeIsCausal ==
  \A i \in 1 .. Len(stack) - 1 : ~MergeIllegal(stack[i], stack[i + 1])

\* Every live session still has its undo_state: dropping old states at
\* max_size never reaches into the states of running sessions, so undo() and
\* merge() never work on the state of another session or on an empty stack.
SessionsHaveStates ==
  Len(sessions) <= Len(stack)

\* While recording is off nothing is left on the stack, so nothing recorded
\* can go stale by changes that are not recorded.
DisabledMeansEmpty ==
  disabled => stack = << >>

Abstract == INSTANCE VersionStack WITH
  db <- Database, saved <- versions, active <- Len(sessions)

\* The undo database, which only records differences, keeps the promise of
\* VersionStack, a stack of whole copies: every start, undo, merge, commit and
\* pop_commit does to the objects and next ids what it would do to the copies.
AbstractSpec == Abstract!Spec
=============================================================================
