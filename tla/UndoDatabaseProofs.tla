------------------------- MODULE UndoDatabaseProofs -------------------------
(***************************************************************************)
(* Proofs about UndoDatabase, for any indexes, values and bounds: undoing  *)
(* always restores, never throws, merges are causal, running sessions keep *)
(* their undo_states, and the module implements VersionStack.              *)
(*                                                                         *)
(* The properties are not inductive: Restored only says what comes back,   *)
(* while merge() and the hooks branch on which of the four relations       *)
(* (new, upd, del, nop) an object has to an undo_state.  Entry states that *)
(* relation between an undo_state, the database before it and the one      *)
(* after it; ids are never reused within a version line (NextEntry), which *)
(* is what rules the N/A combinations out.                                 *)
(***************************************************************************)
EXTENDS UndoDatabase, TLAPS

Entry(st, b, a, id) ==
  \/ /\ id \in st.new_ids /\ st.old_values[id] = None /\ st.removed[id] = None
     /\ b.objects[id] = None /\ a.objects[id] # None /\ b.nextId[id[1]] <= id[2]
  \/ /\ id \notin st.new_ids /\ st.old_values[id] # None /\ st.removed[id] = None
     /\ b.objects[id] = st.old_values[id] /\ a.objects[id] # None
  \/ /\ id \notin st.new_ids /\ st.old_values[id] = None /\ st.removed[id] # None
     /\ b.objects[id] = st.removed[id] /\ a.objects[id] = None
  \/ /\ id \notin st.new_ids /\ st.old_values[id] = None /\ st.removed[id] = None
     /\ b.objects[id] = a.objects[id]

NextEntry(st, b, a, i) ==
  /\ b.nextId[i] <= a.nextId[i]
  /\ st.old_next[i] # NoId => b.nextId[i] = st.old_next[i]
  /\ st.old_next[i] = NoId => b.nextId[i] = a.nextId[i]

\* st records exactly how the database went from b to a.
Layer(st, b, a) ==
  /\ \A id \in Ids : Entry(st, b, a, id)
  /\ \A i \in Indexes : NextEntry(st, b, a, i)

\* Every id in use is one that its index has handed out.
IdsUsed(d) == \A id \in Ids : d.objects[id] # None => id[2] < d.nextId[id[1]]

SessionFlags ==
  \A j \in 1..Len(sessions) : sessions[j] => j = 1 /\ Len(stack) = Len(sessions)

\* The undo_states ss record the way from each version in vs to the next one
\* and from the last to the database d.
Layers(ss, vs, d) ==
  /\ Len(vs) = Len(ss)
  /\ \A i \in 1..Len(ss) : Layer(ss[i], vs[i], IF i < Len(ss) THEN vs[i + 1] ELSE d)
  /\ \A i \in 1..Len(ss) : IdsUsed(vs[i])
  /\ IdsUsed(d)

IndInv ==
  /\ TypeOK
  /\ Layers(stack, versions, Database)
  /\ SessionsHaveStates
  /\ DisabledMeansEmpty
  /\ SessionFlags

-----------------------------------------------------------------------------
(* The operators on undo_states, one lemma each.                           *)

\* An id is a pair of an index and an instance.
LEMMA IdsType ==
  \A id \in Ids : id[1] \in Indexes /\ id[2] \in Nat /\ id = <<id[1], id[2]>>
BY BoundsAssumption DEF Ids

\* Removing the last element of a sequence.
LEMMA FrontSeq ==
  ASSUME NEW S, NEW s \in Seq(S), s # << >>
  PROVE  /\ Front(s) \in Seq(S) /\ Len(s) \in Nat /\ Len(s) >= 1 /\ Len(Front(s)) = Len(s) - 1
         /\ \A j \in 1 .. Len(s) - 1 : Front(s)[j] = s[j]
         /\ Top(s) \in S
<1>1. Len(s) \in Nat /\ Len(s) >= 1
  OBVIOUS
<1>2. Len(Front(s)) = Len(s) - 1
  BY <1>1, SMTT(30) DEF Front
<1>3. \A j \in 1 .. Len(s) - 1 : Front(s)[j] = s[j]
  BY <1>1 DEF Front
<1>4. Top(s) \in S
  BY <1>1 DEF Top
<1>5. Front(s) \in Seq(S)
  <2>1. \A i \in 1 .. Len(s) - 1 : s[i] \in S
    BY <1>1
  <2> QED BY <1>1, <2>1 DEF Front
<1> QED BY <1>1, <1>2, <1>3, <1>4, <1>5

\* The empty sequence, as the stack is in the beginning.
LEMMA EmptySeq == \A S : << >> \in Seq(S) /\ Len(<< >>) = 0
OBVIOUS

\* A freshly pushed undo_state (start_undo_session, or a hook on an empty
\* stack) records that nothing has changed.
LEMMA EmptyLayer ==
  ASSUME NEW d \in Databases
  PROVE  EmptyState \in UndoStates /\ Layer(EmptyState, d, d)
<1>1. EmptyState \in UndoStates
  BY DEF EmptyState, UndoStates, MaybeValue, NoId
<1>2. \A id \in Ids : Entry(EmptyState, d, d, id)
  BY DEF Entry, EmptyState
<1>3. \A i \in Indexes : NextEntry(EmptyState, d, d, i)
  BY DEF NextEntry, EmptyState, Databases
<1> QED BY <1>1, <1>2, <1>3 DEF Layer

\* undo() and pop_commit() bring back the database before the undo_state and
\* find every object they look for.
LEMMA RestoredLayer ==
  ASSUME NEW st \in UndoStates, NEW b \in Databases, NEW a \in Databases,
         Layer(st, b, a)
  PROVE  Restored(st, a) = b /\ ~RestoreThrows(st, a)
<1>1. \A id \in Ids : Restored(st, a).objects[id] = b.objects[id]
  BY DEF Layer, Entry, Restored
<1>2. \A i \in Indexes : Restored(st, a).nextId[i] = b.nextId[i]
  BY DEF Layer, NextEntry, Restored
<1>3. b.objects = [id \in Ids |-> b.objects[id]] /\ b.nextId = [i \in Indexes |-> b.nextId[i]]
      /\ b = [objects |-> b.objects, nextId |-> b.nextId]
  BY DEF Databases
<1>4. Restored(st, a).objects = [id \in Ids |-> Restored(st, a).objects[id]]
      /\ Restored(st, a).nextId = [i \in Indexes |-> Restored(st, a).nextId[i]]
      /\ Restored(st, a) = [objects |-> Restored(st, a).objects, nextId |-> Restored(st, a).nextId]
  BY DEF Restored
<1>5. Restored(st, a).objects = b.objects
  BY <1>1, <1>3, <1>4
<1>6. Restored(st, a).nextId = b.nextId
  BY <1>2, <1>3, <1>4
<1>7. ~RestoreThrows(st, a)
  BY DEF RestoreThrows, Layer, Entry
<1> QED BY <1>3, <1>4, <1>5, <1>6, <1>7

\* on_create keeps the undo_state exact.
LEMMA CreateLayer ==
  ASSUME NEW st \in UndoStates, NEW b \in Databases, NEW a \in Databases,
         NEW c \in Databases, NEW id \in Ids, NEW v \in Values,
         Layer(st, b, a), IdsUsed(b), IdsUsed(a), id[2] = a.nextId[id[1]],
         c.objects = [a.objects EXCEPT ![id] = v],
         c.nextId = [a.nextId EXCEPT ![id[1]] = @ + 1]
  PROVE  /\ RecordCreate(st, id) \in UndoStates
         /\ Layer(RecordCreate(st, id), b, c)
         /\ IdsUsed(c)
<1> DEFINE r == RecordCreate(st, id)
<1>0. id[1] \in Indexes /\ id[2] \in Nat
  BY IdsType
<1> DEFINE nx == [st.old_next EXCEPT ![id[1]] = IF @ = NoId THEN id[2] ELSE @]
<1>1. nx \in [Indexes -> Int]
  BY <1>0 DEF UndoStates
<1>2. /\ r \in UndoStates
      /\ r.old_values = st.old_values /\ r.removed = st.removed
      /\ r.new_ids = st.new_ids \cup {id}
      /\ r.old_next = nx
  <2>1. r = [st EXCEPT !.old_next = nx, !.new_ids = @ \cup {id}]
    BY DEF RecordCreate
  <2> HIDE DEF r, nx
  <2> QED BY <1>1, <2>1 DEF UndoStates
<1>3. \A x \in Ids : Entry(r, b, c, x)
  <2> SUFFICES ASSUME NEW x \in Ids PROVE Entry(r, b, c, x)
    OBVIOUS
  <2>1. CASE x # id
    BY <1>2, <2>1 DEF Layer, Entry, Databases
  <2>2. CASE x = id
    <3>1. a.objects[id] = None
      BY <1>0 DEF IdsUsed, Databases
    <3>2. b.nextId[id[1]] <= id[2]
      BY <1>0 DEF Layer, NextEntry
    <3>3. b.objects[id] = None
      BY <3>2, <1>0 DEF IdsUsed, Databases
    <3>4. st.old_values[id] = None /\ st.removed[id] = None
      BY <3>1, <3>3 DEF Layer, Entry
    <3>5. c.objects[id] # None
      BY ValuesAssumption DEF Databases
    <3> QED BY <1>2, <2>2, <3>1, <3>2, <3>3, <3>4, <3>5 DEF Entry
  <2> QED BY <2>1, <2>2
<1>4. ASSUME NEW i \in Indexes PROVE NextEntry(r, b, c, i)
  <2>1. NextEntry(st, b, a, i) /\ b.nextId[i] \in Nat /\ a.nextId[i] \in Nat
    BY DEF Layer, Databases
  <2>2. CASE i # id[1]
    <3>1. r.old_next[i] = st.old_next[i] /\ c.nextId[i] = a.nextId[i]
      BY <1>0, <1>2, <2>2 DEF Databases, UndoStates
    <3> QED BY <2>1, <3>1 DEF NextEntry
  <2>3. CASE i = id[1]
    <3>1. /\ r.old_next[i] = (IF st.old_next[i] = NoId THEN id[2] ELSE st.old_next[i])
          /\ c.nextId[i] = a.nextId[i] + 1
      BY <1>0, <1>2, <2>3 DEF Databases, UndoStates
    <3> QED BY <1>0, <2>1, <2>3, <3>1 DEF NextEntry, NoId
  <2> QED BY <2>2, <2>3
<1>5. IdsUsed(c)
  BY <1>0 DEF IdsUsed, Databases, Ids
<1> QED BY <1>2, <1>3, <1>4, <1>5 DEF Layer

\* on_modify keeps the undo_state exact.
LEMMA ModifyLayer ==
  ASSUME NEW st \in UndoStates, NEW b \in Databases, NEW a \in Databases,
         NEW c \in Databases, NEW id \in Ids, NEW v \in Values,
         Layer(st, b, a), IdsUsed(a), a.objects[id] # None,
         c.objects = [a.objects EXCEPT ![id] = v], c.nextId = a.nextId
  PROVE  /\ RecordModify(st, id, a.objects[id]) \in UndoStates
         /\ Layer(RecordModify(st, id, a.objects[id]), b, c)
         /\ IdsUsed(c)
<1> DEFINE r == RecordModify(st, id, a.objects[id])
<1>1. r \in UndoStates
  BY DEF RecordModify, UndoStates, Databases
<1>2. /\ r.removed = st.removed /\ r.new_ids = st.new_ids /\ r.old_next = st.old_next
      /\ r.old_values = IF id \in st.new_ids \/ st.old_values[id] # None THEN st.old_values
                        ELSE [st.old_values EXCEPT ![id] = a.objects[id]]
  BY DEF RecordModify, UndoStates
<1>3. c.objects[id] # None
  BY ValuesAssumption DEF Databases
<1>4. \A x \in Ids : Entry(r, b, c, x)
  BY <1>2, <1>3 DEF Layer, Entry, Databases, UndoStates
<1>5. \A i \in Indexes : NextEntry(r, b, c, i)
  BY <1>2 DEF Layer, NextEntry
<1>6. IdsUsed(c)
  BY DEF IdsUsed, Databases
<1> QED BY <1>1, <1>4, <1>5, <1>6 DEF Layer

\* on_remove keeps the undo_state exact.
LEMMA RemoveLayer ==
  ASSUME NEW st \in UndoStates, NEW b \in Databases, NEW a \in Databases,
         NEW c \in Databases, NEW id \in Ids,
         Layer(st, b, a), IdsUsed(a), a.objects[id] # None,
         c.objects = [a.objects EXCEPT ![id] = None], c.nextId = a.nextId
  PROVE  /\ RecordRemove(st, id, a.objects[id]) \in UndoStates
         /\ Layer(RecordRemove(st, id, a.objects[id]), b, c)
         /\ IdsUsed(c)
<1> DEFINE r == RecordRemove(st, id, a.objects[id])
<1>1. r \in UndoStates
  BY DEF RecordRemove, UndoStates, Databases, MaybeValue
<1>2. Entry(st, b, a, id)
  BY DEF Layer
<1>3. c.objects[id] = None
  BY DEF Databases
<1>4. ASSUME NEW x \in Ids PROVE Entry(r, b, c, x)
  <2>1. CASE id \in st.new_ids
    <3>1. r.removed = st.removed /\ r.old_values = st.old_values /\ r.new_ids = st.new_ids \ {id}
      BY <2>1 DEF RecordRemove, UndoStates
    <3> QED BY <1>2, <1>3, <2>1, <3>1 DEF Layer, Entry, Databases
  <2>2. CASE id \notin st.new_ids /\ st.old_values[id] # None
    <3>1. /\ r.removed = [st.removed EXCEPT ![id] = st.old_values[id]]
          /\ r.old_values = [st.old_values EXCEPT ![id] = None]
          /\ r.new_ids = st.new_ids
      BY <2>2 DEF RecordRemove, UndoStates
    <3> QED BY <1>2, <1>3, <2>2, <3>1 DEF Layer, Entry, Databases, UndoStates
  <2>3. CASE id \notin st.new_ids /\ st.old_values[id] = None
    <3>1. st.removed[id] = None
      BY <1>2, <2>3 DEF Entry
    <3>2. /\ r.removed = [st.removed EXCEPT ![id] = a.objects[id]]
          /\ r.old_values = st.old_values /\ r.new_ids = st.new_ids
      BY <2>3, <3>1 DEF RecordRemove, UndoStates
    <3> QED BY <1>2, <1>3, <2>3, <3>1, <3>2 DEF Layer, Entry, Databases, UndoStates
  <2> QED BY <2>1, <2>2, <2>3
<1>5. r.old_next = st.old_next
  BY DEF RecordRemove, UndoStates
<1>6. \A i \in Indexes : NextEntry(r, b, c, i)
  BY <1>5 DEF Layer, NextEntry
<1>7. IdsUsed(c)
  BY DEF IdsUsed, Databases
<1> QED BY <1>1, <1>4, <1>6, <1>7 DEF Layer

\* merge(): the composition of two neighbouring undo_states is exact, and no
\* N/A combination of its table occurs.
LEMMA MergedLayer ==
  ASSUME NEW p \in UndoStates, NEW s \in UndoStates, NEW x \in Databases,
         NEW y \in Databases, NEW z \in Databases,
         Layer(p, x, y), Layer(s, y, z), IdsUsed(x), IdsUsed(y)
  PROVE  /\ Merged(p, s) \in UndoStates
         /\ Layer(Merged(p, s), x, z)
         /\ ~MergeIllegal(p, s)
<1> DEFINE m == Merged(p, s)
<1>1. m \in UndoStates
  BY DEF Merged, UndoStates, MaybeValue
<1>2. ASSUME NEW id \in Ids
      PROVE  /\ Entry(m, x, z, id)
             /\ ~(id \in s.new_ids
                   /\ (id \in p.new_ids \/ p.old_values[id] # None \/ p.removed[id] # None))
             /\ ~(p.removed[id] # None /\ (s.old_values[id] # None \/ s.removed[id] # None))
  <2>1. Entry(p, x, y, id) /\ Entry(s, y, z, id)
    BY <1>2 DEF Layer
  <2>2. id[1] \in Indexes /\ id[2] \in Nat
    BY <1>2, IdsType
  <2>3. x.nextId[id[1]] <= y.nextId[id[1]] /\ x.nextId[id[1]] \in Nat /\ y.nextId[id[1]] \in Nat
    BY <2>2 DEF Layer, NextEntry, Databases
  <2>4. x.objects[id] # None => id[2] < x.nextId[id[1]]
    BY <1>2 DEF IdsUsed
  <2>5. id \in s.new_ids => x.objects[id] = None /\ x.nextId[id[1]] <= id[2]
    BY <2>1, <2>2, <2>3, <2>4 DEF Entry
  <2>6. /\ m.old_values[id] = (IF s.removed[id] # None /\ id \notin p.new_ids \cup s.new_ids THEN None
              ELSE IF id \in p.new_ids \/ p.old_values[id] # None THEN p.old_values[id]
              ELSE s.old_values[id])
        /\ (id \in m.new_ids) = (id \in p.new_ids \cup s.new_ids /\ s.removed[id] = None)
        /\ m.removed[id] = (IF s.removed[id] = None \/ id \in p.new_ids \cup s.new_ids THEN p.removed[id]
              ELSE IF id \in p.new_ids \/ p.old_values[id] # None THEN
                     (IF p.old_values[id] # None THEN p.old_values[id] ELSE s.removed[id])
              ELSE IF s.old_values[id] # None THEN s.old_values[id] ELSE s.removed[id])
    BY <1>2 DEF Merged, UndoStates
  <2>7. Entry(m, x, z, id)
    BY <2>1, <2>2, <2>3, <2>5, <2>6 DEF Entry
  <2>8. id \in s.new_ids => y.objects[id] = None
    BY <2>1 DEF Entry
  <2> QED BY <2>1, <2>5, <2>7, <2>8 DEF Entry
<1>3. m.old_next = [i \in Indexes |-> IF p.old_next[i] # NoId THEN p.old_next[i] ELSE s.old_next[i]]
  BY DEF Merged
<1>4. ASSUME NEW i \in Indexes PROVE NextEntry(m, x, z, i)
  <2>1. /\ NextEntry(p, x, y, i) /\ NextEntry(s, y, z, i)
        /\ x.nextId[i] \in Nat /\ y.nextId[i] \in Nat /\ z.nextId[i] \in Nat
    BY DEF Layer, Databases
  <2>2. m.old_next[i] = IF p.old_next[i] # NoId THEN p.old_next[i] ELSE s.old_next[i]
    BY <1>3
  <2> QED BY <2>1, <2>2 DEF NextEntry
<1>5. ~MergeIllegal(p, s)
  BY <1>2 DEF MergeIllegal
<1> QED BY <1>1, <1>2, <1>4, <1>5 DEF Layer

-----------------------------------------------------------------------------
(* The same for whole stacks.                                              *)

\* A session starts: dropping old undo_states and pushing an empty one.
LEMMA PushLayers ==
  ASSUME NEW ss \in Seq(UndoStates), NEW vs \in Seq(Databases), NEW d \in Databases,
         NEW n \in Nat, Layers(ss, vs, d)
  PROVE  /\ Append(Pruned(ss, n), EmptyState) \in Seq(UndoStates)
         /\ Append(Pruned(vs, n), d) \in Seq(Databases)
         /\ Layers(Append(Pruned(ss, n), EmptyState), Append(Pruned(vs, n), d), d)
         /\ Len(Append(Pruned(ss, n), EmptyState)) = (IF Len(ss) > n THEN n ELSE Len(ss)) + 1
<1> DEFINE k == IF Len(ss) > n THEN Len(ss) - n ELSE 0
<1> DEFINE m == Len(ss) - k
<1> DEFINE ps == Pruned(ss, n)
<1> DEFINE pv == Pruned(vs, n)
<1>1. /\ Len(ss) \in Nat /\ Len(vs) = Len(ss) /\ k \in Nat /\ m \in Nat /\ k + m = Len(ss)
      /\ m = IF Len(ss) > n THEN n ELSE Len(ss)
  BY DEF Layers
<1>2. /\ ps \in Seq(UndoStates) /\ Len(ps) = m
      /\ \A i \in 1..m : ps[i] = ss[i + k]
  <2>1. CASE Len(ss) > n
    BY <1>1, <2>1 DEF Pruned
  <2>2. CASE ~(Len(ss) > n)
    BY <1>1, <2>2 DEF Pruned
  <2> QED BY <2>1, <2>2
<1>3. /\ pv \in Seq(Databases) /\ Len(pv) = m
      /\ \A i \in 1..m : pv[i] = vs[i + k]
  <2>1. CASE Len(ss) > n
    BY <1>1, <2>1 DEF Pruned
  <2>2. CASE ~(Len(ss) > n)
    BY <1>1, <2>2 DEF Pruned
  <2> QED BY <2>1, <2>2
<1> DEFINE as == Append(ps, EmptyState)
<1> DEFINE av == Append(pv, d)
<1>e. EmptyState \in UndoStates /\ Layer(EmptyState, d, d)
  BY EmptyLayer
<1> HIDE DEF k, m, ps, pv
<1>a. /\ as \in Seq(UndoStates) /\ Len(as) = m + 1 /\ as[m + 1] = EmptyState
      /\ \A i \in 1..m : as[i] = ps[i]
  BY <1>1, <1>2, <1>e
<1>b. /\ av \in Seq(Databases) /\ Len(av) = m + 1 /\ av[m + 1] = d
      /\ \A i \in 1..m : av[i] = pv[i]
  BY <1>1, <1>3
<1> HIDE DEF as, av
<1>4. \A i \in 1..m : as[i] = ss[i + k] /\ av[i] = vs[i + k]
  BY <1>2, <1>3, <1>a, <1>b
<1>5. ASSUME NEW i \in 1..Len(as)
      PROVE  Layer(as[i], av[i], IF i < Len(as) THEN av[i + 1] ELSE d) /\ IdsUsed(av[i])
  <2>0. i \in 1..(m + 1)
    BY <1>a
  <2>1. CASE i = m + 1
    <3>1. as[i] = EmptyState /\ av[i] = d
      BY <1>a, <1>b, <2>1
    <3>2. ~(i < Len(as))
      BY <1>1, <1>a, <2>1
    <3>3. IdsUsed(d)
      BY DEF Layers
    <3> QED BY <3>1, <3>2, <3>3, <1>e
  <2>2. CASE i < m
    <3>1. i + k \in 1..Len(ss) /\ i + k < Len(ss) /\ (i + 1) + k = (i + k) + 1 /\ i + 1 \in 1..m /\ i \in 1..m
      BY <1>1, <2>0, <2>2
    <3>2. i < Len(as)
      BY <1>1, <1>a, <2>0, <2>2
    <3>a. av[i + 1] = vs[(i + 1) + k]
      BY <1>4, <3>1
    <3>3. as[i] = ss[i + k] /\ av[i] = vs[i + k] /\ av[i + 1] = vs[(i + k) + 1]
      BY <1>4, <3>1, <3>a
    <3>4. Layer(ss[i + k], vs[i + k], vs[(i + k) + 1]) /\ IdsUsed(vs[i + k])
      BY <3>1 DEF Layers
    <3> QED BY <3>2, <3>3, <3>4
  <2>3. CASE i = m
    <3>1. i + k = Len(ss) /\ i + k \in 1..Len(ss) /\ i \in 1..m
      BY <1>1, <2>0, <2>3
    <3>2. i < Len(as) /\ av[i + 1] = d
      BY <1>1, <1>a, <1>b, <2>0, <2>3
    <3>3. as[i] = ss[i + k] /\ av[i] = vs[i + k]
      BY <1>4, <3>1
    <3>4. Layer(ss[i + k], vs[i + k], d) /\ IdsUsed(vs[i + k])
      BY <3>1 DEF Layers
    <3> QED BY <3>2, <3>3, <3>4
  <2>4. i = m + 1 \/ i < m \/ i = m
    BY <1>1, <2>0
  <2> QED BY <2>1, <2>2, <2>3, <2>4
<1>6. Layers(as, av, d)
  BY <1>a, <1>b, <1>5 DEF Layers
<1> QED BY <1>1, <1>a, <1>b, <1>6 DEF as, av, ps, pv

\* A hook replaces the undo_state on top.
LEMMA ReplaceTopLayers ==
  ASSUME NEW ss \in Seq(UndoStates), NEW vs \in Seq(Databases), NEW d \in Databases,
         NEW c \in Databases, NEW r \in UndoStates,
         Layers(ss, vs, d), ss # << >>,
         Layer(r, Top(vs), c), IdsUsed(c)
  PROVE  /\ [ss EXCEPT ![Len(ss)] = r] \in Seq(UndoStates)
         /\ Len([ss EXCEPT ![Len(ss)] = r]) = Len(ss)
         /\ Layers([ss EXCEPT ![Len(ss)] = r], vs, c)
<1> DEFINE rs == [ss EXCEPT ![Len(ss)] = r]
<1>1. Len(ss) \in Nat /\ Len(ss) >= 1
  OBVIOUS
<1>2. /\ rs \in Seq(UndoStates) /\ Len(rs) = Len(ss)
      /\ \A i \in 1..Len(ss) : rs[i] = IF i = Len(ss) THEN r ELSE ss[i]
  BY <1>1
<1> HIDE DEF rs
<1>3. Layers(rs, vs, c)
  BY <1>1, <1>2 DEF Layers, Top
<1> QED BY <1>2, <1>3 DEF rs

\* An undo_state is taken off: the database goes back to its version.
LEMMA PopLayers ==
  ASSUME NEW ss \in Seq(UndoStates), NEW vs \in Seq(Databases), NEW d \in Databases,
         Layers(ss, vs, d), ss # << >>
  PROVE  /\ Front(ss) \in Seq(UndoStates) /\ Front(vs) \in Seq(Databases)
         /\ Len(Front(ss)) = Len(ss) - 1
         /\ Layers(Front(ss), Front(vs), Top(vs))
         /\ Top(vs) \in Databases /\ Top(ss) \in UndoStates
         /\ Restored(Top(ss), d) = Top(vs)
         /\ Layer(Top(ss), Top(vs), d) /\ IdsUsed(Top(vs))
<1>1. Len(ss) \in Nat /\ Len(ss) >= 1 /\ Len(vs) = Len(ss)
  BY DEF Layers
<1>2. /\ Front(ss) \in Seq(UndoStates) /\ Len(Front(ss)) = Len(ss) - 1
      /\ \A i \in 1 .. Len(ss) - 1 : Front(ss)[i] = ss[i]
  BY <1>1 DEF Front
<1>3. /\ Front(vs) \in Seq(Databases) /\ Len(Front(vs)) = Len(ss) - 1
      /\ \A i \in 1 .. Len(ss) - 1 : Front(vs)[i] = vs[i]
  BY <1>1 DEF Front
<1>4. Top(vs) \in Databases /\ Top(ss) \in UndoStates
  BY <1>1 DEF Top
<1>5. Layer(Top(ss), Top(vs), d) /\ IdsUsed(Top(vs))
  BY <1>1 DEF Layers, Top
<1>6. Layers(Front(ss), Front(vs), Top(vs))
  <2>1. ASSUME NEW i \in 1..Len(Front(ss))
        PROVE  /\ Layer(Front(ss)[i], Front(vs)[i],
                         IF i < Len(Front(ss)) THEN Front(vs)[i + 1] ELSE Top(vs))
               /\ IdsUsed(Front(vs)[i])
    <3>1. i \in 1..Len(ss) /\ i < Len(ss) /\ i \in 1 .. Len(ss) - 1
      BY <1>1, <1>2
    <3>2. Layer(ss[i], vs[i], vs[i + 1]) /\ IdsUsed(vs[i])
      BY <3>1 DEF Layers
    <3>3. vs[i + 1] = IF i < Len(Front(ss)) THEN Front(vs)[i + 1] ELSE Top(vs)
      <4>1. CASE i < Len(Front(ss))
        BY <1>1, <1>2, <1>3, <3>1, <4>1
      <4>2. CASE ~(i < Len(Front(ss)))
        BY <1>1, <1>2, <3>1, <4>2 DEF Top
      <4> QED BY <4>1, <4>2
    <3> QED BY <1>2, <1>3, <3>1, <3>2, <3>3
  <2> QED BY <1>2, <1>3, <1>5, <2>1 DEF Layers
<1> QED BY <1>2, <1>3, <1>4, <1>5, <1>6, RestoredLayer

\* The two top undo_states become one.
LEMMA MergeLayers ==
  ASSUME NEW ss \in Seq(UndoStates), NEW vs \in Seq(Databases), NEW d \in Databases,
         Layers(ss, vs, d), Len(ss) >= 2
  PROVE  LET ms == [Front(ss) EXCEPT ![Len(ss) - 1] = Merged(@, Top(ss))]
         IN  /\ ms \in Seq(UndoStates) /\ Front(vs) \in Seq(Databases)
             /\ Len(ms) = Len(ss) - 1
             /\ Layers(ms, Front(vs), d)
<1> DEFINE n == Len(ss) - 1
<1> DEFINE r == Merged(ss[n], Top(ss))
<1>1. ss # << >> /\ n \in Nat /\ n >= 1 /\ Len(vs) = Len(ss) /\ Len(ss) = n + 1
  BY DEF Layers
<1>2. /\ Front(ss) \in Seq(UndoStates) /\ Front(vs) \in Seq(Databases)
      /\ Len(Front(ss)) = n /\ Layers(Front(ss), Front(vs), Top(vs))
      /\ Top(vs) \in Databases /\ Top(ss) \in UndoStates
      /\ Layer(Top(ss), Top(vs), d) /\ IdsUsed(Top(vs))
  BY <1>1, PopLayers
<1>3. /\ Front(ss)[n] = ss[n] /\ Front(ss) # << >> /\ ss[n] \in UndoStates
      /\ Top(Front(vs)) = vs[n] /\ Top(vs) = vs[n + 1] /\ vs[n] \in Databases
  <2>1. Len(Front(ss)) = n /\ Front(ss)[n] = ss[n] /\ ss[n] \in UndoStates
    BY <1>1 DEF Front
  <2>a. Front(ss) # << >>
    BY <1>1, <1>2
  <2>2. Len(Front(vs)) = n /\ Front(vs)[n] = vs[n] /\ vs[n] \in Databases
    BY <1>1 DEF Front
  <2> QED BY <1>1, <2>1, <2>a, <2>2 DEF Top
<1>4. Layer(ss[n], vs[n], Top(vs)) /\ IdsUsed(vs[n]) /\ IdsUsed(d)
  BY <1>1, <1>3 DEF Layers
<1>5. r \in UndoStates /\ Layer(r, vs[n], d)
  BY <1>2, <1>3, <1>4, MergedLayer
<1>6. [Front(ss) EXCEPT ![Len(ss) - 1] = Merged(@, Top(ss))] = [Front(ss) EXCEPT ![Len(Front(ss))] = r]
  BY <1>2, <1>3
<1> HIDE DEF r
<1> QED BY <1>1, <1>2, <1>3, <1>4, <1>5, <1>6, ReplaceTopLayers

-----------------------------------------------------------------------------
(* The inductive invariant.                                                *)

\* The inductive invariant holds when the database is opened.
LEMMA InitIndInv == Init => IndInv
<1> SUFFICES ASSUME Init PROVE IndInv
  OBVIOUS
<1>1. Database \in Databases
  BY DEF Init, Database, Databases, MaybeValue
<1>2. TypeOK
  BY <1>1, BoundsAssumption DEF Init, TypeOK
<1>3. Layers(stack, versions, Database)
  BY DEF Init, Layers, IdsUsed, Database
<1> QED BY <1>2, <1>3 DEF Init, IndInv, SessionsHaveStates, DisabledMeansEmpty, SessionFlags

\* A session starts (with room for size undo_states).
LEMMA PushIndInv ==
  ASSUME IndInv, NEW size \in Nat \ {0}, NEW flag \in BOOLEAN,
         Push(size, flag), maxSize' \in Nat \ {0}, disabled' = FALSE,
         Len(sessions) <= 1 \/ size >= Len(stack), flag => disabled
  PROVE  IndInv'
<1>1. Database' = Database /\ Database \in Databases
  BY DEF Push, Database, IndInv, TypeOK
<1>2. /\ stack' \in Seq(UndoStates) /\ versions' \in Seq(Databases)
      /\ Layers(stack', versions', Database)
      /\ Len(stack') = (IF Len(stack) > size THEN size ELSE Len(stack)) + 1
  BY <1>1, PushLayers DEF Push, IndInv, TypeOK
<1>3. /\ sessions' \in Seq(BOOLEAN) /\ Len(sessions') = Len(sessions) + 1
      /\ \A j \in 1..Len(sessions) : sessions'[j] = sessions[j]
      /\ sessions'[Len(sessions) + 1] = flag
      /\ Len(sessions) \in Nat /\ Len(stack) \in Nat
  BY DEF Push, IndInv, TypeOK
<1>4. TypeOK'
  BY <1>1, <1>2, <1>3 DEF TypeOK
<1>5. Len(sessions) <= Len(stack)
  BY DEF IndInv, SessionsHaveStates
<1>6. SessionsHaveStates'
  BY <1>2, <1>3, <1>5 DEF SessionsHaveStates
<1>7. SessionFlags'
  <2> SUFFICES ASSUME NEW j \in 1..Len(sessions'), sessions'[j]
               PROVE  j = 1 /\ Len(stack') = Len(sessions')
    BY DEF SessionFlags
  <2>1. CASE j = Len(sessions) + 1
    <3>1. stack = << >> /\ Len(stack) = 0
      BY <1>3, <2>1 DEF IndInv, DisabledMeansEmpty
    <3> QED BY <1>2, <1>3, <1>5, <2>1, <3>1
  <2>2. CASE j # Len(sessions) + 1
    <3>1. j \in 1..Len(sessions) /\ sessions[j]
      BY <1>3, <2>2
    <3>2. j = 1 /\ Len(stack) = Len(sessions)
      BY <3>1 DEF IndInv, SessionFlags
    <3> QED BY <1>2, <1>3, <3>2
  <2> QED BY <2>1, <2>2
<1>8. DisabledMeansEmpty'
  BY DEF DisabledMeansEmpty
<1> QED BY <1>1, <1>2, <1>4, <1>6, <1>7, <1>8 DEF IndInv

\* A hook has recorded a change of the database in r.
LEMMA HookedIndInv ==
  ASSUME IndInv, NEW r, Hooked(r), Database' \in Databases, IdsUsed(Database'),
         \A b \in Databases :
            Layer(TopState, b, Database) /\ IdsUsed(b)
              => r \in UndoStates /\ Layer(r, b, Database'),
         sessions' = sessions, disabled' = disabled, maxSize' = maxSize
  PROVE  IndInv'
<1>0. /\ Database \in Databases /\ stack \in Seq(UndoStates) /\ versions \in Seq(Databases)
      /\ Layers(stack, versions, Database) /\ Len(versions) = Len(stack)
      /\ IdsUsed(Database) /\ Len(stack) \in Nat
  BY DEF IndInv, TypeOK, Layers
<1>1. /\ stack' \in Seq(UndoStates) /\ versions' \in Seq(Databases)
      /\ Layers(stack', versions', Database') /\ Len(stack') >= Len(stack)
      /\ Len(sessions) > 0 => Len(stack') = Len(stack)
      /\ disabled => stack' = stack
  <2>1. CASE disabled
    <3>1. stack = << >> /\ stack' = stack /\ versions' = versions /\ Len(stack) = 0
      BY <2>1 DEF IndInv, DisabledMeansEmpty, Hooked
    <3> QED BY <1>0, <3>1 DEF Layers
  <2>2. CASE ~disabled /\ stack = << >>
    <3>1. stack' = <<r>> /\ versions' = <<Database>> /\ TopState = EmptyState /\ Len(stack) = 0
      BY <2>2 DEF Hooked, TopState
    <3>2. r \in UndoStates /\ Layer(r, Database, Database')
      BY <1>0, <3>1, EmptyLayer
    <3>3. Layers(stack', versions', Database')
      BY <1>0, <3>1, <3>2 DEF Layers
    <3>4. ~(Len(sessions) > 0)
      BY <3>1 DEF IndInv, SessionsHaveStates, TypeOK
    <3> QED BY <1>0, <2>2, <3>1, <3>2, <3>3, <3>4
  <2>3. CASE ~disabled /\ stack # << >>
    <3>1. stack' = [stack EXCEPT ![Len(stack)] = r] /\ versions' = versions /\ TopState = Top(stack)
      BY <2>3 DEF Hooked, TopState
    <3>2. Layer(Top(stack), Top(versions), Database) /\ IdsUsed(Top(versions)) /\ Top(versions) \in Databases
      BY <1>0, <2>3, PopLayers
    <3>3. r \in UndoStates /\ Layer(r, Top(versions), Database')
      BY <3>1, <3>2
    <3>a. /\ [stack EXCEPT ![Len(stack)] = r] \in Seq(UndoStates)
          /\ Len([stack EXCEPT ![Len(stack)] = r]) = Len(stack)
          /\ Layers([stack EXCEPT ![Len(stack)] = r], versions, Database')
      BY <1>0, <2>3, <3>3, ReplaceTopLayers, Zenon
    <3>4. /\ stack' \in Seq(UndoStates) /\ Len(stack') = Len(stack)
          /\ Layers(stack', versions, Database')
      BY <3>1, <3>a
    <3> QED BY <1>0, <2>3, <3>1, <3>4
  <2> QED BY <2>1, <2>2, <2>3
<1>2. TypeOK'
  BY <1>1 DEF IndInv, TypeOK
<1>3. SessionsHaveStates' /\ DisabledMeansEmpty'
  BY <1>0, <1>1 DEF IndInv, TypeOK, SessionsHaveStates, DisabledMeansEmpty
<1>4. SessionFlags'
  BY <1>0, <1>1 DEF IndInv, TypeOK, SessionFlags
<1> QED BY <1>1, <1>2, <1>3, <1>4 DEF IndInv

\* The newest undo_state has been taken off and its version restored.
LEMMA PopTopIndInv ==
  ASSUME IndInv, stack # << >>, PopTop, Database' = Restored(Top(stack), Database),
         maxSize' = maxSize,
         \/ sessions = << >> /\ sessions' = sessions /\ disabled' = FALSE
         \/ sessions # << >> /\ sessions' = Front(sessions) /\ disabled' = Top(sessions)
  PROVE  IndInv'
<1>0. /\ Database \in Databases /\ stack \in Seq(UndoStates) /\ versions \in Seq(Databases)
      /\ Layers(stack, versions, Database) /\ sessions \in Seq(BOOLEAN)
      /\ Len(stack) \in Nat /\ Len(stack) > 0 /\ Len(sessions) \in Nat
      /\ Len(sessions) <= Len(stack)
  BY DEF IndInv, TypeOK, SessionsHaveStates
<1>1. /\ stack' \in Seq(UndoStates) /\ versions' \in Seq(Databases)
      /\ Len(stack') = Len(stack) - 1 /\ Database' \in Databases
      /\ Layers(stack', versions', Database')
  BY <1>0, PopLayers DEF PopTop
<1>2. CASE sessions = << >>
  <2>1. sessions' = << >> /\ disabled' = FALSE /\ Len(sessions') = 0
    BY <1>2
  <2>a. sessions' \in Seq(BOOLEAN) /\ disabled' \in BOOLEAN
    BY <2>1, EmptySeq, Zenon
  <2>b. maxSize' \in Nat \ {0}
    BY DEF IndInv, TypeOK
  <2>2. TypeOK'
    BY <1>1, <2>a, <2>b DEF TypeOK
  <2> QED BY <1>0, <1>1, <2>1, <2>2
          DEF IndInv, SessionsHaveStates, DisabledMeansEmpty, SessionFlags
<1>3. CASE sessions # << >>
  <2>1. /\ sessions' \in Seq(BOOLEAN) /\ Len(sessions') = Len(sessions) - 1
        /\ \A j \in 1..Len(sessions') : j \in 1..Len(sessions) /\ sessions'[j] = sessions[j]
        /\ disabled' = sessions[Len(sessions)] /\ disabled' \in BOOLEAN
        /\ Len(sessions) \in 1..Len(sessions)
    <3>1. sessions' = Front(sessions) /\ disabled' = sessions[Len(sessions)] /\ disabled' = Top(sessions)
      BY <1>3 DEF Top
    <3>2. /\ Front(sessions) \in Seq(BOOLEAN) /\ Len(Front(sessions)) = Len(sessions) - 1
          /\ \A j \in 1 .. Len(sessions) - 1 : Front(sessions)[j] = sessions[j]
          /\ Top(sessions) \in BOOLEAN /\ Len(sessions) >= 1
      BY <1>0, <1>3, FrontSeq, Zenon
    <3>3. sessions' \in Seq(BOOLEAN) /\ disabled' \in BOOLEAN
      BY <3>1, <3>2, Zenon
    <3>4. Len(sessions') = Len(sessions) - 1
      BY <3>1, <3>2
    <3>5. \A j \in 1..Len(sessions') : j \in 1 .. Len(sessions) - 1 /\ j \in 1..Len(sessions)
      BY <1>0, <3>4, <3>2
    <3>6. \A j \in 1..Len(sessions') : sessions'[j] = sessions[j]
      BY <3>1, <3>2, <3>5, Zenon
    <3>7. Len(sessions) \in 1..Len(sessions)
      BY <1>0, <3>2
    <3> QED BY <3>1, <3>3, <3>4, <3>5, <3>6, <3>7, Zenon
  <2>2. TypeOK'
    BY <1>1, <2>1 DEF IndInv, TypeOK
  <2>3. SessionFlags'
    BY <1>0, <1>1, <2>1 DEF IndInv, SessionFlags
  <2>4. DisabledMeansEmpty'
    <3> SUFFICES ASSUME disabled' PROVE stack' = << >>
      BY DEF DisabledMeansEmpty
    <3>1. Len(sessions) = 1 /\ Len(stack) = 1
      BY <2>1 DEF IndInv, SessionFlags
    <3>2. Len(stack') = 0
      BY <1>1, <3>1
    <3> QED BY <1>1, <3>2
  <2>5. SessionsHaveStates'
    BY <1>0, <1>1, <2>1 DEF SessionsHaveStates
  <2> QED BY <1>1, <2>2, <2>3, <2>4, <2>5 DEF IndInv
<1> QED BY <1>2, <1>3

\* Every action, and every stuttering step, preserves the invariant.
LEMMA NextIndInv == IndInv /\ [Next]_vars => IndInv'
<1> SUFFICES ASSUME IndInv, [Next]_vars PROVE IndInv'
  OBVIOUS
<1>0. /\ TypeOK /\ Database \in Databases /\ IdsUsed(Database) /\ SessionsHaveStates
      /\ Layers(stack, versions, Database)
      /\ Database.objects = objects /\ Database.nextId = nextId
      /\ Database'.objects = objects' /\ Database'.nextId = nextId'
      /\ objects \in [Ids -> MaybeValue] /\ nextId \in [Indexes -> Nat]
      /\ maxSize \in Nat \ {0} /\ Len(stack) \in Nat /\ Len(sessions) \in Nat
  BY DEF IndInv, TypeOK, Layers, Database, Databases
<1>1. CASE StartSession
  <2>1. /\ Push(maxSize, FALSE) /\ maxSize' \in Nat \ {0} /\ disabled' = FALSE
        /\ Len(sessions) <= 1
    BY <1>0, <1>1 DEF StartSession, TypeOK
  <2>2. FALSE \in BOOLEAN
    OBVIOUS
  <2> QED BY <1>0, <2>1, <2>2, PushIndInv
<1>2. CASE StartForcedSession
  <2>1. PICK size \in Nat \ {0} : size >= Len(stack) /\ Push(size, disabled) /\ maxSize' = size
    BY <1>0, <1>2 DEF StartForcedSession
  <2>2. disabled \in BOOLEAN
    BY <1>0 DEF TypeOK
  <2> QED BY <1>2, <2>1, <2>2, PushIndInv DEF StartForcedSession
<1>3. ASSUME NEW i \in Indexes, NEW v \in Values, Create(i, v) PROVE IndInv'
  <2> DEFINE id == <<i, nextId[i]>>
  <2>1. id \in Ids /\ id[1] = i /\ id[2] = nextId[i]
    BY <1>0, <1>3, BoundsAssumption DEF Create, Ids
  <2>2. /\ Database'.objects = [Database.objects EXCEPT ![id] = v]
        /\ Database'.nextId = [Database.nextId EXCEPT ![id[1]] = @ + 1]
    BY <1>0, <1>3, <2>1 DEF Create
  <2>3. Database' \in Databases
    <3>1. objects' \in [Ids -> MaybeValue] /\ nextId' \in [Indexes -> Nat]
      BY <1>0, <1>3, <2>1 DEF Create, MaybeValue
    <3> QED BY <3>1 DEF Databases, Database
  <2>4. Hooked(RecordCreate(TopState, id)) /\ sessions' = sessions
        /\ disabled' = disabled /\ maxSize' = maxSize
    BY <1>3 DEF Create
  <2>5. TopState \in UndoStates
    BY <1>0, EmptyLayer, PopLayers DEF TopState, TypeOK
  <2>6. Database.nextId[id[1]] = id[2]
    BY <1>0, <2>1
  <2> HIDE DEF id
  <2>7. \A b \in Databases : Layer(TopState, b, Database) /\ IdsUsed(b)
          => RecordCreate(TopState, id) \in UndoStates
             /\ Layer(RecordCreate(TopState, id), b, Database')
    BY <1>0, <2>1, <2>2, <2>3, <2>5, <2>6, CreateLayer
  <2>8. IdsUsed(Database')
    <3>1. Layer(EmptyState, Database, Database) /\ EmptyState \in UndoStates
      BY <1>0, EmptyLayer
    <3> QED BY <1>0, <2>1, <2>2, <2>3, <2>6, <3>1, CreateLayer
  <2> QED BY <2>3, <2>4, <2>7, <2>8, HookedIndInv
<1>4. ASSUME NEW id \in Ids, NEW v \in Values, Modify(id, v) PROVE IndInv'
  <2>1. /\ Database.objects[id] # None /\ Database'.nextId = Database.nextId
        /\ Database'.objects = [Database.objects EXCEPT ![id] = v]
    BY <1>0, <1>4 DEF Modify
  <2>2. Database' \in Databases
    <3>1. objects' \in [Ids -> MaybeValue] /\ nextId' \in [Indexes -> Nat]
      BY <1>0, <1>4 DEF Modify, MaybeValue
    <3> QED BY <3>1 DEF Databases, Database
  <2>3. Hooked(RecordModify(TopState, id, Database.objects[id])) /\ sessions' = sessions
        /\ disabled' = disabled /\ maxSize' = maxSize
    BY <1>0, <1>4 DEF Modify
  <2>4. TopState \in UndoStates
    BY <1>0, EmptyLayer, PopLayers DEF TopState, TypeOK
  <2>5. \A b \in Databases : Layer(TopState, b, Database) /\ IdsUsed(b)
          => RecordModify(TopState, id, Database.objects[id]) \in UndoStates
             /\ Layer(RecordModify(TopState, id, Database.objects[id]), b, Database')
    BY <1>0, <2>1, <2>2, <2>4, ModifyLayer
  <2>6. IdsUsed(Database')
    <3>1. Layer(EmptyState, Database, Database) /\ EmptyState \in UndoStates
      BY <1>0, EmptyLayer
    <3> QED BY <1>0, <2>1, <2>2, <3>1, ModifyLayer
  <2> QED BY <2>2, <2>3, <2>5, <2>6, HookedIndInv
<1>5. ASSUME NEW id \in Ids, Remove(id) PROVE IndInv'
  <2>1. /\ Database.objects[id] # None /\ Database'.nextId = Database.nextId
        /\ Database'.objects = [Database.objects EXCEPT ![id] = None]
    BY <1>0, <1>5 DEF Remove
  <2>2. Database' \in Databases
    <3>1. objects' \in [Ids -> MaybeValue] /\ nextId' \in [Indexes -> Nat]
      BY <1>0, <1>5 DEF Remove, MaybeValue
    <3> QED BY <3>1 DEF Databases, Database
  <2>3. Hooked(RecordRemove(TopState, id, Database.objects[id])) /\ sessions' = sessions
        /\ disabled' = disabled /\ maxSize' = maxSize
    BY <1>0, <1>5 DEF Remove
  <2>4. TopState \in UndoStates
    BY <1>0, EmptyLayer, PopLayers DEF TopState, TypeOK
  <2>5. \A b \in Databases : Layer(TopState, b, Database) /\ IdsUsed(b)
          => RecordRemove(TopState, id, Database.objects[id]) \in UndoStates
             /\ Layer(RecordRemove(TopState, id, Database.objects[id]), b, Database')
    BY <1>0, <2>1, <2>2, <2>4, RemoveLayer
  <2>6. IdsUsed(Database')
    <3>1. Layer(EmptyState, Database, Database) /\ EmptyState \in UndoStates
      BY <1>0, EmptyLayer
    <3> QED BY <1>0, <2>1, <2>2, <3>1, RemoveLayer
  <2> QED BY <2>2, <2>3, <2>5, <2>6, HookedIndInv
<1>6. CASE Undo
  <2>1. stack # << >>
    BY <1>0, <1>6, FrontSeq DEF Undo, SessionsHaveStates, TypeOK
  <2>2. Database' = Restored(Top(stack), Database)
    BY <1>6 DEF Undo, Database, Restored
  <2> QED BY <1>6, <2>1, <2>2, PopTopIndInv DEF Undo
<1>7. CASE Merge
  <2>0. sessions # << >> /\ sessions \in Seq(BOOLEAN) /\ disabled \in BOOLEAN
    BY <1>0, <1>7 DEF Merge, TypeOK
  <2>1. /\ sessions' = Front(sessions) /\ Front(sessions) \in Seq(BOOLEAN)
        /\ Len(Front(sessions)) = Len(sessions) - 1 /\ Len(sessions) >= 1
        /\ \A j \in 1 .. Len(sessions) - 1 : Front(sessions)[j] = sessions[j]
        /\ Top(sessions) \in BOOLEAN /\ Top(sessions) = sessions[Len(sessions)]
    BY <1>7, <2>0, FrontSeq, ZenonT(40) DEF Merge, Top
  <2>2. Database' = Database /\ maxSize' = maxSize
    BY <1>7 DEF Merge, Database
  <2>3. disabled' = (disabled \/ Top(sessions)) /\ disabled' \in BOOLEAN
    BY <1>7, <2>0, <2>1, Zenon DEF Merge
  <2>4. Len(stack) >= 1
    BY <1>0, <2>1 DEF SessionsHaveStates
  <2>5. /\ stack' \in Seq(UndoStates) /\ versions' \in Seq(Databases)
        /\ Len(stack') = Len(stack) - 1 /\ Layers(stack', versions', Database)
    <3>1. CASE Len(sessions) = 1 /\ Len(stack) = 1 /\ stack' = << >>
      <4>0. Len(versions) = 1 /\ versions \in Seq(Databases)
        BY <1>0, <3>1 DEF Layers, TypeOK
      <4>1. Len(versions) = 1 /\ versions \in Seq(Databases) /\ versions # << >>
        BY <4>0
      <4>2. versions' = Front(versions) /\ versions' \in Seq(Databases) /\ Len(versions') = 0
        BY <1>7, <4>1, FrontSeq DEF Merge
      <4>3. Len(stack') = 0 /\ stack' \in Seq(UndoStates)
        BY <3>1, EmptySeq
      <4>4. Layers(stack', versions', Database)
        BY <1>0, <4>2, <4>3 DEF Layers
      <4> QED BY <3>1, <4>2, <4>3, <4>4
    <3>2. CASE /\ Len(stack) >= 2
               /\ stack' = [Front(stack) EXCEPT ![Len(stack) - 1] = Merged(@, Top(stack))]
      <4>1. versions' = Front(versions)
        BY <1>7 DEF Merge
      <4> QED BY <1>0, <3>2, <4>1, MergeLayers DEF TypeOK
    <3> QED BY <1>7, <3>1, <3>2 DEF Merge
  <2>6. TypeOK'
    BY <1>0, <2>1, <2>2, <2>3, <2>5 DEF TypeOK
  <2>7. SessionsHaveStates'
    BY <1>0, <2>1, <2>5 DEF SessionsHaveStates
  <2>8. SessionFlags'
    <3> SUFFICES ASSUME NEW j \in 1..Len(sessions'), sessions'[j]
                 PROVE  j = 1 /\ Len(stack') = Len(sessions')
      BY DEF SessionFlags
    <3>1. j \in 1 .. Len(sessions) - 1 /\ j \in 1..Len(sessions)
      BY <1>0, <2>1
    <3>2. sessions[j]
      BY <2>1, <3>1, Zenon
    <3>3. j = 1 /\ Len(stack) = Len(sessions)
      BY <3>1, <3>2 DEF IndInv, SessionFlags
    <3> QED BY <2>1, <2>5, <3>3
  <2>9. DisabledMeansEmpty'
    <3> SUFFICES ASSUME disabled' PROVE stack' = << >>
      BY DEF DisabledMeansEmpty
    <3>1. ~disabled
      BY <2>4, EmptySeq DEF IndInv, DisabledMeansEmpty
    <3>2. sessions[Len(sessions)] /\ Len(sessions) \in 1..Len(sessions)
      BY <1>0, <2>1, <2>3, <3>1
    <3>3. Len(stack) = 1
      BY <3>2 DEF IndInv, SessionFlags
    <3>4. Len(stack') = 0
      BY <2>5, <3>3
    <3> QED BY <2>5, <3>4
  <2> QED BY <2>2, <2>5, <2>6, <2>7, <2>8, <2>9 DEF IndInv
<1>8. CASE Commit
  <2>1. Database' = Database /\ sessions' = << >> /\ UNCHANGED <<stack, disabled, maxSize, versions>>
    BY <1>8 DEF Commit, Database
  <2>2. sessions' \in Seq(BOOLEAN) /\ Len(sessions') = 0
    BY <2>1, EmptySeq, Zenon
  <2>3. TypeOK'
    BY <1>0, <2>1, <2>2 DEF TypeOK
  <2>4. SessionsHaveStates' /\ SessionFlags' /\ DisabledMeansEmpty'
    BY <1>0, <2>1, <2>2 DEF IndInv, SessionsHaveStates, SessionFlags, DisabledMeansEmpty
  <2> QED BY <1>0, <2>1, <2>3, <2>4 DEF IndInv
<1>9. CASE PopCommit
  <2>1. Database' = Restored(Top(stack), Database)
    BY <1>9 DEF PopCommit, Database, Restored
  <2> QED BY <1>9, <2>1, PopTopIndInv DEF PopCommit
<1>10. ASSUME NEW n \in 1..MaxHistory, SetMaxSize(n) PROVE IndInv'
  <2>1. Database' = Database /\ maxSize' \in Nat \ {0}
        /\ UNCHANGED <<stack, sessions, disabled, versions>>
    BY <1>10, BoundsAssumption DEF SetMaxSize, Database
  <2> QED BY <1>0, <2>1
          DEF IndInv, TypeOK, SessionsHaveStates, SessionFlags, DisabledMeansEmpty
<1>11. CASE Disable \/ Enable
  <2>1. Database' = Database /\ UNCHANGED <<stack, sessions, maxSize, versions>>
        /\ (disabled' => stack = << >>)
    BY <1>11 DEF Disable, Enable, Database
  <2>2. disabled' \in BOOLEAN
    BY <1>11 DEF Disable, Enable
  <2> QED BY <1>0, <2>1, <2>2
          DEF IndInv, TypeOK, SessionsHaveStates, SessionFlags, DisabledMeansEmpty
<1>12. CASE UNCHANGED vars
  BY <1>12 DEF vars, IndInv, TypeOK, Database, SessionsHaveStates, SessionFlags, DisabledMeansEmpty
<1> QED BY <1>1, <1>2, <1>3, <1>4, <1>5, <1>6, <1>7, <1>8, <1>9, <1>10, <1>11, <1>12 DEF Next

\* So it always holds.
LEMMA SpecIndInv == Spec => []IndInv
BY InitIndInv, NextIndInv, PTL DEF Spec

-----------------------------------------------------------------------------
(* What follows from the invariant.                                        *)

\* What the invariant says of one undo_state on the stack.
LEMMA LayerAt ==
  ASSUME IndInv, NEW i \in 1..Len(stack)
  PROVE  /\ stack[i] \in UndoStates /\ versions[i] \in Databases /\ After(i) \in Databases
         /\ Layer(stack[i], versions[i], After(i)) /\ IdsUsed(versions[i])
<1>1. /\ stack \in Seq(UndoStates) /\ versions \in Seq(Databases) /\ Database \in Databases
      /\ Layers(stack, versions, Database) /\ Len(versions) = Len(stack) /\ Len(stack) \in Nat
  BY DEF IndInv, TypeOK, Layers
<1>2. stack[i] \in UndoStates /\ versions[i] \in Databases
  BY <1>1
<1>3. After(i) \in Databases
  <2>1. CASE i < Len(stack)
    <3>1. i + 1 \in 1..Len(versions)
      BY <1>1, <2>1
    <3> QED BY <1>1, <2>1, <3>1 DEF After
  <2>2. CASE ~(i < Len(stack))
    BY <1>1, <2>2 DEF After
  <2> QED BY <2>1, <2>2
<1> QED BY <1>1, <1>2, <1>3 DEF Layers, After

\* Type correctness of the undo database.
THEOREM TypeCorrect == Spec => []TypeOK
<1>1. IndInv => TypeOK
  BY DEF IndInv
<1> QED BY <1>1, SpecIndInv, PTL

\* Undoing any number of undo_states restores exactly the versions they were
\* pushed on: undo(), merge(), pop_commit() and the hooks of undo_database.cpp.
THEOREM UndoRestores == Spec => []LayersRestore
<1>1. IndInv => LayersRestore
  <2> SUFFICES ASSUME IndInv PROVE LayersRestore
    OBVIOUS
  <2>1. Len(versions) = Len(stack)
    BY DEF IndInv, Layers
  <2>2. \A i \in 1..Len(stack) : Restored(stack[i], After(i)) = versions[i]
    BY LayerAt, RestoredLayer
  <2> QED BY <2>1, <2>2 DEF LayersRestore
<1> QED BY <1>1, SpecIndInv, PTL

\* undo() and pop_commit() never throw for a missing or an existing object, so
\* the destructor of a session never terminates the node.
THEOREM UndoNeverThrows == Spec => []RestoreNeverThrows
<1>1. IndInv => RestoreNeverThrows
  BY LayerAt, RestoredLayer DEF RestoreNeverThrows
<1> QED BY <1>1, SpecIndInv, PTL

\* The combinations that merge() asserts away do not occur.
THEOREM MergesAreCausal == Spec => []MergeIsCausal
<1>1. IndInv => MergeIsCausal
  <2> SUFFICES ASSUME IndInv, NEW i \in 1 .. Len(stack) - 1
               PROVE  ~MergeIllegal(stack[i], stack[i + 1])
    BY DEF MergeIsCausal
  <2>1. Len(stack) \in Nat
    BY DEF IndInv, TypeOK
  <2>2. i \in 1..Len(stack) /\ i + 1 \in 1..Len(stack) /\ After(i) = versions[i + 1]
    BY <2>1 DEF After
  <2>3. /\ stack[i] \in UndoStates /\ versions[i] \in Databases
        /\ Layer(stack[i], versions[i], versions[i + 1]) /\ IdsUsed(versions[i])
    BY <2>2, LayerAt
  <2>4. /\ stack[i + 1] \in UndoStates /\ versions[i + 1] \in Databases
        /\ After(i + 1) \in Databases
        /\ Layer(stack[i + 1], versions[i + 1], After(i + 1)) /\ IdsUsed(versions[i + 1])
    BY <2>2, LayerAt
  <2> QED BY <2>3, <2>4, MergedLayer
<1> QED BY <1>1, SpecIndInv, PTL

\* Running sessions never lose their undo_states to the bound max_size.
THEOREM SessionsKeepStates == Spec => []SessionsHaveStates
<1>1. IndInv => SessionsHaveStates
  BY DEF IndInv
<1> QED BY <1>1, SpecIndInv, PTL

\* An opened database is an initial state of VersionStack.
LEMMA InitAbstract == Init => Abstract!Init
BY EmptySeq DEF Init, Abstract!Init

\* Every step is one of VersionStack, or leaves what it sees unchanged.
LEMMA NextAbstract == IndInv /\ [Next]_vars => [Abstract!Next]_(Abstract!vars)
<1> SUFFICES ASSUME IndInv, [Next]_vars PROVE [Abstract!Next]_(Abstract!vars)
  OBVIOUS
<1> USE DEF Abstract!Next, Abstract!vars
<1>0. /\ Database \in Databases /\ stack \in Seq(UndoStates) /\ versions \in Seq(Databases)
      /\ Layers(stack, versions, Database) /\ sessions \in Seq(BOOLEAN)
      /\ Len(versions) = Len(stack) /\ Len(stack) \in Nat /\ Len(sessions) \in Nat
      /\ Len(sessions) <= Len(stack) /\ maxSize \in Nat
  BY DEF IndInv, TypeOK, Layers, SessionsHaveStates
<1>1. ASSUME NEW size \in Nat, NEW flag, Push(size, flag) PROVE Abstract!Begin
  <2>1. Len(sessions') = Len(sessions) + 1 /\ Database' = Database
    BY <1>0, <1>1 DEF Push, Database
  <2>2. \E k \in 0..Len(versions) : Pruned(versions, size) = SubSeq(versions, k + 1, Len(versions))
    <3>1. CASE Len(versions) > size
      <4>1. Len(versions) - size \in 0..Len(versions)
        BY <1>0, <3>1
      <4> QED BY <3>1, <4>1 DEF Pruned
    <3>2. CASE ~(Len(versions) > size)
      <4>1. SubSeq(versions, 1, Len(versions)) = versions
        BY <1>0
      <4>2. 0 \in 0..Len(versions) /\ 0 + 1 = 1
        BY <1>0
      <4> QED BY <3>2, <4>1, <4>2 DEF Pruned
    <3> QED BY <3>1, <3>2
  <2> QED BY <1>1, <2>1, <2>2 DEF Push, Abstract!Begin
<1>2. CASE StartSession
  BY <1>0, <1>1, <1>2 DEF StartSession
<1>3. CASE StartForcedSession
  <2>1. \E size \in Nat : Push(size, disabled)
    BY <1>0, <1>3 DEF StartForcedSession
  <2> QED BY <1>1, <2>1
<1>4. ASSUME NEW r, Hooked(r), sessions' = sessions PROVE Abstract!Write
  <2>1. stack = << >> => versions = << >>
    BY <1>0
  <2> QED BY <1>4, <2>1 DEF Hooked, Abstract!Write
<1>5. CASE \E i \in Indexes, v \in Values : Create(i, v)
  BY <1>4, <1>5 DEF Create
<1>6. CASE \E id \in Ids, v \in Values : Modify(id, v)
  BY <1>4, <1>6 DEF Modify
<1>7. CASE \E id \in Ids : Remove(id)
  BY <1>4, <1>7 DEF Remove
<1>8. CASE Undo
  <2>1. Database' = Restored(Top(stack), Database)
    BY <1>8 DEF Undo, Database, Restored
  <2>2. /\ sessions # << >> /\ sessions' = Front(sessions) /\ Len(sessions') = Len(sessions) - 1
        /\ Len(sessions) >= 1
    BY <1>0, <1>8, FrontSeq, Zenon DEF Undo
  <2>3. stack # << >> /\ versions # << >>
    BY <1>0, <2>2
  <2>4. Database' = Top(versions) /\ versions' = Front(versions)
    BY <1>0, <1>8, <2>1, <2>3, PopLayers DEF Undo, PopTop
  <2>5. Abstract!Rollback
    BY <1>0, <2>2, <2>3, <2>4 DEF Abstract!Rollback, Abstract!Top, Abstract!Front, Top, Front
  <2> QED BY <2>5
<1>9. CASE Merge
  <2>1. /\ sessions # << >> /\ sessions' = Front(sessions) /\ Len(sessions') = Len(sessions) - 1
        /\ Len(sessions) >= 1
    BY <1>0, <1>9, FrontSeq, Zenon DEF Merge
  <2>2. versions # << >> /\ versions' = Front(versions) /\ Database' = Database
    BY <1>0, <1>9, <2>1 DEF Merge, Database
  <2>3. Abstract!Merge
    BY <1>0, <2>1, <2>2 DEF Abstract!Merge, Abstract!Front, Front
  <2> QED BY <2>3
<1>10. CASE Commit
  <2>1. Len(sessions) = 1 /\ Len(sessions') = 0 /\ Database' = Database /\ versions' = versions
    BY <1>10 DEF Commit, Database
  <2>2. Abstract!Commit
    BY <2>1 DEF Abstract!Commit
  <2> QED BY <2>2
<1>11. CASE PopCommit
  <2>1. Database' = Restored(Top(stack), Database)
    BY <1>11 DEF PopCommit, Database, Restored
  <2>2. stack # << >> /\ versions # << >> /\ Len(sessions) = 0 /\ sessions' = sessions
    BY <1>0, <1>11, EmptySeq DEF PopCommit
  <2>3. Database' = Top(versions) /\ versions' = Front(versions)
    BY <1>0, <1>11, <2>1, <2>2, PopLayers DEF PopCommit, PopTop
  <2>4. Abstract!Pop
    BY <1>0, <2>2, <2>3 DEF Abstract!Pop, Abstract!Top, Abstract!Front, Top, Front
  <2> QED BY <2>4
<1>12. CASE (\E n \in 1..MaxHistory : SetMaxSize(n)) \/ Disable \/ Enable \/ UNCHANGED vars
  BY <1>12 DEF SetMaxSize, Disable, Enable, vars, Database
<1> QED BY <1>2, <1>3, <1>5, <1>6, <1>7, <1>8, <1>9, <1>10, <1>11, <1>12 DEF Next

\* The recording of differences in undo_states implements the stack of whole
\* versions: the chain may reason about sessions as saved copies.
THEOREM ImplementsVersionStack == Spec => AbstractSpec
BY InitAbstract, NextAbstract, SpecIndInv, PTL DEF Spec, AbstractSpec, Abstract!Spec
=============================================================================
