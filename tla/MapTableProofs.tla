---------------------------- MODULE MapTableProofs ----------------------------
(***************************************************************************)
(* Proofs about the lock word of a page: its type, and, as long as no      *)
(* thread evicts the page, mutual exclusion and the refinement of the      *)
(* reader-writer lock of module PageLock.                                  *)
(***************************************************************************)
EXTENDS MapTable, FiniteSetTheorems, TLAPS

USE DEF States

\* Words, and what the operators of PageEntry build from words, are words, also
\* when the drop of a read guard borrows.
LEMMA WordTypes ==
  /\ Zero \in Entries /\ NoNode \in Nodes
  /\ \A a \in Addrs : new_write_locked(a) \in Entries /\ leaf_entry(a) \in Entries
  /\ \A e \in Entries :
       /\ get_ref(e) \in Nodes
       /\ \A s \in 0..WriteLockState : set_state(e, s) \in Entries
       /\ \A p \in BOOLEAN : set_pending_write(e, p) \in Entries
       /\ minus_one(e) \in Entries
PROOF
<1> USE LockStateAssumption, AddrsAssumption
<1>1. Zero \in Entries /\ NoNode \in Nodes
  BY DEF Zero, NoNode, get_ref, Entries, Nodes
<1>2. ASSUME NEW a \in Addrs
      PROVE  new_write_locked(a) \in Entries /\ leaf_entry(a) \in Entries
  BY DEF new_write_locked, leaf_entry, Entries
<1>3. ASSUME NEW e \in Entries
      PROVE  /\ get_ref(e) \in Nodes
             /\ \A s \in 0..WriteLockState : set_state(e, s) \in Entries
             /\ \A p \in BOOLEAN : set_pending_write(e, p) \in Entries
             /\ minus_one(e) \in Entries
  <2>1. e.addr \in Addrs /\ e.leaf \in BOOLEAN /\ e.pending \in BOOLEAN
    BY DEF Entries
  <2>2. e.state \in 0..WriteLockState /\ WriteLockState \in 0..WriteLockState
    BY DEF Entries
  <2>3. ASSUME NEW s \in 0..WriteLockState PROVE set_state(e, s) \in Entries
    BY <2>1 DEF set_state, Entries
  <2>4. ASSUME NEW p \in BOOLEAN PROVE set_pending_write(e, p) \in Entries
    BY <2>1, <2>2 DEF set_pending_write, Entries
  <2>5. CASE e.state = 0
    BY <2>1, <2>2, <2>3, <2>4, <2>5 DEF get_ref, Nodes, minus_one, Entries
  <2>6. CASE e.state # 0
    <3>1. e.state - 1 \in 0..WriteLockState
      BY <2>2, <2>6
    <3> QED BY <2>1, <2>3, <2>4, <2>6, <3>1 DEF get_ref, Nodes, minus_one
  <2> QED BY <2>5, <2>6
<1> QED BY <1>1, <1>2, <1>3

\* The type invariant holds initially.
LEMMA InitType == Init => TypeOK
PROOF
<1>1. Zero \in Entries /\ NoNode \in Nodes /\ 0 \in 0..SpinRetries
  BY WordTypes, SpinAssumption
<1> QED BY <1>1 DEF Init, TypeOK

\* Every step of a thread and every call it begins keeps the type invariant, one case per
\* action.
LEMMA StepType ==
  ASSUME TypeOK, NEW t \in Threads, Step(t) \/ Call(t)
  PROVE  TypeOK'
PROOF
<1> USE LockStateAssumption, AddrsAssumption, SpinAssumption
<1>z. Zero \in Entries /\ NoNode \in Nodes
  BY WordTypes
<1>g. \A e \in Entries : get_ref(e) \in Nodes
  BY WordTypes
<1>w. \A a \in Addrs : new_write_locked(a) \in Entries /\ leaf_entry(a) \in Entries
  BY WordTypes
<1>u. \A e \in Entries : \A s \in 0..WriteLockState : set_state(e, s) \in Entries
  BY WordTypes
<1>p. \A e \in Entries : \A p \in BOOLEAN : set_pending_write(e, p) \in Entries
  BY WordTypes
<1>l. WriteLockState \in 0..WriteLockState /\ 0 \in 0..WriteLockState
  OBVIOUS
<1>s. seen[t] \in Entries /\ entry \in Entries /\ pc[t] \in States
  BY DEF TypeOK
<1>d. Running(t, pc[t]) => spins[t] - 1 \in 0..SpinRetries
  BY DEF TypeOK, Running
<1>1. CASE ReadPending(t) \/ ReadReload(t)
  BY <1>1, <1>s, <1>d DEF ReadPending, ReadReload, Again, TypeOK, Running
<1>2. CASE ReadLocked(t)
  <2>1. entry' \in Entries
    BY <1>2, <1>s, <1>u, <1>p DEF ReadLocked, CompareExchange, Entries
  <2> QED BY <1>2, <1>s, <1>z, <1>g, <2>1 DEF ReadLocked, Leave, TypeOK
<1>3. CASE ReadFails(t) \/ WriteFails(t) \/ UpgradeFails(t)
  BY <1>3, <1>z DEF ReadFails, WriteFails, UpgradeFails, Leave, TypeOK
<1>4. CASE WriteLocked(t)
  <2>1. entry' \in Entries
    <3>1. set_state(seen[t], WriteLockState) \in Entries
      BY <1>s, <1>l, <1>u
    <3> QED BY <1>4, <1>p, <3>1 DEF WriteLocked, CompareExchange
  <2> QED BY <1>4, <1>s, <1>z, <1>g, <2>1 DEF WriteLocked, Leave, TypeOK
<1>5. CASE WriteSetsPending(t)
  <2>1. entry' \in Entries
    BY <1>5, <1>s, <1>u, <1>p DEF WriteSetsPending, CompareExchange, Entries
  <2> QED BY <1>5, <1>s, <1>d, <2>1 DEF WriteSetsPending, Again, TypeOK, Running
<1>6. CASE WriteReload(t) \/ UpgradeReload(t)
  BY <1>6, <1>s, <1>d DEF WriteReload, UpgradeReload, Again, TypeOK, Running
<1>7. CASE UpgradeLocked(t, "writer")
  <2>1. entry' \in Entries
    BY <1>7, <1>s, <1>l, <1>u DEF UpgradeLocked, CompareExchange
  <2> QED BY <1>7, <1>s, <1>z, <2>1 DEF UpgradeLocked, Leave, TypeOK
<1>8. CASE DowngradeStore(t)
  <2>1. entry' \in Entries
    BY <1>8, <1>s, <1>u, <1>p DEF DowngradeStore, Entries
  <2> QED BY <1>8, <1>s, <1>z, <2>1 DEF DowngradeStore, Leave, TypeOK
<1>9. CASE read_page_entry(t) \/ write_page_entry(t) \/ upgrade(t) \/ downgrade(t)
  BY <1>9, <1>s
     DEF read_page_entry, write_page_entry, upgrade, downgrade, Enter, TypeOK
<1>10. CASE drop_read(t)
  <2>1. entry' \in Entries
    BY <1>10, <1>s, WordTypes DEF drop_read
  <2> QED BY <1>10, <1>s, <1>z, <2>1 DEF drop_read, Leave, TypeOK
<1>11. CASE drop_write(t)
  <2>1. entry' \in Entries
    BY <1>11, <1>s, <1>l, <1>u DEF drop_write
  <2> QED BY <1>11, <1>s, <1>z, <2>1 DEF drop_write, Leave, TypeOK
<1>12. ASSUME NEW a \in Addrs, create_page_entry(t, a)
       PROVE  TypeOK'
  BY <1>12, <1>z, <1>g, <1>w DEF create_page_entry, Leave, TypeOK
<1>13. ASSUME NEW a \in Addrs, set_mini_page(t, a)
       PROVE  TypeOK'
  BY <1>13, <1>z, <1>g, <1>w DEF set_mini_page, TypeOK
<1>14. ASSUME NEW a \in Addrs, set_leaf(t, a)
       PROVE  TypeOK'
  BY <1>14, <1>z, <1>g, <1>w DEF set_leaf, Leave, TypeOK
<1> QED
  BY <1>1, <1>2, <1>3, <1>4, <1>5, <1>6, <1>7, <1>8, <1>9, <1>10, <1>11, <1>12,
     <1>13, <1>14 DEF Step, Call

\* A step that changes nothing keeps the type.
LEMMA NextType == TypeOK /\ [Next]_vars => TypeOK'
PROOF
<1> SUFFICES ASSUME TypeOK, [Next]_vars PROVE TypeOK'
  OBVIOUS
<1>1. ASSUME NEW a \in Addrs, init_leaf_entry(a) PROVE TypeOK'
  BY <1>1, WordTypes DEF init_leaf_entry, TypeOK
<1>2. ASSUME NEW t \in Threads, Call(t) \/ Step(t) PROVE TypeOK'
  BY <1>2, StepType
<1>3. CASE UNCHANGED vars
  BY <1>3 DEF vars, TypeOK
<1> QED BY <1>1, <1>2, <1>3 DEF Next

\* Every word, guard and loop of map_table.rs keeps its type, evictions and
\* borrowing drops included: the lock state never leaves its 14 bits.
THEOREM TypeCorrect == Spec => []TypeOK
  BY InitType, NextType, PTL DEF Spec

-------------------------------------------------------------------------------
(* Mutual exclusion.                                                       *)

\* The inductive invariant.  Exclusion alone is not inductive: a reader is let
\* in by the lock state, not by the set of writers, so the state has to count
\* the guards; and the blind store of downgrade keeps the mapping only because
\* the word it loaded differs from the current one in the pending bit at most.
LockInv ==
  TypeOK /\ Exclusion /\ LockStateCounts /\ GuardNodeFresh /\ DowngradeLosesOnlyPending

\* What set_state and set_pending_write change and what they keep.
LEMMA StateFields ==
  ASSUME NEW e, NEW s
  PROVE  /\ set_state(e, s).state = s /\ set_state(e, s).pending = e.pending
         /\ get_ref(set_state(e, s)) = get_ref(e)
  BY DEF set_state, get_ref

\* What set_pending_write changes in a word, and what it leaves alone.
LEMMA PendingFields ==
  ASSUME NEW e, NEW p
  PROVE  /\ set_pending_write(e, p).state = e.state
         /\ set_pending_write(e, p).pending = p
         /\ get_ref(set_pending_write(e, p)) = get_ref(e)
         /\ set_pending_write(e, p).addr = e.addr /\ set_pending_write(e, p).leaf = e.leaf
  BY DEF set_pending_write, get_ref

\* How the two sets of guard holders change when one thread moves.
LEMMA Moves ==
  ASSUME TypeOK, NEW t \in Threads, NEW x, pc' = [pc EXCEPT ![t] = x]
  PROVE  /\ Readers' = IF x \in {"reader", "upgrade"} THEN Readers \cup {t}
                                                     ELSE Readers \ {t}
         /\ Writers' = IF x \in {"writer", "downgrade", "leaf_set", "replace"}
                       THEN Writers \cup {t} ELSE Writers \ {t}
         /\ \A u \in Threads : u # t => pc'[u] = pc[u]
         /\ pc'[t] = x
  BY DEF Readers, Writers, TypeOK

\* The readers are finitely many, and counted by a natural number.
LEMMA ReadersFinite ==
  /\ IsFiniteSet(Readers) /\ Cardinality(Readers) \in Nat
  /\ \A t : /\ Cardinality(Readers \cup {t}) =
                IF t \in Readers THEN Cardinality(Readers) ELSE Cardinality(Readers) + 1
            /\ Cardinality(Readers \ {t}) =
                IF t \in Readers THEN Cardinality(Readers) - 1 ELSE Cardinality(Readers)
  /\ Cardinality(Readers) = 0 <=> Readers = {}
  /\ Cardinality(Readers) = 1 <=> \E t : Readers = {t}
PROOF
<1>1. Readers \subseteq Threads
  BY DEF Readers
<1>2. IsFiniteSet(Readers)
  BY <1>1, ThreadsAssumption, FS_Subset
<1> QED BY <1>2, FS_CardinalityType, FS_AddElement, FS_RemoveElement, FS_EmptySet,
           FS_Singleton

\* A step that leaves the word, the cached mappings and the holders alone.
LEMMA Quiet ==
  ASSUME LockInv, TypeOK', entry' = entry, node' = node,
         Readers' = Readers, Writers' = Writers,
         \A u \in Threads : pc'[u] = "downgrade" =>
           (pc[u] = "downgrade" /\ seen'[u] = seen[u]) \/ seen'[u] = entry
  PROVE  LockInv'
PROOF
<1>1. Exclusion' /\ LockStateCounts' /\ GuardNodeFresh'
  BY DEF LockInv, Exclusion, LockStateCounts, GuardNodeFresh
<1>2. entry = set_pending_write(entry, entry.pending)
  BY DEF LockInv, TypeOK, Entries, set_pending_write
<1>3. DowngradeLosesOnlyPending'
  BY <1>2 DEF LockInv, DowngradeLosesOnlyPending
<1> QED BY <1>1, <1>3 DEF LockInv

\* Loop iterations, entering a loop and giving up leave the guards alone.
LEMMA LoopsKeepInv ==
  ASSUME LockInv, TypeOK', NEW t \in Threads,
         \/ ReadPending(t) \/ ReadReload(t) \/ WriteReload(t) \/ UpgradeReload(t)
         \/ ReadFails(t) \/ WriteFails(t) \/ UpgradeFails(t)
         \/ read_page_entry(t) \/ write_page_entry(t) \/ upgrade(t) \/ downgrade(t)
  PROVE  LockInv' /\ Readers' = Readers /\ Writers' = Writers
PROOF
<1> USE DEF LockInv
<1>1. CASE ReadPending(t) \/ ReadReload(t) \/ WriteReload(t) \/ UpgradeReload(t)
  <2>0. entry' = entry /\ (Again(t, seen[t]) \/ Again(t, entry))
    BY <1>1, Zenon DEF ReadPending, ReadReload, WriteReload, UpgradeReload
  <2>1. entry' = entry /\ node' = node /\ pc' = pc
    BY <2>0 DEF Again
  <2>4. pc[t] # "downgrade"
    BY <1>1 DEF ReadPending, ReadReload, WriteReload, UpgradeReload, Running
  <2>3. \A u \in Threads : u # t => seen'[u] = seen[u]
    <3>1. CASE Again(t, seen[t])
      BY <3>1 DEF Again, TypeOK
    <3>2. CASE Again(t, entry)
      BY <3>2 DEF Again, TypeOK
    <3> QED BY <2>0, <3>1, <3>2
  <2>2. Readers' = Readers /\ Writers' = Writers
    BY <2>1 DEF Readers, Writers
  <2> QED BY <2>1, <2>2, <2>3, <2>4, Quiet
<1>2. CASE ReadFails(t) \/ WriteFails(t) \/ UpgradeFails(t)
  <2>1. /\ entry' = entry /\ node' = node
        /\ \A u \in Threads : u # t => seen'[u] = seen[u] /\ pc'[u] = pc[u]
    BY <1>2 DEF ReadFails, WriteFails, UpgradeFails, Leave, TypeOK
  <2>2. Readers' = Readers /\ Writers' = Writers /\ pc'[t] # "downgrade"
    BY <1>2 DEF ReadFails, WriteFails, UpgradeFails, Leave, Readers, Writers, TypeOK
  <2> QED BY <2>1, <2>2, Quiet
<1>3. CASE read_page_entry(t) \/ write_page_entry(t) \/ upgrade(t) \/ downgrade(t)
  <2>1. /\ entry' = entry /\ node' = node /\ seen'[t] = entry
        /\ \A u \in Threads : u # t => seen'[u] = seen[u] /\ pc'[u] = pc[u]
    BY <1>3 DEF read_page_entry, write_page_entry, upgrade, downgrade, Enter, TypeOK
  <2>2. Readers' = Readers /\ Writers' = Writers
    BY <1>3 DEF read_page_entry, write_page_entry, upgrade, downgrade, Enter,
                Readers, Writers, TypeOK
  <2> QED BY <2>1, <2>2, Quiet
<1> QED BY <1>1, <1>2, <1>3

\* A reader is let in only when there is no writer.
LEMMA ReadLockedKeepsInv ==
  ASSUME LockInv, TypeOK', NEW t \in Threads, ReadLocked(t)
  PROVE  LockInv' /\ Lock!AcquireRead(t)
PROOF
<1> USE DEF LockInv
<1>1. Writers = {} /\ t \notin Readers
  BY LockStateAssumption
     DEF ReadLocked, CompareExchange, Running, LockStateCounts, Readers, TypeOK, Entries
<1>2. Readers' = Readers \cup {t} /\ Writers' = {} /\ pc'[t] = "reader"
  BY <1>1, Moves DEF ReadLocked, Leave
<1>3. entry.state = Cardinality(Readers)
  BY <1>1 DEF LockStateCounts
<1>4. entry'.state = Cardinality(Readers) + 1 /\ get_ref(entry') = get_ref(entry)
  BY <1>3, StateFields DEF ReadLocked, CompareExchange
<1>5. LockStateCounts'
  BY <1>1, <1>2, <1>4, ReadersFinite DEF LockStateCounts
<1>6. GuardNodeFresh'
  <2>1. \A u \in Readers : node'[u] = node[u] \/ u = t
    BY DEF ReadLocked, TypeOK, Readers
  <2>2. node'[t] = get_ref(entry)
    BY DEF ReadLocked, CompareExchange, TypeOK
  <2> QED BY <1>2, <1>4, <2>1, <2>2 DEF GuardNodeFresh
<1>7. DowngradeLosesOnlyPending'
  BY <1>2 DEF DowngradeLosesOnlyPending, Writers
<1>8. Exclusion'
  BY <1>2 DEF Exclusion
<1>9. Lock!AcquireRead(t)
  BY <1>1, <1>2 DEF Lock!AcquireRead
<1> QED BY <1>5, <1>6, <1>7, <1>8, <1>9

\* A writer is let in only when there is no guard at all.
LEMMA WriteLockedKeepsInv ==
  ASSUME LockInv, TypeOK', NEW t \in Threads, WriteLocked(t)
  PROVE  LockInv' /\ Lock!AcquireWrite(t)
PROOF
<1> USE DEF LockInv
<1>1. Writers = {} /\ Readers = {}
  BY LockStateAssumption, ReadersFinite DEF WriteLocked, CompareExchange, LockStateCounts
<1>2. Readers' = {} /\ Writers' = {t} /\ pc'[t] = "writer"
  BY <1>1, Moves DEF WriteLocked, Leave
<1>3. entry'.state = WriteLockState /\ get_ref(entry') = get_ref(entry)
  <2> DEFINE e == set_state(seen[t], WriteLockState)
  <2>1. entry' = set_pending_write(e, FALSE) /\ entry = seen[t]
    BY DEF WriteLocked, CompareExchange
  <2>2. entry'.state = e.state /\ get_ref(entry') = get_ref(e)
    BY <2>1, PendingFields, Zenon
  <2>3. e.state = WriteLockState /\ get_ref(e) = get_ref(seen[t])
    BY StateFields, Zenon
  <2> QED BY <2>1, <2>2, <2>3
<1>4. LockStateCounts' /\ Exclusion'
  BY <1>2, <1>3 DEF LockStateCounts, Exclusion
<1>5. GuardNodeFresh'
  BY <1>2, <1>3 DEF GuardNodeFresh, WriteLocked, CompareExchange, TypeOK
<1>6. DowngradeLosesOnlyPending'
  BY <1>2 DEF DowngradeLosesOnlyPending, Writers
<1>7. Lock!AcquireWrite(t)
  BY <1>1, <1>2 DEF Lock!AcquireWrite
<1> QED BY <1>4, <1>5, <1>6, <1>7

\* Setting the pending bit is the one change a thread without a guard makes.
LEMMA WriteSetsPendingKeepsInv ==
  ASSUME LockInv, TypeOK', NEW t \in Threads, WriteSetsPending(t)
  PROVE  LockInv' /\ Readers' = Readers /\ Writers' = Writers
PROOF
<1> USE DEF LockInv
<1>1. Readers' = Readers /\ Writers' = Writers /\ node' = node /\ pc' = pc
  BY DEF WriteSetsPending, Again, Readers, Writers
<1>2. entry' = set_pending_write(entry, TRUE)
  BY DEF WriteSetsPending, CompareExchange
<1>3. entry'.state = entry.state /\ get_ref(entry') = get_ref(entry)
  BY <1>2, PendingFields
<1>4. Exclusion' /\ LockStateCounts' /\ GuardNodeFresh'
  BY <1>1, <1>3 DEF Exclusion, LockStateCounts, GuardNodeFresh
<1>5. ASSUME NEW u \in Threads, pc'[u] = "downgrade"
      PROVE  entry' = set_pending_write(seen'[u], entry'.pending)
  <2>1. pc[u] = "downgrade" /\ seen'[u] = seen[u]
    BY <1>1, <1>5 DEF WriteSetsPending, Again, Running, TypeOK
  <2>2. PICK p : entry = set_pending_write(seen[u], p)
    BY <2>1 DEF DowngradeLosesOnlyPending
  <2>3. entry.addr = seen[u].addr /\ entry.leaf = seen[u].leaf /\ entry.state = seen[u].state
    BY <2>2, PendingFields, Zenon
  <2>4. set_pending_write(entry, TRUE) = set_pending_write(seen[u], TRUE)
    BY <2>3, Zenon DEF set_pending_write
  <2>5. entry'.pending = TRUE
    BY <1>2, PendingFields
  <2> QED BY <1>2, <2>1, <2>4, <2>5, Zenon
<1>6. DowngradeLosesOnlyPending'
  BY <1>5 DEF DowngradeLosesOnlyPending
<1> QED BY <1>1, <1>4, <1>6

\* A drop of a read guard takes one from the count, which is not zero.
LEMMA DropReadKeepsInv ==
  ASSUME LockInv, TypeOK', NEW t \in Threads, drop_read(t)
  PROVE  LockInv' /\ Lock!ReleaseRead(t)
PROOF
<1> USE DEF LockInv
<1>1. t \in Readers /\ t \notin Writers
  BY DEF drop_read, Readers, Writers
<1>2. Writers = {}
  BY <1>1 DEF Exclusion
<1>3. entry.state = Cardinality(Readers) /\ entry.state # 0
  BY <1>1, <1>2, ReadersFinite DEF LockStateCounts
<1>4. entry' = set_state(entry, entry.state - 1)
  BY <1>3 DEF drop_read, minus_one
<1>5. entry'.state = Cardinality(Readers) - 1 /\ get_ref(entry') = get_ref(entry)
  BY <1>3, <1>4, StateFields
<1>6. Readers' = Readers \ {t} /\ Writers' = {} /\ pc'[t] = "idle"
  BY <1>2, Moves DEF drop_read, Leave
<1>7. LockStateCounts' /\ Exclusion'
  BY <1>1, <1>5, <1>6, ReadersFinite DEF LockStateCounts, Exclusion
<1>8. GuardNodeFresh'
  <2>1. \A u \in Readers \ {t} : node'[u] = node[u]
    BY DEF drop_read, TypeOK, Readers
  <2> QED BY <1>5, <1>6, <2>1 DEF GuardNodeFresh
<1>9. DowngradeLosesOnlyPending'
  BY <1>6 DEF DowngradeLosesOnlyPending, Writers
<1>10. Lock!ReleaseRead(t)
  BY <1>1, <1>2, <1>6 DEF Lock!ReleaseRead
<1> QED BY <1>7, <1>8, <1>9, <1>10

\* A drop of a write guard frees the page, for its holder held it alone.
LEMMA DropWriteKeepsInv ==
  ASSUME LockInv, TypeOK', NEW t \in Threads, drop_write(t)
  PROVE  LockInv' /\ Lock!ReleaseWrite(t)
PROOF
<1> USE DEF LockInv
<1>1. Writers = {t} /\ Readers = {}
  BY DEF drop_write, Writers, Exclusion
<1>2. Readers' = {} /\ Writers' = {}
  BY <1>1, Moves DEF drop_write, Leave
<1>3. entry'.state = 0
  BY StateFields DEF drop_write
<1>4. LockStateCounts' /\ Exclusion' /\ GuardNodeFresh'
  BY <1>2, <1>3, FS_EmptySet DEF LockStateCounts, Exclusion, GuardNodeFresh
<1>5. DowngradeLosesOnlyPending'
  BY <1>2 DEF DowngradeLosesOnlyPending, Writers
<1>6. Lock!ReleaseWrite(t)
  BY <1>1, <1>2 DEF Lock!ReleaseWrite
<1> QED BY <1>4, <1>5, <1>6

\* State 1 means that the upgrading reader is the only one.
LEMMA UpgradeLockedKeepsInv ==
  ASSUME LockInv, TypeOK', NEW t \in Threads, UpgradeLocked(t, "writer")
  PROVE  LockInv' /\ Lock!Upgrade(t)
PROOF
<1> USE DEF LockInv
<1>1. t \in Readers
  BY DEF UpgradeLocked, Running, Readers
<1>2. Writers = {}
  BY <1>1 DEF Exclusion
<1>3. Readers = {t}
  BY <1>1, <1>2, ReadersFinite DEF LockStateCounts, UpgradeLocked, CompareExchange
<1>4. Readers' = {} /\ Writers' = {t} /\ pc'[t] = "writer"
  BY <1>2, <1>3, Moves DEF UpgradeLocked, Leave
<1>5. entry'.state = WriteLockState /\ get_ref(entry') = get_ref(entry)
  BY StateFields DEF UpgradeLocked, CompareExchange
<1>6. LockStateCounts' /\ Exclusion'
  BY <1>4, <1>5 DEF LockStateCounts, Exclusion
<1>7. GuardNodeFresh'
  BY <1>3, <1>4, <1>5 DEF GuardNodeFresh, UpgradeLocked
<1>8. DowngradeLosesOnlyPending'
  BY <1>4 DEF DowngradeLosesOnlyPending, Writers
<1>9. Lock!Upgrade(t)
  BY <1>2, <1>3, <1>4 DEF Lock!Upgrade
<1> QED BY <1>6, <1>7, <1>8, <1>9

\* The blind store of downgrade keeps the mapping.
LEMMA DowngradeStoreKeepsInv ==
  ASSUME LockInv, TypeOK', NEW t \in Threads, DowngradeStore(t)
  PROVE  LockInv' /\ Lock!Downgrade(t)
PROOF
<1> USE DEF LockInv
<1>1. Writers = {t} /\ Readers = {}
  BY DEF DowngradeStore, Writers, Exclusion
<1>2. Readers' = {t} /\ Writers' = {} /\ pc'[t] = "reader"
  BY <1>1, Moves DEF DowngradeStore, Leave
<1>3. entry'.state = 1 /\ get_ref(entry') = get_ref(seen[t])
  BY StateFields DEF DowngradeStore
<1>4. get_ref(entry) = get_ref(seen[t])
  <2>1. PICK p : entry = set_pending_write(seen[t], p)
    BY DEF DowngradeStore, DowngradeLosesOnlyPending
  <2> QED BY <2>1, PendingFields
<1>5. LockStateCounts' /\ Exclusion'
  BY <1>2, <1>3, FS_Singleton DEF LockStateCounts, Exclusion
<1>6. GuardNodeFresh'
  BY <1>1, <1>2, <1>3, <1>4 DEF GuardNodeFresh, DowngradeStore
<1>7. DowngradeLosesOnlyPending'
  BY <1>2 DEF DowngradeLosesOnlyPending, Writers
<1>8. Lock!Downgrade(t)
  BY <1>1, <1>2 DEF Lock!Downgrade
<1> QED BY <1>5, <1>6, <1>7, <1>8

\* The promotion stores a word that is write-locked like the one it replaces.
LEMMA SetMiniPageKeepsInv ==
  ASSUME LockInv, TypeOK', NEW t \in Threads, NEW a \in Addrs, set_mini_page(t, a)
  PROVE  LockInv' /\ Readers' = Readers /\ Writers' = Writers
PROOF
<1> USE DEF LockInv
<1>1. Writers = {t} /\ Readers = {}
  BY DEF set_mini_page, Writers, Exclusion
<1>2. Readers' = {} /\ Writers' = {t} /\ pc' = pc
  BY <1>1 DEF set_mini_page, Readers, Writers
<1>3. entry'.state = WriteLockState
  BY DEF set_mini_page, new_write_locked
<1>4. LockStateCounts' /\ Exclusion'
  BY <1>2, <1>3 DEF LockStateCounts, Exclusion
<1>5. GuardNodeFresh'
  BY <1>2 DEF GuardNodeFresh, set_mini_page, TypeOK
<1>6. DowngradeLosesOnlyPending'
  BY <1>1, <1>2 DEF DowngradeLosesOnlyPending, Writers, set_mini_page
<1> QED BY <1>1, <1>2, <1>4, <1>5, <1>6

\* Before the slot is given to a page no thread calls the table for it.
UnallocatedIdle == ~allocated => \A t \in Threads : pc[t] = "idle"

\* A page is born with no guard, or with the write guard of its creator.
LEMMA BirthKeepsInv ==
  ASSUME LockInv, UnallocatedIdle, TypeOK', NEW a \in Addrs,
         init_leaf_entry(a) \/ \E t \in Threads : create_page_entry(t, a)
  PROVE  LockInv' /\ [Lock!LockNext]_(Lock!lockVars)
PROOF
<1> USE DEF LockInv
<1>1. Readers = {} /\ Writers = {}
  BY DEF init_leaf_entry, create_page_entry, UnallocatedIdle, Readers, Writers
<1>2. CASE init_leaf_entry(a)
  <2>1. Readers' = {} /\ Writers' = {} /\ entry'.state = 0
    BY <1>1, <1>2 DEF init_leaf_entry, Readers, Writers, leaf_entry
  <2>2. LockStateCounts' /\ Exclusion' /\ GuardNodeFresh'
    BY <2>1, FS_EmptySet DEF LockStateCounts, Exclusion, GuardNodeFresh
  <2>3. DowngradeLosesOnlyPending'
    BY <2>1 DEF DowngradeLosesOnlyPending, Writers
  <2>4. UNCHANGED Lock!lockVars
    BY <1>1, <2>1 DEF Lock!lockVars
  <2> QED BY <2>2, <2>3, <2>4
<1>3. ASSUME NEW t \in Threads, create_page_entry(t, a)
      PROVE  LockInv' /\ Lock!AcquireWrite(t)
  <2>1. Readers' = {} /\ Writers' = {t} /\ pc'[t] = "writer"
    BY <1>1, <1>3, Moves DEF create_page_entry, Leave
  <2>2. entry'.state = WriteLockState
    BY <1>3 DEF create_page_entry, new_write_locked
  <2>3. LockStateCounts' /\ Exclusion'
    BY <2>1, <2>2 DEF LockStateCounts, Exclusion
  <2>4. GuardNodeFresh'
    BY <1>3, <2>1 DEF GuardNodeFresh, create_page_entry, TypeOK
  <2>5. DowngradeLosesOnlyPending'
    BY <2>1 DEF DowngradeLosesOnlyPending, Writers
  <2>6. Lock!AcquireWrite(t)
    BY <1>1, <2>1 DEF Lock!AcquireWrite
  <2> QED BY <2>3, <2>4, <2>5, <2>6
<1> QED BY <1>2, <1>3 DEF Lock!LockNext

\* Threads call the table for a page only once it is created.
LEMMA IdleKept ==
  ASSUME TypeOK, UnallocatedIdle, [Next]_vars
  PROVE  UnallocatedIdle'
PROOF
<1>1. ASSUME NEW t \in Threads, Step(t) PROVE UnallocatedIdle'
  <2>1. pc[t] # "idle" /\ allocated' = allocated
    BY <1>1 DEF Step, ReadPending, ReadReload, ReadLocked, ReadFails, WriteLocked,
                WriteSetsPending, WriteReload, WriteFails, UpgradeLocked, UpgradeReload,
                UpgradeFails, DowngradeStore, Again, Running
  <2> QED BY <2>1 DEF UnallocatedIdle
<1>2. ASSUME NEW t \in Threads, Call(t) PROVE UnallocatedIdle'
  <2>1. allocated'
    BY <1>2 DEF Call, read_page_entry, write_page_entry, upgrade, downgrade, drop_read,
                drop_write, create_page_entry, set_mini_page, set_leaf, Enter,
                UnallocatedIdle
  <2> QED BY <2>1 DEF UnallocatedIdle
<1>3. ASSUME NEW a \in Addrs, init_leaf_entry(a) PROVE UnallocatedIdle'
  BY <1>3 DEF init_leaf_entry, UnallocatedIdle
<1>4. CASE UNCHANGED vars
  BY <1>4 DEF vars, UnallocatedIdle
<1> QED BY <1>1, <1>2, <1>3, <1>4 DEF Next

\* The inductive step, for a page that nobody evicts.
LEMMA NextKeepsInv ==
  ASSUME Evictors = {}, LockInv, UnallocatedIdle, [Next]_vars
  PROVE  LockInv' /\ UnallocatedIdle' /\ [Lock!LockNext]_(Lock!lockVars)
PROOF
<1> DEFINE Refines == [Lock!LockNext]_(Lock!lockVars)
<1>s. Readers' = Readers /\ Writers' = Writers => Refines
  BY DEF Lock!lockVars
<1>n. ASSUME NEW t \in Threads,
             \/ Lock!AcquireRead(t)  \/ Lock!AcquireWrite(t)
             \/ Lock!Upgrade(t)      \/ Lock!Downgrade(t)
             \/ Lock!ReleaseRead(t)  \/ Lock!ReleaseWrite(t)
      PROVE  Refines
  BY <1>n DEF Lock!LockNext
<1> HIDE DEF Refines
<1>1. TypeOK' /\ UnallocatedIdle'
  BY NextType, IdleKept DEF LockInv
<1>2. ASSUME NEW t \in Threads, Step(t) PROVE LockInv' /\ Refines
  BY <1>s, <1>n, <1>1, <1>2, LoopsKeepInv, ReadLockedKeepsInv, WriteLockedKeepsInv,
     WriteSetsPendingKeepsInv, UpgradeLockedKeepsInv, DowngradeStoreKeepsInv, Zenon DEF Step
<1>3. ASSUME NEW t \in Threads, Call(t) PROVE LockInv' /\ Refines
  <2>1. \A a \in Addrs : ~ set_leaf(t, a)
    BY DEF set_leaf
  <2>2. ASSUME NEW a \in Addrs, create_page_entry(t, a) PROVE LockInv' /\ Refines
    BY <1>1, <2>2, BirthKeepsInv DEF Refines
  <2> QED BY <1>s, <1>n, <1>1, <1>3, <2>1, <2>2, LoopsKeepInv, DropReadKeepsInv,
             DropWriteKeepsInv, SetMiniPageKeepsInv, Zenon DEF Call
<1>4. ASSUME NEW a \in Addrs, init_leaf_entry(a) PROVE LockInv' /\ Refines
  BY <1>1, <1>4, BirthKeepsInv DEF Refines
<1>5. CASE UNCHANGED vars
  <2>1. Readers' = Readers /\ Writers' = Writers
    BY <1>5 DEF vars, Readers, Writers
  <2>2. LockInv'
    BY <1>1, <1>5, <2>1, Quiet DEF vars
  <2> QED BY <1>s, <1>1, <2>1, <2>2 DEF Refines
<1> QED BY <1>1, <1>2, <1>3, <1>4, <1>5 DEF Next, Refines

\* The invariant holds of a zeroed table.
LEMMA InitInv == Init => LockInv /\ UnallocatedIdle
PROOF
<1> SUFFICES ASSUME Init PROVE LockInv /\ UnallocatedIdle
  OBVIOUS
<1>1. Readers = {} /\ Writers = {} /\ entry.state = 0
  BY DEF Init, Readers, Writers, Zero
<1>2. TypeOK
  BY InitType
<1>3. Exclusion /\ LockStateCounts /\ GuardNodeFresh /\ DowngradeLosesOnlyPending
  BY <1>1, FS_EmptySet DEF Init, Exclusion, LockStateCounts, GuardNodeFresh,
                           DowngradeLosesOnlyPending
<1> QED BY <1>2, <1>3 DEF LockInv, UnallocatedIdle, Init

\* The inductive invariant holds in every behaviour of the table whose pages nobody evicts.
LEMMA InvHolds ==
  ASSUME Evictors = {}
  PROVE  Spec => []LockInv
PROOF
<1>1. LockInv /\ UnallocatedIdle /\ [Next]_vars => (LockInv /\ UnallocatedIdle)'
  BY NextKeepsInv
<1> QED BY InitInv, <1>1, PTL DEF Spec

\* As long as nobody evicts the page, read_page_entry, write_page_entry, upgrade,
\* downgrade, set_mini_page and the drops never let a guard exist beside a write
\* guard, for any number of threads, addresses and retries, and also when the
\* count of readers reaches WriteLockState.
THEOREM MutualExclusion ==
  ASSUME Evictors = {}
  PROVE  Spec => []Exclusion
PROOF
<1>1. LockInv => Exclusion
  BY DEF LockInv
<1> QED BY InvHolds, <1>1, PTL

\* Under the same assumption the lock state of the word counts the guards exactly, so
\* that the drop of a read guard never borrows from the bits above the state.
THEOREM StateCountsGuards ==
  ASSUME Evictors = {}
  PROVE  Spec => []LockStateCounts
PROOF
<1>1. LockInv => LockStateCounts
  BY DEF LockInv
<1> QED BY InvHolds, <1>1, PTL

\* Under the same assumption the mapping cached in a guard stays that of the page.
THEOREM GuardsStayFresh ==
  ASSUME Evictors = {}
  PROVE  Spec => []GuardNodeFresh
PROOF
<1>1. LockInv => GuardNodeFresh
  BY DEF LockInv
<1> QED BY InvHolds, <1>1, PTL

\* The comment on the blind store of downgrade is right: only the pending bit can
\* have changed since the load.  Downgrade has no caller in the program yet.
THEOREM BlindWriteIsFine ==
  ASSUME Evictors = {}
  PROVE  Spec => []DowngradeLosesOnlyPending
PROOF
<1>1. LockInv => DowngradeLosesOnlyPending
  BY DEF LockInv
<1> QED BY InvHolds, <1>1, PTL

\* The word of a page that nobody evicts implements a reader-writer lock: every
\* step maps to an acquisition, a release, an upgrade, a downgrade or a stutter.
THEOREM WordImplementsLock ==
  ASSUME Evictors = {}
  PROVE  Spec => LockRefined
PROOF
<1>1. Init => Lock!LockInit
  BY DEF Init, Lock!LockInit, Readers, Writers
<1>2. LockInv /\ UnallocatedIdle /\ [Next]_vars =>
        (LockInv /\ UnallocatedIdle)' /\ [Lock!LockNext]_(Lock!lockVars)
  BY NextKeepsInv
<1> QED BY InitInv, <1>1, <1>2, PTL DEF Spec, LockRefined, Lock!LockSpec
===============================================================================
