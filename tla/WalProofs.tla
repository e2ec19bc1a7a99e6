------------------------------ MODULE WalProofs ------------------------------
(***************************************************************************)
(* The invariants of module Wal for every set of pages, every set of       *)
(* record sizes and every number of appends.                               *)
(***************************************************************************)
EXTENDS Wal, SeqOpsProofs, FiniteSetTheorems

-------------------------------------------------------------------------------
(* The inductive invariant.                                                *)

\* The records of a group are of its page, and not more than it counts.
GroupOK(g) ==
  Len(g.recs) <= g.count /\ \A i \in 1..Len(g.recs) : g.recs[i].page = g.page

\* Only the last group of a file may be torn.
GroupsOK(gs) ==
  /\ \A i \in 1..Len(gs) : GroupOK(gs[i])
  /\ \A i \in 1..Len(gs) : i < Len(gs) => ~Torn(gs[i])

\* Records are numbered in the order of their appends, up to n.
Numbered(s, n) ==
  /\ \A i \in 1..Len(s) : s[i].id <= n
  /\ \A i, j \in 1..Len(s) : i < j => s[i].id < s[j].id

\* The groups of the file without the one that append_record is writing.
Settled ==
  IF op.call = "append" /\ (GroupOpen \/ op.todo = <<>>)
  THEN Front(file.groups) ELSE file.groups

FilesOK ==
  /\ GroupsOK(file.groups) /\ GroupsOK(synced.groups)
  /\ Numbered(RecordsIn(file.groups), appends) /\ Numbered(RecordsIn(synced.groups), appends)

\* What the call that holds the mutex has still to write.
OpOK ==
  /\ op.call \in {"open", "idle", "truncate", "manifest", "sync"} => ~GroupOpen
  /\ op.call \in {"down", "open", "idle", "manifest", "sync"} => op.todo = <<>>
  /\ op.call = "truncate" => op.todo = records

\* append_record writes the last record, in a group of its own.
AppendOK ==
  op.call = "append" =>
    /\ records # <<>> /\ Last(records).id = appends
    /\ Numbered(RecordsIn(Settled), appends - 1)
    /\ op.todo # <<>> => op.todo = <<Last(records)>>
    /\ op.todo # <<>> /\ GroupOpen =>
         Last(file.groups) = [page |-> Last(records).page, count |-> 1, recs |-> <<>>]
    /\ op.todo = <<>> =>
         /\ file.groups # <<>>
         /\ Last(file.groups) =
              [page |-> Last(records).page, count |-> 1, recs |-> <<Last(records)>>]

\* rewrite_records has written the log up to what is still to do, and what its open
\* group lacks comes next.
RewriteOK ==
  op.call = "rewrite" =>
    /\ RecordsIn(file.groups) \o op.todo = records
    /\ GroupOpen =>
         LET g == Last(file.groups)
         IN  /\ g.count <= Len(g.recs) + Len(op.todo)
             /\ \A i \in 1..Len(op.todo) :
                  Len(g.recs) + i <= g.count => op.todo[i].page = g.page

Counted == op.call \in {"open", "idle", "append", "manifest", "sync"}

\* The memory knows the log.
MemoryOK ==
  /\ op.call # "down" => Numbered(records, appends) /\ acked \subseteq Range(records)
  /\ Counted =>
       /\ Range(RecordsIn(Settled)) \subseteq Range(records)
       /\ leaf_counts = stats(records, Settled)
       /\ total_records = Len(records)
       /\ total_bytes \in {SumOf(Settled, GroupBytes), MANIFEST_LEN + SumOf(Settled, GroupBytes)}
       /\ manifest <= MANIFEST_LEN + SumOf(Settled, GroupBytes)
  /\ op.call \in {"idle", "append", "sync"} => file.manifest = manifest

WalInv ==
  /\ TypeOK /\ FilesOK /\ OpOK /\ AppendOK /\ RewriteOK /\ MemoryOK /\ AckedRecoverable

-------------------------------------------------------------------------------
(* Groups of records.                                                      *)

AllPages == Pages \cup {TxnMeta}

\* The records read back from a group are those written to it.
LEMMA GroupRecords ==
  ASSUME NEW g \in Groups
  PROVE  /\ records_of(g) \in Seq(Records) /\ Len(records_of(g)) = Len(g.recs)
         /\ g.recs \in Seq(Records) /\ g.page \in AllPages /\ g.count \in 1..MaxAppends
         /\ GroupOK(g) => records_of(g) = g.recs
<1>1. g.recs \in Seq(Records) /\ g.page \in AllPages /\ g.count \in 1..MaxAppends
  BY DEF Groups, AllPages
<1>2. Len(g.recs) \in Nat /\ \A i \in 1..Len(g.recs) : g.recs[i] \in Records
  BY <1>1
<1>3. \A r \in Records : [r EXCEPT !.page = g.page] \in Records
  BY <1>1 DEF Records, AllPages
<1>4. records_of(g) \in Seq(Records) /\ Len(records_of(g)) = Len(g.recs)
  BY <1>2, <1>3 DEF records_of
<1>5. ASSUME GroupOK(g) PROVE records_of(g) = g.recs
  <2>1. \A r \in Records : r.page = g.page => [r EXCEPT !.page = g.page] = r
    BY DEF Records
  <2>2. \A i \in 1..Len(g.recs) : [g.recs[i] EXCEPT !.page = g.page] = g.recs[i]
    BY <1>2, <1>5, <2>1 DEF GroupOK
  <2>3. \A i \in 1..Len(g.recs) : records_of(g)[i] = g.recs[i]
    BY <1>2, <2>2 DEF records_of
  <2> QED BY <1>1, <1>4, <2>3, SameSeq
<1> QED BY <1>1, <1>4, <1>5

\* A file without groups has no records.
LEMMA RecordsInEmpty == RecordsIn(<<>>) = <<>>
<1>1. [i \in 1..Len(<<>>) |-> records_of(<<>>[i])] = <<>>
  OBVIOUS
<1> QED BY <1>1, FlattenEmpty DEF RecordsIn

\* A group more has its records at the end.
LEMMA RecordsInAppend ==
  ASSUME NEW gs \in Seq(Groups), NEW g \in Groups
  PROVE  RecordsIn(Append(gs, g)) = RecordsIn(gs) \o records_of(g)
<1> DEFINE t == Append(gs, g)
           ss == [i \in 1..Len(gs) |-> records_of(gs[i])]
           tt == [i \in 1..Len(t) |-> records_of(t[i])]
<1>1. /\ Len(gs) \in Nat /\ Len(t) = Len(gs) + 1
      /\ \A i \in 1..Len(gs) : t[i] = gs[i] /\ gs[i] \in Groups
      /\ t[Len(gs) + 1] = g
  OBVIOUS
<1>2. \A u \in Groups : records_of(u) \in Seq(Records)
  BY GroupRecords
<1> HIDE DEF t
<1>3. ss \in Seq(Seq(Records)) /\ Len(ss) = Len(gs)
  BY <1>1, <1>2
<1>4. tt = Append(ss, records_of(g))
  BY <1>1, <1>3
<1>5. Flatten(tt) = Flatten(ss) \o records_of(g)
  <2> HIDE DEF ss, tt
  <2> QED BY <1>2, <1>3, <1>4, FlattenAppend
<1> QED BY <1>5, Zenon DEF RecordsIn, t

\* The records of groups are records.
LEMMA RecordsInType ==
  ASSUME NEW gs \in Seq(Groups)
  PROVE  RecordsIn(gs) \in Seq(Records)
<1>1. Len(gs) \in Nat /\ \A i \in 1..Len(gs) : gs[i] \in Groups
  OBVIOUS
<1>2. \A u \in Groups : records_of(u) \in Seq(Records)
  BY GroupRecords
<1>3. [i \in 1..Len(gs) |-> records_of(gs[i])] \in Seq(Seq(Records))
  BY <1>1, <1>2
<1> QED BY <1>3, FlattenType, Zenon DEF RecordsIn

\* Appending a group that is well-formed appends its records.
LEMMA RecordsInGroup ==
  ASSUME NEW gs \in Seq(Groups), NEW g \in Groups, GroupOK(g)
  PROVE  RecordsIn(Append(gs, g)) = RecordsIn(gs) \o g.recs
BY RecordsInAppend, GroupRecords, Zenon

\* A group behind complete ones keeps the groups in order.
LEMMA GroupsAppend ==
  ASSUME NEW gs \in Seq(Groups), NEW g \in Groups
  PROVE  GroupsOK(Append(gs, g)) <=>
           /\ GroupsOK(gs) /\ GroupOK(g)
           /\ gs # <<>> => ~Torn(Last(gs))
<1> DEFINE t == Append(gs, g)  n == Len(gs)
<1>1. /\ n \in Nat /\ Len(t) = n + 1
      /\ \A i \in 1..n : t[i] = gs[i]
      /\ t[n + 1] = g
      /\ gs # <<>> => n > 0
  BY NilIs
<1>2. gs # <<>> => Last(gs) = gs[n]
  BY DEF Last
<1>3. gs = <<>> => n = 0
  OBVIOUS
<1> HIDE DEF t, n
<1>4. ASSUME GroupsOK(t) PROVE GroupsOK(gs) /\ GroupOK(g) /\ (gs # <<>> => ~Torn(Last(gs)))
  BY <1>1, <1>2, <1>4 DEF GroupsOK, n
<1>5. ASSUME GroupsOK(gs), GroupOK(g), gs # <<>> => ~Torn(Last(gs)) PROVE GroupsOK(t)
  <2>1. \A i \in 1..n : ~Torn(gs[i])
    BY <1>1, <1>2, <1>3, <1>5 DEF GroupsOK, n
  <2> QED BY <1>1, <1>5, <2>1 DEF GroupsOK, n
<1> QED BY <1>4, <1>5 DEF t

-------------------------------------------------------------------------------
(* Records in the order of their appends.                                  *)

\* The number of a record is a natural.
LEMMA RecordId == \A r \in Records : r.id \in Nat /\ r.id >= 1 /\ r.id <= MaxAppends /\ r.page \in AllPages
BY LengthsAssumption DEF Records, AllPages

\* A record with a higher number goes to the end.
LEMMA NumberedAppend ==
  ASSUME NEW s \in Seq(Records), NEW x \in Records, NEW n \in Nat
  PROVE  Numbered(Append(s, x), n) <=> Numbered(s, x.id - 1) /\ x.id <= n
<1> DEFINE t == Append(s, x)  k == Len(s)
<1>1. /\ k \in Nat /\ Len(t) = k + 1
      /\ \A i \in 1..k : t[i] = s[i] /\ s[i] \in Records
      /\ t[k + 1] = x
  OBVIOUS
<1>2. x.id \in Nat /\ \A i \in 1..k : s[i].id \in Nat
  BY <1>1, RecordId
<1> HIDE DEF t, k
<1>3. ASSUME Numbered(t, n) PROVE Numbered(s, x.id - 1) /\ x.id <= n
  <2>1. \A i \in 1..k : i \in 1..(k + 1) /\ k + 1 \in 1..(k + 1) /\ i < k + 1
    BY <1>1
  <2>2. \A i \in 1..k : s[i].id < x.id
    BY <1>1, <1>3, <2>1 DEF Numbered
  <2>3. x.id <= n
    BY <1>1, <1>3 DEF Numbered
  <2>4. \A i, j \in 1..k : i < j => s[i].id < s[j].id
    BY <1>1, <1>3 DEF Numbered
  <2> QED BY <1>2, <2>2, <2>3, <2>4 DEF Numbered, k
<1>4. ASSUME Numbered(s, x.id - 1), x.id <= n PROVE Numbered(t, n)
  <2>1. /\ \A i \in 1..k : s[i].id <= x.id - 1
        /\ \A i, j \in 1..k : i < j => s[i].id < s[j].id
    BY <1>4 DEF Numbered, k
  <2>2. \A i \in 1..(k + 1) : t[i].id <= n
    BY <1>1, <1>2, <1>4, <2>1
  <2>3. ASSUME NEW i \in 1..(k + 1), NEW j \in 1..(k + 1), i < j PROVE t[i].id < t[j].id
    <3>1. CASE j = k + 1
      BY <1>1, <1>2, <2>1, <2>3, <3>1
    <3>2. CASE j # k + 1
      BY <1>1, <1>2, <2>1, <2>3, <3>2
    <3> QED BY <3>1, <3>2
  <2> QED BY <1>1, <2>2, <2>3 DEF Numbered
<1> QED BY <1>3, <1>4 DEF t

\* A higher bound bounds as well.
LEMMA NumberedWeaken ==
  ASSUME NEW s \in Seq(Records), NEW m \in Int, NEW n \in Int, m <= n, Numbered(s, m)
  PROVE  Numbered(s, n)
<1>1. \A i \in 1..Len(s) : s[i].id \in Nat
  BY RecordId
<1> QED BY <1>1 DEF Numbered

\* No records are in order.
LEMMA NumberedEmpty == \A n : Numbered(<<>>, n)
BY DEF Numbered

\* A record of a numbered sequence has one of its numbers.
LEMMA NumberedMember ==
  ASSUME NEW s \in Seq(Records), NEW n, Numbered(s, n), NEW r \in Range(s)
  PROVE  r \in Records /\ r.id <= n
BY DEF Numbered, Range

\* Records stay in order when the last ones go.
LEMMA NumberedPrefix ==
  ASSUME NEW s \in Seq(Records), NEW t \in Seq(Records), NEW n, Numbered(s \o t, n)
  PROVE  Numbered(s, n)
<1>1. Len(s) \in Nat /\ Len(t) \in Nat /\ Len(s \o t) = Len(s) + Len(t)
  BY ConcatAt
<1>2. \A i \in 1..Len(s) : (s \o t)[i] = s[i] /\ i \in 1..Len(s \o t)
  BY <1>1, ConcatAt
<1> QED BY <1>1, <1>2 DEF Numbered

\* There are no more records than numbers.
LEMMA NumberedLen ==
  ASSUME NEW s \in Seq(Records), NEW n \in Nat, Numbered(s, n)
  PROVE  Len(s) <= n
<1> DEFINE Q == {r \in Seq(Records) : \A m \in Nat : Numbered(r, m) => Len(r) <= m}
<1>1. <<>> \in Q
  OBVIOUS
<1>2. ASSUME NEW r \in Seq(Records), NEW x \in Records, r \in Q PROVE Append(r, x) \in Q
  <2> SUFFICES ASSUME NEW m \in Nat, Numbered(Append(r, x), m)
               PROVE  Len(Append(r, x)) <= m
    OBVIOUS
  <2>1. Numbered(r, x.id - 1) /\ x.id <= m
    BY NumberedAppend
  <2>2. x.id - 1 \in Nat /\ x.id \in Nat
    BY RecordId
  <2>3. Len(r) <= x.id - 1
    BY <1>2, <2>1, <2>2
  <2> QED BY <2>1, <2>2, <2>3
<1> HIDE DEF Q
<1>3. s \in Q
  BY <1>1, <1>2, SeqSetInduction
<1> QED BY <1>3 DEF Q

\* Records stay in order when some are taken out.
LEMMA NumberedFilter ==
  ASSUME NEW s \in Seq(Records), NEW n \in Nat, Numbered(s, n), NEW S
  PROVE  Numbered(Filter(s, S), n)
<1> DEFINE Q == {r \in Seq(Records) : \A m \in Nat : Numbered(r, m) => Numbered(Filter(r, S), m)}
<1>1. <<>> \in Q
  BY FilterEmpty
<1>2. ASSUME NEW r \in Seq(Records), NEW x \in Records, r \in Q PROVE Append(r, x) \in Q
  <2> SUFFICES ASSUME NEW m \in Nat, Numbered(Append(r, x), m)
               PROVE  Numbered(Filter(Append(r, x), S), m)
    OBVIOUS
  <2> DEFINE f == Filter(r, S)
  <2>1. Numbered(r, x.id - 1) /\ x.id <= m
    BY NumberedAppend
  <2>2. x.id - 1 \in Nat /\ x.id \in Nat
    BY RecordId
  <2>3. Numbered(f, x.id - 1)
    BY <1>2, <2>1, <2>2
  <2>4. f \in Seq(Records)
    BY FilterType
  <2>5. Filter(Append(r, x), S) = f \o (IF x \in S THEN <<x>> ELSE <<>>)
    BY FilterAppend, Zenon
  <2> HIDE DEF f
  <2>6. CASE x \in S
    <3>1. Filter(Append(r, x), S) = Append(f, x)
      BY <2>4, <2>5, <2>6, ConcatOne, Zenon
    <3>2. Numbered(Append(f, x), m)
      BY <2>1, <2>3, <2>4, NumberedAppend
    <3> QED BY <3>1, <3>2
  <2>7. CASE x \notin S
    <3>1. Filter(Append(r, x), S) = f
      BY <2>4, <2>5, <2>7, ConcatNil
    <3>2. x.id - 1 \in Int /\ m \in Int /\ x.id - 1 <= m
      BY <2>1, <2>2
    <3>3. Numbered(f, m)
      BY <2>3, <2>4, <3>2, NumberedWeaken, Zenon
    <3> QED BY <3>1, <3>3
  <2> QED BY <2>6, <2>7
<1> HIDE DEF Q
<1>3. s \in Q
  BY <1>1, <1>2, SeqSetInduction
<1> QED BY <1>3 DEF Q

\* Two numbered sequences of the same records are the same.
LEMMA NumberedUnique ==
  ASSUME NEW s \in Seq(Records), NEW t \in Seq(Records), NEW n \in Nat,
         Numbered(s, n), Numbered(t, n), Range(s) = Range(t)
  PROVE  s = t
<1> DEFINE Q == {r \in Seq(Records) :
                   \A u \in Seq(Records), m \in Nat :
                     Numbered(r, m) /\ Numbered(u, m) /\ Range(r) = Range(u) => r = u}
<1>1. <<>> \in Q
  <2> SUFFICES ASSUME NEW u \in Seq(Records), Range(<<>>) = Range(u) PROVE <<>> = u
    OBVIOUS
  <2>1. Range(<<>>) = {}
    BY DEF Range
  <2>2. ASSUME u # <<>> PROVE FALSE
    <3>1. PICK v \in Seq(Records), y \in Records : u = Append(v, y)
      BY <2>2, EndExists
    <3>2. y \in Range(u)
      BY <3>1, RangeAppend
    <3> QED BY <2>1, <3>2
  <2> QED BY <2>2
<1>2. ASSUME NEW r \in Seq(Records), NEW x \in Records, r \in Q PROVE Append(r, x) \in Q
  <2> SUFFICES ASSUME NEW u \in Seq(Records), NEW m \in Nat,
                      Numbered(Append(r, x), m), Numbered(u, m), Range(Append(r, x)) = Range(u)
               PROVE  Append(r, x) = u
    OBVIOUS
  <2>1. Range(u) = Range(r) \cup {x}
    BY RangeAppend
  <2>2. u # <<>>
    <3>1. Range(<<>>) = {}
      BY DEF Range
    <3> QED BY <2>1, <3>1, Zenon
  <2>3. PICK v \in Seq(Records), y \in Records : u = Append(v, y)
    BY <2>2, EndExists
  <2>4. Range(u) = Range(v) \cup {y}
    BY <2>3, RangeAppend
  <2>5. Numbered(r, x.id - 1) /\ Numbered(v, y.id - 1)
    BY <2>3, NumberedAppend
  <2>6. x.id \in Nat /\ y.id \in Nat /\ x.id - 1 \in Nat
    BY RecordId
  <2>7. \A z \in Range(r) : z.id <= x.id - 1
    BY <2>5, NumberedMember
  <2>8. \A z \in Range(v) : z.id <= y.id - 1
    BY <2>5, NumberedMember
  <2>9. x = y
    <3>1. ASSUME x # y PROVE FALSE
      <4>1. x \in Range(v) /\ y \in Range(r)
        BY <2>1, <2>4, <3>1
      <4> QED BY <2>6, <2>7, <2>8, <4>1
    <3> QED BY <3>1
  <2>10. x \notin Range(r) /\ x \notin Range(v)
    BY <2>6, <2>7, <2>8, <2>9
  <2>11. Range(r) = Range(v)
    <3>1. Range(r) = Range(u) \ {x} /\ Range(v) = Range(u) \ {x}
      BY <2>1, <2>4, <2>9, <2>10, Zenon
    <3> QED BY <3>1
  <2>12. r = v
    BY <1>2, <2>5, <2>6, <2>9, <2>11, Zenon
  <2> QED BY <2>3, <2>9, <2>12
<1> HIDE DEF Q
<1>3. s \in Q
  BY <1>1, <1>2, SeqSetInduction
<1> QED BY <1>3 DEF Q

-------------------------------------------------------------------------------
(* Complete groups.                                                        *)

\* Complete groups are all read.
LEMMA NoneTorn ==
  ASSUME NEW gs \in Seq(Groups), GroupsOK(gs), gs # <<>> => ~Torn(Last(gs))
  PROVE  \A i \in 1..Len(gs) : ~Torn(gs[i])
<1>1. CASE gs = <<>>
  BY <1>1
<1>2. CASE gs # <<>>
  <2>1. Len(gs) \in Nat /\ Last(gs) = gs[Len(gs)]
    BY <1>2, SplitLast, Zenon
  <2> QED BY <1>2, <2>1 DEF GroupsOK
<1> QED BY <1>1, <1>2

\* open keeps the groups of a file without a torn one,
LEMMA CompleteWhole ==
  ASSUME NEW f, f.groups \in Seq(Groups), GroupsOK(f.groups),
         f.groups # <<>> => ~Torn(Last(f.groups))
  PROVE  complete_groups(f) = f.groups /\ read_records(f) = RecordsIn(f.groups)
<1>1. \A i \in 1..Len(f.groups) : ~Torn(f.groups[i])
  BY NoneTorn
<1>2. ValidGroups(f) = 0
  BY <1>1 DEF ValidGroups
<1> QED BY <1>2 DEF complete_groups, read_records

\* and drops a torn one, whose complete records it returns nevertheless.
LEMMA CompleteTorn ==
  ASSUME NEW f, NEW gs \in Seq(Groups), NEW g \in Groups, f.groups = Append(gs, g),
         GroupsOK(f.groups), Torn(g)
  PROVE  complete_groups(f) = gs /\ read_records(f) = RecordsIn(f.groups)
<1> DEFINE n == Len(gs)
           I == {i \in 1..Len(f.groups) : Torn(f.groups[i])}
<1>1. /\ n \in Nat /\ Len(f.groups) = n + 1 /\ f.groups[n + 1] = g
      /\ f.groups \in Seq(Groups)
      /\ Len(f.groups) - 1 = n
  OBVIOUS
<1>2. I = {n + 1}
  BY <1>1 DEF GroupsOK
<1>3. ValidGroups(f) = n + 1
  <2>1. ValidGroups(f) = IF I = {} THEN 0 ELSE Min(I)
    BY DEF ValidGroups
  <2>2. Min({n + 1}) = n + 1
    BY <1>1 DEF Min
  <2> QED BY <1>2, <2>1, <2>2, Zenon
<1>4. SubSeq(f.groups, 1, n) = gs
  BY FrontAppend, <1>1 DEF Front
<1>5. SubSeq(f.groups, 1, n + 1) = f.groups
  BY <1>1
<1>6. n + 1 # 0 /\ (n + 1) - 1 = n
  BY <1>1
<1> HIDE DEF n
<1> QED BY <1>3, <1>4, <1>5, <1>6, Zenon DEF complete_groups, read_records

-------------------------------------------------------------------------------
(* Bytes and counts.                                                       *)

AllBytes(gs) == SumOf(gs, GroupBytes)

\* The bytes of a group of one of the pages S, and one for a record of page p.
PartFun(S) == [g \in Groups |-> IF g.page \in S THEN GroupBytes(g) ELSE 0]
CountFun(p) == [r \in Records |-> IF r.page = p THEN 1 ELSE 0]

\* The length of a group is a natural.
LEMMA GroupBytesType == \A g \in Groups : GroupBytes(g) \in Nat
<1> SUFFICES ASSUME NEW g \in Groups PROVE GroupBytes(g) \in Nat
  OBVIOUS
<1>1. g.recs \in Seq(Records)
  BY GroupRecords
<1>2. \A r \in Records : r.size \in Nat
  BY LengthsAssumption, Zenon DEF Records
<1>3. [i \in 1..Len(g.recs) |-> g.recs[i].size] \in Seq(Nat)
  BY <1>1, <1>2
<1>4. SumSeq([i \in 1..Len(g.recs) |-> g.recs[i].size]) \in Nat
  BY <1>3, SumType
<1> QED BY <1>4, LengthsAssumption DEF GroupBytes, SumOf

\* The bytes of a group for a set of pages are a natural.
LEMMA PartFunType == \A S : PartFun(S) \in [Groups -> Nat]
BY GroupBytesType DEF PartFun

\* A record counts for a page or not.
LEMMA CountFunType == \A p : CountFun(p) \in [Records -> Nat]
BY DEF CountFun

\* The bytes of all groups as a sum over positions.
LEMMA AllBytesIs ==
  ASSUME NEW gs \in Seq(Groups)
  PROVE  AllBytes(gs) = FunSum(gs, PartFun(AllPages))
<1>1. \A g \in Groups : g.page \in AllPages
  BY GroupRecords
<1>2. Len(gs) \in Nat /\ \A i \in 1..Len(gs) : gs[i] \in Groups
  OBVIOUS
<1>3. \A i \in 1..Len(gs) : PartFun(AllPages)[gs[i]] = GroupBytes(gs[i])
  BY <1>1, <1>2 DEF PartFun
<1>4. [i \in 1..Len(gs) |-> PartFun(AllPages)[gs[i]]] = [i \in 1..Len(gs) |-> GroupBytes(gs[i])]
  BY <1>3
<1> QED BY <1>4, Zenon DEF AllBytes, SumOf, FunSum

\* No groups, no bytes.
LEMMA AllBytesEmpty == AllBytes(<<>>) = 0
<1>1. <<>> \in Seq(Groups)
  OBVIOUS
<1> QED BY <1>1, AllBytesIs, FunSumEmpty, Zenon

\* A group more adds its bytes.
LEMMA AllBytesAppend ==
  ASSUME NEW gs \in Seq(Groups), NEW g \in Groups
  PROVE  AllBytes(Append(gs, g)) = AllBytes(gs) + GroupBytes(g)
<1>1. PartFun(AllPages)[g] = GroupBytes(g)
  BY GroupRecords DEF PartFun
<1>2. Append(gs, g) \in Seq(Groups)
  OBVIOUS
<1>3. FunSum(Append(gs, g), PartFun(AllPages)) = FunSum(gs, PartFun(AllPages)) + PartFun(AllPages)[g]
  BY PartFunType, FunSumAppend
<1> QED BY <1>1, <1>2, <1>3, AllBytesIs, Zenon

\* The bytes of groups are a natural.
LEMMA AllBytesType ==
  ASSUME NEW gs \in Seq(Groups)
  PROVE  AllBytes(gs) \in Nat
BY AllBytesIs, PartFunType, FunSumType

\* The statistics of a log.
LEMMA StatsIs ==
  ASSUME NEW recs \in Seq(Records), NEW gs \in Seq(Groups)
  PROVE  stats(recs, gs) =
           [p \in PagesOf(recs) \cup PagesOf(gs) |->
              [count |-> FunSum(recs, CountFun(p)), bytes |-> FunSum(gs, PartFun({p}))]]
<1>1. Len(recs) \in Nat /\ \A i \in 1..Len(recs) : recs[i] \in Records
  OBVIOUS
<1>2. Len(gs) \in Nat /\ \A i \in 1..Len(gs) : gs[i] \in Groups
  OBVIOUS
<1>3. ASSUME NEW p
      PROVE  SumOf(recs, LAMBDA r : IF r.page = p THEN 1 ELSE 0) = FunSum(recs, CountFun(p))
  <2>1. \A i \in 1..Len(recs) : CountFun(p)[recs[i]] = IF recs[i].page = p THEN 1 ELSE 0
    BY <1>1 DEF CountFun
  <2>2. [i \in 1..Len(recs) |-> CountFun(p)[recs[i]]] =
          [i \in 1..Len(recs) |-> IF recs[i].page = p THEN 1 ELSE 0]
    BY <2>1
  <2> QED BY <2>2, Zenon DEF SumOf, FunSum
<1>4. ASSUME NEW p
      PROVE  SumOf(gs, LAMBDA g : IF g.page = p THEN GroupBytes(g) ELSE 0) =
               FunSum(gs, PartFun({p}))
  <2>1. \A i \in 1..Len(gs) :
          PartFun({p})[gs[i]] = IF gs[i].page = p THEN GroupBytes(gs[i]) ELSE 0
    BY <1>2 DEF PartFun
  <2>2. [i \in 1..Len(gs) |-> PartFun({p})[gs[i]]] =
          [i \in 1..Len(gs) |-> IF gs[i].page = p THEN GroupBytes(gs[i]) ELSE 0]
    BY <2>1, Zenon
  <2> QED BY <2>2, Zenon DEF SumOf, FunSum
<1> QED BY <1>3, <1>4, Zenon DEF stats

\* A record more may bring a page.
LEMMA PagesOfAppend ==
  ASSUME NEW T, NEW s \in Seq(T), NEW x \in T
  PROVE  PagesOf(Append(s, x)) = PagesOf(s) \cup {x.page}
<1>1. Range(Append(s, x)) = Range(s) \cup {x}
  BY RangeAppend
<1> QED BY <1>1 DEF PagesOf

\* No records, no pages.
LEMMA PagesOfEmpty == PagesOf(<<>>) = {}
BY DEF PagesOf, Range

\* Records are of finitely many pages.
LEMMA PagesOfFinite ==
  ASSUME NEW T, NEW s \in Seq(T)
  PROVE  IsFiniteSet(PagesOf(s))
<1> DEFINE Good(r) == IsFiniteSet(PagesOf(r))
           Q == {r \in Seq(T) : Good(r)}
<1>1. Good(<<>>)
  BY PagesOfEmpty, FS_EmptySet, Zenon
<1>2. ASSUME NEW r \in Seq(T), NEW x \in T, Good(r) PROVE Good(Append(r, x))
  <2>1. IsFiniteSet(PagesOf(r) \cup {x.page})
    BY <1>2, FS_AddElement, Zenon
  <2>2. PagesOf(Append(r, x)) = PagesOf(r) \cup {x.page}
    BY PagesOfAppend
  <2> QED BY <2>1, <2>2
<1> HIDE DEF Good
<1>3. <<>> \in Q /\ \A r \in Seq(T), x \in T : r \in Q => Append(r, x) \in Q
  BY <1>1, <1>2
<1> HIDE DEF Q
<1>4. s \in Q
  BY <1>3, SeqSetInduction
<1> QED BY <1>4 DEF Q, Good

\* The pages of records are pages.
LEMMA PagesOfType ==
  /\ \A s \in Seq(Records) : PagesOf(s) \subseteq AllPages
  /\ \A s \in Seq(Groups) : PagesOf(s) \subseteq AllPages
<1>1. ASSUME NEW s \in Seq(Records) PROVE PagesOf(s) \subseteq AllPages
  BY RecordId DEF PagesOf, Range
<1>2. ASSUME NEW s \in Seq(Groups) PROVE PagesOf(s) \subseteq AllPages
  BY GroupRecords DEF PagesOf, Range
<1> QED BY <1>1, <1>2

\* Pages without groups have no bytes, pages without records no count.
LEMMA NoBytes ==
  ASSUME NEW gs \in Seq(Groups), NEW S, PagesOf(gs) \cap S = {}
  PROVE  FunSum(gs, PartFun(S)) = 0
<1> DEFINE Q == {r \in Seq(Groups) : PagesOf(r) \cap S = {} => FunSum(r, PartFun(S)) = 0}
<1>1. <<>> \in Q
  BY FunSumEmpty
<1>2. ASSUME NEW r \in Seq(Groups), NEW x \in Groups, r \in Q PROVE Append(r, x) \in Q
  <2> SUFFICES ASSUME PagesOf(Append(r, x)) \cap S = {}
               PROVE  FunSum(Append(r, x), PartFun(S)) = 0
    OBVIOUS
  <2>1. PagesOf(r) \cap S = {} /\ x.page \notin S
    <3>1. PagesOf(Append(r, x)) = PagesOf(r) \cup {x.page}
      BY PagesOfAppend, Zenon
    <3> QED BY <3>1
  <2>2. FunSum(Append(r, x), PartFun(S)) = FunSum(r, PartFun(S)) + PartFun(S)[x]
    BY PartFunType, FunSumAppend, SMTT(30)
  <2>3. PartFun(S)[x] = 0
    BY <2>1 DEF PartFun
  <2> QED BY <1>2, <2>1, <2>2, <2>3
<1> HIDE DEF Q
<1>3. gs \in Q
  BY <1>1, <1>2, SeqSetInduction, Zenon
<1> QED BY <1>3 DEF Q

\* A page without records has the count 0.
LEMMA NoCount ==
  ASSUME NEW recs \in Seq(Records), NEW p, p \notin PagesOf(recs)
  PROVE  FunSum(recs, CountFun(p)) = 0
<1> DEFINE Q == {r \in Seq(Records) : p \notin PagesOf(r) => FunSum(r, CountFun(p)) = 0}
<1>1. <<>> \in Q
  BY FunSumEmpty
<1>2. ASSUME NEW r \in Seq(Records), NEW x \in Records, r \in Q PROVE Append(r, x) \in Q
  <2> SUFFICES ASSUME p \notin PagesOf(Append(r, x))
               PROVE  FunSum(Append(r, x), CountFun(p)) = 0
    OBVIOUS
  <2>1. p \notin PagesOf(r) /\ x.page # p
    <3>1. PagesOf(Append(r, x)) = PagesOf(r) \cup {x.page}
      BY PagesOfAppend
    <3> QED BY <3>1
  <2>2. FunSum(Append(r, x), CountFun(p)) = FunSum(r, CountFun(p)) + CountFun(p)[x]
    BY CountFunType, FunSumAppend
  <2>3. CountFun(p)[x] = 0
    BY <2>1 DEF CountFun
  <2> QED BY <1>2, <2>1, <2>2, <2>3
<1> HIDE DEF Q
<1>3. recs \in Q
  BY <1>1, <1>2, SeqSetInduction, Zenon
<1> QED BY <1>3 DEF Q

\* The bytes of a set of pages are those of one page and those of the others.
LEMMA PartSplit ==
  ASSUME NEW gs \in Seq(Groups), NEW S, NEW p \in S
  PROVE  FunSum(gs, PartFun(S)) = FunSum(gs, PartFun({p})) + FunSum(gs, PartFun(S \ {p}))
<1> DEFINE A(r) == FunSum(r, PartFun(S))
           B(r) == FunSum(r, PartFun({p}))
           C(r) == FunSum(r, PartFun(S \ {p}))
           Q == {r \in Seq(Groups) : A(r) = B(r) + C(r)}
<1>1. <<>> \in Q
  BY FunSumEmpty
<1>2. ASSUME NEW r \in Seq(Groups), NEW x \in Groups, r \in Q PROVE Append(r, x) \in Q
  <2>1. A(Append(r, x)) = A(r) + PartFun(S)[x]
    BY PartFunType, FunSumAppend, Zenon
  <2>2. B(Append(r, x)) = B(r) + PartFun({p})[x]
    BY PartFunType, FunSumAppend, Zenon
  <2>3. C(Append(r, x)) = C(r) + PartFun(S \ {p})[x]
    BY PartFunType, FunSumAppend, Zenon
  <2>4. /\ PartFun(S)[x] = PartFun({p})[x] + PartFun(S \ {p})[x]
        /\ PartFun({p})[x] \in Nat /\ PartFun(S \ {p})[x] \in Nat
    BY GroupBytesType DEF PartFun
  <2>5. B(r) \in Nat /\ C(r) \in Nat
    BY PartFunType, FunSumType, Zenon
  <2>6. A(r) = B(r) + C(r)
    BY <1>2
  <2> HIDE DEF A, B, C
  <2>7. A(Append(r, x)) = B(Append(r, x)) + C(Append(r, x))
    BY <2>1, <2>2, <2>3, <2>4, <2>5, <2>6
  <2> QED BY <2>7
<1> HIDE DEF Q
<1>3. gs \in Q
  BY <1>1, <1>2, SeqSetInduction, Zenon
<1> QED BY <1>3 DEF Q

\* All bytes are those of a set with all pages.
LEMMA PartAll ==
  ASSUME NEW gs \in Seq(Groups), NEW S, PagesOf(gs) \subseteq S
  PROVE  FunSum(gs, PartFun(S)) = AllBytes(gs)
<1> DEFINE Q == {r \in Seq(Groups) : PagesOf(r) \subseteq S => FunSum(r, PartFun(S)) = AllBytes(r)}
<1>1. <<>> \in Q
  BY FunSumEmpty, AllBytesEmpty
<1>2. ASSUME NEW r \in Seq(Groups), NEW x \in Groups, r \in Q PROVE Append(r, x) \in Q
  <2> SUFFICES ASSUME PagesOf(Append(r, x)) \subseteq S
               PROVE  FunSum(Append(r, x), PartFun(S)) = AllBytes(Append(r, x))
    OBVIOUS
  <2>1. PagesOf(r) \subseteq S /\ x.page \in S
    <3>1. PagesOf(Append(r, x)) = PagesOf(r) \cup {x.page}
      BY PagesOfAppend
    <3> QED BY <3>1
  <2>2. FunSum(Append(r, x), PartFun(S)) = FunSum(r, PartFun(S)) + PartFun(S)[x]
    BY PartFunType, FunSumAppend, Zenon
  <2>3. PartFun(S)[x] = GroupBytes(x)
    BY <2>1 DEF PartFun
  <2>4. AllBytes(Append(r, x)) = AllBytes(r) + GroupBytes(x)
    BY AllBytesAppend
  <2>5. FunSum(r, PartFun(S)) = AllBytes(r)
    BY <1>2, <2>1
  <2> QED BY <2>2, <2>3, <2>4, <2>5, Zenon
<1> HIDE DEF Q
<1>3. gs \in Q
  BY <1>1, <1>2, SeqSetInduction, Zenon
<1> QED BY <1>3 DEF Q

\* BytesIn adds the bytes of the pages in some order: whatever the order, a function
\* of the sets of pages that adds up is the one it computes.
AddsUp(h, F, D) ==
  h = [s \in SUBSET D |->
         IF s = {} THEN 0
         ELSE F[CHOOSE x \in s : TRUE].bytes + h[s \ {CHOOSE x \in s : TRUE}]]

\* A sum over a finite set does not depend on the order.
LEMMA AddsUpUnique ==
  ASSUME NEW F, NEW D, IsFiniteSet(D), NEW h, NEW k, AddsUp(h, F, D), AddsUp(k, F, D)
  PROVE  h[D] = k[D]
<1> DEFINE S == {n \in Nat : \A s \in SUBSET D : Cardinality(s) = n => h[s] = k[s]}
<1>1. 0 \in S
  <2> SUFFICES ASSUME NEW s \in SUBSET D, Cardinality(s) = 0 PROVE h[s] = k[s]
    OBVIOUS
  <2>1. s = {}
    BY FS_Subset, FS_EmptySet, Zenon
  <2>2. {} \in SUBSET D
    OBVIOUS
  <2>3. h[{}] = 0
    BY <2>2 DEF AddsUp
  <2>4. k[{}] = 0
    BY <2>2 DEF AddsUp
  <2> QED BY <2>1, <2>3, <2>4, Zenon
<1>2. ASSUME NEW n \in Nat, n \in S PROVE n + 1 \in S
  <2> SUFFICES ASSUME NEW s \in SUBSET D, Cardinality(s) = n + 1 PROVE h[s] = k[s]
    OBVIOUS
  <2> DEFINE x == CHOOSE y \in s : TRUE
  <2>1. IsFiniteSet(s)
    BY FS_Subset
  <2>2. s # {}
    BY <2>1, FS_EmptySet
  <2>3. x \in s
    BY <2>2
  <2>4. Cardinality(s \ {x}) = n
    <3> HIDE DEF x
    <3>1. Cardinality(s \ {x}) = Cardinality(s) - 1
      BY <2>1, <2>3, FS_RemoveElement, Zenon
    <3> QED BY <3>1
  <2>5. s \ {x} \in SUBSET D
    OBVIOUS
  <2>6. h[s \ {x}] = k[s \ {x}]
    BY <1>2, <2>4, <2>5, Zenon
  <2>7. h[s] = F[x].bytes + h[s \ {x}]
    BY <2>2 DEF AddsUp
  <2>8. k[s] = F[x].bytes + k[s \ {x}]
    BY <2>2 DEF AddsUp
  <2> QED BY <2>6, <2>7, <2>8, Zenon
<1> HIDE DEF S
<1>3. \A n \in Nat : n \in S
  BY <1>1, <1>2, NatSetInduction, Zenon
<1>4. Cardinality(D) \in S
  BY <1>3, FS_CardinalityType, Zenon
<1> QED BY <1>4 DEF S

\* The sum of the bytes per page is the bytes of all groups.
LEMMA BytesInIs ==
  ASSUME NEW F, IsFiniteSet(DOMAIN F), NEW k, AddsUp(k, F, DOMAIN F)
  PROVE  BytesIn(F) = k[DOMAIN F]
<1> DEFINE h == CHOOSE g : AddsUp(g, F, DOMAIN F)
<1>1. AddsUp(h, F, DOMAIN F)
  OBVIOUS
<1>2. BytesIn(F) = h[DOMAIN F]
  BY DEF BytesIn, MapThenSumSet, MapThenFoldSet, AddsUp
<1> HIDE DEF h
<1> QED BY <1>1, <1>2, AddsUpUnique, Zenon

\* The total that checkpoint_page takes over the pages is the length of the groups.
LEMMA BytesInStats ==
  ASSUME NEW recs \in Seq(Records), NEW gs \in Seq(Groups)
  PROVE  BytesIn(stats(recs, gs)) = AllBytes(gs)
<1> DEFINE F == stats(recs, gs)
           D == PagesOf(recs) \cup PagesOf(gs)
           k == [s \in SUBSET D |-> FunSum(gs, PartFun(s))]
<1>1. DOMAIN F = D /\ \A p \in D : F[p].bytes = FunSum(gs, PartFun({p}))
  <2>1. F = [p \in D |-> [count |-> FunSum(recs, CountFun(p)), bytes |-> FunSum(gs, PartFun({p}))]]
    BY StatsIs, Zenon
  <2> HIDE DEF F, D
  <2> QED BY <2>1
<1>2. IsFiniteSet(D)
  BY PagesOfFinite, FS_Union, Zenon
<1>3. ASSUME NEW s \in SUBSET D
      PROVE  k[s] = IF s = {} THEN 0
                    ELSE F[CHOOSE x \in s : TRUE].bytes + k[s \ {CHOOSE x \in s : TRUE}]
  <2>1. CASE s = {}
    <3>1. FunSum(gs, PartFun({})) = 0
      BY NoBytes
    <3> QED BY <2>1, <3>1
  <2>2. CASE s # {}
    <3> DEFINE x == CHOOSE y \in s : TRUE
    <3>1. x \in s
      BY <2>2
    <3>2. FunSum(gs, PartFun(s)) = FunSum(gs, PartFun({x})) + FunSum(gs, PartFun(s \ {x}))
      BY <3>1, PartSplit, Zenon
    <3>3. F[x].bytes = FunSum(gs, PartFun({x}))
      BY <1>1, <3>1, Zenon
    <3>4. s \ {x} \in SUBSET D
      OBVIOUS
    <3>5. k[s] = FunSum(gs, PartFun(s)) /\ k[s \ {x}] = FunSum(gs, PartFun(s \ {x}))
      BY <3>4
    <3> HIDE DEF F, k, D, x
    <3>6. k[s] = F[x].bytes + k[s \ {x}]
      BY <3>2, <3>3, <3>5
    <3> QED BY <2>2, <3>6, Zenon DEF x
  <2> QED BY <2>1, <2>2, Zenon
<1>4. AddsUp(k, F, D)
  <2> HIDE DEF F, D
  <2>1. k = [s \in SUBSET D |->
               IF s = {} THEN 0
               ELSE F[CHOOSE x \in s : TRUE].bytes + k[s \ {CHOOSE x \in s : TRUE}]]
    BY <1>3, Zenon
  <2> HIDE DEF k
  <2> QED BY <2>1, Zenon DEF AddsUp
<1>5. BytesIn(F) = k[D]
  <2> HIDE DEF F, k, D
  <2> QED BY <1>1, <1>2, <1>4, BytesInIs, Zenon
<1>6. k[D] = AllBytes(gs)
  <2>1. FunSum(gs, PartFun(D)) = AllBytes(gs)
    BY PartAll
  <2> QED BY <2>1
<1> QED BY <1>5, <1>6

\* What append_record does to the statistics: first the count of the page,
AddCount(counts, p) ==
  [q \in DOMAIN counts \cup {p} |->
     IF q = p
     THEN [(IF p \in DOMAIN counts THEN counts[p] ELSE [count |-> 0, bytes |-> 0])
             EXCEPT !.count = @ + 1]
     ELSE counts[q]]
AddBytes(counts, g) == [counts EXCEPT ![g.page].bytes = @ + GroupBytes(g)]

\* What append_record adds to the statistics are those of the new group.
LEMMA StatsAppendRecord ==
  ASSUME NEW recs \in Seq(Records), NEW gs \in Seq(Groups), NEW r \in Records
  PROVE  stats(Append(recs, r), gs) = AddCount(stats(recs, gs), r.page)
<1> DEFINE counts == stats(recs, gs)
           D == PagesOf(recs) \cup PagesOf(gs)
           C(p) == FunSum(recs, CountFun(p))
           B(p) == FunSum(gs, PartFun({p}))
           t == Append(recs, r)
           N(p) == FunSum(t, CountFun(p))
<1>1. counts = [p \in D |-> [count |-> C(p), bytes |-> B(p)]]
  BY StatsIs, Zenon
<1>2. t \in Seq(Records) /\ PagesOf(t) = PagesOf(recs) \cup {r.page}
  BY PagesOfAppend
<1>3. stats(t, gs) = [p \in PagesOf(t) \cup PagesOf(gs) |-> [count |-> N(p), bytes |-> B(p)]]
  BY <1>2, StatsIs, Zenon
<1>4. ASSUME NEW p PROVE N(p) = C(p) + (IF r.page = p THEN 1 ELSE 0) /\ C(p) \in Nat
  <2>1. N(p) = C(p) + CountFun(p)[r]
    BY CountFunType, FunSumAppend, Zenon
  <2>2. CountFun(p)[r] = IF r.page = p THEN 1 ELSE 0
    BY DEF CountFun
  <2>3. C(p) \in Nat
    BY CountFunType, FunSumType, Zenon
  <2> QED BY <2>1, <2>2, <2>3, Zenon
<1>5. r.page \notin D => C(r.page) = 0 /\ B(r.page) = 0
  <2>1. r.page \notin PagesOf(recs) => C(r.page) = 0
    BY NoCount
  <2>2. ASSUME r.page \notin PagesOf(gs) PROVE B(r.page) = 0
    <3>1. PagesOf(gs) \cap {r.page} = {}
      BY <2>2
    <3> QED BY <3>1, NoBytes, Zenon
  <2> QED BY <2>1, <2>2, Zenon
<1>6. PagesOf(t) \cup PagesOf(gs) = D \cup {r.page}
  BY <1>2, Zenon
<1> HIDE DEF D, C, B, N, t, counts
<1>7. DOMAIN counts = D /\ \A p \in D : counts[p] = [count |-> C(p), bytes |-> B(p)]
  BY <1>1, Zenon
<1>8. ASSUME NEW q \in D \cup {r.page}
      PROVE  [count |-> N(q), bytes |-> B(q)] =
               IF q = r.page
               THEN [(IF r.page \in D THEN counts[r.page] ELSE [count |-> 0, bytes |-> 0])
                       EXCEPT !.count = @ + 1]
               ELSE counts[q]
  <2>1. CASE q # r.page
    BY <1>4, <1>7, <2>1
  <2>2. CASE q = r.page /\ r.page \in D
    <3>1. N(q) = C(q) + 1 /\ counts[q] = [count |-> C(q), bytes |-> B(q)]
      BY <1>4, <1>7, <2>2, Zenon
    <3> QED BY <2>2, <3>1
  <2>3. CASE q = r.page /\ r.page \notin D
    BY <1>4, <1>5, <2>3, Zenon
  <2> QED BY <2>1, <2>2, <2>3, Zenon
<1>9. stats(t, gs) = [p \in D \cup {r.page} |-> [count |-> N(p), bytes |-> B(p)]]
  BY <1>3, <1>6
<1>10. AddCount(counts, r.page) = [p \in D \cup {r.page} |-> [count |-> N(p), bytes |-> B(p)]]
  BY <1>7, <1>8, Zenon DEF AddCount
<1> QED BY <1>9, <1>10 DEF t, counts

\* then, with the group written, its bytes.
LEMMA StatsAppendGroup ==
  ASSUME NEW recs \in Seq(Records), NEW gs \in Seq(Groups), NEW g \in Groups,
         g.page \in PagesOf(recs)
  PROVE  stats(recs, Append(gs, g)) = AddBytes(stats(recs, gs), g)
<1> DEFINE counts == stats(recs, gs)
           D == PagesOf(recs) \cup PagesOf(gs)
           C(p) == FunSum(recs, CountFun(p))
           B(p) == FunSum(gs, PartFun({p}))
           t == Append(gs, g)
           N(p) == FunSum(t, PartFun({p}))
<1>1. counts = [p \in D |-> [count |-> C(p), bytes |-> B(p)]]
  BY StatsIs, Zenon
<1>2. t \in Seq(Groups) /\ PagesOf(t) = PagesOf(gs) \cup {g.page}
  BY PagesOfAppend
<1>3. stats(recs, t) = [p \in PagesOf(recs) \cup PagesOf(t) |-> [count |-> C(p), bytes |-> N(p)]]
  BY <1>2, StatsIs, Zenon
<1>4. ASSUME NEW p
      PROVE  N(p) = B(p) + (IF g.page = p THEN GroupBytes(g) ELSE 0) /\ B(p) \in Nat
  <2>1. N(p) = B(p) + PartFun({p})[g]
    BY PartFunType, FunSumAppend, Zenon
  <2>2. PartFun({p})[g] = IF g.page = p THEN GroupBytes(g) ELSE 0
    BY DEF PartFun
  <2>3. B(p) \in Nat
    BY PartFunType, FunSumType, Zenon
  <2> QED BY <2>1, <2>2, <2>3, Zenon
<1>5. PagesOf(recs) \cup PagesOf(t) = D /\ g.page \in D
  BY <1>2
<1> HIDE DEF D, C, B, N, t, counts
<1>6. stats(recs, t) = [p \in D |-> [count |-> C(p), bytes |-> N(p)]]
  BY <1>3, <1>5
<1>7. ASSUME NEW q \in D
      PROVE  [count |-> C(q), bytes |-> N(q)] =
               AddBytes(counts, g)[q]
  <2> USE DEF AddBytes
  <2>1. CASE q # g.page
    BY <1>1, <1>4, <2>1
  <2>2. CASE q = g.page
    <3>1. counts[q] = [count |-> C(q), bytes |-> B(q)] /\ q \in DOMAIN counts
      BY <1>1
    <3>2. N(q) = B(q) + GroupBytes(g)
      BY <1>4, <2>2, Zenon
    <3>3. [counts EXCEPT ![q].bytes = @ + GroupBytes(g)][q] =
            [counts[q] EXCEPT !.bytes = @ + GroupBytes(g)]
      BY <3>1
    <3> QED BY <2>2, <3>1, <3>2, <3>3
  <2> QED BY <2>1, <2>2, Zenon
<1>8. DOMAIN AddBytes(counts, g) = D
  BY <1>1 DEF AddBytes
<1>9. AddBytes(counts, g) = [p \in D |-> AddBytes(counts, g)[p]]
  BY <1>8, Zenon DEF AddBytes
<1> QED BY <1>6, <1>7, <1>9, Zenon DEF t, counts

\* The statistics are counts and bytes per page.
LEMMA StatsType ==
  ASSUME NEW recs \in Seq(Records), NEW gs \in Seq(Groups)
  PROVE  /\ DOMAIN stats(recs, gs) = PagesOf(recs) \cup PagesOf(gs)
         /\ DOMAIN stats(recs, gs) \subseteq Pages \cup {TxnMeta}
         /\ \A p \in DOMAIN stats(recs, gs) : stats(recs, gs)[p] \in [count : Nat, bytes : Nat]
<1> DEFINE F == stats(recs, gs)
           D == PagesOf(recs) \cup PagesOf(gs)
           C(p) == FunSum(recs, CountFun(p))
           B(p) == FunSum(gs, PartFun({p}))
<1>1. F = [p \in D |-> [count |-> C(p), bytes |-> B(p)]]
  BY StatsIs, Zenon
<1>2. \A p : C(p) \in Nat
  BY CountFunType, FunSumType, Zenon
<1>3. \A p : B(p) \in Nat
  BY PartFunType, FunSumType, Zenon
<1>4. D \subseteq Pages \cup {TxnMeta}
  BY PagesOfType DEF AllPages
<1>5. D = PagesOf(recs) \cup PagesOf(gs)
  OBVIOUS
<1> HIDE DEF F, D, C, B
<1>6. DOMAIN F = D /\ \A p \in DOMAIN F : F[p] \in [count : Nat, bytes : Nat]
  BY <1>1, <1>2, <1>3, Zenon
<1> QED BY <1>4, <1>5, <1>6, Zenon DEF F

\* The statistics of an empty log.
LEMMA NoStatsIs == NoStats = stats(<<>>, <<>>)
<1>1. PagesOf(<<>>) \cup PagesOf(<<>>) = {}
  BY PagesOfEmpty
<1> QED BY <1>1, Zenon DEF stats, NoStats

-------------------------------------------------------------------------------
(* The inductive invariant holds initially and is kept by every action.    *)

\* What is in a file.
LEMMA FileType ==
  ASSUME NEW f \in Files
  PROVE  /\ f.groups \in Seq(Groups) /\ f.manifest \in Nat
         /\ f = [manifest |-> f.manifest, groups |-> f.groups]
BY DEF Files

\* A file with other groups or another manifest is a file.
LEMMA FileExcept ==
  ASSUME NEW f \in Files, NEW gs \in Seq(Groups)
  PROVE  /\ [f EXCEPT !.groups = gs] \in Files
         /\ [f EXCEPT !.groups = gs].groups = gs
         /\ [f EXCEPT !.groups = gs].manifest = f.manifest
BY DEF Files

\* What the state of a call consists of.
LEMMA OpType ==
  ASSUME TypeOK
  PROVE  /\ op.call \in Calls /\ op.todo \in Seq(Records)
         /\ op = [call |-> op.call, todo |-> op.todo]
BY DEF TypeOK

\* The invariant holds of a new log.
LEMMA InitInv == Init => WalInv
<1> SUFFICES ASSUME Init PROVE WalInv
  OBVIOUS
<1> USE LengthsAssumption
<1>1. /\ records = <<>> /\ leaf_counts = NoStats /\ total_records = 0 /\ total_bytes = 0
      /\ manifest = MANIFEST_LEN /\ file.groups = <<>> /\ synced.groups = <<>>
      /\ file \in Files /\ synced \in Files
      /\ op.call = "down" /\ op.todo = <<>> /\ appends = 0 /\ acked = {}
  BY DEF Init, NoFile, Holding, Files
<1>2. TypeOK
  <2>1. op \in [call : Calls, todo : Seq(Records)]
    BY DEF Init, Holding, Calls
  <2>2. DOMAIN leaf_counts = {}
    BY <1>1, Zenon DEF NoStats
  <2> QED BY <1>1, <2>1, <2>2 DEF TypeOK
<1>3. FilesOK
  BY <1>1, RecordsInEmpty, NumberedEmpty DEF FilesOK, GroupsOK
<1>4. OpOK /\ AppendOK /\ RewriteOK /\ MemoryOK
  BY <1>1, Zenon DEF OpOK, AppendOK, RewriteOK, MemoryOK, Counted
<1>5. AckedRecoverable
  BY <1>1, Zenon DEF AckedRecoverable
<1> QED BY <1>2, <1>3, <1>4, <1>5, Zenon DEF WalInv

Whole(gs) == gs # <<>> => ~Torn(Last(gs))

\* What open keeps of a file.
LEMMA CompleteGroups ==
  ASSUME NEW f, f.groups \in Seq(Groups), GroupsOK(f.groups), NEW n,
         Numbered(RecordsIn(f.groups), n)
  PROVE  /\ complete_groups(f) \in Seq(Groups) /\ GroupsOK(complete_groups(f))
         /\ Whole(complete_groups(f))
         /\ read_records(f) = RecordsIn(f.groups)
         /\ Range(RecordsIn(complete_groups(f))) \subseteq Range(RecordsIn(f.groups))
         /\ Numbered(RecordsIn(complete_groups(f)), n)
<1>1. CASE Whole(f.groups)
  BY <1>1, CompleteWhole, Zenon DEF Whole
<1>2. CASE ~Whole(f.groups)
  <2> DEFINE gs == Front(f.groups)  g == Last(f.groups)
  <2>1. f.groups # <<>> /\ Torn(g)
    BY <1>2, Zenon DEF Whole
  <2>2. gs \in Seq(Groups) /\ g \in Groups /\ f.groups = Append(gs, g)
    BY <2>1, SplitLast, Zenon
  <2> HIDE DEF gs, g
  <2>3. complete_groups(f) = gs /\ read_records(f) = RecordsIn(f.groups)
    BY <2>1, <2>2, CompleteTorn, Zenon
  <2>4. GroupsOK(gs) /\ GroupOK(g) /\ Whole(gs)
    BY <2>2, GroupsAppend, Zenon DEF Whole
  <2>5. RecordsIn(f.groups) = RecordsIn(gs) \o g.recs
    BY <2>2, <2>4, RecordsInGroup, Zenon
  <2>6. RecordsIn(gs) \in Seq(Records) /\ g.recs \in Seq(Records)
    BY <2>2, RecordsInType, GroupRecords, Zenon
  <2>7. Numbered(RecordsIn(gs), n)
    BY <2>5, <2>6, NumberedPrefix, Zenon
  <2>8. Range(RecordsIn(f.groups)) = Range(RecordsIn(gs)) \cup Range(g.recs)
    BY <2>5, <2>6, RangeConcat
  <2> QED BY <2>2, <2>3, <2>4, <2>7, <2>8, Zenon
<1> QED BY <1>1, <1>2, Zenon

\* A file without a torn group is read whole.
LEMMA DurableWhole ==
  ASSUME NEW f, f.groups \in Seq(Groups), GroupsOK(f.groups), Whole(f.groups)
  PROVE  Durable(f) = RecordsIn(f.groups)
BY CompleteWhole DEF Durable, Whole

\* A torn group at the end loses itself only.
LEMMA DurableTorn ==
  ASSUME NEW f, NEW gs \in Seq(Groups), NEW g \in Groups, f.groups = Append(gs, g),
         GroupsOK(f.groups), Torn(g)
  PROVE  Durable(f) = RecordsIn(gs)
BY CompleteTorn, Zenon DEF Durable

\* What is read back are the complete groups.
LEMMA DurableGroups ==
  ASSUME NEW f, NEW h, f.groups = h.groups
  PROVE  Durable(f) = Durable(h)
BY DEF Durable, complete_groups, ValidGroups

\* The length of a file by its groups.
LEMMA FileLenIs == \A f : FileLen(f) = MANIFEST_LEN + AllBytes(f.groups)
BY DEF FileLen, AllBytes

\* The smaller of two lengths.
LEMMA MinPair ==
  ASSUME NEW a \in Nat, NEW b \in Nat
  PROVE  Min({a, b}) \in Nat /\ Min({a, b}) <= b
<1>1. \E x \in {a, b} : \A y \in {a, b} : x <= y
  <2>1. CASE a <= b
    BY <2>1
  <2>2. CASE ~(a <= b)
    BY <2>2
  <2> QED BY <2>1, <2>2, Zenon
<1> QED BY <1>1 DEF Min

\* WalManager::open reads the file and counts.
LEMMA OpenStep == WalInv /\ open => WalInv'
<1> SUFFICES ASSUME WalInv, open PROVE WalInv'
  OBVIOUS
<1> DEFINE kept == complete_groups(file)
           gs == file.groups
           rm == read_manifest(file)
           len == MANIFEST_LEN + AllBytes(kept)
<1> USE LengthsAssumption
<1>1. TypeOK /\ FilesOK /\ AckedRecoverable /\ op.call = "down" /\ op.todo = <<>>
  BY DEF WalInv, open, OpOK
<1>2. gs \in Seq(Groups) /\ file.manifest \in Nat /\ appends \in Nat /\ synced \in Files
  BY <1>1, FileType DEF TypeOK
<1>3. GroupsOK(gs) /\ Numbered(RecordsIn(gs), appends)
  BY <1>1, Zenon DEF FilesOK
<1>4. /\ kept \in Seq(Groups) /\ GroupsOK(kept) /\ Whole(kept)
      /\ read_records(file) = RecordsIn(gs)
      /\ Range(RecordsIn(kept)) \subseteq Range(RecordsIn(gs))
      /\ Numbered(RecordsIn(kept), appends)
  BY <1>2, <1>3, CompleteGroups, Zenon
<1>5. RecordsIn(gs) \in Seq(Records)
  BY <1>2, RecordsInType
<1>6. rm \in Nat
  BY <1>2 DEF read_manifest
<1>7. len \in Nat
  BY <1>4, AllBytesType
<1>8. FileLen([file EXCEPT !.groups = kept]) = len
  <2>1. file \in Files
    BY <1>1 DEF TypeOK
  <2>2. [file EXCEPT !.groups = kept].groups = kept
    BY <2>1 DEF Files
  <2> QED BY <2>2, FileLenIs, Zenon
<1> HIDE DEF kept, len, rm
<1>9. /\ records' = RecordsIn(gs) /\ leaf_counts' = stats(records', kept)
      /\ total_records' = Len(records') /\ total_bytes' = len /\ manifest' = Min({rm, len})
      /\ file' = [manifest |-> rm, groups |-> kept]
      /\ synced' \in {file', synced}
      /\ op' = [call |-> "open", todo |-> <<>>] /\ appends' = appends /\ acked' = acked
  BY <1>4, <1>8, Zenon DEF open, Holding, kept, rm
<1>10. manifest' \in Nat /\ manifest' <= len
  BY <1>6, <1>7, <1>9, MinPair, Zenon
<1>11. file'.groups = kept /\ op'.call = "open" /\ op'.todo = <<>> /\ file' \in Files
  BY <1>4, <1>6, <1>9, Zenon DEF Files
<1>12. TypeOK'
  <2>1. op' \in [call : Calls, todo : Seq(Records)]
    BY <1>9 DEF Calls
  <2>2. /\ DOMAIN leaf_counts' \subseteq Pages \cup {TxnMeta}
        /\ \A p \in DOMAIN leaf_counts' : leaf_counts'[p] \in [count : Nat, bytes : Nat]
    BY <1>4, <1>5, <1>9, StatsType, Zenon
  <2>3. acked' \subseteq Records /\ appends' \in 0..MaxAppends
    BY <1>1, <1>9, Zenon DEF TypeOK
  <2>4. synced' \in Files
    BY <1>2, <1>9, <1>11, Zenon
  <2>5. total_records' \in Nat /\ records' \in Seq(Records)
    BY <1>5, <1>9
  <2> QED BY <1>7, <1>9, <1>10, <1>11, <2>1, <2>2, <2>3, <2>4, <2>5, Zenon DEF TypeOK
<1>13. FilesOK'
  <2>1. GroupsOK(file'.groups) /\ Numbered(RecordsIn(file'.groups), appends')
    BY <1>4, <1>9, <1>11, Zenon
  <2>2. GroupsOK(synced'.groups) /\ Numbered(RecordsIn(synced'.groups), appends')
    <3>1. GroupsOK(synced.groups) /\ Numbered(RecordsIn(synced.groups), appends)
      BY <1>1, Zenon DEF FilesOK
    <3> QED BY <1>9, <2>1, <3>1, Zenon
  <2> QED BY <2>1, <2>2, Zenon DEF FilesOK
<1>14. ~GroupOpen'
  BY <1>4, <1>11, Zenon DEF GroupOpen, Whole
<1>15. OpOK' /\ AppendOK' /\ RewriteOK'
  BY <1>11, <1>14, Zenon DEF OpOK, AppendOK, RewriteOK
<1>16. Durable(file) = RecordsIn(kept)
  BY DEF Durable, kept
<1>17. Durable(file') = RecordsIn(kept)
  BY <1>4, <1>11, DurableWhole, Zenon
<1>18. acked \subseteq Range(RecordsIn(kept)) /\ acked \subseteq Range(Durable(synced))
  BY <1>1, <1>16, Zenon DEF AckedRecoverable, Rewriting
<1>19. MemoryOK'
  <2>1. Settled' = kept
    BY <1>11, Zenon DEF Settled
  <2>2. Numbered(records', appends') /\ acked' \subseteq Range(records')
    BY <1>3, <1>4, <1>9, <1>18, Zenon
  <2>3. Range(RecordsIn(kept)) \subseteq Range(records')
    BY <1>4, <1>9, Zenon
  <2>4. total_bytes' = MANIFEST_LEN + SumOf(kept, GroupBytes)
    BY <1>9 DEF len, AllBytes
  <2>5. manifest' <= MANIFEST_LEN + SumOf(kept, GroupBytes)
    BY <1>10, Zenon DEF len, AllBytes
  <2> QED BY <1>9, <1>11, <2>1, <2>2, <2>3, <2>4, <2>5, Zenon DEF MemoryOK
<1>20. AckedRecoverable'
  BY <1>9, <1>17, <1>18, Zenon DEF AckedRecoverable
<1> QED BY <1>12, <1>13, <1>15, <1>19, <1>20, Zenon DEF WalInv

\* The steps that write or sync the manifest leave the groups alone.
LEMMA ManifestOnly ==
  ASSUME WalInv, UNCHANGED <<memory, appends, acked>>,
         op.call \in {"open", "manifest", "sync"},
         NEW c \in {"idle", "sync"}, op' = [call |-> c, todo |-> <<>>],
         file' \in Files, file'.groups = file.groups, file'.manifest = manifest,
         synced' \in Files, synced' \in {synced, file'}
  PROVE  WalInv'
<1>1. TypeOK /\ FilesOK /\ OpOK /\ MemoryOK /\ AckedRecoverable
  BY Zenon DEF WalInv
<1>2. /\ records' = records /\ leaf_counts' = leaf_counts /\ total_records' = total_records
      /\ total_bytes' = total_bytes /\ manifest' = manifest
      /\ appends' = appends /\ acked' = acked
  BY DEF memory
<1>3. op'.call = c /\ op'.todo = <<>>
  BY Zenon
<1>4. ~GroupOpen /\ ~GroupOpen'
  BY <1>1, Zenon DEF OpOK, GroupOpen
<1>5. Settled = file.groups /\ Settled' = file.groups
  BY <1>3, Zenon DEF Settled
<1>6. TypeOK'
  <2>1. op' \in [call : Calls, todo : Seq(Records)]
    BY DEF Calls
  <2> QED BY <1>1, <1>2, <2>1, Zenon DEF TypeOK
<1>7. FilesOK'
  <2>1. GroupsOK(synced'.groups) /\ Numbered(RecordsIn(synced'.groups), appends)
    BY <1>1, Zenon DEF FilesOK
  <2> QED BY <1>1, <1>2, <2>1, Zenon DEF FilesOK
<1>8. OpOK' /\ AppendOK' /\ RewriteOK'
  BY <1>3, <1>4, Zenon DEF OpOK, AppendOK, RewriteOK
<1>9. MemoryOK'
  BY <1>1, <1>2, <1>3, <1>5, Zenon DEF MemoryOK, Counted
<1>10. Durable(file') = Durable(file)
  BY DurableGroups, Zenon
<1>11. acked \subseteq Range(Durable(file)) /\ acked \subseteq Range(Durable(synced))
  BY <1>1, Zenon DEF AckedRecoverable, Rewriting
<1>12. AckedRecoverable'
  BY <1>2, <1>10, <1>11, Zenon DEF AckedRecoverable
<1> QED BY <1>6, <1>7, <1>8, <1>9, <1>12, Zenon DEF WalInv

\* open brings the manifest back into the file.
LEMMA OpenManifestStep == WalInv /\ OpenManifest => WalInv'
<1> SUFFICES ASSUME WalInv, OpenManifest PROVE WalInv'
  OBVIOUS
<1>1. file \in Files /\ synced \in Files /\ manifest \in Nat
  BY DEF WalInv, TypeOK
<1>2. file' \in Files /\ file'.groups = file.groups /\ file'.manifest = manifest
  BY <1>1, Zenon DEF OpenManifest, Files
<1>3. synced' \in {synced, file'} /\ synced' \in Files
  BY <1>1, <1>2 DEF OpenManifest
<1>4. op' = [call |-> "idle", todo |-> <<>>] /\ op.call = "open" /\ UNCHANGED <<memory, appends, acked>>
  BY DEF OpenManifest, Holding
<1> QED BY <1>2, <1>3, <1>4, ManifestOnly, Zenon

\* write_manifest, in open and at the end of a checkpoint or a clear.
LEMMA WriteManifestStep == WalInv /\ write_manifest => WalInv'
<1> SUFFICES ASSUME WalInv, write_manifest PROVE WalInv'
  OBVIOUS
<1>1. file \in Files /\ synced \in Files /\ manifest \in Nat
  BY DEF WalInv, TypeOK
<1>2. file' \in Files /\ file'.groups = file.groups /\ file'.manifest = manifest
  BY <1>1 DEF write_manifest, Files
<1>3. synced' \in {synced, file'} /\ synced' \in Files
  BY <1>1 DEF write_manifest
<1>4. op' = [call |-> "sync", todo |-> <<>>] /\ op.call = "manifest" /\ UNCHANGED <<memory, appends, acked>>
  BY DEF write_manifest, Holding
<1> QED BY <1>2, <1>3, <1>4, ManifestOnly, Zenon

\* The sync at the end of open, of a checkpoint and of clear.
LEMMA ManifestSyncStep == WalInv /\ ManifestSync => WalInv'
<1> SUFFICES ASSUME WalInv, ManifestSync PROVE WalInv'
  OBVIOUS
<1>1. file \in Files
  BY DEF WalInv, TypeOK
<1>2. op' = [call |-> "idle", todo |-> <<>>] /\ op.call = "sync" /\ UNCHANGED <<memory, appends, acked>>
  BY Zenon DEF ManifestSync, Holding
<1>3. file' \in Files /\ file'.groups = file.groups /\ file'.manifest = manifest
  BY <1>1, <1>2, Zenon DEF ManifestSync, WalInv, MemoryOK
<1>4. synced' \in {synced, file'} /\ synced' \in Files
  BY <1>1, Zenon DEF ManifestSync
<1> QED BY <1>2, <1>3, <1>4, ManifestOnly, Zenon

\* A crash of the process or of the machine at any moment.
LEMMA CrashStep == WalInv /\ Crash => WalInv'
<1> SUFFICES ASSUME WalInv, Crash PROVE WalInv'
  OBVIOUS
<1> USE LengthsAssumption
<1>1. TypeOK /\ FilesOK
  BY Zenon DEF WalInv
<1>2. /\ file' \in {file, synced} /\ synced' = file' /\ file' \in Files
      /\ records' = <<>> /\ leaf_counts' = NoStats /\ total_records' = 0
      /\ total_bytes' = 0 /\ manifest' = MANIFEST_LEN
      /\ op' = [call |-> "down", todo |-> <<>>]
      /\ acked' = acked \cap Range(Durable(file')) /\ appends' = appends
  BY <1>1, Zenon DEF Crash, Holding, TypeOK
<1>3. op'.call = "down" /\ op'.todo = <<>>
  BY <1>2, SMTT(30)
<1>4. TypeOK'
  <2>1. op' \in [call : Calls, todo : Seq(Records)]
    BY <1>2 DEF Calls
  <2>2. DOMAIN leaf_counts' = {}
    BY <1>2, Zenon DEF NoStats
  <2>3. acked' \subseteq Records /\ appends' \in 0..MaxAppends
    BY <1>1, <1>2, Zenon DEF TypeOK
  <2> QED BY <1>2, <2>1, <2>2, <2>3, Zenon DEF TypeOK
<1>5. FilesOK'
  BY <1>1, <1>2, Zenon DEF FilesOK
<1>6. OpOK' /\ AppendOK' /\ RewriteOK' /\ MemoryOK'
  BY <1>3, Zenon DEF OpOK, AppendOK, RewriteOK, MemoryOK, Counted
<1>7. AckedRecoverable'
  BY <1>2, Zenon DEF AckedRecoverable
<1> QED BY <1>4, <1>5, <1>6, <1>7, Zenon DEF WalInv

\* clear empties memory and file.
LEMMA ClearStep == WalInv /\ clear => WalInv'
<1> SUFFICES ASSUME WalInv, clear PROVE WalInv'
  OBVIOUS
<1> USE LengthsAssumption
<1>1. TypeOK /\ FilesOK
  BY DEF WalInv
<1>2. file \in Files /\ synced \in Files /\ appends \in 0..MaxAppends
  BY <1>1 DEF TypeOK
<1>3. /\ file' = [file EXCEPT !.groups = <<>>] /\ synced' = synced
      /\ records' = <<>> /\ leaf_counts' = NoStats /\ total_records' = 0
      /\ total_bytes' = 0 /\ manifest' = MANIFEST_LEN
      /\ op' = [call |-> "manifest", todo |-> <<>>]
      /\ acked' = {} /\ appends' = appends
  BY DEF clear, Holding
<1>4. op'.call = "manifest" /\ op'.todo = <<>>
  BY <1>3
<1>5. file' \in Files /\ file'.groups = <<>>
  <2>1. file \in Files /\ <<>> \in Seq(Groups)
    BY <1>2
  <2>2. file' = [file EXCEPT !.groups = <<>>]
    BY <1>3, Zenon
  <2> QED BY <2>1, <2>2, FileExcept, Zenon
<1>6. TypeOK'
  <2>1. op' \in [call : Calls, todo : Seq(Records)]
    BY <1>3 DEF Calls
  <2>2. DOMAIN leaf_counts' = {}
    BY <1>3, Zenon DEF NoStats
  <2> QED BY <1>2, <1>3, <1>5, <2>1, <2>2, Zenon DEF TypeOK
<1>7. FilesOK'
  <2>1. GroupsOK(<<>>) /\ Numbered(RecordsIn(<<>>), appends)
    BY RecordsInEmpty, NumberedEmpty DEF GroupsOK
  <2> QED BY <1>1, <1>3, <1>5, <2>1, Zenon DEF FilesOK
<1>8. OpOK' /\ AppendOK' /\ RewriteOK'
  BY <1>4, <1>5, Zenon DEF OpOK, AppendOK, RewriteOK, GroupOpen
<1>9. MemoryOK'
  <2>1. Settled' = <<>>
    BY <1>4, <1>5, Zenon DEF Settled
  <2>2. SumOf(<<>>, GroupBytes) = 0
    BY AllBytesEmpty DEF AllBytes
  <2>3. RecordsIn(<<>>) = <<>> /\ Numbered(<<>>, appends')
    BY RecordsInEmpty, NumberedEmpty
  <2>4. leaf_counts' = stats(<<>>, <<>>)
    BY <1>3, NoStatsIs, Zenon
  <2> QED BY <1>3, <1>4, <2>1, <2>2, <2>3, <2>4 DEF MemoryOK
<1>10. AckedRecoverable'
  BY <1>3, Zenon DEF AckedRecoverable
<1> QED BY <1>6, <1>7, <1>8, <1>9, <1>10 DEF WalInv

\* append_record counts the record and begins its group.
LEMMA AppendRecordStep ==
  ASSUME WalInv, NEW p \in AllPages, NEW size \in Sizes, append_record(p, size)
  PROVE  WalInv'
<1> DEFINE r == [page |-> p, size |-> size, id |-> appends + 1]
<1> USE LengthsAssumption
<1>1. TypeOK /\ FilesOK /\ OpOK /\ MemoryOK /\ AckedRecoverable
  BY DEF WalInv
<1>2. op.call = "idle" /\ op.todo = <<>> /\ ~GroupOpen /\ appends < MaxAppends
  BY <1>1, Zenon DEF append_record, OpOK
<1>3. /\ records \in Seq(Records) /\ acked \subseteq Records /\ appends \in Nat
      /\ total_records \in Nat /\ file \in Files /\ synced \in Files
  BY <1>1 DEF TypeOK
<1>4. r \in Records /\ r.id = appends + 1 /\ r.page = p
  BY <1>2, <1>3 DEF Records, AllPages
<1>5. /\ records' = Append(records, r)
      /\ leaf_counts' = AddCount(leaf_counts, r.page)
      /\ op' = [call |-> "append", todo |-> <<r>>]
      /\ total_records' = total_records + 1 /\ appends' = appends + 1
      /\ total_bytes' = total_bytes /\ manifest' = manifest /\ file' = file
      /\ synced' = synced /\ acked' = acked
  BY <1>4, Zenon DEF append_record, Holding, AddCount
<1> HIDE DEF r
<1>6. op'.call = "append" /\ op'.todo = <<r>> /\ op'.todo # <<>>
  BY <1>5, Zenon
<1>7. ~GroupOpen'
  BY <1>2, <1>5, Zenon DEF GroupOpen
<1>8. Settled = file.groups /\ Settled' = file.groups
  BY <1>2, <1>5, <1>6, <1>7, Zenon DEF Settled
<1>9. file.groups \in Seq(Groups) /\ RecordsIn(file.groups) \in Seq(Records)
      /\ synced.groups \in Seq(Groups) /\ RecordsIn(synced.groups) \in Seq(Records)
  BY <1>3, FileType, RecordsInType, Zenon
<1>10. leaf_counts' = stats(records', file.groups)
  <2>1. leaf_counts = stats(records, file.groups)
    BY <1>1, <1>2, <1>8, Zenon DEF MemoryOK, Counted
  <2> QED BY <1>3, <1>4, <1>5, <1>9, <2>1, StatsAppendRecord, Zenon
<1>11. records' \in Seq(Records) /\ records' # <<>> /\ Last(records') = r
       /\ Len(records') = Len(records) + 1 /\ Range(records') = Range(records) \cup {r}
  <2>1. Append(records, r) \in Seq(Records) /\ Append(records, r) # <<>> /\ Last(Append(records, r)) = r
    BY <1>3, <1>4, FrontAppend, Zenon
  <2>2. Range(Append(records, r)) = Range(records) \cup {r}
    BY <1>3, <1>4, RangeAppend
  <2>3. Len(Append(records, r)) = Len(records) + 1
    BY <1>3, <1>4, AppendAt, Zenon
  <2> QED BY <1>5, <2>1, <2>2, <2>3, Zenon
<1>12. TypeOK'
  <2>1. op' \in [call : Calls, todo : Seq(Records)]
    BY <1>4, <1>5 DEF Calls
  <2>2. /\ DOMAIN leaf_counts' \subseteq Pages \cup {TxnMeta}
        /\ \A q \in DOMAIN leaf_counts' : leaf_counts'[q] \in [count : Nat, bytes : Nat]
    BY <1>9, <1>10, <1>11, StatsType, Zenon
  <2>3. total_records' \in Nat /\ appends' \in 0..MaxAppends
    <3>1. /\ total_records \in Nat /\ total_records' = total_records + 1
          /\ appends \in Nat /\ appends' = appends + 1 /\ appends < MaxAppends
      BY <1>2, <1>3, <1>5, Zenon
    <3> QED BY <3>1
  <2> QED BY <1>1, <1>3, <1>5, <1>11, <2>1, <2>2, <2>3, Zenon DEF TypeOK
<1>13. FilesOK'
  <2>1. Numbered(RecordsIn(file.groups), appends) /\ Numbered(RecordsIn(synced.groups), appends)
    BY <1>1, Zenon DEF FilesOK
  <2>2. appends \in Int /\ appends' \in Int /\ appends <= appends'
    BY <1>3, <1>5
  <2>3. Numbered(RecordsIn(file.groups), appends') /\ Numbered(RecordsIn(synced.groups), appends')
    BY <1>9, <2>1, <2>2, NumberedWeaken, Zenon
  <2> QED BY <1>1, <1>5, <2>3, Zenon DEF FilesOK
<1>14. OpOK' /\ RewriteOK'
  BY <1>6, Zenon DEF OpOK, RewriteOK
<1>15. AppendOK'
  <2>1. Numbered(RecordsIn(file.groups), appends' - 1)
    BY <1>1, <1>3, <1>5 DEF FilesOK
  <2>2. Last(records').id = appends'
    BY <1>4, <1>5, <1>11, Zenon
  <2> QED BY <1>6, <1>7, <1>8, <1>11, <2>1, <2>2, Zenon DEF AppendOK
<1>16. MemoryOK'
  <2>1. Numbered(records, appends) /\ acked \subseteq Range(records)
    BY <1>1, <1>2, Zenon DEF MemoryOK
  <2>2. Numbered(records', appends')
    <3>1. r.id - 1 = appends /\ r.id <= appends' /\ appends' \in Nat
      BY <1>3, <1>4, <1>5
    <3> QED BY <1>3, <1>4, <1>5, <2>1, <3>1, NumberedAppend, ZenonT(30)
  <2>3. acked' \subseteq Range(records')
    BY <1>5, <1>11, <2>1, Zenon
  <2>4. /\ Range(RecordsIn(file.groups)) \subseteq Range(records)
        /\ total_records = Len(records)
        /\ total_bytes \in {SumOf(file.groups, GroupBytes), MANIFEST_LEN + SumOf(file.groups, GroupBytes)}
        /\ manifest <= MANIFEST_LEN + SumOf(file.groups, GroupBytes)
        /\ file.manifest = manifest
    BY <1>1, <1>2, <1>8, Zenon DEF MemoryOK, Counted
  <2>5. Range(RecordsIn(file.groups)) \subseteq Range(records') /\ total_records' = Len(records')
    BY <1>5, <1>11, <2>4, Zenon
  <2> QED BY <1>5, <1>6, <1>8, <1>10, <2>2, <2>3, <2>4, <2>5, Zenon DEF MemoryOK
<1>17. AckedRecoverable'
  BY <1>1, <1>2, <1>5, Zenon DEF AckedRecoverable, Rewriting
<1> QED BY <1>12, <1>13, <1>14, <1>15, <1>16, <1>17, Zenon DEF WalInv

\* The sync of append_record, after which it returns.
LEMMA AppendSyncStep == WalInv /\ AppendSync => WalInv'
<1> SUFFICES ASSUME WalInv, AppendSync PROVE WalInv'
  OBVIOUS
<1> DEFINE fr == Front(file.groups)  g == Last(file.groups)  x == Last(records)
<1> USE LengthsAssumption
<1>1. TypeOK /\ FilesOK /\ AppendOK /\ MemoryOK /\ AckedRecoverable
  BY DEF WalInv
<1>2. op.call = "append" /\ op.todo = <<>>
  BY Zenon DEF AppendSync
<1>3. /\ records \in Seq(Records) /\ acked \subseteq Records /\ appends \in 0..MaxAppends
      /\ total_records \in Nat /\ total_bytes \in Nat /\ manifest \in Nat
      /\ file \in Files /\ synced \in Files
  BY <1>1, Zenon DEF TypeOK
<1>4. /\ records # <<>> /\ file.groups # <<>>
      /\ g = [page |-> x.page, count |-> 1, recs |-> <<x>>]
  BY <1>1, <1>2, Zenon DEF AppendOK
<1>5. file.groups \in Seq(Groups)
  BY <1>3, FileType, Zenon
<1>6. fr \in Seq(Groups) /\ g \in Groups /\ file.groups = Append(fr, g)
  BY <1>4, <1>5, SplitLast, Zenon
<1>7. x \in Records /\ records = Append(Front(records), x) /\ Front(records) \in Seq(Records)
  BY <1>3, <1>4, SplitLast, Zenon
<1>8. x \in Range(records) /\ g.page \in PagesOf(records) /\ Range(g.recs) = {x}
  <2>1. x \in Range(records)
    BY <1>3, <1>4, LastInSet, Zenon
  <2>2. Range(<<x>>) = {x}
    BY DEF Range
  <2> QED BY <1>4, <2>1, <2>2 DEF PagesOf
<1>9. Settled = fr
  BY <1>2, Zenon DEF Settled
<1>10. ~GroupOpen /\ Whole(file.groups)
  <2>1. ~Torn(g)
    BY <1>4, SMTT(30) DEF Torn
  <2> QED BY <2>1, Zenon DEF GroupOpen, Whole
<1>11. leaf_counts = stats(records, fr) /\ total_records = Len(records) /\ file.manifest = manifest
       /\ total_bytes \in {AllBytes(fr), MANIFEST_LEN + AllBytes(fr)}
       /\ manifest <= MANIFEST_LEN + AllBytes(fr)
       /\ Range(RecordsIn(fr)) \subseteq Range(records)
       /\ Numbered(records, appends) /\ acked \subseteq Range(records)
  BY <1>1, <1>2, <1>9, Zenon DEF MemoryOK, Counted, AllBytes
<1> HIDE DEF fr, x
<1>12. /\ leaf_counts' = AddBytes(leaf_counts, g)
       /\ total_bytes' = total_bytes + GroupBytes(g)
       /\ acked' = acked \cup Range(g.recs)
       /\ synced' = file /\ op' = [call |-> "idle", todo |-> <<>>]
       /\ records' = records /\ total_records' = total_records /\ manifest' = manifest
       /\ file' = file /\ appends' = appends
  BY DEF AppendSync, Holding, AddBytes
<1> HIDE DEF g
<1>13. op'.call = "idle" /\ op'.todo = <<>>
  BY <1>12, Zenon
<1>14. leaf_counts' = stats(records', file'.groups)
  BY <1>3, <1>6, <1>8, <1>11, <1>12, StatsAppendGroup, Zenon
<1>15. AllBytes(file.groups) = AllBytes(fr) + GroupBytes(g) /\ AllBytes(fr) \in Nat /\ GroupBytes(g) \in Nat
  BY <1>6, AllBytesAppend, AllBytesType, GroupBytesType, Zenon
<1>16. GroupsOK(file.groups) /\ GroupOK(g)
  BY <1>1, <1>6, GroupsAppend, Zenon DEF FilesOK
<1>17. Range(RecordsIn(file.groups)) = Range(RecordsIn(fr)) \cup {x}
  <2>1. RecordsIn(file.groups) = RecordsIn(fr) \o g.recs
    BY <1>6, <1>16, RecordsInGroup, Zenon
  <2>2. RecordsIn(fr) \in Seq(Records) /\ g.recs \in Seq(Records)
    BY <1>6, RecordsInType, GroupRecords, Zenon
  <2> QED BY <1>8, <2>1, <2>2, RangeConcat
<1>18. TypeOK'
  <2>1. op' \in [call : Calls, todo : Seq(Records)]
    BY <1>12, SMTT(30) DEF Calls
  <2>2. /\ DOMAIN leaf_counts' \subseteq Pages \cup {TxnMeta}
        /\ \A q \in DOMAIN leaf_counts' : leaf_counts'[q] \in [count : Nat, bytes : Nat]
    BY <1>3, <1>5, <1>12, <1>14, StatsType, Zenon
  <2>3. total_bytes' \in Nat /\ acked' \subseteq Records
    BY <1>3, <1>7, <1>8, <1>12, <1>15
  <2> QED BY <1>3, <1>12, <2>1, <2>2, <2>3, Zenon DEF TypeOK
<1>19. FilesOK'
  BY <1>1, <1>12, Zenon DEF FilesOK
<1>20. OpOK' /\ AppendOK' /\ RewriteOK'
  BY <1>10, <1>12, <1>13, Zenon DEF OpOK, AppendOK, RewriteOK, GroupOpen
<1>21. MemoryOK'
  <2>1. Settled' = file.groups
    BY <1>12, <1>13, Zenon DEF Settled
  <2>2. acked' \subseteq Range(records') /\ Range(RecordsIn(file.groups)) \subseteq Range(records')
    BY <1>8, <1>11, <1>12, <1>17, Zenon
  <2>3. /\ total_bytes' \in {AllBytes(file.groups), MANIFEST_LEN + AllBytes(file.groups)}
        /\ manifest' <= MANIFEST_LEN + AllBytes(file.groups)
    BY <1>3, <1>11, <1>12, <1>15
  <2> QED BY <1>11, <1>12, <1>13, <1>14, <2>1, <2>2, <2>3, ZenonT(30) DEF MemoryOK, AllBytes
<1>22. AckedRecoverable'
  <2>1. Durable(file) = RecordsIn(file.groups)
    BY <1>5, <1>10, <1>16, DurableWhole, Zenon
  <2>2. acked \subseteq Range(Durable(file))
    BY <1>1, <1>2, Zenon DEF AckedRecoverable, Rewriting
  <2>3. acked' \subseteq Range(Durable(file))
    BY <1>8, <1>12, <1>17, <2>1, <2>2, Zenon
  <2> QED BY <1>12, <2>3, Zenon DEF AckedRecoverable
<1> QED BY <1>18, <1>19, <1>20, <1>21, <1>22 DEF WalInv

\* checkpoint_page takes the records of the page from memory.
LEMMA CheckpointStep ==
  ASSUME WalInv, NEW p \in Pages, checkpoint_page(p)
  PROVE  WalInv'
<1> DEFINE S == {r \in Records : r.page # p}
<1>1. TypeOK /\ FilesOK /\ OpOK /\ MemoryOK /\ AckedRecoverable
  BY Zenon DEF WalInv
<1>2. op.call = "idle" /\ op.todo = <<>> /\ ~GroupOpen
  BY <1>1, Zenon DEF checkpoint_page, OpOK
<1>3. records \in Seq(Records) /\ acked \subseteq Records /\ appends \in Nat
  BY <1>1, LengthsAssumption, SMTT(30) DEF TypeOK
<1>4. /\ records' = Filter(records, S) /\ acked' = {r \in acked : r.page # p}
      /\ op' = [call |-> "truncate", todo |-> records']
      /\ leaf_counts' = leaf_counts /\ total_records' = total_records
      /\ total_bytes' = total_bytes /\ manifest' = manifest /\ file' = file
      /\ synced' = synced /\ appends' = appends
  BY Zenon DEF checkpoint_page, Holding
<1>5. records' \in Seq(Records) /\ Range(records') = Range(records) \cap S
  BY <1>3, <1>4, FilterType, Zenon
<1>6. Numbered(records, appends) /\ acked \subseteq Range(records)
  BY <1>1, <1>2, Zenon DEF MemoryOK
<1>7. Numbered(records', appends')
  BY <1>3, <1>4, <1>6, NumberedFilter, Zenon
<1>8. acked' \subseteq Range(records') /\ acked' \subseteq acked
  BY <1>3, <1>4, <1>5, <1>6, Zenon
<1>9. op'.call = "truncate" /\ op'.todo = records'
  BY <1>4, Zenon
<1>10. TypeOK'
  <2>1. op' \in [call : Calls, todo : Seq(Records)]
    BY <1>4, <1>5, Zenon DEF Calls
  <2> QED BY <1>1, <1>3, <1>4, <1>5, <1>8, <2>1, Zenon DEF TypeOK
<1>11. FilesOK'
  BY <1>1, <1>4, Zenon DEF FilesOK
<1>12. OpOK' /\ AppendOK' /\ RewriteOK'
  BY <1>2, <1>4, <1>9, Zenon DEF OpOK, AppendOK, RewriteOK, GroupOpen
<1>13. MemoryOK'
  BY <1>7, <1>8, <1>9, Zenon DEF MemoryOK, Counted
<1>14. AckedRecoverable'
  BY <1>1, <1>2, <1>4, <1>8, Zenon DEF AckedRecoverable, Rewriting
<1> QED BY <1>10, <1>11, <1>12, <1>13, <1>14, Zenon DEF WalInv

\* rewrite_records empties the file.
LEMMA TruncateStep == WalInv /\ RewriteTruncate => WalInv'
<1> SUFFICES ASSUME WalInv, RewriteTruncate PROVE WalInv'
  OBVIOUS
<1>1. TypeOK /\ FilesOK /\ OpOK /\ MemoryOK /\ AckedRecoverable
  BY DEF WalInv
<1>2. op.call = "truncate" /\ op.todo = records
  BY <1>1, Zenon DEF RewriteTruncate, OpOK
<1>3. /\ file \in Files /\ records \in Seq(Records)
      /\ op = [call |-> op.call, todo |-> op.todo]
  BY <1>1, OpType, Zenon DEF TypeOK
<1>4. /\ file' = [file EXCEPT !.groups = <<>>]
      /\ op' = [call |-> "rewrite", todo |-> records]
      /\ records' = records /\ leaf_counts' = leaf_counts /\ total_records' = total_records
      /\ total_bytes' = total_bytes /\ manifest' = manifest
      /\ synced' = synced /\ appends' = appends /\ acked' = acked
  BY <1>2, <1>3, Zenon DEF RewriteTruncate, memory
<1>5. op'.call = "rewrite" /\ op'.todo = records
  BY <1>4, Zenon
<1>6. file' \in Files /\ file'.groups = <<>>
  <2>1. <<>> \in Seq(Groups)
    OBVIOUS
  <2> QED BY <1>3, <1>4, <2>1, FileExcept, Zenon
<1>7. TypeOK'
  <2>1. op' \in [call : Calls, todo : Seq(Records)]
    BY <1>3, <1>4, Zenon DEF Calls
  <2> QED BY <1>1, <1>4, <1>6, <2>1, Zenon DEF TypeOK
<1>8. FilesOK'
  <2>1. GroupsOK(<<>>) /\ Numbered(RecordsIn(<<>>), appends)
    BY RecordsInEmpty, NumberedEmpty DEF GroupsOK
  <2> QED BY <1>1, <1>4, <1>6, <2>1, Zenon DEF FilesOK
<1>9. ~GroupOpen'
  BY <1>6, Zenon DEF GroupOpen
<1>10. OpOK' /\ AppendOK'
  BY <1>5, Zenon DEF OpOK, AppendOK
<1>11. RewriteOK'
  <2>1. RecordsIn(<<>>) \o records = records
    BY <1>3, RecordsInEmpty, ConcatNil, Zenon
  <2> QED BY <1>4, <1>5, <1>6, <1>9, <2>1, Zenon DEF RewriteOK
<1>12. Numbered(records, appends) /\ acked \subseteq Range(records)
  BY <1>1, <1>2, Zenon DEF MemoryOK
<1>13. MemoryOK'
  BY <1>4, <1>5, <1>12, Zenon DEF MemoryOK, Counted
<1>14. AckedRecoverable'
  <2>1. acked \subseteq Range(Durable(synced))
    BY <1>1 DEF AckedRecoverable
  <2>2. ASSUME ~Rewriting' PROVE acked = {}
    <3>1. records = <<>>
      BY <1>5, <2>2, Zenon DEF Rewriting
    <3>2. Range(<<>>) = {}
      BY SMTT(30) DEF Range
    <3> QED BY <1>12, <3>1, <3>2, Zenon
  <2> QED BY <1>4, <2>1, <2>2, Zenon DEF AckedRecoverable
<1> QED BY <1>7, <1>8, <1>10, <1>11, <1>13, <1>14, Zenon DEF WalInv

\* The sync of rewrite_records, with the new statistics.
LEMMA RewriteSyncStep == WalInv /\ RewriteSync => WalInv'
<1> SUFFICES ASSUME WalInv, RewriteSync PROVE WalInv'
  OBVIOUS
<1> USE LengthsAssumption
<1>1. TypeOK /\ FilesOK /\ RewriteOK /\ MemoryOK /\ AckedRecoverable
  BY Zenon DEF WalInv
<1>2. op.call = "rewrite" /\ op.todo = <<>>
  BY Zenon DEF RewriteSync
<1>3. file \in Files /\ records \in Seq(Records) /\ acked \subseteq Records
      /\ appends \in 0..MaxAppends /\ file.groups \in Seq(Groups)
  BY <1>1, FileType, Zenon DEF TypeOK
<1>4. RecordsIn(file.groups) = records
  <2>1. RecordsIn(file.groups) \o <<>> = records
    BY <1>1, <1>2, Zenon DEF RewriteOK
  <2>2. RecordsIn(file.groups) \in Seq(Records)
    BY <1>3, RecordsInType, Zenon
  <2> QED BY <2>1, <2>2, ConcatNil, Zenon
<1>5. ~GroupOpen /\ Whole(file.groups)
  <2>1. ASSUME GroupOpen PROVE FALSE
    <3> DEFINE g == Last(file.groups)
    <3>1. file.groups # <<>> /\ Torn(g)
      BY <2>1, Zenon DEF GroupOpen
    <3>2. g \in Groups
      BY <1>3, <3>1, SplitLast, Zenon
    <3>3. g.count <= Len(g.recs) + Len(op.todo)
      BY <1>1, <1>2, <2>1, Zenon DEF RewriteOK
    <3>4. g.count \in Nat /\ Len(g.recs) \in Nat /\ Len(op.todo) = 0
      BY <1>2, <3>2, GroupRecords, SMTT(30)
    <3> QED BY <3>1, <3>3, <3>4 DEF Torn
  <2> QED BY <2>1, Zenon DEF GroupOpen, Whole
<1>6. /\ synced' = file /\ leaf_counts' = stats(records, file.groups)
      /\ total_records' = Len(records) /\ total_bytes' = BytesIn(leaf_counts')
      /\ manifest' = MANIFEST_LEN + total_bytes'
      /\ op' = [call |-> "manifest", todo |-> <<>>]
      /\ records' = records /\ file' = file /\ appends' = appends /\ acked' = acked
  BY Zenon DEF RewriteSync, Holding
<1>7. total_bytes' = AllBytes(file.groups) /\ AllBytes(file.groups) \in Nat
  BY <1>3, <1>6, BytesInStats, AllBytesType, Zenon
<1>8. op'.call = "manifest" /\ op'.todo = <<>>
  BY <1>6, Zenon
<1>9. TypeOK'
  <2>1. op' \in [call : Calls, todo : Seq(Records)]
    BY <1>6, NilIs, Zenon DEF Calls
  <2>2. /\ DOMAIN leaf_counts' \subseteq Pages \cup {TxnMeta}
        /\ \A q \in DOMAIN leaf_counts' : leaf_counts'[q] \in [count : Nat, bytes : Nat]
    BY <1>3, <1>6, StatsType, ZenonT(30)
  <2>3. total_records' \in Nat /\ total_bytes' \in Nat /\ manifest' \in Nat
    BY <1>3, <1>6, <1>7
  <2> QED BY <1>3, <1>6, <2>1, <2>2, <2>3, Zenon DEF TypeOK
<1>10. FilesOK'
  BY <1>1, <1>6, Zenon DEF FilesOK
<1>11. OpOK' /\ AppendOK' /\ RewriteOK'
  BY <1>5, <1>6, <1>8, Zenon DEF OpOK, AppendOK, RewriteOK, GroupOpen
<1>12. Numbered(records, appends) /\ acked \subseteq Range(records)
  BY <1>1, <1>2, Zenon DEF MemoryOK
<1>13. MemoryOK'
  <2>1. Settled' = file.groups
    BY <1>6, <1>8, Zenon DEF Settled
  <2>2. total_bytes' = SumOf(file.groups, GroupBytes)
        /\ manifest' <= MANIFEST_LEN + SumOf(file.groups, GroupBytes)
    BY <1>6, <1>7 DEF AllBytes
  <2> QED BY <1>4, <1>6, <1>8, <1>12, <2>1, <2>2, Zenon DEF MemoryOK
<1>14. AckedRecoverable'
  <2>1. Durable(file) = records
    BY <1>1, <1>3, <1>4, <1>5, DurableWhole, Zenon DEF FilesOK
  <2> QED BY <1>6, <1>12, <2>1, Zenon DEF AckedRecoverable
<1> QED BY <1>9, <1>10, <1>11, <1>13, <1>14 DEF WalInv

\* The next run has records, and no more than are left.
LEMMA RunLengthType ==
  ASSUME NEW s \in Seq(Records), s # <<>>
  PROVE  /\ RunLength(s) \in 1..Len(s)
         /\ \A i \in 1..RunLength(s) : s[i].page = s[1].page
<1> DEFINE S == {n \in 1..Len(s) : \A i \in 1..n : s[i].page = s[1].page}
<1>1. Len(s) \in Nat /\ Len(s) >= 1
  BY NilIs
<1>2. 1 \in S
  BY <1>1
<1>3. \E m \in S : \A n \in S : m >= n
  <2>1. S \subseteq Nat /\ \A n \in S : n <= Len(s)
    BY <1>1
  <2> HIDE DEF S
  <2>2. PICK m \in S : \A n \in S : n <= m
    BY <1>1, <1>2, <2>1, GreatestExists, Zenon
  <2> QED BY <2>1, <2>2, Zenon
<1>4. Max(S) \in S
  <2> HIDE DEF S
  <2> QED BY <1>3, Zenon DEF Max
<1>5. RunLength(s) = Max(S)
  BY DEF RunLength
<1>6. RunLength(s) \in S
  <2> HIDE DEF S
  <2> QED BY <1>4, <1>5, Zenon
<1> QED BY <1>6

\* write_group begins a group that is torn until its records are written,
NewGroup(todo) == [page |-> todo[1].page, count |-> RunLength(todo), recs |-> <<>>]

\* The header of a group, for records to follow.
LEMMA GroupStart ==
  ASSUME NEW gs \in Seq(Groups), GroupsOK(gs), Whole(gs),
         NEW todo \in Seq(Records), todo # <<>>, Len(todo) <= MaxAppends, NEW g, g = NewGroup(todo)
  PROVE  /\ g \in Groups /\ Torn(g) /\ GroupsOK(Append(gs, g))
         /\ RecordsIn(Append(gs, g)) = RecordsIn(gs)
         /\ g.page = todo[1].page /\ g.recs = <<>> /\ g.count \in 1..Len(todo)
         /\ \A i \in 1..g.count : todo[i].page = g.page
<1>1. /\ RunLength(todo) \in 1..Len(todo)
      /\ \A i \in 1..RunLength(todo) : todo[i].page = todo[1].page
  BY RunLengthType, Zenon
<1>2. Len(todo) \in Nat /\ Len(todo) >= 1
  BY NilIs
<1>3. todo[1] \in Records
  BY <1>2
<1>4. todo[1].page \in AllPages
  BY <1>3, RecordId, Zenon
<1>5. g.page = todo[1].page /\ g.recs = <<>> /\ g.count = RunLength(todo)
  BY DEF NewGroup
<1>6. RunLength(todo) \in 1..MaxAppends
  BY <1>1, <1>2, LengthsAssumption
<1>7. g \in Groups
  BY <1>4, <1>6 DEF Groups, AllPages, NewGroup
<1>8. Torn(g) /\ GroupOK(g)
  BY <1>1, <1>2, <1>5 DEF Torn, GroupOK
<1>9. GroupsOK(Append(gs, g))
  BY <1>7, <1>8, GroupsAppend, Zenon DEF Whole
<1>10. RecordsIn(Append(gs, g)) = RecordsIn(gs)
  <2>1. RecordsIn(Append(gs, g)) = RecordsIn(gs) \o <<>>
    BY <1>5, <1>7, <1>8, RecordsInGroup, Zenon
  <2>2. RecordsIn(gs) \in Seq(Records)
    BY RecordsInType, Zenon
  <2> QED BY <2>1, <2>2, ConcatNil, Zenon
<1> HIDE DEF NewGroup
<1> QED BY <1>1, <1>5, <1>7, <1>8, <1>9, <1>10, Zenon

\* and write_record_payload adds a record to it.
Grown(g, x) == [g EXCEPT !.recs = Append(@, x)]

\* A record more in the open group.
LEMMA GroupGrow ==
  ASSUME NEW fr \in Seq(Groups), NEW g \in Groups, GroupsOK(Append(fr, g)), Torn(g),
         NEW x \in Records, x.page = g.page, NEW h, h = Grown(g, x)
  PROVE  /\ h \in Groups /\ GroupsOK(Append(fr, h))
         /\ h.page = g.page /\ h.count = g.count /\ h.recs = Append(g.recs, x)
         /\ RecordsIn(Append(fr, h)) = Append(RecordsIn(Append(fr, g)), x)
<1>1. /\ g.recs \in Seq(Records) /\ g.page \in AllPages /\ g.count \in 1..MaxAppends
  BY GroupRecords, Zenon
<1>2. h.page = g.page /\ h.count = g.count /\ h.recs = Append(g.recs, x)
  BY DEF Grown, Groups
<1>3. h \in Groups
  <2>1. Append(g.recs, x) \in Seq(Records)
    BY <1>1
  <2> QED BY <2>1, Zenon DEF Grown, Groups
<1>4. GroupsOK(fr) /\ GroupOK(g) /\ (fr # <<>> => ~Torn(Last(fr)))
  BY GroupsAppend, Zenon
<1>5. GroupOK(h)
  <2>1. Len(g.recs) \in Nat /\ Len(g.recs) + 1 <= g.count
    BY <1>1, LengthsAssumption DEF Torn
  <2>2. Len(h.recs) = Len(g.recs) + 1
    BY <1>1, <1>2
  <2>3. \A i \in 1..(Len(g.recs) + 1) : h.recs[i].page = h.page
    BY <1>1, <1>2, <1>4, <2>1 DEF GroupOK
  <2> QED BY <1>2, <2>1, <2>2, <2>3, Zenon DEF GroupOK
<1>6. GroupsOK(Append(fr, h))
  BY <1>3, <1>4, <1>5, GroupsAppend, Zenon
<1>7. RecordsIn(Append(fr, h)) = Append(RecordsIn(Append(fr, g)), x)
  <2> DEFINE R == RecordsIn(fr)
  <2>1. RecordsIn(Append(fr, g)) = R \o g.recs
    BY <1>4, RecordsInGroup, Zenon
  <2>2. RecordsIn(Append(fr, h)) = R \o Append(g.recs, x)
    BY <1>2, <1>3, <1>5, RecordsInGroup, Zenon
  <2>3. R \in Seq(Records)
    BY RecordsInType, Zenon
  <2> HIDE DEF R
  <2>4. R \o Append(g.recs, x) = Append(R \o g.recs, x)
    <3> DEFINE s == g.recs
    <3>1. s \in Seq(Records)
      BY <1>1, Zenon
    <3> HIDE DEF s
    <3>2. R \o Append(s, x) = Append(R \o s, x)
      BY <2>3, <3>1, ConcatAppend
    <3> QED BY <3>2, Zenon DEF s
  <2> QED BY <2>1, <2>2, <2>4, Zenon
<1> QED BY <1>2, <1>3, <1>6, <1>7, Zenon

\* write_group writes the header of the next run.
LEMMA WriteGroupStep == WalInv /\ write_group => WalInv'
<1> SUFFICES ASSUME WalInv, write_group PROVE WalInv'
  OBVIOUS
<1> DEFINE gs == file.groups  g == NewGroup(op.todo)
<1> USE LengthsAssumption
<1>1. TypeOK /\ FilesOK /\ AppendOK /\ RewriteOK /\ MemoryOK /\ AckedRecoverable
  BY DEF WalInv
<1>2. op.call \in {"append", "rewrite"} /\ op.todo # <<>> /\ ~GroupOpen
  BY Zenon DEF write_group
<1>3. /\ file \in Files /\ gs \in Seq(Groups) /\ op.todo \in Seq(Records)
      /\ records \in Seq(Records) /\ appends \in Nat /\ appends <= MaxAppends
      /\ RecordsIn(gs) \in Seq(Records)
  BY <1>1, FileType, OpType, RecordsInType, SMTT(30) DEF TypeOK
<1>4. GroupsOK(gs) /\ Whole(gs) /\ Numbered(RecordsIn(gs), appends)
  BY <1>1, <1>2, Zenon DEF FilesOK, GroupOpen, Whole
<1>5. Numbered(records, appends) /\ acked \subseteq Range(records)
  BY <1>1, <1>2, Zenon DEF MemoryOK
<1>6. Len(op.todo) <= MaxAppends
  <2>1. /\ Len(records) <= appends /\ Len(records) \in Nat
        /\ appends \in Nat /\ appends <= MaxAppends
    BY <1>3, <1>5, NumberedLen
  <2>2. CASE op.call = "append"
    <3>1. records # <<>> /\ op.todo = <<Last(records)>>
      BY <1>1, <1>2, <2>2, Zenon DEF AppendOK
    <3>2. Len(op.todo) = 1
      BY <3>1
    <3>3. Len(records) > 0
      BY <1>3, <3>1, SplitLast, Zenon
    <3> QED BY <1>3, <2>1, <3>2, <3>3, SMTT(30)
  <2>3. CASE op.call = "rewrite"
    <3>1. RecordsIn(gs) \o op.todo = records
      BY <1>1, <2>3, Zenon DEF RewriteOK
    <3>2. Len(records) = Len(RecordsIn(gs)) + Len(op.todo)
      BY <1>3, <3>1, ConcatAt, Zenon
    <3>3. Len(RecordsIn(gs)) \in Nat /\ Len(op.todo) \in Nat
      BY <1>3
    <3> DEFINE a == Len(records)  b == Len(RecordsIn(gs))  c == Len(op.todo)
    <3>4. a = b + c /\ b \in Nat /\ c \in Nat /\ a <= appends /\ appends <= MaxAppends
      BY <2>1, <3>2, <3>3, Zenon
    <3>5. a \in Nat /\ appends \in Nat
      BY <2>1, Zenon
    <3> HIDE DEF a, b, c
    <3>6. c <= MaxAppends
      BY <3>4, <3>5
    <3> QED BY <3>6 DEF c
  <2> QED BY <1>2, <2>2, <2>3, Zenon
<1>7. /\ g \in Groups /\ Torn(g) /\ GroupsOK(Append(gs, g))
      /\ RecordsIn(Append(gs, g)) = RecordsIn(gs)
      /\ g.page = op.todo[1].page /\ g.recs = <<>> /\ g.count \in 1..Len(op.todo)
      /\ \A i \in 1..g.count : op.todo[i].page = g.page
  <2> HIDE DEF g
  <2>1. g = NewGroup(op.todo)
    BY DEF g
  <2> DEFINE todo == op.todo
  <2>2. /\ gs \in Seq(Groups) /\ GroupsOK(gs) /\ Whole(gs)
        /\ todo \in Seq(Records) /\ todo # <<>> /\ Len(todo) <= MaxAppends /\ g = NewGroup(todo)
    BY <1>2, <1>3, <1>4, <1>6, <2>1, Zenon
  <2> HIDE DEF gs, todo
  <2>3. /\ g \in Groups /\ Torn(g) /\ GroupsOK(Append(gs, g))
        /\ RecordsIn(Append(gs, g)) = RecordsIn(gs)
        /\ g.page = todo[1].page /\ g.recs = <<>> /\ g.count \in 1..Len(todo)
        /\ \A i \in 1..g.count : todo[i].page = g.page
    BY <2>2, GroupStart, Zenon
  <2> QED BY <2>3, Zenon DEF todo
<1>8. Append(gs, g) \in Seq(Groups) /\ Append(gs, g) # <<>>
      /\ Front(Append(gs, g)) = gs /\ Last(Append(gs, g)) = g
  <2>1. gs \in Seq(Groups) /\ g \in Groups
    BY <1>3, <1>7, Zenon
  <2> HIDE DEF gs, g
  <2> QED BY <2>1, FrontAppend, Zenon
<1>9. /\ file' = [file EXCEPT !.groups = Append(gs, g)]
      /\ records' = records /\ leaf_counts' = leaf_counts /\ total_records' = total_records
      /\ total_bytes' = total_bytes /\ manifest' = manifest
      /\ synced' = synced /\ op' = op /\ appends' = appends /\ acked' = acked
  BY DEF write_group, memory, NewGroup
<1>10. g = [page |-> op.todo[1].page, count |-> g.count, recs |-> <<>>]
  BY DEF NewGroup
<1> HIDE DEF g
<1>11. file' \in Files /\ file'.groups = Append(gs, g) /\ file'.manifest = file.manifest
  BY <1>3, <1>8, <1>9, FileExcept, ZenonT(30)
<1>12. GroupOpen'
  BY <1>7, <1>8, <1>11, Zenon DEF GroupOpen
<1>13. TypeOK'
  BY <1>1, <1>9, <1>11, Zenon DEF TypeOK
<1>14. FilesOK'
  BY <1>1, <1>4, <1>7, <1>9, <1>11, Zenon DEF FilesOK
<1>15. OpOK'
  BY <1>2, <1>9, Zenon DEF OpOK
<1>16. Settled = gs /\ Settled' = IF op.call = "append" THEN gs ELSE Append(gs, g)
  BY <1>2, <1>8, <1>9, <1>11, <1>12, Zenon DEF Settled
<1>17. AppendOK'
  <2>1. CASE op.call = "append"
    <3>1. /\ records # <<>> /\ Last(records).id = appends
          /\ Numbered(RecordsIn(gs), appends - 1) /\ op.todo = <<Last(records)>>
      BY <1>1, <1>2, <1>16, <2>1, Zenon DEF AppendOK
    <3>2. op.todo[1] = Last(records) /\ Len(op.todo) = 1
      BY <3>1
    <3>3. g = [page |-> Last(records).page, count |-> 1, recs |-> <<>>]
      BY <1>7, <1>10, <3>2
    <3> QED BY <1>2, <1>8, <1>9, <1>11, <1>16, <2>1, <3>1, <3>3, Zenon DEF AppendOK
  <2>2. CASE op.call # "append"
    BY <1>9, <2>2, Zenon DEF AppendOK
  <2> QED BY <2>1, <2>2, Zenon
<1>18. RewriteOK'
  <2>1. CASE op.call = "rewrite"
    <3>1. RecordsIn(file'.groups) \o op'.todo = records'
      BY <1>1, <1>7, <1>9, <1>11, <2>1, Zenon DEF RewriteOK
    <3>2. Len(op.todo) \in Nat /\ Len(g.recs) = 0
      BY <1>3, <1>7
    <3>3. g.count <= Len(g.recs) + Len(op.todo)
      BY <1>7, <3>2, SMTT(30)
    <3>4. \A i \in 1..Len(op.todo) : Len(g.recs) + i <= g.count => op.todo[i].page = g.page
      BY <1>7, <3>2
    <3>5. Last(file'.groups) = g
      BY <1>8, <1>11, Zenon
    <3> QED BY <1>9, <3>1, <3>3, <3>4, <3>5, Zenon DEF RewriteOK
  <2>2. CASE op.call # "rewrite"
    BY <1>9, <2>2, Zenon DEF RewriteOK
  <2> QED BY <2>1, <2>2, Zenon
<1>19. MemoryOK'
  <2>1. CASE op.call = "append"
    BY <1>1, <1>9, <1>11, <1>16, <2>1, Zenon DEF MemoryOK, Counted
  <2>2. CASE op.call = "rewrite"
    BY <1>5, <1>9, <2>2, Zenon DEF MemoryOK, Counted
  <2> QED BY <1>2, <2>1, <2>2, Zenon
<1>20. AckedRecoverable'
  <2>1. Durable(file) = RecordsIn(gs)
    BY <1>3, <1>4, DurableWhole, Zenon
  <2>2. Durable(file') = RecordsIn(gs)
    BY <1>3, <1>7, <1>11, DurableTorn, Zenon
  <2>3. Rewriting' = Rewriting
    BY <1>9, Zenon DEF Rewriting
  <2> QED BY <1>1, <1>9, <2>1, <2>2, <2>3, Zenon DEF AckedRecoverable
<1> QED BY <1>13, <1>14, <1>15, <1>17, <1>18, <1>19, <1>20, Zenon DEF WalInv

\* write_record_payload writes the next record.
LEMMA WritePayloadStep == WalInv /\ write_record_payload => WalInv'
<1> SUFFICES ASSUME WalInv, write_record_payload PROVE WalInv'
  OBVIOUS
<1> DEFINE gs == file.groups  fr == Front(gs)  g == Last(gs)
           x == op.todo[1]  h == Grown(g, x)  rest == Tail(op.todo)
           R == RecordsIn(gs)
<1> USE LengthsAssumption
<1>1. TypeOK /\ FilesOK /\ AppendOK /\ RewriteOK /\ MemoryOK /\ AckedRecoverable
  BY DEF WalInv
<1>2. op.call \in {"append", "rewrite"} /\ GroupOpen /\ gs # <<>> /\ Torn(g)
  BY Zenon DEF write_record_payload, GroupOpen
<1>3. /\ file \in Files /\ gs \in Seq(Groups) /\ op.todo \in Seq(Records)
      /\ records \in Seq(Records) /\ appends \in Nat
      /\ R \in Seq(Records)
  BY <1>1, FileType, OpType, RecordsInType, SMTT(30) DEF TypeOK
<1>4. fr \in Seq(Groups) /\ g \in Groups /\ gs = Append(fr, g)
  BY <1>2, <1>3, SplitLast, ZenonT(30)
<1>5. GroupsOK(gs) /\ Numbered(R, appends)
  BY <1>1, Zenon DEF FilesOK
<1>6. Numbered(records, appends) /\ acked \subseteq Range(records)
  BY <1>1, <1>2, Zenon DEF MemoryOK
<1>7. g.recs \in Seq(Records) /\ Len(g.recs) \in Nat /\ g.count \in Nat /\ Len(g.recs) < g.count
  BY <1>2, <1>4, GroupRecords, SMTT(30) DEF Torn
<1>8. op.todo # <<>> /\ x.page = g.page
  <2>1. CASE op.call = "append"
    <3>1. op.todo # <<>>
      <4>1. ASSUME op.todo = <<>> PROVE FALSE
        <5>1. g = [page |-> Last(records).page, count |-> 1, recs |-> <<Last(records)>>]
          BY <1>1, <2>1, <4>1, Zenon DEF AppendOK
        <5>2. g.count = 1 /\ Len(g.recs) = 1
          BY <5>1
        <5> QED BY <1>7, <5>2, SMTT(30)
      <4> QED BY <4>1, Zenon
    <3>2. op.todo = <<Last(records)>> /\ g.page = Last(records).page
      BY <1>1, <1>2, <2>1, <3>1, SMTT(30) DEF AppendOK
    <3> QED BY <3>1, <3>2
  <2>2. CASE op.call = "rewrite"
    <3>1. /\ g.count <= Len(g.recs) + Len(op.todo)
          /\ \A i \in 1..Len(op.todo) : Len(g.recs) + i <= g.count => op.todo[i].page = g.page
      BY <1>1, <1>2, <2>2, Zenon DEF RewriteOK
    <3>2. Len(op.todo) \in Nat
      BY <1>3
    <3>3. Len(op.todo) >= 1 /\ Len(g.recs) + 1 <= g.count
      <4> DEFINE n == Len(g.recs)  m == Len(op.todo)  c == g.count
      <4>1. n \in Nat /\ m \in Nat /\ c \in Nat /\ n < c /\ c <= n + m
        BY <1>7, <3>1, <3>2, Zenon
      <4> HIDE DEF n, m, c
      <4>2. m >= 1 /\ n + 1 <= c
        BY <4>1
      <4> QED BY <4>2, Zenon DEF n, m, c
    <3>4. 1 \in 1..Len(op.todo)
      BY <3>2, <3>3
    <3>5. op.todo # <<>>
      BY <3>3
    <3> QED BY <3>1, <3>3, <3>4, <3>5, Zenon
  <2> QED BY <1>2, <2>1, <2>2, Zenon
<1>9. /\ x \in Records /\ rest \in Seq(Records) /\ Append(R, x) \in Seq(Records)
      /\ Append(R, x) \o rest = R \o op.todo
  <2> DEFINE todo == op.todo
  <2>1. R \in Seq(Records) /\ todo \in Seq(Records) /\ todo # <<>>
    BY <1>3, <1>8, Zenon
  <2> HIDE DEF R, todo
  <2>2. /\ todo[1] \in Records /\ Tail(todo) \in Seq(Records) /\ Append(R, todo[1]) \in Seq(Records)
        /\ Append(R, todo[1]) \o Tail(todo) = R \o todo
    BY <2>1, ConcatTail, Zenon
  <2> QED BY <2>2, Zenon DEF todo
<1>10. /\ h \in Groups /\ GroupsOK(Append(fr, h))
       /\ h.page = g.page /\ h.count = g.count /\ h.recs = Append(g.recs, x)
       /\ RecordsIn(Append(fr, h)) = Append(R, x)
  <2> HIDE DEF fr, g, x, h
  <2>1. h = Grown(g, x)
    BY Zenon DEF h
  <2> QED BY <1>2, <1>4, <1>5, <1>8, <1>9, <2>1, GroupGrow
<1>11. Append(fr, h) \in Seq(Groups) /\ Append(fr, h) # <<>>
       /\ Front(Append(fr, h)) = fr /\ Last(Append(fr, h)) = h
  <2>1. fr \in Seq(Groups) /\ h \in Groups
    BY <1>4, <1>10, Zenon
  <2> HIDE DEF fr, h
  <2> QED BY <2>1, FrontAppend, Zenon
<1>12. Len(h.recs) = Len(g.recs) + 1
  BY <1>7, <1>9, <1>10, AppendAt, SMTT(30)
<1>13. op = [call |-> op.call, todo |-> op.todo] /\ Len(gs) \in Nat /\ Len(gs) > 0 /\ g = gs[Len(gs)]
  BY <1>1, <1>2, <1>3, OpType, SplitLast, Zenon
<1>14. /\ file' = [file EXCEPT !.groups = [gs EXCEPT ![Len(gs)] = h]]
       /\ op' = [call |-> op.call, todo |-> rest]
       /\ records' = records /\ leaf_counts' = leaf_counts /\ total_records' = total_records
       /\ total_bytes' = total_bytes /\ manifest' = manifest
       /\ synced' = synced /\ appends' = appends /\ acked' = acked
  BY <1>13, Zenon DEF write_record_payload, memory, Grown
<1>15. [gs EXCEPT ![Len(gs)] = h] = Append(fr, h)
  <2>1. gs \in Seq(Groups) /\ gs # <<>> /\ h \in Groups
    BY <1>2, <1>3, <1>10, Zenon
  <2> HIDE DEF gs, h
  <2> QED BY <2>1, PutLast
<1> HIDE DEF gs, fr, g, x, h, rest, R
<1>16. file' \in Files /\ file'.groups = Append(fr, h) /\ file'.manifest = file.manifest
  BY <1>3, <1>11, <1>14, <1>15, FileExcept, ZenonT(30)
<1>17. op'.call = op.call /\ op'.todo = rest
  BY <1>14, Zenon
<1>18. TypeOK'
  <2>1. op' \in [call : Calls, todo : Seq(Records)]
    BY <1>2, <1>9, <1>14, Zenon DEF Calls
  <2> QED BY <1>1, <1>14, <1>16, <2>1, Zenon DEF TypeOK
<1>19. Settled = IF op.call = "append" THEN fr ELSE gs
  BY <1>2, Zenon DEF Settled, fr, gs
<1>20. CASE op.call = "append"
  <2>1. op.todo = <<Last(records)>> /\ records # <<>> /\ Last(records).id = appends
        /\ Numbered(RecordsIn(fr), appends - 1)
        /\ g = [page |-> Last(records).page, count |-> 1, recs |-> <<>>]
    BY <1>1, <1>2, <1>8, <1>19, <1>20, SMTT(30) DEF AppendOK, g, gs
  <2>2. x = Last(records) /\ rest = <<>>
    BY <2>1 DEF x, rest
  <2>3. h = [page |-> Last(records).page, count |-> 1, recs |-> <<Last(records)>>]
    BY <2>1, <2>2 DEF h, Grown
  <2>4. ~Torn(h)
    BY <2>3 DEF Torn
  <2>5. ~GroupOpen' /\ Whole(file'.groups)
    BY <1>11, <1>16, <2>4, Zenon DEF GroupOpen, Whole
  <2>6. Settled' = fr
    BY <1>11, <1>16, <1>17, <1>20, <2>2, Zenon DEF Settled
  <2>7. R = RecordsIn(fr)
    <3>1. GroupOK(g) /\ RecordsIn(fr) \in Seq(Records)
      BY <1>4, <1>5, GroupsAppend, RecordsInType, Zenon
    <3>2. R = RecordsIn(fr) \o <<>>
      BY <1>4, <2>1, <3>1, RecordsInGroup, Zenon DEF R
    <3> QED BY <3>1, <3>2, ConcatNil, Zenon
  <2>8. Numbered(Append(R, x), appends)
    <3>1. Numbered(R, x.id - 1) /\ x.id <= appends
      BY <1>3, <2>1, <2>2, <2>7
    <3> QED BY <1>3, <1>9, <3>1, NumberedAppend, Zenon
  <2>9. FilesOK'
    BY <1>1, <1>10, <1>14, <1>16, <2>8, Zenon DEF FilesOK
  <2>10. OpOK' /\ RewriteOK'
    BY <1>17, <1>20, Zenon DEF OpOK, RewriteOK
  <2>11. AppendOK'
    BY <1>11, <1>14, <1>16, <1>17, <2>1, <2>2, <2>3, <2>6, ZenonT(30) DEF AppendOK
  <2>12. MemoryOK'
    BY <1>1, <1>14, <1>16, <1>17, <1>19, <1>20, <2>6, Zenon DEF MemoryOK, Counted
  <2>13. AckedRecoverable'
    <3>1. Durable(file) = R
      BY <1>2, <1>4, <1>5, <2>7, DurableTorn, Zenon DEF gs
    <3>2. Durable(file') = Append(R, x)
      BY <1>10, <1>11, <1>16, <2>5, DurableWhole, Zenon
    <3>3. Range(Append(R, x)) = Range(R) \cup {x}
      BY <1>3, <1>9, RangeAppend
    <3>4. acked \subseteq Range(R) /\ acked \subseteq Range(Durable(synced))
      BY <1>1, <1>20, <3>1, Zenon DEF AckedRecoverable, Rewriting
    <3> QED BY <1>14, <3>2, <3>3, <3>4, Zenon DEF AckedRecoverable
  <2> QED BY <1>18, <2>9, <2>10, <2>11, <2>12, <2>13, SMTT(30) DEF WalInv
<1>21. CASE op.call = "rewrite"
  <2>1. /\ R \o op.todo = records /\ g.count <= Len(g.recs) + Len(op.todo)
        /\ \A i \in 1..Len(op.todo) : Len(g.recs) + i <= g.count => op.todo[i].page = g.page
    BY <1>1, <1>2, <1>21, Zenon DEF RewriteOK, R, g, gs
  <2>2. Append(R, x) \o rest = records
    BY <1>9, <2>1, Zenon
  <2>3. /\ Len(op.todo) \in Nat /\ Len(rest) = Len(op.todo) - 1 /\ Len(rest) \in Nat
        /\ \A i \in 1..Len(rest) : rest[i] = op.todo[i + 1]
    BY <1>3, <1>8, TailAt, NilIs DEF rest
  <2>4. Numbered(Append(R, x), appends)
    BY <1>6, <1>9, <2>2, NumberedPrefix, Zenon
  <2>5. FilesOK'
    BY <1>1, <1>10, <1>14, <1>16, <2>4, Zenon DEF FilesOK
  <2>6. OpOK' /\ AppendOK'
    BY <1>17, <1>21, Zenon DEF OpOK, AppendOK
  <2>7. h.count <= Len(h.recs) + Len(rest)
    <3> DEFINE n == Len(g.recs)  m == Len(op.todo)  c == g.count
    <3>1. n \in Nat /\ m \in Nat /\ c \in Nat /\ c <= n + m
      BY <1>7, <2>1, <2>3, Zenon
    <3>2. h.count = c /\ Len(h.recs) = n + 1 /\ Len(rest) = m - 1
      BY <1>10, <1>12, <2>3, Zenon
    <3> HIDE DEF n, m, c
    <3>3. c <= (n + 1) + (m - 1)
      BY <3>1
    <3> QED BY <3>2, <3>3, Zenon
  <2>8. ASSUME NEW i \in 1..Len(rest), Len(h.recs) + i <= h.count PROVE rest[i].page = h.page
    <3>1. i + 1 \in 1..Len(op.todo) /\ Len(g.recs) + (i + 1) <= g.count
      <4> DEFINE n == Len(g.recs)  m == Len(op.todo)  c == g.count
      <4>1. n \in Nat /\ m \in Nat /\ c \in Nat
        BY <1>7, <2>3, Zenon
      <4>2. i \in 1..(m - 1) /\ (n + 1) + i <= c
        BY <1>10, <1>12, <2>3, <2>8, Zenon
      <4> HIDE DEF n, m, c
      <4>3. i + 1 \in 1..m /\ n + (i + 1) <= c
        BY <4>1, <4>2
      <4> QED BY <4>3, Zenon DEF n, m, c
    <3>2. op.todo[i + 1].page = g.page /\ rest[i] = op.todo[i + 1]
      BY <2>1, <2>3, <3>1, Zenon
    <3> QED BY <1>10, <3>2, Zenon
  <2>9. RewriteOK'
    <3>1. RecordsIn(file'.groups) \o op'.todo = records'
      BY <1>10, <1>14, <1>16, <1>17, <2>2, ZenonT(30)
    <3>2. Last(file'.groups) = h
      BY <1>11, <1>16, Zenon
    <3> QED BY <1>17, <2>7, <2>8, <3>1, <3>2, Zenon DEF RewriteOK
  <2>10. MemoryOK'
    BY <1>6, <1>14, <1>17, <1>21, Zenon DEF MemoryOK, Counted
  <2>11. AckedRecoverable'
    <3>1. acked \subseteq Range(Durable(synced))
      BY <1>1, Zenon DEF AckedRecoverable
    <3>2. ASSUME ~Rewriting' PROVE acked \subseteq Range(Durable(file'))
      <4>1. rest = <<>>
        BY <1>17, <1>21, <3>2, Zenon DEF Rewriting
      <4>2. ~Torn(h)
        <5>1. h.count <= Len(h.recs) /\ h.count \in Nat /\ Len(h.recs) \in Nat
          BY <1>7, <1>10, <1>12, <2>7, <4>1, SMTT(30)
        <5> QED BY <5>1 DEF Torn
      <4>3. Whole(file'.groups)
        BY <1>11, <1>16, <4>2, Zenon DEF Whole
      <4>4. Durable(file') = Append(R, x)
        BY <1>10, <1>11, <1>16, <4>3, DurableWhole, Zenon
      <4>5. Append(R, x) = records
        BY <1>9, <2>2, <4>1, ConcatNil, Zenon
      <4> QED BY <1>6, <4>4, <4>5, Zenon
    <3> QED BY <1>14, <3>1, <3>2, Zenon DEF AckedRecoverable
  <2> QED BY <1>18, <2>5, <2>6, <2>9, <2>10, <2>11, Zenon DEF WalInv
<1> QED BY <1>2, <1>20, <1>21, Zenon

\* Nothing happens.
LEMMA StutterStep == WalInv /\ UNCHANGED vars => WalInv'
<1> SUFFICES ASSUME WalInv, UNCHANGED vars PROVE WalInv'
  BY Zenon
<1>1. /\ records' = records /\ leaf_counts' = leaf_counts /\ total_records' = total_records
      /\ total_bytes' = total_bytes /\ manifest' = manifest /\ file' = file
      /\ synced' = synced /\ op' = op /\ appends' = appends /\ acked' = acked
  BY Zenon DEF vars, memory
<1>2. TypeOK' /\ FilesOK'
  BY <1>1, SMTT(30) DEF WalInv, TypeOK, FilesOK
<1>3. GroupOpen' = GroupOpen /\ Settled' = Settled /\ Rewriting' = Rewriting /\ Counted' = Counted
  BY <1>1, SMTT(30) DEF GroupOpen, Settled, Rewriting, Counted
<1>4. OpOK' /\ AppendOK' /\ RewriteOK'
  BY <1>1, <1>3, Zenon DEF WalInv, OpOK, AppendOK, RewriteOK
<1>5. MemoryOK' /\ AckedRecoverable'
  BY <1>1, <1>3, Zenon DEF WalInv, MemoryOK, AckedRecoverable
<1> QED BY <1>2, <1>4, <1>5, Zenon DEF WalInv

\* The inductive invariant: whatever the pages, the sizes and the number of appends,
\* and wherever a crash comes, the file has at most one torn group, its last; the
\* records of the file are in the order of their appends; and the memory, the
\* statistics and what the running call still has to write account for all of it.
THEOREM WalInvariant == Spec => []WalInv
<1>1. WalInv /\ [Next]_vars => WalInv'
  <2> SUFFICES ASSUME WalInv, [Next]_vars PROVE WalInv'
    BY Zenon
  <2>1. CASE open BY <2>1, OpenStep, Zenon
  <2>2. CASE OpenManifest BY <2>2, OpenManifestStep
  <2>3. CASE \E p \in Pages \cup {TxnMeta}, n \in Sizes : append_record(p, n)
    BY <2>3, AppendRecordStep, Zenon DEF AllPages
  <2>4. CASE write_group BY <2>4, WriteGroupStep
  <2>5. CASE write_record_payload BY <2>5, WritePayloadStep
  <2>6. CASE AppendSync BY <2>6, AppendSyncStep
  <2>7. CASE \E p \in Pages : checkpoint_page(p)
    BY <2>7, CheckpointStep, Zenon
  <2>8. CASE RewriteTruncate BY <2>8, TruncateStep
  <2>9. CASE RewriteSync BY <2>9, RewriteSyncStep
  <2>10. CASE write_manifest BY <2>10, WriteManifestStep
  <2>11. CASE ManifestSync BY <2>11, ManifestSyncStep
  <2>12. CASE clear BY <2>12, ClearStep
  <2>13. CASE Crash BY <2>13, CrashStep
  <2>14. CASE UNCHANGED vars BY <2>14, StutterStep, Zenon
  <2> QED
    BY <2>1, <2>2, <2>3, <2>4, <2>5, <2>6, <2>7, <2>8, <2>9, <2>10, <2>11, <2>12, <2>13, <2>14, SMTT(30)
    DEF Next
<1> QED BY <1>1, InitInv, PTL DEF Spec

-------------------------------------------------------------------------------
(* The properties.                                                         *)

\* The types of the records, the statistics, the file and the running call.
THEOREM WalTypes == Spec => []TypeOK
<1>1. WalInv => TypeOK
  BY Zenon DEF WalInv
<1> QED BY <1>1, WalInvariant, PTL

\* A record whose append returned Ok is in the file as it was last synced, and in the
\* file as it is except while rewrite_records writes the log again, through any
\* number of calls and crashes, until its page is checkpointed or the log cleared.
THEOREM AckedRecordsRecoverable == Spec => []AckedRecoverable
<1>1. WalInv => AckedRecoverable
  BY Zenon DEF WalInv
<1> QED BY <1>1, WalInvariant, PTL

\* Between calls the records of the file are records of the memory in its order.
THEOREM FileFollows == Spec => []FileFollowsMemory
<1>1. WalInv => FileFollowsMemory
  <2> SUFFICES ASSUME WalInv, op.call = "idle"
               PROVE  RecordsIn(file.groups) = Filter(records, Range(RecordsIn(file.groups)))
    BY Zenon DEF FileFollowsMemory
  <2> DEFINE R == RecordsIn(file.groups)  F == Filter(records, Range(R))
  <2>1. TypeOK /\ FilesOK /\ MemoryOK
    BY Zenon DEF WalInv
  <2>2. records \in Seq(Records) /\ file.groups \in Seq(Groups) /\ appends \in Nat
    BY <2>1, FileType DEF TypeOK
  <2>3. R \in Seq(Records)
    BY <2>2, RecordsInType, Zenon
  <2>4. Numbered(R, appends) /\ Numbered(records, appends)
    BY <2>1, Zenon DEF FilesOK, MemoryOK
  <2>5. Range(R) \subseteq Range(records)
    <3>1. Settled = file.groups
      BY Zenon DEF Settled
    <3> QED BY <2>1, <3>1, Zenon DEF MemoryOK, Counted
  <2>6. F \in Seq(Records) /\ Range(F) = Range(records) \cap Range(R)
    BY <2>2, FilterType
  <2>7. Numbered(F, appends)
    BY <2>2, <2>4, NumberedFilter, Zenon
  <2> HIDE DEF R, F
  <2>8. Range(F) = Range(R)
    BY <2>5, <2>6, Zenon
  <2>9. R = F
    BY <2>2, <2>3, <2>4, <2>6, <2>7, <2>8, NumberedUnique, Zenon
  <2> QED BY <2>9, Zenon DEF R, F
<1> QED BY <1>1, WalInvariant, PTL

\* Between calls the counts are those of the memory and the bytes those of the file.
THEOREM StatisticsAgree == Spec => []StatsAgree
<1>1. WalInv => StatsAgree
  <2> SUFFICES ASSUME WalInv, op.call = "idle"
               PROVE  /\ leaf_counts = stats(records, file.groups)
                      /\ total_records = Len(records)
                      /\ total_bytes \in {FileLen(file), FileLen(file) - MANIFEST_LEN}
    BY Zenon DEF StatsAgree
  <2>1. Settled = file.groups
    BY DEF Settled
  <2>2. /\ leaf_counts = stats(records, file.groups) /\ total_records = Len(records)
        /\ total_bytes \in {AllBytes(file.groups), MANIFEST_LEN + AllBytes(file.groups)}
    BY <2>1, Zenon DEF WalInv, MemoryOK, Counted, AllBytes
  <2>3. AllBytes(file.groups) \in Nat
    BY FileType, AllBytesType, Zenon DEF WalInv, TypeOK
  <2>4. FileLen(file) = MANIFEST_LEN + AllBytes(file.groups)
    BY FileLenIs, Zenon
  <2> QED BY <2>2, <2>3, <2>4, LengthsAssumption
<1> QED BY <1>1, WalInvariant, PTL

\* Between calls the manifest of the file is the one of the memory and within the file.
THEOREM ManifestWithin == Spec => []ManifestRepaired
<1>1. WalInv => ManifestRepaired
  <2> SUFFICES ASSUME WalInv, op.call = "idle"
               PROVE  file.manifest = manifest /\ manifest <= FileLen(file)
    BY Zenon DEF ManifestRepaired
  <2>1. Settled = file.groups
    BY DEF Settled
  <2> QED BY <2>1, FileLenIs, Zenon DEF WalInv, MemoryOK, Counted, AllBytes
<1> QED BY <1>1, WalInvariant, PTL

\* A whole file has records of every page that has groups.
LEMMA PagesInRecords ==
  ASSUME NEW gs \in Seq(Groups), GroupsOK(gs), Whole(gs)
  PROVE  PagesOf(gs) \subseteq PagesOf(RecordsIn(gs))
<1> DEFINE Q == {s \in Seq(Groups) :
                   GroupsOK(s) /\ Whole(s) => PagesOf(s) \subseteq PagesOf(RecordsIn(s))}
<1>1. <<>> \in Q
  BY PagesOfEmpty
<1>2. ASSUME NEW s \in Seq(Groups), NEW g \in Groups, s \in Q PROVE Append(s, g) \in Q
  <2> SUFFICES ASSUME GroupsOK(Append(s, g)), Whole(Append(s, g))
               PROVE  PagesOf(Append(s, g)) \subseteq PagesOf(RecordsIn(Append(s, g)))
    OBVIOUS
  <2>1. GroupsOK(s) /\ GroupOK(g) /\ Whole(s)
    BY GroupsAppend, Zenon DEF Whole
  <2>2. ~Torn(g)
    BY FrontAppend, Zenon DEF Whole
  <2>3. PagesOf(s) \subseteq PagesOf(RecordsIn(s))
    BY <1>2, <2>1, Zenon
  <2>4. RecordsIn(Append(s, g)) = RecordsIn(s) \o g.recs
    BY <2>1, RecordsInGroup, Zenon
  <2>5. RecordsIn(s) \in Seq(Records) /\ g.recs \in Seq(Records) /\ g.count \in 1..MaxAppends
    BY RecordsInType, GroupRecords, Zenon
  <2>6. Range(RecordsIn(Append(s, g))) = Range(RecordsIn(s)) \cup Range(g.recs)
    BY <2>4, <2>5, RangeConcat, SMTT(30)
  <2>7. g.recs[1] \in Range(g.recs) /\ g.recs[1].page = g.page
    <3>1. Len(g.recs) \in Nat /\ Len(g.recs) >= 1
      BY <2>2, <2>5, LengthsAssumption DEF Torn
    <3>2. 1 \in 1..Len(g.recs) /\ 1 \in DOMAIN g.recs
      BY <2>5, <3>1
    <3> QED BY <2>1, <3>2, Zenon DEF GroupOK, Range
  <2>8. PagesOf(Append(s, g)) = PagesOf(s) \cup {g.page}
    BY PagesOfAppend
  <2> QED BY <2>3, <2>6, <2>7, <2>8, ZenonT(30) DEF PagesOf
<1> HIDE DEF Q
<1>3. gs \in Q
  BY <1>1, <1>2, SeqSetInduction, Zenon
<1> QED BY <1>3, Zenon DEF Q

\* No page has more bytes than the file.
LEMMA PageBytesBound ==
  ASSUME NEW gs \in Seq(Groups), NEW p
  PROVE  FunSum(gs, PartFun({p})) \in Nat /\ FunSum(gs, PartFun({p})) <= AllBytes(gs)
<1> DEFINE S == AllPages \cup {p}
<1>1. FunSum(gs, PartFun(S)) = FunSum(gs, PartFun({p})) + FunSum(gs, PartFun(S \ {p}))
  BY PartSplit
<1>2. FunSum(gs, PartFun(S)) = AllBytes(gs)
  <2>1. PagesOf(gs) \subseteq S
    BY PagesOfType, Zenon
  <2> QED BY <2>1, PartAll, Zenon
<1>3. FunSum(gs, PartFun({p})) \in Nat /\ FunSum(gs, PartFun(S \ {p})) \in Nat
  BY PartFunType, FunSumType, Zenon
<1> QED BY <1>1, <1>2, <1>3

\* The page chosen under pressure is not the one of the markers and has records, and
\* there is one whenever a page has records.
THEOREM CandidatesShrink == Spec => []CandidateShrinksLog
<1>1. WalInv => CandidateShrinksLog
  <2> SUFFICES ASSUME WalInv, op.call = "idle"
               PROVE  /\ \A p \in global_checkpoint_candidates(1, MANIFEST_LEN) :
                           p \in Pages \cap PagesOf(records)
                      /\ PagesOf(records) \cap Pages # {} =>
                           global_checkpoint_candidates(1, MANIFEST_LEN) # {}
    BY DEF CandidateShrinksLog
  <2> DEFINE gs == file.groups  D == PagesOf(records) \cup PagesOf(gs)
             B(p) == FunSum(gs, PartFun({p}))
             logged == DOMAIN leaf_counts \ {TxnMeta}
  <2>1. TypeOK /\ FilesOK /\ OpOK /\ MemoryOK
    BY Zenon DEF WalInv
  <2>2. gs \in Seq(Groups) /\ records \in Seq(Records)
    BY <2>1, FileType, Zenon DEF TypeOK
  <2>3. Settled = gs
    BY Zenon DEF Settled
  <2>4. leaf_counts = stats(records, gs) /\ total_records = Len(records)
        /\ Range(RecordsIn(gs)) \subseteq Range(records)
    BY <2>1, <2>3, Zenon DEF MemoryOK, Counted
  <2>5. DOMAIN leaf_counts = D /\ \A p \in D : leaf_counts[p].bytes = B(p)
    <3>1. leaf_counts = [p \in D |-> [count |-> FunSum(records, CountFun(p)), bytes |-> B(p)]]
      BY <2>2, <2>4, StatsIs, Zenon
    <3> HIDE DEF D, B
    <3> QED BY <3>1, Zenon
  <2>6. D = PagesOf(records)
    <3>1. GroupsOK(gs) /\ Whole(gs)
      BY <2>1, Zenon DEF FilesOK, OpOK, GroupOpen, Whole
    <3>2. PagesOf(gs) \subseteq PagesOf(RecordsIn(gs))
      BY <2>2, <3>1, PagesInRecords, Zenon
    <3>3. PagesOf(RecordsIn(gs)) \subseteq PagesOf(records)
      BY <2>4, Zenon DEF PagesOf
    <3> QED BY <3>2, <3>3, Zenon
  <2>7. PagesOf(records) \subseteq Pages \cup {TxnMeta}
    BY <2>2, PagesOfType, Zenon DEF AllPages
  <2>8. ASSUME NEW p \in global_checkpoint_candidates(1, MANIFEST_LEN)
        PROVE  p \in Pages \cap PagesOf(records)
    <3>1. p \in logged
      BY Zenon DEF global_checkpoint_candidates
    <3> HIDE DEF D
    <3> QED BY <2>5, <2>6, <2>7, <3>1, Zenon
  <2>9. ASSUME PagesOf(records) \cap Pages # {}
        PROVE  global_checkpoint_candidates(1, MANIFEST_LEN) # {}
    <3> DEFINE S == {B(q) : q \in logged}
    <3>1. PICK q \in Pages : q \in PagesOf(records)
      BY <2>9, Zenon
    <3>2. q \in logged
      BY <2>5, <2>6, <3>1, PagesAssumption, Zenon
    <3>3. S \subseteq Nat /\ \A b \in S : b <= AllBytes(gs)
      BY <2>2, PageBytesBound, Zenon
    <3>4. AllBytes(gs) \in Nat /\ S # {}
      BY <2>2, <3>2, AllBytesType, Zenon
    <3>5. PICK b \in S : \A c \in S : c <= b
      <4> HIDE DEF S
      <4> QED BY <3>3, <3>4, GreatestExists, Zenon
    <3>6. PICK p \in logged : b = B(p)
      BY <3>5, Zenon
    <3>7. \A c \in logged : B(c) <= B(p)
      BY <3>5, <3>6, Zenon
    <3>8. logged \subseteq D
      BY <2>5, Zenon
    <3> HIDE DEF B, D
    <3>9. \A c \in logged : leaf_counts[c].bytes <= leaf_counts[p].bytes
      BY <2>5, <3>7, <3>8, Zenon
    <3>10. total_records >= 1
      <4>1. records # <<>>
        BY <3>1, PagesOfEmpty, Zenon
      <4> QED BY <2>2, <2>4, <4>1, NilIs, SMTT(30)
    <3>11. p \in global_checkpoint_candidates(1, MANIFEST_LEN)
      BY <3>6, <3>9, <3>10, Zenon DEF global_checkpoint_candidates
    <3> QED BY <3>11, Zenon
  <2> QED BY <2>8, <2>9, Zenon
<1> QED BY <1>1, WalInvariant, PTL
===============================================================================
