--------------------------------- MODULE Wal ---------------------------------
(***************************************************************************)
(* The write-ahead log (wal.rs): the state behind the mutex of WalManager  *)
(* and the file.  Every call holds the mutex from its first step to its    *)
(* return, so one call runs at a time; but each write, truncation and sync *)
(* of the file is a step of its own, and a crash may come between any two. *)
(*                                                                         *)
(* A file is a manifest and a sequence of groups; a group that holds fewer *)
(* records than its header counts is torn.  A record is its page, its size *)
(* in bytes and the number of the call that appended it.                   *)
(***************************************************************************)
EXTENDS Naturals, FiniteSets, Sequences, FiniteSetsExt, SeqOps

CONSTANTS
  Pages,           \* pages that are logged
  TxnMeta,         \* TXN_META_PAGE_ID, the page of the transaction markers
  Sizes,           \* what record_size returns
  MANIFEST_LEN,
  GROUP_HEADER_LEN,
  MaxAppends       \* bound on the calls of append_record

ASSUME PagesAssumption == TxnMeta \notin Pages
ASSUME LengthsAssumption ==
  /\ MANIFEST_LEN \in Nat \ {0} /\ GROUP_HEADER_LEN \in Nat \ {0}
  /\ Sizes \subseteq Nat /\ MaxAppends \in Nat

VARIABLES
  records,        \* WalState.records
  leaf_counts,    \* WalState.leaf_counts: counts and bytes per page
  total_records,
  total_bytes,
  manifest,       \* WalState.manifest.checkpoint_len
  file,           \* the file as the program wrote it
  synced,         \* the file as of the last sync_data
  op,             \* the call that holds the mutex, and what it still writes
  appends,        \* calls of append_record so far
  acked           \* appended with Ok, and neither checkpointed nor cleared since

memory == <<records, leaf_counts, total_records, total_bytes, manifest>>
vars == <<memory, file, synced, op, appends, acked>>

Records == [page : Pages \cup {TxnMeta}, size : Sizes, id : 1..MaxAppends]
Calls == {"down", "open", "idle", "append", "truncate", "rewrite", "manifest", "sync"}

-------------------------------------------------------------------------------
(* The format of the file.                                                 *)

Torn(g) == Len(g.recs) < g.count
GroupBytes(g) == GROUP_HEADER_LEN + SumOf(g.recs, LAMBDA r : r.size)
FileLen(f) == MANIFEST_LEN + SumOf(f.groups, GroupBytes)

\* read_records: the groups up to the first torn one are valid; the records of
\* that one that are complete are returned too, although valid_len excludes them.
\* The page of a record is the one in the header of its group.
ValidGroups(f) ==
  LET torn == {i \in 1..Len(f.groups) : Torn(f.groups[i])}
  IN  IF torn = {} THEN 0 ELSE Min(torn)
complete_groups(f) ==
  IF ValidGroups(f) = 0 THEN f.groups ELSE SubSeq(f.groups, 1, ValidGroups(f) - 1)
records_of(g) == [i \in 1..Len(g.recs) |-> [g.recs[i] EXCEPT !.page = g.page]]
RecordsIn(groups) == Flatten([i \in 1..Len(groups) |-> records_of(groups[i])])
read_records(f) ==
  IF ValidGroups(f) = 0 THEN RecordsIn(f.groups)
  ELSE RecordsIn(SubSeq(f.groups, 1, ValidGroups(f)))

\* A missing manifest (an empty file, or one that lost its magic) is 0.
read_manifest(f) == IF f.manifest = 0 THEN MANIFEST_LEN ELSE f.manifest

\* Counts of records and bytes of groups per page.
PagesOf(s) == {x.page : x \in Range(s)}
stats(recs, groups) ==
  [p \in PagesOf(recs) \cup PagesOf(groups) |->
     [count |-> SumOf(recs, LAMBDA r : IF r.page = p THEN 1 ELSE 0),
      bytes |-> SumOf(groups, LAMBDA g : IF g.page = p THEN GroupBytes(g) ELSE 0)]]
BytesIn(counts) == MapThenSumSet(LAMBDA p : counts[p].bytes, DOMAIN counts)

\* Mutants of RunLength: one record short, and a group that does not end with its page.
RunLengthShort(s) == Max({n \in 1..Len(s) : \A i \in 1..n : s[i].page = s[1].page}) - 1
RunLengthAll(s) == Len(s)

\* The records of the next group of a rewrite: the run of records of one page.
RunLength(s) == Max({n \in 1..Len(s) : \A i \in 1..n : s[i].page = s[1].page})

NoStats == [p \in {} |-> [count |-> 0, bytes |-> 0]]
NoFile == [manifest |-> 0, groups |-> <<>>]
Holding(call, todo) == [call |-> call, todo |-> todo]

Init ==
  /\ records = <<>> /\ leaf_counts = NoStats
  /\ total_records = 0 /\ total_bytes = 0 /\ manifest = MANIFEST_LEN
  /\ file = NoFile /\ synced = NoFile
  /\ op = Holding("down", <<>>)
  /\ appends = 0 /\ acked = {}

-------------------------------------------------------------------------------
(* WalManager::open.                                                       *)

\* Reads the log and cuts the file behind the last complete group.
open ==
  /\ op.call = "down"
  /\ LET kept == complete_groups(file)
         len  == FileLen([file EXCEPT !.groups = kept])
     IN  /\ records' = read_records(file)
         /\ leaf_counts' = stats(records', kept)
         /\ total_records' = Len(records')
         /\ total_bytes' = len
         /\ manifest' = Min({read_manifest(file), len})
         /\ file' = [manifest |-> read_manifest(file), groups |-> kept]
         /\ synced' = IF file.manifest = 0 THEN file' ELSE synced
  /\ op' = Holding("open", <<>>)
  /\ UNCHANGED <<appends, acked>>

\* Mutant of OpenManifest: nothing is repaired.
OpenManifestAsIs ==
  /\ op.call = "open"
  /\ op' = Holding("idle", <<>>)
  /\ UNCHANGED <<memory, file, synced, appends, acked>>

\* A checkpoint length beyond the end of the file is repaired.
OpenManifest ==
  /\ op.call = "open"
  /\ file' = [file EXCEPT !.manifest = manifest]
  /\ synced' = IF file' = file THEN synced ELSE file'
  /\ op' = Holding("idle", <<>>)
  /\ UNCHANGED <<memory, appends, acked>>

-------------------------------------------------------------------------------
(* append_put, append_tombstone and append_txn_marker: append_record.      *)

append_record(p, size) ==
  /\ op.call = "idle" /\ appends < MaxAppends
  /\ LET r == [page |-> p, size |-> size, id |-> appends + 1]
         entry == IF p \in DOMAIN leaf_counts THEN leaf_counts[p] ELSE [count |-> 0, bytes |-> 0]
     IN  /\ records' = Append(records, r)
         /\ leaf_counts' = [q \in DOMAIN leaf_counts \cup {p} |->
                              IF q = p THEN [entry EXCEPT !.count = @ + 1] ELSE leaf_counts[q]]
         /\ op' = Holding("append", <<r>>)
  /\ total_records' = total_records + 1
  /\ appends' = appends + 1
  /\ UNCHANGED <<total_bytes, manifest, file, synced, acked>>

\* write_group: the header, then one record after the other.
GroupOpen == file.groups # <<>> /\ Torn(Last(file.groups))

write_group ==
  /\ op.call \in {"append", "rewrite"} /\ op.todo # <<>> /\ ~GroupOpen
  /\ LET g == [page |-> op.todo[1].page, count |-> RunLength(op.todo), recs |-> <<>>]
     IN  file' = [file EXCEPT !.groups = Append(@, g)]
  /\ UNCHANGED <<memory, synced, op, appends, acked>>

write_record_payload ==
  /\ op.call \in {"append", "rewrite"} /\ GroupOpen
  /\ file' = [file EXCEPT !.groups[Len(file.groups)].recs = Append(@, op.todo[1])]
  /\ op' = [op EXCEPT !.todo = Tail(@)]
  /\ UNCHANGED <<memory, synced, appends, acked>>

\* Mutant of AppendSync: Ok without sync_data.
AppendUnsynced ==
  /\ op.call = "append" /\ op.todo = <<>>
  /\ LET g == Last(file.groups)
     IN  /\ leaf_counts' = [leaf_counts EXCEPT ![g.page].bytes = @ + GroupBytes(g)]
         /\ total_bytes' = total_bytes + GroupBytes(g)
         /\ acked' = acked \cup Range(g.recs)
  /\ op' = Holding("idle", <<>>)
  /\ UNCHANGED <<records, total_records, manifest, file, synced, appends>>

\* The group is written: its bytes are counted, the file synced, Ok returned.
AppendSync ==
  /\ op.call = "append" /\ op.todo = <<>>
  /\ LET g == Last(file.groups)
     IN  /\ leaf_counts' = [leaf_counts EXCEPT ![g.page].bytes = @ + GroupBytes(g)]
         /\ total_bytes' = total_bytes + GroupBytes(g)
         /\ acked' = acked \cup Range(g.recs)
  /\ synced' = file
  /\ op' = Holding("idle", <<>>)
  /\ UNCHANGED <<records, total_records, manifest, file, appends>>

-------------------------------------------------------------------------------
(* checkpoint_page and clear.                                              *)

checkpoint_page(p) ==
  /\ op.call = "idle" /\ p \in PagesOf(records)
  /\ records' = Filter(records, {r \in Records : r.page # p})
  /\ acked' = {r \in acked : r.page # p}
  /\ op' = Holding("truncate", records')
  /\ UNCHANGED <<leaf_counts, total_records, total_bytes, manifest, file, synced, appends>>

\* rewrite_records empties the file, writes the groups again and syncs.
RewriteTruncate ==
  /\ op.call = "truncate"
  /\ file' = [file EXCEPT !.groups = <<>>]
  /\ op' = [op EXCEPT !.call = "rewrite"]
  /\ UNCHANGED <<memory, synced, appends, acked>>

\* Mutant of RewriteSync: the total of bytes is not computed again.
RewriteKeepsTotal ==
  /\ op.call = "rewrite" /\ op.todo = <<>>
  /\ synced' = file
  /\ leaf_counts' = stats(records, file.groups)
  /\ total_records' = Len(records)
  /\ manifest' = MANIFEST_LEN + BytesIn(leaf_counts')
  /\ op' = Holding("manifest", <<>>)
  /\ UNCHANGED <<records, total_bytes, file, appends, acked>>

RewriteSync ==
  /\ op.call = "rewrite" /\ op.todo = <<>>
  /\ synced' = file
  /\ leaf_counts' = stats(records, file.groups)
  /\ total_records' = Len(records)
  /\ total_bytes' = BytesIn(leaf_counts')
  /\ manifest' = MANIFEST_LEN + total_bytes'
  /\ op' = Holding("manifest", <<>>)
  /\ UNCHANGED <<records, file, appends, acked>>

write_manifest ==
  /\ op.call = "manifest"
  /\ file' = [file EXCEPT !.manifest = manifest]
  /\ op' = Holding("sync", <<>>)
  /\ UNCHANGED <<memory, synced, appends, acked>>

ManifestSync ==
  /\ op.call = "sync"
  /\ synced' = file
  /\ op' = Holding("idle", <<>>)
  /\ UNCHANGED <<memory, file, appends, acked>>

clear ==
  /\ op.call = "idle"
  /\ records' = <<>> /\ leaf_counts' = NoStats
  /\ total_records' = 0 /\ total_bytes' = 0 /\ manifest' = MANIFEST_LEN
  /\ acked' = {}
  /\ file' = [file EXCEPT !.groups = <<>>]
  /\ op' = Holding("manifest", <<>>)
  /\ UNCHANGED <<synced, appends>>

-------------------------------------------------------------------------------
(* The process dies in any step of any call.  The file keeps what was      *)
(* written, or, when the machine dies with it, what was last synced.       *)

Durable(f) == RecordsIn(complete_groups(f))

Crash ==
  /\ op.call # "down"
  /\ file' \in {file, synced}
  /\ synced' = file'
  /\ records' = <<>> /\ leaf_counts' = NoStats
  /\ total_records' = 0 /\ total_bytes' = 0 /\ manifest' = MANIFEST_LEN
  /\ op' = Holding("down", <<>>)
  /\ acked' = acked \cap Range(Durable(file'))
  /\ UNCHANGED appends

Next ==
  \/ open \/ OpenManifest
  \/ \E p \in Pages \cup {TxnMeta}, n \in Sizes : append_record(p, n)
  \/ write_group \/ write_record_payload \/ AppendSync
  \/ \E p \in Pages : checkpoint_page(p)
  \/ RewriteTruncate \/ RewriteSync \/ write_manifest \/ ManifestSync
  \/ clear
  \/ Crash

Spec == Init /\ [][Next]_vars

-------------------------------------------------------------------------------
(* Queries.                                                                *)

should_checkpoint_page(p, threshold) ==
  p \in DOMAIN leaf_counts /\ leaf_counts[p].count >= threshold

\* Mutant of global_checkpoint_candidates: the page of the markers is not filtered out.
candidates_with_markers(record_threshold, byte_threshold) ==
  {p \in DOMAIN leaf_counts :
     /\ total_records >= record_threshold \/ total_bytes >= byte_threshold
     /\ \A q \in DOMAIN leaf_counts : leaf_counts[q].bytes <= leaf_counts[p].bytes}

\* The pages max_by_key may return: the order of a HashMap decides among equals.
global_checkpoint_candidates(record_threshold, byte_threshold) ==
  LET logged == DOMAIN leaf_counts \ {TxnMeta}
  IN  {p \in logged : /\ \/ total_records >= record_threshold
                         \/ total_bytes >= byte_threshold
                     /\ \A q \in logged : leaf_counts[q].bytes <= leaf_counts[p].bytes}

-------------------------------------------------------------------------------
(* Properties.                                                             *)

Groups == [page : Pages \cup {TxnMeta}, count : 1..MaxAppends, recs : Seq(Records)]
Files == [manifest : Nat, groups : Seq(Groups)]

\* Every variable has its shape.
TypeOK ==
  /\ records \in Seq(Records) /\ acked \subseteq Records
  /\ DOMAIN leaf_counts \subseteq Pages \cup {TxnMeta}
  /\ \A p \in DOMAIN leaf_counts : leaf_counts[p] \in [count : Nat, bytes : Nat]
  /\ total_records \in Nat /\ total_bytes \in Nat /\ manifest \in Nat
  /\ file \in Files /\ synced \in Files
  /\ op \in [call : Calls, todo : Seq(Records)]
  /\ appends \in 0..MaxAppends

Rewriting == op.call = "rewrite" /\ op.todo # <<>>

\* A record whose append returned Ok is read back whatever happens next, a crash
\* of the process or of the machine in the middle of any call included, until its
\* page is checkpointed: with the exception of the window in which rewrite_records
\* has emptied the file and not written all groups again.
AckedRecoverable ==
  /\ ~Rewriting => acked \subseteq Range(Durable(file))
  /\ acked \subseteq Range(Durable(synced))

\* Appends, regrouping by rewrite_records, crashes and torn tails never reorder
\* the log or bring a checkpointed record back beside later ones: the records of
\* the file are records of the memory, in the order of the memory.
FileFollowsMemory ==
  op.call = "idle" =>
    RecordsIn(file.groups) = Filter(records, Range(RecordsIn(file.groups)))

\* The statistics that choose what to checkpoint agree with the log between calls,
\* however the groups were split, torn or merged: counts with the memory, bytes
\* with the file.  The total of bytes counts the manifest after open, and does not
\* after a checkpoint.
StatsAgree ==
  op.call = "idle" =>
    /\ leaf_counts = stats(records, file.groups)
    /\ total_records = Len(records)
    /\ total_bytes \in {FileLen(file), FileLen(file) - MANIFEST_LEN}

\* The page chosen under pressure is never the one of the markers and always has
\* records, so that its checkpoint shortens the log; and there is one whenever a
\* page has records and the thresholds are reached.
CandidateShrinksLog ==
  op.call = "idle" =>
    LET candidates == global_checkpoint_candidates(1, MANIFEST_LEN)
    IN  /\ \A p \in candidates : p \in Pages \cap PagesOf(records)
        /\ PagesOf(records) \cap Pages # {} => candidates # {}

\* Between calls the manifest of the file is the one in memory and never points
\* beyond the end of the file, also after a crash in the middle of a checkpoint.
ManifestRepaired ==
  op.call = "idle" => file.manifest = manifest /\ manifest <= FileLen(file)

\* What tests/wal_manifest.rs says of the manifest, "checkpoint len should never
\* exceed WAL length", read at any moment.
ManifestWithinFile == file.manifest <= FileLen(file)

\* The "fsync-before-return semantics" of CHANGELOG.md: what an append returned Ok
\* for is in the file from then on.
FsyncBeforeReturn == acked \subseteq Range(Durable(file))

\* CHANGELOG.md: start-up replays the log "then truncates the WAL to zero once
\* replay succeeds"; until then the records handed to the replay are in the file.
ReplayedRecordsInFile == op.call = "idle" => Range(records) \subseteq Range(Durable(file))
===============================================================================
