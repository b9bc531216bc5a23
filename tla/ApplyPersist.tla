----------------------------- MODULE ApplyPersist -----------------------------
(***************************************************************************)
(* Applying committed raft entries to two stores that fail independently.  *)
(* One region.                                                             *)
(*                                                                         *)
(* The apply worker (raftstore/store/fsm/apply.rs) executes the entries;   *)
(* the forwarder (engine_store_ffi/core/forward_raft/command.rs) hands     *)
(* each of them to the engine-store, which keeps the data.  The proxy      *)
(* keeps only metadata in kv (applied index, truncated index, region), and *)
(* writes the apply state only when the engine-store answers that it       *)
(* persisted.  A restart replays the raft log from kv's applied index, so  *)
(* the raft log, its garbage collection, the SST files that ingest         *)
(* commands name and their cleanup all depend on the order of these        *)
(* writes.  kv is written without sync unless sync_log_hint is set:        *)
(* a power failure may fall back to the last synced contents.              *)
(***************************************************************************)
EXTENDS Integers, Sequences, FiniteSets

CONSTANTS Types,       \* the kinds of entry the leader proposes
          MaxLog,      \* bound: length of the raft log
          MaxCrashes   \* bound: crashes

DataTypes == {"Write", "IngestSst"}
RegionTypes == {"Split", "RemoveSelf"}
AllTypes == DataTypes \cup RegionTypes \cup {"CompactLog", "Hash", "Empty"}

ASSUME TypesAssumption == Types \subseteq AllTypes
ASSUME BoundsAssumption == MaxLog \in Nat /\ MaxCrashes \in Nat

VARIABLES
  log,                 \* committed entries; version is the region's before each
  applied_index,       \* apply_state of the delegate
  truncated,           \* apply_state.truncated_state.index
  version,             \* region epoch of the delegate
  pending_remove,      \* the delegate executed the removal of this peer
  has_pending_ssts,    \* an ingest command was executed since the last write
  pc,                  \* where the apply worker is
  wb,                  \* what the kv write batch holds
  sync_log_hint,
  ending,              \* the write is the one that ends the poll
  timer,               \* something was applied in this poll
  compacted,           \* apply_res holds a CompactLog result
  mailbox,             \* apply results on their way to the peer FSM
  kv, kv_synced,       \* the metadata as written, and as of the last sync
  es, es_disk,         \* the region in the engine-store: memory, persisted
  ssts,                \* SST files, by the index of the entry that names them
  delete_ssts,         \* to delete after the next write
  pending_delete_ssts, \* held by the forwarder
  meta_version,        \* region epoch in the store's meta
  destroyed,           \* the peer FSM destroyed the peer
  gc_task,             \* scheduled raft log gc: entries below it
  raft_first,          \* first entry of the raft log
  panicked,
  crashes

delegateVars == <<applied_index, truncated, version, pending_remove,
                  has_pending_ssts>>
ctxVars == <<pc, wb, sync_log_hint, ending, timer, compacted>>
kvVars == <<kv, kv_synced>>
esVars == <<es, es_disk>>
sstVars == <<ssts, delete_ssts, pending_delete_ssts>>
peerVars == <<mailbox, meta_version, destroyed, gc_task, raft_first>>
vars == <<log, delegateVars, ctxVars, kvVars, esVars, sstVars, peerVars,
          panicked, crashes>>

Index == 0 .. MaxLog
Entries == [type : AllTypes, epoch : Index, version : Index, compact_index : Index]
Meta == [applied : Index, truncated : Index, version : Index, tombstone : BOOLEAN]
Region == [exists : BOOLEAN, applied : Index, version : Index, data : SUBSET Index]
Result == [full : BOOLEAN, version : Index, compact_to : 0 .. MaxLog + 1,
           removed : BOOLEAN]

TypeOK ==
  /\ log \in Seq(Entries) /\ Len(log) <= MaxLog
  /\ applied_index \in Index /\ truncated \in Index /\ version \in Index
  /\ pending_remove \in BOOLEAN /\ has_pending_ssts \in BOOLEAN
  /\ pc \in {"idle", "write", "delete", "notify"}
  /\ wb \subseteq {"apply_state", "region_state"}
  /\ sync_log_hint \in BOOLEAN /\ ending \in BOOLEAN /\ timer \in BOOLEAN
  /\ compacted \in BOOLEAN
  /\ mailbox \in Result
  /\ kv \in Meta /\ kv_synced \in Meta
  /\ es \in Region /\ es_disk \in Region
  /\ ssts \subseteq Index /\ delete_ssts \subseteq Index
  /\ pending_delete_ssts \subseteq Index
  /\ meta_version \in Index /\ destroyed \in BOOLEAN
  /\ gc_task \in 0 .. MaxLog + 1 /\ raft_first \in 1 .. MaxLog + 1
  /\ panicked \in BOOLEAN /\ crashes \in 0 .. MaxCrashes

NoResult == [full |-> FALSE, version |-> 0, compact_to |-> 0, removed |-> FALSE]
NewMeta == [applied |-> 0, truncated |-> 0, version |-> 0, tombstone |-> FALSE]
NewRegion == [exists |-> TRUE, applied |-> 0, version |-> 0, data |-> {}]

Init ==
  /\ log = << >>
  /\ applied_index = 0 /\ truncated = 0 /\ version = 0
  /\ pending_remove = FALSE /\ has_pending_ssts = FALSE
  /\ pc = "idle" /\ wb = {} /\ sync_log_hint = FALSE /\ ending = FALSE
  /\ timer = FALSE /\ compacted = FALSE
  /\ mailbox = NoResult
  /\ kv = NewMeta /\ kv_synced = NewMeta
  /\ es = NewRegion /\ es_disk = NewRegion
  /\ ssts = {} /\ delete_ssts = {} /\ pending_delete_ssts = {}
  /\ meta_version = 0 /\ destroyed = FALSE
  /\ gc_task = 0 /\ raft_first = 1
  /\ panicked = FALSE /\ crashes = 0
-----------------------------------------------------------------------------
\* What the committed log means, whoever applies it.

\* The entry was proposed at the epoch the region has when it is applied.
Accepted(e) == e.epoch = e.version

\* The epoch of the region after the first n entries of l.
VersionAfter(l, n) ==
  IF n = 0 THEN 0
  ELSE IF l[n].type = "Split" /\ Accepted(l[n])
       THEN l[n].version + 1 ELSE l[n].version

\* The data of the region after the first n entries of l.
DataAfter(l, n) == {i \in 1 .. n : l[i].type \in DataTypes /\ Accepted(l[i])}

\* The leader proposes an entry, at its epoch or, before it saw the last split,
\* at an older one.  A file an ingest command names was uploaded before.
Propose ==
  /\ Len(log) < MaxLog
  /\ LET v == VersionAfter(log, Len(log)) IN
     \E t \in Types, e \in {v, v - 1} \cap Index, c \in 0 .. Len(log) :
       /\ (t = "CompactLog") <=> (c > 0)
       /\ e # v => t \in DataTypes \cup RegionTypes
       /\ log' = Append(log, [type |-> t, epoch |-> e, version |-> v,
                              compact_index |-> c])
       /\ ssts' = IF t = "IngestSst" THEN ssts \cup {Len(log) + 1} ELSE ssts
  /\ UNCHANGED <<delegateVars, ctxVars, kvVars, esVars, delete_ssts,
                 pending_delete_ssts, peerVars, panicked, crashes>>
-----------------------------------------------------------------------------
\* The engine-store, from how the forwarder uses it.

\* A command with an index it has seen is obsolete and ignored.
EsApply(i, data, ver) ==
  IF es.exists /\ i > es.applied
  THEN [es EXCEPT !.applied = i, !.data = @ \cup data, !.version = ver]
  ELSE es

\* It persists before it answers Persist.
EsAnswer(region, answer) ==
  /\ es' = region
  /\ es_disk' = IF answer = "Persist" THEN region ELSE es_disk

\* A write may be kept in memory.  Assumed of the engine-store: an admin command
\* that is executed is persisted (for CompactLog, by the try_flush_data that let
\* it through).  post_exec_admin accepts None, but a region state written without
\* its apply state would make the replay of a Split fail its epoch check.
WriteAnswers == IF es.exists THEN {"None", "Persist"} ELSE {"NotFound"}
AdminAnswers == IF es.exists THEN {"Persist"} ELSE {"NotFound"}

\* It also persists a region on its own.
EsFlush ==
  /\ ~panicked /\ es.exists /\ es_disk # es
  /\ es_disk' = es
  /\ UNCHANGED <<log, delegateVars, ctxVars, kvVars, es, sstVars, peerVars,
                 panicked, crashes>>
-----------------------------------------------------------------------------
\* The apply worker: handle_raft_committed_entries, one entry at a time.

I == applied_index + 1
Entry == log[I]

CanApply ==
  /\ ~panicked /\ ~pending_remove /\ pc = "idle"
  /\ I \in raft_first .. Len(log)

\* An ingest command makes the next command wait for the end of the poll.
CanProcess == CanApply /\ Entry.type # "Empty" /\ ~has_pending_ssts

\* check_region_epoch, in exec_raft_cmd.
EpochNotMatch == Entry.type \in DataTypes \cup RegionTypes /\ Entry.epoch # version

\* The end of process_raft_cmd: if the observer asks for it the apply state is
\* put into the write batch, which is then written before the next entry.
Finish(should_write, batch) ==
  /\ applied_index' = I /\ timer' = TRUE
  /\ wb' = wb \cup batch \cup (IF should_write THEN {"apply_state"} ELSE {})
  /\ pc' = IF should_write THEN "write" ELSE "idle"
  /\ ending' = FALSE

\* Fault: an ingest command is not synced.
ShouldSyncLogAdmin == Entry.type \notin {"CompactLog", "Write", "IngestSst"}

\* should_sync_log
ShouldSyncLog == Entry.type \notin {"CompactLog", "Write"}

\* Fault: the apply state is written whatever the engine-store answers.
ForwardWriteAlways(data, writes) ==
  /\ \E answer \in WriteAnswers :
       /\ EsAnswer(EsApply(I, data, version), answer)
       /\ Finish(TRUE, {})
  /\ sync_log_hint' = (sync_log_hint \/ ShouldSyncLog)
  /\ UNCHANGED <<log, truncated, version, pending_remove, has_pending_ssts,
                 compacted, kvVars, delete_ssts, pending_delete_ssts, peerVars,
                 panicked, crashes>>

\* A command that leaves the region as it is, forwarded as a write of data:
\* a write, a filtered admin command or, handle_error_apply, a failed command.
\* The apply state is written on one of the given answers.
ForwardWrite(data, writes) ==
  /\ \E answer \in WriteAnswers :
       /\ EsAnswer(EsApply(I, data, version), answer)
       /\ Finish(answer \in writes, {})
  /\ sync_log_hint' = (sync_log_hint \/ ShouldSyncLog)
  /\ UNCHANGED <<log, truncated, version, pending_remove, has_pending_ssts,
                 compacted, kvVars, delete_ssts, pending_delete_ssts, peerVars,
                 panicked, crashes>>

\* An entry without data; its answer is ignored.
OnEmptyCmd ==
  /\ CanApply /\ Entry.type = "Empty"
  /\ \E answer \in WriteAnswers : EsAnswer(EsApply(I, {}, version), answer)
  /\ Finish(FALSE, {})
  /\ UNCHANGED <<log, truncated, version, pending_remove, has_pending_ssts,
                 sync_log_hint, compacted, kvVars, sstVars, peerVars, panicked,
                 crashes>>

\* If it is check_sst_for_ingestion that fails, and not the epoch in the header of
\* the command, the file is deleted at once.
HandleErrorApply ==
  /\ CanProcess /\ EpochNotMatch
  /\ ForwardWrite({}, {"Persist"})
  /\ ssts' \in {ssts, IF Entry.type = "IngestSst" THEN ssts \ {I} ELSE ssts}

ExecWriteCmd ==
  /\ CanProcess /\ Entry.type = "Write" /\ ~EpochNotMatch
  /\ ForwardWrite({I}, {"Persist"})
  /\ UNCHANGED ssts

\* ComputeHash, VerifyHash and TransferLeader.  post_exec_admin also writes when
\* the engine-store does not know the region.
FilterAdmin ==
  /\ CanProcess /\ Entry.type = "Hash"
  /\ ForwardWrite({}, {"Persist", "NotFound"})
  /\ UNCHANGED ssts

\* try_flush_data refused.
FilterCompactLog ==
  /\ CanProcess /\ Entry.type = "CompactLog" /\ es.exists
  /\ ForwardWrite({}, {"Persist", "NotFound"})
  /\ UNCHANGED ssts

\* exec_compact_log after a successful try_flush_data.  compact_raft_log refuses
\* a compact index beyond the applied one; no leader proposes such a one.
ExecCompactLog ==
  /\ CanProcess /\ Entry.type = "CompactLog"
  /\ LET compact == Entry.compact_index > truncated + 1 IN
     /\ compact => Entry.compact_index <= applied_index
     /\ truncated' = IF compact THEN Entry.compact_index ELSE truncated
     /\ compacted' = (compacted \/ compact)
  /\ \E answer \in AdminAnswers : EsAnswer(EsApply(I, {}, version), answer)
  /\ Finish(TRUE, {})
  /\ sync_log_hint' = (sync_log_hint \/ ShouldSyncLog)
  /\ UNCHANGED <<log, version, pending_remove, has_pending_ssts, kvVars,
                 sstVars, peerVars, panicked, crashes>>

\* Fault: the file is released although the engine-store answered None.
ExecIngestSstRelease ==
  /\ CanProcess /\ Entry.type = "IngestSst" /\ ~EpochNotMatch
  /\ panicked' = (I \notin ssts)
  /\ \E answer \in WriteAnswers :
       /\ EsAnswer(EsApply(I, {I}, version), answer)
       /\ Finish(answer # "None", {})
       /\ delete_ssts' = delete_ssts \cup pending_delete_ssts \cup {I}
       /\ pending_delete_ssts' = {}
  /\ has_pending_ssts' = TRUE
  /\ sync_log_hint' = (sync_log_hint \/ ShouldSyncLog)
  /\ UNCHANGED <<log, truncated, version, pending_remove, compacted, kvVars,
                 ssts, peerVars, crashes>>

\* exec_ingest_sst: validate panics if the file is gone (nothing happens after a
\* panic).  The file is held back while the engine-store has not persisted the
\* data, and released, with those held back before, once it has.
ExecIngestSst ==
  /\ CanProcess /\ Entry.type = "IngestSst" /\ ~EpochNotMatch
  /\ panicked' = (I \notin ssts)
  /\ \E answer \in WriteAnswers :
       /\ EsAnswer(EsApply(I, {I}, version), answer)
       /\ Finish(answer # "None", {})
       /\ IF answer = "None"
          THEN /\ pending_delete_ssts' = pending_delete_ssts \cup {I}
               /\ UNCHANGED delete_ssts
          ELSE /\ delete_ssts' = delete_ssts \cup pending_delete_ssts \cup {I}
               /\ pending_delete_ssts' = {}
  /\ has_pending_ssts' = TRUE
  /\ sync_log_hint' = (sync_log_hint \/ ShouldSyncLog)
  /\ UNCHANGED <<log, truncated, version, pending_remove, compacted, kvVars,
                 ssts, peerVars, crashes>>

\* exec_split and the other admin commands that change the region: the region
\* state is in the same write batch as the apply state.
ExecSplit ==
  /\ CanProcess /\ Entry.type = "Split" /\ ~EpochNotMatch
  /\ version' = version + 1
  /\ \E answer \in AdminAnswers :
       EsAnswer(EsApply(I, {}, version + 1), answer)
  /\ Finish(TRUE, {"region_state"})
  /\ sync_log_hint' = (sync_log_hint \/ ShouldSyncLog)
  /\ UNCHANGED <<log, truncated, pending_remove, has_pending_ssts, compacted,
                 kvVars, sstVars, peerVars, panicked, crashes>>

\* exec_change_peer removes this very peer: the apply state is not written, the
\* Tombstone waits for the end of the poll.
ExecRemoveSelf ==
  /\ CanProcess /\ Entry.type = "RemoveSelf" /\ ~EpochNotMatch
  /\ pending_remove' = TRUE
  /\ es' = [es EXCEPT !.exists = FALSE]
  /\ \E durable \in BOOLEAN :
       es_disk' = IF durable THEN [es_disk EXCEPT !.exists = FALSE] ELSE es_disk
  /\ Finish(FALSE, {"region_state"})
  /\ sync_log_hint' = (sync_log_hint \/ ShouldSyncLog)
  /\ UNCHANGED <<log, truncated, version, has_pending_ssts, compacted, kvVars,
                 sstVars, peerVars, panicked, crashes>>

\* ApplyPoller::end: flush the context.
EndPoll ==
  /\ ~panicked /\ pc = "idle" /\ timer
  /\ pc' = "write" /\ ending' = TRUE /\ timer' = FALSE
  /\ UNCHANGED <<log, delegateVars, wb, sync_log_hint, compacted, kvVars, esVars,
                 sstVars, peerVars, panicked, crashes>>

\* What write_to_db leaves in kv.
Written ==
  [applied |-> IF "apply_state" \in wb THEN applied_index ELSE kv.applied,
   truncated |-> IF "apply_state" \in wb THEN truncated ELSE kv.truncated,
   version |-> IF "region_state" \in wb THEN version ELSE kv.version,
   tombstone |-> kv.tombstone \/ ("region_state" \in wb /\ pending_remove)]

WriteToDb ==
  /\ ~panicked /\ pc = "write"
  /\ kv' = Written
  /\ kv_synced' = IF wb # {} /\ sync_log_hint THEN Written ELSE kv_synced
  /\ sync_log_hint' = (sync_log_hint /\ wb = {})
  /\ wb' = {} /\ pc' = "delete"
  /\ UNCHANGED <<log, delegateVars, ending, timer, compacted, esVars, sstVars,
                 peerVars, panicked, crashes>>

\* Fault: has_pending_ssts is not reset.
DeleteSstsPending ==
  /\ ~panicked /\ pc = "delete"
  /\ ssts' = ssts \ delete_ssts /\ delete_ssts' = {}
  /\ UNCHANGED has_pending_ssts
  /\ pc' = IF ending THEN "notify" ELSE "idle"
  /\ UNCHANGED <<log, applied_index, truncated, version, pending_remove, wb,
                 sync_log_hint, ending, timer, compacted, kvVars, esVars,
                 pending_delete_ssts, peerVars, panicked, crashes>>

\* The rest of write_to_db, and of commit_opt or of ApplyPoller::end.
DeleteSsts ==
  /\ ~panicked /\ pc = "delete"
  /\ ssts' = ssts \ delete_ssts /\ delete_ssts' = {}
  /\ has_pending_ssts' = FALSE
  /\ pc' = IF ending THEN "notify" ELSE "idle"
  /\ UNCHANGED <<log, applied_index, truncated, version, pending_remove, wb,
                 sync_log_hint, ending, timer, compacted, kvVars, esVars,
                 pending_delete_ssts, peerVars, panicked, crashes>>

Notify ==
  /\ ~panicked /\ pc = "notify"
  /\ mailbox' = [full |-> TRUE, version |-> version,
                 compact_to |-> IF compacted THEN truncated + 1
                                ELSE mailbox.compact_to,
                 removed |-> pending_remove]
  /\ compacted' = FALSE /\ ending' = FALSE /\ pc' = "idle"
  /\ UNCHANGED <<log, delegateVars, wb, sync_log_hint, timer, kvVars, esVars,
                 sstVars, meta_version, destroyed, gc_task, raft_first, panicked,
                 crashes>>
-----------------------------------------------------------------------------
\* The other threads.

\* The peer FSM handles the results: on_ready_compact_log schedules the gc of the
\* raft log, a new region goes to the store's meta, a removed peer is destroyed.
OnApplyRes ==
  /\ ~panicked /\ mailbox.full
  /\ mailbox' = NoResult
  /\ meta_version' = mailbox.version
  /\ gc_task' = IF mailbox.compact_to # 0 THEN mailbox.compact_to ELSE gc_task
  /\ destroyed' = mailbox.removed
  /\ es' = [es EXCEPT !.exists = @ /\ ~mailbox.removed]
  /\ es_disk' = [es_disk EXCEPT !.exists = @ /\ ~mailbox.removed]
  /\ UNCHANGED <<log, delegateVars, ctxVars, kvVars, sstVars, raft_first,
                 panicked, crashes>>

\* Fault: kv is not synced before the entries are dropped.
RaftLogGcUnsynced ==
  /\ ~panicked /\ gc_task # 0
  /\ UNCHANGED kv_synced
  /\ raft_first' = IF gc_task > raft_first THEN gc_task ELSE raft_first
  /\ gc_task' = 0
  /\ UNCHANGED <<log, delegateVars, ctxVars, kv, esVars, sstVars, mailbox,
                 meta_version, destroyed, panicked, crashes>>

\* The raft log gc worker: sync kv, then drop the entries.
RaftLogGc ==
  /\ ~panicked /\ gc_task # 0
  /\ kv_synced' = kv
  /\ raft_first' = IF gc_task > raft_first THEN gc_task ELSE raft_first
  /\ gc_task' = 0
  /\ UNCHANGED <<log, delegateVars, ctxVars, kv, esVars, sstVars, mailbox,
                 meta_version, destroyed, panicked, crashes>>

\* on_cleanup_import_sst: delete the files whose epoch is stale in the meta.
CleanupImportSst ==
  /\ ~panicked /\ ~destroyed
  /\ \E i \in ssts : log[i].epoch < meta_version /\ ssts' = ssts \ {i}
  /\ UNCHANGED <<log, delegateVars, ctxVars, kvVars, esVars, delete_ssts,
                 pending_delete_ssts, peerVars, panicked, crashes>>

\* Proxy and engine-store run in one process.  What was not synced may be lost.
Restart ==
  /\ crashes < MaxCrashes /\ ~panicked
  /\ crashes' = crashes + 1
  /\ kv' \in {kv, kv_synced} /\ kv_synced' = kv'
  /\ es' = es_disk
  /\ applied_index' = kv'.applied /\ truncated' = kv'.truncated
  /\ version' = kv'.version
  /\ pending_remove' = kv'.tombstone /\ destroyed' = kv'.tombstone
  /\ has_pending_ssts' = FALSE
  /\ pc' = "idle" /\ wb' = {} /\ sync_log_hint' = FALSE /\ ending' = FALSE
  /\ timer' = FALSE /\ compacted' = FALSE
  /\ delete_ssts' = {} /\ pending_delete_ssts' = {}
  /\ mailbox' = NoResult /\ meta_version' = kv'.version /\ gc_task' = 0
  /\ UNCHANGED <<log, es_disk, ssts, raft_first, panicked>>

Apply ==
  \/ OnEmptyCmd \/ HandleErrorApply \/ ExecWriteCmd \/ FilterAdmin
  \/ FilterCompactLog \/ ExecCompactLog
  \/ ExecIngestSst \/ ExecSplit \/ ExecRemoveSelf

Next ==
  \/ Propose \/ EsFlush \/ Apply
  \/ EndPoll \/ WriteToDb \/ DeleteSsts \/ Notify
  \/ OnApplyRes \/ RaftLogGc \/ CleanupImportSst
  \/ Restart

Spec == Init /\ [][Next]_vars

\* The apply worker, the peer and their threads keep running while any of them has
\* work; which of them goes first is left open.
Fairness ==
  WF_vars(Apply \/ EndPoll \/ WriteToDb \/ DeleteSsts \/ Notify \/ OnApplyRes)

LiveSpec == Spec /\ Fairness
-----------------------------------------------------------------------------
\* The engine-store is never behind the metadata: what write_to_db declares
\* applied is persisted in the engine-store, so that a crash between the two
\* loses nothing.
NoGap == es_disk.exists => kv.applied <= es_disk.applied

\* The raft log still has every entry that a restart replays, even one after a
\* power failure that takes kv back to what was last synced.
LogKept == raft_first <= kv_synced.applied + 1

\* Every SST file that a replay will ingest is there: neither write_to_db nor the
\* cleanup of files with a stale epoch deleted it too early.
SstKept ==
  \A i \in kv_synced.applied + 1 .. Len(log) :
    log[i].type = "IngestSst" /\ Accepted(log[i]) => i \in ssts

\* handle_ingest_sst never meets a missing file.
NoPanic == ~panicked

\* The engine-store has exactly the data and the epoch of a prefix of the log,
\* in memory and on disk, although entries are replayed after a restart and
\* some of them are filtered or rejected.
ExactlyOnce ==
  \A r \in {es, es_disk} :
    r.exists => /\ r.data = DataAfter(log, r.applied)
                /\ r.version = VersionAfter(log, r.applied)

\* The region the proxy checks epochs against is the one of its applied index:
\* a replayed entry is accepted or rejected as it was the first time.
EpochIsCurrent ==
  /\ version = VersionAfter(log, applied_index)
  /\ \A m \in {kv, kv_synced} : m.version = VersionAfter(log, m.applied)

\* Replica!Spec: the engine-store is a replica that applies the committed entries
\* one by one, each exactly once, and that a crash takes back to what it had
\* persisted; what the proxy replays is a stutter.
Replica == INSTANCE LogReplica WITH region <- es, durable <- es_disk

ImplementsReplica == Replica!Spec

\* post_exec_query on an ingest command that is answered None: "Since returning
\* None will cause no persistence of advanced apply index, So in a recovery, we can
\* replay ingestion in `pending_delete_ssts`, thus leaving no un-tracked sst files".
HeldSstsAreReplayed == \A i \in pending_delete_ssts : kv.applied < i

\* Every committed entry gets to the engine-store unless the peer is removed.
EverythingApplied ==
  \A n \in 1 .. MaxLog :
    Len(log) >= n ~> (es.applied >= n \/ ~es.exists \/ pending_remove)
==============================================================================
