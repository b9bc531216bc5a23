# A TLA+ verification of the TiFlash proxy (tidb-engine-ext)

The proxy is a TiKV raftstore whose data lives elsewhere. It takes part in raft
as a learner, keeps the raft log and the metadata of its regions, and forwards
committed commands and snapshots through an FFI to the *engine-store* (TiFlash),
which keeps the data and persists it at moments of its own choosing. Two stores
that fail and persist separately, several threads and a replayed log must add up
to one correct replica. That is what this project is about.

PROJECT.json lists the components, the runs, the map from definitions to source
lines, the mutants, the hazards, the findings and the theorems. This file
explains them.

## 1. The system

| part | source | module |
|---|---|---|
| snapshot application and pre-handling | `proxy_components/engine_store_ffi/src/core/forward_raft/snapshot.rs`, `raftstore/src/store/{worker/region,peer_storage,peer,fsm/peer}.rs` | `SnapshotPrehandle` |
| fast add peer (FAP) | `engine_store_ffi/src/core/fast_add_peer.rs`, `forward_raft/fap_snapshot.rs`, `engine_tiflash/src/proxy_utils/cached_region_info_manager.rs` | `FastAddPeer` |
| raft command forwarding and apply persistence | `forward_raft/command.rs`, `raftstore/src/store/fsm/apply.rs`, SST cleanup, raft log gc | `ApplyPersist`, with `LogReplica` as its abstract specification |
| raft log storage and asynchronous writes | `raftstore/src/store/{entry_storage,async_io/write,peer,peer_storage}.rs`, `engine_tiflash/src/ps_engine/ps_log_engine.rs` | `RaftLogStore` |
| FSMs, mailboxes, router and poll threads | `batch-system/src/{fsm,mailbox,router,scheduler,batch}.rs`, `tikv_util/src/mpsc/mod.rs`, `raftstore/src/store/worker/refresh_config.rs` | `BatchSystem`, with `FsmState` as the abstract specification of one mailbox |
| region merge | `raftstore/src/store/{fsm/apply,fsm/peer,peer,peer_storage}.rs`, `forward_raft/command.rs` | `RegionMerge` |
| everything else | see section 10 and the components of PROJECT.json | not modelled |

How they interact. A region's *peer FSM* handles raft readies. Entries go to the
*write worker* and, once committed and persisted, to the *apply worker*, which
calls the forwarder's `pre_exec`/`post_exec` hooks, which call the engine-store.
A ready with a snapshot is persisted the same way; then an Apply job goes to the
single *region worker*, which lets a pool pre-handle several snapshots at once and
installs them in order. A new learner may skip the leader's snapshot: the
forwarder asks the engine-store to fetch the data from another engine-store and
sends the peer a fake, empty snapshot at the same index.

The modules share no variables. They meet at the following interfaces, where each
takes the other's promise as its environment:

* `RaftLogStore` delivers committed entries in order, and entries after a restart
  are those before it (`AppliesCommitted`, `DiskLogWhole`). `ApplyPersist` starts
  from that: its `log` only grows and is replayed from the applied index.
* `ApplyPersist!LogKept` is what `RaftLogStore!RaftLogGc` assumes when it compacts
  up to a truncated index.
* `BatchSystem` is what runs all of them: a peer, an apply delegate and the store are
  FSMs that one thread at a time polls (`SingleHolder`), and a message sent to one is
  taken (`MessagesTaken`). The other modules take both for granted when they make a
  handler's step atomic and its fairness weak.
* `RegionMerge` takes one replica's behaviour from `ApplyPersist` (an admin command is
  persisted by the engine-store before kv is written, writes are replayed) and one
  snapshot's from `SnapshotPrehandle`, each as one step, and is about what happens
  between two regions.
* `SnapshotPrehandle` treats Apply jobs in full detail with FAP switched off;
  `FastAddPeer` treats one region and one job at a time, with FAP in full detail.

## 2. SnapshotPrehandle

State: per region the peer (`peer`, `snap_state`, `snap_ctx`, `job`), the disk
(`region_state`, `truncated`), the engine-store (`kvstore`); per job the shared
atomic `status` and its pre-handle task (`task`, `task_key`); for the worker its
`channel`, `pending_applies` and program counter `pc`; for the forwarder its
`tracer` (`pre_handle_snapshot_ctx`) and `pending_applies_count`.

| actions | code |
|---|---|
| `CreatePeer`, `PersistSnapshotMeta`, `ScheduleApplyingSnapshot`, `CheckSnapStatus` | peer FSM up to `check_applying_snap` |
| `MaybeDestroyIdle`, `CancelPending`, `CancelRunning`, `CancelEnded`, `ObserveDestroy`, `PersistTombstone` | `maybe_destroy`, `cancel_applying_snap` (two compare-exchanges), `destroy` |
| `RunApply`, `OnTimeout`, `LeaveLoop`, `HandleApply` | `Runner::run`, `on_timeout`, `handle_pending_applies` |
| `ApplySnapBegin/Abort/Error/Data`, `PostApplySnapshot`, `RecvPrehandled`, `RecvError`, `RetryPrehandle`, `WriteNormalState`, `FinishApply`, `CancelWithoutTask`, `CancelTakesTask`, `CancelRecv` | `handle_apply`, `apply_snap`, `post_apply_snapshot`, `cancel_apply_snapshot` |
| `PrehandleDone`, `StopPool`, `Restart` | the pool's future, its end, and `StoreFsm::init` |

Everything a thread does between two accesses to shared state is one step; the
status, the tracer and the channels are shared, so the cancellation can hit between
any two `check_abort`s.

Safety: a Normal region has exactly its snapshot in the engine-store
(`NormalMeansInstalled`); a destroyed region is not written by a late job
(`NoDataAfterDestroy`); no snapshot consumes the pre-handle result of another
(`NoMismatchedPrehandle`); the pool's counter is exact (`PendingCountExact`);
snapshots are installed forward (`InstallsForward`, an action property). That the
assertion in `handle_apply` holds (`AbortedJobIsCancelling`) and the types (`TypeOK`)
are proved and not run. Liveness: `ApplyingEnds`, a peer never waits for ever.

Runs: `snapshot_one` has one region with three snapshots, three jobs and two
crashes (a job, its replacement and a third one after a destroy or a restart, which
is what it takes to confuse a task with its predecessor; 323,577 states).
A snapshot whose job was aborted leaves the region Applying on disk while raft may hand
the peer the next one; a restart in between resumes the aborted one first, and the next
one is then installed after it (`PersistSnapshotMeta` asks what the peer knows, not what
the disk says). `snapshot_live` has two
regions that share the worker and a pool with room for one task, so that
`can_apply_snapshot` really makes one of them wait; one job each.

Fairness (`FairSpec`): weak for the worker's steps, the pool's futures, the timer
and the peer's poll of the status: each is a thread or a timer that runs. Strong
for `HandleApply` only: `ingest_maybe_stall` may send the worker away from the head
of its loop, and level 0 of the kv engine is eventually compacted.

## 3. FastAddPeer

One region. `cached` is the `CachedRegionInfo` (or `Vacant`), `fap` the index of the
FAP snapshot the engine-store has persisted, `net` the snapshots on their way,
`accepted` the one raft has taken and the write worker has not written yet, `tick[t]`
where a thread is in `maybe_fast_path_tick` or, for the peer FSM's, in `destroy_peer`.
`Tickers` says which threads run that hook to its end: the peer FSM's and, for messages
routed before the peer existed, the store FSM's. `fap_one` has both.

| actions | code |
|---|---|
| `Tick`, `FapWait`, `FapOk`, `FapError`, `FallbackClear`, `FallbackToSlowPath`, `BuildError`, `SendRegionNotFound`, `SendFake`, `SetSnapshotInflight`, `TickAbsent` | `maybe_fast_path_tick`, the FFI call `fast_add_peer` and `build_and_send_snapshot` |
| `RecvSnapshot`, `PersistSnapshot` | `snapshot_filter` (`FilterRejects`) and raft's acceptance; the Applying state on disk, with `on_region_changed(Create)` |
| `OnRoleChange`, `CreatePeer`, `Restart` | the observer's events and `StoreFsm::init` |
| `HandleDestroy`, `RemoveCachedRegionInfo`, `DestroyPeer` | `destroy_peer` in three steps: the engine-store drops the region, the observer forgets its info, `Peer::destroy` writes the tombstone. A crash between them restarts the peer, and the store FSM's thread sees each of them |
| `PreApplySnapshot`, `PostRegular`, `PostExisting`, `PostNoFap`, `PostFoundFap`, `ApplyFapSnapshot`, `WriteNormal` | `pre_`/`post_apply_snapshot_for_fap_snapshot`, the region worker |
| `LeaderAppend`, `SendRegular`, `LoseSnapshot` | environment |

The engine-store's answers to `fast_add_peer` are external and nondeterministic: wait,
an index, or an error. Three history variables say why a promise may be off: `overtaken`
(a fake snapshot was accepted after another snapshot), `raced` (a fast path on one thread
overlapped with a fast path, a first snapshot or a destroy on the other) and `dropped`
(the engine-store has dropped the region for a destroy that has not reached its
tombstone).

Run `fap_one` (two tickers, two log indexes, one crash; 81,074 states) checks that a fake
snapshot that was accepted first finds its FAP snapshot until the engine-store has the
data, unless `raced` or `dropped` (`FakeIsBacked`); that no panic is reached unless
`raced` (`NoPanicUnlessRaced`); that a Normal region has its index and its data unless
`overtaken`, `raced` or `dropped` (`DataUnlessOrphaned`); and that an added peer is
eventually initialized or destroyed (`PeerIsInitialized`). Two indexes are a fast path and
a regular snapshot past it, or a second fast path after a destroy; the crash may come
between any two steps of a fast path, a destroy or the application of a snapshot.

`PeerIsInitialized` exempts, besides the panic of a race, one state, `FakeLost`: `snapshot_inflight` is set and no
snapshot is on its way, because the fake one was lost, or came before the flag was set and
was rejected. From then on MsgAppends are dropped without an answer, so the leader has no
reason to send a snapshot, and the timeout fallback is off (`FALLBACK_MILLIS` is 0): the
code has no way out but a destroy or a restart. It is listed as a hazard.

Fairness (`LiveSpec`): weak for the hook's calls, the peer's `Tick`, the destroy, the
write and the region worker, since each thread runs on and the leader repeats its
MsgAppends. The leader sends a snapshot only in answer to a rejected MsgAppend, that is,
when the hook lets MsgAppends through (`AnswerRejection`). Strong where an attempt may
fail but not for ever: the engine-store does not answer "wait" for ever (it times the fast
path out itself), the transport finds the region of a peer that exists, and snapshots are
not lost for ever.

The three violation runs of this module are findings, section 9.

## 4. ApplyPersist and LogReplica

One region, its log of committed entries (`Write`, `IngestSst`, `CompactLog`,
`Split`, `RemoveSelf`, `Hash` for ComputeHash and VerifyHash, and `Empty`), the
apply delegate (`applied_index`, `truncated`, `version`, `pending_remove`), the kv
write batch `wb` and the program counter of the apply worker, kv as written (`kv`)
and as last synced (`kv_synced`), the engine-store in memory (`es`) and on disk
(`es_disk`), SST files on disk and the two lists of files to delete, the raft log's
first index, and the mailbox with the apply result.

| actions | code |
|---|---|
| `OnEmptyCmd`, `HandleErrorApply`, `ExecWriteCmd`, `FilterAdmin`, `FilterCompactLog`, `ExecCompactLog`, `ExecIngestSst`, `ExecSplit`, `ExecRemoveSelf` (together `Apply`) | `process_raft_cmd` down to the forwarder's `pre_exec_admin`, `on_empty_cmd`, `post_exec_query`, `post_exec_admin` and the FFI call |
| `EndPoll`, `WriteToDb`, `DeleteSsts`, `Notify` | `ApplyContext::end`/`flush`/`write_to_db`/`commit` |
| `OnApplyRes`, `RaftLogGc`, `CleanupImportSst` | the peer FSM, the log gc worker, the SST cleanup |
| `EsFlush` | external: the engine-store persists when it likes |
| `Restart` | a crash of the process, or a power failure that also takes kv back to `kv_synced` |

`LogReplica` is the promise: a replica that applies the committed entries one by one,
each exactly once, and that a crash takes back to what it had persisted.
`ImplementsReplica` is `LogReplica`'s specification under the mapping
`region <- es, durable <- es_disk`; what the proxy replays after a restart is a
stutter.

Run `apply_all` (all kinds of entry, logs of three, two crashes) checks `NoGap`,
`LogKept`, `SstKept`, `NoPanic`, the refinement and the liveness property
`EverythingApplied`; `TypeOK`, `ExactlyOnce` (an entry takes effect once) and
`EpochIsCurrent` (no copy of the region is stale) are proved and not run. Logs of three
hold an ingest, a command that persists past it and a split that makes the epoch stale;
two crashes replay a replay (246,473 states).

The engine-store's answers are external. A region it knows is answered Persist or None,
any other one NotFound; a filtered admin command writes its apply state on Persist and on
NotFound, a write on Persist only. Of an executed admin command the model assumes
that the answer is never None (`AdminAnswers`). The code says so for CompactLog ("Formal
code should never return None for CompactLog now"), and for the others it relies on it: a
None would leave the new region state in the write batch without its apply state, and a
replayed split would fail its epoch check. The epoch theorem and the refinement rest on
this assumption.

Fairness (`LiveSpec`): the apply worker and the peer keep working while one
of them has work; nothing is assumed of the leader, the flushes, gc or cleanup.

## 5. RaftLogStore

One peer. `raft` is raft-rs' view of the log (external, modelled from how the
raftstore drives it), `cache`/`cpersisted`/`trace` the `EntryCache`, `readies` the
unpersisted readies, and the rest the write worker's queue and batch, its
notifications, the raft engine and kv on disk, the apply thread, the gc tasks and the
state of a destroy. An entry is its term.

| actions | code |
|---|---|
| `ReadyAppend`, `ReadyCommit`, `ReadyCommitted`, `ReadySnapshot` | `handle_raft_ready_append`, `EntryStorage::append`, `handle_raft_committed_entries`, `apply_snapshot` |
| `AddWriteTask`, `WriteKv`, `WriteRaft`, `NotifyPersisted` | the write worker: `WriteTaskBatch` with its splitting, `write_to_db`, the notification of the last ready of a region |
| `OnPersistReady`, `WriteNormal`, `CheckSnapStatus` | `on_persist_ready`, the region worker's Normal state, `check_applying_snap` |
| `ApplyEntries`, `OnApplyRes`, `RaftLogGc` | the apply thread, cache compaction, `PSLogEngine::gc` |
| `StartDestroy`, `DelayDestroy`, `DestroyKv`, `DestroyRaft`, `Recreate` | `destroy_peer`, with readies still being written, and a new peer of the region |
| `Restart` | crash at any point, `recover_from_applying_state`, `validate_states` |

Run `log_all` (indexes up to 3, terms up to 2, three readies, one crash, destroys;
564,547 states) checks that what is acknowledged is on disk (`PersistedOnDisk`), that a read of the
log returns the log whatever the writer, gc and the cache have done (`ReadsRight`),
that what was given to the apply thread stays in the log (`AppliesCommitted`), that
the disk holds a whole log after each raft write batch, with its indexes in order
(`DiskLogWhole`), that a restart accepts it (`validate_states`, and the term of the
applied entry that `init_applied_term` reads) and that each notification is about a ready
the peer still has (the panics of `on_persist_ready`), both `NoPanic`, and that no ready waits for a notification that will not come (`NoReadyForgotten`). Three
readies are an append, an overwrite by a new leader and a commit or a snapshot, all
under way at once. Cache eviction under memory pressure is off in `log_all`
(`MemoryHigh = FALSE`) and on in `log_evict`, a finding.

Assumptions about the environment: a conflicting append carries a term above the
peer's; entries do not bring back, at the same index and term, an entry of a ready
that is still being persisted (the listed hazard at `peer.rs:3326`); writes to kv are
durable at once here (power failures are `ApplyPersist`'s subject); `Destroy` starts
with no snapshot in hand (`SnapshotPrehandle` covers the other case).

## 6. BatchSystem and FsmState

Normal FSMs `Fsms` and the control FSM, each with its mailbox: the `status` and the
`data` cell of `FsmState`, the channel (`chan`, `connected`) and whether the FSM has
been freed (`dropped`). `normals` is the router's map, `guard` the lock of an entry of
it, `queue` the scheduler's channel, `op[a]` where an actor is inside a send, a close or
a shutdown, `poll[p]` the locals of `Poller::poll` and of the handler it runs. Every
atomic access to the status, the cell, the channel or the map is a step; everything
between two of them belongs to the one before.

| actions | code |
|---|---|
| `RouterSend`, `TakeHandle`, `ControlSend`, `Check`, `CheckFull`, `ForceSend`, `Push`, `Notify`, `Schedule` | `Router::try_send`/`force_send`/`mailbox`/`send_control`, the sender half of the channel, `FsmState::notify` and `take_fsm` |
| `Register`, `Close`, `Disconnect`, `Clear`, `Free` | `Router::register`/`close`, `BasicMailbox::close`, `FsmState::clear` |
| `Shutdown`, `Sweep`, `SendTokens`, `Decrease`, `Increase` | `broadcast_shutdown`, `ControlScheduler::shutdown`, `PoolController::decrease_by`/`increase_by` |
| `FetchFsm`, `HandleControl`, `HandleNormal`, `TopUp`, `LightEnd`, `End`, `NextRound`, `Exit` | `Poller::poll` and `fetch_fsm`, with hot FSMs rescheduled |
| `Resume`, `Drain`, `HandleOther`, `HandleMerge`, `HandleStop`, `HandleCatchUp`, `HandleDone` | the handlers, for what they do to the batch system: a CommitMerge that waits for its source, the source that wakes it, a destroyed peer |
| `ReleaseData`, `ReleaseStatus`, `ReleaseCheck`, `Retake`, `RetakeData` | `Batch::release`/`remove`, `FsmState::release` |

`FsmState` is the promise of one mailbox for any set of actors: the two-step take,
release and clear, and nothing else. `ImplementsFsmState` says that every mailbox of
`BatchSystem` refines it; what `FsmState` guarantees is proved (section 8).

Run `batch_all` (136,100 states) has two pollers and a third for a pool that grows, two
threads, three FSMs at two addresses (one address
is used twice), channels with a capacity of one, batches of two and two messages a
tick. A workload, chosen in the initial state, says which calls each thread makes; the
twelve of `MCBatchSystem!Scenarios` pair the calls that race with each other, since all
of them at once are out of TLC's reach. It checks that an FSM has exactly one holder
(`SingleHolder`), that no panic of `FsmState` or of the poller is reached (`NoPanic`),
that a destroyed peer handles
what the router had accepted (`AcceptedIsHandled`), that a resize loses no thread
(`PoolSizeExact`), and that messages are taken, merges resumed, closed FSMs freed and
poll threads ended (`MessagesTaken`, `MergeResumes`, `ClosedIsFreed`, `ShutdownEnds`).
`NoPanic` leaves one panic out, the `unwrap` in `Router::force_send` of an address
closed between its two lookups: TLC reaches it for a caller that does not hold the lock
of StoreMeta, under which peers are closed, so it is listed as a hazard that no property
covers.

Fairness: `WF_vars(Work)`, that is, some thread inside a call or some poller with work
runs. Weak fairness of each thread, which the operating system gives, implies it.

Three things the code does without asking are kept as they are: `register` works after
the shutdown, `increase_by` spawns threads while tokens of an earlier `decrease_by` are
still in the queue, and an apply delegate that destroys itself closes whatever mailbox is
at its address, also that of its successor.

Not kept: a mailbox registered behind the iterator of `broadcast_shutdown`, which would
not be closed; an entry of the router's map is locked exclusively where the code's `get`
shares it, so that two lookups of one address do not overlap; the low-priority pool,
`broadcast_normal` and `send_and_register` are left out; a handler yields only for a
merge.

## 7. RegionMerge

A source region S is merged into its neighbour T, on one store. Per region the peer FSM
(`sp`, `tp`), its mailbox as far as the merge uses it (`sbox`, `tbox`), the apply
delegate (`sa`, `ta`) and the raft log on disk (`sdisk`, `tdisk`); shared are StoreMeta
(`meta`: whether S is in `region_ranges`, T's epoch version, `pending_merge_targets` and
`atomic_snap_regions`), the kv engine (`kv`) and the engine-store in memory and on disk
(`es`, `esdisk`; `absorbed` is how far S had applied when T took its data).

Both regions follow a committed log, chosen in the initial state; how much of it the
store has received, what is committed here and whether T jumps ahead with a snapshot is
up to their leaders. `low` is the first entry of S that CommitMerge carries: the leader
of S has seen every peer acknowledge the entries before it.

| actions | code |
|---|---|
| `AppendS`, `ReadyS`, `ApplyS`, `WriteS` | S's raft messages and readies, `exec_prepare_merge`, `exec_rollback_merge`, `ApplyContext::commit` |
| `OnCatchUpLogs`, `OnReadyPrepareMerge`, `OnReadyRollbackMerge`, `LogsUpToDateForMerge` | S catches up, by itself or with the entries of the CommitMerge (`maybe_append_merge_entries`), and stops for T |
| `OnMergeResultLog`, `OnMergeResultStep1`, `OnMergeResultStep2`, `HandleDestroy`, `OnApplyDestroyed`, `OnApplyDestroyedForSnapshot`, `RaftLogGcFlushed`, `OnRegionDestroyed`, `OnRaftLogGcFlushed` | `on_merge_result`, `handle_destroy`, `on_apply_res`, `destroy_peer` with its delay, in two steps: the engine-store drops S, then the tombstone is written |
| `OnMergeTarget` | `need_gc_merge`, `on_stale_merge` |
| `AppendT`, `ReadyT`, `ApplyT`, `WaitMergeSource`, `ExecCommitMerge`, `WriteT`, `OnApplyRes` | T's log, `exec_commit_merge` in two parts, `on_ready_commit_merge` |
| `CheckSnapshot`, `StepSnapshot`, `TakeSnapshot`, `PersistSnapshot`, `OnPersistSnapshot`, `InstallSnapshot`, `FinishSnapshot` | `check_snapshot` and `destroy_regions_for_snapshot` (StoreMeta is unlocked in between), `handle_raft_ready_append`, `apply_snapshot`, `on_ready_persist_snapshot`, the region worker |
| `Restart` | a crash of the process and `StoreFsm::init` |

Run `merge_all` checks that none of the assertions of the merge code fails (`NoPanic`);
that a T past its merge has taken no less than S's log up to the PrepareMerge
(`MergedWhole`; empty entries of new leaders may follow it in S and come along); that until
what replaces S is on disk (`Replaced`) a crash finds no tombstone and S's data in the
engine-store as far as S's apply state says, or already in T (`SourceKept`); that the two
regions never share a range in StoreMeta and that no S is left outside it for ever
(`RangesDisjoint`); and that the merge ends, with T at the end of its log and S gone,
whether or not S's leader is ever heard of again (`MergeFinishes`).

The histories of `MCRegionMerge!ThreeHistories` are a merge after a split of T whose
CommitMerge was proposed twice (the second one must be rejected), a merge that is rolled
back while a CommitMerge with a stale epoch is in T's log and that is then repeated, and
a merge with an empty entry behind the PrepareMerge, after which T gives S's range away
again, so that T never meets S (309,324 states together). Two crashes, anywhere, also
between the two steps of a destroy: the second one hits the replay after the first. Writes to kv survive (power
failures are `ApplyPersist`'s subject).

Fairness: `WF_vars(Work)`, that is, the store does not stop while a peer or a delegate
has work or T's leader has something to send. T's leader repeats its appends until they
are acknowledged, and a stale S asks for its merge target again and again. Nothing is
assumed of S's leader, of snapshots and of crashes.

Not kept: the leader's side of a merge (`on_check_merge`, the votes for a rollback), conf
changes, witnesses, a target that is destroyed or replaced, the `RegionOverlapped` hint,
and readies that are still being persisted (`RaftLogStore`).

## 8. What is proved

TLAPS checks the following for every value of the constants: any finite set of
regions, any bound on jobs, indexes, log and crashes, and every choice of entry types.
Each rests on the named ASSUMEs of the module. They type the constants, except
`MergeAssumption` of `RegionMerge`, which says what logs the two regions may have (below).

`SnapshotPrehandlePeers` and `SnapshotPrehandleProofs`: `TypeCorrect`,
`InstalledWhenNormal`, `DestroyedStaysEmpty`, `PrehandleMatches`,
`AbortAssertionHolds`, `PoolCounterExact` and the action property `InstalledInOrder`.
None of these properties is inductive alone. The inductive
invariant `IInv` adds

* `DiskInv`: the peers' view agrees with the disk;
* `LiveJobInv`: a job that may still install data is the current job of a live peer;
* `QueueInv`, `OrderInv`: no job is queued twice, and the job a peer waits for is the
  last one of its region in the worker's order (in hand, pending, channel);
* `TracerInv`: a registered task belongs to a job the worker has still to end, and has
  the key of the snapshot its peer waits for if it is that peer's job;
* `WorkerInv`: what the worker holds at each program counter.

The argument is in rely/guarantee style: every step of a peer satisfies `PeerGuarantee`,
whatever satisfies it keeps the worker's part of the invariant, and the worker's
steps are treated one by one. `PoolCounterExact` follows the counter through the same
cases. `InstalledInOrder` needs `ForwardInv`: what the engine-store has of a region is no
newer than the last persisted snapshot, and that one no newer than the leader's last.

`FastAddPeerProofs`: `TypeCorrect`, `NormalHasData`, `FakeAlwaysBacked` and `PanicFree`,
whoever ticks. The invariant `IInv` relates the peer, the persisted state and the worker's
job (`PeerInv`, `AcceptedInv`), gives every snapshot an index (`IndexInv`), keeps fast
paths away without a peer (`VacantInv`) and says where the data of a fake snapshot is:
while it is Applying its FAP snapshot is there or the engine-store has the data
(`FakeInv`), afterwards the engine-store has it (`DataInv`). `RaceInv` says what holds
until the tickers race: no panic, a fast path runs only on a peer without a snapshot and
with its info (`TickInv`), `snapshot_inflight` keeps the next fast path away while a fake
snapshot is out (`InflightInv`), and no pre-handle task is left behind (`TaskInv`).

`ApplyPersistSteps` and `ApplyPersistProofs`: `TypeCorrect`, `NoGapHolds`, `LogIsKept`,
`IngestIsSafe`, `PanicFree`, `AppliedExactlyOnce`, `EpochsAreCurrent` and
`RefinesReplica`, the step simulation of `LogReplica`. The inductive invariant adds to these properties
`LogOK` (each entry records the region version before it), `Order` (how far each copy
of the applied index may be), `Batch` (what the write batch holds at each program
counter), `Compaction` (whatever is handed to gc is below a written applied index),
`Epochs` (meta and results never run ahead of the synced region) and `Files` (a file is
deleted only after its ingest is below the synced applied index).

`FsmState`: `AlwaysInv`, for any set of actors. That the FSM is in one place and nothing
panics (`Sound`) is not inductive: `OneInside` (the compare-and-swap admits one actor to
the second half of an operation, and the FSM is then in the cell) and `Agrees` (what each
status says about the cell and the actors) are what makes it so.

`RegionMergeSteps` and `RegionMergeProofs`: `TypeCorrect`, `PanicFree`, `MergesWhole`,
`KeepsSource` and `KeepsDisjoint`, all the safety properties of run `merge_all`, for any
logs and any number of crashes. `HistoryOK` is what is assumed of a pair of logs: a
rollback names the PrepareMerge in force, and the one T merges stays in force, with empty
entries behind it at most; T's version starts at 1, grows and tells its
regions apart; T merges S at most once, at T's version of
that time, and does not get S's range back once it has given it away. That a version
grows with each entry follows from `After`, but by an induction over the log, and so
stands among the assumptions; TLC evaluates all of it on the histories of the run. The
inductive invariant `IInv` is the conjunction of

* of S: `LogInv` (what CommitMerge carries joins the log on disk), `ApplyInv` (kv has the
  PrepareMerge in force, up to an admin command that is being written) and `MailInv` (the
  results in S's mailbox lead from the merge its peer knows of to the one kv has, and
  nothing but empty entries follows the PrepareMerge T merges);
* of T: `DiskInv` (the raft log on disk and a snapshot are ahead of everything applied),
  `PositionInv` (where the delegate is and which results the peer has not seen),
  `VersionInv` (each copy of the version belongs to its index) and `StoreInv` (the
  engine-store on disk is never behind kv, and on the same side of the merge as in memory);
* of both: `RangeInv` (who has S's range, in memory, on disk and in a snapshot on its
  way), `TokenInv` (T asks S to catch up once at a time) and `StageInv`, the heart of it:
  S is untouched, stopped for T's CommitMerge, stopped for T's snapshot, stale, leaving or
  gone, and each of these stages fixes the mailboxes, the delegate's tasks,
  `atomic_snap_regions` and the state on disk.

Every case of the assertions in the code is ruled out by the stage it is met in.
`RegionMergeSteps` proves all parts but the last; `RegionMergeProofs` proves that every
action takes S from a stage to a stage, and the theorems.

Only model-checked: liveness (`ApplyingEnds`, `PeerIsInitialized`,
`EverythingApplied`, `MergeFinishes` and those of `BatchSystem`), since fairness and
ENABLED are out of the prover's reach; the findings' properties, which do not hold; the
refinement of `FsmState` by `BatchSystem` and its other
properties; and everything about `RaftLogStore`.

## 9. Findings

Each is a run that ends in a counterexample, quoted with its lines in PROJECT.json.

* `fap_data`: a fake snapshot accepted after a regular one with a lower index is
  pre-handled from its empty files and replaces the data, although the comment says it
  is handled "to prevent error data".
* `fap_panic`: the store FSM's thread is inside `fast_add_peer` while the peer is
  destroyed; its fallback meets `safe_panic!("not inited!")`.
* `fap_vacant`: the branch for a vacant `CachedRegionInfo`, commented "It won't go
  here", is taken after a restart in state Applying.
* `apply_held`: an SST whose ingest was answered None is forgotten after a restart when
  a later command was persisted, contrary to the comment in `post_exec_query`.
* `log_evict`: eviction under memory pressure compacts the cache to an index that was
  lowered in raft-rs but not in the cache; a read then returns an overwritten entry.

## 10. What is not modelled, and the plan

Out of reach or without protocol state: raft consensus (a library outside this
repository), the FFI conversions, encryption, RocksDB and raft-engine bindings, the
coprocessor, codecs, HTTP and configuration. Not started by the proxy, or only on
leaders: the transaction scheduler, MVCC, leases, CDC, backup, raftstore-v2, the
in-memory engine. A part that is not modelled has its reason in PROJECT.json.

Planned, in this order:

1. proofs for `RaftLogStore` (`TypeOK`, `PersistedOnDisk`, `DiskLogWhole`) and for
   `BatchSystem` (`SingleHolder`, `PoolSizeExact`);
2. `ReadIndex`: batched read index with a deadline and a waker;
3. `WriteBatch`: UniPS write batches with save points, as an algorithm against a
   reference definition;
4. the leader's side of a merge, and a target that is destroyed while it waits;
5. peer creation and split across FSMs (`pending_create_peers`), resolved timestamps,
   and the concurrency primitives (latches, lock table, deadlock detector).
