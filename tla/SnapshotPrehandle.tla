-------------------------- MODULE SnapshotPrehandle --------------------------
(***************************************************************************)
(* How a raft snapshot gets from the raftstore into the engine-store.      *)
(*                                                                         *)
(* Three kinds of thread share the state:                                  *)
(*   - the peer FSMs (one per region) persist a snapshot's metadata,       *)
(*     schedule an Apply job, poll its status, cancel it and destroy the   *)
(*     peer (peer_storage.rs, peer.rs, fsm/peer.rs);                       *)
(*   - the region worker (one thread) takes jobs from its channel, calls   *)
(*     pre_apply_snapshot, queues them in pending_applies and applies them *)
(*     in order (worker/region.rs);                                        *)
(*   - the pre-handle pool of the forwarder decodes snapshots in parallel  *)
(*     and sends each result to whoever holds its PrehandleTask            *)
(*     (engine_store_ffi core/forward_raft/snapshot.rs).                   *)
(*                                                                         *)
(* A snapshot's SnapKey is its index; the key a worker step uses is the    *)
(* truncated index it reads from the kv engine at that moment, as in the   *)
(* code.  A PrehandleTask is identified with the job it was made for.      *)
(* Fast add peer is off here (see FastAddPeer).                            *)
(***************************************************************************)
EXTENDS Integers, Sequences, FiniteSets

CONSTANTS Regions,       \* region ids
          MaxJobs,       \* bound: Apply jobs of a region in one run of the process
          NoJob,         \* absence of a job
          PoolCapacity,  \* ProxyEngineExt::pool_capacity
          MaxIndex,      \* bound: snapshots the leader makes of a region
          MaxCrashes     \* bound: process crashes

\* An Apply job of a region; one Arc<AtomicUsize> status each.
Jobs == Regions \X (1 .. MaxJobs)
RegionOf(j) == j[1]

ASSUME RegionsAssumption == IsFiniteSet(Regions)
ASSUME NoJobAssumption == NoJob \notin Jobs
ASSUME PoolAssumption == PoolCapacity \in Nat
ASSUME BoundsAssumption == /\ MaxIndex \in Nat
                           /\ MaxJobs \in Nat \ {0}
                           /\ MaxCrashes \in Nat

VARIABLES
  peer,            \* the peer FSM: absent, alive, pending_remove ("removing")
                   \* or half destroyed ("destroying")
  snap_state,      \* PeerStorage::snap_state
  snap_ctx,        \* Peer::apply_snap_ctx: none, unscheduled, scheduled
  job,             \* the status Arc that SnapState::Applying holds
  region_state,    \* persisted RegionLocalState
  truncated,       \* persisted truncated index of the apply state, 0 if deleted
  leader_index,    \* index of the last snapshot the leader made
  status,          \* the shared status of every job, "unused" before it exists
  channel,         \* Apply tasks sent to the region worker and not yet run
  pending_applies, \* Runner::pending_applies
  pc,              \* where the region worker is
  cur,             \* the job the region worker is handling
  key,             \* the SnapKey apply_snap is working with
  is_timeout, new_batch,  \* arguments and locals of handle_pending_applies
  tracer,          \* PrehandleContext::tracer
  task,            \* state of each job's PrehandleTask
  task_key,        \* PrehandleTask::snap_key
  held,            \* the task the region worker waits for
  pending_applies_count,  \* ProxyEngineExt::pending_applies_count
  pool_open,       \* apply_snap_pool accepts and runs futures
  kvstore,         \* snapshot index durable in the engine-store, 0 if none
  crashes,         \* crashes so far
  dropped          \* history: regions whose data the engine-store has dropped
                   \* for a destroy that has not reached its tombstone

peerVars == <<peer, snap_state, snap_ctx, job, leader_index>>
diskVars == <<region_state, truncated>>
queueVars == <<channel, pending_applies>>
loopVars == <<is_timeout, new_batch>>
workerVars == <<pc, cur, key, loopVars>>
taskVars == <<tracer, task, task_key, held, pending_applies_count>>
vars == <<peerVars, diskVars, status, queueVars, workerVars, taskVars,
          pool_open, kvstore, crashes, dropped>>

Terminal == {"CANCELLED", "FINISHED", "FAILED"}
Statuses == {"unused", "PENDING", "RUNNING", "CANCELLING"} \cup Terminal

\* Where the region worker can be.  "idle" waits for a task or a timeout,
\* "loop" is the head of handle_pending_applies, the rest is handle_apply.
WorkerSteps == {"idle", "loop", "start", "apply", "post", "recv", "retry",
                "normal", "finish", "abort", "abort_recv", "fail", "fail_recv", "panic"}

TypeOK ==
  /\ peer \in [Regions -> {"absent", "alive", "removing", "destroying"}]
  /\ snap_state \in [Regions -> {"Relax", "Applying", "ApplyAborted"}]
  /\ snap_ctx \in [Regions -> {"none", "unscheduled", "scheduled"}]
  /\ job \in [Regions -> Jobs \cup {NoJob}]
  /\ region_state \in [Regions -> {"Tombstone", "Applying", "Normal"}]
  /\ truncated \in [Regions -> Nat]
  /\ leader_index \in [Regions -> Nat]
  /\ status \in [Jobs -> Statuses]
  /\ channel \in Seq(Jobs)
  /\ pending_applies \in Seq(Jobs)
  /\ pc \in WorkerSteps
  /\ cur \in Jobs \cup {NoJob}
  /\ key \in Nat
  /\ is_timeout \in BOOLEAN /\ new_batch \in BOOLEAN
  /\ tracer \in [Regions -> Jobs \cup {NoJob}]
  /\ task \in [Jobs -> {"none", "running", "sent", "lost", "taken"}]
  /\ task_key \in [Jobs -> Nat]
  /\ held \in Jobs \cup {NoJob}
  /\ pending_applies_count \in Int
  /\ pool_open \in BOOLEAN
  /\ kvstore \in [Regions -> Nat]
  /\ crashes \in Nat
  /\ dropped \subseteq Regions

Init ==
  /\ peer = [r \in Regions |-> "absent"]
  /\ snap_state = [r \in Regions |-> "Relax"]
  /\ snap_ctx = [r \in Regions |-> "none"]
  /\ job = [r \in Regions |-> NoJob]
  /\ region_state = [r \in Regions |-> "Tombstone"]
  /\ truncated = [r \in Regions |-> 0]
  /\ leader_index = [r \in Regions |-> 0]
  /\ status = [j \in Jobs |-> "unused"]
  /\ channel = <<>> /\ pending_applies = <<>>
  /\ pc = "idle" /\ cur = NoJob /\ key = 0
  /\ is_timeout = FALSE /\ new_batch = FALSE
  /\ tracer = [r \in Regions |-> NoJob]
  /\ task = [j \in Jobs |-> "none"]
  /\ task_key = [j \in Jobs |-> 0]
  /\ held = NoJob
  /\ pending_applies_count = 0
  /\ pool_open = TRUE
  /\ kvstore = [r \in Regions |-> 0]
  /\ crashes = 0
  /\ dropped = {}

-----------------------------------------------------------------------------
(* Peer FSMs                                                               *)

CreatePeer(r) ==
  /\ peer[r] = "absent"
  /\ peer' = [peer EXCEPT ![r] = "alive"]
  /\ UNCHANGED <<snap_state, snap_ctx, job, leader_index, diskVars, status,
                 queueVars, workerVars, taskVars, pool_open, kvstore, crashes,
                 dropped>>

\* Fault: a snapshot older than the last one is accepted.
PersistStaleSnapshotMeta(r) ==
  /\ peer[r] = "alive"
  /\ snap_ctx[r] = "none" /\ snap_state[r] # "Applying"
  /\ leader_index[r] < MaxIndex
  /\ leader_index' = [leader_index EXCEPT ![r] = @ + 1]
  /\ snap_ctx' = [snap_ctx EXCEPT ![r] = "unscheduled"]
  /\ region_state' = [region_state EXCEPT ![r] = "Applying"]
  /\ \E i \in 1 .. leader_index'[r] : truncated' = [truncated EXCEPT ![r] = i]
  /\ UNCHANGED <<peer, snap_state, job, status, queueVars, workerVars,
                 taskVars, pool_open, kvstore, crashes, dropped>>

\* check_snap_status lets a new ready through, and the write task of a ready
\* that carries a snapshot is persisted: region state Applying, truncated index
\* of the snapshot.  The Apply job is not scheduled yet.  An aborted snapshot
\* blocks the peer by its context only: a snapshot resumed by a restart has
\* none, so after its abort the peer takes the next one.
PersistSnapshotMeta(r) ==
  /\ peer[r] = "alive"
  /\ snap_ctx[r] = "none" /\ snap_state[r] # "Applying"
  /\ leader_index[r] < MaxIndex
  /\ leader_index' = [leader_index EXCEPT ![r] = @ + 1]
  /\ snap_ctx' = [snap_ctx EXCEPT ![r] = "unscheduled"]
  /\ region_state' = [region_state EXCEPT ![r] = "Applying"]
  /\ truncated' = [truncated EXCEPT ![r] = leader_index'[r]]
  /\ UNCHANGED <<peer, snap_state, job, status, queueVars, workerVars,
                 taskVars, pool_open, kvstore, crashes,
                 dropped>>

\* persist_snapshot, then schedule_applying_snapshot: a fresh PENDING status is
\* shared between SnapState::Applying and the task sent to the region worker.
ScheduleApplyingSnapshot(r) ==
  /\ peer[r] = "alive"
  /\ snap_ctx[r] = "unscheduled"
  /\ \E n \in 1 .. MaxJobs : LET j == <<r, n>> IN
       /\ status[j] = "unused"
       /\ \A m \in 1 .. (n - 1) : status[<<r, m>>] # "unused"
       /\ status' = [status EXCEPT ![j] = "PENDING"]
       /\ job' = [job EXCEPT ![r] = j]
       /\ channel' = Append(channel, j)
  /\ snap_ctx' = [snap_ctx EXCEPT ![r] = "scheduled"]
  /\ snap_state' = [snap_state EXCEPT ![r] = "Applying"]
  /\ UNCHANGED <<peer, leader_index, diskVars, pending_applies, workerVars,
                 taskVars, pool_open, kvstore, crashes,
                 dropped>>

\* What check_applying_snap makes of the status of a job that has ended.
SnapStateAfter(s) == IF s = "FINISHED" THEN "Relax" ELSE "ApplyAborted"

\* check_snap_status on the next ready: on success the context is taken, after
\* an abort or a failure it stays and blocks further readies.
CheckSnapStatus(r) ==
  /\ peer[r] = "alive"
  /\ snap_state[r] = "Applying"
  /\ status[job[r]] \in Terminal
  /\ snap_state' = [snap_state EXCEPT ![r] = SnapStateAfter(status[job[r]])]
  /\ job' = [job EXCEPT ![r] = NoJob]
  /\ snap_ctx' = [snap_ctx EXCEPT ![r] =
                    IF status[job[r]] = "FINISHED" THEN "none" ELSE @]
  /\ UNCHANGED <<peer, leader_index, diskVars, status, queueVars, workerVars,
                 taskVars, pool_open, kvstore, crashes,
                 dropped>>

\* Peer::maybe_destroy gets to its end: the job, if there is one, can be
\* considered never to run again.
PrepareDestroy(r) ==
  /\ peer' = [peer EXCEPT ![r] = "removing"]
  /\ snap_ctx' = [snap_ctx EXCEPT ![r] = "none"]
  /\ job' = [job EXCEPT ![r] = NoJob]

MaybeDestroyIdle(r) ==
  /\ peer[r] = "alive"
  /\ snap_ctx[r] # "unscheduled"
  /\ snap_state[r] # "Applying"
  /\ PrepareDestroy(r)
  /\ UNCHANGED <<snap_state, leader_index, diskVars, status, queueVars,
                 workerVars, taskVars, pool_open, kvstore, crashes,
                 dropped>>

\* cancel_applying_snap wins the race for a job the worker has not started.
CancelPending(r) ==
  /\ peer[r] = "alive"
  /\ snap_state[r] = "Applying"
  /\ status[job[r]] = "PENDING"
  /\ status' = [status EXCEPT ![job[r]] = "CANCELLING"]
  /\ snap_state' = [snap_state EXCEPT ![r] = "ApplyAborted"]
  /\ PrepareDestroy(r)
  /\ UNCHANGED <<leader_index, diskVars, queueVars, workerVars,
                 taskVars, pool_open, kvstore, crashes,
                 dropped>>

\* Fault: a running job counts as cancelled at once.
CancelRunningSucceeds(r) ==
  /\ peer[r] = "alive"
  /\ snap_state[r] = "Applying"
  /\ status[job[r]] = "RUNNING"
  /\ status' = [status EXCEPT ![job[r]] = "CANCELLING"]
  /\ snap_state' = [snap_state EXCEPT ![r] = "ApplyAborted"]
  /\ PrepareDestroy(r)
  /\ UNCHANGED <<leader_index, diskVars, queueVars, workerVars, taskVars,
                 pool_open, kvstore, crashes, dropped>>

\* cancel_applying_snap of a running job only asks it to stop: the destroy is
\* given up and tried again later.
CancelRunning(r) ==
  /\ peer[r] = "alive"
  /\ snap_state[r] = "Applying"
  /\ status[job[r]] = "RUNNING"
  /\ status' = [status EXCEPT ![job[r]] = "CANCELLING"]
  /\ UNCHANGED <<peerVars, diskVars, queueVars, workerVars,
                 taskVars, pool_open, kvstore, crashes,
                 dropped>>

\* cancel_applying_snap of a job that has ended.
CancelEnded(r) ==
  /\ peer[r] = "alive"
  /\ snap_state[r] = "Applying"
  /\ status[job[r]] \in Terminal
  /\ snap_state' = [snap_state EXCEPT ![r] = SnapStateAfter(status[job[r]])]
  /\ PrepareDestroy(r)
  /\ UNCHANGED <<leader_index, diskVars, status, queueVars, workerVars,
                 taskVars, pool_open, kvstore, crashes,
                 dropped>>

\* destroy_peer, first half: the observer makes the engine-store drop the region.
ObserveDestroy(r) ==
  /\ peer[r] = "removing"
  /\ peer' = [peer EXCEPT ![r] = "destroying"]
  /\ kvstore' = [kvstore EXCEPT ![r] = 0]
  /\ dropped' = dropped \cup {r}
  /\ UNCHANGED <<snap_state, snap_ctx, job, leader_index, diskVars, status,
                 queueVars, workerVars, taskVars, pool_open, crashes>>

\* destroy_peer, second half: Peer::destroy clears the metadata and writes the
\* tombstone, synced.
PersistTombstone(r) ==
  /\ peer[r] = "destroying"
  /\ peer' = [peer EXCEPT ![r] = "absent"]
  /\ snap_state' = [snap_state EXCEPT ![r] = "Relax"]
  /\ region_state' = [region_state EXCEPT ![r] = "Tombstone"]
  /\ truncated' = [truncated EXCEPT ![r] = 0]
  /\ dropped' = dropped \ {r}
  /\ UNCHANGED <<snap_ctx, job, leader_index, status, queueVars, workerVars,
                 taskVars, pool_open, kvstore, crashes>>

PeerStep(r) ==
  \/ CreatePeer(r) \/ PersistSnapshotMeta(r) \/ ScheduleApplyingSnapshot(r)
  \/ CheckSnapStatus(r) \/ MaybeDestroyIdle(r) \/ CancelPending(r)
  \/ CancelRunning(r) \/ CancelEnded(r) \/ ObserveDestroy(r)
  \/ PersistTombstone(r)

-----------------------------------------------------------------------------
(* The region worker                                                       *)

\* Fault: a replaced task is not counted off.
RegisterWithoutReplace(j) ==
  /\ tracer' = [tracer EXCEPT ![RegionOf(j)] = j]
  /\ task' = [task EXCEPT ![j] = IF pool_open THEN "running" ELSE "lost"]
  /\ task_key' = [task_key EXCEPT ![j] = truncated[RegionOf(j)]]
  /\ pending_applies_count' = pending_applies_count + 1
  /\ UNCHANGED held

\* The forwarder's pre_apply_snapshot: register a task for the key, replacing
\* the one a cancelled job may have left, and spawn the pre-handling.
RegisterPrehandle(j) ==
  LET r == RegionOf(j) IN
  /\ tracer' = [tracer EXCEPT ![r] = j]
  /\ task' = [task EXCEPT ![j] = IF pool_open THEN "running" ELSE "lost"]
  /\ task_key' = [task_key EXCEPT ![j] = truncated[r]]
  /\ pending_applies_count' =
       (IF tracer[r] = NoJob THEN pending_applies_count
                             ELSE pending_applies_count - 1) + 1
  /\ UNCHANGED held

\* Runner::run(Task::Apply): pre_apply_snapshot, unless the job is being
\* cancelled, its metadata is gone or its files cannot be opened; then the job
\* is queued whatever happened and handle_pending_applies(false) starts.
RunApply ==
  /\ pc = "idle" /\ channel # <<>>
  /\ LET j == Head(channel) IN
       /\ \/ /\ truncated[RegionOf(j)] # 0 /\ status[j] # "CANCELLING"
             /\ RegisterPrehandle(j)
          \/ UNCHANGED taskVars
       /\ pending_applies' = Append(pending_applies, j)
  /\ channel' = Tail(channel)
  /\ pc' = "loop" /\ is_timeout' = FALSE /\ new_batch' = TRUE
  /\ UNCHANGED <<peerVars, diskVars, status, cur, key, pool_open, kvstore,
                 crashes, dropped>>

\* Runner::on_timeout.
OnTimeout ==
  /\ pc = "idle" /\ pending_applies # <<>>
  /\ pc' = "loop" /\ is_timeout' = TRUE /\ new_batch' = TRUE
  /\ UNCHANGED <<peerVars, diskVars, status, queueVars, cur, key, taskVars,
                 pool_open, kvstore, crashes, dropped>>

\* Fault: a timeout does not let the first job through.
CanApplyOnlyWhenFull(queue_size) == queue_size > PoolCapacity

\* ProxyEngineExt::can_apply_snapshot without fast add peer.
CanApplySnapshot(queue_size) ==
  (is_timeout /\ new_batch) \/ queue_size > PoolCapacity

\* handle_pending_applies leaves its loop: the queue is empty, the engine-store
\* is not ready, or level 0 of the kv engine may stall (ingest_maybe_stall).
LeaveLoop ==
  /\ pc = "loop"
  /\ pc' = "idle"
  /\ UNCHANGED <<peerVars, diskVars, status, queueVars, cur, key, loopVars,
                 taskVars, pool_open, kvstore, crashes, dropped>>

\* handle_pending_applies pops a job and handle_apply starts it: the status
\* goes from PENDING to RUNNING unless the peer has cancelled the job.
HandleApply ==
  /\ pc = "loop" /\ pending_applies # <<>>
  /\ CanApplySnapshot(Len(pending_applies))
  /\ cur' = Head(pending_applies)
  /\ pending_applies' = Tail(pending_applies)
  /\ new_batch' = FALSE
  /\ status' = [status EXCEPT ![cur'] = IF @ = "PENDING" THEN "RUNNING" ELSE @]
  /\ pc' = "start"
  /\ UNCHANGED <<peerVars, diskVars, channel, key, is_timeout,
                 taskVars, pool_open, kvstore, crashes, dropped>>

\* The first check_abort of apply_snap, before anything is read.
ApplySnapBegin ==
  /\ pc = "start" /\ status[cur] # "CANCELLING"
  /\ pc' = "apply"
  /\ UNCHANGED <<peerVars, diskVars, status, queueVars, cur, key, loopVars,
                 taskVars, pool_open, kvstore, crashes, dropped>>

\* One of the check_abort calls of apply_snap, or Snapshot::apply, sees
\* CANCELLING.
ApplySnapAbort ==
  /\ pc \in {"start", "apply"} /\ status[cur] = "CANCELLING"
  /\ pc' = "abort"
  /\ UNCHANGED <<peerVars, diskVars, status, queueVars, cur, key, loopVars,
                 taskVars, pool_open, kvstore, crashes, dropped>>

\* apply_snap fails: the metadata or the snapshot files cannot be read.
ApplySnapError ==
  /\ pc = "apply"
  /\ pc' = "fail"
  /\ UNCHANGED <<peerVars, diskVars, status, queueVars, cur, key, loopVars,
                 taskVars, pool_open, kvstore, crashes, dropped>>

\* apply_snap passes its last check_abort with the key it has read: from here
\* on a cancellation is not noticed any more.
ApplySnapData ==
  /\ pc = "apply" /\ status[cur] # "CANCELLING"
  /\ truncated[RegionOf(cur)] # 0
  /\ key' = truncated[RegionOf(cur)]
  /\ pc' = "post"
  /\ UNCHANGED <<peerVars, diskVars, status, queueVars, cur, loopVars,
                 taskVars, pool_open, kvstore, crashes, dropped>>

\* The forwarder's post_apply_snapshot takes the region's task.  Without one it
\* pre-handles on the spot; a task for another key is a panic.
PostApplySnapshot ==
  /\ pc = "post"
  /\ LET r == RegionOf(cur)
         t == tracer[r] IN
       /\ tracer' = [tracer EXCEPT ![r] = NoJob]
       /\ pc' = IF t = NoJob THEN "retry"
                ELSE IF task_key[t] # key THEN "panic" ELSE "recv"
       /\ held' = t
  /\ UNCHANGED <<peerVars, diskVars, status, queueVars, cur, key, loopVars,
                 task, task_key, pending_applies_count, pool_open, kvstore,
                 crashes, dropped>>

\* The engine-store makes the snapshot with the given index its data.
InstallSnapshot(r, index) ==
  /\ kvstore' = [kvstore EXCEPT ![r] = index]
  /\ dropped' = dropped \ {r}

\* t.recv.recv() returns the pre-handled snapshot and it is applied.
RecvPrehandled ==
  /\ pc = "recv" /\ task[held] = "sent"
  /\ InstallSnapshot(RegionOf(cur), task_key[held])
  /\ task' = [task EXCEPT ![held] = "taken"]
  /\ pending_applies_count' = pending_applies_count - 1
  /\ held' = NoJob
  /\ pc' = "normal"
  /\ UNCHANGED <<peerVars, diskVars, status, queueVars, cur, key, loopVars,
                 tracer, task_key, pool_open, crashes>>

\* Fault: the pre-handling is not done again.
RecvErrorWithoutRetry ==
  /\ pc = "recv" /\ task[held] = "lost"
  /\ pending_applies_count' = pending_applies_count - 1
  /\ held' = NoJob
  /\ pc' = "normal"
  /\ UNCHANGED <<peerVars, diskVars, status, queueVars, cur, key, loopVars,
                 tracer, task, task_key, pool_open, kvstore, crashes, dropped>>

\* t.recv.recv() fails: the sender was dropped with its future.
RecvError ==
  /\ pc = "recv" /\ task[held] = "lost"
  /\ pending_applies_count' = pending_applies_count - 1
  /\ held' = NoJob
  /\ pc' = "retry"
  /\ UNCHANGED <<peerVars, diskVars, status, queueVars, cur, key, loopVars,
                 tracer, task, task_key, pool_open, kvstore, crashes, dropped>>

\* Blocking pre-handle of the snapshot apply_snap has read.
RetryPrehandle ==
  /\ pc = "retry"
  /\ InstallSnapshot(RegionOf(cur), key)
  /\ pc' = "normal"
  /\ UNCHANGED <<peerVars, diskVars, status, queueVars, cur, key, loopVars,
                 taskVars, pool_open, crashes>>

\* apply_snap's last write, synced: the region is Normal.
WriteNormalState ==
  /\ pc = "normal"
  /\ region_state' = [region_state EXCEPT ![RegionOf(cur)] = "Normal"]
  /\ pc' = "finish"
  /\ UNCHANGED <<peerVars, truncated, status, queueVars, cur, key, loopVars,
                 taskVars, pool_open, kvstore, crashes, dropped>>

\* handle_apply ends with the given status and handle_pending_applies goes on.
EndApply(s) ==
  /\ status' = [status EXCEPT ![cur] = s]
  /\ cur' = NoJob
  /\ pc' = "loop"
  /\ UNCHANGED <<peerVars, diskVars, queueVars, key, loopVars,
                 pool_open, kvstore, crashes, dropped>>

FinishApply ==
  /\ pc = "finish"
  /\ EndApply("FINISHED")
  /\ UNCHANGED taskVars

\* The status handle_apply leaves behind after cancel_apply_snapshot.
StatusAfterCancel == IF pc \in {"abort", "abort_recv"} THEN "CANCELLED"
                                                       ELSE "FAILED"

\* The forwarder's cancel_apply_snapshot with no task registered.
CancelWithoutTask ==
  /\ pc \in {"abort", "fail"}
  /\ tracer[RegionOf(cur)] = NoJob
  /\ EndApply(StatusAfterCancel)
  /\ UNCHANGED taskVars

\* Fault: the cancelled task stays registered.
CancelKeepsTask ==
  /\ pc \in {"abort", "fail"}
  /\ tracer[RegionOf(cur)] # NoJob
  /\ EndApply(StatusAfterCancel)
  /\ UNCHANGED taskVars

\* cancel_apply_snapshot takes the region's task, whichever job it belongs to,
\* aborts the pre-handling and counts it off before it waits for the result.
CancelTakesTask ==
  /\ pc \in {"abort", "fail"}
  /\ tracer[RegionOf(cur)] # NoJob
  /\ held' = tracer[RegionOf(cur)]
  /\ tracer' = [tracer EXCEPT ![RegionOf(cur)] = NoJob]
  /\ pending_applies_count' = pending_applies_count - 1
  /\ pc' = IF pc = "abort" THEN "abort_recv" ELSE "fail_recv"
  /\ UNCHANGED <<peerVars, diskVars, status, queueVars, cur, key, loopVars,
                 task, task_key, pool_open, kvstore, crashes, dropped>>

\* cancel_apply_snapshot gets the result and releases it, or finds it lost.
CancelRecv ==
  /\ pc \in {"abort_recv", "fail_recv"}
  /\ task[held] \in {"sent", "lost"}
  /\ task' = [task EXCEPT ![held] = IF @ = "sent" THEN "taken" ELSE @]
  /\ held' = NoJob
  /\ EndApply(StatusAfterCancel)
  /\ UNCHANGED <<tracer, task_key, pending_applies_count>>

WorkerStep ==
  \/ RunApply \/ OnTimeout \/ LeaveLoop \/ HandleApply
  \/ ApplySnapBegin \/ ApplySnapAbort \/ ApplySnapError \/ ApplySnapData
  \/ PostApplySnapshot \/ RecvPrehandled \/ RecvError \/ RetryPrehandle
  \/ WriteNormalState \/ FinishApply
  \/ CancelWithoutTask \/ CancelTakesTask \/ CancelRecv

-----------------------------------------------------------------------------
(* The pre-handle pool, and the process                                    *)

\* A future of the pool finishes pre_handle_snapshot and sends the result.
PrehandleDone(j) ==
  /\ task[j] = "running"
  /\ task' = [task EXCEPT ![j] = "sent"]
  /\ UNCHANGED <<peerVars, diskVars, status, queueVars, workerVars, tracer,
                 task_key, held, pending_applies_count, pool_open, kvstore,
                 crashes, dropped>>

\* ProxyForwarder::stop shuts the pool down: a future that has not run is
\* dropped, and its sender with it.
StopPool ==
  /\ pool_open
  /\ pool_open' = FALSE
  /\ \E unrun \in SUBSET {j \in Jobs : task[j] = "running"} :
       task' = [j \in Jobs |-> IF j \in unrun THEN "lost" ELSE task[j]]
  /\ UNCHANGED <<peerVars, diskVars, status, queueVars, workerVars, tracer,
                 task_key, held, pending_applies_count, kvstore, crashes,
                 dropped>>

\* The orders in which the members of S may be listed.
Orders(S) ==
  {s \in [1 .. Cardinality(S) -> S] : \A i, k \in 1 .. Cardinality(S) : s[i] = s[k] => i = k}

\* The process dies and starts again.  Only the kv engine and the engine-store
\* survive; StoreFsm's init recreates the peers and schedules the snapshots of
\* the regions that are still Applying.
Restart ==
  /\ crashes < MaxCrashes
  /\ crashes' = crashes + 1
  /\ LET applying == {r \in Regions : region_state[r] = "Applying"} IN
       /\ peer' = [r \in Regions |->
                     IF region_state[r] = "Tombstone" THEN "absent" ELSE "alive"]
       /\ snap_state' = [r \in Regions |->
                           IF r \in applying THEN "Applying" ELSE "Relax"]
       /\ job' = [r \in Regions |-> IF r \in applying THEN <<r, 1>> ELSE NoJob]
       /\ status' = [j \in Jobs |->
             IF j \in applying \X {1} THEN "PENDING" ELSE "unused"]
       /\ channel' \in Orders(applying \X {1})
  /\ snap_ctx' = [r \in Regions |-> "none"]
  /\ pending_applies' = <<>>
  /\ pc' = "idle" /\ cur' = NoJob /\ key' = 0
  /\ is_timeout' = FALSE /\ new_batch' = FALSE
  /\ tracer' = [r \in Regions |-> NoJob]
  /\ task' = [j \in Jobs |-> "none"]
  /\ task_key' = [j \in Jobs |-> 0]
  /\ held' = NoJob
  /\ pending_applies_count' = 0
  /\ pool_open' = TRUE
  /\ UNCHANGED <<leader_index, diskVars, kvstore, dropped>>

Next ==
  \/ \E r \in Regions : PeerStep(r)
  \/ WorkerStep
  \/ \E j \in Jobs : PrehandleDone(j)
  \/ StopPool
  \/ Restart

Spec == Init /\ [][Next]_vars

\* The scheduling the code relies on.  The worker thread runs and its timer
\* fires; its level-0 stall check does not fail for ever, hence the strong
\* fairness of HandleApply; pool futures finish; a peer polls the status of its
\* job (SnapshotApplied wakes it up).
Fairness ==
  /\ WF_vars(RunApply) /\ WF_vars(OnTimeout) /\ WF_vars(LeaveLoop)
  /\ SF_vars(HandleApply)
  /\ WF_vars(ApplySnapBegin \/ ApplySnapAbort \/ ApplySnapError \/ ApplySnapData)
  /\ WF_vars(PostApplySnapshot)
  /\ WF_vars(RecvPrehandled \/ RecvError \/ RetryPrehandle)
  /\ WF_vars(WriteNormalState \/ FinishApply)
  /\ WF_vars(CancelWithoutTask \/ CancelTakesTask \/ CancelRecv)
  /\ \A j \in Jobs : WF_vars(PrehandleDone(j))
  /\ \A r \in Regions : WF_vars(CheckSnapStatus(r))

FairSpec == Spec /\ Fairness

-----------------------------------------------------------------------------
(* Properties                                                              *)

\* A region the raftstore calls Normal has exactly that snapshot in the
\* engine-store, whatever cancellations, failures, retries and crashes came
\* before; the only exception is a region the engine-store has dropped for a
\* destroy (the crash window between handle_destroy and the tombstone).
NormalMeansInstalled ==
  \A r \in Regions :
    region_state[r] = "Normal" => kvstore[r] = truncated[r] \/ r \in dropped

\* Once destroy_peer has made the engine-store drop a region, no late Apply job
\* of the old peer writes it again: cancel_applying_snap may report success
\* only for a job that will never install anything.
NoDataAfterDestroy ==
  \A r \in Regions : peer[r] \in {"destroying", "absent"} => kvstore[r] = 0

\* post_apply_snapshot never finds a task registered for another snapshot of
\* the region ("mismatched prehandled snapshot").
NoMismatchedPrehandle == pc # "panic"

\* pending_applies_count counts the registered tasks and the one
\* post_apply_snapshot is waiting for: no cancel, replacement, retry or late
\* result leaks a slot or frees one twice (the code asserts _prev > 0).
PendingCountExact ==
  pending_applies_count =
    Cardinality({r \in Regions : tracer[r] # NoJob})
    + (IF pc = "recv" THEN 1 ELSE 0)

\* handle_apply's assertion: a job that ends as CANCELLED was CANCELLING, and
\* nothing else can end it meanwhile.
AbortedJobIsCancelling ==
  pc \in {"abort", "abort_recv"} => status[cur] = "CANCELLING"

\* Snapshots of a region are installed in order: the engine-store's index only
\* moves forward, except that a destroy resets it.
InstallsForward ==
  [][\A r \in Regions : kvstore'[r] >= kvstore[r] \/ kvstore'[r] = 0]_kvstore

\* A peer that waits for a snapshot is not left waiting: the batching of
\* can_apply_snapshot, lost pre-handle results and cancellations always end
\* with a final status that the peer sees.
ApplyingEnds ==
  \A r \in Regions : snap_state[r] = "Applying" ~> snap_state[r] # "Applying"

-----------------------------------------------------------------------------
(* The inductive strengthening behind the proofs.                          *)

\* The job is the one its peer is waiting for.
Current(j) ==
  LET r == RegionOf(j) IN
  /\ peer[r] = "alive" /\ snap_state[r] = "Applying" /\ job[r] = j

\* Until WriteNormalState, the persisted state is that of the job's snapshot.
Installing(j) ==
  region_state[RegionOf(j)] = "Applying" /\ truncated[RegionOf(j)] # 0

\* Jobs not yet handled: in the channel or in pending_applies.
InSeq(j, q) == \E i \in 1 .. Len(q) : q[i] = j
Queued(j) == InSeq(j, channel) \/ InSeq(j, pending_applies)

\* Peers and the disk agree.
DiskInv ==
  \A r \in Regions :
    /\ region_state[r] = "Tombstone" => kvstore[r] = 0
    /\ region_state[r] = "Applying" => truncated[r] # 0
    /\ snap_ctx[r] = "unscheduled" =>
         /\ peer[r] = "alive" /\ snap_state[r] # "Applying"
         /\ region_state[r] = "Applying"
    /\ snap_state[r] = "Applying" =>
         /\ peer[r] = "alive"
         /\ job[r] \in Jobs /\ RegionOf(job[r]) = r

\* A job that may still install data is the current job of a live peer.
LiveJobInv ==
  \A j \in Jobs :
    /\ status[j] = "PENDING" => Current(j) /\ Installing(j) /\ cur # j
    /\ status[j] = "RUNNING" => Current(j)
    /\ Queued(j) => status[j] \in {"PENDING", "CANCELLING"} /\ cur # j

\* No job is queued twice.
QueueInv ==
  /\ \A i, k \in 1 .. Len(channel) : channel[i] = channel[k] => i = k
  /\ \A i, k \in 1 .. Len(pending_applies) :
       pending_applies[i] = pending_applies[k] => i = k
  /\ \A j \in Jobs : ~ (InSeq(j, channel) /\ InSeq(j, pending_applies))

\* The job a peer waits for is the last one of its region in the worker's order:
\* cur, then pending_applies, then the channel.
OrderInv ==
  /\ \A i, k \in 1 .. Len(channel) :
       i < k /\ RegionOf(channel[i]) = RegionOf(channel[k])
         => ~ Current(channel[i])
  /\ \A i, k \in 1 .. Len(pending_applies) :
       i < k /\ RegionOf(pending_applies[i]) = RegionOf(pending_applies[k])
         => ~ Current(pending_applies[i])
  /\ \A i \in 1 .. Len(pending_applies), k \in 1 .. Len(channel) :
       RegionOf(pending_applies[i]) = RegionOf(channel[k])
         => ~ Current(pending_applies[i])
  /\ \A j \in Jobs :
       cur # NoJob /\ Queued(j) /\ RegionOf(j) = RegionOf(cur) => ~ Current(cur)

\* A registered task belongs to a job the worker has still to end, and has the
\* key of the snapshot its peer waits for if it is that peer's job.
TracerInv ==
  \A r \in Regions : LET t == tracer[r] IN
    t # NoJob =>
      /\ RegionOf(t) = r
      /\ \/ InSeq(t, pending_applies)
         \/ t = cur /\ pc \in {"start", "apply", "post", "abort", "fail"}
      /\ Current(t) => task_key[t] = truncated[r]

\* What the region worker relies on at each point of handle_apply.
WorkerInv ==
  /\ pc \in {"start", "apply", "post", "recv", "retry", "normal", "finish",
             "fail", "fail_recv"} => status[cur] \in {"RUNNING", "CANCELLING"}
  /\ pc \in {"apply", "post", "recv", "retry", "normal", "finish",
             "fail", "fail_recv"} => Current(cur)
  /\ pc = "start" /\ status[cur] = "RUNNING" => Installing(cur)
  /\ pc = "apply" => Installing(cur)
  /\ pc \in {"post", "recv", "retry", "normal"} =>
       Installing(cur) /\ key = truncated[RegionOf(cur)]
  /\ pc \in {"normal", "finish"} =>
       kvstore[RegionOf(cur)] = truncated[RegionOf(cur)]
  /\ pc = "recv" => task_key[held] = key
==============================================================================
