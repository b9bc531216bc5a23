---------------------- MODULE SnapshotPrehandlePeers ----------------------
(***************************************************************************)
(* SnapshotPrehandle, for any number of regions, jobs and snapshots: the   *)
(* types, the inductive invariant, and the steps of the peers, which keep  *)
(* it because each satisfies PeerGuarantee.                                *)
(***************************************************************************)
EXTENDS SnapshotPrehandle, FiniteSetTheorems, SequenceTheorems, TLAPS

\* The worker has a job exactly while it handles one, and a task while it waits
\* for one.
WorkerOK ==
  /\ pc \in {"idle", "loop"} <=> cur = NoJob
  /\ pc \in {"recv", "abort_recv", "fail_recv"} => held \in Jobs

TypeInv == TypeOK /\ WorkerOK

\* Orders of a finite set yields sequences over it.
LEMMA OrdersType ==
  ASSUME NEW S, IsFiniteSet(S), NEW s \in Orders(S)
  PROVE  /\ s \in Seq(S)
         /\ \A i, k \in 1 .. Len(s) : s[i] = s[k] => i = k
PROOF
  <1>1. Cardinality(S) \in Nat
    BY FS_CardinalityType
  <1> QED
    BY <1>1 DEF Orders

LEMMA RegionOfType == \A j \in Jobs : RegionOf(j) \in Regions
PROOF
  BY DEF Jobs, RegionOf

LEMMA TypeInit == Init => TypeInv
PROOF
  <1> SUFFICES ASSUME Init PROVE TypeInv
    OBVIOUS
  <1> USE DEF Init
  <1>1. /\ is_timeout \in BOOLEAN /\ new_batch \in BOOLEAN
        /\ pool_open \in BOOLEAN
    BY Zenon
  <1>2. /\ channel \in Seq(Jobs) /\ pending_applies \in Seq(Jobs)
    BY SMTT(40)
  <1> QED
    BY <1>1, <1>2 DEF TypeInv, WorkerOK, TypeOK, WorkerSteps, Statuses

\* Every peer step keeps the types.
LEMMA TypePeer ==
  ASSUME TypeInv, NEW r \in Regions, PeerStep(r)
  PROVE  TypeInv'
PROOF
  <1> USE DEF TypeInv, WorkerOK, TypeOK, peerVars, diskVars, queueVars, loopVars, workerVars,
              taskVars
  <1>1. CASE CreatePeer(r)
    BY Zenon, <1>1 DEF CreatePeer
  <1>2. CASE PersistSnapshotMeta(r)
    BY SMTT(60), <1>2 DEF PersistSnapshotMeta
  <1>3. CASE ScheduleApplyingSnapshot(r)
    <2>1. PICK n \in 1 .. MaxJobs :
            /\ status' = [status EXCEPT ![<<r, n>>] = "PENDING"]
            /\ job' = [job EXCEPT ![r] = <<r, n>>]
            /\ channel' = Append(channel, <<r, n>>)
      BY Zenon, <1>3 DEF ScheduleApplyingSnapshot
    <2>2. <<r, n>> \in Jobs
      BY SMTT(60) DEF Jobs
    <2>3. channel' \in Seq(Jobs)
      BY <2>1, <2>2
    <2> QED
      BY Zenon, <1>3, <2>1, <2>2, <2>3 DEF ScheduleApplyingSnapshot, Statuses
  <1>4. CASE CheckSnapStatus(r)
    BY SMTT(60), <1>4 DEF CheckSnapStatus, SnapStateAfter
  <1>5. CASE MaybeDestroyIdle(r)
    BY Zenon, <1>5 DEF MaybeDestroyIdle, PrepareDestroy
  <1>6. CASE CancelPending(r)
    BY Zenon, <1>6 DEF CancelPending, PrepareDestroy, Statuses
  <1>7. CASE CancelRunning(r)
    BY Zenon, <1>7 DEF CancelRunning, Statuses
  <1>8. CASE CancelEnded(r)
    BY Zenon, <1>8 DEF CancelEnded, PrepareDestroy, SnapStateAfter
  <1>9. CASE ObserveDestroy(r)
    BY Zenon, <1>9 DEF ObserveDestroy
  <1>10. CASE PersistTombstone(r)
    BY Zenon, <1>10 DEF PersistTombstone
  <1> QED
    BY ZenonT(60), <1>1, <1>2, <1>3, <1>4, <1>5, <1>6, <1>7, <1>8, <1>9, <1>10 DEF PeerStep

\* Every step of the region worker keeps the types.
LEMMA TypeWorker ==
  ASSUME TypeInv, WorkerStep
  PROVE  TypeInv'
PROOF
  <1> USE DEF TypeInv, WorkerOK, TypeOK, peerVars, diskVars, queueVars, loopVars, workerVars,
              taskVars, WorkerSteps
  <1>0. cur # NoJob => cur \in Jobs /\ RegionOf(cur) \in Regions
    BY Zenon, RegionOfType
  <1>1. CASE RunApply
    <2> DEFINE j == Head(channel)
    <2>1. j \in Jobs /\ RegionOf(j) \in Regions
      BY Zenon, <1>1, HeadTailProperties, RegionOfType DEF RunApply
    <2>2. channel' \in Seq(Jobs) /\ pending_applies' \in Seq(Jobs)
      BY <1>1, <2>1 DEF RunApply
    <2>3. is_timeout' \in BOOLEAN /\ new_batch' \in BOOLEAN
      BY <1>1, Zenon DEF RunApply
    <2>4. CASE UNCHANGED taskVars
      BY Zenon, <1>1, <2>2, <2>3, <2>4 DEF RunApply
    <2>5. CASE RegisterPrehandle(j)
      <3>1. task' \in [Jobs -> {"none", "running", "sent", "lost", "taken"}]
        BY <2>1, <2>5, Zenon DEF RegisterPrehandle
      <3>2. pending_applies_count' \in Int
        BY <2>5 DEF RegisterPrehandle
      <3>3. /\ tracer' \in [Regions -> Jobs \cup {NoJob}]
            /\ task_key' \in [Jobs -> Nat] /\ held' = held
        BY Zenon, <2>1, <2>5 DEF RegisterPrehandle
      <3> QED
        BY Zenon, <1>1, <2>2, <2>3, <3>1, <3>2, <3>3 DEF RunApply
    <2> QED
      BY Zenon, <1>1, <2>4, <2>5 DEF RunApply
  <1>2. CASE OnTimeout
    <2>1. is_timeout' \in BOOLEAN /\ new_batch' \in BOOLEAN
      BY <1>2, Zenon DEF OnTimeout
    <2> QED
      BY Zenon, <1>2, <2>1 DEF OnTimeout
  <1>3. CASE LeaveLoop
    BY Zenon, <1>3, NoJobAssumption DEF LeaveLoop
  <1>4. CASE HandleApply
    <2>1. new_batch' \in BOOLEAN
      BY <1>4, Zenon DEF HandleApply
    <2>2. cur' \in Jobs /\ pending_applies' \in Seq(Jobs)
      BY SMTT(60), <1>4 DEF HandleApply
    <2> QED
      BY ZenonT(40), <1>4, <2>1, <2>2, NoJobAssumption DEF HandleApply, Statuses
  <1>5. CASE ApplySnapBegin \/ ApplySnapAbort \/ ApplySnapError
    BY SMTT(60), <1>5 DEF ApplySnapBegin, ApplySnapAbort, ApplySnapError
  <1>6. CASE ApplySnapData
    BY Zenon, <1>0, <1>6 DEF ApplySnapData
  <1>7. CASE PostApplySnapshot
    BY Zenon, <1>0, <1>7, NoJobAssumption DEF PostApplySnapshot
  <1>8. CASE RecvPrehandled
    BY SMTT(60), <1>0, <1>8, NoJobAssumption DEF RecvPrehandled, InstallSnapshot
  <1>9. CASE RecvError
    BY SMTT(60), <1>0, <1>9, NoJobAssumption DEF RecvError
  <1>10. CASE RetryPrehandle
    BY Zenon, <1>0, <1>10, NoJobAssumption DEF RetryPrehandle, InstallSnapshot
  <1>11. CASE WriteNormalState
    BY Zenon, <1>0, <1>11, NoJobAssumption DEF WriteNormalState
  <1>12. CASE FinishApply
    BY Zenon, <1>0, <1>12, NoJobAssumption DEF FinishApply, EndApply, Statuses, Terminal
  <1>13. CASE CancelWithoutTask
    BY Zenon, <1>0, <1>13, NoJobAssumption DEF CancelWithoutTask, EndApply, StatusAfterCancel, Statuses, Terminal
  <1>14. CASE CancelTakesTask
    BY SMTT(60), <1>0, <1>14, NoJobAssumption DEF CancelTakesTask
  <1>15. CASE CancelRecv
    BY Zenon, <1>0, <1>15, NoJobAssumption DEF CancelRecv, EndApply, StatusAfterCancel, Statuses, Terminal
  <1> QED
    BY ZenonT(60), <1>1, <1>2, <1>3, <1>4, <1>5, <1>6, <1>7, <1>8, <1>9, <1>10, <1>11,
       <1>12, <1>13, <1>14, <1>15 DEF WorkerStep

LEMMA TypeRestart ==
  ASSUME TypeInv, Restart
  PROVE  TypeInv'
PROOF
  <1> USE DEF TypeInv, WorkerOK, TypeOK, diskVars
  <1> DEFINE applying == {r \in Regions : region_state[r] = "Applying"}
  <1>1. /\ applying \X {1} \subseteq Jobs
        /\ \A r \in applying : <<r, 1>> \in Jobs
    BY SMTT(60), BoundsAssumption DEF Jobs
  <1>2. IsFiniteSet(applying \X {1})
    BY Zenon, RegionsAssumption, FS_Subset, FS_Product, FS_Singleton
  <1>3. channel' \in Seq(Jobs)
    BY <1>1, <1>2, OrdersType DEF Restart
  <1>4. /\ is_timeout' \in BOOLEAN /\ new_batch' \in BOOLEAN
        /\ pool_open' \in BOOLEAN
    BY Zenon DEF Restart
  <1>5. job' \in [Regions -> Jobs \cup {NoJob}]
    BY <1>1 DEF Restart
  <1> QED
    BY SMTT(60), <1>3, <1>4, <1>5 DEF Restart, Statuses, WorkerSteps

LEMMA TypeNext ==
  ASSUME TypeInv, [Next]_vars
  PROVE  TypeInv'
PROOF
  <1>1. ASSUME NEW j \in Jobs, PrehandleDone(j)
        PROVE  TypeInv'
    BY SMTT(60), <1>1 DEF PrehandleDone, TypeInv, WorkerOK, TypeOK, peerVars, diskVars,
                queueVars, loopVars, workerVars
  <1>2. CASE StopPool
    <2>1. pool_open' \in BOOLEAN
      BY <1>2, Zenon DEF StopPool
    <2>2. task' \in [Jobs -> {"none", "running", "sent", "lost", "taken"}]
      BY SMTT(60), <1>2 DEF StopPool, TypeInv, TypeOK
    <2> QED
      BY <1>2, <2>1, <2>2 DEF StopPool, TypeInv, WorkerOK, TypeOK, peerVars,
             diskVars, queueVars, loopVars, workerVars
  <1>3. CASE UNCHANGED vars
    BY SMTT(60), <1>3 DEF vars, TypeInv, WorkerOK, TypeOK, peerVars, diskVars, queueVars,
                loopVars, workerVars, taskVars
  <1> QED
    BY SMTT(60), <1>1, <1>2, <1>3, TypePeer, TypeWorker, TypeRestart DEF Next

\* The variables keep their types, and the worker has a job exactly while it is
\* inside handle_apply.
THEOREM TypeCorrect == Spec => []TypeOK
PROOF
  <1>1. Spec => []TypeInv
    BY TypeInit, TypeNext, PTL DEF Spec
  <1>2. TypeInv => TypeOK
    BY DEF TypeInv
  <1> QED
    BY <1>1, <1>2, PTL

-----------------------------------------------------------------------------
(* Safety.                                                                 *)

IInv ==
  /\ TypeInv
  /\ DiskInv
  /\ LiveJobInv
  /\ QueueInv
  /\ OrderInv
  /\ TracerInv
  /\ WorkerInv
  /\ NormalMeansInstalled
  /\ NoDataAfterDestroy
  /\ AbortedJobIsCancelling
  /\ NoMismatchedPrehandle

\* A step that leaves alone what a part of the invariant is about keeps it.
LEMMA DiskFrame ==
  ASSUME DiskInv, NormalMeansInstalled, NoDataAfterDestroy,
         UNCHANGED <<peer, snap_state, snap_ctx, job, truncated, region_state,
                     kvstore, dropped>>
  PROVE  DiskInv' /\ NormalMeansInstalled' /\ NoDataAfterDestroy'
PROOF
  BY Zenon DEF DiskInv, NormalMeansInstalled, NoDataAfterDestroy

LEMMA LiveJobFrame ==
  ASSUME LiveJobInv,
         UNCHANGED <<peer, snap_state, job, truncated, region_state, status,
                     channel, pending_applies, cur>>
  PROVE  LiveJobInv'
PROOF
  <1>1. \A j \in Jobs : /\ Current(j)' <=> Current(j)
                        /\ Installing(j)' <=> Installing(j)
                        /\ Queued(j)' <=> Queued(j)
    BY Zenon DEF Current, Installing, Queued, InSeq
  <1> QED
    BY <1>1, Zenon DEF LiveJobInv

LEMMA QueueFrame ==
  ASSUME QueueInv, UNCHANGED <<channel, pending_applies>>
  PROVE  QueueInv'
PROOF
  BY Zenon DEF QueueInv, InSeq

LEMMA OrderFrame ==
  ASSUME OrderInv,
         UNCHANGED <<peer, snap_state, job, channel, pending_applies, cur>>
  PROVE  OrderInv'
PROOF
  BY Zenon DEF OrderInv, Current, Queued, InSeq

LEMMA TracerFrame ==
  ASSUME TracerInv,
         UNCHANGED <<peer, snap_state, job, truncated, pending_applies, cur,
                     tracer, task_key>>,
         pc' = pc \/ (pc' \in {"start", "apply", "post", "abort", "fail"})
           \/ ~ (pc \in {"start", "apply", "post", "abort", "fail"})
  PROVE  TracerInv'
PROOF
  BY Zenon DEF TracerInv, Current, InSeq

\* Membership in a queue, under the two ways a queue changes.
LEMMA InSeqAppend ==
  ASSUME NEW S, NEW q \in Seq(S), NEW e \in S, NEW j
  PROVE  InSeq(j, Append(q, e)) <=> InSeq(j, q) \/ j = e
PROOF
  <1>1. ASSUME InSeq(j, q) \/ j = e
        PROVE  InSeq(j, Append(q, e))
    <2>1. CASE InSeq(j, q)
      <3>1. PICK i \in 1 .. Len(q) : q[i] = j
        BY <2>1 DEF InSeq
      <3>2. i \in 1 .. Len(Append(q, e)) /\ Append(q, e)[i] = j
        BY <3>1
      <3> QED
        BY <3>2 DEF InSeq
    <2>2. CASE j = e
      <3>1. Len(q) + 1 \in 1 .. Len(Append(q, e)) /\ Append(q, e)[Len(q) + 1] = j
        BY <2>2
      <3> QED
        BY <3>1 DEF InSeq
    <2> QED
      BY <1>1, <2>1, <2>2
  <1>2. ASSUME InSeq(j, Append(q, e)), j # e
        PROVE  InSeq(j, q)
    <2>1. PICK i \in 1 .. Len(Append(q, e)) : Append(q, e)[i] = j
      BY <1>2 DEF InSeq
    <2>2. i \in 1 .. Len(q) /\ q[i] = j
      BY <1>2, <2>1
    <2> QED
      BY <2>2 DEF InSeq
  <1> QED
    BY <1>1, <1>2

LEMMA InSeqTail ==
  ASSUME NEW S, NEW q \in Seq(S), q # <<>>, NEW j
  PROVE  InSeq(j, q) <=> j = Head(q) \/ InSeq(j, Tail(q))
PROOF
  <1>1. ASSUME InSeq(j, q), j # Head(q)
        PROVE  InSeq(j, Tail(q))
    <2>1. PICK i \in 1 .. Len(q) : q[i] = j
      BY <1>1 DEF InSeq
    <2>2. i # 1
      BY <1>1, <2>1
    <2>3. i - 1 \in 1 .. Len(Tail(q)) /\ Tail(q)[i - 1] = j
      BY <2>1, <2>2
    <2> QED
      BY <2>3 DEF InSeq
  <1>2. ASSUME InSeq(j, Tail(q))
        PROVE  InSeq(j, q)
    <2>1. PICK i \in 1 .. Len(Tail(q)) : Tail(q)[i] = j
      BY <1>2 DEF InSeq
    <2>2. i + 1 \in 1 .. Len(q) /\ q[i + 1] = j
      BY SMTT(60), <2>1
    <2> QED
      BY <2>2 DEF InSeq
  <1>3. InSeq(Head(q), q)
    <2>1. 1 \in 1 .. Len(q) /\ q[1] = Head(q)
      BY SMTT(60)
    <2> QED
      BY <2>1 DEF InSeq
  <1> QED
    BY SMTT(60), <1>1, <1>2, <1>3

\* What every peer step except the scheduling of a job guarantees to the others.
\* A peer starts waiting for a snapshot only by scheduling a job; while it waits,
\* the disk and the engine-store keep the region as it is; it stops waiting only
\* for a job that was PENDING or has ended; and all it does to a status is to set
\* CANCELLING.
Waits(r) == peer[r] = "alive" /\ snap_state[r] = "Applying"

PeerGuarantee ==
  /\ UNCHANGED <<channel, pending_applies, pc, cur, key, tracer, task, task_key,
                 held>>
  /\ \A s \in Regions : peer'[s] = "alive" /\ snap_state'[s] = "Applying" =>
       /\ Waits(s) /\ job'[s] = job[s]
       /\ truncated'[s] = truncated[s] /\ region_state'[s] = region_state[s]
       /\ kvstore'[s] = kvstore[s]
  /\ \A s \in Regions :
       Waits(s) /\ status[job[s]] \in {"RUNNING", "CANCELLING"} =>
         peer'[s] = "alive" /\ snap_state'[s] = "Applying"
  /\ \A s \in Regions :
       Waits(s) /\ status'[job[s]] = "PENDING" =>
         peer'[s] = "alive" /\ snap_state'[s] = "Applying"
  /\ \A j \in Jobs : status'[j] # status[j] =>
       status[j] \in {"PENDING", "RUNNING"} /\ status'[j] = "CANCELLING"

LEMMA PeerGuarantees ==
  ASSUME IInv, NEW r \in Regions, PeerStep(r), ~ ScheduleApplyingSnapshot(r)
  PROVE  PeerGuarantee
PROOF
  <1> USE DEF IInv, TypeInv, TypeOK, peerVars, diskVars, queueVars, loopVars,
              workerVars, taskVars, DiskInv, PeerGuarantee, Waits
  <1>1. CASE CreatePeer(r)
    BY SMTT(60), <1>1 DEF CreatePeer
  <1>2. CASE PersistSnapshotMeta(r)
    BY ZenonT(60), <1>2 DEF PersistSnapshotMeta
  <1>3. CASE CheckSnapStatus(r)
    BY SMTT(60), <1>3 DEF CheckSnapStatus, SnapStateAfter, Terminal
  <1>4. CASE MaybeDestroyIdle(r)
    BY SMTT(60), <1>4 DEF MaybeDestroyIdle, PrepareDestroy
  <1>5. CASE CancelPending(r)
    BY SMTT(60), <1>5 DEF CancelPending, PrepareDestroy
  <1>6. CASE CancelRunning(r)
    BY SMTT(60), <1>6 DEF CancelRunning
  <1>7. CASE CancelEnded(r)
    BY SMTT(60), <1>7 DEF CancelEnded, PrepareDestroy, SnapStateAfter, Terminal
  <1>8. CASE ObserveDestroy(r)
    BY SMTT(60), <1>8 DEF ObserveDestroy
  <1>9. CASE PersistTombstone(r)
    BY SMTT(40), <1>9 DEF PersistTombstone
  <1> QED
    BY ZenonT(60), <1>1, <1>2, <1>3, <1>4, <1>5, <1>6, <1>7, <1>8, <1>9 DEF PeerStep

\* A step with that guarantee disturbs neither the queues nor the worker.
LEMMA GuaranteeKeepsInv ==
  ASSUME IInv, TypeInv', PeerGuarantee
  PROVE  /\ LiveJobInv' /\ QueueInv' /\ OrderInv' /\ TracerInv' /\ WorkerInv'
         /\ AbortedJobIsCancelling' /\ NoMismatchedPrehandle'
PROOF
  <1> USE DEF IInv, TypeInv, TypeOK, WorkerOK
  <1>0. UNCHANGED <<channel, pending_applies, pc, cur, key, tracer, task, task_key,
                    held>>
    BY Zenon DEF PeerGuarantee
  <1>a. \A j \in Jobs : Current(j)' =>
          Current(j) /\ truncated'[RegionOf(j)] = truncated[RegionOf(j)]
    BY Zenon, RegionOfType DEF PeerGuarantee, Waits, Current
  <1>b. \A j \in Jobs :
          Current(j) /\ (status'[j] \in {"PENDING", "RUNNING"}
                         \/ status[j] \in {"RUNNING", "CANCELLING"}) =>
            /\ Current(j)'
            /\ truncated'[RegionOf(j)] = truncated[RegionOf(j)]
            /\ region_state'[RegionOf(j)] = region_state[RegionOf(j)]
            /\ kvstore'[RegionOf(j)] = kvstore[RegionOf(j)]
    <2> TAKE j \in Jobs
    <2>1. RegionOf(j) \in Regions
      BY Zenon, RegionOfType
    <2> HAVE Current(j) /\ (status'[j] \in {"PENDING", "RUNNING"}
                            \/ status[j] \in {"RUNNING", "CANCELLING"})
    <2>2. status'[j] = "RUNNING" => status[j] = "RUNNING"
      BY ZenonT(60) DEF PeerGuarantee
    <2>3. peer'[RegionOf(j)] = "alive" /\ snap_state'[RegionOf(j)] = "Applying"
      BY SMTT(40), <2>1, <2>2 DEF PeerGuarantee, Waits, Current
    <2> QED
      BY ZenonT(60), <2>1, <2>3 DEF PeerGuarantee, Waits, Current
  <1>c. \A j \in Jobs : status'[j] # status[j] =>
          status[j] \in {"PENDING", "RUNNING"} /\ status'[j] = "CANCELLING"
    BY Zenon DEF PeerGuarantee
  <1>1. LiveJobInv'
    <2> SUFFICES ASSUME NEW j \in Jobs
                 PROVE  /\ (status[j] = "PENDING" =>
                              Current(j) /\ Installing(j) /\ cur # j)'
                        /\ (status[j] = "RUNNING" => Current(j))'
                        /\ (Queued(j) =>
                              status[j] \in {"PENDING", "CANCELLING"} /\ cur # j)'
      BY Zenon DEF LiveJobInv
    <2>1. Queued(j)' <=> Queued(j)
      BY ZenonT(60), <1>0 DEF Queued, InSeq
    <2>2. ASSUME status'[j] = "PENDING"
          PROVE  Current(j)' /\ Installing(j)' /\ cur' # j
      BY SMTT(60), <1>0, <1>b, <1>c, <2>2 DEF LiveJobInv, Installing
    <2>3. ASSUME status'[j] = "RUNNING"
          PROVE  Current(j)'
      BY Zenon, <1>b, <1>c, <2>3 DEF LiveJobInv
    <2>4. ASSUME Queued(j)
          PROVE  status'[j] \in {"PENDING", "CANCELLING"} /\ cur' # j
      BY ZenonT(60), <1>0, <1>c, <2>4 DEF LiveJobInv
    <2> QED
      BY Zenon, <2>1, <2>2, <2>3, <2>4
  <1>2. QueueInv'
    BY SMTT(40), <1>0 DEF QueueInv, InSeq
  <1>3. OrderInv'
    <2>1. /\ \A i \in 1 .. Len(channel) : channel[i] \in Jobs
          /\ \A i \in 1 .. Len(pending_applies) : pending_applies[i] \in Jobs
      BY Zenon, ElementOfSeq
    <2>2. \A i \in 1 .. Len(channel) :
            Current(channel[i])' => Current(channel[i])
      BY Zenon, <1>0, <1>a, <2>1 DEF Current
    <2>3. \A i \in 1 .. Len(pending_applies) :
            Current(pending_applies[i])' => Current(pending_applies[i])
      BY ZenonT(60), <1>0, <1>a, <2>1 DEF Current
    <2>4. cur # NoJob => (Current(cur)' => Current(cur))
      BY <1>0, <1>a DEF Current
    <2>5. \A j \in Jobs : Queued(j)' <=> Queued(j)
      BY ZenonT(60), <1>0 DEF Queued, InSeq
    <2> QED
      BY ZenonT(40), <1>0, <2>2, <2>3, <2>4, <2>5 DEF OrderInv
  <1>4. TracerInv'
    BY SMTT(60), <1>0, <1>a DEF TracerInv, Current, InSeq
  <1>5. WorkerInv'
    <2>1. CASE pc \in {"idle", "loop", "panic", "abort", "abort_recv"}
      BY Zenon, <1>0, <2>1 DEF WorkerInv
    <2>2. CASE pc \notin {"idle", "loop", "panic", "abort", "abort_recv"}
      <3>1. /\ cur \in Jobs /\ status[cur] \in {"RUNNING", "CANCELLING"}
            /\ status'[cur] \in {"RUNNING", "CANCELLING"}
            /\ status'[cur] = "RUNNING" => status[cur] = "RUNNING"
        BY ZenonT(60), <1>c, <2>2 DEF WorkerInv, WorkerSteps
      <3>2. pc = "start" /\ status[cur] = "RUNNING" => Current(cur)
        BY <3>1 DEF LiveJobInv
      <3>3. Current(cur) =>
              /\ Current(cur)'
              /\ truncated'[RegionOf(cur)] = truncated[RegionOf(cur)]
              /\ region_state'[RegionOf(cur)] = region_state[RegionOf(cur)]
              /\ kvstore'[RegionOf(cur)] = kvstore[RegionOf(cur)]
        BY Zenon, <1>0, <1>b, <3>1 DEF Current
      <3>4. (pc = "start" /\ status[cur] = "RUNNING" => Installing(cur))'
        BY Zenon, <1>0, <3>1, <3>2, <3>3 DEF WorkerInv, Installing
      <3>5. CASE pc # "start"
        BY ZenonT(60), <1>0, <2>2, <3>1, <3>3, <3>4, <3>5 DEF WorkerInv, Installing
      <3> QED
        BY Zenon, <1>0, <3>1, <3>4, <3>5 DEF WorkerInv
    <2> QED
      BY Zenon, <2>1, <2>2
  <1>6. AbortedJobIsCancelling'
    BY Zenon, <1>0, <1>c DEF AbortedJobIsCancelling
  <1>7. NoMismatchedPrehandle'
    BY Zenon, <1>0 DEF NoMismatchedPrehandle
  <1> QED
    BY ZenonT(60), <1>1, <1>2, <1>3, <1>4, <1>5, <1>6, <1>7

\* The disk, under every peer step.
LEMMA PeerKeepsDisk ==
  ASSUME IInv, NEW r \in Regions, PeerStep(r)
  PROVE  DiskInv' /\ NormalMeansInstalled' /\ NoDataAfterDestroy'
PROOF
  <1> USE DEF IInv, TypeInv, TypeOK, peerVars, diskVars, DiskInv,
              NormalMeansInstalled, NoDataAfterDestroy
  <1>1. CASE CreatePeer(r)
    BY SMTT(60), <1>1 DEF CreatePeer
  <1>2. CASE PersistSnapshotMeta(r)
    BY SMTT(60), <1>2 DEF PersistSnapshotMeta
  <1>3. CASE ScheduleApplyingSnapshot(r)
    <2>1. PICK n \in 1 .. MaxJobs : job' = [job EXCEPT ![r] = <<r, n>>]
      BY Zenon, <1>3 DEF ScheduleApplyingSnapshot
    <2>2. <<r, n>> \in Jobs /\ RegionOf(<<r, n>>) = r
      BY SMTT(60) DEF Jobs, RegionOf
    <2>3. /\ UNCHANGED <<peer, region_state, truncated, kvstore, dropped>>
          /\ snap_ctx' = [snap_ctx EXCEPT ![r] = "scheduled"]
          /\ snap_state' = [snap_state EXCEPT ![r] = "Applying"]
          /\ peer[r] = "alive"
      BY SMTT(60), <1>3 DEF ScheduleApplyingSnapshot
    <2> QED
      BY SMTT(60), <2>1, <2>2, <2>3
  <1>4. CASE CheckSnapStatus(r)
    BY SMTT(60), <1>4 DEF CheckSnapStatus, SnapStateAfter
  <1>5. CASE MaybeDestroyIdle(r)
    BY SMTT(60), <1>5 DEF MaybeDestroyIdle, PrepareDestroy
  <1>6. CASE CancelPending(r)
    BY SMTT(40), <1>6 DEF CancelPending, PrepareDestroy
  <1>7. CASE CancelRunning(r)
    BY Zenon, <1>7 DEF CancelRunning
  <1>8. CASE CancelEnded(r)
    BY SMTT(60), <1>8 DEF CancelEnded, PrepareDestroy, SnapStateAfter
  <1>9. CASE ObserveDestroy(r)
    BY SMTT(60), <1>9 DEF ObserveDestroy
  <1>10. CASE PersistTombstone(r)
    BY <1>10 DEF PersistTombstone
  <1> QED
    BY ZenonT(60), <1>1, <1>2, <1>3, <1>4, <1>5, <1>6, <1>7, <1>8, <1>9, <1>10 DEF PeerStep

\* A new job is scheduled for a region none of whose jobs may still install
\* data; it goes to the end of the worker's order.
LEMMA ScheduleKeepsInv ==
  ASSUME IInv, TypeInv', NEW r \in Regions, ScheduleApplyingSnapshot(r)
  PROVE  /\ LiveJobInv' /\ QueueInv' /\ OrderInv' /\ TracerInv' /\ WorkerInv'
         /\ AbortedJobIsCancelling' /\ NoMismatchedPrehandle'
PROOF
  <1>0. PICK n \in 1 .. MaxJobs :
          /\ status[<<r, n>>] = "unused"
          /\ status' = [status EXCEPT ![<<r, n>>] = "PENDING"]
          /\ job' = [job EXCEPT ![r] = <<r, n>>]
          /\ channel' = Append(channel, <<r, n>>)
    BY Zenon DEF ScheduleApplyingSnapshot
  <1> DEFINE new == <<r, n>>
  <1>1. new \in Jobs /\ RegionOf(new) = r
    BY DEF Jobs, RegionOf
  <1>3. /\ status[new] = "unused" /\ status' = [status EXCEPT ![new] = "PENDING"]
        /\ job' = [job EXCEPT ![r] = new] /\ channel' = Append(channel, new)
    BY SMTT(60), <1>0
  <1> HIDE DEF new
  <1>2. /\ UNCHANGED <<peer, truncated, region_state, kvstore, pending_applies, pc,
                       cur, key, tracer, task, task_key, held>>
        /\ snap_state' = [snap_state EXCEPT ![r] = "Applying"]
        /\ peer[r] = "alive" /\ snap_state[r] # "Applying"
        /\ region_state[r] = "Applying" /\ truncated[r] # 0
    BY DEF IInv, TypeInv, TypeOK, ScheduleApplyingSnapshot, DiskInv, diskVars,
           workerVars, taskVars
  <1>t. /\ channel \in Seq(Jobs) /\ pending_applies \in Seq(Jobs)
        /\ status \in [Jobs -> Statuses] /\ DOMAIN job = Regions
        /\ DOMAIN snap_state = Regions
        /\ cur \in Jobs \cup {NoJob}
        /\ pc \in {"idle", "loop"} <=> cur = NoJob
        /\ tracer \in [Regions -> Jobs \cup {NoJob}]
    BY ZenonT(40) DEF IInv, TypeInv, TypeOK, WorkerOK
  <1>4. ASSUME NEW j \in Jobs
        PROVE  /\ Current(j)' <=> j = new \/ Current(j)
               /\ Current(j) => RegionOf(j) # r
    <2>1. RegionOf(j) \in Regions
      BY RegionOfType
    <2>2. CASE RegionOf(j) = r
      BY Zenon, <1>1, <1>2, <1>3, <1>t, <2>1, <2>2 DEF Current
    <2>3. CASE RegionOf(j) # r
      BY Zenon, <1>1, <1>2, <1>3, <1>t, <2>1, <2>3 DEF Current
    <2> QED
      BY <2>2, <2>3
  <1>5. ASSUME NEW j \in Jobs
        PROVE  InSeq(j, channel') <=> InSeq(j, channel) \/ j = new
    BY Zenon, <1>1, <1>3, <1>t, InSeqAppend
  <1>6. ASSUME NEW j \in Jobs
        PROVE  Queued(j)' <=> j = new \/ Queued(j)
    BY Zenon, <1>2, <1>5 DEF Queued
  <1>7. cur # new /\ ~ Queued(new) /\ \A s \in Regions : tracer[s] # new
    <2>1. cur # new
      BY Zenon, <1>1, <1>3, <1>t, NoJobAssumption
         DEF IInv, WorkerInv, AbortedJobIsCancelling, NoMismatchedPrehandle,
             TypeInv, TypeOK, WorkerSteps
    <2>2. ~ Queued(new)
      BY Zenon, <1>1, <1>3 DEF IInv, LiveJobInv
    <2> QED
      BY Zenon, <1>1, <2>1, <2>2, NoJobAssumption DEF IInv, TracerInv, Queued
  <1>8. LiveJobInv'
    <2> SUFFICES ASSUME NEW j \in Jobs
                 PROVE  /\ (status[j] = "PENDING" =>
                              Current(j) /\ Installing(j) /\ cur # j)'
                        /\ (status[j] = "RUNNING" => Current(j))'
                        /\ (Queued(j) =>
                              status[j] \in {"PENDING", "CANCELLING"} /\ cur # j)'
      BY Zenon DEF LiveJobInv
    <2>1. CASE j = new
      BY ZenonT(40), <1>1, <1>2, <1>3, <1>t, <1>4, <1>7, <2>1 DEF Installing
    <2>2. CASE j # new
      <3>1. status'[j] = status[j] /\ cur' = cur
        BY Zenon, <1>2, <1>3, <1>t, <2>2
      <3>2. Installing(j) <=> Installing(j)'
        BY Zenon, <1>2 DEF Installing
      <3> QED
        BY ZenonT(40), <1>4, <1>6, <2>2, <3>1, <3>2 DEF IInv, LiveJobInv
    <2> QED
      BY <2>1, <2>2
  <1>e. /\ \A i \in 1 .. Len(channel) : channel[i] \in Jobs /\ channel[i] # new
        /\ \A i \in 1 .. Len(pending_applies) :
             pending_applies[i] \in Jobs /\ pending_applies[i] # new
    BY Zenon, <1>7, <1>t, ElementOfSeq DEF Queued, InSeq
  <1>c. /\ Len(channel') = Len(channel) + 1
        /\ channel'[Len(channel) + 1] = new
        /\ \A i \in 1 .. Len(channel) : channel'[i] = channel[i]
        /\ Len(channel) \in Nat
    BY SMTT(60), <1>1, <1>3, <1>t
  <1>9. QueueInv'
    <2>1. \A i, k \in 1 .. Len(channel') : channel'[i] = channel'[k] => i = k
      <3>0. \A i, k \in 1 .. Len(channel) : channel[i] = channel[k] => i = k
        BY Zenon DEF IInv, QueueInv
      <3> SUFFICES ASSUME NEW i \in 1 .. Len(channel'), NEW k \in 1 .. Len(channel'),
                          channel'[i] = channel'[k]
                   PROVE  i = k
        BY Zenon
      <3>1. /\ i \in 1 .. Len(channel) \/ i = Len(channel) + 1
            /\ k \in 1 .. Len(channel) \/ k = Len(channel) + 1
        BY SMTT(40), <1>c
      <3> QED
        BY Zenon, <1>c, <1>e, <3>0, <3>1
    <2>2. \A j \in Jobs : ~ (InSeq(j, channel') /\ InSeq(j, pending_applies))
      BY Zenon, <1>5, <1>7 DEF IInv, QueueInv, Queued
    <2> QED
      BY Zenon, <1>2, <2>1, <2>2 DEF IInv, QueueInv
  <1>10. OrderInv'
    <2>1. ASSUME NEW i \in 1 .. Len(channel)
          PROVE  Current(channel[i])' =>
                   Current(channel[i]) /\ RegionOf(channel[i]) # r
      <3>1. PICK j \in Jobs : j = channel[i] /\ j = channel'[i] /\ j # new
        BY Zenon, <1>c, <1>e
      <3>2. Current(channel[i])' <=> Current(j)'
        BY Zenon, <3>1 DEF Current
      <3> QED
        BY Zenon, <1>4, <3>1, <3>2
    <2>2. ASSUME NEW i \in 1 .. Len(pending_applies)
          PROVE  Current(pending_applies[i])' =>
                   Current(pending_applies[i]) /\ RegionOf(pending_applies[i]) # r
      <3>1. PICK j \in Jobs :
              j = pending_applies[i] /\ j = pending_applies'[i] /\ j # new
        BY ZenonT(60), <1>2, <1>e
      <3>2. Current(pending_applies[i])' <=> Current(j)'
        BY <3>1 DEF Current
      <3> QED
        BY Zenon, <1>4, <3>1, <3>2
    <2>3. cur # NoJob =>
            (Current(cur)' => Current(cur) /\ RegionOf(cur) # r)
      <3> SUFFICES ASSUME cur # NoJob
                   PROVE  Current(cur)' => Current(cur) /\ RegionOf(cur) # r
        BY Zenon
      <3>1. PICK j \in Jobs : j = cur /\ j = cur' /\ j # new
        BY Zenon, <1>2, <1>7, <1>t
      <3>2. Current(cur)' <=> Current(j)'
        BY Zenon, <3>1 DEF Current
      <3> QED
        BY <1>4, <3>1, <3>2
    <2>4. \A i, k \in 1 .. Len(channel') :
            i < k /\ RegionOf(channel'[i]) = RegionOf(channel'[k])
              => ~ Current(channel[i])'
      <3> SUFFICES ASSUME NEW i \in 1 .. Len(channel'), NEW k \in 1 .. Len(channel'),
                          i < k, RegionOf(channel'[i]) = RegionOf(channel'[k])
                   PROVE  ~ Current(channel[i])'
        BY Zenon
      <3>1. i \in 1 .. Len(channel) /\ channel'[i] = channel[i]
        BY SMTT(40), <1>c
      <3>2. CASE k \in 1 .. Len(channel)
        BY Zenon, <1>c, <2>1, <3>1, <3>2 DEF IInv, OrderInv
      <3>3. CASE k = Len(channel) + 1
        BY Zenon, <1>1, <1>c, <2>1, <3>1, <3>3
      <3> QED
        BY SMTT(60), <1>c, <3>2, <3>3
    <2>5. \A i \in 1 .. Len(pending_applies), k \in 1 .. Len(channel') :
            RegionOf(pending_applies[i]) = RegionOf(channel'[k])
              => ~ Current(pending_applies[i])'
      <3>0. \A i \in 1 .. Len(pending_applies), k \in 1 .. Len(channel) :
              RegionOf(pending_applies[i]) = RegionOf(channel[k])
                => ~ Current(pending_applies[i])
        BY Zenon DEF IInv, OrderInv
      <3> SUFFICES ASSUME NEW i \in 1 .. Len(pending_applies),
                          NEW k \in 1 .. Len(channel'),
                          RegionOf(pending_applies[i]) = RegionOf(channel'[k])
                   PROVE  ~ Current(pending_applies[i])'
        BY Zenon
      <3>1. k \in 1 .. Len(channel) \/ k = Len(channel) + 1
        BY SMTT(40), <1>c
      <3> QED
        BY Zenon, <1>1, <1>c, <2>2, <3>0, <3>1
    <2>6. \A j \in Jobs :
            cur # NoJob /\ Queued(j)' /\ RegionOf(j) = RegionOf(cur)
              => ~ Current(cur)'
      BY Zenon, <1>1, <1>6, <2>3 DEF IInv, OrderInv
    <2>7. \A i, k \in 1 .. Len(pending_applies) :
            i < k /\ RegionOf(pending_applies[i]) = RegionOf(pending_applies[k])
              => ~ Current(pending_applies[i])'
      BY Zenon, <2>2 DEF IInv, OrderInv
    <2> QED
      BY Zenon, <1>2, <2>4, <2>5, <2>6, <2>7 DEF OrderInv
  <1>11. TracerInv'
    BY ZenonT(60), <1>1, <1>2, <1>3, <1>4, <1>7, <1>t DEF IInv, TracerInv, Current
  <1>12. WorkerInv' /\ AbortedJobIsCancelling' /\ NoMismatchedPrehandle'
    <2>1. ASSUME cur # NoJob
          PROVE  status'[cur] = status[cur] /\ (Current(cur) => Current(cur)')
      <3>1. PICK j \in Jobs : j = cur /\ j = cur' /\ j # new
        BY Zenon, <1>2, <1>7, <1>t, <2>1
      <3>2. Current(cur)' <=> Current(j)'
        BY Zenon, <3>1 DEF Current
      <3>3. status'[j] = status[j]
        BY Zenon, <1>3, <1>t, <3>1
      <3> QED
        BY Zenon, <1>4, <3>1, <3>2, <3>3
    <2>2. UNCHANGED <<cur, pc, key, truncated, region_state, kvstore, held, task_key>>
      BY Zenon, <1>2
    <2>3. pc \in {"idle", "loop"} \/ cur # NoJob
      BY Zenon, <1>t
    <2> QED
      BY ZenonT(40), <2>1, <2>2, <2>3
         DEF IInv, WorkerInv, AbortedJobIsCancelling, NoMismatchedPrehandle,
             Installing
  <1> QED
    BY Zenon, <1>8, <1>9, <1>10, <1>11, <1>12

LEMMA PeerKeepsInv ==
  ASSUME IInv, TypeInv', NEW r \in Regions, PeerStep(r)
  PROVE  IInv'
PROOF
  BY PeerGuarantees, GuaranteeKeepsInv, ScheduleKeepsInv, PeerKeepsDisk DEF IInv
=============================================================================
