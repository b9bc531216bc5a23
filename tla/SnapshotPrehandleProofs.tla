---------------------- MODULE SnapshotPrehandleProofs ----------------------
(***************************************************************************)
(* SnapshotPrehandle: the steps of the region worker, the pool and the     *)
(* restart keep the inductive invariant; the theorems that follow.         *)
(***************************************************************************)
EXTENDS SnapshotPrehandlePeers

\* The steps of handle_apply that leave the queues, the statuses and the job alone.
Handling ==
  \/ OnTimeout \/ LeaveLoop \/ ApplySnapBegin \/ ApplySnapAbort
  \/ ApplySnapError \/ ApplySnapData \/ PostApplySnapshot \/ RecvPrehandled
  \/ RecvError \/ RetryPrehandle \/ WriteNormalState \/ CancelTakesTask

LEMMA HandlingKeepsInv ==
  ASSUME IInv, TypeInv', Handling
  PROVE  IInv'
PROOF
  <1> USE DEF peerVars, diskVars, queueVars, loopVars, workerVars, taskVars
  <1>0. UNCHANGED <<peer, snap_state, snap_ctx, job, truncated, status, channel,
                    pending_applies, cur, task_key>>
    BY ZenonT(40) DEF Handling, OnTimeout, LeaveLoop, ApplySnapBegin, ApplySnapAbort,
           ApplySnapError, ApplySnapData, PostApplySnapshot, RecvPrehandled,
           RecvError, RetryPrehandle, WriteNormalState, CancelTakesTask
  <1>1. QueueInv'
    BY Zenon, <1>0, QueueFrame DEF IInv
  <1>2. OrderInv'
    BY Zenon, <1>0, OrderFrame DEF IInv
  <1>t. /\ cur \in Jobs \cup {NoJob}
        /\ cur \in Jobs => RegionOf(cur) \in Regions
        /\ pc \in {"idle", "loop"} <=> cur = NoJob
        /\ pc \in WorkerSteps
        /\ region_state \in [Regions -> {"Tombstone", "Applying", "Normal"}]
        /\ kvstore \in [Regions -> Nat] /\ dropped \subseteq Regions
        /\ tracer \in [Regions -> Jobs \cup {NoJob}]
    BY ZenonT(40), RegionOfType DEF IInv, TypeInv, TypeOK, WorkerOK
  <1>3. CASE OnTimeout \/ LeaveLoop
    <2>1. /\ UNCHANGED <<region_state, kvstore, dropped, tracer, held, key>>
          /\ pc \in {"idle", "loop"} /\ pc' \in {"idle", "loop"}
      BY <1>3 DEF OnTimeout, LeaveLoop
    <2>2. DiskInv' /\ NormalMeansInstalled' /\ NoDataAfterDestroy'
      BY Zenon, <1>0, <2>1, DiskFrame DEF IInv
    <2>3. LiveJobInv'
      BY Zenon, <1>0, <2>1, LiveJobFrame DEF IInv
    <2>4. TracerInv'
      BY Zenon, <1>0, <2>1, TracerFrame DEF IInv
    <2>5. WorkerInv' /\ AbortedJobIsCancelling' /\ NoMismatchedPrehandle'
      BY <2>1 DEF WorkerInv, AbortedJobIsCancelling, NoMismatchedPrehandle
    <2> QED
      BY SMTT(60), <1>1, <1>2, <2>2, <2>3, <2>4, <2>5 DEF IInv
  <1>4. CASE ApplySnapBegin \/ ApplySnapAbort \/ ApplySnapError \/ ApplySnapData
    <2>1. /\ UNCHANGED <<region_state, kvstore, dropped, tracer, held>>
          /\ pc \in {"start", "apply"} /\ pc' \in {"apply", "abort", "fail", "post"}
          /\ pc' = "abort" => status[cur] = "CANCELLING"
          /\ pc' = "apply" => status[cur] # "CANCELLING"
          /\ pc' \in {"fail", "post"} => pc = "apply"
          /\ pc' = "post" => key' = truncated[RegionOf(cur)]
      BY Zenon, <1>4 DEF ApplySnapBegin, ApplySnapAbort, ApplySnapError, ApplySnapData
    <2>2. DiskInv' /\ NormalMeansInstalled' /\ NoDataAfterDestroy'
      BY Zenon, <1>0, <2>1, DiskFrame DEF IInv
    <2>3. LiveJobInv'
      BY Zenon, <1>0, <2>1, LiveJobFrame DEF IInv
    <2>4. TracerInv'
      BY Zenon, <1>0, <2>1, TracerFrame DEF IInv
    <2>5. cur \in Jobs /\ status[cur] \in {"RUNNING", "CANCELLING"}
      BY Zenon, <1>t, <2>1 DEF IInv, WorkerInv
    <2>6. pc' # "abort" => Current(cur) /\ Installing(cur)
      BY ZenonT(40), <2>1, <2>5 DEF IInv, WorkerInv, LiveJobInv
    <2>7. WorkerInv' /\ AbortedJobIsCancelling' /\ NoMismatchedPrehandle'
      BY Zenon, <1>0, <2>1, <2>5, <2>6
         DEF WorkerInv, AbortedJobIsCancelling, NoMismatchedPrehandle, Current,
             Installing
    <2> QED
      BY Zenon, <1>1, <1>2, <2>2, <2>3, <2>4, <2>7 DEF IInv
  <1>5. CASE PostApplySnapshot
    <2> DEFINE r == RegionOf(cur)
               t == tracer[r]
    <2>1. /\ UNCHANGED <<region_state, kvstore, dropped, key>>
          /\ pc = "post" /\ tracer' = [tracer EXCEPT ![r] = NoJob] /\ held' = t
          /\ pc' = IF t = NoJob THEN "retry"
                   ELSE IF task_key[t] # key THEN "panic" ELSE "recv"
      BY Zenon, <1>5 DEF PostApplySnapshot
    <2>2. /\ cur \in Jobs /\ status[cur] \in {"RUNNING", "CANCELLING"}
          /\ Current(cur) /\ Installing(cur) /\ key = truncated[r]
      BY Zenon, <1>t, <2>1 DEF IInv, WorkerInv
    <2>3. t # NoJob => task_key[t] = key
      <3> SUFFICES ASSUME t # NoJob PROVE task_key[t] = key
        BY Zenon
      <3>1. t \in Jobs /\ RegionOf(t) = r
        BY Zenon, <1>t, <2>2 DEF IInv, TracerInv
      <3>2. ~ InSeq(t, pending_applies)
        BY ZenonT(40), <1>t, <2>2, <3>1, NoJobAssumption DEF IInv, OrderInv, Queued
      <3>3. t = cur
        BY Zenon, <1>t, <2>2, <3>2 DEF IInv, TracerInv
      <3> QED
        BY ZenonT(40), <1>t, <2>2, <3>1, <3>3 DEF IInv, TracerInv
    <2>4. DiskInv' /\ NormalMeansInstalled' /\ NoDataAfterDestroy'
      BY Zenon, <1>0, <2>1, DiskFrame DEF IInv
    <2>5. LiveJobInv'
      BY Zenon, <1>0, <2>1, LiveJobFrame DEF IInv
    <2>6. TracerInv'
      <3> SUFFICES ASSUME NEW s \in Regions, tracer'[s] # NoJob
                   PROVE  /\ RegionOf(tracer'[s]) = s
                          /\ \/ InSeq(tracer[s], pending_applies)'
                             \/ tracer'[s] = cur' /\
                                pc' \in {"start", "apply", "post", "abort", "fail"}
                          /\ Current(tracer[s])' =>
                               task_key'[tracer'[s]] = truncated'[s]
        BY DEF TracerInv
      <3>1. s # r /\ tracer'[s] = tracer[s]
        BY Zenon, <1>t, <2>1
      <3>2. tracer[s] # cur
        BY Zenon, <3>1 DEF IInv, TracerInv
      <3> QED
        BY Zenon, <1>0, <3>1, <3>2 DEF IInv, TracerInv, Current, InSeq
    <2>7. WorkerInv' /\ AbortedJobIsCancelling' /\ NoMismatchedPrehandle'
      BY <1>0, <2>1, <2>2, <2>3
         DEF WorkerInv, AbortedJobIsCancelling, NoMismatchedPrehandle, Current,
             Installing
    <2> QED
      BY Zenon, <1>1, <1>2, <2>4, <2>5, <2>6, <2>7 DEF IInv
  <1>6. CASE RecvError
    <2>1. /\ UNCHANGED <<region_state, kvstore, dropped, key, tracer>>
          /\ pc = "recv" /\ pc' = "retry"
      BY Zenon, <1>6 DEF RecvError
    <2>2. DiskInv' /\ NormalMeansInstalled' /\ NoDataAfterDestroy'
      BY Zenon, <1>0, <2>1, DiskFrame DEF IInv
    <2>3. LiveJobInv'
      BY Zenon, <1>0, <2>1, LiveJobFrame DEF IInv
    <2>4. TracerInv'
      BY Zenon, <1>0, <2>1, TracerFrame DEF IInv
    <2>5. WorkerInv' /\ AbortedJobIsCancelling' /\ NoMismatchedPrehandle'
      BY <1>0, <2>1 DEF IInv, WorkerInv, AbortedJobIsCancelling,
             NoMismatchedPrehandle, Current, Installing
    <2> QED
      BY Zenon, <1>1, <1>2, <2>2, <2>3, <2>4, <2>5 DEF IInv
  <1>7. CASE RecvPrehandled \/ RetryPrehandle
    <2>1. /\ UNCHANGED <<region_state, key, tracer>>
          /\ pc \in {"recv", "retry"} /\ pc' = "normal"
          /\ kvstore' = [kvstore EXCEPT ![RegionOf(cur)] = key]
          /\ dropped' = dropped \ {RegionOf(cur)}
      BY Zenon, <1>7 DEF RecvPrehandled, RetryPrehandle, InstallSnapshot, IInv, WorkerInv
    <2>2. /\ cur \in Jobs /\ status[cur] \in {"RUNNING", "CANCELLING"}
          /\ Current(cur) /\ Installing(cur) /\ key = truncated[RegionOf(cur)]
      BY Zenon, <1>t, <2>1 DEF IInv, WorkerInv
    <2>3. DiskInv' /\ NormalMeansInstalled' /\ NoDataAfterDestroy'
      BY ZenonT(40), <1>0, <1>t, <2>1, <2>2
         DEF IInv, DiskInv, NormalMeansInstalled, NoDataAfterDestroy, Current,
             Installing
    <2>4. LiveJobInv'
      BY Zenon, <1>0, <2>1, LiveJobFrame DEF IInv
    <2>5. TracerInv'
      BY Zenon, <1>0, <2>1, TracerFrame DEF IInv
    <2>6. WorkerInv' /\ AbortedJobIsCancelling' /\ NoMismatchedPrehandle'
      BY Zenon, <1>0, <1>t, <2>1, <2>2
         DEF WorkerInv, AbortedJobIsCancelling, NoMismatchedPrehandle, Current,
             Installing
    <2> QED
      BY Zenon, <1>1, <1>2, <2>3, <2>4, <2>5, <2>6 DEF IInv
  <1>8. CASE WriteNormalState
    <2>1. /\ UNCHANGED <<kvstore, dropped, tracer>>
          /\ pc = "normal" /\ pc' = "finish"
          /\ region_state' = [region_state EXCEPT ![RegionOf(cur)] = "Normal"]
      BY Zenon, <1>8 DEF WriteNormalState
    <2>2. /\ cur \in Jobs /\ status[cur] \in {"RUNNING", "CANCELLING"}
          /\ Current(cur) /\ Installing(cur)
          /\ kvstore[RegionOf(cur)] = truncated[RegionOf(cur)]
      BY Zenon, <1>t, <2>1 DEF IInv, WorkerInv
    <2>3. DiskInv' /\ NormalMeansInstalled' /\ NoDataAfterDestroy'
      BY ZenonT(60), <1>0, <1>t, <2>1, <2>2
         DEF IInv, DiskInv, NormalMeansInstalled, NoDataAfterDestroy, Current
    <2>4. \A j \in Jobs : status[j] = "PENDING" => RegionOf(j) # RegionOf(cur)
      BY SMTT(60), <2>2 DEF IInv, LiveJobInv, Current
    <2>5. LiveJobInv'
      BY SMTT(60), <1>0, <1>t, <2>1, <2>4, RegionOfType
         DEF IInv, LiveJobInv, Current, Installing, Queued, InSeq
    <2>6. TracerInv'
      BY Zenon, <1>0, <2>1, TracerFrame DEF IInv
    <2>7. WorkerInv' /\ AbortedJobIsCancelling' /\ NoMismatchedPrehandle'
      BY Zenon, <1>0, <2>1, <2>2
         DEF WorkerInv, AbortedJobIsCancelling, NoMismatchedPrehandle, Current
    <2> QED
      BY Zenon, <1>1, <1>2, <2>3, <2>5, <2>6, <2>7 DEF IInv
  <1>9. CASE CancelTakesTask
    <2>1. /\ UNCHANGED <<region_state, kvstore, dropped, key>>
          /\ pc \in {"abort", "fail"}
          /\ tracer' = [tracer EXCEPT ![RegionOf(cur)] = NoJob]
          /\ pc' = IF pc = "abort" THEN "abort_recv" ELSE "fail_recv"
      BY Zenon, <1>9 DEF CancelTakesTask
    <2>2. DiskInv' /\ NormalMeansInstalled' /\ NoDataAfterDestroy'
      BY Zenon, <1>0, <2>1, DiskFrame DEF IInv
    <2>3. LiveJobInv'
      BY Zenon, <1>0, <2>1, LiveJobFrame DEF IInv
    <2>4. TracerInv'
      <3> SUFFICES ASSUME NEW s \in Regions, tracer'[s] # NoJob
                   PROVE  /\ RegionOf(tracer'[s]) = s
                          /\ \/ InSeq(tracer[s], pending_applies)'
                             \/ tracer'[s] = cur' /\
                                pc' \in {"start", "apply", "post", "abort", "fail"}
                          /\ Current(tracer[s])' =>
                               task_key'[tracer'[s]] = truncated'[s]
        BY DEF TracerInv
      <3>1. s # RegionOf(cur) /\ tracer'[s] = tracer[s]
        BY <1>t, <2>1
      <3>2. tracer[s] # cur
        BY Zenon, <3>1 DEF IInv, TracerInv
      <3> QED
        BY SMTT(60), <1>0, <3>1, <3>2 DEF IInv, TracerInv, Current, InSeq
    <2>5. WorkerInv' /\ AbortedJobIsCancelling' /\ NoMismatchedPrehandle'
      BY Zenon, <1>0, <2>1 DEF IInv, WorkerInv, AbortedJobIsCancelling,
             NoMismatchedPrehandle, Current, Installing
    <2> QED
      BY Zenon, <1>1, <1>2, <2>2, <2>3, <2>4, <2>5 DEF IInv
  <1> QED
    BY SMTT(60), <1>3, <1>4, <1>5, <1>6, <1>7, <1>8, <1>9 DEF Handling

\* handle_apply ends: its job leaves the worker with a final status and without
\* a registered task.
LEMMA EndApplyKeepsInv ==
  ASSUME IInv, TypeInv', FinishApply \/ CancelWithoutTask \/ CancelRecv
  PROVE  IInv'
PROOF
  <1>0. /\ UNCHANGED <<peer, snap_state, snap_ctx, job, truncated, region_state,
                       kvstore, dropped, channel, pending_applies, tracer, task_key>>
        /\ pc \in {"finish", "abort", "fail", "abort_recv", "fail_recv"}
        /\ pc \in {"abort", "fail"} => tracer[RegionOf(cur)] = NoJob
        /\ cur' = NoJob /\ pc' = "loop"
    BY Zenon DEF FinishApply, CancelWithoutTask, CancelRecv, EndApply, peerVars,
           diskVars, queueVars, loopVars, taskVars
  <1>1. \E s \in Terminal : status' = [status EXCEPT ![cur] = s]
    BY Zenon DEF FinishApply, CancelWithoutTask, CancelRecv, EndApply,
           StatusAfterCancel, Terminal
  <1>2. /\ cur \in Jobs /\ RegionOf(cur) \in Regions
        /\ status \in [Jobs -> Statuses] /\ tracer \in [Regions -> Jobs \cup {NoJob}]
    BY Zenon, <1>0, RegionOfType DEF IInv, TypeInv, TypeOK, WorkerOK
  <1>3. DiskInv' /\ NormalMeansInstalled' /\ NoDataAfterDestroy'
    BY Zenon, <1>0, DiskFrame DEF IInv
  <1>4. \A j \in Jobs : j # cur => status'[j] = status[j]
    BY <1>1, <1>2
  <1>5. status'[cur] \in Terminal
    BY Zenon, <1>1, <1>2
  <1>6. QueueInv'
    BY Zenon, <1>0 DEF IInv, QueueInv, InSeq
  <1>7. LiveJobInv'
    <2> SUFFICES ASSUME NEW j \in Jobs
                 PROVE  /\ (status[j] = "PENDING" =>
                              Current(j) /\ Installing(j) /\ cur # j)'
                        /\ (status[j] = "RUNNING" => Current(j))'
                        /\ (Queued(j) =>
                              status[j] \in {"PENDING", "CANCELLING"} /\ cur # j)'
      BY Zenon DEF LiveJobInv
    <2>1. /\ Current(j)' <=> Current(j)
          /\ Installing(j)' <=> Installing(j)
          /\ Queued(j)' <=> Queued(j)
      BY <1>0 DEF Current, Installing, Queued, InSeq
    <2>2. cur' # j
      BY Zenon, <1>0, NoJobAssumption
    <2>3. CASE j = cur
      BY Zenon, <1>2, <1>5, <2>1, <2>3 DEF IInv, LiveJobInv, Terminal
    <2>4. CASE j # cur
      BY ZenonT(40), <1>4, <2>1, <2>2, <2>4 DEF IInv, LiveJobInv
    <2> QED
      BY Zenon, <2>3, <2>4
  <1>8. OrderInv'
    BY ZenonT(40), <1>0 DEF IInv, OrderInv, Current, Queued, InSeq
  <1>9. TracerInv'
    <2>1. \A r \in Regions : tracer[r] # NoJob => tracer[r] # cur \/ pc \notin {"abort", "fail"}
      BY ZenonT(40), <1>0, <1>2 DEF IInv, TracerInv
    <2> QED
      BY ZenonT(40), <1>0, <2>1 DEF IInv, TracerInv, Current, InSeq
  <1>10. WorkerInv' /\ AbortedJobIsCancelling' /\ NoMismatchedPrehandle'
    BY Zenon, <1>0 DEF WorkerInv, AbortedJobIsCancelling, NoMismatchedPrehandle
  <1> QED
    BY Zenon, <1>3, <1>6, <1>7, <1>8, <1>9, <1>10 DEF IInv

\* The pool changes nothing but the state of the tasks.
LEMMA PoolKeepsInv ==
  ASSUME IInv, TypeInv', StopPool \/ \E j \in Jobs : PrehandleDone(j)
  PROVE  IInv'
PROOF
  <1>1. UNCHANGED <<peerVars, diskVars, status, queueVars, workerVars, tracer,
                    task_key, held, kvstore, dropped>>
    BY Zenon DEF StopPool, PrehandleDone
  <1> USE <1>1 DEF IInv, peerVars, diskVars, queueVars, workerVars
  <1>2. DiskInv' /\ NormalMeansInstalled' /\ NoDataAfterDestroy'
    BY ZenonT(40) DEF DiskInv, NormalMeansInstalled, NoDataAfterDestroy
  <1>3. LiveJobInv'
    BY SMTT(40) DEF LiveJobInv, Current, Installing, Queued, InSeq
  <1>4. QueueInv'
    BY ZenonT(60) DEF QueueInv, InSeq
  <1>5. OrderInv'
    BY ZenonT(40) DEF OrderInv, Current, Queued, InSeq
  <1>6. TracerInv'
    BY ZenonT(40) DEF TracerInv, Current, InSeq
  <1>7. WorkerInv' /\ AbortedJobIsCancelling' /\ NoMismatchedPrehandle'
    BY Zenon DEF WorkerInv, AbortedJobIsCancelling, NoMismatchedPrehandle, Current,
           Installing
  <1> QED
    BY Zenon, <1>2, <1>3, <1>4, <1>5, <1>6, <1>7

\* RunApply moves a job from the head of the channel to the end of
\* pending_applies, which keeps the worker's order.
LEMMA RunApplyKeepsInv ==
  ASSUME IInv, TypeInv', RunApply
  PROVE  IInv'
PROOF
  <1> DEFINE h == Head(channel)
             r == RegionOf(h)
  <1>0. /\ UNCHANGED <<peer, snap_state, snap_ctx, job, truncated, region_state,
                       kvstore, dropped, status, cur, key, held>>
        /\ pc = "idle" /\ pc' = "loop" /\ channel # <<>>
        /\ channel' = Tail(channel) /\ pending_applies' = Append(pending_applies, h)
    BY Zenon DEF RunApply, RegisterPrehandle, peerVars, diskVars, taskVars
  <1>1. \/ UNCHANGED <<tracer, task_key>>
        \/ /\ tracer' = [tracer EXCEPT ![r] = h]
           /\ task_key' = [task_key EXCEPT ![h] = truncated[r]]
    BY Zenon DEF RunApply, RegisterPrehandle, taskVars
  <1>2. /\ channel \in Seq(Jobs) /\ pending_applies \in Seq(Jobs) /\ cur = NoJob
        /\ tracer \in [Regions -> Jobs \cup {NoJob}] /\ task_key \in [Jobs -> Nat]
    BY Zenon, <1>0 DEF IInv, TypeInv, TypeOK, WorkerOK
  <1>3. h \in Jobs /\ r \in Regions
    BY Zenon, <1>0, <1>2, HeadTailProperties, RegionOfType
  <1>4. ASSUME NEW j \in Jobs
        PROVE  /\ InSeq(j, channel) <=> j = h \/ InSeq(j, channel')
               /\ InSeq(j, pending_applies') <=> InSeq(j, pending_applies) \/ j = h
               /\ Queued(j)' <=> Queued(j)
    <2>1. InSeq(j, channel) <=> j = h \/ InSeq(j, channel')
      BY Zenon, <1>0, <1>2, InSeqTail
    <2>2. InSeq(j, pending_applies') <=> InSeq(j, pending_applies) \/ j = h
      BY Zenon, <1>0, <1>2, <1>3, InSeqAppend
    <2> QED
      BY Zenon, <2>1, <2>2 DEF Queued
  <1>5. /\ Len(channel') = Len(channel) - 1 /\ Len(channel) \in Nat \ {0}
        /\ channel[1] = h
        /\ \A i \in 1 .. Len(channel') : channel'[i] = channel[i + 1]
    BY SMTT(60), <1>0, <1>2
  <1>6. /\ Len(pending_applies') = Len(pending_applies) + 1
        /\ pending_applies'[Len(pending_applies) + 1] = h
        /\ \A i \in 1 .. Len(pending_applies) :
             pending_applies'[i] = pending_applies[i]
        /\ Len(pending_applies) \in Nat
    BY SMTT(40), <1>0, <1>2, <1>3
  <1>c. \A j : Current(j)' <=> Current(j)
    BY Zenon, <1>0 DEF Current
  <1> HIDE DEF h, r
  <1>7. DiskInv' /\ NormalMeansInstalled' /\ NoDataAfterDestroy'
    BY Zenon, <1>0, DiskFrame DEF IInv
  <1>8. LiveJobInv'
    BY Zenon, <1>0, <1>4 DEF IInv, LiveJobInv, Current, Installing
  <1>9. QueueInv'
    <2>1. \A i, k \in 1 .. Len(channel') : channel'[i] = channel'[k] => i = k
      BY SMTT(40), <1>5 DEF IInv, QueueInv
    <2>2. \A i \in 1 .. Len(pending_applies) : pending_applies[i] # h
      <3>1. InSeq(h, channel)
        BY Zenon, <1>3, <1>4
      <3> QED
        BY Zenon, <1>3, <3>1 DEF IInv, QueueInv, InSeq
    <2>3. \A i, k \in 1 .. Len(pending_applies') :
            pending_applies'[i] = pending_applies'[k] => i = k
      BY SMTT(60), <1>6, <2>2 DEF IInv, QueueInv
    <2>4. ~ InSeq(h, channel')
      BY SMTT(40), <1>5 DEF IInv, QueueInv, InSeq
    <2>5. \A j \in Jobs : ~ (InSeq(j, channel') /\ InSeq(j, pending_applies'))
      BY Zenon, <1>4, <2>4 DEF IInv, QueueInv
    <2> QED
      BY Zenon, <2>1, <2>3, <2>5 DEF QueueInv
  <1>10. OrderInv'
    <2>1. \A i, k \in 1 .. Len(channel') :
            i < k /\ RegionOf(channel'[i]) = RegionOf(channel'[k])
              => ~ Current(channel'[i])
      <3>1. \A i, k \in 1 .. Len(channel) :
              i < k /\ RegionOf(channel[i]) = RegionOf(channel[k]) => ~ Current(channel[i])
        BY Zenon DEF IInv, OrderInv
      <3>2. SUFFICES ASSUME NEW i \in 1 .. Len(channel'), NEW k \in 1 .. Len(channel'), i < k,
                            RegionOf(channel'[i]) = RegionOf(channel'[k])
                     PROVE  ~ Current(channel'[i])
        BY Zenon
      <3>3. i + 1 \in 1 .. Len(channel) /\ k + 1 \in 1 .. Len(channel) /\ i + 1 < k + 1
        BY SMTT(60), <1>5, <3>2
      <3>4. channel'[i] = channel[i + 1] /\ channel'[k] = channel[k + 1]
        BY Zenon, <1>5
      <3> QED
        BY Zenon, <3>1, <3>2, <3>3, <3>4
    <2>2. \A i, k \in 1 .. Len(pending_applies') :
            i < k /\ RegionOf(pending_applies'[i]) = RegionOf(pending_applies'[k])
              => ~ Current(pending_applies'[i])
      <3> TAKE i, k \in 1 .. Len(pending_applies')
      <3> HAVE i < k /\ RegionOf(pending_applies'[i]) = RegionOf(pending_applies'[k])
      <3>1. i \in 1 .. Len(pending_applies) /\ 1 \in 1 .. Len(channel)
        BY SMTT(40), <1>5, <1>6
      <3>2. CASE k \in 1 .. Len(pending_applies)
        BY Zenon, <1>6, <3>1, <3>2 DEF IInv, OrderInv
      <3>3. CASE k = Len(pending_applies) + 1
        BY ZenonT(40), <1>5, <1>6, <3>1, <3>3 DEF IInv, OrderInv
      <3> QED
        BY SMTT(40), <1>6, <3>2, <3>3
    <2>3. \A i \in 1 .. Len(pending_applies'), k \in 1 .. Len(channel') :
            RegionOf(pending_applies'[i]) = RegionOf(channel'[k])
              => ~ Current(pending_applies'[i])
      <3> TAKE i \in 1 .. Len(pending_applies'), k \in 1 .. Len(channel')
      <3>1. k + 1 \in 1 .. Len(channel) /\ 1 \in 1 .. Len(channel) /\ 1 < k + 1
        BY SMTT(40), <1>5
      <3>2. CASE i \in 1 .. Len(pending_applies)
        BY Zenon, <1>5, <1>6, <3>1, <3>2 DEF IInv, OrderInv
      <3>3. CASE i = Len(pending_applies) + 1
        BY Zenon, <1>5, <1>6, <3>1, <3>3 DEF IInv, OrderInv
      <3> QED
        BY SMTT(40), <1>6, <3>2, <3>3
    <2> QED
      BY ZenonT(60), <1>0, <1>2, <2>1, <2>2, <2>3 DEF OrderInv, Current
  <1>11. TracerInv'
    <2> SUFFICES ASSUME NEW s \in Regions, tracer'[s] # NoJob
                 PROVE  /\ RegionOf(tracer'[s]) = s
                        /\ InSeq(tracer'[s], pending_applies')
                        /\ Current(tracer'[s]) =>
                             task_key'[tracer'[s]] = truncated[s]
      BY ZenonT(40), <1>0 DEF TracerInv, Current
    <2>1. CASE UNCHANGED <<tracer, task_key>>
      BY Zenon, <1>0, <1>2, <1>4, <2>1, NoJobAssumption DEF IInv, TracerInv
    <2>2. CASE /\ tracer' = [tracer EXCEPT ![r] = h]
               /\ task_key' = [task_key EXCEPT ![h] = truncated[r]]
      <3>1. CASE s = r
        BY Zenon, <1>2, <1>3, <1>4, <2>2, <3>1 DEF r
      <3>2. CASE s # r
        <4>1. tracer'[s] = tracer[s] /\ tracer[s] # h /\ tracer[s] \in Jobs
          BY Zenon, <1>2, <2>2, <3>2 DEF r, IInv, TracerInv
        <4> QED
          BY Zenon, <1>0, <1>2, <1>4, <2>2, <4>1 DEF IInv, TracerInv
      <3> QED
        BY Zenon, <3>1, <3>2
    <2> QED
      BY ZenonT(40), <1>1, <2>1, <2>2
  <1>12. WorkerInv' /\ AbortedJobIsCancelling' /\ NoMismatchedPrehandle'
    BY Zenon, <1>0 DEF WorkerInv, AbortedJobIsCancelling, NoMismatchedPrehandle
  <1> QED
    BY Zenon, <1>7, <1>8, <1>9, <1>10, <1>11, <1>12 DEF IInv

\* HandleApply takes the first job of pending_applies.
LEMMA HandleApplyKeepsInv ==
  ASSUME IInv, TypeInv', HandleApply
  PROVE  IInv'
PROOF
  <1> DEFINE h == Head(pending_applies)
  <1>0. /\ UNCHANGED <<peer, snap_state, snap_ctx, job, truncated, region_state,
                       kvstore, dropped, channel, tracer, task_key>>
        /\ pc = "loop" /\ pc' = "start" /\ pending_applies # <<>> /\ cur' = h
        /\ pending_applies' = Tail(pending_applies)
        /\ status' = [status EXCEPT ![h] = IF @ = "PENDING" THEN "RUNNING" ELSE @]
    BY Zenon DEF HandleApply, peerVars, diskVars, taskVars
  <1>1. /\ pending_applies \in Seq(Jobs) /\ cur = NoJob
        /\ status \in [Jobs -> Statuses]
        /\ tracer \in [Regions -> Jobs \cup {NoJob}]
    BY Zenon, <1>0 DEF IInv, TypeInv, TypeOK, WorkerOK
  <1>2. h \in Jobs
    BY <1>0, <1>1, HeadTailProperties
  <1>3. ASSUME NEW j \in Jobs
        PROVE  InSeq(j, pending_applies) <=> j = h \/ InSeq(j, pending_applies')
    BY Zenon, <1>0, <1>1, InSeqTail
  <1>4. /\ Len(pending_applies') = Len(pending_applies) - 1
        /\ Len(pending_applies) \in Nat \ {0}
        /\ pending_applies[1] = h
        /\ \A i \in 1 .. Len(pending_applies') :
             pending_applies'[i] = pending_applies[i + 1]
    BY SMTT(40), <1>0, <1>1
  <1> HIDE DEF h
  <1>5. ~ InSeq(h, pending_applies') /\ ~ InSeq(h, channel)
    <2>1. ~ InSeq(h, pending_applies')
      BY SMTT(60), <1>4 DEF IInv, QueueInv, InSeq
    <2> QED
      BY Zenon, <1>2, <1>3, <2>1 DEF IInv, QueueInv
  <1>6. /\ status[h] \in {"PENDING", "CANCELLING"}
        /\ status'[h] \in {"RUNNING", "CANCELLING"}
        /\ status'[h] = "RUNNING" => status[h] = "PENDING"
        /\ \A j \in Jobs : j # h => status'[j] = status[j]
    <2>1. status[h] \in {"PENDING", "CANCELLING"}
      BY Zenon, <1>2, <1>3 DEF IInv, LiveJobInv, Queued
    <2> QED
      BY SMTT(60), <1>0, <1>1, <1>2, <2>1
  <1>7. DiskInv' /\ NormalMeansInstalled' /\ NoDataAfterDestroy'
    BY Zenon, <1>0, DiskFrame DEF IInv
  <1>8. LiveJobInv'
    <2> SUFFICES ASSUME NEW j \in Jobs
                 PROVE  /\ (status[j] = "PENDING" =>
                              Current(j) /\ Installing(j) /\ cur # j)'
                        /\ (status[j] = "RUNNING" => Current(j))'
                        /\ (Queued(j) =>
                              status[j] \in {"PENDING", "CANCELLING"} /\ cur # j)'
      BY Zenon DEF LiveJobInv
    <2>1. /\ Current(j)' <=> Current(j)
          /\ Installing(j)' <=> Installing(j)
      BY Zenon, <1>0 DEF Current, Installing
    <2>2. Queued(j)' => Queued(j) /\ j # h
      BY Zenon, <1>0, <1>3, <1>5 DEF Queued
    <2>3. CASE j = h
      BY ZenonT(40), <1>2, <1>6, <2>1, <2>2, <2>3 DEF IInv, LiveJobInv
    <2>4. CASE j # h
      BY Zenon, <1>0, <1>6, <2>1, <2>2, <2>4 DEF IInv, LiveJobInv
    <2> QED
      BY <2>3, <2>4
  <1>9. QueueInv'
    <2>1. \A i, k \in 1 .. Len(pending_applies') :
            pending_applies'[i] = pending_applies'[k] => i = k
      BY <1>4 DEF IInv, QueueInv
    <2>2. \A j \in Jobs : ~ (InSeq(j, channel) /\ InSeq(j, pending_applies'))
      BY Zenon, <1>3 DEF IInv, QueueInv
    <2> QED
      BY Zenon, <1>0, <2>1, <2>2 DEF IInv, QueueInv
  <1>10. OrderInv'
    <2>1. \A i, k \in 1 .. Len(pending_applies') :
            i < k /\ RegionOf(pending_applies'[i]) = RegionOf(pending_applies'[k])
              => ~ Current(pending_applies'[i])
      <3> TAKE i, k \in 1 .. Len(pending_applies')
      <3>1. i + 1 \in 1 .. Len(pending_applies) /\ k + 1 \in 1 .. Len(pending_applies)
            /\ (i < k => i + 1 < k + 1)
        BY SMTT(40), <1>4
      <3> QED
        BY Zenon, <1>4, <3>1 DEF IInv, OrderInv
    <2>2. \A i \in 1 .. Len(pending_applies'), k \in 1 .. Len(channel) :
            RegionOf(pending_applies'[i]) = RegionOf(channel[k])
              => ~ Current(pending_applies'[i])
      <3> TAKE i \in 1 .. Len(pending_applies'), k \in 1 .. Len(channel)
      <3>1. i + 1 \in 1 .. Len(pending_applies)
        BY SMTT(40), <1>4
      <3> QED
        BY ZenonT(40), <1>4, <3>1 DEF IInv, OrderInv
    <2>3. ASSUME NEW j \in Jobs, Queued(j)', RegionOf(j) = RegionOf(h)
          PROVE  ~ Current(h)
      <3>0. 1 \in 1 .. Len(pending_applies)
        BY SMTT(40), <1>4
      <3>1. CASE InSeq(j, channel)
        <4>1. PICK k \in 1 .. Len(channel) : channel[k] = j
          BY Zenon, <3>1 DEF InSeq
        <4> QED
          BY Zenon, <1>4, <2>3, <3>0, <4>1 DEF IInv, OrderInv
      <3>2. CASE InSeq(j, pending_applies')
        <4>1. PICK k \in 1 .. Len(pending_applies') : pending_applies'[k] = j
          BY Zenon, <3>2 DEF InSeq
        <4>2. k + 1 \in 1 .. Len(pending_applies) /\ pending_applies[k + 1] = j
              /\ 1 < k + 1
          BY SMTT(60), <1>4, <4>1
        <4> QED
          BY Zenon, <1>4, <2>3, <3>0, <4>2 DEF IInv, OrderInv
      <3> QED
        BY Zenon, <1>0, <2>3, <3>1, <3>2 DEF Queued
    <2>4. \A i, k \in 1 .. Len(channel) :
            i < k /\ RegionOf(channel[i]) = RegionOf(channel[k])
              => ~ Current(channel[i])
      BY ZenonT(40) DEF IInv, OrderInv
    <2> QED
      BY ZenonT(60), <1>0, <2>1, <2>2, <2>3, <2>4 DEF OrderInv, Current
  <1>11. TracerInv'
    <2> SUFFICES ASSUME NEW s \in Regions, tracer[s] # NoJob
                 PROVE  /\ RegionOf(tracer[s]) = s
                        /\ InSeq(tracer[s], pending_applies') \/ tracer[s] = h
                        /\ Current(tracer[s]) => task_key[tracer[s]] = truncated[s]
      BY ZenonT(40), <1>0 DEF TracerInv, Current
    <2> QED
      BY ZenonT(40), <1>1, <1>3, NoJobAssumption DEF IInv, TracerInv
  <1>12. WorkerInv' /\ AbortedJobIsCancelling' /\ NoMismatchedPrehandle'
    BY Zenon, <1>0, <1>2, <1>6
       DEF IInv, LiveJobInv, WorkerInv, AbortedJobIsCancelling,
           NoMismatchedPrehandle, Installing
  <1> QED
    BY Zenon, <1>7, <1>8, <1>9, <1>10, <1>11, <1>12 DEF IInv

\* After a restart every job is new: one for each region left Applying.
LEMMA RestartEstablishesInv ==
  ASSUME IInv, TypeInv', Restart
  PROVE  IInv'
PROOF
  <1> DEFINE applying == {r \in Regions : region_state[r] = "Applying"}
  <1>0. /\ UNCHANGED <<truncated, region_state, kvstore, dropped>>
        /\ peer' = [r \in Regions |->
                      IF region_state[r] = "Tombstone" THEN "absent" ELSE "alive"]
        /\ snap_state' = [r \in Regions |->
                            IF r \in applying THEN "Applying" ELSE "Relax"]
        /\ snap_ctx' = [r \in Regions |-> "none"]
        /\ job' = [r \in Regions |-> IF r \in applying THEN <<r, 1>> ELSE NoJob]
        /\ status' = [j \in Jobs |->
              IF j \in applying \X {1} THEN "PENDING" ELSE "unused"]
        /\ channel' \in Orders(applying \X {1}) /\ pending_applies' = <<>>
        /\ pc' = "idle" /\ cur' = NoJob
        /\ tracer' = [r \in Regions |-> NoJob]
    BY DEF Restart, diskVars
  <1>1. /\ applying \X {1} \subseteq Jobs
        /\ \A r \in applying : <<r, 1>> \in Jobs /\ RegionOf(<<r, 1>>) = r
        /\ \A j \in applying \X {1} : RegionOf(j) \in applying /\ j = <<RegionOf(j), 1>>
    BY SMTT(40), BoundsAssumption DEF Jobs, RegionOf
  <1>2. IsFiniteSet(applying \X {1})
    BY Zenon, RegionsAssumption, FS_Subset, FS_Product, FS_Singleton
  <1>3. /\ channel' \in Seq(applying \X {1})
        /\ \A i, k \in 1 .. Len(channel') : channel'[i] = channel'[k] => i = k
    BY SMTT(60), <1>0, <1>2, OrdersType
  <1>4. \A i \in 1 .. Len(channel') : channel'[i] \in applying \X {1}
    BY SMTT(60), <1>3, ElementOfSeq
  <1>5. \A j : ~ InSeq(j, pending_applies')
    BY SMTT(40), <1>0 DEF InSeq
  <1>6. DiskInv' /\ NormalMeansInstalled' /\ NoDataAfterDestroy'
    <2>1. \A r \in Regions : snap_state'[r] = "Applying" =>
            job'[r] \in Jobs /\ RegionOf(job'[r]) = r
      BY Zenon, <1>0, <1>1
    <2> QED
      BY ZenonT(40), <1>0, <2>1 DEF IInv, TypeInv, TypeOK, DiskInv, NormalMeansInstalled,
             NoDataAfterDestroy
  <1>7. LiveJobInv'
    <2> SUFFICES ASSUME NEW j \in Jobs
                 PROVE  /\ (status[j] = "PENDING" =>
                              Current(j) /\ Installing(j) /\ cur # j)'
                        /\ (status[j] = "RUNNING" => Current(j))'
                        /\ (Queued(j) =>
                              status[j] \in {"PENDING", "CANCELLING"} /\ cur # j)'
      BY Zenon DEF LiveJobInv
    <2>1. cur' # j /\ status'[j] # "RUNNING"
      BY Zenon, <1>0, NoJobAssumption
    <2>2. ASSUME status'[j] = "PENDING"
          PROVE  Current(j)' /\ Installing(j)'
      <3>1. j \in applying \X {1}
        BY Zenon, <1>0, <2>2
      <3> QED
        BY Zenon, <1>0, <1>1, <3>1 DEF IInv, DiskInv, Current, Installing
    <2>3. ASSUME Queued(j)'
          PROVE  status'[j] = "PENDING"
      <3>1. j \in applying \X {1}
        BY Zenon, <1>4, <1>5, <2>3 DEF Queued, InSeq
      <3> QED
        BY Zenon, <1>0, <3>1
    <2> QED
      BY Zenon, <2>1, <2>2, <2>3
  <1>8. QueueInv'
    BY SMTT(60), <1>0, <1>3, <1>5 DEF QueueInv
  <1>9. OrderInv'
    <2>1. \A i, k \in 1 .. Len(channel') :
            RegionOf(channel'[i]) = RegionOf(channel'[k]) => i = k
      <3> SUFFICES ASSUME NEW i \in 1 .. Len(channel'), NEW k \in 1 .. Len(channel'),
                          RegionOf(channel'[i]) = RegionOf(channel'[k])
                   PROVE  i = k
        BY Zenon
      <3>1. /\ channel'[i] = <<RegionOf(channel'[i]), 1>>
            /\ channel'[k] = <<RegionOf(channel'[k]), 1>>
        BY Zenon, <1>1, <1>4
      <3>2. channel'[i] = channel'[k]
        BY Zenon, <3>1
      <3> QED
        BY Zenon, <1>3, <3>2
    <2>2. \A i, k \in 1 .. Len(channel') : i < k => i # k
      OBVIOUS
    <2>3. 1 .. Len(pending_applies') = {}
      BY <1>0
    <2> QED
      BY Zenon, <1>0, <2>1, <2>2, <2>3 DEF OrderInv
  <1>10. TracerInv' /\ WorkerInv' /\ AbortedJobIsCancelling' /\ NoMismatchedPrehandle'
    BY Zenon, <1>0 DEF TracerInv, WorkerInv, AbortedJobIsCancelling, NoMismatchedPrehandle
  <1> QED
    BY ZenonT(60), <1>6, <1>7, <1>8, <1>9, <1>10 DEF IInv

LEMMA InvInit == Init => IInv
PROOF
  <1> SUFFICES ASSUME Init PROVE IInv
    BY Zenon
  <1>1. \A j : ~ InSeq(j, channel) /\ ~ InSeq(j, pending_applies)
    BY SMTT(40) DEF Init, InSeq
  <1>2. DiskInv /\ NormalMeansInstalled /\ NoDataAfterDestroy
    BY Zenon DEF Init, DiskInv, NormalMeansInstalled, NoDataAfterDestroy
  <1>3. LiveJobInv
    BY Zenon, <1>1 DEF Init, LiveJobInv, Queued
  <1>4. QueueInv /\ OrderInv
    BY SMTT(60), <1>1 DEF Init, QueueInv, OrderInv, Queued
  <1>5. TracerInv /\ WorkerInv /\ AbortedJobIsCancelling /\ NoMismatchedPrehandle
    BY DEF Init, TracerInv, WorkerInv, AbortedJobIsCancelling, NoMismatchedPrehandle
  <1> QED
    BY SMTT(60), <1>2, <1>3, <1>4, <1>5, TypeInit DEF IInv

LEMMA InvNext ==
  ASSUME IInv, [Next]_vars
  PROVE  IInv'
PROOF
  <1>0. TypeInv'
    BY TypeNext DEF IInv
  <1>1. CASE \E r \in Regions : PeerStep(r)
    BY Zenon, <1>0, <1>1, PeerKeepsInv
  <1>2. CASE WorkerStep
    BY Zenon, <1>0, <1>2, RunApplyKeepsInv, HandleApplyKeepsInv, HandlingKeepsInv,
       EndApplyKeepsInv DEF WorkerStep, Handling
  <1>3. CASE StopPool \/ \E j \in Jobs : PrehandleDone(j)
    BY <1>0, <1>3, PoolKeepsInv
  <1>4. CASE Restart
    BY Zenon, <1>0, <1>4, RestartEstablishesInv
  <1>5. CASE UNCHANGED vars
    <2>1. UNCHANGED <<peer, snap_state, snap_ctx, job, truncated, region_state,
                      kvstore, dropped, status, channel, pending_applies, pc, cur,
                      key, tracer, task_key, held>>
      BY Zenon, <1>5 DEF vars, peerVars, diskVars, queueVars, workerVars, taskVars
    <2>2. /\ DiskInv' /\ NormalMeansInstalled' /\ NoDataAfterDestroy'
          /\ LiveJobInv' /\ QueueInv' /\ OrderInv' /\ TracerInv'
      BY Zenon, <2>1, DiskFrame, LiveJobFrame, QueueFrame, OrderFrame, TracerFrame DEF IInv
    <2>3. WorkerInv' /\ AbortedJobIsCancelling' /\ NoMismatchedPrehandle'
      BY Zenon, <2>1 DEF IInv, WorkerInv, AbortedJobIsCancelling, NoMismatchedPrehandle,
             Current, Installing
    <2> QED
      BY Zenon, <1>0, <2>2, <2>3 DEF IInv
  <1> QED
    BY SMTT(60), <1>1, <1>2, <1>3, <1>4, <1>5 DEF Next

\* The inductive invariant holds throughout.
THEOREM Invariant == Spec => []IInv
PROOF
  BY InvInit, InvNext, PTL DEF Spec

\* A region the raftstore calls Normal has that snapshot in the engine-store,
\* for every number of regions, jobs, snapshots and crashes.
THEOREM InstalledWhenNormal == Spec => []NormalMeansInstalled
PROOF
  <1>1. IInv => NormalMeansInstalled
    BY DEF IInv
  <1> QED
    BY <1>1, Invariant, PTL

\* A destroyed region is never written again by a job of its old peer.
THEOREM DestroyedStaysEmpty == Spec => []NoDataAfterDestroy
PROOF
  <1>1. IInv => NoDataAfterDestroy
    BY DEF IInv
  <1> QED
    BY <1>1, Invariant, PTL

\* post_apply_snapshot never meets a task for another snapshot.
THEOREM PrehandleMatches == Spec => []NoMismatchedPrehandle
PROOF
  <1>1. IInv => NoMismatchedPrehandle
    BY DEF IInv
  <1> QED
    BY <1>1, Invariant, PTL

\* The assertion of handle_apply on the status of an aborted job never fails.
THEOREM AbortAssertionHolds == Spec => []AbortedJobIsCancelling
PROOF
  <1>1. IInv => AbortedJobIsCancelling
    BY SMTT(60) DEF IInv
  <1> QED
    BY <1>1, Invariant, PTL

-----------------------------------------------------------------------------
(* The counter of the pre-handle pool, and the order of installations.     *)

Registered == {r \in Regions : tracer[r] # NoJob}

LEMMA RegisteredFinite == IsFiniteSet(Registered) /\ Cardinality(Registered) \in Nat
PROOF
  BY RegionsAssumption, FS_Subset, FS_CardinalityType DEF Registered

\* Registering a task of a region, or taking it, changes the number of
\* registered tasks by at most one.
LEMMA RegisteredSteps ==
  ASSUME TypeInv, NEW r \in Regions
  PROVE  /\ \A j \in Jobs : tracer' = [tracer EXCEPT ![r] = j] =>
              Cardinality(Registered)' =
                IF tracer[r] = NoJob THEN Cardinality(Registered) + 1
                                     ELSE Cardinality(Registered)
         /\ tracer' = [tracer EXCEPT ![r] = NoJob] =>
              Cardinality(Registered)' =
                IF tracer[r] = NoJob THEN Cardinality(Registered)
                                     ELSE Cardinality(Registered) - 1
PROOF
  <1>0. tracer \in [Regions -> Jobs \cup {NoJob}]
    BY DEF TypeInv, TypeOK
  <1>1. ASSUME NEW j \in Jobs, tracer' = [tracer EXCEPT ![r] = j]
        PROVE  Cardinality(Registered)' =
                 IF tracer[r] = NoJob THEN Cardinality(Registered) + 1
                                      ELSE Cardinality(Registered)
    <2>1. Registered' = Registered \cup {r}
      BY Zenon, <1>0, <1>1, NoJobAssumption DEF Registered
    <2>2. r \in Registered <=> tracer[r] # NoJob
      BY DEF Registered
    <2> QED
      BY SMTT(60), <2>1, <2>2, RegisteredFinite, FS_AddElement
  <1>2. ASSUME tracer' = [tracer EXCEPT ![r] = NoJob]
        PROVE  Cardinality(Registered)' =
                 IF tracer[r] = NoJob THEN Cardinality(Registered)
                                      ELSE Cardinality(Registered) - 1
    <2>1. Registered' = Registered \ {r}
      BY Zenon, <1>0, <1>2 DEF Registered
    <2>2. r \in Registered <=> tracer[r] # NoJob
      BY DEF Registered
    <2> QED
      BY ZenonT(60), <2>1, <2>2, RegisteredFinite, FS_RemoveElement
  <1> QED
    BY Zenon, <1>1, <1>2

LEMMA CountInit == Init => PendingCountExact
PROOF
  <1> SUFFICES ASSUME Init PROVE PendingCountExact
    OBVIOUS
  <1>1. {r \in Regions : tracer[r] # NoJob} = {}
    BY Zenon DEF Init
  <1> QED
    <2>1. pending_applies_count = 0 /\ pc # "recv"
      BY DEF Init
    <2> QED
      BY <1>1, <2>1, FS_EmptySet DEF PendingCountExact

LEMMA CountNext ==
  ASSUME IInv, IInv', PendingCountExact, [Next]_vars
  PROVE  PendingCountExact'
PROOF
  <1> DEFINE n == Cardinality(Registered)
             waiting == IF pc = "recv" THEN 1 ELSE 0
  <1>0. /\ pending_applies_count = n + waiting
        /\ PendingCountExact' <=> pending_applies_count' = n' + waiting'
    BY DEF PendingCountExact, Registered
  <1>1. n \in Nat /\ (UNCHANGED tracer => n' = n)
    BY RegisteredFinite DEF Registered
  <1>2. /\ TypeInv
        /\ cur # NoJob => cur \in Jobs /\ RegionOf(cur) \in Regions
        /\ tracer \in [Regions -> Jobs \cup {NoJob}]
    BY Zenon, RegionOfType DEF IInv, TypeInv, TypeOK
  <1>3. ASSUME UNCHANGED <<tracer, pending_applies_count>>, pc = "recv" <=> pc' = "recv"
        PROVE  PendingCountExact'
    BY SMTT(60), <1>0, <1>1, <1>3
  <1>4. CASE \E r \in Regions : PeerStep(r)
    BY ZenonT(60), <1>3, <1>4
       DEF PeerStep, CreatePeer, PersistSnapshotMeta, ScheduleApplyingSnapshot,
           CheckSnapStatus, MaybeDestroyIdle, CancelPending, CancelRunning, CancelEnded,
           ObserveDestroy, PersistTombstone, workerVars, taskVars
  <1>5. CASE RunApply
    <2> DEFINE j == Head(channel)
    <2>1. j \in Jobs /\ RegionOf(j) \in Regions
      BY Zenon, <1>2, <1>5, HeadTailProperties, RegionOfType DEF RunApply, TypeInv, TypeOK
    <2>2. CASE UNCHANGED taskVars
      BY SMTT(60), <1>3, <1>5, <2>2 DEF RunApply, taskVars
    <2>3. CASE RegisterPrehandle(j)
      <3>1. /\ tracer' = [tracer EXCEPT ![RegionOf(j)] = j]
            /\ pending_applies_count' =
                 (IF tracer[RegionOf(j)] = NoJob THEN pending_applies_count
                                                ELSE pending_applies_count - 1) + 1
            /\ pc # "recv" /\ pc' # "recv"
        BY <1>5, <2>3 DEF RunApply, RegisterPrehandle
      <3>2. n' = IF tracer[RegionOf(j)] = NoJob THEN n + 1 ELSE n
        BY ZenonT(60), <1>2, <2>1, <3>1, RegisteredSteps
      <3> HIDE DEF n
      <3> QED
        BY SMTT(60), <1>0, <1>1, <3>1, <3>2
    <2> QED
      BY Zenon, <1>5, <2>2, <2>3 DEF RunApply
  <1>6. CASE \/ OnTimeout \/ LeaveLoop \/ HandleApply \/ ApplySnapBegin \/ ApplySnapAbort
             \/ ApplySnapError \/ ApplySnapData \/ RetryPrehandle \/ WriteNormalState
             \/ FinishApply \/ CancelWithoutTask
    BY SMTT(60), <1>3, <1>6
       DEF OnTimeout, LeaveLoop, HandleApply, ApplySnapBegin, ApplySnapAbort,
           ApplySnapError, ApplySnapData, RetryPrehandle, WriteNormalState, FinishApply,
           CancelWithoutTask, EndApply, taskVars
  <1>7. CASE PostApplySnapshot
    <2>1. RegionOf(cur) \in Regions
      BY Zenon, <1>2, <1>7 DEF PostApplySnapshot, TypeInv, WorkerOK
    <2>2. n' = IF tracer[RegionOf(cur)] = NoJob THEN n ELSE n - 1
      BY ZenonT(60), <1>2, <1>7, <2>1, RegisteredSteps DEF PostApplySnapshot
    <2>3. /\ pc = "post" /\ pc' # "panic" /\ UNCHANGED pending_applies_count
          /\ pc' = "recv" <=> tracer[RegionOf(cur)] # NoJob
      BY <1>7 DEF PostApplySnapshot, IInv, NoMismatchedPrehandle
    <2> HIDE DEF n
    <2> QED
      BY SMTT(60), <1>0, <1>1, <2>2, <2>3
  <1>8. CASE RecvPrehandled \/ RecvError
    <2>1. /\ pc = "recv" /\ pc' # "recv" /\ UNCHANGED tracer
          /\ pending_applies_count' = pending_applies_count - 1
      BY <1>8 DEF RecvPrehandled, RecvError
    <2> HIDE DEF n
    <2> QED
      BY SMTT(60), <1>0, <1>1, <2>1
  <1>9. CASE CancelTakesTask
    <2>1. RegionOf(cur) \in Regions
      BY Zenon, <1>2, <1>9 DEF CancelTakesTask, TypeInv, WorkerOK
    <2>2. n' = n - 1
      BY Zenon, <1>2, <1>9, <2>1, RegisteredSteps DEF CancelTakesTask
    <2>3. /\ pc # "recv" /\ pc' # "recv"
          /\ pending_applies_count' = pending_applies_count - 1
      BY SMTT(60), <1>9 DEF CancelTakesTask
    <2> HIDE DEF n
    <2> QED
      BY SMTT(60), <1>0, <1>1, <2>2, <2>3
  <1>10. CASE CancelRecv
    BY <1>3, <1>10 DEF CancelRecv, EndApply
  <1>11. CASE StopPool \/ \E j \in Jobs : PrehandleDone(j)
    BY Zenon, <1>3, <1>11 DEF StopPool, PrehandleDone, workerVars
  <1>12. CASE Restart
    <2>1. Registered' = {}
      BY Zenon, <1>12 DEF Restart, Registered
    <2>2. n' = 0
      BY <2>1, FS_EmptySet
    <2> HIDE DEF n
    <2> QED
      BY SMTT(60), <1>0, <1>12, <2>2 DEF Restart
  <1>13. CASE UNCHANGED vars
    BY Zenon, <1>3, <1>13 DEF vars, workerVars, taskVars
  <1> QED
    BY Zenon, <1>4, <1>5, <1>6, <1>7, <1>8, <1>9, <1>10, <1>11, <1>12, <1>13
       DEF Next, WorkerStep

\* The counter of the pre-handle pool is exact, however many regions register,
\* replace, cancel and retry: no slot of the pool leaks or is freed twice.
THEOREM PoolCounterExact == Spec => []PendingCountExact
PROOF
  BY Invariant, CountInit, CountNext, PTL DEF Spec

\* What the engine-store has of a region is no newer than the last persisted
\* snapshot, and that one no newer than the leader's last.
ForwardInv ==
  \A r \in Regions :
    /\ kvstore[r] <= leader_index[r] /\ truncated[r] <= leader_index[r]
    /\ truncated[r] # 0 => kvstore[r] <= truncated[r]

Forward == \A r \in Regions : kvstore'[r] >= kvstore[r] \/ kvstore'[r] = 0

LEMMA ForwardInit == Init => ForwardInv
PROOF
  BY DEF Init, ForwardInv

LEMMA ForwardNext ==
  ASSUME IInv, ForwardInv, [Next]_vars
  PROVE  ForwardInv' /\ Forward
PROOF
  <1>0. /\ truncated \in [Regions -> Nat] /\ leader_index \in [Regions -> Nat]
        /\ kvstore \in [Regions -> Nat]
        /\ cur # NoJob => RegionOf(cur) \in Regions
        /\ pc \in {"recv", "retry"} => cur # NoJob
    BY Zenon, RegionOfType DEF IInv, TypeInv, TypeOK, WorkerOK
  <1>1. ASSUME UNCHANGED <<kvstore, truncated, leader_index>>
        PROVE  ForwardInv' /\ Forward
    BY SMTT(60), <1>0, <1>1 DEF ForwardInv, Forward
  <1>2. CASE \E r \in Regions : PeerStep(r)
    <2>1. PICK r \in Regions : PeerStep(r)
      BY SMTT(60), <1>2
    <2>2. CASE PersistSnapshotMeta(r)
      BY SMTT(60), <1>0, <2>2 DEF PersistSnapshotMeta, ForwardInv, Forward
    <2>3. CASE ObserveDestroy(r)
      BY SMTT(60), <1>0, <2>3 DEF ObserveDestroy, ForwardInv, Forward, diskVars
    <2>4. CASE PersistTombstone(r)
      BY SMTT(60), <1>0, <2>4 DEF PersistTombstone, ForwardInv, Forward
    <2> QED
      BY ZenonT(60), <1>1, <2>1, <2>2, <2>3, <2>4
         DEF PeerStep, CreatePeer, ScheduleApplyingSnapshot, CheckSnapStatus,
             MaybeDestroyIdle, CancelPending, CancelRunning, CancelEnded, peerVars, diskVars
  <1>3. CASE RecvPrehandled \/ RetryPrehandle
    <2>1. /\ RegionOf(cur) \in Regions
          /\ truncated[RegionOf(cur)] # 0
          /\ kvstore' = [kvstore EXCEPT ![RegionOf(cur)] = truncated[RegionOf(cur)]]
          /\ UNCHANGED <<truncated, leader_index>>
      BY Zenon, <1>0, <1>3
         DEF RecvPrehandled, RetryPrehandle, InstallSnapshot, IInv, WorkerInv, Installing,
             peerVars, diskVars
    <2> QED
      BY <1>0, <2>1 DEF ForwardInv, Forward
  <1>4. CASE WorkerStep /\ ~ (RecvPrehandled \/ RetryPrehandle)
    BY ZenonT(60), <1>1, <1>4
       DEF WorkerStep, RunApply, OnTimeout, LeaveLoop, HandleApply, ApplySnapBegin,
           ApplySnapAbort, ApplySnapError, ApplySnapData, PostApplySnapshot, RecvError,
           WriteNormalState, FinishApply, CancelWithoutTask, CancelTakesTask, CancelRecv,
           EndApply, peerVars, diskVars
  <1>5. CASE StopPool \/ Restart \/ (\E j \in Jobs : PrehandleDone(j)) \/ UNCHANGED vars
    BY ZenonT(60), <1>1, <1>5 DEF StopPool, Restart, PrehandleDone, peerVars, diskVars, vars
  <1> QED
    BY Zenon, <1>2, <1>3, <1>4, <1>5 DEF Next

\* The engine-store never goes back to an older snapshot of a region: not after a
\* cancelled or failed job, a lost pre-handling or a crash between installing and
\* writing Normal.
THEOREM InstalledInOrder == Spec => InstallsForward
PROOF
  <1>1. IInv /\ ForwardInv /\ [Next]_vars => [Forward]_kvstore
    BY ForwardNext
  <1> QED
    BY <1>1, Invariant, ForwardInit, ForwardNext, PTL DEF Spec, InstallsForward, Forward
=============================================================================
