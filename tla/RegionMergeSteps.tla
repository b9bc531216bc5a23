-------------------------- MODULE RegionMergeSteps --------------------------
(***************************************************************************)
(* RegionMerge, for any histories of S and T and any number of crashes: no *)
(* assertion of the merge code fails, T absorbs the whole log of S up to   *)
(* the PrepareMerge, no data of S is dropped before what replaces it is on *)
(* disk, and the two regions never share a range in StoreMeta.             *)
(***************************************************************************)
EXTENDS RegionMerge, TLAPS

-----------------------------------------------------------------------------
(* The inductive invariant.  First S: its log, what it has applied, its mailbox. *)

N == Len(h.s)
L == Len(h.t)
Pending == CHOOSE f \in [SIdx -> SIdx] :
             InForce(h, f) /\ (Merge # 0 => StaysInForce(h, f, Commit))

(* What the CommitMerge does not carry is in S's log. *)
LogInv == sdisk.last <= sp.last /\ low <= sdisk.last + 1

(* kv has the last admin command that S has applied, and with it the PrepareMerge that is *)
(* in force.                                                                              *)
ApplyInv ==
  /\ kv.sapplied <= sa.applied
  /\ IF kv.s = "Tombstone" THEN sa.stopped /\ kv.merge = 0
     ELSE /\ kv.s = "Merging" <=> kv.merge # 0
          /\ \A i \in kv.sapplied .. sa.applied :
               Pending[i] = kv.merge \/ (sa.write /\ i = sa.applied)
  /\ sa.write => ~sa.stopped /\ sa.applied > kv.sapplied /\ h.s[sa.applied].k # "write"

(* The results in the mailbox take S's peer from the merge m it knows of to the merge  *)
(* p, through PrepareMerges up to n and their rollbacks.                                *)
Leads(q, m, p, n) ==
  \E f \in [0 .. Len(q) -> 0 .. n] :
    /\ f[0] = m /\ f[Len(q)] = p
    /\ \A i \in 1 .. Len(q) :
         /\ q[i].k = "prepare" => f[i] = q[i].at
         /\ q[i].k = "rollback" => f[i] = 0 /\ f[i - 1] = q[i].at
         /\ q[i].k \notin {"prepare", "rollback"} => f[i] = f[i - 1]

(* No result follows the one of the PrepareMerge at Commit. *)
Closed(q, m) ==
  /\ m = Commit => \A i \in 1 .. Len(q) : q[i].k \notin {"prepare", "rollback"}
  /\ \A i, j \in 1 .. Len(q) :
       i < j /\ q[i].k = "prepare" /\ q[i].at = Commit => q[j].k \notin {"prepare", "rollback"}

Once == Messages \ {"prepare", "rollback"}

(* A message is in the mailbox once; a CatchUpLogs asks for Commit, a result names a       *)
(* PrepareMerge.                                                                          *)
BoxOK(q) ==
  /\ \A i, j \in 1 .. Len(q) : q[i].k = q[j].k /\ q[i].k \in Once => i = j
  /\ \A i \in 1 .. Len(q) : /\ q[i].k = "catch_up" => q[i].at = Commit
                            /\ q[i].k = "prepare" => q[i].at # 0

MailInv ==
  /\ BoxOK(sbox)
  /\ sp.up => /\ \E p \in 0 .. kv.sapplied :
                   Leads(sbox, sp.merge, p, kv.sapplied) /\ (~sa.stopped => p = kv.merge)
              /\ Merge # 0 => Closed(sbox, sp.merge)

-----------------------------------------------------------------------------
(* T: its indexes, and what the engine-store has. *)

Installing == tp.inst.phase # "none"
Replacing == tp.inst.phase \in {"persisting", "persisted"}

(* The index of T that StoreMeta knows of. *)
Known == IF Replacing THEN tp.sent ELSE tp.applied

(* T's raft log on disk, and a snapshot, are ahead of everything that was applied. *)
DiskInv ==
  /\ tp.sent <= tdisk.commit /\ kv.tapplied <= tdisk.commit /\ es.tapplied <= tdisk.commit
  /\ tdisk.commit <= tdisk.last /\ tdisk.commit <= tp.commit /\ tdisk.last <= tp.last
  /\ tp.checked.idx # 0 => tp.checked.idx > tp.commit
  /\ tp.snap # 0 => /\ tdisk.commit <= tp.snap /\ tp.snap <= tp.commit
                    /\ tp.inst.idx <= tp.snap
  /\ ~Installing => tp.inst = NoSnap
  /\ Installing => tp.sent <= tp.inst.idx /\ tp.inst.idx <= tp.commit
  /\ tp.inst.phase = "persisting" => tdisk.commit <= tp.inst.idx
  /\ tp.inst.phase \in {"persisted", "applying", "installed"} =>
       kv.tapplied = tp.inst.idx /\ tdisk.commit = tp.inst.idx
  /\ kv.t = "Applying" <=> tp.inst.phase \in {"persisted", "applying"}

(* How far T's delegate is, and which of its results the peer has not seen.  While a   *)
(* snapshot is installed the delegate has nothing to do.                                *)
PositionInv ==
  /\ IF Installing
     THEN /\ tp.applied = tp.inst.idx /\ tbox = << >> /\ ta.wait = "no" /\ ~ta.write
          /\ ta.applied = IF Replacing THEN tp.sent ELSE tp.inst.idx
     ELSE /\ tp.applied <= ta.applied /\ ta.applied <= tp.sent
          /\ Len(tbox) + (IF ta.write THEN 1 ELSE 0) = ta.applied - tp.applied
          /\ \A i \in 1 .. Len(tbox) : tbox[i] = tp.applied + i
  /\ ta.wait # "no" => ta.applied + 1 = Merge /\ Merge <= tp.sent /\ ~ta.write
  /\ tp.inst.phase # "persisted" => kv.tapplied <= ta.applied
  /\ ta.applied >= Merge => kv.tapplied >= Merge \/ (ta.write /\ ta.applied = Merge)

VersionInv ==
  /\ meta.tver = TRegion[Known].ver /\ ta.ver = TRegion[ta.applied].ver
  /\ kv.tver = TRegion[kv.tapplied].ver

(* The engine-store on disk follows the one in memory and is never behind what kv says *)
(* of S and T; both are on the same side of the merge.                                  *)
StoreInv ==
  /\ esdisk.s = es.s /\ esdisk.absorbed = es.absorbed
  /\ esdisk.sapplied <= es.sapplied /\ esdisk.tapplied <= es.tapplied
  /\ es.tapplied >= Merge => esdisk.tapplied >= Merge
  /\ es.s => /\ es.sapplied >= sa.applied /\ esdisk.sapplied >= kv.sapplied
             /\ sa.write => esdisk.sapplied >= sa.applied
  /\ ~es.s => Merge # 0 /\ (esdisk.tapplied >= Merge \/ kv.tapplied >= Merge)
  /\ tp.inst.phase # "applying" => es.tapplied >= ta.applied
  /\ ta.write => esdisk.tapplied >= ta.applied
  /\ kv.t = "Normal" => esdisk.tapplied >= kv.tapplied

-----------------------------------------------------------------------------
(* S and T: who owns the range, and how far S's removal is. *)

Covers(i) == TRegion[i].covers

RangeInv ==
  /\ meta.s => ~Covers(Known)
  /\ ~meta.s => kv.s = "Tombstone"
  /\ kv.s = "Tombstone" => Merge # 0 /\ kv.tapplied >= Merge
  /\ kv.s # "Tombstone" => ~Covers(kv.tapplied)
  /\ tp.checked.destroy =>
       /\ tp.checked.idx # 0 /\ Covers(tp.checked.idx) /\ meta.s
       /\ tp.snap = 0 /\ tp.inst = NoSnap /\ tp.sent = tp.applied /\ meta.atomic = "none"
  /\ ~tp.checked.destroy /\ Covers(tp.checked.idx) => ~meta.s
  /\ Covers(tp.snap) => ~meta.s \/ meta.atomic # "none"
  /\ Covers(tp.inst.idx) /\ ~tp.inst.destroy => ~meta.s

(* T asks S to catch up at most once at a time. *)
Kinds == {sbox[i].k : i \in 1 .. Len(sbox)}
TokenInv ==
  /\ "catch_up" \in Kinds \/ sp.cul # 0 => ta.wait = "wait"
  /\ ~ ("catch_up" \in Kinds /\ sp.cul # 0)
  /\ sp.cul \in {0, Commit}

Removal == Kinds \ {"prepare", "rollback", "catch_up"}
Quiet == meta.atomic = "none" /\ ~ (tp.inst.destroy /\ Replacing)
Executed == Merge # 0 /\ ~Installing /\ tp.applied < Merge /\ Merge <= ta.applied
Passed == Merge # 0 /\ Known >= Merge

Untouched ==
  /\ ~sp.removing /\ sa.tasks = << >> /\ ~sa.stopped /\ Removal = {} /\ Quiet
  /\ ta.wait # "ready" /\ ~Executed

(* S stops for T's CommitMerge: S's delegate has to confirm, then T's result is on its way. *)
CaughtUpFor ==
  /\ Merge # 0 /\ sp.removing /\ Removal = {} /\ Quiet /\ sp.merge = Commit
  /\ \/ /\ sa.tasks = << "logs_up_to_date" >> /\ ~sa.stopped /\ ta.wait = "wait"
        /\ sp.cul = 0 /\ "catch_up" \notin Kinds
     \/ /\ sa.tasks = << >> /\ sa.stopped /\ sa.applied >= Commit
        /\ ta.wait = "ready" \/ Executed

(* S stops for T's snapshot. *)
StoppedFor ==
  /\ tp.checked.idx = 0
  /\ \/ /\ tp.snap # 0 /\ Covers(tp.snap) /\ tp.inst = NoSnap /\ tp.sent = tp.applied
        /\ \/ /\ meta.atomic = "wait" /\ ~sp.removing /\ sa.tasks = << >> /\ ~sa.stopped
              /\ Removal = {"from_target_snapshot_step1"}
           \/ /\ meta.atomic = "wait" /\ sp.removing /\ ~sa.stopped /\ Removal = {}
              /\ sa.tasks = << "destroy_for_snapshot" >>
           \/ /\ meta.atomic = "wait" /\ sp.removing /\ sa.tasks = << >> /\ sa.stopped
              /\ Removal = {"destroyed_for_snapshot"}
           \/ /\ meta.atomic = "ready" /\ sp.removing /\ sa.tasks = << >> /\ sa.stopped
              /\ Removal = {}
     \/ /\ tp.snap = 0 /\ tp.inst.destroy /\ Replacing /\ Merge # 0 /\ tp.inst.idx >= Merge
        /\ meta.atomic = "ready" /\ sp.removing /\ sa.tasks = << >> /\ sa.stopped
        /\ Removal = {}

(* T has passed S without meeting it: S destroys itself. *)
Stale ==
  /\ Passed /\ sp.removing /\ Quiet
  /\ \/ sa.tasks = << "destroy" >> /\ ~sa.stopped /\ Removal = {} /\ sp.delayed = "none"
     \/ sa.tasks = << >> /\ sa.stopped /\ Removal = {"destroyed"} /\ sp.delayed = "none"
     \/ sa.tasks = << >> /\ sa.stopped /\ Removal \subseteq {"flushed"} /\ sp.delayed = "stale"

(* S is merged and has to go. *)
Leaving ==
  /\ Passed /\ sp.removing /\ Quiet /\ sa.tasks = << >> /\ sa.stopped
  /\ \/ Removal = {"from_target_log"} /\ sp.merge = Commit /\ sp.delayed = "none"
     \/ Removal = {"from_target_snapshot_step2"} /\ sp.delayed = "none"
     \/ Removal \subseteq {"flushed"} /\ sp.delayed = "merged"

(* The persisted state of S turns into a tombstone with T's merge or snapshot. *)
Buried == kv.tapplied >= Merge

Gone == ~sp.up /\ sbox = << >> /\ sa.tasks = << >> /\ sa.stopped /\ Passed /\ Quiet

StageInv ==
  \/ sp.up /\ meta.s /\ sp.delayed = "none" /\ kv.s # "Tombstone" /\ Untouched
  \/ /\ sp.up /\ meta.s /\ sp.delayed = "none" /\ CaughtUpFor
     /\ kv.s = "Tombstone" <=> Buried
  \/ /\ sp.up /\ meta.s /\ sp.delayed = "none" /\ StoppedFor
     /\ kv.s = "Tombstone" <=> tp.inst.phase = "persisted"
  \/ sp.up /\ meta.s /\ kv.s # "Tombstone" /\ Stale
  \/ sp.up /\ ~meta.s /\ kv.s = "Tombstone" /\ Leaving
  \/ ~meta.s /\ kv.s = "Tombstone" /\ Gone

IInv ==
  /\ TypeOK /\ NoPanic /\ LogInv /\ ApplyInv /\ MailInv
  /\ DiskInv /\ PositionInv /\ VersionInv /\ StoreInv /\ MergedWhole
  /\ RangeInv /\ TokenInv /\ StageInv

-----------------------------------------------------------------------------
(* What the proofs use of the two logs. *)

Logs ==
  /\ N \in Nat /\ Len(h.t) \in Nat /\ SIdx = 0 .. N /\ TIdx = 0 .. Len(h.t)
  /\ \A i \in 1 .. N : h.s[i].k \in {"write", "prepare", "rollback"}
  /\ Pending \in [SIdx -> SIdx] /\ Pending[0] = 0
  /\ \A i \in 1 .. N :
       /\ Pending[i] <= i
       /\ h.s[i].k = "write" => Pending[i] = Pending[i - 1]
       /\ h.s[i].k = "prepare" => Pending[i] = i
       /\ h.s[i].k = "rollback" =>
            Pending[i] = 0 /\ Pending[i - 1] = h.s[i].at /\ h.s[i].at # 0
  /\ Merge # 0 => /\ Commit \in 1 .. N /\ Commit \in SIdx /\ Commit # 0
                  /\ \A i \in Commit .. N : Pending[i] = Commit

Epochs ==
  /\ Merge \in TIdx
  /\ \A i \in TIdx : TRegion[i].ver \in Nat /\ Covers(i) \in BOOLEAN
  /\ \A i, j \in TIdx :
       /\ i <= j => TRegion[i].ver <= TRegion[j].ver
       /\ TRegion[i].ver = TRegion[j].ver => Covers(i) = Covers(j)
       /\ Merge <= i /\ i <= j /\ Covers(j) => Covers(i)
  /\ \A i \in TIdx : /\ TRegion[i].merged # 0 <=> Merge # 0 /\ i >= Merge
                     /\ Covers(i) => Merge # 0 /\ i >= Merge
  /\ Merge # 0 => /\ TargetVer = TRegion[Merge - 1].ver
                  /\ Commit \in SIdx /\ Commit # 0

\* What HistoryOK says of S's log: the PrepareMerge in force after each entry.
LEMMA LogFacts == TypeOK => Logs
PROOF
  <1> SUFFICES ASSUME TypeOK PROVE Logs
    OBVIOUS
  <1>0. HistoryOK(h)
    BY MergeAssumption DEF TypeOK
  <1>1. /\ h.s \in Seq(SEntry) /\ h.t \in Seq(TEntry)
        /\ \E f \in [SIdx -> SIdx] :
             InForce(h, f) /\ (Merge # 0 => StaysInForce(h, f, Commit))
    BY ZenonT(60), <1>0 DEF HistoryOK, TRegion, Merge, Commit, SIdx
  <1>2. /\ Pending \in [SIdx -> SIdx] /\ InForce(h, Pending)
        /\ Merge # 0 => StaysInForce(h, Pending, Commit)
    BY Zenon, <1>1 DEF Pending
  <1>3. N \in Nat /\ Len(h.t) \in Nat /\ SIdx = 0 .. N /\ TIdx = 0 .. Len(h.t)
    BY <1>1 DEF N, SIdx, TIdx
  <1>4. \A i \in 1 .. N : /\ h.s[i].k \in {"write", "prepare", "rollback"}
                          /\ h.s[i].k = "rollback" => h.s[i].at # 0
    BY <1>1 DEF N, SEntry
  <1> HIDE DEF Pending
  <1>5. Merge # 0 => /\ Commit \in 1 .. N /\ Commit \in SIdx /\ Commit # 0
                     /\ \A i \in Commit .. N : Pending[i] = Commit
    BY <1>2, <1>3 DEF StaysInForce, N
  <1> QED
    BY <1>2, <1>3, <1>4, <1>5 DEF Logs, InForce, N

\* What HistoryOK says of T's regions: versions grow and tell who covers S's range.
LEMMA EpochFacts == TypeOK => Epochs
PROOF
  <1> SUFFICES ASSUME TypeOK PROVE Epochs
    OBVIOUS
  <1>1. HistoryOK(h)
    BY MergeAssumption DEF TypeOK
  <1>2. Len(h.t) \in Nat
    BY LogFacts DEF Logs
  <1>3. Regions(h) = TRegion /\ TRegion[Len(h.t)].merged = Merge
    BY DEF TRegion, Merge
  <1>4. /\ TRegion \in [TIdx -> [ver : Nat, merged : TIdx, covers : BOOLEAN]]
        /\ \A i, j \in TIdx :
             /\ i <= j => TRegion[i].ver <= TRegion[j].ver
             /\ TRegion[i].ver = TRegion[j].ver => TRegion[i].covers = TRegion[j].covers
             /\ Merge <= i /\ i <= j /\ TRegion[j].covers => TRegion[i].covers
        /\ \A i \in TIdx :
             /\ TRegion[i].merged # 0 <=> Merge # 0 /\ i >= Merge
             /\ TRegion[i].covers => Merge # 0 /\ i >= Merge
        /\ Merge # 0 => h.t[Merge].ver = TRegion[Merge - 1].ver
    BY ZenonT(60), <1>1, <1>3 DEF HistoryOK, TIdx
  <1>5. Merge \in TIdx
    BY SMTT(60), <1>2, <1>3, <1>4 DEF TIdx
  <1>6. \A i \in TIdx : TRegion[i].ver \in Nat /\ Covers(i) \in BOOLEAN
    BY <1>4 DEF Covers
  <1>7. Merge # 0 => Commit \in SIdx /\ Commit # 0
    BY LogFacts DEF Logs
  <1> QED
    BY Zenon, <1>4, <1>5, <1>6, <1>7 DEF Epochs, Covers, TargetVer

\* The logs do not change, nor does what they say.
LEMMA Frozen ==
  ASSUME [Next]_vars
  PROVE  /\ h' = h /\ N' = N /\ SIdx' = SIdx /\ TIdx' = TIdx /\ Pending' = Pending
         /\ TRegion' = TRegion /\ Merge' = Merge /\ Commit' = Commit
         /\ \A i : Covers(i)' = Covers(i)
PROOF
  <1>1. h' = h
    BY Zenon DEF Next, Work, vars, source, target, store, ReadyS, ApplyS, WriteS, OnCatchUpLogs,
       OnReadyPrepareMerge, OnReadyRollbackMerge, OnMergeResultLog, OnMergeResultStep1,
       OnMergeResultStep2, OnApplyDestroyed, OnApplyDestroyedForSnapshot, RaftLogGcFlushed,
       OnRegionDestroyed, OnRaftLogGcFlushed, OnMergeTarget, LogsUpToDateForMerge, HandleDestroy, AppendT, ReadyT,
       ApplyT, WaitMergeSource, ExecCommitMerge, WriteT, OnApplyRes, StepSnapshot, TakeSnapshot,
       PersistSnapshot, OnPersistSnapshot, InstallSnapshot, FinishSnapshot, AppendS,
       CheckSnapshot, Restart
  <1>2. TRegion' = TRegion
    BY SMTT(60), <1>1 DEF TRegion
  <1> QED
    BY Zenon, <1>1, <1>2 DEF N, SIdx, TIdx, Pending, Merge, Commit, Covers

-----------------------------------------------------------------------------
(* Types. *)

\* The first state has its type.
LEMMA TypeInit == Init => TypeOK
PROOF
  <1> SUFFICES ASSUME Init PROVE TypeOK
    BY SMTT(60)
  <1>1. h \in Histories /\ Len(h.s) \in Nat /\ Len(h.t) \in Nat /\ MaxCrashes \in Nat
    BY MergeAssumption DEF Init, HistoryOK
  <1>2. 0 \in SIdx /\ 0 \in TIdx /\ 0 \in 0 .. Len(h.s) + 1 /\ 0 \in 0 .. MaxCrashes
    BY <1>1 DEF SIdx, TIdx
  <1> QED
    BY <1>1, <1>2
       DEF Init, TypeOK, Peer, NoSnap, SPeer, SApply, TPeer, TApply, Meta, Kv, EngineStore, Phases

\* What maybe_append_merge_entries leaves alone.
LEMMA AppendedEntries ==
  ASSUME TypeOK, NEW c \in SIdx
  PROVE  LET q == MaybeAppendMergeEntries(c) IN
         /\ q \in SPeer /\ q.up = sp.up /\ q.merge = sp.merge /\ q.removing = sp.removing
         /\ q.delayed = sp.delayed /\ q.last >= sp.last
PROOF
  <1>1. SIdx = 0 .. N /\ N \in Nat
    BY LogFacts DEF Logs
  <1> DEFINE l == IF c > sp.last THEN c ELSE sp.last
             d == IF c > sp.commit THEN c ELSE sp.commit
  <1>2. MaybeAppendMergeEntries(c) \in
          {sp, [sp EXCEPT !.commit = d], [sp EXCEPT !.last = l, !.commit = c]}
    BY DEF MaybeAppendMergeEntries
  <1>3. l \in SIdx /\ d \in SIdx /\ l >= sp.last /\ sp.last >= sp.last
    BY SMTT(60), <1>1 DEF TypeOK, SPeer
  <1> HIDE DEF l, d
  <1> DEFINE q == MaybeAppendMergeEntries(c)
  <1>4. sp \in SPeer
    BY DEF TypeOK
  <1>5. CASE q = sp
    BY Zenon, <1>3, <1>4, <1>5
  <1>6. CASE q = [sp EXCEPT !.commit = d]
    BY Zenon, <1>3, <1>4, <1>6 DEF SPeer
  <1>7. CASE q = [sp EXCEPT !.last = l, !.commit = c]
    BY Zenon, <1>3, <1>4, <1>7 DEF SPeer
  <1> QED
    BY Zenon, <1>2, <1>5, <1>6, <1>7

SourceStep ==
  \/ AppendS \/ ReadyS \/ ApplyS \/ WriteS
  \/ OnCatchUpLogs \/ OnReadyPrepareMerge \/ OnReadyRollbackMerge
  \/ OnMergeResultLog \/ OnMergeResultStep1 \/ OnMergeResultStep2
  \/ OnApplyDestroyed \/ OnApplyDestroyedForSnapshot
  \/ RaftLogGcFlushed \/ OnRegionDestroyed \/ OnRaftLogGcFlushed
  \/ OnMergeTarget \/ LogsUpToDateForMerge \/ HandleDestroy

\* Types are kept by the steps of S's peer and delegate.
LEMMA TypeSource ==
  ASSUME IInv, [Next]_vars, SourceStep
  PROVE  TypeOK'
PROOF
  <1> USE DEF source, target, store
  <1>0. TypeOK /\ Logs /\ Epochs
    BY LogFacts, EpochFacts DEF IInv
  <1>1. /\ Message' = Message /\ SPeer' = SPeer /\ SApply' = SApply /\ TPeer' = TPeer
        /\ TApply' = TApply /\ Kv' = Kv /\ EngineStore' = EngineStore /\ Meta' = Meta
        /\ h' = h /\ SIdx' = SIdx /\ TIdx' = TIdx
    BY Zenon, Frozen DEF Message, SPeer, SApply, TPeer, TApply, Kv, EngineStore, Meta
  <1>a. SIdx = 0 .. N /\ N \in Nat
    BY Zenon, <1>0 DEF Logs
  <1>2. sbox # << >> => Tail(sbox) \in Seq(Message) /\ Head(sbox) \in Message
    BY <1>0 DEF TypeOK
  <1>3. /\ \A t \in {"logs_up_to_date", "destroy", "destroy_for_snapshot"} :
             [sa EXCEPT !.tasks = Append(@, t)] \in SApply
        /\ sa.tasks # << >> => [sa EXCEPT !.tasks = Tail(@), !.stopped = TRUE] \in SApply
    <2> DEFINE T == Seq({"logs_up_to_date", "destroy", "destroy_for_snapshot"})
    <2>1. /\ \A t \in {"logs_up_to_date", "destroy", "destroy_for_snapshot"} :
               Append(sa.tasks, t) \in T
          /\ sa.tasks # << >> => Tail(sa.tasks) \in T
      BY <1>0 DEF TypeOK, SApply
    <2> QED
      BY Zenon, <1>0, <2>1 DEF TypeOK, SApply
  <1>4. 0 \in SIdx /\ << >> \in Seq(Message) /\ \A k \in Messages : Append(sbox, [k |-> k, at |-> 0]) \in Seq(Message)
    BY <1>0 DEF TypeOK, Message, Logs
  <1>5. CASE AppendS
    <2>1. PICK l \in sp.last .. Len(h.s), c \in sp.commit .. Len(h.s) :
            /\ sp' = [sp EXCEPT !.last = l, !.commit = c, !.sent = c]
            /\ sdisk' = [last |-> l, commit |-> c]
      BY Zenon, <1>5 DEF AppendS
    <2>2. l \in SIdx /\ c \in SIdx
      BY SMTT(60), <1>0 DEF TypeOK, SPeer, Logs, N
    <2> QED
      BY Zenon, <1>0, <1>1, <1>5, <2>1, <2>2 DEF AppendS, TypeOK, SPeer
  <1>6. CASE ReadyS
    BY Zenon, <1>0, <1>1, <1>6 DEF ReadyS, TypeOK, SPeer
  <1>7. CASE ApplyS
    <2> DEFINE i == sa.applied + 1
               e == IF es.s /\ i > es.sapplied THEN i ELSE es.sapplied
    <2>0. sa.applied < sp.sent
      BY Zenon, <1>7 DEF ApplyS
    <2>1. i \in SIdx /\ e \in SIdx
      <3>1. sa.applied \in SIdx /\ sp.sent \in SIdx /\ es.sapplied \in SIdx
        BY <1>0 DEF TypeOK, SApply, SPeer, EngineStore
      <3> QED
        BY <1>a, <2>0, <3>1
    <2>2. es' = [es EXCEPT !.sapplied = e]
      BY Zenon, <1>7 DEF ApplyS, EsPersistS, EsWriteS
    <2>3. sa' = [sa EXCEPT !.applied = i, !.write = h.s[i].k # "write"]
      BY Zenon, <1>7 DEF ApplyS
    <2> HIDE DEF i, e
    <2>4. sa' \in SApply /\ es' \in EngineStore /\ es'.sapplied \in SIdx
      BY Zenon, <1>0, <2>1, <2>2, <2>3 DEF TypeOK, SApply, EngineStore
    <2>5. esdisk' \in EngineStore
      BY ZenonT(60), <1>0, <1>7, <2>4 DEF ApplyS, EsPersistS, TypeOK, EngineStore
    <2> QED
      BY Zenon, <1>0, <1>1, <1>7, <2>4, <2>5 DEF ApplyS, TypeOK
  <1>8. CASE WriteS
    <2> DEFINE e == h.s[sa.applied]
               m == [k |-> e.k, at |-> IF e.k = "prepare" THEN sa.applied ELSE e.at]
    <2>1. sa.applied \in 1 .. N
      BY SMTT(60), <1>0, <1>8 DEF WriteS, IInv, ApplyInv, TypeOK, SApply, Kv, Logs
    <2>2. e.k \in {"prepare", "rollback"}
      BY <1>0, <1>8, <2>1 DEF WriteS, IInv, ApplyInv, Logs
    <2>3. e.k = "rollback" => e.at \in SIdx
      <3>1. sa.applied - 1 \in SIdx
        BY <1>a, <2>1
      <3> QED
        BY Zenon, <1>0, <2>1, <3>1 DEF Logs
    <2>4. m \in Message /\ sa.applied \in SIdx
      BY <1>0, <2>2, <2>3 DEF Message, Messages, TypeOK, SApply
    <2>5. sbox' = IF sp.up THEN Append(sbox, m) ELSE sbox
      BY Zenon, <1>8 DEF WriteS, ToSource
    <2> HIDE DEF m
    <2>6. sbox' \in Seq(Message)
      BY <1>0, <2>4, <2>5 DEF TypeOK
    <2>7. sa' \in SApply /\ kv' \in Kv
      BY Zenon, <1>0, <1>4, <1>8, <2>4 DEF WriteS, TypeOK, SApply, Kv
    <2> QED
      BY Zenon, <1>0, <1>1, <1>8, <2>6, <2>7 DEF WriteS, TypeOK
  <1>9. CASE OnCatchUpLogs
    <2>1. sbox' \in Seq(Message) /\ Head(sbox).at \in SIdx
      BY Zenon, <1>2, <1>9 DEF OnCatchUpLogs, Took, Message
    <2>2. sp' \in SPeer /\ sa' \in SApply
      <3>1. CASE CaughtUp(Head(sbox).at)
        <4>1. /\ sp' = [sp EXCEPT !.removing = TRUE, !.cul = 0]
              /\ sa' = [sa EXCEPT !.tasks = Append(@, "logs_up_to_date")]
          BY ZenonT(60), <1>9, <3>1 DEF OnCatchUpLogs, StopFor, ScheduleS
        <4>2. sp \in SPeer
          BY Zenon, <1>0 DEF TypeOK
        <4>3. sp' \in SPeer
          BY ZenonT(60), <1>4, <4>1, <4>2 DEF SPeer
        <4> QED
          BY ZenonT(60), <1>3, <4>1, <4>3
      <3>2. CASE ~CaughtUp(Head(sbox).at)
        <4>1. MaybeAppendMergeEntries(Head(sbox).at) \in SPeer
          BY <1>0, <2>1, AppendedEntries
        <4>2. sp' = [MaybeAppendMergeEntries(Head(sbox).at) EXCEPT !.cul = Head(sbox).at] /\ sa' = sa
          BY ZenonT(60), <1>9, <3>2 DEF OnCatchUpLogs
        <4>3. sp' \in SPeer
          BY ZenonT(60), <2>1, <4>1, <4>2 DEF SPeer
        <4> QED
          BY ZenonT(60), <1>0, <4>2, <4>3 DEF TypeOK
      <3> QED
        BY <3>1, <3>2
    <2>3. UNCHANGED <<h, low, sdisk, target, meta, store, crashes>>
      BY ZenonT(60), <1>9 DEF OnCatchUpLogs
    <2> QED
      BY ZenonT(60), <1>0, <1>1, <2>1, <2>2, <2>3 DEF TypeOK
  <1>10. CASE OnReadyPrepareMerge
    <2>1. sbox' \in Seq(Message) /\ Head(sbox).at \in SIdx
      BY Zenon, <1>2, <1>10 DEF OnReadyPrepareMerge, Took, Message
    <2>2. /\ \/ sp' = [sp EXCEPT !.merge = Head(sbox).at, !.removing = TRUE, !.cul = 0]
             \/ sp' = [sp EXCEPT !.merge = Head(sbox).at]
          /\ sa' = sa \/ sa' = [sa EXCEPT !.tasks = Append(@, "logs_up_to_date")]
          /\ UNCHANGED <<h, low, sdisk, target, meta, store, crashes>>
      BY ZenonT(60), <1>10 DEF OnReadyPrepareMerge, ScheduleS
    <2>3. sp' \in SPeer
      <3>1. sp \in SPeer
        BY Zenon, <1>0 DEF TypeOK
      <3>2. [sp EXCEPT !.merge = Head(sbox).at] \in SPeer
        BY ZenonT(60), <2>1, <3>1 DEF SPeer
      <3>3. [sp EXCEPT !.merge = Head(sbox).at, !.removing = TRUE, !.cul = 0] \in SPeer
        BY ZenonT(60), <1>4, <2>1, <3>1 DEF SPeer
      <3> QED
        BY Zenon, <2>2, <3>2, <3>3
    <2>4. sa' \in SApply
      BY ZenonT(60), <1>0, <1>3, <2>2 DEF TypeOK
    <2> QED
      BY ZenonT(60), <1>0, <1>1, <2>1, <2>2, <2>3, <2>4 DEF TypeOK
  <1>11. CASE OnReadyRollbackMerge
    BY Zenon, <1>0, <1>1, <1>2, <1>4, <1>11 DEF OnReadyRollbackMerge, Took, TypeOK, SPeer
  <1>12. CASE OnMergeResultLog \/ OnMergeResultStep2 \/ OnApplyDestroyed
    <2>1. PICK why \in {"merged", "stale"} :
            sp' = [sp EXCEPT !.removing = TRUE, !.delayed = why]
      BY ZenonT(60), <1>12 DEF OnMergeResultLog, OnMergeResultStep2, OnApplyDestroyed, DestroyPeer
    <2>2. /\ sbox # << >> /\ sbox' = Tail(sbox)
          /\ UNCHANGED <<h, low, sa, sdisk, target, meta, store, crashes>>
      BY ZenonT(60), <1>12 DEF OnMergeResultLog, OnMergeResultStep2, OnApplyDestroyed, Took
    <2>3. sp \in SPeer
      BY Zenon, <1>0 DEF TypeOK
    <2>4. sp' \in SPeer
      BY ZenonT(60), <2>1, <2>3 DEF SPeer
    <2> QED
      BY ZenonT(60), <1>0, <1>1, <1>2, <2>2, <2>4 DEF TypeOK
  <1>13. CASE OnMergeResultStep1
    BY Zenon, <1>0, <1>1, <1>2, <1>3, <1>13 DEF OnMergeResultStep1, ScheduleS, Took, TypeOK, SPeer
  <1>14. CASE OnApplyDestroyedForSnapshot
    BY Zenon, <1>0, <1>1, <1>2, <1>14 DEF OnApplyDestroyedForSnapshot, Took, TypeOK, Meta
  <1>15. CASE RaftLogGcFlushed
    BY Zenon, <1>0, <1>1, <1>4, <1>15 DEF RaftLogGcFlushed, ToSource, TypeOK, Messages
  <1>16. CASE OnRaftLogGcFlushed
    BY Zenon, <1>0, <1>1, <1>4, <1>16 DEF OnRaftLogGcFlushed, TypeOK, SPeer, Kv, Meta
  <1>17. CASE OnMergeTarget
    <2>1. TargetVer \in Nat
      BY SMTT(60), <1>0, <1>17 DEF OnMergeTarget, Epochs, Logs
    <2> QED
      BY ZenonT(60), <1>0, <1>1, <1>3, <1>4, <1>17, <2>1
         DEF OnMergeTarget, StopFor, ScheduleS, TypeOK, SPeer, Meta
  <1>18. CASE LogsUpToDateForMerge
    BY Zenon, <1>0, <1>1, <1>3, <1>18 DEF LogsUpToDateForMerge, ApplyTaskS, TypeOK, TApply
  <1>19. CASE HandleDestroy
    BY Zenon, <1>0, <1>1, <1>3, <1>4, <1>19 DEF HandleDestroy, ApplyTaskS, Messages, TypeOK
  <1>20. CASE OnRegionDestroyed
    BY Zenon, <1>0, <1>1, <1>4, <1>20 DEF OnRegionDestroyed, EngineStore, TypeOK
  <1> QED
    BY Zenon, <1>5, <1>6, <1>7, <1>8, <1>9, <1>10, <1>11, <1>12, <1>13, <1>14,
       <1>15, <1>16, <1>17, <1>18, <1>19, <1>20 DEF SourceStep

TargetStep ==
  \/ AppendT \/ ReadyT \/ ApplyT \/ WaitMergeSource \/ ExecCommitMerge \/ WriteT \/ OnApplyRes
  \/ CheckSnapshot \/ StepSnapshot \/ TakeSnapshot \/ PersistSnapshot \/ OnPersistSnapshot
  \/ InstallSnapshot \/ FinishSnapshot

\* Types are kept by the steps of T's log and of its delegate.
LEMMA TypeTarget ==
  ASSUME IInv, [Next]_vars, TargetStep
  PROVE  TypeOK'
PROOF
  <1> USE DEF source, target, store
  <1>0. TypeOK /\ Logs /\ Epochs
    BY LogFacts, EpochFacts DEF IInv
  <1>1. /\ Message' = Message /\ SPeer' = SPeer /\ SApply' = SApply /\ TPeer' = TPeer
        /\ TApply' = TApply /\ Kv' = Kv /\ EngineStore' = EngineStore /\ Meta' = Meta
        /\ h' = h /\ SIdx' = SIdx /\ TIdx' = TIdx
    BY Zenon, Frozen DEF Message, SPeer, SApply, TPeer, TApply, Kv, EngineStore, Meta
  <1>a. SIdx = 0 .. N /\ N \in Nat /\ TIdx = 0 .. L /\ L \in Nat
    BY <1>0 DEF Logs, L
  <1>2. 0 \in SIdx /\ 0 \in TIdx /\ Merge \in TIdx /\ (Merge # 0 => Commit \in SIdx)
    BY <1>0, <1>a DEF Epochs
  <1>3. \A m \in Message : ToSource(m) => sbox' \in Seq(Message)
    BY <1>0 DEF ToSource, TypeOK
  <1>4. /\ \A k \in Messages : [k |-> k, at |-> 0] \in Message
        /\ \A i \in TIdx : TRegion[i].ver \in Nat /\ Append(tbox, i) \in Seq(TIdx)
    BY <1>0, <1>2 DEF Message, Epochs, TypeOK
  <1>5. /\ tp.last \in TIdx /\ tp.commit \in TIdx /\ tp.sent \in TIdx /\ tp.applied \in TIdx
        /\ tp.snap \in TIdx /\ tp.inst.idx \in TIdx /\ tp.checked.idx \in TIdx
        /\ tbox \in Seq(TIdx) /\ low \in 0 .. N + 1
        /\ ta.applied \in TIdx /\ es.tapplied \in TIdx /\ es.sapplied \in SIdx
        /\ tp.commit <= tp.last /\ tp.sent <= tp.commit /\ sdisk.last \in SIdx
    BY Zenon, <1>0 DEF TypeOK, TPeer, TApply, EngineStore, N
  <1>6. CASE AppendT
    <2>1. PICK l \in tp.last .. L, c \in tp.commit .. L :
            /\ c <= l
            /\ tp' = [tp EXCEPT !.last = l, !.commit = c]
            /\ tdisk' = IF tp.snap = 0 /\ tp.inst = NoSnap THEN [last |-> l, commit |-> c] ELSE tdisk
            /\ low' = low \/ \E i \in 1 .. sdisk.last + 1 : low' = i
      BY Zenon, <1>6 DEF AppendT, L
    <2>2. l \in TIdx /\ c \in TIdx /\ tp.sent <= c
      <3>1. /\ tp.last \in TIdx /\ tp.commit \in TIdx /\ tp.sent \in TIdx /\ tp.sent <= tp.commit
        BY Zenon, <1>5
      <3> QED
        BY <1>a, <3>1
    <2>5. low' \in 0 .. N + 1
      BY SMTT(60), <1>a, <1>5, <2>1
    <2>3. tp' \in TPeer /\ tp'.last = l /\ tp'.commit = c /\ tp'.sent = tp.sent
      BY Zenon, <1>0, <2>1, <2>2 DEF TypeOK, TPeer
    <2>4. tdisk' \in [last : TIdx, commit : TIdx]
      BY Zenon, <1>0, <2>1, <2>2 DEF TypeOK
    <2> QED
      BY Zenon, <1>0, <1>1, <1>6, <2>1, <2>2, <2>3, <2>4, <2>5 DEF AppendT, TypeOK, N
  <1>7. CASE ReadyT
    <2>1. tp' \in TPeer /\ tp'.last = tp.last /\ tp'.commit = tp.commit /\ tp'.sent = tp.commit
      BY Zenon, <1>0, <1>7 DEF ReadyT, TypeOK, TPeer
    <2>2. tp.commit <= tp.commit
      BY <1>a, <1>5
    <2> QED
      BY Zenon, <1>0, <1>1, <1>5, <1>7, <2>1, <2>2 DEF ReadyT, TypeOK
  <1>8. CASE ApplyT
    <2> DEFINE i == ta.applied + 1
    <2>1. ta.applied < tp.sent
      BY Zenon, <1>8 DEF ApplyT
    <2>2. i \in TIdx
      <3>1. ta.applied \in TIdx /\ tp.sent \in TIdx
        BY Zenon, <1>5
      <3> QED
        BY <1>a, <2>1, <3>1
    <2>3. /\ i # Merge /\ es' = EsWriteT(i, es)
          /\ ta' = [ta EXCEPT !.applied = i, !.write = Runs(i), !.ver = TRegion[i].ver]
          /\ IF Runs(i) THEN esdisk' = [esdisk EXCEPT !.tapplied = es'.tapplied] /\ UNCHANGED tbox
                        ELSE tbox' = Append(tbox, i) /\ UNCHANGED esdisk
      BY Zenon, <1>8 DEF ApplyT
    <2> HIDE DEF i
    <2>a. ta' \in TApply
      BY ZenonT(60), <1>0, <1>4, <2>2, <2>3 DEF TypeOK, TApply, Runs
    <2>b. es' \in EngineStore
      BY ZenonT(60), <1>0, <2>2, <2>3 DEF EsWriteT, TypeOK, EngineStore
    <2>c. tbox' \in Seq(TIdx)
      BY ZenonT(60), <1>0, <1>4, <2>2, <2>3 DEF TypeOK
    <2>4. ta' \in TApply /\ es' \in EngineStore /\ tbox' \in Seq(TIdx)
      BY Zenon, <2>a, <2>b, <2>c
    <2>5. esdisk' \in EngineStore
      BY Zenon, <1>0, <2>3, <2>4 DEF TypeOK, EngineStore
    <2> QED
      BY Zenon, <1>0, <1>1, <1>8, <2>4, <2>5 DEF ApplyT, TypeOK
  <1>9. CASE WaitMergeSource
    <2>0. ta.applied + 1 = Merge
      BY Zenon, <1>9 DEF WaitMergeSource
    <2>1. Merge # 0
      BY <1>a, <1>5, <2>0
    <2>2. [k |-> "catch_up", at |-> Commit] \in Message
      BY <1>2, <2>1 DEF Message, Messages
    <2> QED
      BY Zenon, <1>0, <1>1, <1>3, <1>9, <2>2 DEF WaitMergeSource, TypeOK, TApply
  <1>10. CASE ExecCommitMerge
    <2>1. es' \in EngineStore
      BY Zenon, <1>0, <1>2, <1>10 DEF ExecCommitMerge, EsWriteT, TypeOK, EngineStore
    <2> QED
      BY Zenon, <1>0, <1>1, <1>2, <1>4, <1>10, <2>1 DEF ExecCommitMerge, TypeOK, TApply
  <1>11. CASE WriteT
    <2>1. kv' \in Kv
      BY Zenon, <1>0, <1>2, <1>11 DEF WriteT, TypeOK, Kv, TApply
    <2> QED
      BY Zenon, <1>0, <1>1, <1>4, <1>5, <1>11, <2>1 DEF WriteT, TypeOK, TApply
  <1>12. CASE OnApplyRes
    <2>0. tbox # << >>
      BY Zenon, <1>12 DEF OnApplyRes
    <2>1. Head(tbox) \in TIdx /\ Tail(tbox) \in Seq(TIdx)
      BY <1>5, <2>0
    <2>2. /\ tp' \in TPeer /\ tp'.last = tp.last /\ tp'.commit = tp.commit /\ tp'.sent = tp.sent
      BY Zenon, <1>0, <1>12, <2>1 DEF OnApplyRes, TypeOK, TPeer
    <2>4. meta' \in Meta
      BY Zenon, <1>0, <1>2, <1>4, <1>12, <2>1 DEF OnApplyRes, WithoutSource, TypeOK, Meta
    <2>3. sbox' \in Seq(Message)
      BY Zenon, <1>0, <1>3, <1>4, <1>12 DEF OnApplyRes, TypeOK, Messages
    <2> QED
      BY Zenon, <1>0, <1>1, <1>12, <2>1, <2>2, <2>3, <2>4 DEF OnApplyRes, TypeOK
  <1>13. CASE CheckSnapshot
    <2>1. PICK j \in tp.commit + 1 .. L :
            tp' = [tp EXCEPT !.checked = [idx |-> j, destroy |-> meta.s /\ TRegion[j].covers]]
      BY Zenon, <1>13 DEF CheckSnapshot, L
    <2>2. j \in TIdx
      BY <1>a, <1>5
    <2>3. tp' \in TPeer /\ tp'.last = tp.last /\ tp'.commit = tp.commit /\ tp'.sent = tp.sent
      BY Zenon, <1>0, <2>1, <2>2 DEF TypeOK, TPeer
    <2> QED
      BY Zenon, <1>0, <1>1, <1>13, <2>3 DEF CheckSnapshot, TypeOK
  <1>14. CASE StepSnapshot
    <2> DEFINE j == tp.checked.idx
    <2>0. j # 0 /\ tp' = [Restored(j) EXCEPT !.checked = [idx |-> 0, destroy |-> FALSE]]
      BY Zenon, <1>14 DEF StepSnapshot
    <2>1. j > tp.commit
      BY Zenon, <2>0 DEF IInv, DiskInv
    <2>2. tp.sent <= j /\ j <= j
      <3>1. tp.sent \in Nat /\ tp.commit \in Nat /\ j \in Nat /\ tp.sent <= tp.commit
        BY SMTT(60), <1>a, <1>5
      <3> HIDE DEF j
      <3> QED
        BY <2>1, <3>1
    <2>3. /\ tp' \in TPeer /\ tp'.last = IF j <= tp.last THEN tp.last ELSE j
          /\ tp'.commit = j /\ tp'.sent = tp.sent
      BY Zenon, <1>0, <1>2, <1>5, <2>0 DEF Restored, TypeOK, TPeer
    <2>4. tp'.commit <= tp'.last /\ tp'.sent <= tp'.commit
      BY Zenon, <2>2, <2>3
    <2>5. meta' \in Meta /\ sbox' \in Seq(Message)
      BY Zenon, <1>0, <1>3, <1>4, <1>14 DEF StepSnapshot, TypeOK, Meta, Messages
    <2> QED
      BY Zenon, <1>0, <1>1, <1>14, <2>3, <2>4, <2>5 DEF StepSnapshot, TypeOK
  <1>15. CASE TakeSnapshot
    <2>1. tp' \in TPeer /\ tp'.last = tp.last /\ tp'.commit = tp.commit /\ tp'.sent = tp.sent
      BY Zenon, <1>0, <1>2, <1>5, <1>15 DEF TakeSnapshot, TypeOK, TPeer, Phases
    <2> QED
      BY Zenon, <1>0, <1>1, <1>15, <2>1 DEF TakeSnapshot, TypeOK
  <1>16. CASE PersistSnapshot
    <2>1. tp' \in TPeer /\ tp'.last = tp.last /\ tp'.commit = tp.commit /\ tp'.sent = tp.sent
      BY Zenon, <1>0, <1>16 DEF PersistSnapshot, TypeOK, TPeer, Phases
    <2>2. kv' \in Kv /\ tdisk' \in [last : TIdx, commit : TIdx]
      BY Zenon, <1>0, <1>2, <1>4, <1>5, <1>16 DEF PersistSnapshot, TypeOK, Kv
    <2> QED
      BY Zenon, <1>0, <1>1, <1>16, <2>1, <2>2 DEF PersistSnapshot, TypeOK
  <1>17. CASE OnPersistSnapshot
    <2>1. tp' \in TPeer /\ tp'.last = tp.last /\ tp'.commit = tp.commit /\ tp'.sent = tp.sent
      BY Zenon, <1>0, <1>17 DEF OnPersistSnapshot, TypeOK, TPeer, Phases
    <2>2. meta' \in Meta /\ ta' \in TApply
      BY Zenon, <1>0, <1>4, <1>5, <1>17 DEF OnPersistSnapshot, TypeOK, Meta, TApply
    <2>3. sbox' \in Seq(Message)
      BY Zenon, <1>0, <1>3, <1>4, <1>17 DEF OnPersistSnapshot, TypeOK, Messages
    <2> QED
      BY Zenon, <1>0, <1>1, <1>17, <2>1, <2>2, <2>3 DEF OnPersistSnapshot, TypeOK
  <1>18. CASE InstallSnapshot
    <2>1. tp' \in TPeer /\ tp'.last = tp.last /\ tp'.commit = tp.commit /\ tp'.sent = tp.sent
      BY Zenon, <1>0, <1>18 DEF InstallSnapshot, TypeOK, TPeer, Phases
    <2>2. TRegion[tp.inst.idx].merged # 0 => Commit \in SIdx
      BY Zenon, <1>0, <1>2, <1>5 DEF Epochs
    <2>3. \A e \in EngineStore : WithSnapshot(e, tp.inst.idx) \in EngineStore
      BY Zenon, <1>2, <1>5, <2>2 DEF WithSnapshot, EngineStore
    <2> QED
      BY Zenon, <1>0, <1>1, <1>18, <2>1, <2>3 DEF InstallSnapshot, TypeOK, Kv
  <1>19. CASE FinishSnapshot
    <2>1. tp' \in TPeer /\ tp'.last = tp.last /\ tp'.commit = tp.commit /\ tp'.sent = tp.inst.idx
      BY Zenon, <1>0, <1>2, <1>5, <1>19 DEF FinishSnapshot, TypeOK, TPeer, Phases, NoSnap
    <2>2. tp.inst.idx <= tp.commit
      BY Zenon, <1>19 DEF FinishSnapshot, IInv, DiskInv, Installing
    <2> QED
      BY Zenon, <1>0, <1>1, <1>19, <2>1, <2>2 DEF FinishSnapshot, TypeOK
  <1> QED
    BY Zenon, <1>6, <1>7, <1>8, <1>9, <1>10, <1>11, <1>12, <1>13, <1>14,
       <1>15, <1>16, <1>17, <1>18, <1>19 DEF TargetStep

\* Every step keeps the types.
LEMMA TypeNext ==
  ASSUME IInv, [Next]_vars
  PROVE  TypeOK'
PROOF
  <1>0. TypeOK /\ Logs /\ Epochs
    BY LogFacts, EpochFacts DEF IInv
  <1>1. /\ Message' = Message /\ SPeer' = SPeer /\ SApply' = SApply /\ TPeer' = TPeer
        /\ TApply' = TApply /\ Kv' = Kv /\ EngineStore' = EngineStore /\ Meta' = Meta
        /\ h' = h /\ SIdx' = SIdx /\ TIdx' = TIdx
    BY Zenon, Frozen DEF Message, SPeer, SApply, TPeer, TApply, Kv, EngineStore, Meta
  <1>a. SIdx = 0 .. N /\ N \in Nat /\ TIdx = 0 .. L /\ L \in Nat
    BY <1>0 DEF Logs, L
  <1>2. CASE Restart
    <2>1. /\ kv.tapplied \in TIdx /\ kv.sapplied \in SIdx /\ kv.merge \in SIdx /\ kv.tver \in Nat
          /\ tdisk.last \in TIdx /\ tdisk.commit \in TIdx /\ sdisk.last \in SIdx /\ sdisk.commit \in SIdx
          /\ es.sapplied \in SIdx /\ esdisk.sapplied \in SIdx
          /\ es.tapplied \in TIdx /\ esdisk.tapplied \in TIdx
      BY Zenon, <1>0 DEF TypeOK, Kv, EngineStore
    <2>2. /\ 0 \in SIdx /\ 0 \in TIdx /\ << >> \in Seq(Message) /\ << >> \in Seq(TIdx)
          /\ << >> \in Seq({"logs_up_to_date", "destroy", "destroy_for_snapshot"})
      BY <1>a
    <2>3. sp' \in SPeer /\ sa' \in SApply /\ sbox' \in Seq(Message)
      BY Zenon, <1>2, <2>1, <2>2 DEF Restart, Peer, SPeer, SApply
    <2>4. /\ tp' \in TPeer /\ tp'.last = tdisk.last /\ tp'.commit = tdisk.commit
          /\ tp'.sent = kv.tapplied
      BY Zenon, <1>2, <2>1, <2>2 DEF Restart, TPeer, NoSnap, Phases
    <2>5. tdisk.commit <= tdisk.last /\ kv.tapplied <= tdisk.commit
      BY Zenon DEF IInv, DiskInv
    <2>6. ta' \in TApply /\ tbox' \in Seq(TIdx) /\ meta' \in Meta
      BY Zenon, <1>2, <2>1, <2>2 DEF Restart, TApply, Meta
    <2>7. PICK i \in esdisk.sapplied .. es.sapplied, j \in esdisk.tapplied .. es.tapplied :
            esdisk' = [esdisk EXCEPT !.sapplied = i, !.tapplied = j]
      BY Zenon, <1>2 DEF Restart
    <2>8. i \in SIdx /\ j \in TIdx
      <3>1. /\ es.sapplied \in 0 .. N /\ esdisk.sapplied \in 0 .. N
            /\ es.tapplied \in 0 .. L /\ esdisk.tapplied \in 0 .. L
        BY Zenon, <1>a, <2>1
      <3>2. i \in 0 .. N /\ j \in 0 .. L
        BY SMTT(60), <1>a, <3>1
      <3> QED
        BY Zenon, <1>a, <3>2
    <2>9. esdisk' \in EngineStore /\ es' \in EngineStore
      BY Zenon, <1>0, <1>2, <2>7, <2>8 DEF Restart, TypeOK, EngineStore
    <2>10. crashes' \in 0 .. MaxCrashes
      BY SMTT(60), <1>0, <1>2, MergeAssumption DEF Restart, TypeOK
    <2> QED
      BY Zenon, <1>0, <1>1, <1>2, <2>3, <2>4, <2>5, <2>6, <2>9, <2>10 DEF Restart, TypeOK
  <1>3. CASE UNCHANGED vars
    BY Zenon, <1>0, <1>1, <1>3 DEF vars, TypeOK
  <1> QED
    BY Zenon, <1>2, <1>3, TypeSource, TypeTarget DEF Next, Work, SourceStep, TargetStep

-----------------------------------------------------------------------------
(* The fields of the state by themselves. *)

SNat ==
  /\ N \in Nat /\ SIdx = 0 .. N /\ low \in Nat
  /\ sp.last \in 0 .. N /\ sp.commit \in 0 .. N /\ sp.sent \in 0 .. N
  /\ sp.merge \in 0 .. N /\ sp.cul \in 0 .. N
  /\ sa.applied \in 0 .. N /\ sdisk.last \in 0 .. N /\ sdisk.commit \in 0 .. N
  /\ kv.sapplied \in 0 .. N /\ kv.merge \in 0 .. N
  /\ es.sapplied \in 0 .. N /\ esdisk.sapplied \in 0 .. N

TNat ==
  /\ L \in Nat /\ TIdx = 0 .. L /\ Merge \in 0 .. L
  /\ tp.last \in 0 .. L /\ tp.commit \in 0 .. L /\ tp.sent \in 0 .. L /\ tp.applied \in 0 .. L
  /\ tp.snap \in 0 .. L /\ tp.inst.idx \in 0 .. L /\ tp.checked.idx \in 0 .. L
  /\ tp.commit <= tp.last /\ tp.sent <= tp.commit
  /\ ta.applied \in 0 .. L /\ kv.tapplied \in 0 .. L
  /\ tdisk.last \in 0 .. L /\ tdisk.commit \in 0 .. L
  /\ es.tapplied \in 0 .. L /\ esdisk.tapplied \in 0 .. L

\* The indexes as bare numbers, for arithmetic.
LEMMA Numbers == TypeOK => SNat /\ TNat
PROOF
  <1> SUFFICES ASSUME TypeOK PROVE SNat /\ TNat
    OBVIOUS
  <1>0. Logs /\ Epochs
    BY LogFacts, EpochFacts
  <1>1. SIdx = 0 .. N /\ N \in Nat /\ TIdx = 0 .. L /\ L \in Nat /\ Merge \in TIdx
    BY <1>0 DEF Logs, Epochs, L
  <1>2. low \in 0 .. N + 1
    BY Zenon DEF TypeOK, N
  <1>3. low \in Nat
    BY <1>1, <1>2
  <1> QED
    BY Zenon, <1>1, <1>3 DEF SNat, TNat, TypeOK, SPeer, SApply, TPeer, TApply, Kv, EngineStore

(* Which steps change a part of the state. *)

Writers ==
  /\ UNCHANGED low \/ AppendT
  /\ UNCHANGED sdisk \/ AppendS \/ ReadyS
  /\ UNCHANGED tdisk \/ AppendT \/ ReadyT \/ PersistSnapshot
  /\ UNCHANGED tbox \/ ApplyT \/ WriteT \/ OnApplyRes \/ Restart
  /\ UNCHANGED kv \/ WriteS \/ OnRaftLogGcFlushed \/ WriteT \/ PersistSnapshot \/ InstallSnapshot
  /\ UNCHANGED <<es, esdisk>> \/ ApplyS \/ OnRegionDestroyed \/ ApplyT \/ ExecCommitMerge
       \/ InstallSnapshot \/ Restart
  /\ UNCHANGED meta \/ OnApplyDestroyedForSnapshot \/ OnRaftLogGcFlushed \/ OnMergeTarget
       \/ OnApplyRes \/ StepSnapshot \/ OnPersistSnapshot \/ Restart
  /\ UNCHANGED ta \/ LogsUpToDateForMerge \/ ApplyT \/ WaitMergeSource \/ ExecCommitMerge
       \/ WriteT \/ OnPersistSnapshot \/ Restart
  /\ UNCHANGED sa \/ ApplyS \/ WriteS \/ OnCatchUpLogs \/ OnReadyPrepareMerge
       \/ OnMergeResultStep1 \/ OnMergeTarget \/ LogsUpToDateForMerge \/ HandleDestroy \/ Restart
  /\ UNCHANGED tp \/ AppendT \/ ReadyT \/ OnApplyRes \/ CheckSnapshot \/ StepSnapshot
       \/ TakeSnapshot \/ PersistSnapshot \/ OnPersistSnapshot \/ InstallSnapshot
       \/ FinishSnapshot \/ Restart
  /\ UNCHANGED sp \/ AppendS \/ ReadyS \/ OnCatchUpLogs \/ OnReadyPrepareMerge
       \/ OnReadyRollbackMerge \/ OnMergeResultLog \/ OnMergeResultStep1 \/ OnMergeResultStep2
       \/ OnApplyDestroyed \/ OnRaftLogGcFlushed \/ OnMergeTarget \/ Restart
  /\ UNCHANGED sbox \/ WriteS \/ OnCatchUpLogs \/ OnReadyPrepareMerge \/ OnReadyRollbackMerge
       \/ OnMergeResultLog \/ OnMergeResultStep1 \/ OnMergeResultStep2 \/ OnApplyDestroyed
       \/ OnApplyDestroyedForSnapshot \/ RaftLogGcFlushed \/ OnRaftLogGcFlushed \/ HandleDestroy
       \/ WaitMergeSource \/ OnApplyRes \/ StepSnapshot \/ OnPersistSnapshot \/ Restart
  /\ UNCHANGED panic \/ ApplyS \/ OnCatchUpLogs \/ OnReadyRollbackMerge \/ OnMergeResultLog
       \/ OnMergeResultStep2 \/ OnApplyDestroyed \/ OnApplyDestroyedForSnapshot
       \/ OnRegionDestroyed \/ OnRaftLogGcFlushed \/ HandleDestroy \/ ExecCommitMerge
       \/ OnApplyRes \/ StepSnapshot \/ TakeSnapshot \/ OnPersistSnapshot

\* Which handlers write which part of the state.
LEMMA WhoWrites == [Next]_vars => Writers
PROOF
  <1> SUFFICES ASSUME [Next]_vars PROVE Writers
    OBVIOUS
  <1> USE DEF source, target, store
  <1>1. CASE AppendS \/ ReadyS \/ ApplyS \/ WriteS
    BY Zenon, <1>1 DEF AppendS, ReadyS, ApplyS, WriteS, Writers
  <1>2. CASE OnCatchUpLogs \/ OnReadyPrepareMerge \/ OnReadyRollbackMerge \/ OnMergeResultLog
    BY Zenon, <1>2
       DEF OnCatchUpLogs, OnReadyPrepareMerge, OnReadyRollbackMerge, OnMergeResultLog, Writers
  <1>3. CASE OnMergeResultStep1 \/ OnMergeResultStep2 \/ OnApplyDestroyed
    BY Zenon, <1>3 DEF OnMergeResultStep1, OnMergeResultStep2, OnApplyDestroyed, Writers
  <1>4. CASE OnApplyDestroyedForSnapshot \/ RaftLogGcFlushed \/ OnRegionDestroyed \/ OnRaftLogGcFlushed
    BY Zenon, <1>4 DEF OnApplyDestroyedForSnapshot, RaftLogGcFlushed, OnRegionDestroyed,
       OnRaftLogGcFlushed, Writers
  <1>5. CASE OnMergeTarget \/ LogsUpToDateForMerge \/ HandleDestroy
    BY Zenon, <1>5 DEF OnMergeTarget, LogsUpToDateForMerge, HandleDestroy, Writers
  <1>6. CASE AppendT \/ ReadyT \/ ApplyT \/ WaitMergeSource
    BY Zenon, <1>6 DEF AppendT, ReadyT, ApplyT, WaitMergeSource, Writers
  <1>7. CASE ExecCommitMerge \/ WriteT \/ OnApplyRes \/ CheckSnapshot
    BY Zenon, <1>7 DEF ExecCommitMerge, WriteT, OnApplyRes, CheckSnapshot, Writers
  <1>8. CASE StepSnapshot \/ TakeSnapshot \/ PersistSnapshot
    BY Zenon, <1>8 DEF StepSnapshot, TakeSnapshot, PersistSnapshot, Writers
  <1>9. CASE OnPersistSnapshot \/ InstallSnapshot \/ FinishSnapshot
    BY Zenon, <1>9 DEF OnPersistSnapshot, InstallSnapshot, FinishSnapshot, Writers
  <1>10. CASE Restart \/ UNCHANGED vars
    BY Zenon, <1>10 DEF Restart, vars, Writers
  <1> QED
    BY Zenon, <1>1, <1>2, <1>3, <1>4, <1>5, <1>6, <1>7, <1>8, <1>9, <1>10 DEF Next, Work

\* The first message of a mailbox that is not empty.
LEMMA Mail ==
  ASSUME TypeOK, sbox # << >>
  PROVE  /\ Head(sbox) \in Message /\ Tail(sbox) \in Seq(Message)
         /\ Head(sbox).at \in SIdx /\ Head(sbox).k \in Messages
PROOF
  <1>1. sbox \in Seq(Message)
    BY Zenon DEF TypeOK
  <1>2. Head(sbox) \in Message /\ Tail(sbox) \in Seq(Message)
    BY <1>1
  <1> QED
    BY Zenon, <1>2 DEF Message

\* S's log reaches what the CommitMerge does not carry.
LEMMA LogNext ==
  ASSUME IInv, [Next]_vars
  PROVE  LogInv'
PROOF
  <1> USE DEF source, target, store
  <1>0. TypeOK /\ SNat /\ LogInv
    BY Zenon, Numbers DEF IInv
  <1>n. sp.last \in Nat /\ sdisk.last \in Nat /\ low \in Nat
    BY SMTT(60), <1>0 DEF SNat
  <1>l. LogInv
    BY <1>0
  <1>1. CASE AppendS
    <2>1. PICK l \in sp.last .. N, c \in sp.commit .. N :
            /\ sp' = [sp EXCEPT !.last = l, !.commit = c, !.sent = c]
            /\ sdisk' = [last |-> l, commit |-> c] /\ low' = low
      BY Zenon, <1>1 DEF AppendS, N
    <2>2. sp'.last = l /\ sdisk'.last = l
      BY Zenon, <1>0, <2>1 DEF TypeOK, SPeer
    <2>3. l \in Nat /\ sp.last <= l
      BY <1>n
    <2> QED
      BY <1>n, <1>l, <2>1, <2>2, <2>3 DEF LogInv
  <1>2. CASE ReadyS
    <2>1. sp'.last = sp.last /\ sdisk'.last = sp.last /\ low' = low
      BY Zenon, <1>0, <1>2 DEF ReadyS, TypeOK, SPeer
    <2> QED
      BY <1>n, <1>l, <2>1 DEF LogInv
  <1>3. CASE AppendT
    <2>1. /\ low' = low \/ \E i \in 1 .. sdisk.last + 1 : low' = i
          /\ sp' = sp /\ sdisk' = sdisk
      BY Zenon, <1>3 DEF AppendT
    <2> QED
      BY <1>0, <2>1 DEF LogInv, SNat
  <1>4. CASE Restart
    <2>1. sp'.last = sdisk.last /\ sdisk' = sdisk /\ low' = low
      BY Zenon, <1>0, <1>4 DEF Restart, Peer
    <2> QED
      BY <1>0, <2>1 DEF LogInv, SNat
  <1>5. CASE OnCatchUpLogs
    <2>1. sdisk' = sdisk /\ low' = low
      BY Zenon, <1>5 DEF OnCatchUpLogs
    <2>2. Head(sbox).at \in SIdx
      BY Zenon, <1>0, <1>5, Mail DEF OnCatchUpLogs, Took
    <2>3. sp'.last >= sp.last
      <3>1. CASE CaughtUp(Head(sbox).at)
        <4>1. sp'.last = sp.last
          BY Zenon, <1>0, <1>5, <3>1 DEF OnCatchUpLogs, StopFor, TypeOK, SPeer
        <4> QED
          BY <1>0, <4>1 DEF SNat
      <3>2. CASE ~CaughtUp(Head(sbox).at)
        BY Zenon, <1>0, <1>5, <2>2, <3>2, AppendedEntries DEF OnCatchUpLogs, SPeer
      <3> QED
        BY <3>1, <3>2
    <2>4. sp'.last \in 0 .. N
      BY Zenon, TypeNext, Frozen, <1>0 DEF TypeOK, SPeer, SNat
    <2> QED
      BY <1>0, <2>1, <2>3, <2>4 DEF LogInv, SNat
  <1>6. ASSUME ~AppendS, ~ReadyS, ~AppendT, ~Restart, ~OnCatchUpLogs
        PROVE  sp'.last = sp.last /\ sdisk' = sdisk /\ low' = low
    BY ZenonT(60), <1>0, <1>6, WhoWrites DEF Writers, TypeOK, SPeer, DestroyPeer, StopFor,
       OnReadyPrepareMerge, OnReadyRollbackMerge, OnMergeResultLog, OnMergeResultStep1,
       OnMergeResultStep2, OnApplyDestroyed, OnRaftLogGcFlushed, OnMergeTarget
  <1> QED
    BY Zenon, <1>0, <1>1, <1>2, <1>3, <1>4, <1>5, <1>6 DEF LogInv

-----------------------------------------------------------------------------
(* The kinds of messages in S's mailbox. *)

\* A message that is sent is in the mailbox.
LEMMA KindsAppend ==
  ASSUME TypeOK, NEW m \in Message, sbox' = Append(sbox, m)
  PROVE  Kinds' = Kinds \cup {m.k}
PROOF
  <1>1. sbox \in Seq(Message)
    BY Zenon DEF TypeOK
  <1>2. Len(sbox') = Len(sbox) + 1 /\ Len(sbox) \in Nat
    BY <1>1
  <1>3. \A i \in 1 .. Len(sbox) : sbox'[i] = sbox[i]
    BY <1>1
  <1>4. sbox'[Len(sbox) + 1] = m
    BY <1>1
  <1>5. ASSUME NEW k \in Kinds' PROVE k \in Kinds \cup {m.k}
    <2>1. PICK i \in 1 .. Len(sbox') : k = sbox'[i].k
      BY Zenon DEF Kinds
    <2>2. i \in 1 .. Len(sbox) \/ i = Len(sbox) + 1
      BY <1>2
    <2> QED
      BY Zenon, <1>3, <1>4, <2>1, <2>2 DEF Kinds
  <1>6. ASSUME NEW k \in Kinds PROVE k \in Kinds'
    <2>1. PICK i \in 1 .. Len(sbox) : k = sbox[i].k
      BY Zenon DEF Kinds
    <2>2. i \in 1 .. Len(sbox')
      BY <1>2
    <2> QED
      BY Zenon, <1>3, <2>1, <2>2 DEF Kinds
  <1>7. m.k \in Kinds'
    <2>1. Len(sbox) + 1 \in 1 .. Len(sbox')
      BY <1>2
    <2> QED
      BY Zenon, <1>4, <2>1 DEF Kinds
  <1> QED
    BY Zenon, <1>5, <1>6, <1>7

\* A message that is taken is not in the mailbox any more, if it was there once.
LEMMA KindsTail ==
  ASSUME TypeOK, BoxOK(sbox), sbox # << >>, sbox' = Tail(sbox)
  PROVE  /\ Head(sbox).k \in Kinds /\ Kinds = Kinds' \cup {Head(sbox).k}
         /\ Head(sbox).k \in Once => Kinds' = Kinds \ {Head(sbox).k}
PROOF
  <1>1. sbox \in Seq(Message)
    BY Zenon DEF TypeOK
  <1>2. Len(sbox') = Len(sbox) - 1 /\ Len(sbox) \in Nat /\ Len(sbox) > 0
    BY <1>1
  <1>3. \A i \in 1 .. Len(sbox') : sbox'[i] = sbox[i + 1] /\ i + 1 \in 1 .. Len(sbox)
    BY <1>1, <1>2
  <1>4. Head(sbox) = sbox[1] /\ 1 \in 1 .. Len(sbox)
    BY <1>1, <1>2
  <1>5. Head(sbox).k \in Kinds
    BY Zenon, <1>4 DEF Kinds
  <1>6. ASSUME NEW k \in Kinds' PROVE k \in Kinds /\ (Head(sbox).k \in Once => k # Head(sbox).k)
    <2>1. PICK i \in 1 .. Len(sbox') : k = sbox'[i].k
      BY Zenon DEF Kinds
    <2>2. i + 1 # 1
      BY <1>2
    <2> QED
      BY ZenonT(60), <1>3, <1>4, <2>1, <2>2 DEF Kinds, BoxOK
  <1>7. ASSUME NEW k \in Kinds, k # Head(sbox).k PROVE k \in Kinds'
    <2>1. PICK i \in 1 .. Len(sbox) : k = sbox[i].k
      BY Zenon DEF Kinds
    <2>2. i # 1
      BY Zenon, <1>4, <1>7, <2>1
    <2>3. i - 1 \in 1 .. Len(sbox') /\ (i - 1) + 1 = i
      BY <1>2, <2>2
    <2> QED
      BY Zenon, <1>3, <2>1, <2>3 DEF Kinds
  <1> QED
    BY Zenon, <1>5, <1>6, <1>7

\* The first message is in the mailbox.
LEMMA KindsHead ==
  ASSUME TypeOK, NEW k, Took(k)
  PROVE  k \in Kinds /\ sbox # << >> /\ sp.up
PROOF
  <1>1. sbox \in Seq(Message) /\ sbox # << >> /\ Head(sbox).k = k /\ sp.up
    BY Zenon DEF TypeOK, Took
  <1>2. Head(sbox) = sbox[1] /\ 1 \in 1 .. Len(sbox)
    BY <1>1
  <1> QED
    BY Zenon, <1>1, <1>2 DEF Kinds

\* An empty mailbox has no message.
LEMMA KindsEmpty == (sbox' = << >> => Kinds' = {}) /\ (sbox = << >> => Kinds = {})
PROOF
  <1>1. \A i : i \notin 1 .. Len(<< >>)
    OBVIOUS
  <1> QED
    BY Zenon, <1>1 DEF Kinds

-----------------------------------------------------------------------------
(* In which stage of its removal S is. *)

\* A delegate of T whose write of the CommitMerge is not done has executed it.
LEMMA WritesMerge ==
  ASSUME IInv, ta.write, ta.applied = Merge
  PROVE  Executed
PROOF
  <1>0. TypeOK /\ TNat /\ PositionInv
    BY Zenon, Numbers DEF IInv
  <1>1. ~Installing /\ Len(tbox) + 1 = ta.applied - tp.applied
    BY Zenon, <1>0 DEF PositionInv
  <1>2. tbox \in Seq(TIdx) /\ ta.applied \in Nat /\ tp.applied \in Nat
    BY SMTT(60), <1>0 DEF TypeOK, TNat
  <1>3. Len(tbox) \in Nat
    BY <1>2
  <1>4. tp.applied < Merge /\ Merge # 0 /\ Merge <= ta.applied
    BY <1>1, <1>2, <1>3
  <1> QED
    BY Zenon, <1>1, <1>4 DEF Executed

\* T has met S in its log: S has stopped at the PrepareMerge.
LEMMA MergeStage ==
  ASSUME IInv, ta.wait = "ready" \/ Executed
  PROVE  /\ sp.up /\ meta.s /\ sp.delayed = "none" /\ CaughtUpFor
         /\ sa.tasks = << >> /\ sa.stopped /\ sa.applied >= Commit
         /\ kv.s = "Tombstone" <=> Buried
PROOF
  <1>0. TNat /\ PositionInv /\ StageInv
    BY Zenon, Numbers DEF IInv
  <1>1. ~Passed /\ ~ (tp.inst.destroy /\ Replacing) /\ ~Installing /\ tp.sent # tp.applied
    <2>1. CASE ta.wait = "ready"
      <3>1. ~Installing /\ ta.applied + 1 = Merge /\ Merge <= tp.sent
        BY Zenon, <1>0, <2>1 DEF PositionInv
      <3>2. ~Replacing
        BY Zenon, <3>1 DEF Installing, Replacing
      <3>3. tp.applied <= ta.applied /\ ta.applied <= tp.sent
        BY Zenon, <1>0, <3>1 DEF PositionInv
      <3>4. Known = tp.applied
        BY Zenon, <3>2 DEF Known
      <3> QED
        BY SMTT(60), <1>0, <3>1, <3>2, <3>3, <3>4 DEF Passed, TNat
    <2>2. CASE Executed
      <3>1. ~Installing /\ tp.applied < Merge /\ Merge <= ta.applied
        BY Zenon, <2>2 DEF Executed
      <3>2. ~Replacing
        BY Zenon, <3>1 DEF Installing, Replacing
      <3>3. tp.applied <= ta.applied /\ ta.applied <= tp.sent
        BY Zenon, <1>0, <3>1 DEF PositionInv
      <3>4. Known = tp.applied
        BY Zenon, <3>2 DEF Known
      <3> QED
        BY SMTT(60), <1>0, <3>1, <3>2, <3>3, <3>4 DEF Passed, TNat
    <2> QED
      BY <2>1, <2>2
  <1>2. ta.wait # "wait"
    <2>1. CASE Executed
      <3>1. ta.wait # "no" => ta.applied + 1 = Merge
        BY Zenon, <1>0 DEF PositionInv
      <3>2. Merge <= ta.applied
        BY Zenon, <2>1 DEF Executed
      <3> QED
        BY <1>0, <3>1, <3>2 DEF TNat
    <2> QED
      BY Zenon, <2>1
  <1> QED
    BY Zenon, <1>0, <1>1, <1>2
       DEF StageInv, Untouched, CaughtUpFor, StoppedFor, Stale, Leaving, Gone

\* T installs a snapshot that takes the place of S.
LEMMA SnapshotStage ==
  ASSUME IInv, tp.inst.destroy, Replacing
  PROVE  /\ sp.up /\ meta.s /\ sp.delayed = "none" /\ StoppedFor
         /\ kv.s = "Tombstone" <=> tp.inst.phase = "persisted"
         /\ tp.snap = 0 /\ Merge # 0 /\ tp.inst.idx >= Merge /\ meta.atomic = "ready"
         /\ sp.removing /\ sa.tasks = << >> /\ sa.stopped /\ Removal = {}
PROOF
  <1>1. tp.inst # NoSnap
    BY SMTT(60) DEF Replacing, NoSnap
  <1> QED
    BY Zenon, <1>1
       DEF IInv, StageInv, Untouched, CaughtUpFor, StoppedFor, Stale, Leaving, Gone, Quiet

\* S waits for its raft log to be deleted.
LEMMA FlushedStage ==
  ASSUME IInv, "flushed" \in Kinds
  PROVE  /\ sp.up /\ sp.delayed \in {"stale", "merged"}
         /\ sp.delayed = "stale" <=> meta.s
         /\ meta.s => kv.s # "Tombstone"
         /\ Passed /\ Quiet /\ sp.removing /\ sa.tasks = << >> /\ sa.stopped
         /\ Removal = {"flushed"}
PROOF
  <1>1. "flushed" \in Removal
    BY DEF Removal
  <1>2. sbox # << >>
    BY Zenon, KindsEmpty
  <1> QED
    BY <1>1, <1>2
       DEF IInv, StageInv, Untouched, CaughtUpFor, StoppedFor, Stale, Leaving, Gone

-----------------------------------------------------------------------------
(* What S has applied. *)

\* kv keeps the last admin command of S and the PrepareMerge in force.
LEMMA ApplyNext ==
  ASSUME IInv, [Next]_vars
  PROVE  ApplyInv'
PROOF
  <1> USE DEF source, target, store
  <1>0. TypeOK /\ SNat /\ Logs /\ ApplyInv
    BY Zenon, Numbers, LogFacts DEF IInv
  <1>1. h' = h /\ Pending' = Pending /\ N' = N
    BY Zenon, Frozen
  <1>a. /\ kv.sapplied \in 0 .. N /\ sa.applied \in 0 .. N /\ N \in Nat
        /\ kv.sapplied <= sa.applied
    BY Zenon, <1>0 DEF SNat, ApplyInv
  <1>2. CASE ApplyS
    <2> DEFINE i == sa.applied + 1
    <2>1. ~sa.stopped /\ ~sa.write /\ sa.applied < sp.sent /\ kv' = kv
      BY Zenon, <1>2 DEF ApplyS
    <2>2. sa'.applied = i /\ sa'.write = (h.s[i].k # "write") /\ sa'.stopped = sa.stopped
      BY Zenon, <1>0, <1>2 DEF ApplyS, TypeOK, SApply
    <2>3. kv.s # "Tombstone" /\ \A j \in kv.sapplied .. sa.applied : Pending[j] = kv.merge
      BY Zenon, <1>0, <2>1 DEF ApplyInv
    <2>4. /\ kv.sapplied <= i /\ i > kv.sapplied /\ sa.applied \in kv.sapplied .. sa.applied
          /\ \A j \in kv.sapplied .. i : j \in kv.sapplied .. sa.applied \/ j = i
          /\ i - 1 = sa.applied
      BY <1>a
    <2>5. sp.sent \in 0 .. N
      BY Zenon, <1>0 DEF SNat
    <2>6. i \in 1 .. N
      BY <1>a, <2>1, <2>5
    <2> HIDE DEF i
    <2>7. h.s[i].k = "write" => Pending[i] = kv.merge
      BY Zenon, <1>0, <2>3, <2>4, <2>6 DEF Logs
    <2> QED
      BY Zenon, <1>0, <1>1, <2>1, <2>2, <2>3, <2>4, <2>7 DEF ApplyInv
  <1>3. CASE WriteS
    <2> DEFINE i == sa.applied
               p == h.s[i].k = "prepare"
    <2>1. sa.write
      BY Zenon, <1>3 DEF WriteS
    <2>2. sa'.applied = i /\ sa'.write = FALSE /\ sa'.stopped = sa.stopped
      BY Zenon, <1>0, <1>3 DEF WriteS, TypeOK, SApply
    <2>3. /\ kv'.sapplied = i /\ kv'.s = (IF p THEN "Merging" ELSE "Normal")
          /\ kv'.merge = IF p THEN i ELSE 0
      BY Zenon, <1>0, <1>3 DEF WriteS, TypeOK, Kv
    <2>4. i > kv.sapplied /\ h.s[i].k # "write"
      BY Zenon, <1>0, <2>1 DEF ApplyInv
    <2>5. i \in 1 .. N /\ i <= i /\ i # 0 /\ \A j \in i .. i : j = i
      BY <1>a, <2>4
    <2>6. Pending[i] = IF p THEN i ELSE 0
      BY Zenon, <1>0, <2>4, <2>5 DEF Logs
    <2>7. kv'.s # "Tombstone" /\ (kv'.s = "Merging" <=> p)
      BY <2>3
    <2> HIDE DEF i, p
    <2> QED
      BY Zenon, <1>1, <2>2, <2>3, <2>5, <2>6, <2>7 DEF ApplyInv
  <1>4. CASE OnRaftLogGcFlushed
    <2>2. "flushed" \in Kinds
      BY Zenon, <1>0, <1>4, KindsHead DEF OnRaftLogGcFlushed
    <2>3. sa.stopped /\ sa' = sa
      BY Zenon, <1>4, <2>2, FlushedStage DEF OnRaftLogGcFlushed
    <2>4. kv'.s = "Tombstone" /\ kv'.sapplied = 0 /\ kv'.merge = 0
      BY Zenon, <1>0, <1>4 DEF OnRaftLogGcFlushed, TypeOK, Kv
    <2>5. 0 <= sa.applied
      BY <1>a
    <2> QED
      BY Zenon, <1>0, <2>3, <2>4, <2>5 DEF ApplyInv
  <1>5. CASE WriteT
    <2>1. CASE ta.applied = Merge
      <3>1. Executed
        BY Zenon, <1>5, <2>1, WritesMerge DEF WriteT
      <3>2. sa.stopped /\ sa' = sa
        BY Zenon, <1>5, <3>1, MergeStage DEF WriteT
      <3>3. kv'.s = "Tombstone" /\ kv'.sapplied = kv.sapplied /\ kv'.merge = 0
        BY Zenon, <1>0, <1>5, <2>1 DEF WriteT, TypeOK, Kv
      <3> QED
        BY Zenon, <1>0, <3>2, <3>3 DEF ApplyInv
    <2>2. CASE ta.applied # Merge
      <3>1. kv'.s = kv.s /\ kv'.sapplied = kv.sapplied /\ kv'.merge = kv.merge /\ sa' = sa
        BY Zenon, <1>0, <1>5, <2>2 DEF WriteT, TypeOK, Kv
      <3> QED
        BY Zenon, <1>0, <1>1, <3>1 DEF ApplyInv
    <2> QED
      BY <2>1, <2>2
  <1>6. CASE PersistSnapshot
    <2>1. CASE tp.inst.destroy
      <3>1. Replacing
        BY Zenon, <1>6 DEF PersistSnapshot, Replacing
      <3>2. sa.stopped /\ sa' = sa
        BY Zenon, <1>6, <2>1, <3>1, SnapshotStage DEF PersistSnapshot
      <3>3. kv'.s = "Tombstone" /\ kv'.sapplied = kv.sapplied /\ kv'.merge = 0
        BY Zenon, <1>0, <1>6, <2>1 DEF PersistSnapshot, TypeOK, Kv
      <3> QED
        BY Zenon, <1>0, <3>2, <3>3 DEF ApplyInv
    <2>2. CASE ~tp.inst.destroy
      <3>1. kv'.s = kv.s /\ kv'.sapplied = kv.sapplied /\ kv'.merge = kv.merge /\ sa' = sa
        BY Zenon, <1>0, <1>6, <2>2 DEF PersistSnapshot, TypeOK, Kv
      <3> QED
        BY Zenon, <1>0, <1>1, <3>1 DEF ApplyInv
    <2> QED
      BY <2>1, <2>2
  <1>7. CASE LogsUpToDateForMerge \/ HandleDestroy
    <2>1. ~sa.write /\ kv' = kv /\ sa'.applied = sa.applied /\ sa'.write = sa.write /\ sa'.stopped
      BY Zenon, <1>0, <1>7
         DEF LogsUpToDateForMerge, HandleDestroy, ApplyTaskS, TypeOK, SApply
    <2> QED
      BY Zenon, <1>0, <1>1, <2>1 DEF ApplyInv
  <1>8. CASE Restart
    <2>1. /\ kv' = kv /\ sa'.applied = kv.sapplied /\ ~sa'.write
          /\ sa'.stopped = (kv.s = "Tombstone")
      BY Zenon, <1>8 DEF Restart
    <2>2. /\ kv.sapplied <= kv.sapplied /\ \A j \in kv.sapplied .. kv.sapplied : j = kv.sapplied
          /\ kv.sapplied \in kv.sapplied .. sa.applied
          /\ sa.applied > kv.sapplied => kv.sapplied # sa.applied
      BY <1>a
    <2> QED
      BY Zenon, <1>0, <1>1, <2>1, <2>2 DEF ApplyInv
  <1>9. ASSUME ~ApplyS, ~WriteS, ~OnRaftLogGcFlushed, ~WriteT, ~PersistSnapshot,
               ~LogsUpToDateForMerge, ~HandleDestroy, ~Restart
        PROVE  ApplyInv'
    <2>1. sa'.applied = sa.applied /\ sa'.write = sa.write /\ sa'.stopped = sa.stopped
      BY Zenon, <1>0, <1>9, WhoWrites DEF Writers, OnCatchUpLogs, OnReadyPrepareMerge,
         OnMergeResultStep1, OnMergeTarget, StopFor, ScheduleS, TypeOK, SApply
    <2>2. kv'.s = kv.s /\ kv'.sapplied = kv.sapplied /\ kv'.merge = kv.merge
      BY Zenon, <1>0, <1>9, WhoWrites DEF Writers, InstallSnapshot, TypeOK, Kv
    <2> QED
      BY Zenon, <1>0, <1>1, <2>1, <2>2 DEF ApplyInv
  <1> QED
    BY Zenon, <1>2, <1>3, <1>4, <1>5, <1>6, <1>7, <1>8, <1>9

-----------------------------------------------------------------------------
(* S's mailbox, when a message is put at its end and when the first one is taken. *)

\* A result at the end of the mailbox extends the way to the merge in force.
LEMMA LeadsAppend ==
  ASSUME NEW q \in Seq(Message), NEW m \in Message, NEW d \in Nat, NEW p \in Nat, NEW n \in Nat,
         Leads(q, d, p, n), NEW n2 \in Nat, n <= n2, NEW p2 \in 0 .. n2,
         m.k = "prepare" => p2 = m.at,
         m.k = "rollback" => p2 = 0 /\ p = m.at,
         m.k \notin {"prepare", "rollback"} => p2 = p
  PROVE  Leads(Append(q, m), d, p2, n2)
PROOF
  <1> DEFINE l == Len(q)
             z == Append(q, m)
  <1>1. PICK f \in [0 .. l -> 0 .. n] :
          /\ f[0] = d /\ f[l] = p
          /\ \A i \in 1 .. l :
               /\ q[i].k = "prepare" => f[i] = q[i].at
               /\ q[i].k = "rollback" => f[i] = 0 /\ f[i - 1] = q[i].at
               /\ q[i].k \notin {"prepare", "rollback"} => f[i] = f[i - 1]
    BY Zenon DEF Leads
  <1>2. /\ l \in Nat /\ Len(z) = l + 1 /\ z[l + 1] = m /\ \A i \in 1 .. l : z[i] = q[i]
    OBVIOUS
  <1> DEFINE g == [i \in 0 .. l + 1 |-> IF i = l + 1 THEN p2 ELSE f[i]]
  <1> HIDE DEF l, z
  <1>3. g \in [0 .. l + 1 -> 0 .. n2]
    BY <1>2
  <1>4. /\ g[0] = d /\ g[l + 1] = p2 /\ g[l] = p /\ (l + 1) - 1 = l
        /\ \A i \in 1 .. l : g[i] = f[i] /\ g[i - 1] = f[i - 1]
        /\ \A i \in 1 .. l + 1 : i \in 1 .. l \/ i = l + 1
    <2>1. l \in Nat
      BY Zenon, <1>2
    <2>2. /\ 0 \in 0 .. l + 1 /\ l \in 0 .. l + 1 /\ l + 1 \in 0 .. l + 1
          /\ 0 # l + 1 /\ l # l + 1 /\ (l + 1) - 1 = l
      BY <2>1
    <2>3. \A i \in 1 .. l : i \in 0 .. l + 1 /\ i - 1 \in 0 .. l + 1 /\ i # l + 1 /\ i - 1 # l + 1
      BY <2>1
    <2>4. \A i \in 1 .. l + 1 : i \in 1 .. l \/ i = l + 1
      BY <2>1
    <2> QED
      BY Zenon, <1>1, <2>2, <2>3, <2>4
  <1> HIDE DEF g
  <1>5. \A i \in 1 .. l + 1 :
          /\ z[i].k = "prepare" => g[i] = z[i].at
          /\ z[i].k = "rollback" => g[i] = 0 /\ g[i - 1] = z[i].at
          /\ z[i].k \notin {"prepare", "rollback"} => g[i] = g[i - 1]
    BY ZenonT(60), <1>1, <1>2, <1>4
  <1>6. l + 1 = Len(z)
    BY Zenon, <1>2
  <1>7. Leads(z, d, p2, n2)
    <2>1. g \in [0 .. Len(z) -> 0 .. n2] /\ g[Len(z)] = p2
      BY Zenon, <1>3, <1>4, <1>6
    <2>2. \A i \in 1 .. Len(z) :
            /\ z[i].k = "prepare" => g[i] = z[i].at
            /\ z[i].k = "rollback" => g[i] = 0 /\ g[i - 1] = z[i].at
            /\ z[i].k \notin {"prepare", "rollback"} => g[i] = g[i - 1]
      BY Zenon, <1>5, <1>6
    <2> QED
      BY Zenon, <1>4, <2>1, <2>2 DEF Leads
  <1> QED
    BY Zenon, <1>7 DEF z

\* A result that is taken moves S's peer along the way.
LEMMA LeadsTail ==
  ASSUME NEW q \in Seq(Message), q # << >>, NEW d \in Nat, NEW p \in Nat, NEW n \in Nat,
         Leads(q, d, p, n), NEW d2 \in Nat,
         Head(q).k = "prepare" => d2 = Head(q).at,
         Head(q).k = "rollback" => d2 = 0,
         Head(q).k \notin {"prepare", "rollback"} => d2 = d
  PROVE  Leads(Tail(q), d2, p, n) /\ (Head(q).k = "rollback" => d = Head(q).at)
PROOF
  <1> DEFINE l == Len(q)
             z == Tail(q)
  <1>1. PICK f \in [0 .. l -> 0 .. n] :
          /\ f[0] = d /\ f[l] = p
          /\ \A i \in 1 .. l :
               /\ q[i].k = "prepare" => f[i] = q[i].at
               /\ q[i].k = "rollback" => f[i] = 0 /\ f[i - 1] = q[i].at
               /\ q[i].k \notin {"prepare", "rollback"} => f[i] = f[i - 1]
    BY Zenon DEF Leads
  <1>2. /\ l \in Nat /\ l > 0 /\ Len(z) = l - 1 /\ q[1] = Head(q)
        /\ \A i \in 1 .. l - 1 : z[i] = q[i + 1]
    OBVIOUS
  <1> DEFINE g == [i \in 0 .. l - 1 |-> f[i + 1]]
  <1> HIDE DEF l, z
  <1>3. g \in [0 .. l - 1 -> 0 .. n]
    BY <1>2
  <1>4. /\ 1 \in 1 .. l /\ 1 - 1 = 0 /\ g[0] = f[1] /\ g[l - 1] = f[l]
        /\ \A i \in 1 .. l - 1 : /\ i + 1 \in 1 .. l /\ g[i] = f[i + 1] /\ g[i - 1] = f[i]
                                 /\ (i + 1) - 1 = i
    BY SMTT(60), <1>1, <1>2
  <1> HIDE DEF g
  <1>5. g[0] = d2 /\ (Head(q).k = "rollback" => d = Head(q).at)
    BY ZenonT(60), <1>1, <1>2, <1>4
  <1>6. l - 1 = Len(z)
    BY Zenon, <1>2
  <1>7. Leads(z, d2, p, n)
    <2>1. g \in [0 .. Len(z) -> 0 .. n] /\ g[Len(z)] = p
      BY Zenon, <1>1, <1>3, <1>4, <1>6
    <2>2. ASSUME NEW i \in 1 .. Len(z)
          PROVE  /\ z[i].k = "prepare" => g[i] = z[i].at
                 /\ z[i].k = "rollback" => g[i] = 0 /\ g[i - 1] = z[i].at
                 /\ z[i].k \notin {"prepare", "rollback"} => g[i] = g[i - 1]
      <3>1. /\ z[i] = q[i + 1] /\ i + 1 \in 1 .. l /\ g[i] = f[i + 1] /\ g[i - 1] = f[i]
            /\ f[(i + 1) - 1] = f[i]
        BY Zenon, <1>2, <1>4, <1>6
      <3> QED
        BY Zenon, <1>1, <3>1
    <2> QED
      BY Zenon, <1>5, <2>1, <2>2 DEF Leads
  <1> QED
    BY Zenon, <1>5, <1>7 DEF z

\* With no result pending S's peer knows of the merge in force.
LEMMA LeadsEmpty ==
  ASSUME NEW n \in Nat, NEW d \in 0 .. n
  PROVE  Leads(<< >>, d, d, n)
PROOF
  <1> DEFINE f == [i \in 0 .. 0 |-> d]
  <1>1. f \in [0 .. 0 -> 0 .. n] /\ f[0] = d /\ Len(<< >>) = 0 /\ \A i : i \notin 1 .. 0
    OBVIOUS
  <1> HIDE DEF f
  <1> QED
    BY Zenon, <1>1 DEF Leads

\* A mailbox knows of no PrepareMerge above n.
LEMMA LeadsBound ==
  ASSUME NEW q \in Seq(Message), NEW d, NEW p, NEW n \in Nat, Leads(q, d, p, n)
  PROVE  d \in 0 .. n /\ \A i \in 1 .. Len(q) : q[i].k = "prepare" => q[i].at \in 0 .. n
PROOF
  <1>1. PICK f \in [0 .. Len(q) -> 0 .. n] :
          f[0] = d /\ \A i \in 1 .. Len(q) : q[i].k = "prepare" => f[i] = q[i].at
    BY Zenon DEF Leads
  <1>2. Len(q) \in Nat
    OBVIOUS
  <1> QED
    BY <1>1, <1>2

\* A step after which S's peer knows of the same results.
Steady ==
  /\ Merge' = Merge /\ Commit' = Commit
  /\ sp'.up = sp.up /\ kv'.sapplied = kv.sapplied
  /\ ~sa'.stopped => ~sa.stopped /\ kv'.merge = kv.merge

\* A message that is sent keeps the mailbox in order.
LEMMA BoxAppend ==
  ASSUME TypeOK, BoxOK(sbox), NEW m \in Message, sbox' = Append(sbox, m), Commit' = Commit,
         m.k \in Once => m.k \notin Kinds, m.k = "catch_up" => m.at = Commit,
         m.k = "prepare" => m.at # 0
  PROVE  BoxOK(sbox)'
PROOF
  <1>1. sbox \in Seq(Message)
    BY Zenon DEF TypeOK
  <1>2. /\ \A i \in 1 .. Len(sbox') : i \in 1 .. Len(sbox) \/ i = Len(sbox) + 1
        /\ \A i \in 1 .. Len(sbox) : sbox'[i] = sbox[i]
        /\ sbox'[Len(sbox) + 1] = m
    BY <1>1
  <1>3. \A i \in 1 .. Len(sbox) : m.k \in Once => sbox[i].k # m.k
    BY Zenon DEF Kinds
  <1>4. ASSUME NEW i \in 1 .. Len(sbox'), NEW j \in 1 .. Len(sbox'),
               sbox'[i].k = sbox'[j].k, sbox'[i].k \in Once
        PROVE  i = j
    BY Zenon, <1>2, <1>3, <1>4 DEF BoxOK
  <1>5. \A i \in 1 .. Len(sbox') : /\ sbox'[i].k = "catch_up" => sbox'[i].at = Commit
                                   /\ sbox'[i].k = "prepare" => sbox'[i].at # 0
    BY Zenon, <1>2 DEF BoxOK
  <1> QED
    BY Zenon, <1>4, <1>5 DEF BoxOK, Once, Messages

\* So does one that is taken.
LEMMA BoxTail ==
  ASSUME TypeOK, BoxOK(sbox), sbox # << >>, sbox' = Tail(sbox), Commit' = Commit
  PROVE  BoxOK(sbox)'
PROOF
  <1>1. sbox \in Seq(Message)
    BY Zenon DEF TypeOK
  <1>2. \A i \in 1 .. Len(sbox') : sbox'[i] = sbox[i + 1] /\ i + 1 \in 1 .. Len(sbox)
    BY <1>1
  <1>3. \A i, j \in 1 .. Len(sbox') : i + 1 = j + 1 => i = j
    BY <1>1
  <1>4. ASSUME NEW i \in 1 .. Len(sbox'), NEW j \in 1 .. Len(sbox'),
               sbox'[i].k = sbox'[j].k, sbox'[i].k \in Once
        PROVE  i = j
    <2>1. /\ sbox[i + 1].k = sbox[j + 1].k /\ sbox[i + 1].k \in Once
          /\ i + 1 \in 1 .. Len(sbox) /\ j + 1 \in 1 .. Len(sbox)
      BY Zenon, <1>2, <1>4
    <2> QED
      BY Zenon, <1>3, <2>1 DEF BoxOK
  <1>5. \A i \in 1 .. Len(sbox') : /\ sbox'[i].k = "catch_up" => sbox'[i].at = Commit
                                   /\ sbox'[i].k = "prepare" => sbox'[i].at # 0
    BY ZenonT(60), <1>2 DEF BoxOK
  <1> QED
    BY Zenon, <1>4, <1>5 DEF BoxOK, Once, Messages

\* An empty mailbox is in order.
LEMMA BoxEmpty == sbox' = << >> => BoxOK(sbox)'
PROOF
  <1>1. \A i : i \notin 1 .. Len(<< >>)
    OBVIOUS
  <1> QED
    BY Zenon, <1>1 DEF BoxOK

\* Nothing is sent after the PrepareMerge of the merge.
LEMMA ClosedAppend ==
  ASSUME NEW q \in Seq(Message), NEW m \in Message, NEW d, Closed(q, d),
         m.k \in {"prepare", "rollback"} =>
           d # Commit /\ \A i \in 1 .. Len(q) : ~ (q[i].k = "prepare" /\ q[i].at = Commit)
  PROVE  Closed(Append(q, m), d)
PROOF
  <1> DEFINE z == Append(q, m)
             l == Len(q)
  <1>1. /\ \A i \in 1 .. Len(z) : i \in 1 .. l \/ i = l + 1
        /\ \A i \in 1 .. l : z[i] = q[i]
        /\ z[l + 1] = m
        /\ \A i, j \in 1 .. Len(z) : i < j => i \in 1 .. l
    OBVIOUS
  <1> HIDE DEF z, l
  <1>2. ASSUME d = Commit, NEW i \in 1 .. Len(z)
        PROVE  z[i].k \notin {"prepare", "rollback"}
    BY Zenon, <1>1, <1>2 DEF Closed, l
  <1>3. ASSUME NEW i \in 1 .. Len(z), NEW j \in 1 .. Len(z), i < j, z[i].k = "prepare", z[i].at = Commit
        PROVE  z[j].k \notin {"prepare", "rollback"}
    <2>1. i \in 1 .. l /\ q[i].k = "prepare" /\ q[i].at = Commit
      BY Zenon, <1>1, <1>3
    <2> QED
      BY Zenon, <1>1, <1>3, <2>1 DEF Closed, l
  <1>4. Closed(z, d)
    BY Zenon, <1>2, <1>3 DEF Closed
  <1> QED
    BY Zenon, <1>4 DEF z

\* Nothing follows it when a message is taken.
LEMMA ClosedTail ==
  ASSUME NEW q \in Seq(Message), q # << >>, NEW d, Closed(q, d), Commit # 0, NEW d2,
         Head(q).k = "prepare" => d2 = Head(q).at,
         Head(q).k = "rollback" => d2 = 0,
         Head(q).k \notin {"prepare", "rollback"} => d2 = d
  PROVE  Closed(Tail(q), d2)
PROOF
  <1> DEFINE z == Tail(q)
             l == Len(q)
  <1>1. /\ \A i \in 1 .. Len(z) : z[i] = q[i + 1] /\ i + 1 \in 1 .. l /\ 1 < i + 1
        /\ \A i, j \in 1 .. Len(z) : i < j => i + 1 < j + 1
        /\ 1 \in 1 .. l /\ q[1] = Head(q)
    OBVIOUS
  <1> HIDE DEF z, l
  <1>2. ASSUME d2 = Commit, NEW i \in 1 .. Len(z)
        PROVE  z[i].k \notin {"prepare", "rollback"}
    BY Zenon, <1>1, <1>2 DEF Closed, l
  <1>3. ASSUME NEW i \in 1 .. Len(z), NEW j \in 1 .. Len(z), i < j, z[i].k = "prepare", z[i].at = Commit
        PROVE  z[j].k \notin {"prepare", "rollback"}
    BY Zenon, <1>1, <1>3 DEF Closed, l
  <1>4. Closed(z, d2)
    BY Zenon, <1>2, <1>3 DEF Closed
  <1> QED
    BY Zenon, <1>4 DEF z

\* A message that is no result.
LEMMA MailAppend ==
  ASSUME TypeOK, MailInv, Steady, NEW m \in Message, sp.up, sbox' = Append(sbox, m),
         m.k \in Once, m.k \notin Kinds, m.k = "catch_up" => m.at = Commit, sp'.merge = sp.merge
  PROVE  MailInv'
PROOF
  <1>0. /\ sbox \in Seq(Message) /\ N \in Nat /\ sp.merge \in Nat /\ kv.sapplied \in Nat
    BY SMTT(60), Numbers DEF TypeOK, SNat
  <1>2. m.k \notin {"prepare", "rollback"}
    BY Zenon DEF Once
  <1>1. BoxOK(sbox)'
    BY Zenon, <1>2, BoxAppend DEF MailInv, Steady
  <1>3. PICK p \in 0 .. kv.sapplied :
          Leads(sbox, sp.merge, p, kv.sapplied) /\ (~sa.stopped => p = kv.merge)
    BY Zenon DEF MailInv
  <1>4. p \in Nat /\ kv.sapplied <= kv.sapplied
    BY <1>0
  <1>5. Leads(sbox', sp.merge, p, kv.sapplied)
    <2>1. /\ m.k = "prepare" => p = m.at
          /\ m.k = "rollback" => p = 0 /\ p = m.at
      BY <1>2
    <2> QED
      BY Zenon, <1>0, <1>3, <1>4, <2>1, LeadsAppend
  <1>6. ASSUME Merge # 0 PROVE Closed(sbox', sp.merge)
    BY Zenon, <1>0, <1>2, <1>6, ClosedAppend DEF MailInv
  <1>7. Merge' = Merge /\ Commit' = Commit /\ sp'.merge = sp.merge /\ kv'.sapplied = kv.sapplied
    BY Zenon DEF Steady
  <1>8. ~sa'.stopped => p = kv'.merge
    BY Zenon, <1>3 DEF Steady
  <1>9. (Merge # 0 => Closed(sbox, sp.merge))'
    BY Zenon, <1>6, <1>7 DEF Closed
  <1>10. p \in 0 .. kv'.sapplied /\ Leads(sbox', sp'.merge, p, kv'.sapplied)
    BY Zenon, <1>5, <1>7
  <1> QED
    BY Zenon, <1>1, <1>8, <1>9, <1>10 DEF MailInv, Leads

\* The mailbox invariant when S's peer takes a message.
LEMMA MailTail ==
  ASSUME TypeOK, MailInv, Steady, sp.up, sbox # << >>, sbox' = Tail(sbox), sp'.merge \in SIdx,
         Head(sbox).k = "prepare" => sp'.merge = Head(sbox).at,
         Head(sbox).k = "rollback" => sp'.merge = 0,
         Head(sbox).k \notin {"prepare", "rollback"} => sp'.merge = sp.merge
  PROVE  MailInv'
PROOF
  <1>0. /\ sbox \in Seq(Message) /\ N \in Nat /\ sp.merge \in Nat /\ kv.sapplied \in Nat
        /\ sp'.merge \in Nat
    <2>1. /\ sbox \in Seq(Message) /\ N \in Nat /\ SIdx = 0 .. N
          /\ sp.merge \in 0 .. N /\ kv.sapplied \in 0 .. N
      BY Zenon, Numbers DEF TypeOK, SNat
    <2> QED
      BY <2>1
  <1>1. BoxOK(sbox)'
    BY Zenon, BoxTail DEF MailInv, Steady
  <1>2. PICK p \in 0 .. kv.sapplied :
          Leads(sbox, sp.merge, p, kv.sapplied) /\ (~sa.stopped => p = kv.merge)
    BY Zenon DEF MailInv
  <1>3. p \in Nat
    BY <1>0
  <1>4. Leads(sbox', sp'.merge, p, kv.sapplied)
    BY Zenon, <1>0, <1>2, <1>3, LeadsTail
  <1>5. ASSUME Merge # 0 PROVE Closed(sbox', sp'.merge)
    <2>1. Commit # 0
      BY Zenon, <1>5, LogFacts DEF Logs
    <2> QED
      BY Zenon, <1>0, <1>5, <2>1, ClosedTail DEF MailInv
  <1>6. Merge' = Merge /\ Commit' = Commit /\ kv'.sapplied = kv.sapplied
    BY Zenon DEF Steady
  <1>7. ~sa'.stopped => p = kv'.merge
    BY Zenon, <1>2 DEF Steady
  <1>8. (Merge # 0 => Closed(sbox, sp.merge))'
    BY Zenon, <1>5, <1>6 DEF Closed
  <1>9. p \in 0 .. kv'.sapplied /\ Leads(sbox', sp'.merge, p, kv'.sapplied)
    BY Zenon, <1>4, <1>6
  <1> QED
    BY Zenon, <1>1, <1>7, <1>8, <1>9 DEF MailInv, Leads

\* S's peer rolls back the merge it knows of.
LEMMA RollbackHead ==
  ASSUME TypeOK, MailInv, sp.up, sbox # << >>, Head(sbox).k = "rollback"
  PROVE  sp.merge = Head(sbox).at
PROOF
  <1>0. /\ sbox \in Seq(Message) /\ sp.merge \in Nat /\ kv.sapplied \in Nat /\ 0 \in Nat
    BY SMTT(60), Numbers DEF TypeOK, SNat
  <1>2. PICK p \in 0 .. kv.sapplied : Leads(sbox, sp.merge, p, kv.sapplied)
    BY Zenon DEF MailInv
  <1>3. p \in Nat
    BY <1>0
  <1> QED
    BY Zenon, <1>0, <1>2, <1>3, LeadsTail

\* The mailbox invariant when the mailbox does not change.
LEMMA MailSame ==
  ASSUME MailInv, Steady, sbox' = sbox, sp'.merge = sp.merge
  PROVE  MailInv'
PROOF
  <1>1. BoxOK(sbox)'
    BY Zenon DEF MailInv, BoxOK, Steady, Once, Messages
  <1>2. CASE sp.up
    <2>1. PICK p \in 0 .. kv.sapplied :
            Leads(sbox, sp.merge, p, kv.sapplied) /\ (~sa.stopped => p = kv.merge)
      BY Zenon, <1>2 DEF MailInv
    <2>2. ~sa'.stopped => p = kv'.merge
      BY Zenon, <2>1 DEF Steady
    <2>3. (Merge # 0 => Closed(sbox, sp.merge))'
      BY Zenon, <1>2 DEF Closed, MailInv, Steady
    <2>4. p \in 0 .. kv'.sapplied /\ Leads(sbox', sp'.merge, p, kv'.sapplied)
      BY Zenon, <2>1 DEF Steady
    <2> QED
      BY Zenon, <1>1, <2>2, <2>3, <2>4 DEF MailInv, Leads
  <1> QED
    BY Zenon, <1>1, <1>2 DEF MailInv, Steady

\* A result of S's delegate.
LEMMA MailResult ==
  ASSUME IInv, [Next]_vars, WriteS
  PROVE  MailInv'
PROOF
  <1> USE DEF source, target, store
  <1>0. TypeOK /\ SNat /\ Logs /\ MailInv /\ ApplyInv
    BY Zenon, Numbers, LogFacts DEF IInv
  <1> DEFINE i == sa.applied
             p == h.s[i].k = "prepare"
             m == [k |-> h.s[i].k, at |-> IF p THEN i ELSE h.s[i].at]
  <1>1. sa.write
    BY Zenon DEF WriteS
  <1>2. /\ kv'.sapplied = i /\ kv'.merge = IF p THEN i ELSE 0
    BY Zenon, <1>0 DEF WriteS, TypeOK, Kv
  <1>3. i > kv.sapplied /\ h.s[i].k # "write" /\ ~sa.stopped /\ kv.s # "Tombstone"
    BY Zenon, <1>0, <1>1 DEF ApplyInv
  <1>4. /\ i \in 1 .. N /\ i - 1 \in kv.sapplied .. i /\ i - 1 # i /\ kv.sapplied <= i
        /\ i \in Nat /\ kv.sapplied \in Nat /\ sp.merge \in Nat /\ N \in Nat /\ i \in 0 .. i
        /\ 0 \in 0 .. i /\ i - 1 \in SIdx /\ i \in SIdx
    <2>1. /\ i \in 0 .. N /\ kv.sapplied \in 0 .. N /\ sp.merge \in 0 .. N /\ N \in Nat
          /\ SIdx = 0 .. N /\ i > kv.sapplied
      BY Zenon, <1>0, <1>3 DEF SNat
    <2> HIDE DEF i
    <2> QED
      BY <2>1
  <1>5. Pending[i - 1] = kv.merge
    BY Zenon, <1>0, <1>3, <1>4 DEF ApplyInv
  <1>6. h.s[i].k \in {"prepare", "rollback"} /\ (~p => Pending[i - 1] = h.s[i].at)
    BY Zenon, <1>0, <1>3, <1>4 DEF Logs
  <1>7. m \in Message
    <2>1. (IF p THEN i ELSE h.s[i].at) \in SIdx
      BY Zenon, <1>0, <1>4, <1>6 DEF Logs
    <2>2. h.s[i].k \in Messages
      BY <1>6 DEF Messages
    <2> QED
      BY <2>1, <2>2 DEF Message
  <1>8. sp' = sp /\ sbox' = (IF sp.up THEN Append(sbox, m) ELSE sbox)
    BY Zenon DEF WriteS, ToSource
  <1>9. m.k = h.s[i].k /\ m.at = (IF p THEN i ELSE h.s[i].at)
    OBVIOUS
  <1> HIDE DEF i, m
  <1>a. Merge' = Merge /\ Commit' = Commit
    BY Zenon, Frozen
  <1>10. m.k \notin Once
    BY Zenon, <1>6, <1>9 DEF Once
  <1>11. CASE sp.up
    <2>0. sbox \in Seq(Message) /\ sbox' = Append(sbox, m)
      BY Zenon, <1>0, <1>8, <1>11 DEF TypeOK
    <2>1. BoxOK(sbox)'
      <3>1. m.k # "catch_up" /\ (m.k = "prepare" => m.at # 0)
        BY <1>4, <1>6, <1>9
      <3> QED
        BY Zenon, <1>0, <1>7, <1>10, <1>a, <2>0, <3>1, BoxAppend DEF MailInv
    <2>2. Leads(sbox, sp.merge, kv.merge, kv.sapplied) /\ (Merge # 0 => Closed(sbox, sp.merge))
      BY Zenon, <1>0, <1>3, <1>11 DEF MailInv
    <2>3. ASSUME Merge # 0
          PROVE  /\ sp.merge # Commit
                 /\ \A j \in 1 .. Len(sbox) : ~ (sbox[j].k = "prepare" /\ sbox[j].at = Commit)
      <3>1. /\ sp.merge \in 0 .. kv.sapplied
            /\ \A j \in 1 .. Len(sbox) : sbox[j].k = "prepare" => sbox[j].at \in 0 .. kv.sapplied
        BY Zenon, <1>4, <2>0, <2>2, LeadsBound
      <3>2. /\ Commit \in 1 .. N /\ (i \in Commit .. N => Pending[i] = Commit)
            /\ Pending[i] = i \/ Pending[i] = 0
        BY Zenon, <1>0, <1>4, <1>6, <2>3 DEF Logs
      <3>3. Commit \notin 0 .. kv.sapplied
        BY <1>3, <1>4, <3>2
      <3> QED
        BY Zenon, <3>1, <3>3
    <2>4. Merge # 0 => Closed(sbox', sp.merge)
      BY Zenon, <1>7, <2>0, <2>2, <2>3, ClosedAppend
    <2>5. Leads(sbox', sp.merge, kv'.merge, i)
      <3>1. /\ m.k = "prepare" => kv'.merge = m.at
            /\ m.k = "rollback" => kv'.merge = 0 /\ kv.merge = m.at
            /\ m.k \in {"prepare", "rollback"}
            /\ kv'.merge \in 0 .. i
        BY SMTT(60), <1>2, <1>4, <1>5, <1>6, <1>9
      <3>2. kv.merge \in Nat
        BY <1>0 DEF SNat
      <3> QED
        BY Zenon, <1>4, <1>7, <2>0, <2>2, <3>1, <3>2, LeadsAppend
    <2>6. kv'.merge \in 0 .. kv'.sapplied
      BY Zenon, <1>2, <1>4
    <2>7. (Merge # 0 => Closed(sbox, sp.merge))'
      BY Zenon, <1>8, <1>a, <2>4 DEF Closed
    <2>8. Leads(sbox', sp'.merge, kv'.merge, kv'.sapplied)
      BY Zenon, <1>2, <1>8, <2>5
    <2> QED
      BY Zenon, <2>1, <2>6, <2>7, <2>8 DEF MailInv, Leads
  <1>12. CASE ~sp.up
    <2>1. BoxOK(sbox)'
      BY Zenon, <1>0, <1>8, <1>12, <1>a DEF BoxOK, MailInv, Once, Messages
    <2> QED
      BY Zenon, <1>8, <1>12, <2>1 DEF MailInv
  <1> QED
    BY <1>11, <1>12

\* A task for S's delegate.
LEMMA TaskStage ==
  ASSUME IInv, sa.tasks # << >>
  PROVE  /\ sa.tasks = << Head(sa.tasks) >> /\ Tail(sa.tasks) = << >>
         /\ ~sa.stopped /\ sp.up /\ meta.s /\ sp.removing /\ sp.delayed = "none" /\ Removal = {}
         /\ Head(sa.tasks) = "logs_up_to_date" => CaughtUpFor /\ ta.wait = "wait"
         /\ Head(sa.tasks) = "destroy" => Stale
         /\ Head(sa.tasks) = "destroy_for_snapshot" => StoppedFor /\ tp.snap # 0 /\ meta.atomic = "wait"
PROOF
  <1>1. \A t : Head(<< t >>) = t /\ Tail(<< t >>) = << >>
    OBVIOUS
  <1>2. /\ "logs_up_to_date" # "destroy" /\ "logs_up_to_date" # "destroy_for_snapshot"
        /\ "destroy" # "destroy_for_snapshot"
    OBVIOUS
  <1> QED
    BY Zenon, <1>1, <1>2
       DEF IInv, StageInv, Untouched, CaughtUpFor, StoppedFor, Stale, Leaving, Gone

\* The next result of T's delegate.
LEMMA ResultStage ==
  ASSUME IInv, tbox # << >>
  PROVE  /\ ~Installing /\ Head(tbox) = tp.applied + 1 /\ Head(tbox) <= ta.applied
         /\ Head(tbox) = Merge => Executed
PROOF
  <1>0. TypeOK /\ TNat /\ PositionInv
    BY Zenon, Numbers DEF IInv
  <1>1. /\ ~Installing /\ \A i \in 1 .. Len(tbox) : tbox[i] = tp.applied + i
        /\ Len(tbox) + (IF ta.write THEN 1 ELSE 0) = ta.applied - tp.applied
    BY Zenon, <1>0 DEF PositionInv
  <1>2. tbox \in Seq(TIdx)
    BY Zenon, <1>0 DEF TypeOK
  <1>3. Len(tbox) \in Nat /\ Len(tbox) > 0 /\ Head(tbox) = tbox[1]
    BY <1>2
  <1>4. Head(tbox) = tp.applied + 1
    BY SMTT(60), <1>1, <1>3
  <1>5. /\ tp.applied \in Nat /\ ta.applied \in Nat /\ Merge \in Nat
    BY SMTT(60), <1>0 DEF TNat
  <1>6. tp.applied + 1 <= ta.applied
    <2>1. Len(tbox) + (IF ta.write THEN 1 ELSE 0) = ta.applied - tp.applied
      BY Zenon, <1>1
    <2> QED
      BY <1>3, <1>5, <2>1
  <1>7. tp.applied + 1 = Merge => Merge # 0 /\ tp.applied < Merge /\ Merge <= ta.applied
    BY <1>5, <1>6
  <1> QED
    BY Zenon, <1>1, <1>4, <1>6, <1>7 DEF Executed

\* T's peer has checked a snapshot that takes the place of S: S is not told yet.
LEMMA CheckedStage ==
  ASSUME IInv, tp.checked.destroy
  PROVE  /\ tp.checked.idx # 0 /\ Covers(tp.checked.idx) /\ meta.s /\ sp.up /\ meta.atomic = "none"
         /\ "from_target_snapshot_step1" \notin Kinds
         /\ Untouched \/ CaughtUpFor \/ Stale
PROOF
  <1>1. /\ tp.checked.idx # 0 /\ Covers(tp.checked.idx) /\ meta.s /\ meta.atomic = "none"
    BY Zenon DEF IInv, RangeInv
  <1>2. sp.up /\ (Untouched \/ CaughtUpFor \/ Stale)
    BY Zenon, <1>1 DEF IInv, StageInv, StoppedFor
  <1>3. "from_target_snapshot_step1" \notin Removal
    BY <1>2 DEF Untouched, CaughtUpFor, Stale
  <1>4. "from_target_snapshot_step1" \notin Kinds
    BY <1>3 DEF Removal
  <1> QED
    BY Zenon, <1>1, <1>2, <1>4

\* A step that only adds messages to S's mailbox adds one that is not there yet.
Sends(m) ==
  /\ m \in Message /\ m.k \in Once /\ m.k \notin Kinds /\ (m.k = "catch_up" => m.at = Commit)
  /\ sp.up /\ sbox' = Append(sbox, m)

\* A message that is there at most once is not sent while it is there.
LEMMA SendsOnce ==
  ASSUME IInv, [Next]_vars,
         \/ RaftLogGcFlushed \/ HandleDestroy \/ WaitMergeSource \/ OnApplyRes
         \/ StepSnapshot \/ OnPersistSnapshot
  PROVE  sbox' = sbox \/ \E m : Sends(m)
PROOF
  <1> USE DEF source, target, store
  <1>0. TypeOK /\ TNat /\ SNat /\ Epochs
    BY Zenon, Numbers, EpochFacts DEF IInv
  <1>1. /\ 0 \in SIdx /\ (Merge # 0 => Commit \in SIdx)
    BY <1>0 DEF SNat, Epochs
  <1>2. \A k, c : [k |-> k, at |-> c].k = k /\ [k |-> k, at |-> c].at = c
    OBVIOUS
  <1>3. ASSUME NEW k \in Once, NEW c \in SIdx, k \notin Kinds, k = "catch_up" => c = Commit,
               sp.up, sbox' = Append(sbox, [k |-> k, at |-> c])
        PROVE  Sends([k |-> k, at |-> c])
    BY Zenon, <1>2, <1>3 DEF Sends, Message, Once
  <1>a. {"flushed", "destroyed", "destroyed_for_snapshot", "from_target_log", "catch_up",
         "from_target_snapshot_step1", "from_target_snapshot_step2"} \subseteq Once
    BY DEF Once, Messages
  <1>b. Removal = {} => {"flushed", "destroyed", "destroyed_for_snapshot", "from_target_log",
          "from_target_snapshot_step1", "from_target_snapshot_step2"} \cap Kinds = {}
    BY DEF Removal
  <1>4. CASE RaftLogGcFlushed
    <2>1. "flushed" \notin Kinds /\ sp.up /\ sbox' = Append(sbox, [k |-> "flushed", at |-> 0])
      BY Zenon, <1>4 DEF RaftLogGcFlushed, ToSource, Kinds
    <2> QED
      BY Zenon, <1>1, <1>3, <1>a, <2>1
  <1>5. CASE HandleDestroy
    <2>1. PICK s \in BOOLEAN :
            /\ ApplyTaskS(IF s THEN "destroy_for_snapshot" ELSE "destroy")
            /\ sbox' = IF sa.stopped \/ ~sp.up THEN sbox
                       ELSE Append(sbox, [k |-> IF s THEN "destroyed_for_snapshot" ELSE "destroyed",
                                          at |-> 0])
      BY Zenon, <1>5 DEF HandleDestroy
    <2>2. Removal = {} /\ sp.up
      BY Zenon, <2>1, TaskStage DEF ApplyTaskS
    <2> DEFINE k == IF s THEN "destroyed_for_snapshot" ELSE "destroyed"
    <2>3. k \in Once /\ k \notin Kinds /\ k # "catch_up"
      BY <1>a, <1>b, <2>2
    <2>4. sbox' = sbox \/ sbox' = Append(sbox, [k |-> k, at |-> 0])
      BY Zenon, <2>1
    <2> HIDE DEF k
    <2> QED
      BY Zenon, <1>1, <1>3, <2>2, <2>3, <2>4
  <1>6. CASE WaitMergeSource
    <2>1. /\ ta.applied + 1 = Merge /\ ta.wait = "no"
          /\ sbox' = IF sp.up THEN Append(sbox, [k |-> "catch_up", at |-> Commit]) ELSE sbox
      BY Zenon, <1>6 DEF WaitMergeSource, ToSource
    <2>2. Merge # 0
      BY <1>0, <2>1 DEF TNat
    <2>3. "catch_up" \notin Kinds
      BY <2>1 DEF IInv, TokenInv
    <2> QED
      BY Zenon, <1>1, <1>3, <1>a, <2>1, <2>2, <2>3
  <1>7. CASE OnApplyRes
    <2>1. CASE Head(tbox) = Merge
      <3>1. sbox' = IF sp.up THEN Append(sbox, [k |-> "from_target_log", at |-> 0]) ELSE sbox
        BY Zenon, <1>7, <2>1 DEF OnApplyRes, ToSource
      <3>2. Executed
        BY Zenon, <1>7, <2>1, ResultStage DEF OnApplyRes
      <3>3. Removal = {}
        BY Zenon, <3>2, MergeStage DEF CaughtUpFor
      <3> QED
        BY Zenon, <1>1, <1>3, <1>a, <1>b, <3>1, <3>3
    <2>2. CASE Head(tbox) # Merge
      BY Zenon, <1>7, <2>2 DEF OnApplyRes
    <2> QED
      BY <2>1, <2>2
  <1>8. CASE StepSnapshot
    <2>1. CASE tp.checked.destroy
      <3>1. sbox' = sbox \/ sbox' = IF sp.up THEN Append(sbox, [k |-> "from_target_snapshot_step1", at |-> 0]) ELSE sbox
        BY Zenon, <1>8 DEF StepSnapshot, ToSource
      <3> QED
        BY Zenon, <1>1, <1>3, <1>a, <2>1, <3>1, CheckedStage
    <2>2. CASE ~tp.checked.destroy
      BY Zenon, <1>8, <2>2 DEF StepSnapshot
    <2> QED
      BY <2>1, <2>2
  <1>9. CASE OnPersistSnapshot
    <2>1. CASE tp.inst.destroy
      <3>1. sbox' = IF sp.up THEN Append(sbox, [k |-> "from_target_snapshot_step2", at |-> 0]) ELSE sbox
        BY Zenon, <1>9, <2>1 DEF OnPersistSnapshot, ToSource
      <3>2. Replacing
        BY Zenon, <1>9 DEF OnPersistSnapshot, Replacing
      <3>3. Removal = {}
        BY Zenon, <2>1, <3>2, SnapshotStage
      <3> QED
        BY Zenon, <1>1, <1>3, <1>a, <1>b, <3>1, <3>3
    <2>2. CASE ~tp.inst.destroy
      BY Zenon, <1>9, <2>2 DEF OnPersistSnapshot
    <2> QED
      BY <2>1, <2>2
  <1> QED
    BY SMTT(60), <1>4, <1>5, <1>6, <1>7, <1>8, <1>9

\* Steps other than WriteS, OnRaftLogGcFlushed and Restart leave what the mailbox
\* invariant says of S alone.
LEMMA SteadyNext ==
  ASSUME IInv, [Next]_vars, ~WriteS, ~OnRaftLogGcFlushed, ~Restart
  PROVE  Steady /\ (OnReadyPrepareMerge \/ OnReadyRollbackMerge \/ sp'.merge = sp.merge)
PROOF
  <1> USE DEF source, target, store
  <1>0. TypeOK
    BY Zenon DEF IInv
  <1>1. Merge' = Merge /\ Commit' = Commit
    BY Zenon, Frozen
  <1>2. sp'.up = sp.up /\ (OnReadyPrepareMerge \/ OnReadyRollbackMerge \/ sp'.merge = sp.merge)
    <2>1. CASE AppendS
      BY Zenon, <1>0, <2>1 DEF AppendS, TypeOK, SPeer
    <2>2. CASE OnCatchUpLogs
      <3>1. Head(sbox).at \in SIdx
        BY Zenon, <1>0, <2>2, Mail DEF OnCatchUpLogs, Took
      <3>2. CASE CaughtUp(Head(sbox).at)
        BY Zenon, <1>0, <2>2, <3>2 DEF OnCatchUpLogs, StopFor, TypeOK, SPeer
      <3>3. CASE ~CaughtUp(Head(sbox).at)
        BY Zenon, <1>0, <2>2, <3>1, <3>3, AppendedEntries DEF OnCatchUpLogs, SPeer
      <3> QED
        BY <3>2, <3>3
    <2>3. CASE ~AppendS /\ ~OnCatchUpLogs
      BY Zenon, <1>0, <2>3, WhoWrites DEF Writers, TypeOK, SPeer, DestroyPeer, StopFor, ReadyS,
         OnReadyPrepareMerge, OnReadyRollbackMerge, OnMergeResultLog, OnMergeResultStep1,
         OnMergeResultStep2, OnApplyDestroyed, OnMergeTarget
    <2> QED
      BY <2>1, <2>2, <2>3
  <1>3. kv'.sapplied = kv.sapplied /\ (kv'.merge = kv.merge \/ sa.stopped)
    <2>1. CASE WriteT
      <3>1. ta.applied = Merge => sa.stopped
        BY Zenon, <2>1, WritesMerge, MergeStage DEF WriteT
      <3> QED
        BY Zenon, <1>0, <2>1, <3>1 DEF WriteT, TypeOK, Kv
    <2>2. CASE PersistSnapshot
      <3>1. tp.inst.destroy => sa.stopped
        BY Zenon, <2>2, SnapshotStage DEF PersistSnapshot, Replacing
      <3> QED
        BY Zenon, <1>0, <2>2, <3>1 DEF PersistSnapshot, TypeOK, Kv
    <2>3. CASE ~WriteT /\ ~PersistSnapshot
      BY Zenon, <1>0, <2>3, WhoWrites DEF Writers, InstallSnapshot, TypeOK, Kv
    <2> QED
      BY <2>1, <2>2, <2>3
  <1>4. sa'.stopped = sa.stopped \/ sa'.stopped = TRUE
    BY Zenon, <1>0, WhoWrites DEF Writers, TypeOK, SApply, ApplyS, OnCatchUpLogs, StopFor, ScheduleS,
       OnReadyPrepareMerge, OnMergeResultStep1, OnMergeTarget, LogsUpToDateForMerge, HandleDestroy
  <1> QED
    BY Zenon, <1>1, <1>2, <1>3, <1>4 DEF Steady

\* Every step keeps the mailbox invariant.
LEMMA MailNext ==
  ASSUME IInv, [Next]_vars
  PROVE  MailInv'
PROOF
  <1> USE DEF source, target, store
  <1>0. TypeOK /\ TypeOK' /\ SNat /\ Logs /\ MailInv /\ ApplyInv
    BY Zenon, Numbers, LogFacts, TypeNext DEF IInv
  <1>1. CASE WriteS
    BY <1>1, MailResult
  <1>2. CASE OnRaftLogGcFlushed
    <2>1. sbox' = << >> /\ ~sp'.up
      BY Zenon, <1>0, <1>2 DEF OnRaftLogGcFlushed, TypeOK, SPeer
    <2> QED
      BY Zenon, <2>1, BoxEmpty DEF MailInv
  <1>3. CASE Restart
    <2>1. /\ sbox' = << >> /\ sp'.merge = kv.merge /\ kv' = kv
          /\ sp'.up = (kv.s # "Tombstone") /\ sa'.stopped = (kv.s = "Tombstone")
      BY Zenon, <1>3 DEF Restart, Peer
    <2>2. CASE kv.s # "Tombstone"
      <3>1. kv.sapplied \in 0 .. N /\ N \in Nat /\ kv.sapplied <= sa.applied /\ sa.applied \in 0 .. N
        BY Zenon, <1>0 DEF SNat, ApplyInv
      <3>2. /\ kv.sapplied \in kv.sapplied .. sa.applied /\ kv.sapplied \in Nat
            /\ sa.applied > kv.sapplied => kv.sapplied # sa.applied
            /\ kv.sapplied = 0 \/ kv.sapplied \in 1 .. N
        BY <3>1
      <3>3. Pending[kv.sapplied] = kv.merge
        BY Zenon, <1>0, <2>2, <3>2 DEF ApplyInv
      <3>4. kv.merge <= kv.sapplied
        <4>1. Pending[0] = 0 /\ \A i \in 1 .. N : Pending[i] <= i
          BY Zenon, <1>0 DEF Logs
        <4> QED
          BY <3>2, <3>3, <4>1
      <3>5. kv.merge \in 0 .. kv.sapplied
        BY <1>0, <3>4 DEF SNat
      <3>6. Leads(<< >>, kv.merge, kv.merge, kv.sapplied)
        BY Zenon, <3>2, <3>5, LeadsEmpty
      <3>7. Closed(sbox, sp.merge)'
        <4>1. \A i : i \notin 1 .. Len(<< >>)
          OBVIOUS
        <4> QED
          BY Zenon, <2>1, <4>1 DEF Closed
      <3>8. kv'.merge \in 0 .. kv'.sapplied /\ Leads(sbox', sp'.merge, kv'.merge, kv'.sapplied)
        BY Zenon, <2>1, <3>5, <3>6
      <3> QED
        BY Zenon, <2>1, <3>7, <3>8, BoxEmpty DEF MailInv, Leads
    <2>3. CASE kv.s = "Tombstone"
      BY Zenon, <2>1, <2>3, BoxEmpty DEF MailInv
    <2> QED
      BY <2>2, <2>3
  <1>4. CASE ~WriteS /\ ~OnRaftLogGcFlushed /\ ~Restart
    <2>0. Steady /\ (OnReadyPrepareMerge \/ OnReadyRollbackMerge \/ sp'.merge = sp.merge)
      BY <1>4, SteadyNext
    <2>1. ASSUME \/ OnCatchUpLogs \/ OnReadyPrepareMerge \/ OnReadyRollbackMerge
                 \/ OnMergeResultLog \/ OnMergeResultStep1 \/ OnMergeResultStep2
                 \/ OnApplyDestroyed \/ OnApplyDestroyedForSnapshot
          PROVE  MailInv'
      <3>1. sp.up /\ sbox # << >> /\ sbox' = Tail(sbox)
        BY Zenon, <2>1 DEF OnCatchUpLogs, OnReadyPrepareMerge, OnReadyRollbackMerge,
           OnMergeResultLog, OnMergeResultStep1, OnMergeResultStep2, OnApplyDestroyed,
           OnApplyDestroyedForSnapshot, Took
      <3>2. sp'.merge \in SIdx
        BY Zenon, <1>0, Frozen DEF TypeOK, SPeer
      <3>3. CASE OnReadyPrepareMerge
        <4>1. Head(sbox).k = "prepare" /\ sp'.merge = Head(sbox).at
          BY Zenon, <1>0, <3>3 DEF OnReadyPrepareMerge, Took, TypeOK, SPeer
        <4>2. Head(sbox).k # "rollback"
          BY <4>1
        <4> QED
          BY Zenon, <1>0, <2>0, <3>1, <3>2, <4>1, <4>2, MailTail
      <3>4. CASE OnReadyRollbackMerge
        <4>1. Head(sbox).k = "rollback" /\ sp'.merge = 0
          BY Zenon, <1>0, <3>4 DEF OnReadyRollbackMerge, Took, TypeOK, SPeer
        <4>2. Head(sbox).k # "prepare"
          BY <4>1
        <4> QED
          BY Zenon, <1>0, <2>0, <3>1, <3>2, <4>1, <4>2, MailTail
      <3>5. CASE ~OnReadyPrepareMerge /\ ~OnReadyRollbackMerge
        <4>1. Head(sbox).k \in {"catch_up", "from_target_log", "from_target_snapshot_step1",
                "from_target_snapshot_step2", "destroyed", "destroyed_for_snapshot"}
          BY Zenon, <2>1, <3>5 DEF OnCatchUpLogs, OnMergeResultLog, OnMergeResultStep1,
             OnMergeResultStep2, OnApplyDestroyed, OnApplyDestroyedForSnapshot, Took
        <4>2. Head(sbox).k # "prepare" /\ Head(sbox).k # "rollback"
          BY <4>1
        <4> QED
          BY Zenon, <1>0, <2>0, <3>1, <3>2, <3>5, <4>2, MailTail
      <3> QED
        BY <3>3, <3>4, <3>5
    <2>2. ASSUME \/ RaftLogGcFlushed \/ HandleDestroy \/ WaitMergeSource \/ OnApplyRes
                 \/ StepSnapshot \/ OnPersistSnapshot
          PROVE  MailInv'
      <3>1. sp'.merge = sp.merge
        BY Zenon, <2>2 DEF RaftLogGcFlushed, HandleDestroy, WaitMergeSource, OnApplyRes,
           StepSnapshot, OnPersistSnapshot
      <3>2. sbox' = sbox \/ \E m : Sends(m)
        BY <2>2, SendsOnce
      <3> QED
        BY Zenon, <1>0, <2>0, <3>1, <3>2, MailSame, MailAppend DEF Sends
    <2>3. ASSUME sbox' = sbox, ~OnReadyPrepareMerge, ~OnReadyRollbackMerge
          PROVE  MailInv'
      BY Zenon, <1>0, <2>0, <2>3, MailSame
    <2> QED
      BY Zenon, <1>4, <2>1, <2>2, <2>3, WhoWrites DEF Writers
  <1> QED
    BY <1>1, <1>2, <1>3, <1>4

-----------------------------------------------------------------------------
(* T: its raft log and its snapshots. *)

\* The engine-store's index of T after an entry.
LEMMA EsWriteIndex ==
  ASSUME TypeOK, NEW i \in TIdx
  PROVE  /\ EsWriteT(i, es).tapplied = IF i <= es.tapplied THEN es.tapplied ELSE i
         /\ i # Merge \/ i <= es.tapplied =>
              /\ EsWriteT(i, es).s = es.s /\ EsWriteT(i, es).sapplied = es.sapplied
              /\ EsWriteT(i, es).absorbed = es.absorbed
PROOF
  BY Zenon DEF EsWriteT, TypeOK, EngineStore

\* T's raft log on disk stays ahead of what was applied.
LEMMA DiskNext ==
  ASSUME IInv, [Next]_vars
  PROVE  DiskInv'
PROOF
  <1> USE DEF source, target, store
  <1>0. TypeOK /\ TNat /\ DiskInv /\ PositionInv
    BY Zenon, Numbers DEF IInv
  <1>n. /\ tp.last \in Nat /\ tp.commit \in Nat /\ tp.sent \in Nat /\ tp.snap \in Nat
        /\ tp.inst.idx \in Nat /\ tp.checked.idx \in Nat /\ kv.tapplied \in Nat
        /\ tdisk.last \in Nat /\ tdisk.commit \in Nat /\ es.tapplied \in Nat
        /\ tp.commit <= tp.last /\ tp.sent <= tp.commit
    <2>1. \A x \in 0 .. L : x \in Nat
      OBVIOUS
    <2> QED
      BY Zenon, <1>0, <2>1 DEF TNat
  <1>d. DiskInv
    BY <1>0
  <1>1. CASE AppendT
    <2>1. PICK l \in tp.last .. L, c \in tp.commit .. L :
            /\ c <= l
            /\ tp' = [tp EXCEPT !.last = l, !.commit = c]
            /\ tdisk' = IF tp.snap = 0 /\ tp.inst = NoSnap THEN [last |-> l, commit |-> c] ELSE tdisk
      BY Zenon, <1>1 DEF AppendT, L
    <2>2. /\ tp'.last = l /\ tp'.commit = c /\ tp'.sent = tp.sent /\ tp'.snap = tp.snap
          /\ tp'.inst = tp.inst /\ tp'.checked = tp.checked /\ c <= l
      BY Zenon, <1>0, <2>1 DEF TypeOK, TPeer
    <2>3. /\ kv'.tapplied = kv.tapplied /\ kv'.t = kv.t /\ es'.tapplied = es.tapplied
          /\ tp.checked.idx = 0
      BY Zenon, <1>1 DEF AppendT, TargetFree
    <2>4. CASE tp.snap = 0 /\ tp.inst = NoSnap
      <3>1. tdisk'.last = l /\ tdisk'.commit = c /\ tp.inst.phase = "none"
        BY SMTT(60), <2>1, <2>4 DEF NoSnap
      <3> QED
        BY <1>n, <1>d, <2>2, <2>3, <2>4, <3>1 DEF DiskInv, Installing
    <2>5. CASE ~ (tp.snap = 0 /\ tp.inst = NoSnap)
      <3>1. tdisk'.last = tdisk.last /\ tdisk'.commit = tdisk.commit
        BY Zenon, <2>1, <2>5
      <3> QED
        BY <1>n, <1>d, <2>2, <2>3, <3>1 DEF DiskInv, Installing
    <2> QED
      BY <2>4, <2>5
  <1>2. CASE ReadyT
    <2>1. /\ tp'.last = tp.last /\ tp'.commit = tp.commit /\ tp'.sent = tp.commit /\ tp'.snap = tp.snap
          /\ tp'.inst = tp.inst /\ tp'.checked = tp.checked
          /\ tdisk'.last = tp.last /\ tdisk'.commit = tp.commit
          /\ kv'.tapplied = kv.tapplied /\ kv'.t = kv.t /\ es'.tapplied = es.tapplied
          /\ tp.checked.idx = 0 /\ tp.snap = 0 /\ tp.inst = NoSnap
      BY Zenon, <1>0, <1>2 DEF ReadyT, TypeOK, TPeer, TargetFree
    <2>2. tp.inst.phase = "none"
      BY <2>1 DEF NoSnap
    <2> QED
      BY <1>n, <1>d, <2>1, <2>2 DEF DiskInv, Installing
  <1>3. CASE ApplyT \/ ExecCommitMerge
    <2>1. /\ tp' = tp /\ tdisk' = tdisk /\ kv' = kv
          /\ \/ ta.applied < tp.sent /\ es' = EsWriteT(ta.applied + 1, es)
             \/ ta.wait = "ready" /\ es' = EsWriteT(Merge, es)
      BY Zenon, <1>3 DEF ApplyT, ExecCommitMerge
    <2>2. ta.wait = "ready" => Merge <= tp.sent
      BY <1>0 DEF PositionInv
    <2>3. PICK i \in TIdx : i <= tp.sent /\ es' = EsWriteT(i, es)
      <3>1. CASE ta.applied < tp.sent /\ es' = EsWriteT(ta.applied + 1, es)
        <4>1. ta.applied + 1 \in TIdx /\ ta.applied + 1 <= tp.sent
          <5>1. ta.applied < tp.sent /\ ta.applied \in 0 .. L /\ tp.sent \in 0 .. L /\ L \in Nat
            BY Zenon, <1>0, <3>1 DEF TNat
          <5>2. ta.applied + 1 \in 0 .. L /\ ta.applied + 1 <= tp.sent
            BY <5>1
          <5> QED
            BY Zenon, <1>0, <5>2 DEF TNat
        <4> QED
          BY Zenon, <3>1, <4>1
      <3>2. CASE ta.wait = "ready" /\ es' = EsWriteT(Merge, es)
        BY Zenon, <1>0, <2>2, <3>2 DEF TNat
      <3> QED
        BY Zenon, <2>1, <3>1, <3>2
    <2>4. es'.tapplied = IF i <= es.tapplied THEN es.tapplied ELSE i
      BY Zenon, <1>0, <2>3, EsWriteIndex
    <2>5. es'.tapplied <= tdisk.commit
      <3>1. tp.sent <= tdisk.commit /\ es.tapplied <= tdisk.commit
        BY Zenon, <1>d DEF DiskInv
      <3>2. i \in Nat
        BY <1>0 DEF TNat
      <3> QED
        BY <1>n, <2>3, <2>4, <3>1, <3>2
    <2> QED
      BY Zenon, <1>0, <2>1, <2>5 DEF DiskInv, Installing
  <1>4. CASE WriteT
    <2>1. /\ tp' = tp /\ tdisk' = tdisk /\ es' = es /\ kv'.t = kv.t /\ kv'.tapplied = ta.applied
          /\ ta.write
      BY Zenon, <1>0, <1>4 DEF WriteT, TypeOK, Kv
    <2>2. ~Installing /\ ta.applied <= tp.sent
      BY Zenon, <1>0, <2>1 DEF PositionInv
    <2>3. kv'.tapplied <= tdisk.commit
      <3>1. tp.sent <= tdisk.commit /\ ta.applied \in Nat
        BY <1>0 DEF DiskInv, TNat
      <3> QED
        BY SMTT(60), <1>n, <2>1, <2>2, <3>1
    <2>4. tp.inst.phase \notin {"persisted", "applying", "installed"}
      BY <2>2 DEF Installing
    <2> QED
      BY Zenon, <1>0, <2>1, <2>3, <2>4 DEF DiskInv, Installing
  <1>5. CASE CheckSnapshot
    <2>1. PICK j \in tp.commit + 1 .. L :
            tp' = [tp EXCEPT !.checked = [idx |-> j, destroy |-> meta.s /\ TRegion[j].covers]]
      BY Zenon, <1>5 DEF CheckSnapshot, L
    <2>2. /\ tp'.last = tp.last /\ tp'.commit = tp.commit /\ tp'.sent = tp.sent /\ tp'.snap = tp.snap
          /\ tp'.inst = tp.inst /\ tp'.checked.idx = j
      BY Zenon, <1>0, <2>1 DEF TypeOK, TPeer
    <2>3. tdisk' = tdisk /\ kv' = kv /\ es' = es
      BY Zenon, <1>5 DEF CheckSnapshot
    <2>4. j > tp.commit
      BY SMTT(60), <1>0 DEF TNat
    <2> QED
      BY Zenon, <1>0, <2>2, <2>3, <2>4 DEF DiskInv, Installing
  <1>6. CASE StepSnapshot
    <2> DEFINE j == tp.checked.idx
    <2>1. tp' = [Restored(j) EXCEPT !.checked = [idx |-> 0, destroy |-> FALSE]] /\ j # 0
      BY Zenon, <1>6 DEF StepSnapshot
    <2>2. tp'.commit = j /\ tp'.sent = tp.sent /\ tp'.inst = tp.inst /\ tp'.checked.idx = 0
      BY Zenon, <1>0, <2>1 DEF Restored, TypeOK, TPeer
    <2>3. /\ tdisk'.last = tdisk.last /\ tdisk'.commit = tdisk.commit
          /\ kv'.tapplied = kv.tapplied /\ kv'.t = kv.t /\ es'.tapplied = es.tapplied
      BY Zenon, <1>6 DEF StepSnapshot
    <2>4. j > tp.commit
      BY Zenon, <1>0, <2>1 DEF DiskInv
    <2>5. tp.inst.idx < j
      <3>1. tp.inst = NoSnap \/ tp.inst.idx <= tp.commit
        BY Zenon, <1>0 DEF DiskInv
      <3> QED
        BY <1>n, <2>4, <3>1 DEF NoSnap
    <2>6. CASE j <= tp.last
      <3>1. tp'.last = tp.last /\ tp'.snap = tp.snap
        BY ZenonT(60), <1>0, <2>1, <2>6 DEF Restored, TypeOK, TPeer
      <3> QED
        <4>1. /\ tp.snap # 0 => tp.snap <= j
              /\ tp.inst.idx <= j /\ tdisk.commit <= j
          <5>1. /\ (tp.snap # 0 => tp.snap <= tp.commit) /\ tdisk.commit <= tp.commit
                /\ tp.snap \in 0 .. L /\ tp.commit \in 0 .. L /\ j \in 0 .. L /\ L \in Nat
                /\ tdisk.commit \in 0 .. L /\ tp.inst.idx \in 0 .. L
            BY Zenon, <1>0 DEF DiskInv, TNat
          <5> HIDE DEF j
          <5> QED
            BY <2>4, <2>5, <5>1
        <4> QED
          BY Zenon, <1>0, <2>2, <2>3, <3>1, <4>1 DEF DiskInv, Installing
    <2>7. CASE ~(j <= tp.last)
      <3>1. tp'.last = j /\ tp'.snap = j
        BY Zenon, <1>0, <2>1, <2>7 DEF Restored, TypeOK, TPeer
      <3> QED
        BY SMTT(60), <1>n, <1>d, <2>2, <2>3, <2>4, <2>5, <2>7, <3>1 DEF DiskInv, Installing
    <2> QED
      BY <2>6, <2>7
  <1>7. CASE TakeSnapshot
    <2>1. /\ tp'.last = tp.last /\ tp'.commit = tp.commit /\ tp'.sent = tp.sent /\ tp'.snap = 0
          /\ tp'.inst.idx = tp.snap /\ tp'.inst.phase = "persisting" /\ tp'.checked = tp.checked
          /\ tp.snap # 0 /\ tp.inst = NoSnap
      BY Zenon, <1>0, <1>7 DEF TakeSnapshot, TypeOK, TPeer
    <2>2. /\ tdisk'.last = tdisk.last /\ tdisk'.commit = tdisk.commit
          /\ kv'.tapplied = kv.tapplied /\ kv'.t = kv.t /\ es'.tapplied = es.tapplied
      BY Zenon, <1>7 DEF TakeSnapshot
    <2>3. tp.inst.phase = "none"
      BY SMTT(60), <2>1 DEF NoSnap
    <2> QED
      BY SMTT(60), <1>n, <1>d, <2>1, <2>2, <2>3 DEF DiskInv, Installing
  <1>8. CASE PersistSnapshot
    <2>1. /\ tp'.last = tp.last /\ tp'.commit = tp.commit /\ tp'.sent = tp.sent /\ tp'.snap = tp.snap
          /\ tp'.inst.idx = tp.inst.idx /\ tp'.inst.phase = "persisted" /\ tp'.checked = tp.checked
          /\ tp.inst.phase = "persisting"
      BY Zenon, <1>0, <1>8 DEF PersistSnapshot, TypeOK, TPeer
    <2>2. /\ tdisk'.last = tp.inst.idx /\ tdisk'.commit = tp.inst.idx
          /\ kv'.tapplied = tp.inst.idx /\ kv'.t = "Applying" /\ es'.tapplied = es.tapplied
      BY Zenon, <1>0, <1>8 DEF PersistSnapshot, TypeOK, Kv
    <2> QED
      BY <1>n, <1>d, <2>1, <2>2 DEF DiskInv, Installing
  <1>9. CASE OnPersistSnapshot
    <2>1. /\ tp'.last = tp.last /\ tp'.commit = tp.commit /\ tp'.sent = tp.sent /\ tp'.snap = tp.snap
          /\ tp'.inst.idx = tp.inst.idx /\ tp'.checked = tp.checked
          /\ tp.inst.phase = "persisted" /\ tp'.inst.phase = "applying"
      BY Zenon, <1>0, <1>9 DEF OnPersistSnapshot, TypeOK, TPeer
    <2>2. /\ tdisk'.last = tdisk.last /\ tdisk'.commit = tdisk.commit
          /\ kv'.tapplied = kv.tapplied /\ kv'.t = kv.t /\ es'.tapplied = es.tapplied
      BY Zenon, <1>9 DEF OnPersistSnapshot
    <2> QED
      BY <1>n, <1>d, <2>1, <2>2 DEF DiskInv, Installing
  <1>11. CASE InstallSnapshot
    <2>1. /\ tp'.last = tp.last /\ tp'.commit = tp.commit /\ tp'.sent = tp.sent /\ tp'.snap = tp.snap
          /\ tp'.inst.idx = tp.inst.idx /\ tp'.checked = tp.checked
          /\ tp.inst.phase = "applying" /\ tp'.inst.phase = "installed"
      BY Zenon, <1>0, <1>11 DEF InstallSnapshot, TypeOK, TPeer
    <2>2. /\ tdisk'.last = tdisk.last /\ tdisk'.commit = tdisk.commit
          /\ kv'.tapplied = kv.tapplied /\ kv'.t = "Normal" /\ es'.tapplied = tp.inst.idx
      BY ZenonT(60), <1>0, <1>11 DEF InstallSnapshot, WithSnapshot, TypeOK, Kv, EngineStore
    <2> QED
      BY <1>n, <1>d, <2>1, <2>2 DEF DiskInv, Installing
  <1>10. CASE FinishSnapshot
    <2>1. /\ tp'.last = tp.last /\ tp'.commit = tp.commit /\ tp'.sent = tp.inst.idx
          /\ tp'.snap = tp.snap /\ tp'.inst = NoSnap /\ tp'.checked = tp.checked
          /\ tp.inst.phase = "installed"
      BY Zenon, <1>0, <1>10 DEF FinishSnapshot, TypeOK, TPeer
    <2>2. /\ tdisk'.last = tdisk.last /\ tdisk'.commit = tdisk.commit
          /\ kv'.tapplied = kv.tapplied /\ kv'.t = kv.t /\ es'.tapplied = es.tapplied
      BY Zenon, <1>10 DEF FinishSnapshot
    <2>3. tp'.inst.phase = "none" /\ tp'.inst.idx = 0
      BY <2>1 DEF NoSnap
    <2> QED
      BY SMTT(60), <1>n, <1>d, <2>1, <2>2, <2>3 DEF DiskInv, Installing
  <1>12. CASE Restart
    <2>1. /\ tp'.last = tdisk.last /\ tp'.commit = tdisk.commit /\ tp'.sent = kv.tapplied
          /\ tp'.snap = 0 /\ tp'.checked.idx = 0
          /\ tp'.inst = IF kv.t = "Applying"
                        THEN [idx |-> kv.tapplied, phase |-> "applying", destroy |-> FALSE]
                        ELSE NoSnap
      BY Zenon, <1>12 DEF Restart
    <2>2. tdisk'.last = tdisk.last /\ tdisk'.commit = tdisk.commit /\ kv' = kv /\ es' = esdisk'
      BY Zenon, <1>12 DEF Restart
    <2>3. es'.tapplied <= es.tapplied /\ es'.tapplied \in Nat
      <3>1. PICK i \in esdisk.sapplied .. es.sapplied, j \in esdisk.tapplied .. es.tapplied :
              esdisk' = [esdisk EXCEPT !.sapplied = i, !.tapplied = j]
        BY Zenon, <1>12 DEF Restart
      <3>2. esdisk'.tapplied = j
        BY Zenon, <1>0, <3>1 DEF TypeOK, EngineStore
      <3>3. j <= es.tapplied /\ j \in Nat
        <4>1. esdisk.tapplied \in Nat
          BY <1>0 DEF TNat
        <4> QED
          BY <1>n, <4>1
      <3> QED
        BY Zenon, <2>2, <3>2, <3>3
    <2>t. es'.tapplied <= tdisk.commit /\ kv.tapplied <= tdisk.commit /\ tdisk.commit <= tdisk.last
      <3>1. /\ es.tapplied <= tdisk.commit /\ kv.tapplied <= tdisk.commit
            /\ tdisk.commit <= tdisk.last
        BY Zenon, <1>d DEF DiskInv
      <3> QED
        BY <1>n, <2>3, <3>1
    <2>4. CASE kv.t = "Applying"
      <3>1. tp'.inst.idx = kv.tapplied /\ tp'.inst.phase = "applying"
        BY <2>1, <2>4
      <3>2. tp.inst.phase \in {"persisted", "applying"}
        BY Zenon, <1>d, <2>4 DEF DiskInv
      <3>3. kv.tapplied = tdisk.commit
        BY SMTT(60), <1>d, <3>2 DEF DiskInv
      <3>4. /\ Installing' /\ tp'.inst.phase # "persisting"
            /\ tp'.inst.phase \in {"persisted", "applying"}
        BY SMTT(60), <3>1 DEF Installing
      <3>5. tp'.sent <= tp'.inst.idx /\ tp'.inst.idx <= tp'.commit /\ tdisk.commit <= tdisk.commit
            /\ tdisk.last <= tdisk.last
        BY SMTT(60), <1>n, <2>1, <3>1, <3>3
      <3> QED
        BY ZenonT(60), <2>1, <2>2, <2>t, <2>4, <3>1, <3>3, <3>4, <3>5 DEF DiskInv
    <2>5. CASE kv.t # "Applying"
      <3>1. tp'.inst = NoSnap /\ tp'.inst.idx = 0 /\ tp'.inst.phase = "none"
        BY <2>1, <2>5 DEF NoSnap
      <3>2. /\ ~Installing' /\ tp'.inst.phase # "persisting"
            /\ tp'.inst.phase \notin {"persisted", "applying", "installed"}
            /\ tp'.inst.phase \notin {"persisted", "applying"}
        BY <3>1 DEF Installing
      <3>3. tdisk.commit <= tdisk.commit /\ tdisk.last <= tdisk.last
        BY <1>n
      <3> QED
        BY ZenonT(60), <2>1, <2>2, <2>t, <2>5, <3>1, <3>2, <3>3 DEF DiskInv
    <2> QED
      BY <2>4, <2>5
  <1>13. ASSUME ~AppendT, ~ReadyT, ~ApplyT, ~ExecCommitMerge, ~WriteT, ~CheckSnapshot, ~StepSnapshot,
                ~TakeSnapshot, ~PersistSnapshot, ~OnPersistSnapshot, ~InstallSnapshot,
                ~FinishSnapshot, ~Restart
         PROVE  DiskInv'
    <2>1. /\ tp'.last = tp.last /\ tp'.commit = tp.commit /\ tp'.sent = tp.sent /\ tp'.snap = tp.snap
          /\ tp'.inst = tp.inst /\ tp'.checked = tp.checked /\ tdisk' = tdisk
      BY Zenon, <1>0, <1>13, WhoWrites DEF Writers, OnApplyRes, TypeOK, TPeer
    <2>2. kv'.tapplied = kv.tapplied /\ kv'.t = kv.t
      BY Zenon, <1>0, <1>13, WhoWrites DEF Writers, WriteS, OnRaftLogGcFlushed, TypeOK, Kv
    <2>3. es'.tapplied = es.tapplied
      BY Zenon, <1>0, <1>13, WhoWrites
         DEF Writers, ApplyS, OnRegionDestroyed, EsPersistS, EsWriteS, TypeOK, EngineStore
    <2> QED
      BY Zenon, <1>0, <2>1, <2>2, <2>3 DEF DiskInv, Installing
  <1> QED
    BY ZenonT(60), <1>1, <1>2, <1>3, <1>4, <1>5, <1>6, <1>7, <1>8, <1>9, <1>10, <1>11, <1>12, <1>13

-----------------------------------------------------------------------------
(* T's delegate. *)

\* A delegate with something to apply is not the one of a T that installs a snapshot.
LEMMA Applying ==
  ASSUME IInv, ta.applied < tp.sent
  PROVE  ~Installing
PROOF
  <1>0. TNat /\ DiskInv /\ PositionInv
    BY Zenon, Numbers DEF IInv
  <1>1. Installing => tp.sent <= tp.inst.idx /\ (ta.applied = tp.sent \/ ta.applied = tp.inst.idx)
    BY Zenon, <1>0 DEF DiskInv, PositionInv
  <1> QED
    BY SMTT(60), <1>0, <1>1 DEF TNat

\* A T that has nothing to apply has seen every result.
LEMMA Idle ==
  ASSUME IInv, ~Installing, NothingApplying
  PROVE  tbox = << >> /\ ~ta.write /\ ta.wait = "no" /\ ta.applied = tp.sent
PROOF
  <1>0. TypeOK /\ TNat /\ PositionInv /\ tp.sent = tp.applied
    BY Zenon, Numbers DEF IInv, NothingApplying
  <1>1. /\ tp.applied <= ta.applied /\ ta.applied <= tp.sent
        /\ Len(tbox) + (IF ta.write THEN 1 ELSE 0) = ta.applied - tp.applied
        /\ ta.wait # "no" => ta.applied + 1 = Merge /\ Merge <= tp.sent
    BY Zenon, <1>0 DEF PositionInv
  <1>2. tbox \in Seq(TIdx)
    BY Zenon, <1>0 DEF TypeOK
  <1>3. Len(tbox) \in Nat /\ (Len(tbox) = 0 => tbox = << >>)
    BY <1>2
  <1>4. tp.applied \in Nat /\ ta.applied \in Nat /\ Merge \in Nat
    BY <1>0 DEF TNat
  <1>5. ta.applied = tp.sent
    BY <1>0, <1>1, <1>4
  <1>6. Len(tbox) + (IF ta.write THEN 1 ELSE 0) = 0
    BY SMTT(60), <1>0, <1>1, <1>4, <1>5
  <1>7. ~ta.write /\ Len(tbox) = 0
    BY <1>3, <1>6
  <1>8. ta.wait = "no"
    BY <1>0, <1>1, <1>4, <1>5
  <1> QED
    BY Zenon, <1>3, <1>5, <1>7, <1>8

\* T's peer, delegate and pending results stay in step.
LEMMA PositionNext ==
  ASSUME IInv, [Next]_vars
  PROVE  PositionInv'
PROOF
  <1> USE DEF source, target, store
  <1>0. TypeOK /\ TNat /\ DiskInv /\ PositionInv
    BY Zenon, Numbers DEF IInv
  <1>m. Merge' = Merge
    BY Zenon, Frozen
  <1>t. tbox \in Seq(TIdx) /\ Len(tbox) \in Nat
    <2>1. tbox \in Seq(TIdx)
      BY Zenon, <1>0 DEF TypeOK
    <2> QED
      BY <2>1
  <1>n. /\ tp.applied \in Nat /\ tp.sent \in Nat /\ tp.commit \in Nat /\ ta.applied \in Nat
        /\ Merge \in Nat /\ kv.tapplied \in Nat /\ tp.inst.idx \in Nat /\ tp.snap \in Nat
        /\ tp.sent <= tp.commit
    <2>1. \A x \in 0 .. L : x \in Nat
      OBVIOUS
    <2> QED
      BY Zenon, <1>0, <2>1 DEF TNat
  <1>1. CASE ReadyT
    <2>1. /\ tp'.applied = tp.applied /\ tp'.sent = tp.commit /\ tp'.inst = tp.inst /\ tp.inst = NoSnap
          /\ ta' = ta /\ tbox' = tbox /\ kv' = kv
      BY Zenon, <1>0, <1>1 DEF ReadyT, TypeOK, TPeer
    <2>2. ~Installing /\ ~Installing'
      BY <2>1 DEF Installing, NoSnap
    <2>3. /\ ta.applied <= tp.sent /\ (ta.wait # "no" => Merge <= tp.sent)
      BY Zenon, <1>0, <2>2 DEF PositionInv
    <2>4. /\ ta.applied <= tp.commit /\ (ta.wait # "no" => Merge <= tp.commit)
      BY <1>n, <2>3
    <2> QED
      BY Zenon, <1>0, <1>m, <2>1, <2>2, <2>4 DEF PositionInv
  <1>2. CASE ApplyT
    <2> DEFINE i == ta.applied + 1
    <2>1. ~ta.write /\ ta.wait = "no" /\ ta.applied < tp.sent /\ tp' = tp /\ kv' = kv
      BY Zenon, <1>2 DEF ApplyT
    <2>2. ~Installing /\ ~Installing'
      BY Zenon, <2>1, Applying DEF Installing
    <2>3. /\ i # Merge /\ ta'.applied = i /\ ta'.write = Runs(i) /\ ta'.wait = "no"
          /\ tbox' = IF Runs(i) THEN tbox ELSE Append(tbox, i)
      BY Zenon, <1>0, <1>2 DEF ApplyT, TypeOK, TApply
    <2>4. /\ tp.applied <= ta.applied /\ Len(tbox) = ta.applied - tp.applied
          /\ \A j \in 1 .. Len(tbox) : tbox[j] = tp.applied + j
      <3>1. /\ tp.applied <= ta.applied /\ \A j \in 1 .. Len(tbox) : tbox[j] = tp.applied + j
            /\ Len(tbox) + 0 = ta.applied - tp.applied
        BY Zenon, <1>0, <2>1, <2>2 DEF PositionInv
      <3> QED
        BY <1>n, <1>t, <3>1
    <2>5. tp.applied <= i /\ i <= tp.sent
      BY SMTT(60), <1>n, <2>1, <2>4
    <2>6. /\ Len(tbox') + (IF ta'.write THEN 1 ELSE 0) = i - tp.applied
          /\ \A j \in 1 .. Len(tbox') : tbox'[j] = tp.applied + j
      <3>1. CASE Runs(i)
        BY SMTT(60), <1>n, <1>t, <2>3, <2>4, <3>1
      <3>2. CASE ~Runs(i)
        <4>1. tbox' = Append(tbox, i) /\ ~ta'.write
          BY Zenon, <2>3, <3>2
        <4>2. Len(tbox') = Len(tbox) + 1
          BY <1>t, <4>1
        <4>3. \A j \in 1 .. Len(tbox') : tbox'[j] = IF j = Len(tbox) + 1 THEN i ELSE tbox[j]
          BY <1>t, <4>1
        <4>4. \A j \in 1 .. Len(tbox') : j = Len(tbox) + 1 \/ j \in 1 .. Len(tbox)
          BY <1>t, <4>2
        <4>5. i = tp.applied + (Len(tbox) + 1)
          <5>1. tp.applied \in Nat /\ ta.applied \in Nat /\ Len(tbox) \in Nat
            BY Zenon, <1>n, <1>t
          <5>2. Len(tbox) = ta.applied - tp.applied
            BY Zenon, <2>4
          <5> QED
            BY <5>1, <5>2
        <4>6. \A j \in 1 .. Len(tbox') : tbox'[j] = tp.applied + j
          BY Zenon, <2>4, <4>3, <4>4, <4>5
        <4>7. Len(tbox') + 0 = i - tp.applied
          BY SMTT(60), <1>n, <1>t, <4>2, <4>5
        <4> QED
          BY Zenon, <4>1, <4>6, <4>7
      <3> QED
        BY SMTT(60), <3>1, <3>2
    <2>7. /\ kv.tapplied <= i /\ (i >= Merge => kv.tapplied >= Merge)
      <3>1. kv.tapplied <= ta.applied /\ (ta.applied >= Merge => kv.tapplied >= Merge)
        BY <1>0, <2>1, <2>2 DEF PositionInv, Installing
      <3> QED
        BY SMTT(60), <1>n, <2>3, <3>1
    <2> HIDE DEF i
    <2> QED
      BY Zenon, <1>m, <2>1, <2>2, <2>3, <2>5, <2>6, <2>7 DEF PositionInv
  <1>3. CASE WaitMergeSource
    <2>1. /\ ~ta.write /\ ta.wait = "no" /\ ta.applied < tp.sent /\ ta.applied + 1 = Merge
          /\ tp' = tp /\ kv' = kv /\ tbox' = tbox
          /\ ta'.applied = ta.applied /\ ta'.write = ta.write
      BY Zenon, <1>0, <1>3 DEF WaitMergeSource, TypeOK, TApply
    <2>2. ~Installing /\ ~Installing'
      BY Zenon, <2>1, Applying DEF Installing
    <2>3. Merge <= tp.sent
      BY <1>n, <2>1
    <2> QED
      BY Zenon, <1>0, <1>m, <2>1, <2>2, <2>3 DEF PositionInv
  <1>4. CASE LogsUpToDateForMerge
    <2>1. /\ tp' = tp /\ kv' = kv /\ tbox' = tbox
          /\ ta'.applied = ta.applied /\ ta'.write = ta.write
      BY Zenon, <1>0, <1>4 DEF LogsUpToDateForMerge, TypeOK, TApply
    <2>2. ta.wait # "no"
      <3>1. ta.wait = "wait"
        BY Zenon, <1>4, TaskStage DEF LogsUpToDateForMerge, ApplyTaskS
      <3> QED
        BY <3>1
    <2>3. ~Installing /\ ~Installing'
      BY Zenon, <1>0, <2>1, <2>2 DEF PositionInv, Installing
    <2> QED
      BY Zenon, <1>0, <1>m, <2>1, <2>2, <2>3 DEF PositionInv
  <1>5. CASE ExecCommitMerge
    <2>1. /\ tp' = tp /\ kv' = kv /\ tbox' = tbox
          /\ ta'.applied = Merge /\ ta'.write = TRUE /\ ta'.wait = "no" /\ ta.wait = "ready"
      BY Zenon, <1>0, <1>5 DEF ExecCommitMerge, TypeOK, TApply
    <2>2. ta.wait # "no"
      BY <2>1
    <2>3. /\ ta.applied + 1 = Merge /\ Merge <= tp.sent /\ ~ta.write /\ ~Installing /\ ~Installing'
      BY Zenon, <1>0, <2>1, <2>2 DEF PositionInv, Installing
    <2>4. /\ tp.applied <= ta.applied /\ Len(tbox) + 0 = ta.applied - tp.applied
          /\ \A j \in 1 .. Len(tbox) : tbox[j] = tp.applied + j
          /\ tp.inst.phase # "persisted" => kv.tapplied <= ta.applied
      BY Zenon, <1>0, <2>3 DEF PositionInv
    <2>5. tp.inst.phase # "persisted"
      BY <2>3 DEF Installing
    <2>6. kv.tapplied <= ta.applied
      BY Zenon, <2>4, <2>5
    <2>7. tp.applied <= Merge /\ Len(tbox) + 1 = Merge - tp.applied /\ kv.tapplied <= Merge
      <3>1. /\ tp.applied <= ta.applied /\ Len(tbox) + 0 = ta.applied - tp.applied
            /\ ta.applied + 1 = Merge
        BY Zenon, <2>3, <2>4
      <3>2. Len(tbox) \in Nat /\ tp.applied \in Nat /\ ta.applied \in Nat /\ kv.tapplied \in Nat
        BY Zenon, <1>n, <1>t
      <3>3. tp.applied <= ta.applied + 1 /\ kv.tapplied <= ta.applied + 1
        BY SMTT(60), <2>6, <3>1, <3>2
      <3>4. \A m : m = ta.applied + 1 => Len(tbox) + 1 = m - tp.applied /\ tp.applied <= m
        BY <3>1, <3>2, <3>3
      <3>5. \A m : m = ta.applied + 1 => kv.tapplied <= m
        BY <3>3
      <3>6. Merge = ta.applied + 1
        BY Zenon, <3>1
      <3> QED
        BY Zenon, <3>4, <3>5, <3>6
    <2> QED
      BY Zenon, <1>m, <2>1, <2>3, <2>4, <2>7 DEF PositionInv
  <1>6. CASE WriteT
    <2> DEFINE i == ta.applied
    <2>1. /\ tp' = tp /\ kv'.tapplied = i /\ tbox' = Append(tbox, i)
          /\ ta'.applied = i /\ ta'.write = FALSE /\ ta'.wait = ta.wait /\ ta.write
      BY Zenon, <1>0, <1>6 DEF WriteT, TypeOK, TApply, Kv
    <2>2. /\ ~Installing /\ ~Installing' /\ tp.applied <= i /\ i <= tp.sent /\ ta.wait = "no"
          /\ Len(tbox) + 1 = i - tp.applied
          /\ \A j \in 1 .. Len(tbox) : tbox[j] = tp.applied + j
      BY Zenon, <1>0, <2>1 DEF PositionInv, Installing
    <2>3. i \in TIdx
      BY Zenon, <1>0 DEF TNat
    <2> HIDE DEF i
    <2>4. Len(tbox') = Len(tbox) + 1
      BY <1>t, <2>1, <2>3
    <2>5. \A j \in 1 .. Len(tbox') : tbox'[j] = IF j = Len(tbox) + 1 THEN i ELSE tbox[j]
      BY <1>t, <2>1, <2>3
    <2>6. \A j \in 1 .. Len(tbox') : j = Len(tbox) + 1 \/ j \in 1 .. Len(tbox)
      BY <1>t, <2>4
    <2>n. i \in Nat /\ tp.applied \in Nat
      BY Zenon, <1>n DEF i
    <2>7. /\ i = tp.applied + (Len(tbox) + 1) /\ Len(tbox') + 0 = i - tp.applied /\ i <= i
      BY SMTT(60), <1>t, <2>2, <2>4, <2>n
    <2>8. \A j \in 1 .. Len(tbox') : tbox'[j] = tp.applied + j
      BY Zenon, <2>2, <2>5, <2>6, <2>7
    <2> QED
      BY Zenon, <1>m, <2>1, <2>2, <2>7, <2>8 DEF PositionInv
  <1>7. CASE OnApplyRes
    <2>1. /\ tbox # << >> /\ tbox' = Tail(tbox) /\ ta' = ta /\ kv' = kv
          /\ tp'.applied = Head(tbox) /\ tp'.sent = tp.sent /\ tp'.inst = tp.inst
      BY Zenon, <1>0, <1>7 DEF OnApplyRes, TypeOK, TPeer
    <2>2. ~Installing /\ Head(tbox) = tp.applied + 1 /\ Head(tbox) <= ta.applied
      BY Zenon, <2>1, ResultStage
    <2>3. ~Installing'
      BY Zenon, <2>1, <2>2 DEF Installing
    <2>4. /\ Len(tbox) + (IF ta.write THEN 1 ELSE 0) = ta.applied - tp.applied
          /\ \A j \in 1 .. Len(tbox) : tbox[j] = tp.applied + j
      BY Zenon, <1>0, <2>2 DEF PositionInv
    <2>5. Len(tbox') = Len(tbox) - 1 /\ Len(tbox) > 0
      BY <1>t, <2>1
    <2>6. \A j \in 1 .. Len(tbox') : tbox'[j] = tbox[j + 1] /\ j + 1 \in 1 .. Len(tbox)
      BY <1>t, <2>1
    <2>7. \A j \in 1 .. Len(tbox') : tp.applied + (j + 1) = Head(tbox) + j
      <3>1. \A j \in Nat : tp.applied + (j + 1) = (tp.applied + 1) + j
        BY <1>n
      <3>2. \A j \in 1 .. Len(tbox') : j \in Nat
        BY <1>t, <2>5
      <3> QED
        BY Zenon, <2>2, <3>1, <3>2
    <2>8. \A j \in 1 .. Len(tbox') : tbox'[j] = Head(tbox) + j
      BY Zenon, <2>4, <2>6, <2>7
    <2>9. Len(tbox') + (IF ta.write THEN 1 ELSE 0) = ta.applied - Head(tbox)
      <3>1. tp.applied \in Nat /\ ta.applied \in Nat /\ Len(tbox) \in Nat /\ Head(tbox) = tp.applied + 1
        BY Zenon, <1>n, <1>t, <2>2
      <3>2. Len(tbox) + (IF ta.write THEN 1 ELSE 0) = ta.applied - tp.applied
        BY Zenon, <2>4
      <3> QED
        BY SMTT(60), <2>5, <3>1, <3>2
    <2> QED
      BY ZenonT(60), <1>0, <1>m, <2>1, <2>2, <2>3, <2>8, <2>9 DEF PositionInv
  <1>8. CASE TakeSnapshot
    <2>1. /\ tp'.applied = tp.snap /\ tp'.sent = tp.sent /\ tp'.inst.idx = tp.snap
          /\ tp'.inst.phase = "persisting"
          /\ tp.inst = NoSnap /\ NothingApplying /\ ta' = ta /\ tbox' = tbox /\ kv' = kv
      BY Zenon, <1>0, <1>8 DEF TakeSnapshot, TypeOK, TPeer
    <2>2. ~Installing /\ Installing' /\ Replacing' /\ tp'.inst.phase # "persisted"
          /\ tp.inst.phase # "persisted"
      BY <2>1 DEF Installing, Replacing, NoSnap
    <2>3. tbox = << >> /\ ~ta.write /\ ta.wait = "no" /\ ta.applied = tp.sent
      BY Zenon, <2>1, <2>2, Idle
    <2> QED
      BY Zenon, <1>0, <1>m, <2>1, <2>2, <2>3 DEF PositionInv
  <1>9. CASE PersistSnapshot
    <2>1. /\ tp'.applied = tp.applied /\ tp'.sent = tp.sent /\ tp'.inst.idx = tp.inst.idx
          /\ tp'.inst.phase = "persisted" /\ tp.inst.phase = "persisting"
          /\ ta' = ta /\ tbox' = tbox /\ kv'.tapplied = tp.inst.idx
      BY Zenon, <1>0, <1>9 DEF PersistSnapshot, TypeOK, TPeer, Kv
    <2>2. Installing /\ Replacing /\ Installing' /\ Replacing'
      BY <2>1 DEF Installing, Replacing
    <2>3. ta.applied = tp.sent /\ tp.sent <= tp.inst.idx
      BY Zenon, <1>0, <2>2 DEF PositionInv, DiskInv
    <2>4. ta.applied >= Merge => tp.inst.idx >= Merge
      BY <1>n, <2>3
    <2> QED
      BY Zenon, <1>0, <1>m, <2>1, <2>2, <2>4 DEF PositionInv
  <1>10. CASE OnPersistSnapshot
    <2>1. /\ tp'.applied = tp.applied /\ tp'.sent = tp.sent /\ tp'.inst.idx = tp.inst.idx
          /\ tp'.inst.phase = "applying" /\ tp.inst.phase = "persisted"
          /\ tbox' = tbox /\ kv' = kv
      BY Zenon, <1>0, <1>10 DEF OnPersistSnapshot, TypeOK, TPeer
    <2>2. ta'.applied = tp.inst.idx /\ ta'.wait = "no" /\ ta'.write = FALSE
      BY Zenon, <1>10 DEF OnPersistSnapshot
    <2>3. Installing /\ Installing' /\ ~Replacing'
      BY SMTT(60), <2>1 DEF Installing, Replacing
    <2>4. kv.tapplied = tp.inst.idx
      BY SMTT(60), <1>0, <2>1 DEF DiskInv
    <2>5. kv.tapplied <= tp.inst.idx
      BY <1>n, <2>4
    <2> QED
      BY Zenon, <1>0, <1>m, <2>1, <2>2, <2>3, <2>4, <2>5 DEF PositionInv
  <1>11. CASE InstallSnapshot
    <2>1. /\ tp'.applied = tp.applied /\ tp'.sent = tp.sent /\ tp'.inst.idx = tp.inst.idx
          /\ tp'.inst.phase = "installed" /\ tp.inst.phase = "applying"
          /\ ta' = ta /\ tbox' = tbox /\ kv'.tapplied = kv.tapplied
      BY Zenon, <1>0, <1>11 DEF InstallSnapshot, TypeOK, TPeer, Kv
    <2>2. Installing /\ ~Replacing /\ Installing' /\ ~Replacing' /\ tp.inst.phase # "persisted"
      BY <2>1 DEF Installing, Replacing
    <2> QED
      BY Zenon, <1>0, <1>m, <2>1, <2>2 DEF PositionInv
  <1>12. CASE FinishSnapshot
    <2>1. /\ tp'.applied = tp.applied /\ tp'.sent = tp.inst.idx /\ tp'.inst = NoSnap
          /\ tp.inst.phase = "installed"
          /\ ta' = ta /\ tbox' = tbox /\ kv' = kv
      BY Zenon, <1>0, <1>12 DEF FinishSnapshot, TypeOK, TPeer
    <2>2. Installing /\ ~Replacing /\ ~Installing' /\ tp.inst.phase # "persisted"
      BY <2>1 DEF Installing, Replacing, NoSnap
    <2>3. /\ tp.applied = tp.inst.idx /\ tbox = << >> /\ ta.wait = "no" /\ ~ta.write
          /\ ta.applied = tp.inst.idx
      BY Zenon, <1>0, <2>2 DEF PositionInv
    <2>4. /\ tp.applied <= ta.applied /\ ta.applied <= tp.inst.idx
          /\ Len(<< >>) + 0 = ta.applied - tp.applied /\ \A j : j \notin 1 .. Len(<< >>)
      BY <1>n, <2>3
    <2> QED
      BY Zenon, <1>0, <1>m, <2>1, <2>2, <2>3, <2>4 DEF PositionInv
  <1>13. CASE Restart
    <2>1. /\ tp'.applied = kv.tapplied /\ tp'.sent = kv.tapplied /\ tbox' = << >> /\ kv' = kv
          /\ ta'.applied = kv.tapplied /\ ta'.wait = "no" /\ ta'.write = FALSE
          /\ tp'.inst = IF kv.t = "Applying"
                        THEN [idx |-> kv.tapplied, phase |-> "applying", destroy |-> FALSE]
                        ELSE NoSnap
      BY Zenon, <1>13 DEF Restart
    <2>2. /\ kv.tapplied <= kv.tapplied /\ Len(<< >>) + 0 = kv.tapplied - kv.tapplied
          /\ \A j : j \notin 1 .. Len(<< >>)
      BY SMTT(60), <1>n
    <2>3. ~Replacing' /\ (Installing' => tp'.inst.idx = kv.tapplied)
      BY <2>1 DEF Installing, Replacing, NoSnap
    <2> QED
      BY Zenon, <1>m, <2>1, <2>2, <2>3 DEF PositionInv
  <1>14. ASSUME ~ReadyT, ~ApplyT, ~WaitMergeSource, ~LogsUpToDateForMerge, ~ExecCommitMerge, ~WriteT,
                ~OnApplyRes, ~TakeSnapshot, ~PersistSnapshot, ~OnPersistSnapshot,
                ~InstallSnapshot, ~FinishSnapshot, ~Restart
         PROVE  PositionInv'
    <2>1. ta' = ta /\ tbox' = tbox
      BY Zenon, <1>14, WhoWrites DEF Writers
    <2>2. kv'.tapplied = kv.tapplied
      BY Zenon, <1>0, <1>14, WhoWrites DEF Writers, WriteS, OnRaftLogGcFlushed, TypeOK, Kv
    <2>3. tp'.applied = tp.applied /\ tp'.sent = tp.sent /\ tp'.inst = tp.inst
      <3>1. CASE StepSnapshot
        BY Zenon, <1>0, <3>1 DEF StepSnapshot, Restored, TypeOK, TPeer
      <3>2. CASE AppendT \/ CheckSnapshot
        BY Zenon, <1>0, <3>2 DEF AppendT, CheckSnapshot, TypeOK, TPeer
      <3>3. CASE tp' = tp
        BY <3>3
      <3> QED
        BY Zenon, <1>14, <3>1, <3>2, <3>3, WhoWrites DEF Writers
    <2> QED
      BY Zenon, <1>0, <1>m, <2>1, <2>2, <2>3 DEF PositionInv, Installing, Replacing
  <1> QED
    BY ZenonT(60), <1>1, <1>2, <1>3, <1>4, <1>5, <1>6, <1>7, <1>8, <1>9, <1>10, <1>11, <1>12, <1>13, <1>14

(* How the index of T that StoreMeta knows of moves. *)
KnownMoves ==
  \/ ~OnApplyRes /\ ~OnPersistSnapshot /\ ~Restart /\ Known' = Known
  \/ OnApplyRes /\ Known = tp.applied /\ Known' = Head(tbox)
  \/ OnPersistSnapshot /\ Known = tp.sent /\ Known' = tp.inst.idx
  \/ Restart /\ Known' = kv.tapplied

\* How the index that StoreMeta knows of moves.
LEMMA KnownNext ==
  ASSUME IInv, [Next]_vars
  PROVE  KnownMoves
PROOF
  <1>0. TypeOK /\ PositionInv
    BY Zenon DEF IInv
  <1>1. CASE OnApplyRes
    <2>1. /\ tp'.applied = Head(tbox) /\ tp'.inst = tp.inst /\ tbox # << >>
      BY Zenon, <1>0, <1>1 DEF OnApplyRes, TypeOK, TPeer
    <2>2. ~Installing
      BY Zenon, <2>1, ResultStage
    <2>3. ~Replacing /\ ~Replacing'
      BY <2>1, <2>2 DEF Installing, Replacing
    <2> QED
      BY Zenon, <1>1, <2>1, <2>3 DEF Known, KnownMoves
  <1>2. CASE OnPersistSnapshot
    <2>1. tp'.applied = tp.applied /\ tp'.inst.phase = "applying" /\ tp.inst.phase = "persisted"
      BY Zenon, <1>0, <1>2 DEF OnPersistSnapshot, TypeOK, TPeer
    <2>2. ~Replacing' /\ Replacing /\ Installing
      BY <2>1 DEF Replacing, Installing
    <2> QED
      BY Zenon, <1>0, <1>2, <2>1, <2>2 DEF Known, KnownMoves, PositionInv
  <1>3. CASE Restart
    <2>1. /\ tp'.applied = kv.tapplied
          /\ tp'.inst = IF kv.t = "Applying"
                        THEN [idx |-> kv.tapplied, phase |-> "applying", destroy |-> FALSE]
                        ELSE NoSnap
      BY Zenon, <1>3 DEF Restart
    <2>2. ~Replacing'
      BY <2>1 DEF Replacing, NoSnap
    <2> QED
      BY Zenon, <1>3, <2>1, <2>2 DEF Known, KnownMoves
  <1>4. ASSUME ~OnApplyRes, ~OnPersistSnapshot, ~Restart PROVE Known' = Known
    <2>1. CASE TakeSnapshot
      <3>1. /\ tp'.sent = tp.sent /\ tp'.inst.phase = "persisting" /\ tp.inst = NoSnap
            /\ tp.sent = tp.applied
        BY Zenon, <1>0, <2>1 DEF TakeSnapshot, NothingApplying, TypeOK, TPeer
      <3>2. Replacing' /\ ~Replacing
        BY <3>1 DEF Replacing, NoSnap
      <3> QED
        BY Zenon, <3>1, <3>2 DEF Known
    <2>2. CASE PersistSnapshot
      <3>1. /\ tp'.sent = tp.sent /\ tp'.inst.phase = "persisted" /\ tp.inst.phase = "persisting"
        BY Zenon, <1>0, <2>2 DEF PersistSnapshot, TypeOK, TPeer
      <3>2. Replacing' /\ Replacing
        BY <3>1 DEF Replacing
      <3> QED
        BY Zenon, <3>1, <3>2 DEF Known
    <2>3. CASE InstallSnapshot
      <3>1. /\ tp'.applied = tp.applied /\ tp'.inst.phase = "installed" /\ tp.inst.phase = "applying"
        BY Zenon, <1>0, <2>3 DEF InstallSnapshot, TypeOK, TPeer
      <3>2. ~Replacing' /\ ~Replacing
        BY <3>1 DEF Replacing
      <3> QED
        BY Zenon, <3>1, <3>2 DEF Known
    <2>4. CASE FinishSnapshot
      <3>1. /\ tp'.applied = tp.applied /\ tp'.inst = NoSnap /\ tp.inst.phase = "installed"
        BY Zenon, <1>0, <2>4 DEF FinishSnapshot, TypeOK, TPeer
      <3>2. ~Replacing' /\ ~Replacing
        BY <3>1 DEF Replacing, NoSnap
      <3> QED
        BY Zenon, <3>1, <3>2 DEF Known
    <2>5. CASE ReadyT
      <3>1. /\ tp'.applied = tp.applied /\ tp'.inst = tp.inst /\ tp.inst = NoSnap
        BY Zenon, <1>0, <2>5 DEF ReadyT, TypeOK, TPeer
      <3>2. ~Replacing' /\ ~Replacing
        BY <3>1 DEF Replacing, NoSnap
      <3> QED
        BY Zenon, <3>1, <3>2 DEF Known
    <2>6. CASE AppendT \/ CheckSnapshot \/ StepSnapshot \/ tp' = tp
      <3>1. tp'.applied = tp.applied /\ tp'.inst = tp.inst /\ tp'.sent = tp.sent
        BY ZenonT(60), <1>0, <2>6 DEF AppendT, CheckSnapshot, StepSnapshot, Restored, TypeOK, TPeer
      <3> QED
        BY Zenon, <3>1 DEF Known, Replacing
    <2> QED
      BY Zenon, <1>4, <2>1, <2>2, <2>3, <2>4, <2>5, <2>6, WhoWrites DEF Writers
  <1> QED
    BY Zenon, <1>1, <1>2, <1>3, <1>4 DEF KnownMoves

\* What StoreMeta knows of is on disk, and only grows.
LEMMA KnownOnDisk ==
  ASSUME IInv, Merge <= Known
  PROVE  Merge <= kv.tapplied
PROOF
  <1>0. TNat /\ PositionInv
    BY Zenon, Numbers DEF IInv
  <1>1. CASE Installing
    <2>1. ~ta.write /\ tp.applied = tp.inst.idx
          /\ ta.applied = IF Replacing THEN tp.sent ELSE tp.inst.idx
      BY Zenon, <1>0, <1>1 DEF PositionInv
    <2>2. Known = ta.applied
      BY Zenon, <2>1 DEF Known
    <2>3. ta.applied >= Merge => kv.tapplied >= Merge
      BY Zenon, <1>0, <2>1 DEF PositionInv
    <2> QED
      BY <1>0, <2>2, <2>3 DEF TNat
  <1>2. CASE ~Installing
    <2>1. Known = tp.applied
      BY <1>2 DEF Known, Installing, Replacing
    <2>2. tp.applied <= ta.applied
      BY Zenon, <1>0, <1>2 DEF PositionInv
    <2>3. /\ Merge \in 0 .. L /\ L \in Nat /\ tp.applied \in 0 .. L /\ ta.applied \in 0 .. L
          /\ kv.tapplied \in 0 .. L
      BY Zenon, <1>0 DEF TNat
    <2>4. ta.applied >= Merge
      BY SMTT(60), <2>1, <2>2, <2>3
    <2>5. kv.tapplied >= Merge \/ (ta.write /\ ta.applied = Merge)
      BY Zenon, <1>0, <2>4 DEF PositionInv
    <2>6. ~ (ta.write /\ ta.applied = Merge)
      <3>1. SUFFICES ASSUME ta.write, ta.applied = Merge PROVE FALSE
        OBVIOUS
      <3>2. tp.applied < Merge
        BY Zenon, <3>1, WritesMerge DEF Executed
      <3> QED
        BY SMTT(60), <2>1, <2>3, <3>2
    <2> QED
      BY SMTT(60), <2>3, <2>5, <2>6
  <1> QED
    BY <1>1, <1>2

\* Once T has passed the merge it stays past it, restarts included.
LEMMA PassedNext ==
  ASSUME IInv, [Next]_vars, Passed
  PROVE  Passed'
PROOF
  <1>0. TypeOK /\ TNat /\ PositionInv /\ DiskInv
    BY Zenon, Numbers DEF IInv
  <1>m. Merge' = Merge
    BY Zenon, Frozen
  <1>n. /\ Merge \in 0 .. L /\ L \in Nat /\ tp.applied \in 0 .. L /\ tp.sent \in 0 .. L
        /\ kv.tapplied \in 0 .. L /\ tp.inst.idx \in 0 .. L
    BY Zenon, <1>0 DEF TNat
  <1>k. Merge <= Known /\ Merge # 0 /\ Known \in 0 .. L
    BY <1>n DEF Passed, Known
  <1>1. CASE Known' = Known
    BY Zenon, <1>m, <1>1 DEF Passed
  <1>2. CASE OnApplyRes /\ Known = tp.applied /\ Known' = Head(tbox)
    <2>1. tbox # << >>
      BY Zenon, <1>2 DEF OnApplyRes
    <2>2. Head(tbox) = tp.applied + 1
      BY Zenon, <2>1, ResultStage
    <2>3. Known' >= Merge
      BY SMTT(60), <1>2, <1>k, <1>n, <2>2
    <2> QED
      BY Zenon, <1>m, <1>k, <2>3 DEF Passed
  <1>3. CASE OnPersistSnapshot /\ Known = tp.sent /\ Known' = tp.inst.idx
    <2>1. Installing
      BY Zenon, <1>3 DEF OnPersistSnapshot, Installing
    <2>2. tp.sent <= tp.inst.idx
      BY Zenon, <1>0, <2>1 DEF DiskInv
    <2>3. Known' >= Merge
      BY SMTT(60), <1>3, <1>k, <1>n, <2>2
    <2> QED
      BY Zenon, <1>m, <1>k, <2>3 DEF Passed
  <1>4. CASE Restart /\ Known' = kv.tapplied
    <2>1. Merge <= kv.tapplied
      BY Zenon, <1>k, KnownOnDisk
    <2>2. Known' >= Merge
      BY <1>4, <1>n, <2>1
    <2> QED
      BY Zenon, <1>m, <1>k, <2>2 DEF Passed
  <1> QED
    BY Zenon, <1>1, <1>2, <1>3, <1>4, KnownNext DEF KnownMoves

\* StoreMeta, T's delegate and kv have the version of their index.
LEMMA VersionNext ==
  ASSUME IInv, [Next]_vars
  PROVE  VersionInv'
PROOF
  <1> USE DEF source, target, store
  <1>0. TypeOK /\ VersionInv /\ PositionInv
    BY Zenon DEF IInv
  <1>m. Merge' = Merge /\ TRegion' = TRegion
    BY Zenon, Frozen
  <1>1. meta'.tver = TRegion[Known'].ver
    <2>1. CASE OnApplyRes /\ Known' = Head(tbox)
      <3>1. meta'.tver = TRegion[Head(tbox)].ver
        BY Zenon, <1>0, <2>1 DEF OnApplyRes, WithoutSource, TypeOK, Meta
      <3> QED
        BY Zenon, <2>1, <3>1
    <2>2. CASE OnPersistSnapshot /\ Known' = tp.inst.idx
      <3>1. meta'.tver = TRegion[tp.inst.idx].ver
        BY Zenon, <1>0, <2>2 DEF OnPersistSnapshot, TypeOK, Meta
      <3> QED
        BY Zenon, <2>2, <3>1
    <2>3. CASE Restart /\ Known' = kv.tapplied
      <3>1. meta'.tver = kv.tver
        BY <2>3 DEF Restart
      <3> QED
        BY Zenon, <1>0, <2>3, <3>1 DEF VersionInv
    <2>4. CASE ~OnApplyRes /\ ~OnPersistSnapshot /\ ~Restart /\ Known' = Known
      <3>1. CASE OnApplyDestroyedForSnapshot \/ OnRaftLogGcFlushed \/ OnMergeTarget \/ StepSnapshot
        <4>1. meta'.tver = meta.tver
          BY ZenonT(60), <1>0, <3>1 DEF OnApplyDestroyedForSnapshot, OnRaftLogGcFlushed, OnMergeTarget,
             StepSnapshot, TypeOK, Meta
        <4> QED
          BY ZenonT(60), <1>0, <2>4, <4>1 DEF VersionInv
      <3>2. CASE meta' = meta
        BY Zenon, <1>0, <2>4, <3>2 DEF VersionInv
      <3> QED
        BY ZenonT(60), <2>4, <3>1, <3>2, WhoWrites DEF Writers
    <2> QED
      BY Zenon, <2>1, <2>2, <2>3, <2>4, KnownNext DEF KnownMoves
  <1>2. ta'.ver = TRegion[ta'.applied].ver
    <2>1. CASE LogsUpToDateForMerge \/ WaitMergeSource \/ WriteT \/ ta' = ta
      <3>1. ta'.ver = ta.ver /\ ta'.applied = ta.applied
        BY Zenon, <1>0, <2>1 DEF LogsUpToDateForMerge, WaitMergeSource, WriteT, TypeOK, TApply
      <3> QED
        BY Zenon, <1>0, <3>1 DEF VersionInv
    <2>2. CASE ApplyT
      BY Zenon, <1>0, <2>2 DEF ApplyT, TypeOK, TApply
    <2>3. CASE ExecCommitMerge
      BY Zenon, <1>0, <2>3 DEF ExecCommitMerge, TypeOK, TApply
    <2>4. CASE OnPersistSnapshot
      BY Zenon, <2>4 DEF OnPersistSnapshot
    <2>5. CASE Restart
      <3>1. ta'.ver = kv.tver /\ ta'.applied = kv.tapplied
        BY <2>5 DEF Restart
      <3> QED
        BY Zenon, <1>0, <3>1 DEF VersionInv
    <2> QED
      BY Zenon, <2>1, <2>2, <2>3, <2>4, <2>5, WhoWrites DEF Writers
  <1>3. kv'.tver = TRegion[kv'.tapplied].ver
    <2>1. CASE WriteS \/ OnRaftLogGcFlushed \/ InstallSnapshot \/ kv' = kv
      <3>1. kv'.tver = kv.tver /\ kv'.tapplied = kv.tapplied
        BY Zenon, <1>0, <2>1 DEF WriteS, OnRaftLogGcFlushed, InstallSnapshot, TypeOK, Kv
      <3> QED
        BY Zenon, <1>0, <3>1 DEF VersionInv
    <2>2. CASE WriteT
      <3>1. kv'.tver = ta.ver /\ kv'.tapplied = ta.applied
        BY Zenon, <1>0, <2>2 DEF WriteT, TypeOK, Kv
      <3> QED
        BY Zenon, <1>0, <3>1 DEF VersionInv
    <2>3. CASE PersistSnapshot
      BY Zenon, <1>0, <2>3 DEF PersistSnapshot, TypeOK, Kv
    <2> QED
      BY Zenon, <2>1, <2>2, <2>3, WhoWrites DEF Writers
  <1> QED
    BY Zenon, <1>m, <1>1, <1>2, <1>3 DEF VersionInv

\* The engine-store on disk is never behind kv.
LEMMA StoreNext ==
  ASSUME IInv, [Next]_vars
  PROVE  StoreInv'
PROOF
  <1> USE DEF source, target, store
  <1>0. TypeOK /\ SNat /\ TNat /\ StoreInv /\ ApplyInv /\ PositionInv /\ DiskInv
    BY Zenon, Numbers DEF IInv
  <1>m. Merge' = Merge
    BY Zenon, Frozen
  <1>i. TIdx = 0 .. L /\ L \in Nat /\ ta.applied \in 0 .. L /\ tp.sent \in 0 .. L /\ Merge \in 0 .. L
    BY Zenon, <1>0 DEF TNat
  <1>n. /\ sa.applied \in Nat /\ kv.sapplied \in Nat /\ es.sapplied \in Nat
        /\ esdisk.sapplied \in Nat /\ Merge \in Nat /\ ta.applied \in Nat /\ kv.tapplied \in Nat
        /\ es.tapplied \in Nat /\ esdisk.tapplied \in Nat /\ tp.inst.idx \in Nat
    <2>1. (\A x \in 0 .. N : x \in Nat) /\ (\A x \in 0 .. L : x \in Nat)
      OBVIOUS
    <2> QED
      BY Zenon, <1>0, <2>1 DEF SNat, TNat
  <1>s. /\ esdisk.s = es.s /\ esdisk.absorbed = es.absorbed
        /\ esdisk.sapplied <= es.sapplied /\ esdisk.tapplied <= es.tapplied
        /\ es.tapplied >= Merge => esdisk.tapplied >= Merge
        /\ es.s => es.sapplied >= sa.applied /\ esdisk.sapplied >= kv.sapplied
        /\ es.s /\ sa.write => esdisk.sapplied >= sa.applied
        /\ ~es.s => Merge # 0 /\ (esdisk.tapplied >= Merge \/ kv.tapplied >= Merge)
        /\ tp.inst.phase # "applying" => es.tapplied >= ta.applied
        /\ ta.write => esdisk.tapplied >= ta.applied
        /\ kv.t = "Normal" => esdisk.tapplied >= kv.tapplied
    BY Zenon, <1>0 DEF StoreInv
  <1>1. CASE ApplyS
    <2> DEFINE i == sa.applied + 1
    <2>1. /\ sa'.applied = i /\ sa'.write = (h.s[i].k # "write")
          /\ es'.s = es.s /\ es'.tapplied = es.tapplied /\ es'.absorbed = es.absorbed
          /\ es'.sapplied = IF es.s /\ i > es.sapplied THEN i ELSE es.sapplied
          /\ esdisk'.s = esdisk.s /\ esdisk'.tapplied = esdisk.tapplied
          /\ esdisk'.absorbed = esdisk.absorbed
          /\ IF h.s[i].k = "write" THEN esdisk'.sapplied = esdisk.sapplied
             ELSE esdisk'.sapplied = IF esdisk.s THEN es'.sapplied ELSE esdisk.sapplied
      BY ZenonT(60), <1>0, <1>1 DEF ApplyS, EsWriteS, EsPersistS, TypeOK, SApply, EngineStore
    <2>2. kv' = kv /\ tp' = tp /\ ta' = ta
      BY Zenon, <1>1 DEF ApplyS
    <2>n. /\ sa.applied \in Nat /\ kv.sapplied \in Nat /\ es.sapplied \in Nat
          /\ esdisk.sapplied \in Nat
      BY Zenon, <1>n
    <2>s. /\ esdisk.sapplied <= es.sapplied
          /\ es.s => es.sapplied >= sa.applied /\ esdisk.sapplied >= kv.sapplied
      BY Zenon, <1>s
    <2>e. /\ sa'.applied = sa.applied + 1
          /\ es'.sapplied = IF es.s /\ sa.applied + 1 > es.sapplied THEN sa.applied + 1
                            ELSE es.sapplied
      BY Zenon, <2>1
    <2>3. /\ esdisk'.sapplied <= es'.sapplied
          /\ es.s => es'.sapplied >= sa'.applied /\ esdisk'.sapplied >= kv.sapplied
          /\ es.s /\ sa'.write => esdisk'.sapplied >= sa'.applied
      <3>1. CASE h.s[i].k = "write"
        <4>1. ~sa'.write /\ esdisk'.sapplied = esdisk.sapplied
          BY Zenon, <2>1, <3>1
        <4> QED
          BY SMTT(60), <2>n, <2>s, <2>e, <4>1
      <3>2. CASE h.s[i].k # "write"
        <4>1. esdisk'.sapplied = IF es.s THEN es'.sapplied ELSE esdisk.sapplied
          BY Zenon, <1>s, <2>1, <3>2
        <4> QED
          BY SMTT(60), <2>n, <2>s, <2>e, <4>1
      <3> QED
        BY SMTT(60), <3>1, <3>2
    <2> QED
      BY Zenon, <1>s, <1>m, <2>1, <2>2, <2>3 DEF StoreInv
  <1>2. CASE WriteS
    <2>1. /\ sa'.applied = sa.applied /\ sa'.write = FALSE /\ sa.write /\ es' = es /\ esdisk' = esdisk
          /\ kv'.sapplied = sa.applied /\ kv'.tapplied = kv.tapplied /\ kv'.t = kv.t
          /\ tp' = tp /\ ta' = ta
      BY Zenon, <1>0, <1>2 DEF WriteS, TypeOK, SApply, Kv
    <2>2. kv.s # "Tombstone"
      BY Zenon, <1>0, <2>1 DEF ApplyInv
    <2> QED
      BY Zenon, <1>s, <1>m, <2>1, <2>2 DEF StoreInv
  <1>3. CASE OnRaftLogGcFlushed
    <2>1. /\ es' = es /\ esdisk' = esdisk /\ ~es.s
          /\ kv'.t = kv.t /\ kv'.tapplied = kv.tapplied /\ tp' = tp /\ ta' = ta
      BY Zenon, <1>0, <1>3 DEF OnRaftLogGcFlushed, TypeOK, Kv
    <2> QED
      BY Zenon, <1>s, <1>m, <2>1 DEF StoreInv
  <1>12. CASE OnRegionDestroyed
    <2>1. /\ es'.s = FALSE /\ es'.sapplied = 0 /\ es'.tapplied = es.tapplied
          /\ es'.absorbed = es.absorbed
          /\ esdisk'.s = FALSE /\ esdisk'.sapplied = 0 /\ esdisk'.tapplied = esdisk.tapplied
          /\ esdisk'.absorbed = esdisk.absorbed /\ kv' = kv /\ tp' = tp /\ ta' = ta
      BY Zenon, <1>0, <1>12 DEF OnRegionDestroyed, TypeOK, EngineStore
    <2>2. "flushed" \in Kinds
      BY Zenon, <1>0, <1>12, KindsHead DEF OnRegionDestroyed
    <2>3. Merge # 0 /\ Known >= Merge
      BY Zenon, <2>2, FlushedStage DEF Passed
    <2>4. Merge <= Known
      BY <1>n, <1>i, <2>3 DEF Known
    <2>5. Merge <= kv.tapplied
      BY Zenon, <2>4, KnownOnDisk
    <2>6. kv.tapplied >= Merge /\ 0 <= 0
      BY <1>n, <2>5
    <2> QED
      BY Zenon, <1>s, <1>m, <2>1, <2>3, <2>6 DEF StoreInv
  <1>4. CASE ApplyT
    <2> DEFINE i == ta.applied + 1
    <2>1. /\ ta.applied < tp.sent /\ i # Merge /\ ta'.applied = i /\ ta'.write = Runs(i)
          /\ es' = EsWriteT(i, es)
          /\ Runs(i) => esdisk' = [esdisk EXCEPT !.tapplied = es'.tapplied]
          /\ ~Runs(i) => esdisk' = esdisk
          /\ sa' = sa /\ kv' = kv /\ tp' = tp
      BY Zenon, <1>0, <1>4 DEF ApplyT, TypeOK, TApply
    <2>b. ta.applied < tp.sent /\ i # Merge
      BY Zenon, <2>1
    <2>2. i \in TIdx
      BY <1>i, <2>b
    <2>3. tp.inst.phase # "applying"
      BY Zenon, <2>1, Applying DEF Installing
    <2>4. /\ es'.tapplied = IF i <= es.tapplied THEN es.tapplied ELSE i
          /\ es'.s = es.s /\ es'.sapplied = es.sapplied /\ es'.absorbed = es.absorbed
      BY Zenon, <1>0, <2>1, <2>2, EsWriteIndex
    <2>5. /\ esdisk'.s = esdisk.s /\ esdisk'.sapplied = esdisk.sapplied
          /\ esdisk'.absorbed = esdisk.absorbed
          /\ Runs(i) => esdisk'.tapplied = es'.tapplied
          /\ ~Runs(i) => esdisk'.tapplied = esdisk.tapplied
      BY Zenon, <1>0, <2>1 DEF TypeOK, EngineStore
    <2>6. /\ es'.tapplied >= i /\ es'.tapplied >= es.tapplied
          /\ es'.tapplied >= Merge => es.tapplied >= Merge
      <3>1. /\ es.tapplied >= ta.applied
            /\ es'.tapplied = IF ta.applied + 1 <= es.tapplied THEN es.tapplied ELSE ta.applied + 1
            /\ ta.applied + 1 # Merge
        BY ZenonT(60), <1>s, <2>3, <2>4, <2>b
      <3>2. es'.tapplied >= ta.applied + 1 /\ es'.tapplied >= es.tapplied
        BY SMTT(60), <1>n, <3>1
      <3>3. es'.tapplied >= Merge => es.tapplied >= Merge
        <4>1. CASE ta.applied + 1 <= es.tapplied
          BY <3>1, <4>1
        <4>2. CASE ~ (ta.applied + 1 <= es.tapplied)
          <5>1. es'.tapplied = ta.applied + 1 /\ es.tapplied >= ta.applied /\ ta.applied + 1 # Merge
            BY Zenon, <3>1, <4>2
          <5>2. ta.applied \in Nat /\ es.tapplied \in Nat /\ Merge \in Nat
            BY SMTT(60), <1>n
          <5> QED
            BY SMTT(60), <5>1, <5>2
        <4> QED
          BY SMTT(60), <4>1, <4>2
      <3> QED
        BY <3>2, <3>3
    <2>7. es'.tapplied \in Nat
      BY <1>n, <2>4
    <2>8. /\ esdisk'.tapplied <= es'.tapplied /\ esdisk'.tapplied >= esdisk.tapplied
          /\ esdisk'.tapplied \in Nat
          /\ Runs(i) => esdisk'.tapplied >= i
      <3>1. CASE Runs(i)
        <4>1. esdisk'.tapplied = es'.tapplied
          BY Zenon, <2>5, <3>1
        <4> QED
          <5>1. esdisk.tapplied <= es.tapplied /\ es'.tapplied >= ta.applied + 1
                /\ es'.tapplied >= es.tapplied
            BY Zenon, <1>s, <2>6
          <5> QED
            BY SMTT(60), <1>n, <2>7, <4>1, <5>1
      <3>2. CASE ~Runs(i)
        <4>1. esdisk'.tapplied = esdisk.tapplied
          BY Zenon, <2>5, <3>2
        <4>2. esdisk.tapplied <= es.tapplied /\ es'.tapplied >= es.tapplied
          BY Zenon, <1>s, <2>6
        <4>3. esdisk.tapplied <= es'.tapplied /\ esdisk.tapplied >= esdisk.tapplied
          BY SMTT(60), <1>n, <2>7, <4>2
        <4> QED
          BY Zenon, <1>n, <3>2, <4>1, <4>3
      <3> QED
        BY Zenon, <3>1, <3>2
    <2>9. /\ esdisk.tapplied >= Merge => esdisk'.tapplied >= Merge
          /\ kv.t = "Normal" => esdisk'.tapplied >= kv.tapplied
      BY <1>n, <1>s, <2>8
    <2> HIDE DEF i
    <2> QED
      BY ZenonT(60), <1>s, <1>m, <2>1, <2>4, <2>5, <2>6, <2>8, <2>9 DEF StoreInv
  <1>5. CASE ExecCommitMerge
    <2>1. /\ ta.wait = "ready" /\ ta'.applied = Merge /\ ta'.write = TRUE
          /\ es' = EsWriteT(Merge, es) /\ esdisk' = es' /\ sa' = sa /\ kv' = kv /\ tp' = tp
      BY Zenon, <1>0, <1>5 DEF ExecCommitMerge, TypeOK, TApply
    <2>2. ta.applied + 1 = Merge /\ ~Installing
      BY Zenon, <1>0, <2>1 DEF PositionInv
    <2>3. kv.tapplied <= ta.applied
      BY <1>0, <2>2 DEF PositionInv, Installing
    <2>4. es'.tapplied = IF Merge <= es.tapplied THEN es.tapplied ELSE Merge
      BY Zenon, <1>0, <1>i, <2>1, EsWriteIndex
    <2>5. /\ es'.tapplied >= Merge /\ es'.tapplied >= kv.tapplied /\ es'.tapplied <= es'.tapplied
          /\ Merge # 0
      BY SMTT(60), <1>n, <2>2, <2>3, <2>4
    <2>6. CASE Merge <= es.tapplied
      <3>1. es' = es
        BY Zenon, <2>1, <2>6 DEF EsWriteT
      <3>2. /\ es.sapplied <= es.sapplied
            /\ es.s => es.sapplied >= sa.applied /\ es.sapplied >= kv.sapplied
        BY <1>n, <1>s
      <3> QED
        BY Zenon, <1>s, <1>m, <2>1, <2>5, <3>1, <3>2 DEF StoreInv
    <2>7. CASE ~ (Merge <= es.tapplied)
      <3>1. es'.s = FALSE /\ es'.sapplied = 0 /\ 0 <= 0
        BY <2>1, <2>7 DEF EsWriteT
      <3> QED
        BY Zenon, <1>s, <1>m, <2>1, <2>5, <3>1 DEF StoreInv
    <2> QED
      BY <2>6, <2>7
  <1>6. CASE InstallSnapshot
    <2>1. /\ tp.inst.phase = "applying"
          /\ es'.s = es.s /\ es'.sapplied = es.sapplied /\ es'.tapplied = tp.inst.idx
          /\ es'.absorbed = (IF TRegion[tp.inst.idx].merged # 0 THEN Commit ELSE 0)
          /\ esdisk'.s = esdisk.s /\ esdisk'.sapplied = esdisk.sapplied
          /\ esdisk'.tapplied = tp.inst.idx
          /\ esdisk'.absorbed = (IF TRegion[tp.inst.idx].merged # 0 THEN Commit ELSE 0)
          /\ sa' = sa /\ ta' = ta /\ kv'.s = kv.s /\ kv'.tapplied = kv.tapplied
          /\ kv'.sapplied = kv.sapplied
      BY Zenon, <1>0, <1>6 DEF InstallSnapshot, WithSnapshot, TypeOK, EngineStore, Kv
    <2>2. Installing /\ ~Replacing
      BY <2>1 DEF Installing, Replacing
    <2>3. ta.applied = tp.inst.idx /\ ~ta.write
      BY ZenonT(60), <1>0, <2>2 DEF PositionInv
    <2>4. kv.tapplied = tp.inst.idx /\ tdisk.commit = tp.inst.idx
      BY <1>0, <2>1 DEF DiskInv
    <2>5. es.tapplied <= tp.inst.idx
      BY ZenonT(60), <1>0, <2>4 DEF DiskInv
    <2>6. /\ esdisk.tapplied >= Merge => tp.inst.idx >= Merge
          /\ tp.inst.idx <= tp.inst.idx /\ tp.inst.idx >= tp.inst.idx
      BY SMTT(60), <1>n, <1>s, <2>5
    <2> QED
      BY ZenonT(60), <1>s, <1>m, <2>1, <2>3, <2>4, <2>6 DEF StoreInv
  <1>7. CASE Restart
    <2>1. PICK i \in esdisk.sapplied .. es.sapplied, j \in esdisk.tapplied .. es.tapplied :
            esdisk' = [esdisk EXCEPT !.sapplied = i, !.tapplied = j]
      BY Zenon, <1>7 DEF Restart
    <2>2. /\ esdisk'.s = esdisk.s /\ esdisk'.absorbed = esdisk.absorbed /\ esdisk'.sapplied = i
          /\ esdisk'.tapplied = j /\ es' = esdisk' /\ kv' = kv
      BY ZenonT(60), <1>0, <1>7, <2>1 DEF Restart, TypeOK, EngineStore
    <2>3. /\ sa'.applied = kv.sapplied /\ sa'.write = FALSE /\ ta'.applied = kv.tapplied
          /\ ta'.write = FALSE
      BY <1>7 DEF Restart
    <2>4. tp'.inst.phase # "applying" => kv.t = "Normal"
      <3>1. kv.t \in {"Normal", "Applying"}
        BY Zenon, <1>0 DEF TypeOK, Kv
      <3> QED
        BY <1>7, <3>1 DEF Restart
    <2>5. /\ i <= i /\ j <= j /\ i >= esdisk.sapplied /\ j >= esdisk.tapplied
          /\ esdisk.tapplied >= Merge => j >= Merge
          /\ es.s => i >= kv.sapplied
          /\ kv.t = "Normal" => j >= kv.tapplied
      <3>1. i \in Nat /\ j \in Nat /\ i >= esdisk.sapplied /\ j >= esdisk.tapplied
        BY <1>n
      <3>2. /\ es.s => esdisk.sapplied >= kv.sapplied
            /\ kv.t = "Normal" => esdisk.tapplied >= kv.tapplied
        BY Zenon, <1>s
      <3>3. /\ i <= i /\ j <= j
            /\ esdisk.tapplied >= Merge => j >= Merge
            /\ esdisk.sapplied >= kv.sapplied => i >= kv.sapplied
            /\ esdisk.tapplied >= kv.tapplied => j >= kv.tapplied
        BY <1>n, <3>1
      <3> QED
        BY Zenon, <3>1, <3>2, <3>3
    <2> QED
      BY ZenonT(60), <1>s, <1>m, <2>2, <2>3, <2>4, <2>5 DEF StoreInv
  <1>8. CASE WriteT
    <2>1. /\ ta.write /\ ta'.applied = ta.applied /\ ta'.write = FALSE /\ kv'.tapplied = ta.applied
          /\ kv'.t = kv.t /\ kv'.sapplied = kv.sapplied
          /\ es' = es /\ esdisk' = esdisk /\ sa' = sa /\ tp' = tp
      BY Zenon, <1>0, <1>8 DEF WriteT, TypeOK, TApply, Kv
    <2>2. kv.tapplied <= ta.applied
      BY <1>0, <2>1 DEF PositionInv, Installing
    <2>3. kv.tapplied >= Merge => kv'.tapplied >= Merge
      BY <1>n, <2>1, <2>2
    <2> QED
      BY Zenon, <1>s, <1>m, <2>1, <2>3 DEF StoreInv
  <1>9. CASE PersistSnapshot
    <2>1. /\ kv'.t = "Applying" /\ kv'.sapplied = kv.sapplied /\ kv'.tapplied = tp.inst.idx
          /\ es' = es /\ esdisk' = esdisk /\ sa' = sa /\ ta' = ta /\ tp.inst.phase = "persisting"
      BY Zenon, <1>0, <1>9 DEF PersistSnapshot, TypeOK, Kv
    <2>2. tp.inst.phase # "applying" /\ kv'.t # "Normal"
      BY <2>1
    <2>3. kv.tapplied <= tdisk.commit /\ tdisk.commit <= tp.inst.idx /\ tdisk.commit \in 0 .. L
      BY Zenon, <1>0, <2>1 DEF DiskInv, TNat
    <2>4. kv.tapplied >= Merge => kv'.tapplied >= Merge
      BY <1>n, <1>i, <2>1, <2>3
    <2> QED
      BY Zenon, <1>s, <1>m, <2>1, <2>2, <2>4 DEF StoreInv
  <1>10. CASE OnPersistSnapshot
    <2>1. /\ ta'.write = FALSE /\ es' = es /\ esdisk' = esdisk /\ sa' = sa /\ kv' = kv
          /\ tp'.inst.phase = "applying"
      BY Zenon, <1>0, <1>10 DEF OnPersistSnapshot, TypeOK, TPeer
    <2> QED
      BY Zenon, <1>s, <1>m, <2>1 DEF StoreInv
  <1>11. ASSUME ~ApplyS, ~WriteS, ~OnRegionDestroyed, ~OnRaftLogGcFlushed, ~ApplyT,
                ~ExecCommitMerge, ~InstallSnapshot, ~Restart, ~WriteT, ~PersistSnapshot,
                ~OnPersistSnapshot
         PROVE  StoreInv'
    <2>1. es' = es /\ esdisk' = esdisk /\ kv' = kv
      BY Zenon, <1>11, WhoWrites DEF Writers
    <2>2. sa'.applied = sa.applied /\ sa'.write = sa.write
      <3>1. CASE OnCatchUpLogs \/ OnReadyPrepareMerge \/ OnMergeResultStep1 \/ OnMergeTarget
        BY Zenon, <1>0, <3>1 DEF OnCatchUpLogs, OnReadyPrepareMerge, OnMergeResultStep1,
           OnMergeTarget, StopFor, ScheduleS, TypeOK, SApply
      <3>2. CASE LogsUpToDateForMerge \/ HandleDestroy
        BY Zenon, <1>0, <3>2 DEF LogsUpToDateForMerge, HandleDestroy, TypeOK, SApply
      <3> QED
        BY Zenon, <1>11, <3>1, <3>2, WhoWrites DEF Writers
    <2>3. ta'.applied = ta.applied /\ ta'.write = ta.write
      <3>1. CASE LogsUpToDateForMerge \/ WaitMergeSource
        BY Zenon, <1>0, <3>1 DEF LogsUpToDateForMerge, WaitMergeSource, TypeOK, TApply
      <3> QED
        BY Zenon, <1>11, <3>1, WhoWrites DEF Writers
    <2>4. tp.inst.phase = "applying" => tp'.inst.phase = "applying"
      <3>1. CASE AppendT \/ ReadyT \/ OnApplyRes \/ CheckSnapshot \/ StepSnapshot
        <4>1. tp \in TPeer
          BY Zenon, <1>0 DEF TypeOK
        <4>2. CASE AppendT \/ ReadyT
          BY ZenonT(60), <4>1, <4>2 DEF AppendT, ReadyT, TPeer
        <4>3. CASE OnApplyRes \/ CheckSnapshot
          BY ZenonT(60), <4>1, <4>3 DEF OnApplyRes, CheckSnapshot, TPeer
        <4>4. CASE StepSnapshot
          BY ZenonT(60), <4>1, <4>4 DEF StepSnapshot, Restored, TPeer
        <4> QED
          BY Zenon, <3>1, <4>2, <4>3, <4>4
      <3>2. CASE TakeSnapshot \/ FinishSnapshot
        <4>1. tp.inst = NoSnap \/ tp.inst.phase = "installed"
          BY Zenon, <3>2 DEF TakeSnapshot, FinishSnapshot
        <4> QED
          BY <4>1 DEF NoSnap
      <3> QED
        BY Zenon, <1>11, <3>1, <3>2, WhoWrites DEF Writers
    <2> QED
      BY Zenon, <1>s, <1>m, <2>1, <2>2, <2>3, <2>4 DEF StoreInv
  <1> QED
    BY ZenonT(60), <1>1, <1>2, <1>3, <1>4, <1>5, <1>6, <1>7, <1>8, <1>9, <1>10, <1>11, <1>12

\* The data of S moves to T as a whole.
LEMMA MergedNext ==
  ASSUME IInv, [Next]_vars
  PROVE  MergedWhole'
PROOF
  <1> USE DEF source, target, store
  <1>0. TypeOK /\ SNat /\ TNat /\ Epochs /\ StoreInv /\ RangeInv /\ PositionInv /\ MergedWhole
    BY Zenon, Numbers, EpochFacts DEF IInv
  <1>m. Merge' = Merge /\ Commit' = Commit
    BY Zenon, Frozen
  <1>i. TIdx = 0 .. L /\ L \in Nat /\ ta.applied \in 0 .. L /\ tp.sent \in 0 .. L /\ Merge \in 0 .. L
    BY Zenon, <1>0 DEF TNat
  <1>n. /\ es.sapplied \in Nat /\ sa.applied \in Nat /\ Merge \in Nat /\ ta.applied \in Nat
        /\ kv.tapplied \in Nat /\ es.tapplied \in Nat /\ esdisk.tapplied \in Nat
        /\ tp.inst.idx \in Nat
    <2>1. (\A x \in 0 .. N : x \in Nat) /\ (\A x \in 0 .. L : x \in Nat)
      OBVIOUS
    <2> QED
      BY Zenon, <1>0, <2>1 DEF SNat, TNat
  <1>1. SUFFICES ASSUME Merge # 0, es'.tapplied >= Merge PROVE es'.absorbed >= Commit
    <2>1. TypeOK' /\ StoreInv'
      BY Zenon, TypeNext, StoreNext
    <2>2. esdisk'.absorbed = es'.absorbed /\ esdisk'.tapplied <= es'.tapplied
      BY Zenon, <2>1 DEF StoreInv
    <2>3. esdisk'.tapplied \in TIdx' /\ es'.tapplied \in TIdx' /\ TIdx' = TIdx
      BY Zenon, <2>1, Frozen DEF TypeOK, EngineStore
    <2>4. esdisk'.tapplied >= Merge => es'.tapplied >= Merge
      <3>1. esdisk'.tapplied \in Nat /\ es'.tapplied \in Nat /\ esdisk'.tapplied <= es'.tapplied
        BY <1>i, <2>2, <2>3
      <3> QED
        BY SMTT(60), <1>n, <3>1
    <2> QED
      BY Zenon, <1>m, <2>2, <2>4 DEF MergedWhole
  <1>2. es.tapplied >= Merge => es.absorbed >= Commit
    BY Zenon, <1>0, <1>1 DEF MergedWhole
  <1>3. CASE ApplyT
    <2> DEFINE i == ta.applied + 1
    <2>1. ta.applied < tp.sent /\ i # Merge /\ es' = EsWriteT(i, es)
      BY Zenon, <1>3 DEF ApplyT
    <2>2. i \in TIdx
      <3>1. ta.applied < tp.sent
        BY Zenon, <2>1
      <3> QED
        BY <1>i, <3>1
    <2>3. tp.inst.phase # "applying"
      BY Zenon, <2>1, Applying DEF Installing
    <2>4. /\ es'.tapplied = IF i <= es.tapplied THEN es.tapplied ELSE i
          /\ es'.absorbed = es.absorbed
      BY Zenon, <1>0, <2>1, <2>2, EsWriteIndex
    <2>5. es.tapplied >= ta.applied
      BY Zenon, <1>0, <2>3 DEF StoreInv
    <2>6. es.tapplied >= Merge
      <3>1. CASE i <= es.tapplied
        BY <1>1, <2>4, <3>1
      <3>2. CASE ~ (i <= es.tapplied)
        <4>1. es'.tapplied = ta.applied + 1 /\ ta.applied + 1 # Merge /\ es'.tapplied >= Merge
          BY Zenon, <1>1, <2>1, <2>4, <3>2
        <4>2. ta.applied \in Nat /\ es.tapplied \in Nat /\ Merge \in Nat
          BY <1>n
        <4> QED
          BY <4>1, <4>2, <2>5
      <3> QED
        BY SMTT(60), <3>1, <3>2
    <2> QED
      BY Zenon, <1>2, <2>4, <2>6
  <1>4. CASE ExecCommitMerge
    <2>1. ta.wait = "ready" /\ es' = EsWriteT(Merge, es)
      BY Zenon, <1>4 DEF ExecCommitMerge
    <2>2. CASE Merge <= es.tapplied
      <3>1. es' = es
        BY Zenon, <2>1, <2>2 DEF EsWriteT
      <3>2. es.tapplied >= Merge
        BY <1>n, <2>2
      <3> QED
        BY Zenon, <1>2, <3>1, <3>2
    <2>3. CASE ~ (Merge <= es.tapplied)
      <3>1. es'.absorbed = es.sapplied
        BY <2>1, <2>3 DEF EsWriteT
      <3>2. ta.applied + 1 = Merge /\ ~Installing
        BY Zenon, <1>0, <2>1 DEF PositionInv
      <3>3. kv.tapplied <= ta.applied
        BY <1>0, <3>2 DEF PositionInv, Installing
      <3>4. es.s
        <4>1. esdisk.tapplied <= es.tapplied
          BY Zenon, <1>0 DEF StoreInv
        <4>2. ~ (esdisk.tapplied >= Merge) /\ ~ (kv.tapplied >= Merge)
          BY <1>n, <2>3, <3>2, <3>3, <4>1
        <4> QED
          BY Zenon, <1>0, <4>2 DEF StoreInv
      <3>5. es.sapplied >= sa.applied /\ sa.applied >= Commit /\ Commit \in SIdx
        BY Zenon, <1>0, <1>1, <2>1, <3>4, MergeStage DEF StoreInv, Epochs
      <3>6. es.sapplied >= Commit
        <4>1. SIdx = 0 .. N /\ N \in Nat
          BY Zenon, <1>0 DEF SNat
        <4> QED
          BY <1>n, <3>5, <4>1
      <3> QED
        BY <3>1, <3>6
    <2> QED
      BY <2>2, <2>3
  <1>5. CASE InstallSnapshot
    <2>1. /\ es'.tapplied = tp.inst.idx
          /\ es'.absorbed = (IF TRegion[tp.inst.idx].merged # 0 THEN Commit ELSE 0)
      BY Zenon, <1>0, <1>5 DEF InstallSnapshot, WithSnapshot, TypeOK, EngineStore
    <2>2. TRegion[tp.inst.idx].merged # 0
      <3>1. tp.inst.idx \in TIdx
        BY Zenon, <1>0 DEF TNat
      <3> QED
        BY Zenon, <1>0, <1>1, <2>1, <3>1 DEF Epochs
    <2>3. Commit \in SIdx /\ SIdx = 0 .. N /\ N \in Nat
      BY Zenon, <1>0, <1>1 DEF Epochs, SNat
    <2> QED
      BY <2>1, <2>2, <2>3
  <1>6. CASE Restart
    <2>1. PICK i \in esdisk.sapplied .. es.sapplied, j \in esdisk.tapplied .. es.tapplied :
            esdisk' = [esdisk EXCEPT !.sapplied = i, !.tapplied = j]
      BY Zenon, <1>6 DEF Restart
    <2>2. esdisk'.absorbed = esdisk.absorbed /\ esdisk'.tapplied = j /\ es' = esdisk'
      BY Zenon, <1>0, <1>6, <2>1 DEF Restart, TypeOK, EngineStore
    <2>3. es'.tapplied = j /\ es'.absorbed = es.absorbed
      BY Zenon, <1>0, <2>2 DEF StoreInv
    <2>4. j >= Merge
      BY Zenon, <1>1, <2>3
    <2>5. es.tapplied >= Merge
      BY <1>n, <2>4
    <2> QED
      BY Zenon, <1>2, <2>3, <2>5
  <1>7. CASE ApplyS \/ OnRegionDestroyed \/ es' = es
    <2>1. es'.tapplied = es.tapplied /\ es'.absorbed = es.absorbed
      <3>1. CASE ApplyS
        <4>1. es' = [es EXCEPT !.sapplied =
                       IF es.s /\ sa.applied + 1 > es.sapplied THEN sa.applied + 1 ELSE es.sapplied]
          BY Zenon, <3>1 DEF ApplyS, EsPersistS, EsWriteS
        <4> QED
          BY Zenon, <1>0, <4>1 DEF TypeOK, EngineStore
      <3>2. CASE OnRegionDestroyed
        BY Zenon, <1>0, <3>2 DEF OnRegionDestroyed, TypeOK, EngineStore
      <3> QED
        BY <1>7, <3>1, <3>2
    <2> QED
      BY Zenon, <1>1, <1>2, <2>1
  <1> QED
    BY Zenon, <1>3, <1>4, <1>5, <1>6, <1>7, WhoWrites DEF Writers

\* T covers S's range only from the merge on.
LEMMA CoversPast ==
  ASSUME TypeOK, NEW i \in TIdx, Covers(i)
  PROVE  Merge # 0 /\ i >= Merge
PROOF
  BY Zenon, EpochFacts DEF Epochs

\* T does not get S's range back.
LEMMA CoversBack ==
  ASSUME TypeOK, NEW i \in TIdx, NEW j \in TIdx, Merge <= i, i <= j, Covers(j)
  PROVE  Covers(i)
PROOF
  BY Zenon, EpochFacts DEF Epochs

\* A snapshot that S has to make way for.
LEMMA AtomicStage ==
  ASSUME IInv, meta.atomic # "none"
  PROVE  /\ sp.up /\ meta.s /\ sp.delayed = "none" /\ StoppedFor
         /\ kv.s = "Tombstone" <=> tp.inst.phase = "persisted"
PROOF
  <1>1. ~Quiet
    BY DEF Quiet
  <1> QED
    BY Zenon, <1>1 DEF IInv, StageInv, Untouched, CaughtUpFor, Stale, Leaving, Gone

\* S does not come back to StoreMeta.
LEMMA SourceLeaves ==
  ASSUME IInv, [Next]_vars, meta'.s
  PROVE  /\ meta.s \/ Restart
         /\ Restart => kv.s # "Tombstone"
PROOF
  <1> USE DEF source, target, store
  <1>0. TypeOK
    BY Zenon DEF IInv
  <1>1. ASSUME OnApplyDestroyedForSnapshot \/ OnRaftLogGcFlushed \/ OnMergeTarget PROVE meta.s
    BY Zenon, <1>0, <1>1
       DEF OnApplyDestroyedForSnapshot, OnRaftLogGcFlushed, OnMergeTarget, TypeOK, Meta
  <1>2. ASSUME OnApplyRes \/ StepSnapshot \/ OnPersistSnapshot PROVE meta.s
    BY Zenon, <1>0, <1>2
       DEF OnApplyRes, WithoutSource, StepSnapshot, OnPersistSnapshot, TypeOK, Meta
  <1>3. ASSUME Restart PROVE kv.s # "Tombstone"
    BY Zenon, <1>3 DEF Restart
  <1>4. meta.s \/ Restart
    BY Zenon, <1>1, <1>2, WhoWrites DEF Writers
  <1> QED
    BY <1>3, <1>4

(* Which step writes which part of T's peer and of StoreMeta. *)
PeerWriters ==
  /\ tp'.checked = tp.checked \/ CheckSnapshot \/ StepSnapshot \/ Restart
  /\ tp'.snap = tp.snap \/ StepSnapshot \/ TakeSnapshot \/ Restart
  /\ tp'.sent = tp.sent \/ ReadyT \/ FinishSnapshot \/ Restart
  /\ tp'.applied = tp.applied \/ OnApplyRes \/ TakeSnapshot \/ Restart
  /\ tp'.inst = tp.inst \/ TakeSnapshot \/ PersistSnapshot \/ OnPersistSnapshot
       \/ InstallSnapshot \/ FinishSnapshot \/ Restart
  /\ (tp'.inst.idx = tp.inst.idx /\ tp'.inst.destroy = tp.inst.destroy)
       \/ TakeSnapshot \/ FinishSnapshot \/ Restart

\* Which handlers move T's peer, and which of its fields.
LEMMA WhoMovesT == ASSUME TypeOK, [Next]_vars PROVE PeerWriters
PROOF
  <1>1. CASE AppendT \/ CheckSnapshot \/ OnApplyRes \/ ReadyT
    BY ZenonT(60), <1>1 DEF AppendT, CheckSnapshot, OnApplyRes, ReadyT, PeerWriters, TypeOK, TPeer
  <1>2. CASE StepSnapshot
    BY Zenon, <1>2 DEF StepSnapshot, Restored, PeerWriters, TypeOK, TPeer
  <1>3. CASE TakeSnapshot \/ FinishSnapshot
    BY ZenonT(60), <1>3 DEF TakeSnapshot, FinishSnapshot, PeerWriters, TypeOK, TPeer
  <1>4. CASE PersistSnapshot \/ OnPersistSnapshot \/ InstallSnapshot
    <2>1. /\ tp'.checked = tp.checked /\ tp'.snap = tp.snap /\ tp'.sent = tp.sent
          /\ tp'.applied = tp.applied
          /\ tp'.inst.idx = tp.inst.idx /\ tp'.inst.destroy = tp.inst.destroy
      <3>1. PICK p \in Phases : tp' = [tp EXCEPT !.inst.phase = p]
        BY Zenon, <1>4 DEF PersistSnapshot, OnPersistSnapshot, InstallSnapshot, Phases
      <3> QED
        BY Zenon, <3>1 DEF TypeOK, TPeer
    <2> QED
      BY Zenon, <1>4, <2>1 DEF PeerWriters
  <1>5. CASE Restart
    BY Zenon, <1>5 DEF PeerWriters
  <1>6. CASE tp' = tp
    BY Zenon, <1>6 DEF PeerWriters
  <1> QED
    BY ZenonT(60), <1>1, <1>2, <1>3, <1>4, <1>5, <1>6, WhoWrites DEF Writers

MetaWriters ==
  /\ meta'.s = meta.s \/ OnRaftLogGcFlushed \/ OnApplyRes \/ OnPersistSnapshot \/ Restart
  /\ meta'.atomic = meta.atomic \/ OnApplyDestroyedForSnapshot \/ StepSnapshot
       \/ OnPersistSnapshot \/ Restart

\* Which handlers move StoreMeta, and which of its fields.
LEMMA WhoMovesMeta == ASSUME TypeOK, [Next]_vars PROVE MetaWriters
PROOF
  <1>1. CASE OnApplyDestroyedForSnapshot \/ OnRaftLogGcFlushed \/ OnMergeTarget
    BY Zenon, <1>1 DEF OnApplyDestroyedForSnapshot, OnRaftLogGcFlushed, OnMergeTarget,
       MetaWriters, TypeOK, Meta
  <1>2. CASE OnApplyRes \/ StepSnapshot
    BY Zenon, <1>2 DEF OnApplyRes, WithoutSource, StepSnapshot, MetaWriters, TypeOK, Meta
  <1>3. CASE OnPersistSnapshot \/ Restart \/ meta' = meta
    BY Zenon, <1>3 DEF MetaWriters
  <1> QED
    BY Zenon, <1>1, <1>2, <1>3, WhoWrites DEF Writers

\* The index that StoreMeta knows of is one of T's log.
LEMMA KnownTyped == TypeOK => Known \in TIdx
PROOF
  BY Zenon DEF Known, TypeOK, TPeer

\* T's result of the CommitMerge comes after the CommitMerge is on disk.
LEMMA ResultOnDisk ==
  ASSUME IInv, tbox # << >>, Head(tbox) = Merge
  PROVE  kv.tapplied >= Merge /\ kv.s = "Tombstone"
PROOF
  <1>0. TypeOK /\ TNat /\ PositionInv
    BY Zenon, Numbers DEF IInv
  <1>1. ~Installing /\ Merge = tp.applied + 1 /\ Executed
    BY Zenon, ResultStage
  <1>2. Merge <= ta.applied
    BY Zenon, <1>1 DEF Executed
  <1>n. Merge \in Nat /\ ta.applied \in Nat /\ tp.applied \in Nat
    BY SMTT(60), <1>0 DEF TNat
  <1>3. ta.applied >= Merge
    BY <1>2, <1>n
  <1>4. ~ (ta.write /\ ta.applied = Merge)
    <2> SUFFICES ASSUME ta.write, ta.applied = Merge PROVE FALSE
      OBVIOUS
    <2>1. Len(tbox) + 1 = ta.applied - tp.applied
      BY Zenon, <1>0, <1>1 DEF PositionInv
    <2>2. tbox \in Seq(TIdx)
      BY Zenon, <1>0 DEF TypeOK
    <2>3. Len(tbox) \in Nat /\ Len(tbox) # 0
      BY <2>2
    <2> QED
      BY SMTT(60), <1>1, <1>n, <2>1, <2>3
  <1>5. kv.tapplied >= Merge
    BY Zenon, <1>0, <1>3, <1>4 DEF PositionInv
  <1>6. kv.s = "Tombstone" <=> Buried
    BY Zenon, <1>1, MergeStage
  <1> QED
    BY Zenon, <1>5, <1>6 DEF Buried

\* StoreMeta gives S's range to one region.
LEMMA RangeMeta ==
  ASSUME IInv, [Next]_vars
  PROVE  /\ meta'.s => ~Covers(Known')
         /\ ~meta'.s => kv'.s = "Tombstone"
PROOF
  <1> USE DEF source, target, store
  <1>0. TypeOK /\ TNat /\ RangeInv /\ PositionInv /\ ApplyInv
    BY Zenon, Numbers DEF IInv
  <1>m. TIdx = 0 .. L /\ L \in Nat /\ Merge \in 0 .. L /\ Known \in TIdx
    BY Zenon, <1>0, KnownTyped DEF TNat
  <1>1. ASSUME meta'.s PROVE ~Covers(Known')
    <2>1. CASE ~OnApplyRes /\ ~OnPersistSnapshot /\ ~Restart /\ Known' = Known
      BY Zenon, <1>0, <1>1, <2>1, SourceLeaves DEF RangeInv
    <2>2. CASE OnApplyRes /\ Known = tp.applied /\ Known' = Head(tbox)
      <3>1. tbox # << >> /\ meta.s /\ Head(tbox) # Merge
        <4>2. meta.s
          BY Zenon, <1>0, <1>1, <2>2 DEF OnApplyRes, WithoutSource, TypeOK, Meta
        <4>3. Head(tbox) = Merge => ~meta'.s
          BY Zenon, <1>0, <2>2 DEF OnApplyRes, WithoutSource, TypeOK, Meta
        <4> QED
          BY Zenon, <1>1, <2>2, <4>2, <4>3 DEF OnApplyRes
      <3>2. Head(tbox) = tp.applied + 1
        BY Zenon, <3>1, ResultStage
      <3>3. tbox \in Seq(TIdx)
        BY Zenon, <1>0 DEF TypeOK
      <3>4. Head(tbox) \in TIdx
        BY <3>1, <3>3
      <3>5. SUFFICES ASSUME Covers(Head(tbox)) PROVE FALSE
        BY Zenon, <2>2
      <3>6. Head(tbox) >= Merge
        BY Zenon, <1>0, <3>4, <3>5, CoversPast
      <3>7. tp.applied \in TIdx
        BY Zenon, <1>0 DEF TypeOK, TPeer
      <3>8. Merge <= tp.applied /\ tp.applied <= Head(tbox)
        BY SMTT(60), <1>m, <3>1, <3>2, <3>6, <3>7
      <3>9. Covers(tp.applied)
        BY Zenon, <1>0, <3>4, <3>5, <3>7, <3>8, CoversBack
      <3> QED
        BY Zenon, <1>0, <2>2, <3>1, <3>9 DEF RangeInv
    <2>3. CASE OnPersistSnapshot /\ Known' = tp.inst.idx
      <3>1. meta'.s = (meta.s /\ ~tp.inst.destroy)
        BY Zenon, <1>0, <2>3 DEF OnPersistSnapshot, TypeOK, Meta
      <3>2. meta.s /\ ~tp.inst.destroy
        BY Zenon, <1>1, <3>1
      <3> QED
        BY Zenon, <1>0, <2>3, <3>2 DEF RangeInv
    <2>4. CASE Restart /\ Known' = kv.tapplied
      BY Zenon, <1>0, <1>1, <2>4, SourceLeaves DEF RangeInv
    <2> QED
      BY Zenon, <2>1, <2>2, <2>3, <2>4, KnownNext DEF KnownMoves
  <1>2. ASSUME ~meta'.s PROVE kv'.s = "Tombstone"
    <2>1. CASE OnRaftLogGcFlushed
      BY Zenon, <1>0, <2>1 DEF OnRaftLogGcFlushed, TypeOK, Kv
    <2>2. CASE Restart
      BY Zenon, <1>2, <2>2 DEF Restart
    <2>3. CASE OnApplyRes
      <3>1. kv' = kv /\ tbox # << >> /\ (meta'.s = meta.s \/ Head(tbox) = Merge)
        BY Zenon, <1>0, <2>3 DEF OnApplyRes, TypeOK, Meta
      <3> QED
        BY Zenon, <1>0, <1>2, <3>1, ResultOnDisk DEF RangeInv
    <2>4. CASE OnPersistSnapshot
      <3>1. /\ kv' = kv /\ tp.inst.phase = "persisted"
            /\ meta'.s = (meta.s /\ ~tp.inst.destroy)
        BY Zenon, <1>0, <2>4 DEF OnPersistSnapshot, TypeOK, Meta
      <3>2. CASE tp.inst.destroy
        <4>1. Replacing
          BY <3>1 DEF Replacing
        <4> QED
          BY Zenon, <3>1, <3>2, <4>1, SnapshotStage
      <3>3. CASE ~meta.s
        BY Zenon, <1>0, <3>1, <3>3 DEF RangeInv
      <3> QED
        BY Zenon, <1>2, <3>1, <3>2, <3>3
    <2>5. CASE meta'.s = meta.s
      <3>1. kv.s = "Tombstone"
        BY Zenon, <1>0, <1>2, <2>5 DEF RangeInv
      <3>2. CASE WriteS
        BY Zenon, <1>0, <3>1, <3>2 DEF WriteS, ApplyInv
      <3>3. CASE OnRaftLogGcFlushed
        BY Zenon, <2>1, <3>3
      <3>4. CASE WriteT \/ PersistSnapshot \/ InstallSnapshot
        BY Zenon, <1>0, <3>1, <3>4 DEF WriteT, PersistSnapshot, InstallSnapshot, TypeOK, Kv
      <3> QED
        BY Zenon, <3>1, <3>2, <3>3, <3>4, WhoWrites DEF Writers
    <2> QED
      BY ZenonT(60), <1>0, <2>1, <2>2, <2>3, <2>4, <2>5, WhoMovesMeta DEF MetaWriters
  <1> QED
    BY <1>1, <1>2

\* S's tombstone and T's merge are on disk together.
LEMMA RangeKv ==
  ASSUME IInv, [Next]_vars
  PROVE  /\ kv'.s = "Tombstone" => Merge # 0 /\ kv'.tapplied >= Merge
         /\ kv'.s # "Tombstone" => ~Covers(kv'.tapplied)
PROOF
  <1> USE DEF source, target, store
  <1>0. TypeOK /\ TNat /\ RangeInv /\ PositionInv /\ ApplyInv /\ DiskInv
    BY Zenon, Numbers DEF IInv
  <1>n. /\ TIdx = 0 .. L /\ L \in Nat /\ Merge \in 0 .. L /\ kv.tapplied \in 0 .. L
        /\ ta.applied \in 0 .. L /\ tp.inst.idx \in 0 .. L /\ tp.sent \in 0 .. L
    BY Zenon, <1>0 DEF TNat
  <1>r. /\ kv.s = "Tombstone" => Merge # 0 /\ kv.tapplied >= Merge
        /\ kv.s # "Tombstone" => ~Covers(kv.tapplied)
    BY Zenon, <1>0 DEF RangeInv
  <1>1. CASE WriteS
    <2>1. kv'.tapplied = kv.tapplied /\ kv'.s \in {"Merging", "Normal"} /\ sa.write
      BY Zenon, <1>0, <1>1 DEF WriteS, TypeOK, Kv
    <2>2. kv.s # "Tombstone"
      BY Zenon, <1>0, <2>1 DEF ApplyInv
    <2>3. kv'.s # "Tombstone"
      BY <2>1
    <2> QED
      BY Zenon, <1>r, <2>1, <2>2, <2>3
  <1>2. CASE OnRaftLogGcFlushed
    <2>1. kv'.tapplied = kv.tapplied /\ kv'.s = "Tombstone"
      BY Zenon, <1>0, <1>2 DEF OnRaftLogGcFlushed, TypeOK, Kv
    <2>2. "flushed" \in Kinds
      BY Zenon, <1>0, <1>2, KindsHead DEF OnRaftLogGcFlushed
    <2>3. Merge # 0 /\ Known >= Merge /\ Known \in TIdx
      BY Zenon, <1>0, <2>2, FlushedStage, KnownTyped DEF Passed
    <2>4. Merge <= Known
      BY <1>n, <2>3
    <2>5. Merge <= kv.tapplied
      BY Zenon, <2>4, KnownOnDisk
    <2>6. kv.tapplied >= Merge
      BY SMTT(60), <1>n, <2>5
    <2> QED
      BY Zenon, <2>1, <2>3, <2>6
  <1>3. CASE WriteT
    <2>1. /\ ta.write /\ kv'.tapplied = ta.applied
          /\ ta.applied = Merge => kv'.s = "Tombstone"
          /\ ta.applied # Merge => kv'.s = kv.s
      BY Zenon, <1>0, <1>3 DEF WriteT, TypeOK, Kv
    <2>2. CASE ta.applied = Merge
      <3>1. Merge # 0 /\ Merge <= ta.applied
        BY Zenon, <2>1, <2>2, WritesMerge DEF Executed
      <3>2. ta.applied >= Merge
        BY <1>n, <3>1
      <3> QED
        BY Zenon, <2>1, <2>2, <3>1, <3>2
    <2>3. CASE ta.applied # Merge
      <3>1. ~Installing
        BY ZenonT(60), <1>0, <2>1 DEF PositionInv
      <3>2. kv.tapplied <= ta.applied
        BY SMTT(60), <1>0, <3>1 DEF PositionInv, Installing
      <3>3. kv.tapplied >= Merge => ta.applied >= Merge
        BY <1>n, <3>2
      <3>4. ASSUME kv.s # "Tombstone", Covers(ta.applied) PROVE FALSE
        <4>1. ta.applied >= Merge
          BY Zenon, <1>0, <1>n, <3>4, CoversPast
        <4>2. kv.tapplied >= Merge
          BY Zenon, <1>0, <2>3, <4>1 DEF PositionInv
        <4>3. Merge <= kv.tapplied
          BY <1>n, <4>2
        <4>4. Covers(kv.tapplied)
          BY ZenonT(60), <1>0, <1>n, <3>2, <3>4, <4>3, CoversBack
        <4> QED
          BY Zenon, <1>r, <3>4, <4>4
      <3> QED
        BY Zenon, <1>r, <2>1, <2>3, <3>3, <3>4
    <2> QED
      BY <2>2, <2>3
  <1>4. CASE PersistSnapshot
    <2>1. /\ tp.inst.phase = "persisting" /\ kv'.tapplied = tp.inst.idx
          /\ kv'.s = IF tp.inst.destroy THEN "Tombstone" ELSE kv.s
      BY ZenonT(60), <1>0, <1>4 DEF PersistSnapshot, TypeOK, Kv
    <2>2. Installing /\ Replacing /\ tp.inst.phase # "persisted"
      BY <2>1 DEF Installing, Replacing
    <2>3. CASE tp.inst.destroy
      BY Zenon, <2>1, <2>2, <2>3, SnapshotStage
    <2>4. CASE ~tp.inst.destroy
      <3>1. kv.tapplied <= ta.applied /\ ta.applied = tp.sent /\ tp.sent <= tp.inst.idx
        BY Zenon, <1>0, <2>2 DEF PositionInv, DiskInv
      <3>2. kv.tapplied >= Merge => tp.inst.idx >= Merge
        BY <1>n, <3>1
      <3>3. kv.s # "Tombstone" => ~Covers(tp.inst.idx)
        BY Zenon, <1>0, <2>4 DEF RangeInv
      <3> QED
        BY Zenon, <1>r, <2>1, <2>4, <3>2, <3>3
    <2> QED
      BY <2>3, <2>4
  <1>5. CASE InstallSnapshot \/ kv' = kv
    <2>1. kv'.s = kv.s /\ kv'.tapplied = kv.tapplied
      BY Zenon, <1>0, <1>5 DEF InstallSnapshot, TypeOK, Kv
    <2> QED
      BY Zenon, <1>r, <2>1
  <1> QED
    BY Zenon, <1>1, <1>2, <1>3, <1>4, <1>5, WhoWrites DEF Writers

\* How far S's removal is, from the message S's peer takes next.
LEMMA StoppingStage ==
  ASSUME IInv,
         "from_target_snapshot_step1" \in Kinds \/ "destroyed_for_snapshot" \in Kinds
  PROVE  /\ sp.up /\ meta.s /\ sp.delayed = "none" /\ StoppedFor /\ meta.atomic = "wait"
         /\ tp.checked.idx = 0 /\ tp.snap # 0 /\ Covers(tp.snap) /\ tp.inst = NoSnap
         /\ tp.sent = tp.applied /\ sa.tasks = << >>
         /\ kv.s # "Tombstone"
         /\ \/ /\ Removal = {"from_target_snapshot_step1"} /\ ~sp.removing /\ ~sa.stopped
            \/ /\ Removal = {"destroyed_for_snapshot"} /\ sp.removing /\ sa.stopped
PROOF
  <1>1. Removal # {}
        /\ ("from_target_snapshot_step1" \in Removal \/ "destroyed_for_snapshot" \in Removal)
    BY DEF Removal
  <1>2. sbox # << >>
    BY Zenon, KindsEmpty
  <1>3. /\ "from_target_snapshot_step1" \notin {"destroyed"}
        /\ "from_target_snapshot_step1" \notin {"flushed"}
        /\ "from_target_snapshot_step1" \notin {"from_target_log"}
        /\ "from_target_snapshot_step1" \notin {"from_target_snapshot_step2"}
        /\ "destroyed_for_snapshot" \notin {"destroyed"} /\ "destroyed_for_snapshot" \notin {"flushed"}
        /\ "destroyed_for_snapshot" \notin {"from_target_log"}
        /\ "destroyed_for_snapshot" \notin {"from_target_snapshot_step2"}
    OBVIOUS
  <1>4. ~Untouched /\ ~CaughtUpFor
    BY Zenon, <1>1 DEF Untouched, CaughtUpFor
  <1>5. ~Stale
    BY SMTT(60), <1>1, <1>3 DEF Stale
  <1>6. ~Leaving
    BY <1>1, <1>3 DEF Leaving
  <1>7. /\ sp.up /\ meta.s /\ sp.delayed = "none" /\ StoppedFor
        /\ kv.s = "Tombstone" <=> tp.inst.phase = "persisted"
    BY Zenon, <1>2, <1>4, <1>5, <1>6 DEF IInv, StageInv, Gone
  <1>8. /\ meta.atomic = "wait"
        /\ tp.checked.idx = 0 /\ tp.snap # 0 /\ Covers(tp.snap) /\ tp.inst = NoSnap
        /\ tp.sent = tp.applied /\ sa.tasks = << >>
        /\ \/ /\ Removal = {"from_target_snapshot_step1"} /\ ~sp.removing /\ ~sa.stopped
           \/ /\ Removal = {"destroyed_for_snapshot"} /\ sp.removing /\ sa.stopped
    BY Zenon, <1>1, <1>7 DEF StoppedFor
  <1>9. tp.inst.phase # "persisted"
    BY SMTT(60), <1>8 DEF NoSnap
  <1> QED
    BY Zenon, <1>7, <1>8, <1>9

\* S's delegate reports its destruction to a stale S only.
LEMMA StaleStage ==
  ASSUME IInv, "destroyed" \in Kinds
  PROVE  /\ sp.up /\ meta.s /\ sp.delayed = "none" /\ kv.s # "Tombstone"
         /\ Passed /\ Quiet /\ sp.removing /\ sa.tasks = << >> /\ sa.stopped
         /\ Removal = {"destroyed"}
PROOF
  <1>1. "destroyed" \in Removal
    BY DEF Removal
  <1>2. sbox # << >>
    BY ZenonT(60), KindsEmpty
  <1> QED
    BY SMTT(60), <1>1, <1>2
       DEF IInv, StageInv, Untouched, CaughtUpFor, StoppedFor, Stale, Leaving, Gone

\* A MergeResult of T reaches an S that is merged.
LEMMA LeavingStage ==
  ASSUME IInv, "from_target_log" \in Kinds \/ "from_target_snapshot_step2" \in Kinds
  PROVE  /\ sp.up /\ ~meta.s /\ sp.delayed = "none" /\ kv.s = "Tombstone"
         /\ Passed /\ Quiet /\ sp.removing /\ sa.tasks = << >> /\ sa.stopped
         /\ \/ Removal = {"from_target_log"} /\ sp.merge = Commit
            \/ Removal = {"from_target_snapshot_step2"}
PROOF
  <1>1. "from_target_log" \in Removal \/ "from_target_snapshot_step2" \in Removal
    BY DEF Removal
  <1>2. sbox # << >>
    BY Zenon, KindsEmpty
  <1> QED
    BY SMTT(60), <1>1, <1>2
       DEF IInv, StageInv, Untouched, CaughtUpFor, StoppedFor, Stale, Leaving, Gone

\* A snapshot that was looked at and overlaps S may destroy it until raft takes it.
LEMMA RangePeer ==
  ASSUME IInv, [Next]_vars
  PROVE  /\ tp'.checked.destroy =>
              /\ tp'.checked.idx # 0 /\ Covers(tp'.checked.idx) /\ meta'.s
              /\ tp'.snap = 0 /\ tp'.inst = NoSnap /\ tp'.sent = tp'.applied
              /\ meta'.atomic = "none"
         /\ ~tp'.checked.destroy /\ Covers(tp'.checked.idx) => ~meta'.s
PROOF
  <1> USE DEF source, target, store
  <1>0. TypeOK /\ TNat /\ RangeInv
    BY Zenon, Numbers DEF IInv
  <1>n. /\ TIdx = 0 .. L /\ L \in Nat /\ Merge \in 0 .. L /\ tp.applied \in 0 .. L
        /\ tp.checked.idx \in 0 .. L /\ tp.sent \in 0 .. L /\ tp.commit \in 0 .. L
        /\ tp.sent <= tp.commit
    BY Zenon, <1>0 DEF TNat
  <1>z. ~Covers(0)
    <2> SUFFICES ASSUME Covers(0) PROVE FALSE
      OBVIOUS
    <2>1. 0 \in TIdx
      BY <1>n
    <2>2. Merge # 0 /\ 0 >= Merge
      BY Zenon, <1>0, <2>1, CoversPast
    <2> QED
      BY SMTT(60), <1>n, <2>2
  <1>1. CASE Restart
    <2>1. tp'.checked = [idx |-> 0, destroy |-> FALSE]
      BY Zenon, <1>1 DEF Restart
    <2>2. tp'.checked.idx = 0 /\ ~tp'.checked.destroy
      BY <2>1
    <2> QED
      BY Zenon, <1>z, <2>2
  <1>2. CASE StepSnapshot
    <2>1. tp'.checked = [idx |-> 0, destroy |-> FALSE]
      BY Zenon, <1>0, <1>2 DEF StepSnapshot, Restored, TypeOK, TPeer
    <2>2. tp'.checked.idx = 0 /\ ~tp'.checked.destroy
      BY <2>1
    <2> QED
      BY Zenon, <1>z, <2>2
  <1>3. CASE CheckSnapshot
    <2>1. PICK j \in tp.commit + 1 .. L :
            /\ meta.s /\ Covers(j) => CanDestroySource(j)
            /\ tp' = [tp EXCEPT !.checked = [idx |-> j, destroy |-> meta.s /\ Covers(j)]]
      BY Zenon, <1>3 DEF CheckSnapshot, Covers, L
    <2>2. j # 0 /\ meta' = meta /\ meta.atomic = "none"
      BY SMTT(60), <1>n, <1>3 DEF CheckSnapshot
    <2>3. /\ tp'.checked = [idx |-> j, destroy |-> meta.s /\ Covers(j)]
          /\ tp'.snap = tp.snap /\ tp'.inst = tp.inst /\ tp'.sent = tp.sent /\ tp'.applied = tp.applied
      BY Zenon, <1>0, <2>1 DEF TypeOK, TPeer
    <2>4. tp'.checked.idx = j /\ tp'.checked.destroy = (meta.s /\ Covers(j))
      BY Zenon, <1>0, <2>1 DEF TypeOK, TPeer
    <2>5. tp'.checked.destroy => meta.s /\ Covers(j)
      BY Zenon, <2>4
    <2>6. meta.s /\ Covers(j) => tp'.checked.destroy
      BY Zenon, <2>4
    <2> QED
      BY ZenonT(60), <2>1, <2>2, <2>3, <2>4, <2>5, <2>6 DEF CanDestroySource, NothingApplying
  <1>4. ASSUME tp'.checked = tp.checked, ~Restart, ~StepSnapshot, tp.checked.destroy
        PROVE  /\ tp'.checked.idx # 0 /\ Covers(tp'.checked.idx) /\ meta'.s
               /\ tp'.snap = 0 /\ tp'.inst = NoSnap /\ tp'.sent = tp'.applied
               /\ meta'.atomic = "none"
    <2>1. /\ tp.checked.idx # 0 /\ Covers(tp.checked.idx) /\ meta.s
          /\ tp.snap = 0 /\ tp.inst = NoSnap /\ tp.sent = tp.applied /\ meta.atomic = "none"
      BY Zenon, <1>0, <1>4 DEF RangeInv
    <2>2. ~ReadyT /\ ~FinishSnapshot /\ ~TakeSnapshot /\ ~OnApplyRes /\ ~OnPersistSnapshot
      BY Zenon, <2>1
         DEF TargetFree, ReadyT, FinishSnapshot, TakeSnapshot, OnApplyRes, OnPersistSnapshot
    <2>3. ~PersistSnapshot /\ ~InstallSnapshot
      BY <2>1 DEF NoSnap, PersistSnapshot, InstallSnapshot
    <2>4. ~OnApplyDestroyedForSnapshot
      BY Zenon, <1>0, <2>1, KindsHead, StoppingStage DEF OnApplyDestroyedForSnapshot
    <2>5. ~OnRaftLogGcFlushed
      <3> SUFFICES ASSUME OnRaftLogGcFlushed PROVE FALSE
        OBVIOUS
      <3>1. "flushed" \in Kinds
        BY Zenon, <1>0, KindsHead DEF OnRaftLogGcFlushed
      <3>2. Passed
        BY ZenonT(60), <3>1, FlushedStage
      <3>3. Known = tp.applied
        BY SMTT(60), <2>1 DEF Known, Replacing, NoSnap
      <3>4. Merge <= tp.applied /\ tp.applied <= tp.checked.idx
        <4>1. tp.applied >= Merge
          BY Zenon, <3>2, <3>3 DEF Passed
        <4>2. tp.checked.idx > tp.commit
          BY Zenon, <2>1 DEF IInv, DiskInv
        <4>3. tp.sent = tp.applied
          BY Zenon, <2>1
        <4> QED
          BY SMTT(60), <1>n, <4>1, <4>2, <4>3
      <3>5. Covers(tp.applied)
        BY Zenon, <1>0, <1>n, <2>1, <3>4, CoversBack
      <3> QED
        BY Zenon, <1>0, <2>1, <3>3, <3>5 DEF RangeInv
    <2>6. tp'.snap = tp.snap /\ tp'.inst = tp.inst /\ tp'.sent = tp.sent /\ tp'.applied = tp.applied
      BY ZenonT(60), <1>0, <1>4, <2>2, <2>3, WhoMovesT DEF PeerWriters
    <2>7. meta'.s = meta.s /\ meta'.atomic = meta.atomic
      BY ZenonT(60), <1>0, <1>4, <2>2, <2>4, <2>5, WhoMovesMeta DEF MetaWriters
    <2> QED
      BY Zenon, <1>4, <2>1, <2>6, <2>7
  <1>5. ASSUME tp'.checked = tp.checked, ~Restart, ~tp.checked.destroy, Covers(tp.checked.idx)
        PROVE  ~meta'.s
    BY Zenon, <1>0, <1>5, SourceLeaves DEF RangeInv
  <1> QED
    BY ZenonT(60), <1>0, <1>1, <1>2, <1>3, <1>4, <1>5, WhoMovesT DEF PeerWriters

\* A snapshot over S's range waits for S, or S is gone.
LEMMA RangeSnapshot ==
  ASSUME IInv, [Next]_vars
  PROVE  /\ Covers(tp'.snap) => ~meta'.s \/ meta'.atomic # "none"
         /\ Covers(tp'.inst.idx) /\ ~tp'.inst.destroy => ~meta'.s
PROOF
  <1> USE DEF source, target, store
  <1>0. TypeOK /\ TNat /\ RangeInv
    BY Zenon, Numbers DEF IInv
  <1>n. TIdx = 0 .. L /\ L \in Nat /\ Merge \in 0 .. L
    BY Zenon, <1>0 DEF TNat
  <1>z. ~Covers(0)
    <2> SUFFICES ASSUME Covers(0) PROVE FALSE
      OBVIOUS
    <2>1. 0 \in TIdx
      BY <1>n
    <2>2. Merge # 0 /\ 0 >= Merge
      BY Zenon, <1>0, <2>1, CoversPast
    <2> QED
      BY <1>n, <2>2
  <1>1. CASE Restart
    <2>1. tp'.snap = 0 /\ (meta'.s = (kv.s # "Tombstone"))
          /\ tp'.inst = IF kv.t = "Applying"
                        THEN [idx |-> kv.tapplied, phase |-> "applying", destroy |-> FALSE]
                        ELSE NoSnap
      BY Zenon, <1>1 DEF Restart
    <2>2. tp'.inst.idx \in {0, kv.tapplied}
      BY <2>1 DEF NoSnap
    <2>3. meta'.s => ~Covers(kv.tapplied)
      BY Zenon, <1>0, <2>1 DEF RangeInv
    <2> QED
      BY Zenon, <1>z, <2>1, <2>2, <2>3
  <1>2. ASSUME ~Restart, Covers(tp'.snap), meta'.s PROVE meta'.atomic # "none"
    <2>0. meta.s
      BY Zenon, <1>2, SourceLeaves
    <2>1. CASE StepSnapshot
      <3>1. /\ tp'.snap = Restored(tp.checked.idx).snap
            /\ Restored(tp.checked.idx).snap \in {tp.snap, tp.checked.idx}
            /\ IF Restored(tp.checked.idx).snap # 0 /\ tp.checked.destroy
               THEN meta'.atomic = "wait" ELSE meta'.atomic = meta.atomic
        BY Zenon, <1>0, <2>1 DEF StepSnapshot, Restored, TypeOK, TPeer, Meta
      <3>2. tp'.snap # 0
        BY Zenon, <1>2, <1>z
      <3>3. CASE meta'.atomic = "wait"
        BY <3>3
      <3>4. CASE meta'.atomic = meta.atomic /\ ~tp.checked.destroy
        BY Zenon, <1>0, <1>2, <2>0, <3>1, <3>4 DEF RangeInv
      <3> QED
        BY Zenon, <3>1, <3>2, <3>3, <3>4
    <2>2. CASE TakeSnapshot
      <3>1. tp'.snap = 0
        BY Zenon, <1>0, <2>2 DEF TakeSnapshot, TypeOK, TPeer
      <3> QED
        BY Zenon, <1>2, <1>z, <3>1
    <2>3. CASE tp'.snap = tp.snap
      <3>1. meta.atomic # "none"
        BY Zenon, <1>0, <1>2, <2>0, <2>3 DEF RangeInv
      <3>2. CASE OnPersistSnapshot
        <4>1. StoppedFor
          BY Zenon, <3>1, AtomicStage
        <4>2. tp.snap # 0 /\ tp.inst # NoSnap
          <5>1. tp.snap # 0
            BY Zenon, <1>2, <1>z, <2>3
          <5>2. tp.inst.phase = "persisted"
            BY Zenon, <3>2 DEF OnPersistSnapshot
          <5> QED
            BY SMTT(60), <5>1, <5>2 DEF NoSnap
        <4> QED
          BY Zenon, <4>1, <4>2 DEF StoppedFor
      <3>3. CASE OnApplyDestroyedForSnapshot
        <4>1. meta'.atomic = "ready"
          BY Zenon, <1>0, <3>3 DEF OnApplyDestroyedForSnapshot, TypeOK, Meta
        <4> QED
          BY <4>1
      <3> QED
        BY ZenonT(60), <1>0, <1>2, <2>1, <3>1, <3>2, <3>3, WhoMovesMeta DEF MetaWriters
    <2> QED
      BY Zenon, <1>0, <1>2, <2>1, <2>2, <2>3, WhoMovesT DEF PeerWriters
  <1>3. ASSUME ~Restart, Covers(tp'.inst.idx), ~tp'.inst.destroy PROVE ~meta'.s
    <2>1. CASE TakeSnapshot
      <3>1. /\ tp'.inst = [idx |-> tp.snap, phase |-> "persisting", destroy |-> meta.atomic = "ready"]
            /\ meta' = meta /\ meta.atomic # "wait" /\ meta.atomic \in {"none", "wait", "ready"}
        BY ZenonT(60), <1>0, <2>1 DEF TakeSnapshot, TypeOK, TPeer, Meta
      <3>2. tp'.inst.idx = tp.snap /\ (tp'.inst.destroy = (meta.atomic = "ready"))
        BY ZenonT(60), <1>0, <2>1 DEF TakeSnapshot, TypeOK, TPeer
      <3>3. meta.atomic = "none"
        BY Zenon, <1>3, <3>1, <3>2
      <3> QED
        BY ZenonT(60), <1>0, <1>3, <3>1, <3>2, <3>3 DEF RangeInv
    <2>2. CASE FinishSnapshot
      <3>1. tp'.inst = NoSnap
        BY ZenonT(60), <1>0, <2>2 DEF FinishSnapshot, TypeOK, TPeer
      <3>2. tp'.inst.idx = 0
        BY <3>1 DEF NoSnap
      <3> QED
        BY Zenon, <1>3, <1>z, <3>2
    <2>3. CASE tp'.inst.idx = tp.inst.idx /\ tp'.inst.destroy = tp.inst.destroy
      BY Zenon, <1>0, <1>3, <2>3, SourceLeaves DEF RangeInv
    <2> QED
      BY ZenonT(60), <1>0, <1>3, <2>1, <2>2, <2>3, WhoMovesT DEF PeerWriters
  <1> QED
    BY Zenon, <1>1, <1>2, <1>3

\* Every step keeps the range invariant.
LEMMA RangeNext ==
  ASSUME IInv, [Next]_vars
  PROVE  RangeInv'
PROOF
  <1>1. Merge' = Merge /\ TRegion' = TRegion
    BY Zenon, Frozen
  <1> QED
    BY Zenon, <1>1, RangeMeta, RangeKv, RangePeer, RangeSnapshot DEF RangeInv, Covers

\* The result of a PrepareMerge or a rollback.
LEMMA ResultSent ==
  ASSUME IInv, WriteS
  PROVE  \/ sbox' = sbox
         \/ \E m \in Message : m.k \in {"prepare", "rollback"} /\ sbox' = Append(sbox, m)
PROOF
  <1>0. TypeOK /\ SNat /\ Logs /\ ApplyInv
    BY Zenon, Numbers, LogFacts DEF IInv
  <1> DEFINE i == sa.applied
             p == h.s[i].k = "prepare"
             m == [k |-> h.s[i].k, at |-> IF p THEN i ELSE h.s[i].at]
  <1>1. sa.write
    BY Zenon DEF WriteS
  <1>2. i > kv.sapplied /\ h.s[i].k # "write"
    BY Zenon, <1>0, <1>1 DEF ApplyInv
  <1>3. i \in 1 .. N /\ i - 1 \in SIdx /\ i \in SIdx
    <2>1. /\ i \in 0 .. N /\ kv.sapplied \in 0 .. N /\ N \in Nat /\ SIdx = 0 .. N
      BY Zenon, <1>0 DEF SNat
    <2> HIDE DEF i
    <2> QED
      BY <1>2, <2>1
  <1>4. h.s[i].k \in {"prepare", "rollback"} /\ (~p => Pending[i - 1] = h.s[i].at)
    BY ZenonT(60), <1>0, <1>2, <1>3 DEF Logs
  <1>5. m \in Message
    <2>1. (IF p THEN i ELSE h.s[i].at) \in SIdx
      BY ZenonT(60), <1>0, <1>3, <1>4 DEF Logs
    <2>2. h.s[i].k \in Messages
      BY <1>4 DEF Messages
    <2> QED
      BY <2>1, <2>2 DEF Message
  <1>6. sbox' = (IF sp.up THEN Append(sbox, m) ELSE sbox)
    BY Zenon DEF WriteS, ToSource
  <1>7. m.k = h.s[i].k
    OBVIOUS
  <1> HIDE DEF i, m
  <1> QED
    BY Zenon, <1>4, <1>5, <1>6, <1>7

\* What the mailbox has after a message was sent.
LEMMA KindsSent ==
  ASSUME TypeOK, NEW k \in Messages, NEW c \in SIdx, sp.up, ToSource([k |-> k, at |-> c])
  PROVE  Kinds' = Kinds \cup {k}
PROOF
  <1>1. [k |-> k, at |-> c] \in Message /\ [k |-> k, at |-> c].k = k
    BY DEF Message
  <1>2. sbox' = Append(sbox, [k |-> k, at |-> c])
    BY Zenon DEF ToSource
  <1> QED
    BY Zenon, <1>1, <1>2, KindsAppend

\* What the mailbox has after a message was taken.
LEMMA KindsTook ==
  ASSUME IInv, NEW k, Took(k), sbox' = Tail(sbox)
  PROVE  /\ k \in Kinds /\ sp.up /\ Kinds = Kinds' \cup {k}
         /\ k \in Once => Kinds' = Kinds \ {k}
PROOF
  BY Zenon, KindsTail DEF IInv, MailInv, Took

\* The messages that the steps add to S's mailbox.
Posts ==
  \/ Kinds' \subseteq Kinds
  \/ WriteS /\ Kinds' \subseteq Kinds \cup {"prepare", "rollback"}
  \/ WaitMergeSource /\ Kinds' \subseteq Kinds \cup {"catch_up"}
  \/ RaftLogGcFlushed /\ Kinds' = Kinds \cup {"flushed"}
  \/ HandleDestroy /\ Head(sa.tasks) = "destroy" /\ Kinds' = Kinds \cup {"destroyed"}
  \/ /\ HandleDestroy /\ Head(sa.tasks) = "destroy_for_snapshot"
     /\ Kinds' = Kinds \cup {"destroyed_for_snapshot"}
  \/ OnApplyRes /\ Head(tbox) = Merge /\ Kinds' = Kinds \cup {"from_target_log"}
  \/ /\ StepSnapshot /\ tp.checked.destroy
     /\ Kinds' = Kinds \cup {"from_target_snapshot_step1"}
  \/ /\ OnPersistSnapshot /\ tp.inst.destroy
     /\ Kinds' = Kinds \cup {"from_target_snapshot_step2"}

\* Which handlers send which message.
LEMMA WhoPosts == ASSUME IInv, [Next]_vars PROVE Posts
PROOF
  <1> USE DEF source, target, store
  <1>0. TypeOK /\ SNat /\ TNat /\ Epochs
    BY ZenonT(60), Numbers, EpochFacts DEF IInv
  <1>z. 0 \in SIdx /\ (Merge # 0 => Commit \in SIdx)
    BY <1>0 DEF SNat, Epochs
  <1>s. ASSUME sbox' = sbox PROVE Kinds' \subseteq Kinds
    BY Zenon, <1>s DEF Kinds
  <1>k. /\ "flushed" \in Messages /\ "destroyed" \in Messages /\ "destroyed_for_snapshot" \in Messages
        /\ "from_target_log" \in Messages /\ "catch_up" \in Messages
        /\ "from_target_snapshot_step1" \in Messages /\ "from_target_snapshot_step2" \in Messages
    BY DEF Messages
  <1>1. CASE WriteS
    <2>1. CASE sbox' = sbox
      BY Zenon, <2>1, <1>s DEF Posts
    <2>2. ASSUME NEW m \in Message, m.k \in {"prepare", "rollback"}, sbox' = Append(sbox, m)
          PROVE  Posts
      BY ZenonT(60), <1>0, <1>1, <2>2, KindsAppend DEF Posts
    <2> QED
      BY Zenon, <1>1, <2>1, <2>2, ResultSent
  <1>2. ASSUME \/ OnCatchUpLogs \/ OnReadyPrepareMerge \/ OnReadyRollbackMerge
               \/ OnMergeResultLog \/ OnMergeResultStep1 \/ OnMergeResultStep2
               \/ OnApplyDestroyed \/ OnApplyDestroyedForSnapshot
        PROVE  Posts
    <2>1. \E k : Took(k) /\ sbox' = Tail(sbox)
      BY Zenon, <1>2 DEF OnCatchUpLogs, OnReadyPrepareMerge, OnReadyRollbackMerge,
         OnMergeResultLog, OnMergeResultStep1, OnMergeResultStep2, OnApplyDestroyed,
         OnApplyDestroyedForSnapshot
    <2> QED
      BY Zenon, <2>1, KindsTook DEF Posts
  <1>3. CASE RaftLogGcFlushed
    <2>1. sp.up /\ ToSource([k |-> "flushed", at |-> 0])
      BY Zenon, <1>3 DEF RaftLogGcFlushed
    <2> QED
      BY ZenonT(60), <1>0, <1>3, <1>z, <1>k, <2>1, KindsSent DEF Posts
  <1>4. CASE HandleDestroy
    <2>1. PICK s \in BOOLEAN :
            /\ ApplyTaskS(IF s THEN "destroy_for_snapshot" ELSE "destroy")
            /\ sbox' = IF sa.stopped \/ ~sp.up THEN sbox
                       ELSE Append(sbox, [k |-> IF s THEN "destroyed_for_snapshot" ELSE "destroyed",
                                          at |-> 0])
      BY Zenon, <1>4 DEF HandleDestroy
    <2>2. CASE sbox' = sbox
      BY Zenon, <2>2, <1>s DEF Posts
    <2>3. CASE sbox' # sbox /\ s
      <3>1. /\ Head(sa.tasks) = "destroy_for_snapshot" /\ sp.up
            /\ ToSource([k |-> "destroyed_for_snapshot", at |-> 0])
        BY Zenon, <2>1, <2>3 DEF ApplyTaskS, ToSource
      <3> QED
        BY ZenonT(60), <1>0, <1>4, <1>z, <1>k, <3>1, KindsSent DEF Posts
    <2>4. CASE sbox' # sbox /\ ~s
      <3>1. /\ Head(sa.tasks) = "destroy" /\ sp.up
            /\ ToSource([k |-> "destroyed", at |-> 0])
        BY Zenon, <2>1, <2>4 DEF ApplyTaskS, ToSource
      <3> QED
        BY ZenonT(60), <1>0, <1>4, <1>z, <1>k, <3>1, KindsSent DEF Posts
    <2> QED
      BY Zenon, <2>2, <2>3, <2>4
  <1>5. CASE WaitMergeSource
    <2>1. ta.applied + 1 = Merge /\ ToSource([k |-> "catch_up", at |-> Commit])
      BY ZenonT(60), <1>5 DEF WaitMergeSource
    <2>2. Merge # 0
      BY <1>0, <2>1 DEF TNat
    <2>3. CASE sp.up
      BY ZenonT(60), <1>0, <1>5, <1>z, <1>k, <2>1, <2>2, <2>3, KindsSent DEF Posts
    <2>4. CASE ~sp.up
      BY Zenon, <1>s, <2>1, <2>4 DEF Posts, ToSource
    <2> QED
      BY <2>3, <2>4
  <1>6. CASE OnApplyRes
    <2>1. CASE Head(tbox) = Merge /\ sp.up
      <3>1. ToSource([k |-> "from_target_log", at |-> 0])
        BY Zenon, <1>6, <2>1 DEF OnApplyRes
      <3> QED
        BY ZenonT(60), <1>0, <1>6, <1>z, <1>k, <2>1, <3>1, KindsSent DEF Posts
    <2>2. CASE ~ (Head(tbox) = Merge /\ sp.up)
      BY Zenon, <1>6, <1>s, <2>2 DEF OnApplyRes, ToSource, Posts
    <2> QED
      BY SMTT(60), <2>1, <2>2
  <1>7. CASE StepSnapshot
    <2>1. sbox' = sbox \/ (tp.checked.destroy /\ ToSource([k |-> "from_target_snapshot_step1", at |-> 0]))
      BY Zenon, <1>7 DEF StepSnapshot
    <2>2. CASE sbox' = sbox
      BY Zenon, <2>2, <1>s DEF Posts
    <2>3. CASE sbox' # sbox
      <3>1. sp.up
        BY Zenon, <2>1, <2>3 DEF ToSource
      <3> QED
        BY ZenonT(60), <1>0, <1>7, <1>z, <1>k, <2>1, <2>3, <3>1, KindsSent DEF Posts
    <2> QED
      BY SMTT(60), <2>2, <2>3
  <1>8. CASE OnPersistSnapshot
    <2>1. sbox' = sbox \/ (tp.inst.destroy /\ ToSource([k |-> "from_target_snapshot_step2", at |-> 0]))
      BY Zenon, <1>8 DEF OnPersistSnapshot
    <2>2. CASE sbox' = sbox
      BY Zenon, <2>2, <1>s DEF Posts
    <2>3. CASE sbox' # sbox
      <3>1. sp.up
        BY Zenon, <2>1, <2>3 DEF ToSource
      <3> QED
        BY ZenonT(60), <1>0, <1>8, <1>z, <1>k, <2>1, <2>3, <3>1, KindsSent DEF Posts
    <2> QED
      BY <2>2, <2>3
  <1>9. CASE OnRaftLogGcFlushed \/ Restart
    <2>1. sbox' = << >>
      BY Zenon, <1>9 DEF OnRaftLogGcFlushed, Restart
    <2> QED
      BY Zenon, <2>1, KindsEmpty DEF Posts
  <1>10. CASE sbox' = sbox
    BY Zenon, <1>10, <1>s DEF Posts
  <1> QED
    BY ZenonT(60), <1>1, <1>2, <1>3, <1>4, <1>5, <1>6, <1>7, <1>8, <1>9, <1>10, WhoWrites DEF Writers

\* T asks S to catch up once at a time.
LEMMA TokenNext ==
  ASSUME IInv, [Next]_vars
  PROVE  TokenInv'
PROOF
  <1> USE DEF source, target, store
  <1>0. TypeOK /\ TokenInv /\ MailInv /\ PositionInv
    BY Zenon DEF IInv
  <1>m. Commit' = Commit
    BY Zenon, Frozen
  <1>1. "catch_up" \in Kinds' => "catch_up" \in Kinds \/ WaitMergeSource
    BY WhoPosts DEF Posts
  <1>2. CASE OnCatchUpLogs
    <2>1. Took("catch_up") /\ sbox' = Tail(sbox) /\ ta' = ta
      BY Zenon, <1>2 DEF OnCatchUpLogs
    <2>2. "catch_up" \in Once
      BY DEF Once, Messages
    <2>3. "catch_up" \notin Kinds' /\ "catch_up" \in Kinds
      BY Zenon, <2>1, <2>2, KindsTook
    <2>4. Head(sbox).at = Commit
      <3>1. sbox \in Seq(Message) /\ sbox # << >> /\ Head(sbox).k = "catch_up"
        BY Zenon, <1>0, <2>1 DEF TypeOK, Took
      <3>2. Head(sbox) = sbox[1] /\ 1 \in 1 .. Len(sbox)
        BY SMTT(60), <3>1
      <3> QED
        BY Zenon, <1>0, <3>1, <3>2 DEF MailInv, BoxOK
    <2>5. sp'.cul \in {0, Commit}
      <3>1. Head(sbox).at \in SIdx
        BY Zenon, <1>0, <2>1, Mail DEF Took
      <3>2. CASE CaughtUp(Head(sbox).at)
        BY ZenonT(60), <1>0, <1>2, <3>2 DEF OnCatchUpLogs, StopFor, TypeOK, SPeer
      <3>3. CASE ~CaughtUp(Head(sbox).at)
        <4>1. /\ sp' = [MaybeAppendMergeEntries(Head(sbox).at) EXCEPT !.cul = Head(sbox).at]
              /\ MaybeAppendMergeEntries(Head(sbox).at) \in SPeer
          BY ZenonT(60), <1>0, <1>2, <3>1, <3>3, AppendedEntries DEF OnCatchUpLogs
        <4>2. sp'.cul = Head(sbox).at
          BY Zenon, <4>1 DEF SPeer
        <4> QED
          BY Zenon, <2>4, <4>2
      <3> QED
        BY <3>2, <3>3
    <2> QED
      BY ZenonT(60), <1>0, <1>m, <2>1, <2>3, <2>5 DEF TokenInv
  <1>3. ASSUME ~OnCatchUpLogs PROVE sp'.cul \in {0, sp.cul}
    <2>1. CASE AppendS
      BY ZenonT(60), <1>0, <2>1 DEF AppendS, TypeOK, SPeer
    <2>2. CASE Restart
      BY <2>2 DEF Restart, Peer
    <2> QED
      BY ZenonT(60), <1>0, <1>3, <2>1, <2>2, WhoWrites DEF Writers, TypeOK, SPeer, DestroyPeer, StopFor, ReadyS,
         OnReadyPrepareMerge, OnReadyRollbackMerge, OnMergeResultLog, OnMergeResultStep1,
         OnMergeResultStep2, OnApplyDestroyed, OnMergeTarget, OnRaftLogGcFlushed
  <1>4. CASE WaitMergeSource
    <2>1. ta.wait = "no" /\ ta'.wait = "wait" /\ sp' = sp
      BY Zenon, <1>0, <1>4 DEF WaitMergeSource, TypeOK, TApply
    <2>2. ta.wait # "wait"
      BY <2>1
    <2> QED
      BY Zenon, <1>0, <1>m, <2>1, <2>2 DEF TokenInv
  <1>5. CASE Restart
    <2>1. sbox' = << >> /\ sp'.cul = 0
      BY <1>5 DEF Restart, Peer
    <2>2. Kinds' = {}
      BY Zenon, <2>1, KindsEmpty
    <2> QED
      BY Zenon, <2>1, <2>2 DEF TokenInv
  <1>6. CASE ~OnCatchUpLogs /\ ~WaitMergeSource /\ ~Restart
    <2>1. "catch_up" \in Kinds \/ sp.cul # 0 => ta'.wait = "wait"
      <3>1. CASE LogsUpToDateForMerge
        <4>1. CaughtUpFor /\ sa.tasks # << >>
          BY Zenon, <3>1, TaskStage DEF LogsUpToDateForMerge, ApplyTaskS
        <4> QED
          BY Zenon, <4>1 DEF CaughtUpFor
      <3>2. CASE ApplyT \/ WriteT \/ ta' = ta
        BY Zenon, <1>0, <3>2 DEF ApplyT, WriteT, TypeOK, TApply, TokenInv
      <3>3. CASE ExecCommitMerge \/ OnPersistSnapshot
        <4>1. ta.wait = "ready" \/ ta.wait = "no"
          BY Zenon, <1>0, <3>3 DEF ExecCommitMerge, OnPersistSnapshot, PositionInv, Installing
        <4>2. ta.wait # "wait"
          BY <4>1
        <4> QED
          BY Zenon, <1>0, <4>2 DEF TokenInv
      <3> QED
        BY ZenonT(60), <1>6, <3>1, <3>2, <3>3, WhoWrites DEF Writers
    <2> QED
      BY ZenonT(60), <1>0, <1>m, <1>1, <1>3, <1>6, <2>1 DEF TokenInv
  <1> QED
    BY SMTT(60), <1>2, <1>4, <1>5, <1>6

\* S has applied the PrepareMerge and says so on disk when T executes the CommitMerge.
LEMMA SourceMerging ==
  ASSUME IInv, ta.wait = "ready"
  PROVE  kv.s = "Merging" /\ kv.merge = Commit
PROOF
  <1>0. TypeOK /\ SNat /\ TNat /\ Logs /\ Epochs /\ ApplyInv /\ MailInv /\ PositionInv
    BY Zenon, Numbers, LogFacts, EpochFacts DEF IInv
  <1>1. sp.up /\ CaughtUpFor /\ sa.stopped /\ (kv.s = "Tombstone" <=> Buried)
    BY Zenon, MergeStage
  <1>2. Merge # 0 /\ sp.merge = Commit
    BY Zenon, <1>1 DEF CaughtUpFor
  <1>3. kv.s # "Tombstone"
    <2>1. ta.applied + 1 = Merge /\ ~Installing
      BY ZenonT(60), <1>0 DEF PositionInv
    <2>2. kv.tapplied <= ta.applied
      BY SMTT(60), <1>0, <2>1 DEF PositionInv, Installing
    <2>3. ta.applied \in Nat /\ kv.tapplied \in Nat /\ Merge \in Nat
      BY <1>0 DEF TNat
    <2>4. ~ (kv.tapplied >= Merge)
      BY SMTT(60), <2>1, <2>2, <2>3
    <2> QED
      BY Zenon, <1>1, <2>4 DEF Buried
  <1>4. kv.sapplied \in Commit .. N
    <2>1. PICK p \in 0 .. kv.sapplied : Leads(sbox, sp.merge, p, kv.sapplied)
      BY Zenon, <1>0, <1>1 DEF MailInv
    <2>2. sbox \in Seq(Message)
      BY Zenon, <1>0 DEF TypeOK
    <2>3. kv.sapplied \in 0 .. N /\ N \in Nat
      BY Zenon, <1>0 DEF SNat
    <2>4. kv.sapplied \in Nat
      BY <2>3
    <2>5. sp.merge \in 0 .. kv.sapplied
      BY Zenon, <2>1, <2>2, <2>4, LeadsBound
    <2>6. Commit \in 0 .. kv.sapplied
      BY Zenon, <1>2, <2>5
    <2> QED
      BY <2>3, <2>6
  <1>5. kv.sapplied \in kv.sapplied .. sa.applied
    <2>1. kv.sapplied \in 0 .. N /\ N \in Nat /\ sa.applied \in 0 .. N /\ kv.sapplied <= sa.applied
      BY Zenon, <1>0 DEF SNat, ApplyInv
    <2> QED
      BY SMTT(60), <2>1
  <1>6. Pending[kv.sapplied] = kv.merge
    BY Zenon, <1>0, <1>1, <1>3, <1>5 DEF ApplyInv
  <1>7. Pending[kv.sapplied] = Commit /\ Commit # 0
    BY Zenon, <1>0, <1>2, <1>4 DEF Logs
  <1> QED
    BY ZenonT(60), <1>0, <1>3, <1>6, <1>7 DEF ApplyInv

\* No step fails an assertion.
LEMMA PanicNext ==
  ASSUME IInv, [Next]_vars
  PROVE  NoPanic'
PROOF
  <1> USE DEF source, target, store
  <1>0. TypeOK /\ SNat /\ TNat /\ Logs /\ Epochs /\ NoPanic
    BY Zenon, Numbers, LogFacts, EpochFacts DEF IInv
  <1> SUFFICES panic' = panic
    BY Zenon, <1>0 DEF NoPanic
  <1>1. CASE ApplyS
    <2> DEFINE i == sa.applied + 1
    <2>1. ~sa.stopped /\ ~sa.write /\ sa.applied < sp.sent /\ Check(RollbackOk(h.s[i]), "exec_rollback_merge: not merging")
      BY Zenon, <1>1 DEF ApplyS
    <2>2. /\ kv.sapplied \in 0 .. N /\ sa.applied \in 0 .. N /\ N \in Nat /\ sp.sent \in 0 .. N
          /\ kv.sapplied <= sa.applied /\ sa.applied < sp.sent
      BY Zenon, <1>0, <2>1 DEF SNat, IInv, ApplyInv
    <2>3. i \in 1 .. N /\ i - 1 = sa.applied /\ sa.applied \in kv.sapplied .. sa.applied
      BY <2>2
    <2> HIDE DEF i
    <2>4. Pending[sa.applied] = kv.merge /\ (kv.s = "Merging" <=> kv.merge # 0)
      BY Zenon, <2>1, <2>3 DEF IInv, ApplyInv
    <2>5. h.s[i].k = "rollback" => Pending[sa.applied] = h.s[i].at /\ h.s[i].at # 0
      BY Zenon, <1>0, <2>3 DEF Logs
    <2>6. RollbackOk(h.s[i])
      BY Zenon, <2>4, <2>5 DEF RollbackOk
    <2> QED
      BY Zenon, <2>1, <2>6 DEF Check
  <1>2. CASE OnCatchUpLogs
    <2>1. Took("catch_up")
      BY Zenon, <1>2 DEF OnCatchUpLogs
    <2>2. sp.cul = 0
      BY ZenonT(60), <1>0, <2>1, KindsHead DEF IInv, TokenInv
    <2>3. MergeEntriesFit(Head(sbox).at)
      <3>1. Head(sbox).at \in SIdx
        BY Zenon, <1>0, <2>1, Mail DEF Took
      <3>2. /\ SIdx = 0 .. N /\ N \in Nat /\ sp.last \in 0 .. N /\ sdisk.last \in 0 .. N /\ low \in Nat
            /\ sdisk.last <= sp.last /\ low <= sdisk.last + 1
        BY Zenon, <1>0 DEF SNat, IInv, LogInv
      <3> QED
        BY SMTT(60), <3>1, <3>2 DEF MergeEntriesFit
    <2> QED
      BY Zenon, <1>2, <2>2, <2>3 DEF OnCatchUpLogs, Check
  <1>3. CASE OnReadyRollbackMerge
    <2>1. sp.merge = Head(sbox).at
      BY Zenon, <1>0, <1>3, RollbackHead DEF IInv, OnReadyRollbackMerge, Took
    <2> QED
      BY Zenon, <1>3, <2>1 DEF OnReadyRollbackMerge, Check
  <1>4. CASE OnMergeResultLog
    <2>1. "from_target_log" \in Kinds
      BY Zenon, <1>0, <1>4, KindsHead DEF OnMergeResultLog
    <2>2. /\ sp.delayed = "none" /\ Passed
          /\ \/ Removal = {"from_target_log"} /\ sp.merge = Commit
             \/ Removal = {"from_target_snapshot_step2"}
      BY Zenon, <2>1, LeavingStage
    <2>3. sp.merge = Commit
      BY <2>1, <2>2 DEF Removal
    <2>4. sp.merge # 0
      BY Zenon, <1>0, <2>2, <2>3 DEF Passed, Epochs
    <2> QED
      BY Zenon, <1>4, <2>2, <2>4 DEF OnMergeResultLog, DestroyPeer, Check
  <1>5. CASE OnMergeResultStep2
    <2>1. sp.delayed = "none"
      BY Zenon, <1>0, <1>5, KindsHead, LeavingStage DEF OnMergeResultStep2
    <2> QED
      BY Zenon, <1>5, <2>1 DEF OnMergeResultStep2, DestroyPeer, Check
  <1>6. CASE OnApplyDestroyed
    <2>1. sp.delayed = "none"
      BY Zenon, <1>0, <1>6, KindsHead, StaleStage DEF OnApplyDestroyed
    <2> QED
      BY Zenon, <1>6, <2>1 DEF OnApplyDestroyed, DestroyPeer, Check
  <1>7. CASE OnApplyDestroyedForSnapshot
    <2>1. meta.atomic = "wait"
      BY Zenon, <1>0, <1>7, KindsHead, StoppingStage DEF OnApplyDestroyedForSnapshot
    <2> QED
      BY Zenon, <1>7, <2>1 DEF OnApplyDestroyedForSnapshot, Check
  <1>8. CASE OnRaftLogGcFlushed
    <2>1. "flushed" \in Kinds
      BY Zenon, <1>0, <1>8, KindsHead DEF OnRaftLogGcFlushed
    <2>2. (sp.delayed = "merged" \/ meta.s) /\ meta.atomic = "none"
      BY Zenon, <2>1, FlushedStage DEF Quiet
    <2> QED
      BY Zenon, <1>8, <2>2 DEF OnRaftLogGcFlushed, Check
  <1>15. CASE OnRegionDestroyed
    <2>1. "flushed" \in Kinds
      BY Zenon, <1>0, <1>15, KindsHead DEF OnRegionDestroyed
    <2>2. meta.atomic = "none"
      BY Zenon, <2>1, FlushedStage DEF Quiet
    <2> QED
      BY Zenon, <1>15, <2>2 DEF OnRegionDestroyed, Check
  <1>9. CASE HandleDestroy
    <2>1. ~sa.stopped
      BY Zenon, <1>9, TaskStage DEF HandleDestroy, ApplyTaskS
    <2> QED
      BY Zenon, <1>9, <2>1 DEF HandleDestroy, Check
  <1>10. CASE ExecCommitMerge
    BY Zenon, <1>10, SourceMerging DEF ExecCommitMerge, Check
  <1>11. CASE OnApplyRes
    <2>1. Head(tbox) = Merge => meta.s /\ sp.up
      BY Zenon, <1>11, ResultStage, MergeStage DEF OnApplyRes
    <2> QED
      BY Zenon, <1>11, <2>1 DEF OnApplyRes, Check
  <1>12. CASE StepSnapshot
    BY Zenon, <1>12, CheckedStage DEF StepSnapshot, Check
  <1>13. CASE TakeSnapshot
    <2>1. meta.atomic = "ready" => meta.s
      <3>1. meta.atomic = "ready" => meta.atomic # "none"
        OBVIOUS
      <3> QED
        BY Zenon, <3>1, AtomicStage
    <2> QED
      BY Zenon, <1>13, <2>1 DEF TakeSnapshot, Check
  <1>14. CASE OnPersistSnapshot
    <2>1. Replacing
      BY Zenon, <1>14 DEF OnPersistSnapshot, Replacing
    <2>2. IF tp.inst.destroy THEN meta.s /\ sp.up /\ meta.atomic = "ready"
          ELSE TRegion[tp.inst.idx].covers => ~meta.s
      BY Zenon, <2>1, SnapshotStage DEF IInv, RangeInv, Covers
    <2> QED
      BY Zenon, <1>14, <2>2 DEF OnPersistSnapshot, Check
  <1> QED
    BY ZenonT(60), <1>1, <1>2, <1>3, <1>4, <1>5, <1>6, <1>7, <1>8, <1>9, <1>10, <1>11, <1>12, <1>13,
       <1>14, <1>15, WhoWrites DEF Writers
====
