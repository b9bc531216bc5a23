-------------------------- MODULE RegionMergeProofs --------------------------
EXTENDS RegionMergeSteps

\* T's delegate is at the merge: no snapshot is being installed, T has not passed S.
LEMMA Busy ==
  ASSUME IInv, ta.wait # "no" \/ Executed
  PROVE  /\ ~Installing /\ ~Passed /\ tp.sent # tp.applied /\ Merge # 0
         /\ ta.wait # "no" => ~Executed /\ ~Buried
PROOF
  <1>0. TNat /\ PositionInv
    BY Zenon, Numbers DEF IInv
  <1>n. /\ tp.applied \in Nat /\ ta.applied \in Nat /\ tp.sent \in Nat /\ Merge \in Nat
        /\ kv.tapplied \in Nat
    BY SMTT(60), <1>0 DEF TNat
  <1>1. ~Installing
    BY Zenon, <1>0 DEF PositionInv, Executed
  <1>2. tp.applied <= ta.applied /\ ta.applied <= tp.sent /\ kv.tapplied <= ta.applied
    BY <1>0, <1>1 DEF PositionInv, Installing
  <1>3. Known = tp.applied
    BY <1>1 DEF Known, Installing, Replacing
  <1>4. ta.wait # "no" => ta.applied + 1 = Merge /\ Merge <= tp.sent
    BY Zenon, <1>0 DEF PositionInv
  <1>5. CASE ta.wait # "no"
    <2>1. ta.applied + 1 = Merge /\ Merge <= tp.sent
      BY Zenon, <1>4, <1>5
    <2>2. Merge # 0 /\ ~ (tp.applied >= Merge) /\ tp.sent # tp.applied /\ ~ (Merge <= ta.applied)
          /\ ~ (kv.tapplied >= Merge)
      BY <1>n, <1>2, <2>1
    <2> QED
      BY Zenon, <1>1, <1>3, <2>2 DEF Passed, Executed, Buried
  <1>6. CASE Executed /\ ta.wait = "no"
    <2>1. Merge # 0 /\ tp.applied < Merge /\ Merge <= ta.applied
      BY Zenon, <1>6 DEF Executed
    <2>2. ~ (tp.applied >= Merge) /\ tp.sent # tp.applied
      BY SMTT(60), <1>n, <1>2, <2>1
    <2> QED
      BY Zenon, <1>1, <1>3, <1>6, <2>1, <2>2 DEF Passed
  <1> QED
    BY Zenon, <1>5, <1>6

\* While T waits for its source S is there and has not been stopped by others.
LEMMA WaitStage ==
  ASSUME IInv, ta.wait = "wait"
  PROVE  /\ sp.up /\ meta.s /\ sp.delayed = "none" /\ kv.s # "Tombstone"
         /\ Untouched \/ (CaughtUpFor /\ sp.cul = 0 /\ "catch_up" \notin Kinds)
PROOF
  <1>0. ta.wait # "no" /\ ta.wait # "ready"
    OBVIOUS
  <1>1. ~Installing /\ ~Passed /\ tp.sent # tp.applied /\ ~Executed /\ ~Buried
    BY Zenon, <1>0, Busy
  <1>2. ~Replacing
    BY <1>1 DEF Installing, Replacing
  <1> QED
    BY ZenonT(60), <1>0, <1>1, <1>2 DEF IInv, StageInv, CaughtUpFor, StoppedFor, Stale, Leaving, Gone

\* S stops for the CommitMerge only while T's delegate is at it.
LEMMA CaughtUpBusy ==
  ASSUME IInv, CaughtUpFor
  PROVE  (ta.wait # "no" \/ Executed) /\ ~Installing /\ ~Passed /\ tp.sent # tp.applied
PROOF
  <1>1. ta.wait # "no" \/ Executed
    BY DEF CaughtUpFor
  <1> QED
    BY Zenon, <1>1, Busy

\* The merge of T's CommitMerge is not rolled back once S's peer knows of it.
LEMMA MergeIsLast ==
  ASSUME IInv, Merge # 0, sp.merge = Commit, NEW k, Took(k)
  PROVE  k # "prepare" /\ k # "rollback"
PROOF
  <1>1. TypeOK /\ MailInv
    BY Zenon DEF IInv
  <1>2. sp.up /\ sbox # << >> /\ Head(sbox).k = k
    BY Zenon DEF Took
  <1>3. \A i \in 1 .. Len(sbox) : sbox[i].k \notin {"prepare", "rollback"}
    BY Zenon, <1>1, <1>2 DEF MailInv, Closed
  <1>4. sbox \in Seq(Message)
    BY Zenon, <1>1 DEF TypeOK
  <1>5. Head(sbox) = sbox[1] /\ 1 \in 1 .. Len(sbox)
    BY <1>2, <1>4
  <1> QED
    BY Zenon, <1>2, <1>3, <1>5

\* Once T has passed S without meeting it, T does not cover S's range any more.
LEMMA PassedRange ==
  ASSUME IInv, Passed, meta.s, NEW j \in TIdx, Known <= j
  PROVE  ~Covers(j)
PROOF
  <1>0. TypeOK /\ TNat /\ RangeInv /\ Known \in TIdx
    BY Zenon, Numbers, KnownTyped DEF IInv
  <1>1. Merge <= Known
    BY <1>0 DEF Passed, TNat
  <1>2. ~Covers(Known)
    BY Zenon, <1>0 DEF RangeInv
  <1> QED
    BY Zenon, <1>0, <1>1, <1>2, CoversBack

-----------------------------------------------------------------------------
(* A step that leaves S's stage alone. *)

CalmS ==
  /\ sp'.up = sp.up /\ sp'.delayed = sp.delayed /\ sp'.removing = sp.removing /\ meta'.s = meta.s
  /\ kv'.s = "Tombstone" <=> kv.s = "Tombstone"
  /\ sa'.tasks = sa.tasks /\ sa'.stopped = sa.stopped /\ Removal' = Removal
  /\ Quiet => Quiet'
  /\ sp.up /\ Merge # 0 /\ sp.merge = Commit => sp'.merge = sp.merge
  /\ ~sp.up /\ sbox = << >> => sbox' = << >>

CalmT ==
  /\ Untouched => ta'.wait # "ready" /\ ~Executed'
  /\ CaughtUpFor => /\ ta'.wait = ta.wait /\ (Executed => Executed') /\ (Buried' <=> Buried)
                    /\ sp.cul = 0 => sp'.cul = 0
                    /\ "catch_up" \in Kinds' => "catch_up" \in Kinds
                    /\ sa.stopped => sa'.applied = sa.applied
  /\ StoppedFor => /\ meta'.atomic = meta.atomic /\ tp'.checked.idx = tp.checked.idx
                   /\ tp'.snap = tp.snap /\ tp'.inst = tp.inst
                   /\ tp'.sent = tp.sent /\ tp'.applied = tp.applied

\* The stage of S survives a calm step.
LEMMA StageStays ==
  ASSUME IInv, [Next]_vars, CalmS, CalmT
  PROVE  StageInv'
PROOF
  <1>0. Merge' = Merge /\ Commit' = Commit /\ TRegion' = TRegion
    BY Zenon, Frozen
  <1>1. CASE sp.up /\ meta.s /\ sp.delayed = "none" /\ kv.s # "Tombstone" /\ Untouched
    <2>1. Untouched'
      BY Zenon, <1>1 DEF Untouched, CalmS, CalmT
    <2> QED
      BY Zenon, <1>1, <2>1 DEF StageInv, CalmS
  <1>2. CASE /\ sp.up /\ meta.s /\ sp.delayed = "none" /\ CaughtUpFor
             /\ kv.s = "Tombstone" <=> Buried
    <2>1. CaughtUpFor'
      BY Zenon, <1>0, <1>2 DEF CaughtUpFor, CalmS, CalmT
    <2>2. kv'.s = "Tombstone" <=> Buried'
      BY Zenon, <1>2 DEF CalmS, CalmT
    <2> QED
      BY Zenon, <1>2, <2>1, <2>2 DEF StageInv, CalmS
  <1>3. CASE /\ sp.up /\ meta.s /\ sp.delayed = "none" /\ StoppedFor
             /\ kv.s = "Tombstone" <=> tp.inst.phase = "persisted"
    <2>1. StoppedFor'
      BY ZenonT(60), <1>0, <1>3 DEF StoppedFor, Covers, Replacing, CalmS, CalmT
    <2> QED
      BY Zenon, <1>3, <2>1 DEF StageInv, CalmS, CalmT
  <1>4. CASE sp.up /\ meta.s /\ kv.s # "Tombstone" /\ Stale
    <2>1. Passed'
      BY Zenon, <1>4, PassedNext DEF Stale
    <2>2. Stale'
      BY Zenon, <1>4, <2>1 DEF Stale, CalmS
    <2> QED
      BY Zenon, <1>4, <2>2 DEF StageInv, CalmS
  <1>5. CASE sp.up /\ ~meta.s /\ kv.s = "Tombstone" /\ Leaving
    <2>1. Passed'
      BY Zenon, <1>5, PassedNext DEF Leaving
    <2>2. Leaving'
      BY Zenon, <1>0, <1>5, <2>1 DEF Leaving, CalmS, Passed
    <2> QED
      BY Zenon, <1>5, <2>2 DEF StageInv, CalmS
  <1>6. CASE ~meta.s /\ kv.s = "Tombstone" /\ Gone
    <2>1. Passed'
      BY Zenon, <1>6, PassedNext DEF Gone
    <2>2. Gone'
      BY Zenon, <1>6, <2>1 DEF Gone, CalmS
    <2> QED
      BY Zenon, <1>6, <2>2 DEF StageInv, CalmS
  <1> QED
    BY ZenonT(60), <1>1, <1>2, <1>3, <1>4, <1>5, <1>6 DEF IInv, StageInv

\* A step of S's peer or delegate leaves T's side of the stage alone.
LEMMA SourceCalm ==
  ASSUME IInv, [Next]_vars, CalmS, tp' = tp, ta' = ta, meta'.atomic = meta.atomic,
         kv'.tapplied = kv.tapplied, ~WaitMergeSource,
         CaughtUpFor /\ sp.cul = 0 => sp'.cul = 0,
         CaughtUpFor /\ sa.stopped => sa'.applied = sa.applied
  PROVE  StageInv'
PROOF
  <1>0. Merge' = Merge
    BY Zenon, Frozen
  <1>1. "catch_up" \in Kinds' => "catch_up" \in Kinds
    BY WhoPosts DEF Posts
  <1>2. (Executed' <=> Executed) /\ (Buried' <=> Buried)
    BY Zenon, <1>0 DEF Executed, Buried, Installing
  <1>3. CalmT
    BY Zenon, <1>1, <1>2 DEF CalmT, Untouched
  <1> QED
    BY Zenon, <1>3, StageStays

\* A step of T that says nothing to S leaves S's side of the stage alone.
LEMMA TargetCalm ==
  ASSUME IInv, [Next]_vars, sp' = sp, sa' = sa, sbox' = sbox, meta'.s = meta.s,
         kv'.s = "Tombstone" <=> kv.s = "Tombstone", Quiet => Quiet', CalmT
  PROVE  StageInv'
PROOF
  <1>1. Removal' = Removal
    BY Zenon DEF Removal, Kinds
  <1>2. CalmS
    BY Zenon, <1>1 DEF CalmS
  <1> QED
    BY Zenon, <1>2, StageStays

\* A message of the merge's preparation is no part of S's removal.
LEMMA RemovalSame ==
  ASSUME Kinds' \subseteq Kinds \cup {"prepare", "rollback", "catch_up"},
         Kinds \subseteq Kinds' \cup {"prepare", "rollback", "catch_up"}
  PROVE  Removal' = Removal
PROOF
  BY Zenon DEF Removal

\* S's peer takes a message of the merge's preparation off its mailbox.
LEMMA RemovalTook ==
  ASSUME IInv, NEW k \in {"prepare", "rollback", "catch_up"}, Took(k), sbox' = Tail(sbox)
  PROVE  Removal' = Removal /\ sp.up
PROOF
  <1>1. Kinds = Kinds' \cup {k} /\ sp.up
    BY Zenon, KindsTook
  <1> QED
    BY Zenon, <1>1, RemovalSame

\* S's peer takes a message of its own removal off its mailbox.
LEMMA RemovalTakes ==
  ASSUME IInv, NEW k \in Once \ {"catch_up"}, Took(k), sbox' = Tail(sbox)
  PROVE  Removal' = Removal \ {k} /\ k \in Kinds
PROOF
  <1>1. Kinds' = Kinds \ {k} /\ k \in Kinds
    BY Zenon, KindsTook
  <1> QED
    BY Zenon, <1>1 DEF Removal

\* S's log and its application leave the stage alone.
LEMMA StageRaft ==
  ASSUME IInv, [Next]_vars, AppendS \/ ReadyS \/ ApplyS \/ WriteS \/ OnReadyRollbackMerge
  PROVE  StageInv'
PROOF
  <1> USE DEF source, target, store
  <1>0. TypeOK /\ ApplyInv
    BY Zenon DEF IInv
  <1>w. ASSUME WaitMergeSource, ta' = ta PROVE FALSE
    <2>1. ta'.wait = "wait" /\ ta.wait = "no"
      BY Zenon, <1>0, <1>w DEF WaitMergeSource, TypeOK, TApply
    <2> QED
      BY <1>w, <2>1
  <1>1. CASE AppendS \/ ReadyS
    <2>1. /\ sp'.up = sp.up /\ sp'.delayed = sp.delayed /\ sp'.removing = sp.removing
          /\ sp'.merge = sp.merge /\ sp'.cul = sp.cul
      <3>1. CASE AppendS
        BY Zenon, <1>0, <3>1 DEF AppendS, TypeOK, SPeer
      <3>2. CASE ReadyS
        BY Zenon, <1>0, <3>2 DEF ReadyS, TypeOK, SPeer
      <3> QED
        BY <1>1, <3>1, <3>2
    <2>2. sbox' = sbox /\ sa' = sa /\ meta' = meta /\ kv' = kv /\ tp' = tp /\ ta' = ta
      BY Zenon, <1>1 DEF AppendS, ReadyS
    <2>3. CalmS
      BY Zenon, <2>1, <2>2 DEF CalmS, Removal, Kinds, Quiet, Replacing
    <2> QED
      BY Zenon, <1>w, <2>1, <2>2, <2>3, SourceCalm
  <1>2. CASE ApplyS
    <2>1. /\ sa'.tasks = sa.tasks /\ sa'.stopped = sa.stopped /\ ~sa.stopped
      BY Zenon, <1>0, <1>2 DEF ApplyS, TypeOK, SApply
    <2>2. sbox' = sbox /\ sp' = sp /\ meta' = meta /\ kv' = kv /\ tp' = tp /\ ta' = ta
      BY Zenon, <1>2 DEF ApplyS
    <2>3. CalmS
      BY Zenon, <2>1, <2>2 DEF CalmS, Removal, Kinds, Quiet, Replacing
    <2> QED
      BY Zenon, <1>w, <2>1, <2>2, <2>3, SourceCalm
  <1>3. CASE WriteS
    <2>1. /\ sa'.tasks = sa.tasks /\ sa'.stopped = sa.stopped /\ sa'.applied = sa.applied /\ sa.write
          /\ kv'.tapplied = kv.tapplied /\ kv'.s \in {"Merging", "Normal"}
      BY Zenon, <1>0, <1>3 DEF WriteS, TypeOK, SApply, Kv
    <2>2. sp' = sp /\ meta' = meta /\ tp' = tp /\ ta' = ta
      BY Zenon, <1>3 DEF WriteS
    <2>3. kv.s # "Tombstone" /\ kv'.s # "Tombstone"
      <3>1. kv.s # "Tombstone"
        BY Zenon, <1>0, <2>1 DEF ApplyInv
      <3> QED
        BY <2>1, <3>1
    <2>4. Removal' = Removal
      <3>1. CASE sbox' = sbox
        BY Zenon, <3>1 DEF Removal, Kinds
      <3>2. ASSUME NEW m \in Message, m.k \in {"prepare", "rollback"}, sbox' = Append(sbox, m)
            PROVE  Removal' = Removal
        <4>1. Kinds' = Kinds \cup {m.k}
          BY Zenon, <1>0, <3>2, KindsAppend
        <4> QED
          BY Zenon, <3>2, <4>1, RemovalSame
      <3> QED
        BY Zenon, <1>3, <3>1, <3>2, ResultSent
    <2>5. ~sp.up => sbox' = sbox
      BY Zenon, <1>3 DEF WriteS, ToSource
    <2>6. CalmS
      BY Zenon, <2>1, <2>2, <2>3, <2>4, <2>5 DEF CalmS, Quiet, Replacing
    <2> QED
      BY Zenon, <1>w, <2>1, <2>2, <2>6, SourceCalm
  <1>4. CASE OnReadyRollbackMerge
    <2>1. /\ sp'.up = sp.up /\ sp'.delayed = sp.delayed /\ sp'.removing = sp.removing
          /\ sp'.cul = sp.cul /\ Took("rollback") /\ sbox' = Tail(sbox)
      BY Zenon, <1>0, <1>4 DEF OnReadyRollbackMerge, TypeOK, SPeer
    <2>2. sa' = sa /\ meta' = meta /\ kv' = kv /\ tp' = tp /\ ta' = ta
      BY Zenon, <1>4 DEF OnReadyRollbackMerge
    <2>3. Removal' = Removal /\ sp.up
      BY Zenon, <2>1, RemovalTook
    <2>4. ~ (Merge # 0 /\ sp.merge = Commit)
      BY Zenon, <2>1, MergeIsLast
    <2>5. CalmS
      BY Zenon, <2>1, <2>2, <2>3, <2>4 DEF CalmS, Quiet, Replacing
    <2> QED
      BY Zenon, <1>w, <2>1, <2>2, <2>5, SourceCalm
  <1> QED
    BY SMTT(60), <1>1, <1>2, <1>3, <1>4

\* S stops for the CommitMerge of T.
LEMMA StageCatchUp ==
  ASSUME IInv, [Next]_vars, OnCatchUpLogs \/ OnReadyPrepareMerge
  PROVE  StageInv'
PROOF
  <1> USE DEF source, target, store
  <1>0. TypeOK /\ TokenInv /\ MailInv /\ Epochs
    BY Zenon, EpochFacts DEF IInv
  <1>m. Merge' = Merge /\ Commit' = Commit
    BY Zenon, Frozen
  <1>w. ASSUME WaitMergeSource, ta' = ta PROVE FALSE
    <2>1. ta'.wait = "wait" /\ ta.wait = "no"
      BY Zenon, <1>0, <1>w DEF WaitMergeSource, TypeOK, TApply
    <2> QED
      BY <1>w, <2>1
  <1>1. /\ sbox' = Tail(sbox) /\ meta' = meta /\ kv' = kv /\ tp' = tp /\ ta' = ta
    BY Zenon DEF OnCatchUpLogs, OnReadyPrepareMerge
  <1>2. PICK k \in {"prepare", "catch_up"} : Took(k) /\ (OnCatchUpLogs => k = "catch_up")
    BY Zenon DEF OnCatchUpLogs, OnReadyPrepareMerge
  <1>3. Removal' = Removal /\ sp.up /\ k \in Kinds /\ Kinds' \subseteq Kinds
    BY Zenon, <1>1, <1>2, RemovalTook, KindsTook
  \* The step to CaughtUpFor.
  <1>4. ASSUME ta.wait = "wait", sp'.merge = Commit, sp'.removing, sp'.cul = 0,
               sp'.up = sp.up, sp'.delayed = sp.delayed,
               sa' = [sa EXCEPT !.tasks = Append(@, "logs_up_to_date")],
               "catch_up" \notin Kinds', Untouched
        PROVE  StageInv'
    <2>1. /\ meta.s /\ sp.delayed = "none" /\ kv.s # "Tombstone"
      BY Zenon, <1>4, WaitStage
    <2>2. Merge # 0 /\ ~Buried
      <3>1. ta.wait # "no"
        BY <1>4
      <3> QED
        BY Zenon, <3>1, Busy
    <2>3. sa.tasks = << >> /\ ~sa.stopped /\ Removal = {} /\ Quiet
      BY Zenon, <1>4 DEF Untouched
    <2>4. /\ sa'.tasks = Append(sa.tasks, "logs_up_to_date") /\ sa'.stopped = sa.stopped
      BY Zenon, <1>0, <1>4 DEF TypeOK, SApply
    <2>5. sa'.tasks = << "logs_up_to_date" >>
      BY SMTT(60), <2>3, <2>4
    <2>6. Quiet' /\ ~Buried' /\ ta'.wait = "wait"
      BY ZenonT(60), <1>1, <1>4, <1>m, <2>2, <2>3 DEF Quiet, Replacing, Buried
    <2>7. CaughtUpFor'
      BY ZenonT(60), <1>3, <1>4, <1>m, <2>2, <2>3, <2>4, <2>5, <2>6 DEF CaughtUpFor
    <2> QED
      BY ZenonT(60), <1>1, <1>3, <1>4, <2>1, <2>6, <2>7 DEF StageInv
  <1>5. CASE OnCatchUpLogs
    <2>1. Took("catch_up") /\ "catch_up" \in Once
      BY Zenon, <1>5 DEF OnCatchUpLogs, Once, Messages
    <2>2. "catch_up" \in Kinds /\ "catch_up" \notin Kinds' /\ ta.wait = "wait" /\ Untouched
      BY ZenonT(60), <1>0, <1>1, <2>1, KindsTook, WaitStage DEF TokenInv
    <2>3. Head(sbox).at = Commit /\ Head(sbox).at \in SIdx
      <3>1. sbox \in Seq(Message) /\ sbox # << >> /\ Head(sbox).k = "catch_up"
        BY Zenon, <1>0, <2>1 DEF TypeOK, Took
      <3>2. Head(sbox) = sbox[1] /\ 1 \in 1 .. Len(sbox)
        BY <3>1
      <3> QED
        BY ZenonT(60), <1>0, <3>1, <3>2, Mail DEF MailInv, BoxOK
    <2>4. CASE CaughtUp(Head(sbox).at)
      <3>1. sp' = [sp EXCEPT !.removing = TRUE, !.cul = 0]
            /\ sa' = [sa EXCEPT !.tasks = Append(@, "logs_up_to_date")]
        BY Zenon, <1>5, <2>4 DEF OnCatchUpLogs, StopFor, ScheduleS
      <3>2. /\ sp'.merge = sp.merge /\ sp'.removing /\ sp'.cul = 0 /\ sp'.up = sp.up
            /\ sp'.delayed = sp.delayed
        BY Zenon, <1>0, <3>1 DEF TypeOK, SPeer
      <3>3. sp.merge = Commit
        BY Zenon, <2>3, <2>4 DEF CaughtUp
      <3> QED
        BY ZenonT(60), <1>4, <2>2, <3>1, <3>2, <3>3
    <2>5. CASE ~CaughtUp(Head(sbox).at)
      <3>1. /\ sp' = [MaybeAppendMergeEntries(Head(sbox).at) EXCEPT !.cul = Head(sbox).at]
            /\ sa' = sa
        BY Zenon, <1>5, <2>5 DEF OnCatchUpLogs
      <3>2. /\ sp'.up = sp.up /\ sp'.merge = sp.merge /\ sp'.removing = sp.removing
            /\ sp'.delayed = sp.delayed
        BY Zenon, <1>0, <2>3, <3>1, AppendedEntries DEF SPeer
      <3>3. CalmS
        BY Zenon, <1>1, <1>3, <3>1, <3>2 DEF CalmS, Quiet, Replacing
      <3>4. ~CaughtUpFor
        <4>1. ta.wait # "ready" /\ ~Executed
          BY Zenon, <2>2 DEF Untouched
        <4> QED
          BY Zenon, <2>2, <4>1 DEF CaughtUpFor
      <3> QED
        BY ZenonT(60), <1>w, <1>1, <3>1, <3>3, <3>4, SourceCalm
    <2> QED
      BY SMTT(60), <2>4, <2>5
  <1>6. CASE OnReadyPrepareMerge
    <2>1. Took("prepare") /\ Head(sbox).k = "prepare"
      BY Zenon, <1>6 DEF OnReadyPrepareMerge, Took
    <2>2. Head(sbox).at # 0 /\ Head(sbox).at \in SIdx
      <3>1. sbox \in Seq(Message) /\ sbox # << >>
        BY Zenon, <1>0, <2>1 DEF TypeOK, Took
      <3>2. Head(sbox) = sbox[1] /\ 1 \in 1 .. Len(sbox)
        BY <3>1
      <3> QED
        BY ZenonT(60), <1>0, <2>1, <3>1, <3>2, Mail DEF MailInv, BoxOK
    <2>3. CASE sp.cul = Head(sbox).at
      <3>1. /\ sp' = [sp EXCEPT !.merge = Head(sbox).at, !.removing = TRUE, !.cul = 0]
            /\ sa' = [sa EXCEPT !.tasks = Append(@, "logs_up_to_date")]
        BY Zenon, <1>6, <2>3 DEF OnReadyPrepareMerge, ScheduleS
      <3>2. /\ sp'.merge = Head(sbox).at /\ sp'.removing /\ sp'.cul = 0 /\ sp'.up = sp.up
            /\ sp'.delayed = sp.delayed
        BY Zenon, <1>0, <3>1 DEF TypeOK, SPeer
      <3>3. /\ sp.cul # 0 /\ sp.cul = Commit /\ ta.wait = "wait" /\ "catch_up" \notin Kinds
        BY Zenon, <1>0, <2>2, <2>3 DEF TokenInv
      <3>4. Untouched
        BY Zenon, <3>3, WaitStage
      <3> QED
        BY ZenonT(60), <1>3, <1>4, <2>3, <3>1, <3>2, <3>3, <3>4
    <2>4. CASE sp.cul # Head(sbox).at
      <3>1. sp' = [sp EXCEPT !.merge = Head(sbox).at] /\ sa' = sa
        BY Zenon, <1>6, <2>4 DEF OnReadyPrepareMerge
      <3>2. /\ sp'.up = sp.up /\ sp'.cul = sp.cul /\ sp'.removing = sp.removing
            /\ sp'.delayed = sp.delayed
        BY Zenon, <1>0, <3>1 DEF TypeOK, SPeer
      <3>3. ~ (Merge # 0 /\ sp.merge = Commit)
        BY Zenon, <2>1, MergeIsLast
      <3>4. CalmS
        BY ZenonT(60), <1>1, <1>3, <3>1, <3>2, <3>3 DEF CalmS, Quiet, Replacing
      <3> QED
        BY ZenonT(60), <1>w, <1>1, <3>1, <3>2, <3>4, SourceCalm
    <2> QED
      BY <2>3, <2>4
  <1> QED
    BY <1>5, <1>6

\* S is told that it was merged, or that its delegate is gone, and starts its own removal.
LEMMA StageDestroy ==
  ASSUME IInv, [Next]_vars, OnMergeResultLog \/ OnMergeResultStep2 \/ OnApplyDestroyed
  PROVE  StageInv'
PROOF
  <1> USE DEF source, target, store
  <1>0. TypeOK
    BY Zenon DEF IInv
  <1>1. sbox' = Tail(sbox) /\ sa' = sa /\ meta' = meta /\ kv' = kv /\ tp' = tp
    BY Zenon DEF OnMergeResultLog, OnMergeResultStep2, OnApplyDestroyed
  <1>2. CASE OnMergeResultLog \/ OnMergeResultStep2
    <2>1. sp' = [sp EXCEPT !.removing = TRUE, !.delayed = "merged"]
      BY Zenon, <1>2 DEF OnMergeResultLog, OnMergeResultStep2, DestroyPeer
    <2>2. sp'.removing /\ sp'.delayed = "merged" /\ sp'.up = sp.up
      BY Zenon, <1>0, <2>1 DEF TypeOK, SPeer
    <2>3. PICK k \in {"from_target_log", "from_target_snapshot_step2"} : Took(k)
      BY Zenon, <1>2 DEF OnMergeResultLog, OnMergeResultStep2
    <2>4. k \in Once \ {"catch_up"}
      BY <2>3 DEF Once, Messages
    <2>5. Removal' = Removal \ {k} /\ k \in Kinds
      BY Zenon, <1>1, <2>3, <2>4, RemovalTakes
    <2>6. /\ sp.up /\ ~meta.s /\ sp.delayed = "none" /\ kv.s = "Tombstone"
          /\ Passed /\ Quiet /\ sp.removing /\ sa.tasks = << >> /\ sa.stopped
          /\ Removal = {"from_target_log"} \/ Removal = {"from_target_snapshot_step2"}
      <3>1. "from_target_log" \in Kinds \/ "from_target_snapshot_step2" \in Kinds
        BY Zenon, <2>3, <2>5
      <3> QED
        BY Zenon, <3>1, LeavingStage
    <2>7. Removal' \subseteq {"flushed"}
      <3>1. k \in Removal
        BY <2>3, <2>5 DEF Removal
      <3> QED
        BY SMTT(60), <2>5, <2>6, <3>1
    <2>8. Passed' /\ Quiet'
      BY Zenon, <1>1, <2>6, PassedNext DEF Quiet, Replacing
    <2>9. Leaving'
      BY Zenon, <1>1, <2>2, <2>6, <2>7, <2>8 DEF Leaving
    <2> QED
      BY ZenonT(60), <1>1, <2>2, <2>6, <2>9 DEF StageInv
  <1>3. CASE OnApplyDestroyed
    <2>1. sp' = [sp EXCEPT !.removing = TRUE, !.delayed = "stale"]
      BY Zenon, <1>3 DEF OnApplyDestroyed, DestroyPeer
    <2>2. sp'.removing /\ sp'.delayed = "stale" /\ sp'.up = sp.up
      BY Zenon, <1>0, <2>1 DEF TypeOK, SPeer
    <2>3. Took("destroyed") /\ "destroyed" \in Once \ {"catch_up"}
      BY <1>3 DEF OnApplyDestroyed, Once, Messages
    <2>5. Removal' = Removal \ {"destroyed"} /\ "destroyed" \in Kinds
      BY Zenon, <1>1, <2>3, RemovalTakes
    <2>6. /\ sp.up /\ meta.s /\ sp.delayed = "none" /\ kv.s # "Tombstone"
          /\ Passed /\ Quiet /\ sp.removing /\ sa.tasks = << >> /\ sa.stopped
          /\ Removal = {"destroyed"}
      BY Zenon, <2>5, StaleStage
    <2>7. Removal' \subseteq {"flushed"}
      BY <2>5, <2>6
    <2>8. Passed' /\ Quiet'
      BY Zenon, <1>1, <2>6, PassedNext DEF Quiet, Replacing
    <2>9. Stale'
      BY ZenonT(60), <1>1, <2>2, <2>6, <2>7, <2>8 DEF Stale
    <2> QED
      BY Zenon, <1>1, <2>2, <2>6, <2>9 DEF StageInv
  <1> QED
    BY <1>2, <1>3

\* The raft log of S is deleted after the destruction was decided, and then S.
LEMMA StageFlushed ==
  ASSUME IInv, [Next]_vars, RaftLogGcFlushed \/ OnRegionDestroyed \/ OnRaftLogGcFlushed
  PROVE  StageInv'
PROOF
  <1> USE DEF source, target, store
  <1>0. TypeOK /\ 0 \in SIdx
    BY LogFacts DEF IInv, Logs
  <1>1. CASE RaftLogGcFlushed
    <2>1. /\ sp' = sp /\ sa' = sa /\ meta' = meta /\ kv' = kv /\ tp' = tp
          /\ sp.up /\ sp.delayed # "none" /\ ToSource([k |-> "flushed", at |-> 0])
      BY Zenon, <1>1 DEF RaftLogGcFlushed
    <2>2. "flushed" \in Messages
      BY DEF Messages
    <2>3. Kinds' = Kinds \cup {"flushed"}
      BY Zenon, <1>0, <2>1, <2>2, KindsSent
    <2>4. Removal' = Removal \cup {"flushed"}
      BY <2>3 DEF Removal
    <2>5. \/ sp.up /\ meta.s /\ kv.s # "Tombstone" /\ Stale
          \/ sp.up /\ ~meta.s /\ kv.s = "Tombstone" /\ Leaving
      BY Zenon, <2>1 DEF IInv, StageInv, Gone
    <2>6. Passed => Passed' /\ (Quiet => Quiet')
      BY Zenon, <2>1, PassedNext DEF Quiet, Replacing
    <2>7. Removal \subseteq {"flushed"} => Removal' \subseteq {"flushed"}
      BY <2>4
    <2>8. Stale => Stale'
      BY Zenon, <2>1, <2>6, <2>7 DEF Stale
    <2>9. Leaving => Leaving'
      BY Zenon, <2>1, <2>6, <2>7 DEF Leaving
    <2> QED
      BY Zenon, <2>1, <2>5, <2>8, <2>9 DEF StageInv
  <1>2. CASE OnRaftLogGcFlushed
    <2>1. Took("flushed") /\ sbox' = << >> /\ sa' = sa /\ tp' = tp
      BY Zenon, <1>2 DEF OnRaftLogGcFlushed
    <2>2. ~sp'.up /\ kv'.s = "Tombstone" /\ ~meta'.s /\ meta'.atomic = meta.atomic
      BY Zenon, <1>0, <1>2 DEF OnRaftLogGcFlushed, TypeOK, SPeer, Kv, Meta
    <2>3. "flushed" \in Kinds
      BY Zenon, <1>0, <2>1, KindsHead
    <2>4. Passed /\ Quiet /\ sa.tasks = << >> /\ sa.stopped
      BY Zenon, <2>3, FlushedStage
    <2>5. Passed' /\ Quiet'
      BY Zenon, <2>1, <2>2, <2>4, PassedNext DEF Quiet, Replacing
    <2>6. Gone'
      BY Zenon, <2>1, <2>2, <2>4, <2>5 DEF Gone
    <2> QED
      BY Zenon, <2>2, <2>6 DEF StageInv
  <1>3. CASE OnRegionDestroyed
    <2>1. /\ sp' = sp /\ sa' = sa /\ sbox' = sbox /\ meta' = meta /\ kv' = kv /\ tp' = tp
          /\ ta' = ta
      BY Zenon, <1>3 DEF OnRegionDestroyed
    <2>2. CalmS
      BY Zenon, <2>1 DEF CalmS, Removal, Kinds, Quiet, Replacing
    <2>3. ~WaitMergeSource
      <3>1. ASSUME WaitMergeSource PROVE ta'.wait = "wait" /\ ta.wait = "no"
        BY Zenon, <1>0, <3>1 DEF WaitMergeSource, TypeOK, TApply
      <3> QED
        BY <2>1, <3>1
    <2> QED
      BY Zenon, <2>1, <2>2, <2>3, SourceCalm
  <1> QED
    BY SMTT(60), <1>1, <1>2, <1>3

\* S's delegate goes in favour of T's snapshot.
LEMMA StageStep1 ==
  ASSUME IInv, [Next]_vars, OnMergeResultStep1 \/ OnApplyDestroyedForSnapshot
  PROVE  StageInv'
PROOF
  <1> USE DEF source, target, store
  <1>0. TypeOK /\ TRegion' = TRegion
    BY Zenon, Frozen DEF IInv
  <1>1. sbox' = Tail(sbox) /\ kv' = kv /\ tp' = tp
    BY Zenon DEF OnMergeResultStep1, OnApplyDestroyedForSnapshot
  <1>2. PICK k \in {"from_target_snapshot_step1", "destroyed_for_snapshot"} :
          Took(k) /\ (OnMergeResultStep1 => k = "from_target_snapshot_step1")
          /\ (OnApplyDestroyedForSnapshot => k = "destroyed_for_snapshot")
    <2>1. CASE OnMergeResultStep1
      <3>1. Took("from_target_snapshot_step1")
        BY Zenon, <2>1 DEF OnMergeResultStep1
      <3>2. ~OnApplyDestroyedForSnapshot
        BY Zenon, <3>1 DEF OnApplyDestroyedForSnapshot, Took
      <3> QED
        BY <3>1, <3>2
    <2>2. CASE OnApplyDestroyedForSnapshot
      <3>1. Took("destroyed_for_snapshot")
        BY Zenon, <2>2 DEF OnApplyDestroyedForSnapshot
      <3>2. ~OnMergeResultStep1
        BY <3>1 DEF OnMergeResultStep1, Took
      <3> QED
        BY <3>1, <3>2
    <2> QED
      BY <2>1, <2>2
  <1>3. k \in Once \ {"catch_up"}
    BY <1>2 DEF Once, Messages
  <1>4. Removal' = Removal \ {k} /\ k \in Kinds
    BY Zenon, <1>1, <1>2, <1>3, RemovalTakes
  <1>5. /\ sp.up /\ meta.s /\ sp.delayed = "none" /\ StoppedFor /\ meta.atomic = "wait"
        /\ tp.checked.idx = 0 /\ tp.snap # 0 /\ Covers(tp.snap) /\ tp.inst = NoSnap
        /\ tp.sent = tp.applied /\ sa.tasks = << >>
        /\ kv.s # "Tombstone"
        /\ \/ /\ Removal = {"from_target_snapshot_step1"} /\ ~sp.removing /\ ~sa.stopped
           \/ /\ Removal = {"destroyed_for_snapshot"} /\ sp.removing /\ sa.stopped
    <2>1. "from_target_snapshot_step1" \in Kinds \/ "destroyed_for_snapshot" \in Kinds
      BY Zenon, <1>2, <1>4
    <2> QED
      BY Zenon, <2>1, StoppingStage
  <1>6. k \in Removal
    BY SMTT(60), <1>2, <1>4 DEF Removal
  <1>7. Removal' = {} /\ Removal = {k}
    BY SMTT(60), <1>4, <1>5, <1>6
  <1>8. /\ k = "from_target_snapshot_step1" => ~sp.removing /\ ~sa.stopped
        /\ k = "destroyed_for_snapshot" => sp.removing /\ sa.stopped
    <2>1. \A a, b : {a} = {b} => a = b
      BY Zenon
    <2>2. "from_target_snapshot_step1" # "destroyed_for_snapshot"
      OBVIOUS
    <2> QED
      BY Zenon, <1>5, <1>7, <2>1, <2>2
  <1>9. tp.inst.phase # "persisted" /\ tp'.inst.phase # "persisted"
    BY SMTT(60), <1>1, <1>5 DEF NoSnap
  <1>10. /\ tp'.checked.idx = 0 /\ tp'.snap # 0 /\ Covers(tp.snap)' /\ tp'.inst = NoSnap
         /\ tp'.sent = tp'.applied /\ kv'.s # "Tombstone"
    BY Zenon, <1>0, <1>1, <1>5 DEF Covers
  <1>11. CASE OnMergeResultStep1
    <2>1. sp'.removing /\ sp'.up = sp.up /\ sp'.delayed = sp.delayed /\ meta' = meta
      BY Zenon, <1>0, <1>11 DEF OnMergeResultStep1, TypeOK, SPeer
    <2>2. sa' = [sa EXCEPT !.tasks = Append(@, "destroy_for_snapshot")]
      BY Zenon, <1>11 DEF OnMergeResultStep1, ScheduleS
    <2>3. sa'.tasks = Append(sa.tasks, "destroy_for_snapshot") /\ sa'.stopped = sa.stopped
      BY ZenonT(60), <1>0, <2>2 DEF TypeOK, SApply
    <2>4. sa'.tasks = << "destroy_for_snapshot" >> /\ ~sa'.stopped
      BY SMTT(60), <1>2, <1>5, <1>8, <1>11, <2>3
    <2>5. StoppedFor'
      BY ZenonT(60), <1>5, <1>7, <1>10, <2>1, <2>4 DEF StoppedFor
    <2> QED
      BY ZenonT(60), <1>5, <1>9, <1>10, <2>1, <2>5 DEF StageInv
  <1>12. CASE OnApplyDestroyedForSnapshot
    <2>1. meta'.atomic = "ready" /\ meta'.s = meta.s /\ sp' = sp /\ sa' = sa
      BY Zenon, <1>0, <1>12 DEF OnApplyDestroyedForSnapshot, TypeOK, Meta
    <2>2. sp.removing /\ sa.stopped
      BY SMTT(60), <1>2, <1>8, <1>12
    <2>5. StoppedFor'
      BY ZenonT(60), <1>5, <1>7, <1>10, <2>1, <2>2 DEF StoppedFor
    <2> QED
      BY ZenonT(60), <1>5, <1>9, <1>10, <2>1, <2>5 DEF StageInv
  <1> QED
    BY SMTT(60), <1>11, <1>12

\* T's version has moved past the merge: T has passed S.
LEMMA GcPassed ==
  ASSUME IInv, Merge # 0, NeedGcMerge
  PROVE  Passed
PROOF
  <1>0. TypeOK /\ TNat /\ Epochs /\ VersionInv /\ Known \in TIdx
    BY Zenon, Numbers, EpochFacts, KnownTyped DEF IInv
  <1>1. meta.tver = TRegion[Known].ver /\ TargetVer = TRegion[Merge - 1].ver
    BY Zenon, <1>0 DEF VersionInv, Epochs
  <1>2. Merge \in 0 .. L /\ Known \in 0 .. L /\ L \in Nat /\ TIdx = 0 .. L
    BY <1>0 DEF TNat
  <1>3. Merge - 1 \in TIdx
    BY <1>2
  <1>4. TRegion[Known].ver \in Nat /\ TRegion[Merge - 1].ver \in Nat
    BY Zenon, <1>0, <1>3 DEF Epochs
  <1>5. Known <= Merge - 1 => TRegion[Known].ver <= TRegion[Merge - 1].ver
    BY Zenon, <1>0, <1>3 DEF Epochs
  <1>6. ~ (Known <= Merge - 1)
    BY SMTT(60), <1>1, <1>4, <1>5 DEF NeedGcMerge
  <1> QED
    BY <1>2, <1>6 DEF Passed

\* A message that names the merge target finds S stale, or leaves it alone.
LEMMA StageTarget ==
  ASSUME IInv, [Next]_vars, OnMergeTarget
  PROVE  StageInv'
PROOF
  <1> USE DEF source, target, store
  <1>0. TypeOK /\ TNat /\ DiskInv
    BY Zenon, Numbers DEF IInv
  <1>1. /\ sp.up /\ ~sp.removing /\ Merge # 0 /\ sbox' = sbox /\ tp' = tp /\ ta' = ta /\ kv' = kv
        /\ meta'.s = meta.s /\ meta'.atomic = meta.atomic
    BY Zenon, <1>0 DEF OnMergeTarget, TypeOK, Meta
  <1>2. CASE ~NeedGcMerge
    <2>1. sp' = sp /\ sa' = sa
      BY Zenon, <1>2 DEF OnMergeTarget
    <2>2. CalmS
      BY Zenon, <1>1, <2>1 DEF CalmS, Removal, Kinds, Quiet, Replacing
    <2>3. ASSUME WaitMergeSource PROVE FALSE
      <3>1. ta'.wait = "wait" /\ ta.wait = "no"
        BY Zenon, <1>0, <2>3 DEF WaitMergeSource, TypeOK, TApply
      <3> QED
        BY SMTT(60), <1>1, <3>1
    <2> QED
      BY ZenonT(60), <1>1, <2>1, <2>2, <2>3, SourceCalm
  <1>3. CASE NeedGcMerge
    <2>1. Passed /\ Passed'
      BY Zenon, <1>1, <1>3, GcPassed, PassedNext
    <2>2. ~ (meta.s /\ StoppedFor)
      <3> SUFFICES ASSUME meta.s, StoppedFor PROVE FALSE
        OBVIOUS
      <3>1. tp.snap # 0 /\ Covers(tp.snap) /\ tp.inst = NoSnap /\ tp.sent = tp.applied
        BY Zenon, <1>1 DEF StoppedFor
      <3>2. Known = tp.sent
        BY <3>1 DEF Known, Replacing, NoSnap
      <3>3. tp.sent <= tdisk.commit /\ tdisk.commit <= tp.snap
        BY Zenon, <1>0, <3>1 DEF DiskInv
      <3>4. Known <= tp.snap /\ tp.snap \in TIdx
        BY SMTT(60), <1>0, <3>2, <3>3 DEF TNat
      <3> QED
        BY Zenon, <2>1, <3>1, <3>4, PassedRange
    <2>3. meta.s /\ sp.delayed = "none" /\ kv.s # "Tombstone" /\ Untouched
      BY ZenonT(60), <1>1, <2>2 DEF IInv, StageInv, CaughtUpFor, Stale, Leaving, Gone
    <2>4. /\ sp' = [sp EXCEPT !.removing = TRUE, !.cul = 0]
          /\ sa' = [sa EXCEPT !.tasks = Append(@, "destroy")]
      BY Zenon, <1>3 DEF OnMergeTarget, StopFor, ScheduleS
    <2>5. sp'.removing /\ sp'.up = sp.up /\ sp'.delayed = sp.delayed
      BY Zenon, <1>0, <2>4 DEF TypeOK, SPeer
    <2>6. sa'.tasks = Append(sa.tasks, "destroy") /\ sa'.stopped = sa.stopped
      BY Zenon, <1>0, <2>4 DEF TypeOK, SApply
    <2>7. sa.tasks = << >> /\ ~sa.stopped /\ Removal = {} /\ Quiet
      BY Zenon, <2>3 DEF Untouched
    <2>8. sa'.tasks = << "destroy" >>
      BY SMTT(60), <2>6, <2>7
    <2>9. Removal' = {} /\ Quiet'
      BY Zenon, <1>1, <2>7 DEF Removal, Kinds, Quiet, Replacing
    <2>10. Stale'
      BY ZenonT(60), <2>1, <2>3, <2>5, <2>6, <2>7, <2>8, <2>9 DEF Stale
    <2> QED
      BY ZenonT(60), <1>1, <2>3, <2>5, <2>10 DEF StageInv
  <1> QED
    BY <1>2, <1>3

\* S's delegate has applied the PrepareMerge when it confirms the merge.
LEMMA AppliedAll ==
  ASSUME IInv, Merge # 0, sp.up, sp.merge = Commit
  PROVE  sa.applied >= Commit
PROOF
  <1>0. TypeOK /\ SNat /\ MailInv /\ ApplyInv
    BY Zenon, Numbers DEF IInv
  <1>1. /\ kv.sapplied \in 0 .. N /\ sa.applied \in 0 .. N /\ N \in Nat
    BY Zenon, <1>0 DEF SNat
  <1>2. PICK p : Leads(sbox, sp.merge, p, kv.sapplied)
    BY Zenon, <1>0 DEF MailInv
  <1>3. sp.merge \in 0 .. kv.sapplied
    <2>1. sbox \in Seq(Message) /\ kv.sapplied \in Nat
      BY SMTT(60), <1>0, <1>1 DEF TypeOK
    <2> QED
      BY Zenon, <1>2, <2>1, LeadsBound
  <1>4. kv.sapplied <= sa.applied
    BY Zenon, <1>0 DEF ApplyInv
  <1> QED
    BY <1>1, <1>3, <1>4

\* S's delegate confirms that it has the whole log.
LEMMA StageConfirm ==
  ASSUME IInv, [Next]_vars, LogsUpToDateForMerge
  PROVE  StageInv'
PROOF
  <1> USE DEF source, target, store
  <1>0. TypeOK /\ Merge' = Merge /\ Commit' = Commit
    BY Zenon, Frozen DEF IInv
  <1>1. /\ sa.tasks # << >> /\ Head(sa.tasks) = "logs_up_to_date"
        /\ sp' = sp /\ sbox' = sbox /\ tp' = tp /\ meta' = meta /\ kv' = kv
    BY Zenon DEF LogsUpToDateForMerge, ApplyTaskS
  <1>2. sa'.tasks = Tail(sa.tasks) /\ sa'.stopped /\ sa'.applied = sa.applied /\ ta'.wait = "ready"
    BY Zenon, <1>0 DEF LogsUpToDateForMerge, TypeOK, SApply, TApply
  <1>3. Tail(sa.tasks) = << >> /\ CaughtUpFor /\ ta.wait = "wait"
    BY Zenon, <1>1, TaskStage
  <1>4. sp.up /\ meta.s /\ sp.delayed = "none" /\ kv.s # "Tombstone"
    BY Zenon, <1>3, WaitStage
  <1>5. ta.wait # "no"
    BY <1>3
  <1>6. ~Buried
    BY Zenon, <1>5, Busy
  <1>7. Merge # 0 /\ sp.removing /\ Removal = {} /\ Quiet /\ sp.merge = Commit
    BY Zenon, <1>3 DEF CaughtUpFor
  <1>8. sa'.applied >= Commit
    BY ZenonT(60), <1>2, <1>4, <1>7, AppliedAll
  <1>9. Removal' = {} /\ Quiet' /\ ~Buried'
    BY ZenonT(60), <1>0, <1>1, <1>6, <1>7 DEF Removal, Kinds, Quiet, Replacing, Buried
  <1>10. CaughtUpFor'
    BY ZenonT(60), <1>0, <1>1, <1>2, <1>3, <1>7, <1>8, <1>9 DEF CaughtUpFor
  <1> QED
    BY ZenonT(60), <1>1, <1>4, <1>9, <1>10 DEF StageInv

\* S's delegate stops.
LEMMA StageHandleDestroy ==
  ASSUME IInv, [Next]_vars, HandleDestroy
  PROVE  StageInv'
PROOF
  <1> USE DEF source, target, store
  <1>0. TypeOK /\ TRegion' = TRegion /\ 0 \in SIdx
    <2>1. TypeOK /\ TRegion' = TRegion
      BY Zenon, Frozen DEF IInv
    <2> QED
      BY SMTT(60), <2>1, LogFacts DEF Logs
  <1>1. /\ sp' = sp /\ tp' = tp /\ meta' = meta /\ kv' = kv
        /\ sa' = [sa EXCEPT !.tasks = Tail(@), !.stopped = TRUE]
    BY Zenon DEF HandleDestroy
  <1>2. sa'.tasks = Tail(sa.tasks) /\ sa'.stopped
    BY Zenon, <1>0, <1>1 DEF TypeOK, SApply
  <1>3. PICK b \in BOOLEAN :
          /\ ApplyTaskS(IF b THEN "destroy_for_snapshot" ELSE "destroy")
          /\ sbox' = IF sa.stopped \/ ~sp.up THEN sbox
                     ELSE Append(sbox, [k |-> IF b THEN "destroyed_for_snapshot" ELSE "destroyed",
                                        at |-> 0])
    BY Zenon DEF HandleDestroy
  <1>4. sa.tasks # << >> /\ Head(sa.tasks) = IF b THEN "destroy_for_snapshot" ELSE "destroy"
    BY <1>3 DEF ApplyTaskS
  <1>5. /\ sa.tasks = << Head(sa.tasks) >> /\ Tail(sa.tasks) = << >>
        /\ ~sa.stopped /\ sp.up /\ meta.s /\ sp.removing /\ sp.delayed = "none" /\ Removal = {}
        /\ Head(sa.tasks) = "destroy" => Stale
        /\ Head(sa.tasks) = "destroy_for_snapshot" => StoppedFor /\ tp.snap # 0 /\ meta.atomic = "wait"
    BY Zenon, <1>4, TaskStage
  <1>6. Quiet' <=> Quiet
    BY Zenon, <1>1 DEF Quiet, Replacing
  <1> DEFINE kind == IF b THEN "destroyed_for_snapshot" ELSE "destroyed"
  <1>7. Removal' = {kind}
    <2>1. ToSource([k |-> kind, at |-> 0])
      BY Zenon, <1>3, <1>5 DEF ToSource
    <2>2. kind \in Messages
      BY DEF Messages
    <2>3. kind \notin {"prepare", "rollback", "catch_up"}
      OBVIOUS
    <2> HIDE DEF kind
    <2>4. Kinds' = Kinds \cup {kind}
      BY ZenonT(60), <1>0, <1>5, <2>1, <2>2, KindsSent
    <2> QED
      BY SMTT(60), <1>5, <2>3, <2>4 DEF Removal
  <1>8. CASE b
    <2>1. StoppedFor /\ tp.snap # 0 /\ meta.atomic = "wait" /\ Removal' = {"destroyed_for_snapshot"}
      BY SMTT(60), <1>4, <1>5, <1>7, <1>8
    <2>2. meta.atomic # "none"
      BY <2>1
    <2>3. kv.s = "Tombstone" <=> tp.inst.phase = "persisted"
      BY Zenon, <2>2, AtomicStage
    <2>4. /\ tp.checked.idx = 0 /\ Covers(tp.snap) /\ tp.inst = NoSnap /\ tp.sent = tp.applied
      BY Zenon, <2>1 DEF StoppedFor
    <2>5. Covers(tp.snap)'
      BY Zenon, <1>0, <1>1, <2>4 DEF Covers
    <2>6. StoppedFor'
      BY ZenonT(60), <1>1, <1>2, <1>5, <2>1, <2>4, <2>5 DEF StoppedFor
    <2> QED
      BY ZenonT(60), <1>1, <1>5, <2>3, <2>6 DEF StageInv
  <1>9. CASE ~b
    <2>1. Stale /\ Removal' = {"destroyed"} /\ sa.tasks = << "destroy" >>
      BY SMTT(60), <1>4, <1>5, <1>7, <1>9
    <2>2. Passed /\ Quiet
      BY Zenon, <2>1 DEF Stale
    <2>3. Stale'
      BY ZenonT(60), <1>1, <1>2, <1>5, <1>6, <2>1, <2>2, PassedNext DEF Stale
    <2>4. kv.s # "Tombstone"
      <3>1. << "destroy" >> \notin {<< >>, << "logs_up_to_date" >>, << "destroy_for_snapshot" >>}
        OBVIOUS
      <3>2. ~Untouched /\ ~CaughtUpFor /\ ~StoppedFor
        BY Zenon, <2>1, <3>1 DEF Untouched, CaughtUpFor, StoppedFor
      <3> QED
        BY Zenon, <1>5, <3>2 DEF IInv, StageInv, Gone
    <2> QED
      BY Zenon, <1>1, <1>5, <2>3, <2>4 DEF StageInv
  <1> QED
    BY SMTT(60), <1>8, <1>9

\* T's log moves, or a snapshot is looked at.
LEMMA StageTargetLog ==
  ASSUME IInv, [Next]_vars,
         \/ AppendT \/ ReadyT \/ ApplyT \/ CheckSnapshot \/ InstallSnapshot \/ FinishSnapshot
         \/ UNCHANGED vars
  PROVE  StageInv'
PROOF
  <1> USE DEF source, target, store
  <1>0. TypeOK /\ TNat /\ PositionInv /\ Merge' = Merge
    BY Zenon, Numbers, Frozen DEF IInv
  <1>1. sp' = sp /\ sa' = sa /\ sbox' = sbox /\ meta' = meta
    BY Zenon DEF AppendT, ReadyT, ApplyT, CheckSnapshot, InstallSnapshot, FinishSnapshot, vars
  <1>2. kv'.s = kv.s /\ kv'.tapplied = kv.tapplied
    <2>1. CASE InstallSnapshot
      BY Zenon, <1>0, <2>1 DEF InstallSnapshot, TypeOK, Kv
    <2>2. CASE kv' = kv
      BY Zenon, <2>2
    <2> QED
      BY Zenon, <2>1, <2>2 DEF AppendT, ReadyT, ApplyT, CheckSnapshot, FinishSnapshot, vars
  <1>k. Kinds' = Kinds /\ (Buried' <=> Buried)
    BY Zenon, <1>0, <1>1, <1>2 DEF Kinds, Buried
  <1>3. ASSUME Quiet => Quiet', ta'.wait = ta.wait, Executed' <=> Executed,
               StoppedFor => /\ tp'.checked.idx = tp.checked.idx
                             /\ tp'.snap = tp.snap /\ tp'.inst = tp.inst
                             /\ tp'.sent = tp.sent /\ tp'.applied = tp.applied
        PROVE  StageInv'
    <2>1. CalmT
      BY Zenon, <1>1, <1>3, <1>k DEF CalmT, Untouched
    <2> QED
      BY Zenon, <1>1, <1>2, <1>3, <2>1, TargetCalm
  <1>4. CASE tp'.inst = tp.inst /\ tp'.applied = tp.applied /\ ta' = ta
    <2>1. (Executed' <=> Executed) /\ (Quiet => Quiet') /\ ta'.wait = ta.wait
      BY Zenon, <1>0, <1>1, <1>4 DEF Executed, Installing, Quiet, Replacing
    <2>2. CASE /\ tp'.checked = tp.checked /\ tp'.snap = tp.snap /\ tp'.sent = tp.sent
      BY Zenon, <1>3, <1>4, <2>1, <2>2
    <2>3. CASE ~StoppedFor
      BY Zenon, <1>3, <2>1, <2>3
    <2>4. CASE AppendT
      <3>1. tp'.checked = tp.checked /\ tp'.snap = tp.snap /\ tp'.sent = tp.sent
        BY Zenon, <1>0, <2>4 DEF AppendT, TypeOK, TPeer
      <3> QED
        BY Zenon, <2>2, <3>1
    <2>5. CASE ReadyT
      <3>1. tp.inst = NoSnap /\ tp.snap = 0
        BY Zenon, <2>5 DEF ReadyT
      <3>2. ~Replacing
        BY <3>1 DEF Replacing, NoSnap
      <3>3. ~StoppedFor
        BY Zenon, <3>1, <3>2 DEF StoppedFor
      <3> QED
        BY Zenon, <2>3, <3>3
    <2>6. CASE CheckSnapshot
      <3>1. meta.atomic \notin {"wait", "ready"}
        BY <2>6 DEF CheckSnapshot
      <3>2. ~StoppedFor
        BY Zenon, <3>1 DEF StoppedFor
      <3> QED
        BY Zenon, <2>3, <3>2
    <2>7. CASE UNCHANGED vars
      <3>1. tp' = tp
        BY Zenon, <2>7 DEF vars
      <3> QED
        BY Zenon, <2>2, <3>1
    <2>8. CASE ApplyT
      <3>1. tp' = tp
        BY Zenon, <2>8 DEF ApplyT
      <3> QED
        BY Zenon, <2>2, <3>1
    <2>9. CASE InstallSnapshot \/ FinishSnapshot
      <3>1. tp.inst.phase \in {"applying", "installed"}
        BY Zenon, <2>9 DEF InstallSnapshot, FinishSnapshot
      <3>2. ~Replacing /\ tp.inst # NoSnap
        BY <3>1 DEF Replacing, NoSnap
      <3>3. ~StoppedFor
        BY Zenon, <3>2 DEF StoppedFor
      <3> QED
        BY Zenon, <2>3, <3>3
    <2> QED
      BY ZenonT(60), <2>4, <2>5, <2>6, <2>7, <2>8, <2>9
  <1>5. CASE AppendT \/ ReadyT \/ CheckSnapshot \/ UNCHANGED vars
    <2>1. ta' = ta
      BY Zenon, <1>5 DEF AppendT, ReadyT, CheckSnapshot, vars
    <2>2. tp'.inst = tp.inst /\ tp'.applied = tp.applied
      <3>1. CASE AppendT
        BY Zenon, <1>0, <3>1 DEF AppendT, TypeOK, TPeer
      <3>2. CASE ReadyT
        BY Zenon, <1>0, <3>2 DEF ReadyT, TypeOK, TPeer
      <3>3. CASE CheckSnapshot
        BY Zenon, <1>0, <3>3 DEF CheckSnapshot, TypeOK, TPeer
      <3>4. CASE UNCHANGED vars
        BY Zenon, <3>4 DEF vars
      <3> QED
        BY ZenonT(60), <1>5, <3>1, <3>2, <3>3, <3>4
    <2> QED
      BY Zenon, <1>4, <2>1, <2>2
  <1>6. CASE ApplyT
    <2>1. /\ ta.applied < tp.sent /\ ta.applied + 1 # Merge /\ tp' = tp
          /\ ta'.applied = ta.applied + 1 /\ ta'.wait = ta.wait
      BY ZenonT(60), <1>0, <1>6 DEF ApplyT, TypeOK, TApply
    <2>2. ~Installing /\ ~Installing'
      BY Zenon, <2>1, Applying DEF Installing
    <2>3. Merge <= ta'.applied <=> Merge <= ta.applied
      BY SMTT(60), <1>0, <2>1 DEF TNat
    <2>4. Executed' <=> Executed
      BY ZenonT(60), <1>0, <2>1, <2>2, <2>3 DEF Executed
    <2>5. Quiet => Quiet'
      BY Zenon, <1>1, <2>1 DEF Quiet, Replacing
    <2> QED
      BY ZenonT(60), <1>3, <2>1, <2>4, <2>5
  <1>7. CASE InstallSnapshot \/ FinishSnapshot
    <2>1. tp.inst.phase \in {"applying", "installed"} /\ ta' = ta
      BY Zenon, <1>7 DEF InstallSnapshot, FinishSnapshot
    <2>2. ~Replacing /\ tp.inst # NoSnap /\ Installing
      BY <2>1 DEF Replacing, NoSnap, Installing
    <2>3. ~StoppedFor /\ ~Executed /\ ~CaughtUpFor
      BY Zenon, <2>2, CaughtUpBusy DEF StoppedFor, Executed
    <2>4. tp'.inst.phase \in {"none", "installed"} /\ tp'.applied = tp.applied
      <3>1. CASE InstallSnapshot
        BY ZenonT(60), <1>0, <3>1 DEF InstallSnapshot, TypeOK, TPeer
      <3>2. CASE FinishSnapshot
        <4>1. tp'.inst = NoSnap /\ tp'.applied = tp.applied
          BY Zenon, <1>0, <3>2 DEF FinishSnapshot, TypeOK, TPeer
        <4> QED
          BY <4>1 DEF NoSnap
      <3> QED
        BY Zenon, <1>7, <3>1, <3>2
    <2>5. ~Replacing'
      BY <2>4 DEF Replacing
    <2>6. tp.applied = tp.inst.idx /\ ta.applied = tp.inst.idx
      BY SMTT(60), <1>0, <2>2 DEF PositionInv
    <2>7. ~ (tp'.applied < Merge /\ Merge <= ta'.applied)
      BY SMTT(60), <1>0, <2>1, <2>4, <2>6 DEF TNat
    <2>8. ~Executed' /\ (Quiet => Quiet')
      BY ZenonT(60), <1>0, <1>1, <2>5, <2>7 DEF Executed, Quiet
    <2> QED
      BY ZenonT(60), <1>3, <2>1, <2>3, <2>8
  <1> QED
    BY Zenon, <1>5, <1>6, <1>7

\* T meets the CommitMerge and asks S to catch up.
LEMMA StageWait ==
  ASSUME IInv, [Next]_vars, WaitMergeSource
  PROVE  StageInv'
PROOF
  <1> USE DEF source, target, store
  <1>0. TypeOK /\ TNat /\ Merge' = Merge /\ Epochs
    BY Zenon, Numbers, Frozen, EpochFacts DEF IInv
  <1>1. /\ sp' = sp /\ sa' = sa /\ tp' = tp /\ meta' = meta /\ kv' = kv /\ ta.wait = "no"
        /\ ta.applied + 1 = Merge /\ ToSource([k |-> "catch_up", at |-> Commit])
    BY Zenon DEF WaitMergeSource
  <1>2. ta'.wait = "wait" /\ ta'.applied = ta.applied
    BY Zenon, <1>0 DEF WaitMergeSource, TypeOK, TApply
  <1>3. ~ (Merge <= ta.applied) /\ Merge # 0
    <2>1. ta.applied \in Nat /\ ta.applied + 1 = Merge
      BY SMTT(60), <1>0, <1>1 DEF TNat
    <2> QED
      BY SMTT(60), <2>1
  <1>4. ~Executed /\ ~Executed'
    BY ZenonT(60), <1>0, <1>2, <1>3 DEF Executed
  <1>5. ta.wait # "wait" /\ ta.wait # "ready" /\ ta'.wait # "ready"
    BY SMTT(60), <1>1, <1>2
  <1>6. ~CaughtUpFor
    BY Zenon, <1>4, <1>5 DEF CaughtUpFor
  <1>7. CalmT
    BY Zenon, <1>1, <1>4, <1>5, <1>6 DEF CalmT
  <1>8. Removal' = Removal
    <2>1. CASE sp.up
      <3>1. "catch_up" \in Messages /\ Commit \in SIdx
        BY SMTT(60), <1>0, <1>3, LogFacts DEF Messages, Epochs, Logs
      <3>2. Kinds' = Kinds \cup {"catch_up"}
        BY ZenonT(60), <1>0, <1>1, <2>1, <3>1, KindsSent
      <3> QED
        BY Zenon, <3>2, RemovalSame
    <2>2. CASE ~sp.up
      <3>1. sbox' = sbox
        BY Zenon, <1>1, <2>2 DEF ToSource
      <3> QED
        BY Zenon, <3>1 DEF Removal, Kinds
    <2> QED
      BY <2>1, <2>2
  <1>9. ~sp.up => sbox' = sbox
    BY Zenon, <1>1 DEF ToSource
  <1>10. CalmS
    BY Zenon, <1>1, <1>8, <1>9 DEF CalmS, Quiet, Replacing
  <1> QED
    BY Zenon, <1>7, <1>10, StageStays

\* T executes the merge, with S's delegate stopped at the end of S's log.
LEMMA StageExec ==
  ASSUME IInv, [Next]_vars, ExecCommitMerge
  PROVE  StageInv'
PROOF
  <1> USE DEF source, target, store
  <1>0. TypeOK /\ TNat /\ PositionInv /\ Merge' = Merge /\ Commit' = Commit
    BY Zenon, Numbers, Frozen DEF IInv
  <1>1. /\ sp' = sp /\ sa' = sa /\ sbox' = sbox /\ tp' = tp /\ meta' = meta /\ kv' = kv
        /\ ta.wait = "ready"
    BY Zenon DEF ExecCommitMerge
  <1>2. ta'.applied = Merge
    BY Zenon, <1>0 DEF ExecCommitMerge, TypeOK, TApply
  <1>3. /\ sp.up /\ meta.s /\ sp.delayed = "none" /\ CaughtUpFor
        /\ sa.tasks = << >> /\ sa.stopped /\ sa.applied >= Commit
        /\ kv.s = "Tombstone" <=> Buried
    BY Zenon, <1>1, MergeStage
  <1>4. ta.wait # "no"
    BY <1>1
  <1>5. ~Installing /\ Merge # 0 /\ ta.applied + 1 = Merge
    BY ZenonT(60), <1>0, <1>4, Busy DEF PositionInv
  <1>6. tp.applied <= ta.applied
    BY SMTT(60), <1>0, <1>5 DEF PositionInv
  <1>7. tp.applied < Merge /\ Merge <= Merge
    BY SMTT(60), <1>0, <1>5, <1>6 DEF TNat
  <1>8. Executed'
    BY ZenonT(60), <1>0, <1>1, <1>2, <1>5, <1>7 DEF Executed, Installing
  <1>9. Removal' = Removal /\ (Quiet => Quiet') /\ (Buried' <=> Buried)
    BY Zenon, <1>0, <1>1 DEF Removal, Kinds, Quiet, Replacing, Buried
  <1>10. CaughtUpFor'
    BY ZenonT(60), <1>0, <1>1, <1>3, <1>8, <1>9 DEF CaughtUpFor
  <1> QED
    BY ZenonT(60), <1>1, <1>3, <1>9, <1>10 DEF StageInv

\* T writes the merge, with S's tombstone.
LEMMA StageWriteT ==
  ASSUME IInv, [Next]_vars, WriteT
  PROVE  StageInv'
PROOF
  <1> USE DEF source, target, store
  <1>0. TypeOK /\ TNat /\ PositionInv /\ Merge' = Merge /\ Commit' = Commit
    BY Zenon, Numbers, Frozen DEF IInv
  <1>1. /\ sp' = sp /\ sa' = sa /\ sbox' = sbox /\ tp' = tp /\ meta' = meta /\ ta.write
    BY Zenon DEF WriteT
  <1>2. ta'.applied = ta.applied /\ ta'.wait = ta.wait
    BY Zenon, <1>0 DEF WriteT, TypeOK, TApply
  <1>3. Kinds' = Kinds /\ Removal' = Removal /\ (Quiet => Quiet') /\ (Executed' <=> Executed)
    BY Zenon, <1>0, <1>1, <1>2 DEF Kinds, Removal, Quiet, Replacing, Executed, Installing
  <1>4. CASE ta.applied = Merge
    <2>1. kv'.s = "Tombstone" /\ kv'.tapplied = Merge
      BY ZenonT(60), <1>0, <1>4 DEF WriteT, TypeOK, Kv
    <2>2. Executed
      BY ZenonT(60), <1>1, <1>4, WritesMerge
    <2>3. /\ sp.up /\ meta.s /\ sp.delayed = "none" /\ CaughtUpFor
          /\ sa.tasks = << >> /\ sa.stopped /\ sa.applied >= Commit
      BY Zenon, <2>2, MergeStage
    <2>4. Merge >= Merge
      BY <1>0 DEF TNat
    <2>5. Buried'
      BY Zenon, <1>0, <2>1, <2>4 DEF Buried
    <2>6. CaughtUpFor'
      BY ZenonT(60), <1>0, <1>1, <1>3, <2>2, <2>3 DEF CaughtUpFor
    <2> QED
      BY ZenonT(60), <1>1, <2>1, <2>3, <2>5, <2>6 DEF StageInv
  <1>5. CASE ta.applied # Merge
    <2>1. kv'.s = kv.s /\ kv'.tapplied = ta.applied
      BY Zenon, <1>0, <1>5 DEF WriteT, TypeOK, Kv
    <2>2. CaughtUpFor => (Buried' <=> Buried)
      <3> SUFFICES ASSUME CaughtUpFor PROVE Buried' <=> Buried
        OBVIOUS
      <3>1. ~Installing
        BY Zenon, CaughtUpBusy
      <3>2. tp.inst.phase # "persisted"
        BY <3>1 DEF Installing
      <3>3. kv.tapplied <= ta.applied /\ (ta.applied >= Merge => kv.tapplied >= Merge)
        BY ZenonT(60), <1>0, <1>5, <3>2 DEF PositionInv
      <3>n. ta.applied \in Nat /\ kv.tapplied \in Nat /\ Merge \in Nat
        BY <1>0 DEF TNat
      <3>4. ta.applied >= Merge <=> kv.tapplied >= Merge
        BY SMTT(60), <3>3, <3>n
      <3> QED
        BY Zenon, <1>0, <2>1, <3>4 DEF Buried
    <2>3. CalmT
      BY ZenonT(60), <1>1, <1>2, <1>3, <2>2 DEF CalmT, Untouched
    <2> QED
      BY ZenonT(60), <1>1, <1>3, <2>1, <2>3, TargetCalm
  <1> QED
    BY SMTT(60), <1>4, <1>5

\* T's peer sees the result of an entry, the merge among them.
LEMMA StageApplyRes ==
  ASSUME IInv, [Next]_vars, OnApplyRes
  PROVE  StageInv'
PROOF
  <1> USE DEF source, target, store
  <1>0. TypeOK /\ TNat /\ PositionInv /\ Merge' = Merge /\ Commit' = Commit
    BY Zenon, Numbers, Frozen DEF IInv
  <1>1. /\ sp' = sp /\ sa' = sa /\ ta' = ta /\ kv' = kv /\ tbox # << >>
    BY Zenon DEF OnApplyRes
  <1>2. /\ tp'.applied = Head(tbox) /\ tp'.inst = tp.inst /\ tp'.checked = tp.checked
        /\ tp'.snap = tp.snap /\ tp'.sent = tp.sent
    BY Zenon, <1>0 DEF OnApplyRes, TypeOK, TPeer
  <1>3. /\ ~Installing /\ Head(tbox) = tp.applied + 1 /\ Head(tbox) <= ta.applied
        /\ Head(tbox) = Merge => Executed
    BY Zenon, <1>1, ResultStage
  <1>4. ~Replacing /\ ~Replacing' /\ ~Installing'
    BY SMTT(60), <1>2, <1>3 DEF Installing, Replacing
  <1>5. CASE Head(tbox) # Merge
    <2>1. meta'.s = meta.s /\ meta'.atomic = meta.atomic /\ sbox' = sbox
      BY ZenonT(60), <1>0, <1>5 DEF OnApplyRes, TypeOK, Meta
    <2>n. tp.applied \in Nat /\ Merge \in Nat
      BY SMTT(60), <1>0 DEF TNat
    <2>e. tp'.applied = tp.applied + 1 /\ tp'.applied # Merge
      BY Zenon, <1>2, <1>3, <1>5
    <2>2. tp.applied < Merge <=> tp'.applied < Merge
      BY SMTT(60), <2>n, <2>e
    <2>3. Executed' <=> Executed
      BY ZenonT(60), <1>0, <1>1, <1>3, <1>4, <2>2 DEF Executed
    <2>4. tp.sent # tp.applied
      <3>1. ta.applied <= tp.sent
        BY <1>0, <1>3 DEF PositionInv
      <3> QED
        BY SMTT(60), <1>0, <1>3, <3>1 DEF TNat
    <2>5. ~StoppedFor
      BY Zenon, <1>4, <2>4 DEF StoppedFor
    <2>6. Kinds' = Kinds /\ (Buried' <=> Buried) /\ (Quiet => Quiet')
      BY Zenon, <1>0, <1>1, <1>4, <2>1 DEF Kinds, Buried, Quiet
    <2>7. CalmT
      BY ZenonT(60), <1>1, <2>3, <2>5, <2>6 DEF CalmT, Untouched
    <2> QED
      BY ZenonT(60), <1>1, <2>1, <2>6, <2>7, TargetCalm
  <1>6. CASE Head(tbox) = Merge
    <2>1. ~meta'.s /\ meta'.atomic = meta.atomic /\ ToSource([k |-> "from_target_log", at |-> 0])
      BY Zenon, <1>0, <1>6 DEF OnApplyRes, WithoutSource, TypeOK, Meta
    <2>2. Executed
      BY SMTT(60), <1>3, <1>6
    <2>3. sp.up /\ sp.delayed = "none" /\ CaughtUpFor /\ sa.tasks = << >> /\ sa.stopped
      BY Zenon, <2>2, MergeStage
    <2>4. kv.s = "Tombstone"
      BY ZenonT(60), <1>1, <1>6, ResultOnDisk
    <2>5. "from_target_log" \in Messages /\ 0 \in SIdx
      BY SMTT(60), <1>0, LogFacts DEF Messages, Logs
    <2>6. Kinds' = Kinds \cup {"from_target_log"}
      BY Zenon, <1>0, <2>1, <2>3, <2>5, KindsSent
    <2>7. Removal = {} /\ Quiet /\ sp.removing /\ sp.merge = Commit /\ Merge # 0
      BY Zenon, <2>3 DEF CaughtUpFor
    <2>8. Removal' = {"from_target_log"}
      BY <2>6, <2>7 DEF Removal
    <2>9. Quiet'
      BY Zenon, <1>4, <2>1, <2>7 DEF Quiet
    <2>10. Merge >= Merge
      BY <1>0 DEF TNat
    <2>11. Passed'
      BY ZenonT(60), <1>0, <1>2, <1>4, <1>6, <2>7, <2>10 DEF Passed, Known
    <2>12. Leaving'
      BY ZenonT(60), <1>0, <1>1, <2>3, <2>7, <2>8, <2>9, <2>11 DEF Leaving
    <2> QED
      BY ZenonT(60), <1>1, <2>1, <2>3, <2>4, <2>12 DEF StageInv
  <1> QED
    BY SMTT(60), <1>5, <1>6

\* Raft takes a snapshot that was looked at; S has to make way if it is in the way.
LEMMA StageStep ==
  ASSUME IInv, [Next]_vars, StepSnapshot
  PROVE  StageInv'
PROOF
  <1> USE DEF source, target, store
  <1>0. /\ TypeOK /\ TNat /\ Merge' = Merge /\ Commit' = Commit /\ TRegion' = TRegion
        /\ DiskInv /\ RangeInv /\ StageInv
    BY Zenon, Numbers, Frozen DEF IInv
  <1>1. sp' = sp /\ sa' = sa /\ ta' = ta /\ kv' = kv /\ tp.checked.idx # 0
    BY Zenon DEF StepSnapshot
  <1>2. /\ tp'.applied = tp.applied /\ tp'.inst = tp.inst /\ tp'.sent = tp.sent
        /\ tp'.checked.idx = 0 /\ tp'.snap = Restored(tp.checked.idx).snap
        /\ Restored(tp.checked.idx).snap \in {tp.snap, tp.checked.idx}
    BY Zenon, <1>0 DEF StepSnapshot, Restored, TypeOK, TPeer
  <1>3. CASE ~ (tp'.snap # 0 /\ tp.checked.destroy)
    <2>1. meta' = meta /\ sbox' = sbox
      BY Zenon, <1>2, <1>3 DEF StepSnapshot
    <2>2. ~StoppedFor
      BY Zenon, <1>1 DEF StoppedFor
    <2>3. Kinds' = Kinds /\ (Buried' <=> Buried) /\ (Quiet => Quiet') /\ (Executed' <=> Executed)
      BY ZenonT(60), <1>0, <1>1, <1>2, <2>1 DEF Kinds, Buried, Quiet, Replacing, Executed, Installing
    <2>4. CalmT
      BY Zenon, <1>1, <2>2, <2>3 DEF CalmT, Untouched
    <2> QED
      BY ZenonT(60), <1>1, <2>1, <2>3, <2>4, TargetCalm
  <1>4. CASE tp'.snap # 0 /\ tp.checked.destroy
    <2>1. /\ meta'.s = meta.s /\ meta'.atomic = "wait"
          /\ ToSource([k |-> "from_target_snapshot_step1", at |-> 0])
      BY ZenonT(60), <1>0, <1>2, <1>4 DEF StepSnapshot, TypeOK, Meta
    <2>2. /\ tp.snap = 0 /\ tp.inst = NoSnap /\ tp.sent = tp.applied /\ Covers(tp.checked.idx)
          /\ meta.s /\ meta.atomic = "none"
      BY Zenon, <1>0, <1>4 DEF RangeInv
    <2>3. sp.up /\ (Untouched \/ CaughtUpFor \/ Stale)
      BY Zenon, <1>4, CheckedStage
    <2>4. ~CaughtUpFor
      BY Zenon, <2>2, CaughtUpBusy
    <2>5. ~Stale
      <3>1. Known = tp.sent
        BY Zenon, <2>2 DEF Known
      <3>2. tp.sent <= tdisk.commit /\ tdisk.commit <= tp.commit /\ tp.checked.idx > tp.commit
        BY ZenonT(60), <1>0, <1>1 DEF DiskInv
      <3>3. tp.checked.idx \in TIdx /\ tp.commit \in Nat /\ tdisk.commit \in Nat /\ tp.sent \in Nat
            /\ tp.checked.idx \in Nat
        BY SMTT(60), <1>0 DEF TNat
      <3>4. Known <= tp.checked.idx
        BY <3>1, <3>2, <3>3
      <3> QED
        BY ZenonT(60), <2>2, <3>3, <3>4, PassedRange DEF Stale
    <2>6. Untouched
      BY SMTT(60), <2>3, <2>4, <2>5
    <2>7. /\ ~sp.removing /\ sa.tasks = << >> /\ ~sa.stopped /\ Removal = {}
      BY Zenon, <2>6 DEF Untouched
    <2>8. sp.delayed = "none" /\ kv.s # "Tombstone"
      BY ZenonT(60), <1>0, <2>2, <2>7 DEF StageInv, CaughtUpFor, StoppedFor, Stale, Leaving, Gone
    <2>9. tp'.snap = tp.checked.idx
      BY ZenonT(60), <1>2, <1>4, <2>2
    <2>10. "from_target_snapshot_step1" \in Messages /\ 0 \in SIdx
      BY SMTT(60), <1>0, LogFacts DEF Messages, Logs
    <2>11. Kinds' = Kinds \cup {"from_target_snapshot_step1"}
      BY ZenonT(60), <1>0, <2>1, <2>3, <2>10, KindsSent
    <2>12. Removal' = {"from_target_snapshot_step1"}
      BY SMTT(60), <2>7, <2>11 DEF Removal
    <2>13. Covers(tp.snap)'
      BY ZenonT(60), <1>0, <2>2, <2>9 DEF Covers
    <2>14. StoppedFor'
      BY ZenonT(60), <1>1, <1>2, <1>4, <2>1, <2>2, <2>7, <2>12, <2>13 DEF StoppedFor
    <2>15. tp'.inst.phase # "persisted"
      BY SMTT(60), <1>2, <2>2 DEF NoSnap
    <2> QED
      BY ZenonT(60), <1>1, <2>1, <2>2, <2>3, <2>8, <2>14, <2>15 DEF StageInv
  <1> QED
    BY SMTT(60), <1>3, <1>4

\* T takes its pending snapshot; S, if it has to go, is stopped.
LEMMA StageTake ==
  ASSUME IInv, [Next]_vars, TakeSnapshot
  PROVE  StageInv'
PROOF
  <1> USE DEF source, target, store
  <1>0. /\ TypeOK /\ TNat /\ Merge' = Merge /\ Commit' = Commit /\ TRegion' = TRegion
    BY Zenon, Numbers, Frozen DEF IInv
  <1>1. /\ sp' = sp /\ sa' = sa /\ sbox' = sbox /\ ta' = ta /\ kv' = kv /\ meta' = meta
        /\ tp.inst = NoSnap /\ tp.snap # 0 /\ meta.atomic # "wait" /\ tp.sent = tp.applied
    BY Zenon DEF TakeSnapshot, NothingApplying
  <1>2. /\ tp'.snap = 0 /\ tp'.checked = tp.checked /\ tp'.inst.idx = tp.snap
        /\ tp'.inst.phase = "persisting" /\ (tp'.inst.destroy <=> meta.atomic = "ready")
    BY Zenon, <1>0 DEF TakeSnapshot, TypeOK, TPeer
  <1>3. Installing' /\ Replacing' /\ ~Installing /\ ~Replacing /\ tp'.inst.phase # "persisted"
        /\ tp.inst.phase # "persisted"
    BY SMTT(60), <1>1, <1>2 DEF Installing, Replacing, NoSnap
  <1>4. meta.atomic \in {"none", "wait", "ready"}
    BY Zenon, <1>0 DEF TypeOK, Meta
  <1>5. CASE meta.atomic = "none"
    <2>1. meta.atomic # "ready"
      BY <1>5
    <2>2. ~StoppedFor
      BY Zenon, <1>1, <1>3, <2>1 DEF StoppedFor
    <2>3. ~CaughtUpFor /\ ~Executed'
      BY Zenon, <1>1, <1>3, CaughtUpBusy DEF Executed
    <2>4. Quiet'
      BY ZenonT(60), <1>1, <1>2, <1>5, <2>1 DEF Quiet
    <2>5. CalmT
      BY ZenonT(60), <1>1, <2>2, <2>3 DEF CalmT, Untouched
    <2> QED
      BY ZenonT(60), <1>1, <2>4, <2>5, TargetCalm
  <1>6. CASE meta.atomic = "ready"
    <2>1. /\ sp.up /\ meta.s /\ sp.delayed = "none" /\ StoppedFor /\ kv.s # "Tombstone"
      BY ZenonT(60), <1>1, <1>3, <1>5, <1>6, AtomicStage
    <2>2. /\ tp.checked.idx = 0 /\ Covers(tp.snap) /\ sp.removing /\ sa.tasks = << >>
          /\ sa.stopped /\ Removal = {}
      BY ZenonT(60), <1>1, <1>3, <2>1 DEF StoppedFor
    <2>3. tp.snap \in TIdx
      BY Zenon, <1>0 DEF TypeOK, TPeer
    <2>4. Merge # 0 /\ tp.snap >= Merge
      BY ZenonT(60), <1>0, <2>2, <2>3, CoversPast
    <2>5. Removal' = {}
      BY Zenon, <1>1, <2>2 DEF Removal, Kinds
    <2>6. StoppedFor'
      BY ZenonT(60), <1>0, <1>1, <1>2, <1>3, <1>6, <2>2, <2>4, <2>5 DEF StoppedFor
    <2> QED
      BY ZenonT(60), <1>1, <1>3, <2>1, <2>6 DEF StageInv
  <1> QED
    BY ZenonT(60), <1>1, <1>4, <1>5, <1>6

\* The snapshot is on disk, and S's tombstone with it.
LEMMA StagePersist ==
  ASSUME IInv, [Next]_vars, PersistSnapshot
  PROVE  StageInv'
PROOF
  <1> USE DEF source, target, store
  <1>0. TypeOK /\ TNat /\ Merge' = Merge /\ Commit' = Commit /\ TRegion' = TRegion
    BY Zenon, Numbers, Frozen DEF IInv
  <1>1. /\ sp' = sp /\ sa' = sa /\ sbox' = sbox /\ ta' = ta /\ meta' = meta
        /\ tp.inst.phase = "persisting"
    BY Zenon DEF PersistSnapshot
  <1>2. /\ tp'.snap = tp.snap /\ tp'.checked = tp.checked /\ tp'.inst.idx = tp.inst.idx
        /\ tp'.inst.phase = "persisted" /\ tp'.inst.destroy = tp.inst.destroy
    BY Zenon, <1>0 DEF PersistSnapshot, TypeOK, TPeer
  <1>3. Installing' /\ Replacing' /\ Installing /\ Replacing /\ tp.inst # NoSnap
    BY SMTT(60), <1>1, <1>2 DEF Installing, Replacing, NoSnap
  <1>4. CASE ~tp.inst.destroy
    <2>1. kv'.s = kv.s
      BY ZenonT(60), <1>0, <1>4 DEF PersistSnapshot, TypeOK, Kv
    <2>2. ~StoppedFor
      BY Zenon, <1>3, <1>4 DEF StoppedFor
    <2>3. ~CaughtUpFor /\ ~Executed'
      BY Zenon, <1>3, CaughtUpBusy DEF Executed
    <2>4. Quiet => Quiet'
      BY ZenonT(60), <1>1, <1>2, <1>4 DEF Quiet
    <2>5. CalmT
      BY ZenonT(60), <1>1, <2>2, <2>3 DEF CalmT, Untouched
    <2> QED
      BY ZenonT(60), <1>1, <2>1, <2>4, <2>5, TargetCalm
  <1>5. CASE tp.inst.destroy
    <2>1. kv'.s = "Tombstone"
      BY ZenonT(60), <1>0, <1>5 DEF PersistSnapshot, TypeOK, Kv
    <2>2. /\ sp.up /\ meta.s /\ sp.delayed = "none" /\ StoppedFor
          /\ tp.snap = 0 /\ Merge # 0 /\ tp.inst.idx >= Merge /\ meta.atomic = "ready"
          /\ sp.removing /\ sa.tasks = << >> /\ sa.stopped /\ Removal = {}
      BY Zenon, <1>3, <1>5, SnapshotStage
    <2>3. tp.checked.idx = 0
      BY Zenon, <2>2 DEF StoppedFor
    <2>4. Removal' = {}
      BY ZenonT(60), <1>1, <2>2 DEF Removal, Kinds
    <2>5. StoppedFor'
      BY ZenonT(60), <1>0, <1>1, <1>2, <1>3, <1>5, <2>2, <2>3, <2>4 DEF StoppedFor
    <2> QED
      BY ZenonT(60), <1>1, <1>2, <2>1, <2>2, <2>5 DEF StageInv
  <1> QED
    BY SMTT(60), <1>4, <1>5

\* StoreMeta hears of the snapshot, and S that it may go.
LEMMA StageOnPersist ==
  ASSUME IInv, [Next]_vars, OnPersistSnapshot
  PROVE  StageInv'
PROOF
  <1> USE DEF source, target, store
  <1>0. TypeOK /\ TNat /\ Merge' = Merge /\ Commit' = Commit /\ TRegion' = TRegion /\ PositionInv
    BY Zenon, Numbers, Frozen DEF IInv
  <1>1. /\ sp' = sp /\ sa' = sa /\ kv' = kv /\ tp.inst.phase = "persisted"
    BY Zenon DEF OnPersistSnapshot
  <1>2. /\ tp'.applied = tp.applied /\ tp'.inst.idx = tp.inst.idx /\ tp'.inst.phase = "applying"
        /\ meta'.atomic = "none"
    BY Zenon, <1>0 DEF OnPersistSnapshot, TypeOK, TPeer, Meta
  <1>w. ta' = [applied |-> tp.inst.idx, ver |-> TRegion[tp.inst.idx].ver, wait |-> "no",
               write |-> FALSE]
    BY Zenon DEF OnPersistSnapshot
  <1>3. /\ Installing' /\ ~Replacing' /\ Installing /\ Replacing /\ tp.inst # NoSnap
        /\ ta'.wait # "ready"
    BY SMTT(60), <1>1, <1>2, <1>w DEF Installing, Replacing, NoSnap
  <1>q. Quiet'
    BY Zenon, <1>2, <1>3 DEF Quiet
  <1>4. CASE ~tp.inst.destroy
    <2>1. meta'.s = meta.s /\ sbox' = sbox
      BY Zenon, <1>0, <1>4 DEF OnPersistSnapshot, TypeOK, Meta
    <2>2. ~StoppedFor
      BY Zenon, <1>3, <1>4 DEF StoppedFor
    <2>3. ~CaughtUpFor /\ ~Executed'
      BY Zenon, <1>3, CaughtUpBusy DEF Executed
    <2>4. CalmT
      BY Zenon, <1>3, <2>2, <2>3 DEF CalmT, Untouched
    <2> QED
      BY ZenonT(60), <1>1, <1>q, <2>1, <2>4, TargetCalm
  <1>5. CASE tp.inst.destroy
    <2>1. ~meta'.s /\ ToSource([k |-> "from_target_snapshot_step2", at |-> 0])
      BY ZenonT(60), <1>0, <1>5 DEF OnPersistSnapshot, TypeOK, Meta
    <2>2. /\ sp.up /\ sp.delayed = "none" /\ kv.s = "Tombstone"
          /\ Merge # 0 /\ tp.inst.idx >= Merge
          /\ sp.removing /\ sa.tasks = << >> /\ sa.stopped /\ Removal = {}
      BY ZenonT(60), <1>1, <1>3, <1>5, SnapshotStage
    <2>3. "from_target_snapshot_step2" \in Messages /\ 0 \in SIdx
      BY SMTT(60), <1>0, LogFacts DEF Messages, Logs
    <2>4. Kinds' = Kinds \cup {"from_target_snapshot_step2"}
      BY ZenonT(60), <1>0, <2>1, <2>2, <2>3, KindsSent
    <2>5. Removal' = {"from_target_snapshot_step2"}
      BY SMTT(60), <2>2, <2>4 DEF Removal
    <2>6. tp.applied = tp.inst.idx
      BY Zenon, <1>0, <1>3 DEF PositionInv
    <2>7. Passed'
      BY ZenonT(60), <1>0, <1>2, <1>3, <2>2, <2>6 DEF Passed, Known
    <2>8. Leaving'
      BY ZenonT(60), <1>1, <1>q, <2>2, <2>5, <2>7 DEF Leaving
    <2> QED
      BY ZenonT(60), <1>1, <2>1, <2>2, <2>8 DEF StageInv
  <1> QED
    BY SMTT(60), <1>4, <1>5

\* After a restart S is as kv has it: not touched, or gone.
LEMMA StageRestart ==
  ASSUME IInv, [Next]_vars, Restart
  PROVE  StageInv'
PROOF
  <1>0. TypeOK /\ TNat /\ Merge' = Merge /\ Commit' = Commit /\ RangeInv
    BY Zenon, Numbers, Frozen DEF IInv
  <1>1. /\ sbox' = << >> /\ kv' = kv
        /\ sp' = [Peer EXCEPT !.up = kv.s # "Tombstone", !.last = sdisk.last,
                              !.commit = sdisk.commit, !.sent = kv.sapplied, !.merge = kv.merge]
        /\ sa' = [stopped |-> kv.s = "Tombstone", applied |-> kv.sapplied, write |-> FALSE,
                  tasks |-> << >>]
        /\ ta' = [applied |-> kv.tapplied, ver |-> kv.tver, wait |-> "no", write |-> FALSE]
        /\ meta' = [s |-> kv.s # "Tombstone", tver |-> kv.tver, target |-> 0, atomic |-> "none"]
        /\ tp' = [last |-> tdisk.last, commit |-> tdisk.commit, sent |-> kv.tapplied,
            applied |-> kv.tapplied, snap |-> 0, checked |-> [idx |-> 0, destroy |-> FALSE],
            inst |-> IF kv.t = "Applying"
                     THEN [idx |-> kv.tapplied, phase |-> "applying", destroy |-> FALSE]
                     ELSE NoSnap]
    BY Zenon DEF Restart
  <1>2. /\ sp'.up <=> kv.s # "Tombstone"
        /\ ~sp'.removing /\ sp'.delayed = "none"
    BY Zenon, <1>1 DEF Peer
  <1>3. /\ sa'.stopped <=> kv.s = "Tombstone"
        /\ sa'.tasks = << >> /\ ta'.wait # "ready" /\ ta'.applied = kv.tapplied
        /\ meta'.s <=> kv.s # "Tombstone"
        /\ meta'.atomic = "none" /\ tp'.applied = kv.tapplied
    <2>1. "no" # "ready"
      OBVIOUS
    <2> QED
      BY Zenon, <1>1, <2>1
  <1>4. tp'.inst.phase \in {"none", "applying"}
    BY <1>1 DEF NoSnap
  <1>5. ~Replacing'
    BY <1>4 DEF Replacing
  <1>6. Quiet'
    BY Zenon, <1>3, <1>5 DEF Quiet
  <1>7. CASE kv.s # "Tombstone"
    <2>1. ~ (kv.tapplied < Merge /\ Merge <= kv.tapplied)
      BY <1>0 DEF TNat
    <2>2. ~Executed'
      BY ZenonT(60), <1>0, <1>3, <2>1 DEF Executed
    <2>3. Kinds' = {}
      BY Zenon, <1>1, KindsEmpty
    <2>4. Removal' = {}
      BY <2>3 DEF Removal
    <2>5. Untouched'
      BY ZenonT(60), <1>2, <1>3, <1>6, <1>7, <2>2, <2>4 DEF Untouched
    <2> QED
      BY ZenonT(60), <1>1, <1>2, <1>3, <1>7, <2>5 DEF StageInv
  <1>8. CASE kv.s = "Tombstone"
    <2>1. Merge # 0 /\ kv.tapplied >= Merge
      BY Zenon, <1>0, <1>8 DEF RangeInv
    <2>2. Passed'
      BY ZenonT(60), <1>0, <1>3, <1>5, <2>1 DEF Passed, Known
    <2>3. Gone'
      BY ZenonT(60), <1>1, <1>2, <1>3, <1>6, <1>8, <2>2 DEF Gone
    <2> QED
      BY ZenonT(60), <1>1, <1>3, <1>8, <2>3 DEF StageInv
  <1> QED
    BY SMTT(60), <1>7, <1>8

\* Every step keeps the stage of S's removal.
LEMMA StageNext ==
  ASSUME IInv, [Next]_vars
  PROVE  StageInv'
PROOF
  BY ZenonT(60), StageRaft, StageCatchUp, StageDestroy, StageFlushed, StageStep1, StageTarget,
     StageConfirm, StageHandleDestroy, StageTargetLog, StageWait, StageExec, StageWriteT,
     StageApplyRes, StageStep, StageTake, StagePersist, StageOnPersist, StageRestart
  DEF Next, Work

\* The invariant holds in the first state.
LEMMA InitInv == Init => IInv
PROOF
  <1> SUFFICES ASSUME Init PROVE IInv
    OBVIOUS
  <1>0. TypeOK /\ Logs /\ Epochs
    BY ZenonT(60), TypeInit, LogFacts, EpochFacts
  <1>1. /\ sbox = << >> /\ tbox = << >> /\ low = 0 /\ panic = "none" /\ esdisk = es
        /\ tp.inst = NoSnap
    BY SMTT(60) DEF Init
  <1>2. /\ sp.up /\ sp.last = 0 /\ sp.merge = 0 /\ sp.cul = 0 /\ ~sp.removing /\ sp.delayed = "none"
        /\ sdisk.last = 0 /\ sa.applied = 0 /\ ~sa.stopped /\ ~sa.write /\ sa.tasks = << >>
    BY SMTT(60) DEF Init, Peer
  <1>3. /\ tp.last = 0 /\ tp.commit = 0 /\ tp.sent = 0 /\ tp.applied = 0 /\ tp.snap = 0
        /\ tp.checked.idx = 0 /\ ~tp.checked.destroy
        /\ tp.inst.phase = "none" /\ ~tp.inst.destroy /\ tp.inst.idx = 0
    BY SMTT(60) DEF Init, NoSnap
  <1>4. /\ ta.applied = 0 /\ ta.ver = 1 /\ ta.wait = "no" /\ ~ta.write
        /\ tdisk.last = 0 /\ tdisk.commit = 0
        /\ meta.s /\ meta.tver = 1 /\ meta.atomic = "none"
    BY SMTT(60) DEF Init
  <1>5. /\ kv.s = "Normal" /\ kv.sapplied = 0 /\ kv.merge = 0 /\ kv.t = "Normal"
        /\ kv.tapplied = 0 /\ kv.tver = 1
        /\ es.s /\ es.sapplied = 0 /\ es.tapplied = 0
    BY SMTT(60) DEF Init
  <1>6. Merge \in Nat /\ 0 \in TIdx /\ TRegion[0].ver = 1 /\ Pending[0] = 0
    <2>1. TRegion[0].ver = 1
      BY ZenonT(60), <1>0, MergeAssumption DEF TypeOK, HistoryOK, TRegion
    <2> QED
      BY SMTT(60), <1>0, <2>1 DEF Logs, Epochs
  <1>7. ~ (Merge # 0 /\ 0 >= Merge) /\ ~ (0 < Merge /\ Merge <= 0)
    BY <1>6
  <1>8. ~Covers(0)
    BY ZenonT(60), <1>0, <1>6, <1>7, CoversPast
  <1>9. ~Installing /\ ~Replacing
    BY <1>3 DEF Installing, Replacing
  <1>10. Known = 0
    BY ZenonT(60), <1>3, <1>9 DEF Known
  <1>11. LogInv
    BY SMTT(60), <1>1, <1>2 DEF LogInv
  <1>12. ApplyInv
    BY SMTT(60), <1>2, <1>5, <1>6 DEF ApplyInv
  <1>13. \A i : i \notin 1 .. Len(<< >>)
    OBVIOUS
  <1>14. MailInv
    <2>1. BoxOK(sbox) /\ Closed(sbox, sp.merge)
      BY ZenonT(60), <1>1, <1>13 DEF BoxOK, Closed
    <2>2. 0 \in Nat /\ 0 \in 0 .. 0
      OBVIOUS
    <2>3. Leads(<< >>, 0, 0, 0)
      BY ZenonT(60), <2>2, LeadsEmpty
    <2> QED
      BY ZenonT(60), <1>1, <1>2, <1>5, <2>1, <2>2, <2>3 DEF MailInv
  <1>15. DiskInv
    <2>1. /\ tp.inst.phase \notin {"persisted", "applying", "installed"}
          /\ tp.inst.phase # "persisting" /\ kv.t # "Applying"
      BY SMTT(60), <1>3, <1>5
    <2>2. 0 <= 0
      BY SMTT(60)
    <2> QED
      BY ZenonT(60), <1>1, <1>3, <1>4, <1>5, <1>9, <2>1, <2>2 DEF DiskInv
  <1>16. PositionInv
    BY SMTT(60), <1>1, <1>3, <1>4, <1>5, <1>9 DEF PositionInv
  <1>17. VersionInv
    BY ZenonT(60), <1>4, <1>5, <1>6, <1>10 DEF VersionInv
  <1>18. StoreInv
    BY SMTT(60), <1>1, <1>2, <1>3, <1>4, <1>5 DEF StoreInv
  <1>19. MergedWhole
    BY SMTT(60), <1>1, <1>5, <1>7 DEF MergedWhole
  <1>20. kv.s # "Tombstone"
    BY <1>5
  <1>21. RangeInv
    BY ZenonT(60), <1>3, <1>4, <1>5, <1>8, <1>10, <1>20 DEF RangeInv
  <1>22. Kinds = {}
    BY ZenonT(60), <1>1, KindsEmpty
  <1>23. TokenInv
    BY SMTT(60), <1>2, <1>22 DEF TokenInv
  <1>24. Removal = {} /\ Quiet /\ ta.wait # "ready"
    BY SMTT(60), <1>4, <1>9, <1>22 DEF Removal, Quiet
  <1>25. ~Executed
    BY ZenonT(60), <1>3, <1>4, <1>7 DEF Executed
  <1>26. StageInv
    BY ZenonT(60), <1>2, <1>4, <1>20, <1>24, <1>25 DEF StageInv, Untouched
  <1> QED
    BY ZenonT(60), <1>0, <1>1, <1>11, <1>12, <1>14, <1>15, <1>16, <1>17, <1>18, <1>19, <1>21, <1>23,
       <1>26 DEF IInv, NoPanic

\* Every step keeps the invariant.
LEMMA NextInv == IInv /\ [Next]_vars => IInv'
PROOF
  BY ZenonT(60), TypeNext, PanicNext, LogNext, ApplyNext, MailNext, DiskNext, PositionNext, VersionNext,
     StoreNext, MergedNext, RangeNext, TokenNext, StageNext
  DEF IInv

\* The invariant always holds.
LEMMA AlwaysInv == Spec => []IInv
PROOF
  BY InitInv, NextInv, PTL DEF Spec

\* The store, range and disk parts together keep S's data.
LEMMA KeptInv == IInv => SourceKept
PROOF
  <1> SUFFICES ASSUME IInv PROVE SourceKept
    OBVIOUS
  <1>0. TypeOK /\ TNat /\ StoreInv /\ RangeInv
    BY Zenon, Numbers DEF IInv
  <1>1. kv.t \in {"Normal", "Applying"}
    BY Zenon, <1>0 DEF TypeOK, Kv
  <1>2. ASSUME Merge # 0, kv.tapplied >= Merge PROVE Replaced
    <2>1. kv.t = "Normal" => esdisk.tapplied >= kv.tapplied
      BY Zenon, <1>0 DEF StoreInv
    <2>2. kv.t = "Normal" => esdisk.tapplied >= Merge
      BY SMTT(60), <1>0, <1>2, <2>1 DEF TNat
    <2> QED
      BY Zenon, <1>1, <1>2, <2>2 DEF Replaced
  <1>3. kv.s = "Tombstone" => Merge # 0 /\ kv.tapplied >= Merge
    BY Zenon, <1>0 DEF RangeInv
  <1>4. /\ es.s => esdisk.s /\ esdisk.sapplied >= kv.sapplied
        /\ ~es.s => Merge # 0 /\ (esdisk.tapplied >= Merge \/ kv.tapplied >= Merge)
    BY Zenon, <1>0 DEF StoreInv
  <1> QED
    BY Zenon, <1>2, <1>3, <1>4 DEF SourceKept

\* Versions tell T's regions apart, so StoreMeta's version tells whether T covers S's range.
LEMMA DisjointInv == IInv => RangesDisjoint
PROOF
  <1> SUFFICES ASSUME IInv PROVE RangesDisjoint
    OBVIOUS
  <1>0. TypeOK /\ Epochs /\ Known \in TIdx
    BY Zenon, EpochFacts, KnownTyped DEF IInv
  <1>1. meta.s => ~Covers(Known)
    BY Zenon DEF IInv, RangeInv
  <1>2. meta.tver = TRegion[Known].ver
    BY Zenon DEF IInv, VersionInv
  <1>3. ASSUME meta.s, NEW i \in TIdx, meta.tver = TRegion[i].ver PROVE ~TRegion[i].covers
    <2>1. TRegion[Known].ver = TRegion[i].ver
      BY Zenon, <1>2, <1>3
    <2>2. Covers(Known) = Covers(i)
      BY ZenonT(60), <1>0, <1>3, <2>1 DEF Epochs
    <2> QED
      BY SMTT(60), <1>1, <1>3, <2>2 DEF Covers
  <1>4. sp.up /\ ~meta.s => sp.removing
    BY Zenon DEF IInv, StageInv, Leaving, Gone
  <1> QED
    BY Zenon, <1>3, <1>4 DEF RangesDisjoint

\* The variables keep their types, and T's peer applies only what is committed.
THEOREM TypeCorrect == Spec => []TypeOK
PROOF
  <1>1. IInv => TypeOK
    BY DEF IInv
  <1> QED
    BY <1>1, AlwaysInv, PTL

\* No assertion, unwrap or panic of the merge code fails.
THEOREM PanicFree == Spec => []NoPanic
PROOF
  <1>1. IInv => NoPanic
    BY DEF IInv
  <1> QED
    BY <1>1, AlwaysInv, PTL

\* exec_commit_merge and snapshots bring the whole log of S up to the PrepareMerge into T, in
\* memory and on disk.
THEOREM MergesWhole == Spec => []MergedWhole
PROOF
  <1>1. IInv => MergedWhole
    BY DEF IInv
  <1> QED
    BY <1>1, AlwaysInv, PTL

\* S's tombstone is on disk, and S's data out of the engine-store, only with what replaces S:
\* no crash loses data of S, not even one in the middle of destroy_peer.
THEOREM KeepsSource == Spec => []SourceKept
PROOF
  BY KeptInv, AlwaysInv, PTL

\* StoreMeta never gives S's range to both regions, and an S it has lost is being removed.
THEOREM KeepsDisjoint == Spec => []RangesDisjoint
PROOF
  BY DisjointInv, AlwaysInv, PTL
====
