-------------------------- MODULE FastAddPeerProofs --------------------------
(***************************************************************************)
(* Proofs about FastAddPeer, for one or two tickers, any length of the log *)
(* and any number of crashes.                                              *)
(***************************************************************************)
EXTENDS FastAddPeer, TLAPS

\* The peer, the persisted state, the worker's job and the engine-store agree.
PeerInv ==
  /\ peer = "initialized" <=> region_state # "none"
  /\ wpc # "idle" => region_state = "Applying" /\ tick["peer"] \notin Destroying
  /\ tick["peer"] \in Destroying => peer # "absent" /\ task = NoSnapshot /\ kvstore = NoRegion
  /\ region_state = "none" => kvstore = NoRegion
  /\ peer = "absent" => net = {}
  /\ peer # "absent" => joined >= 1

\* What raft has taken waits for the write worker, ahead of what was applied.
AcceptedInv ==
  accepted # NoSnapshot =>
    /\ peer # "absent" /\ region_state # "Applying" /\ tick["peer"] \notin Destroying
    /\ accepted.idx >= 1
    /\ peer = "initialized" => snap.idx < accepted.idx

\* A snapshot has an index, which tells it from "none".
IndexInv ==
  /\ \A s \in net : s.idx >= 1
  /\ region_state # "none" => snap.idx >= 1
  /\ \A t \in Tickers : tick[t] = "build" => tick_index[t] >= 1

\* The engine-store is not ahead of the current snapshot, and what it has of it is
\* whole.
DataInv ==
  /\ region_state # "none" => kvstore.idx <= snap.idx
  /\ (region_state = "Normal" \/ wpc = "done") /\ ~dropped => kvstore.idx = snap.idx
  /\ region_state # "none" /\ kvstore.idx = snap.idx =>
       kvstore.full \/ overtaken \/ raced \/ (dropped /\ snap.fake)

\* The data of a fake snapshot is either still to be applied, or in the engine-store.
FakeInv ==
  region_state = "Applying" /\ snap.fake /\ ~overtaken /\ ~raced /\ ~dropped =>
    \/ kvstore = [idx |-> snap.idx, full |-> TRUE]
    \/ kvstore = NoRegion /\ fap = snap.idx /\ wpc # "done"

\* Without a peer no MsgAppend starts a fast path.
VacantInv ==
  peer = "absent" \/ tick["peer"] = "removed" =>
    cached = Vacant \/ ~cached.replicated_or_created

\* Without a race there is one fast path at a time, it runs only while the peer has
\* no snapshot, its info is there, and nobody else touches its FAP snapshot.
TickInv ==
  \A t \in Tickers : tick[t] \in FastPath =>
    /\ peer = "replicated" /\ cached # Vacant
    /\ \A u \in Tickers \ {t} : tick[u] = "idle"
    /\ tick[t] = "build" => tick_index[t] = fap

Fakes == {s \in net \cup {accepted} : s.fake}

\* Once a fake snapshot is on its way, snapshot_inflight stops the next fast path.
InflightInv ==
  peer = "replicated" /\ tick["peer"] \notin Destroying /\ Fakes # {} =>
    /\ \A s \in Fakes : s.idx = fap
    /\ \/ \E t \in Tickers : tick[t] = "sent"
       \/ /\ \A t \in Tickers : tick[t] = "idle"
          /\ cached # Vacant /\ cached.snapshot_inflight

\* The pre-handle task is of the current snapshot, and none is left behind by a
\* FAP snapshot, whose application does not take it.
TaskInv ==
  /\ task \in {NoSnapshot, snap}
  /\ wpc # "pending" => task = NoSnapshot
  /\ wpc = "pending" /\ ~RegionExists /\ Persisted => task = NoSnapshot
  /\ wpc = "apply_fap" => Persisted

RaceInv == raced \/ (~panicked /\ TickInv /\ InflightInv /\ TaskInv)

StateInv == PeerInv /\ AcceptedInv /\ IndexInv /\ DataInv /\ FakeInv /\ VacantInv

IInv == TypeOK /\ StateInv /\ RaceInv

-----------------------------------------------------------------------------
\* Updates of a CachedRegionInfo.
LEMMA InfoUpdates ==
  ASSUME NEW c \in Info, NEW b \in BOOLEAN
  PROVE  /\ [c EXCEPT !.snapshot_inflight = b] \in Info
         /\ [c EXCEPT !.snapshot_inflight = b].snapshot_inflight = b
         /\ [c EXCEPT !.replicated_or_created = b] \in Info
         /\ [c EXCEPT !.replicated_or_created = b].snapshot_inflight = c.snapshot_inflight
         /\ [c EXCEPT !.inited_or_fallback = b] \in Info
         /\ [c EXCEPT !.inited_or_fallback = b].snapshot_inflight = c.snapshot_inflight
  BY DEF Info

LEMMA InfoTwoUpdates ==
  ASSUME NEW c \in Info, NEW b \in BOOLEAN, NEW d \in BOOLEAN
  PROVE  /\ [c EXCEPT !.inited_or_fallback = b, !.fast_add_peer_start = d] \in Info
         /\ [c EXCEPT !.inited_or_fallback = b, !.fast_add_peer_start = d].snapshot_inflight
              = c.snapshot_inflight
  BY Zenon DEF Info

\* The records of the model, built and taken apart.
LEMMA Records ==
  /\ \A i \in 0 .. MaxIndex, b \in BOOLEAN :
       [fake |-> b, idx |-> i] \in Snapshots /\ [idx |-> i, full |-> b] \in Stored
  /\ \A s \in Snapshots : s.fake \in BOOLEAN /\ s.idx \in 0 .. MaxIndex
  /\ \A k \in Stored : k.full \in BOOLEAN /\ k.idx \in 0 .. MaxIndex
  /\ NoSnapshot \in Snapshots /\ NoRegion \in Stored
  BY BoundsAssumption DEF Snapshots, Stored, NoSnapshot, NoRegion

LEMMA NewInfos ==
  /\ \A a \in BOOLEAN, b \in BOOLEAN, c \in BOOLEAN : NewInfo(a, b, c) \in Info
  /\ \A c \in Info : EndFap(c) \in Info
  BY DEF NewInfo, EndFap, Info

\* What a MsgAppend, a role change or a MsgSnapshot makes of the info.
LEMMA InfoSteps ==
  ASSUME TypeOK
  PROVE  /\ TickInfo \in Info \cup {Vacant}
         /\ FilterInfo \in Info \cup {Vacant}
         /\ OnRegionCreated(FilterInfo) \in Info
         /\ RoleChangeInfo \in Info
         /\ cached \in Info =>
              /\ TickInfo \in Info /\ TickInfo.snapshot_inflight = cached.snapshot_inflight
              /\ FilterInfo \in Info /\ FilterInfo.snapshot_inflight = cached.snapshot_inflight
              /\ RoleChangeInfo.snapshot_inflight = cached.snapshot_inflight
              /\ Inflight \in Info /\ Inflight.snapshot_inflight
<1>0. cached \in Info \cup {Vacant} /\ IsInitialized \in BOOLEAN /\ Vacant \notin Info
  BY VacantAssumption DEF TypeOK, IsInitialized
<1>1. CASE cached = Vacant
  BY Zenon, <1>0, <1>1, NewInfos DEF TickInfo, FilterInfo, OnRegionCreated, RoleChangeInfo
<1>2. CASE cached \in Info
  <2>0. /\ cached # Vacant /\ cached.inited_or_fallback \in BOOLEAN
        /\ cached.fast_add_peer_start \in BOOLEAN /\ cached.replicated_or_created \in BOOLEAN
    BY <1>0, <1>2 DEF Info
  <2> DEFINE b == cached.inited_or_fallback \/ IsInitialized
             r == cached.replicated_or_created \/ peer = "replicated"
             d == cached.fast_add_peer_start
                    \/ (/\ ~cached.inited_or_fallback /\ ~IsInitialized
                        /\ ~cached.snapshot_inflight)
  <2>1. TickInfo = [cached EXCEPT !.inited_or_fallback = b, !.fast_add_peer_start = d]
    BY <2>0, Zenon DEF TickInfo
  <2>2. FilterInfo = [cached EXCEPT !.inited_or_fallback = b]
    BY <2>0, Zenon DEF FilterInfo
  <2>3. RoleChangeInfo = [cached EXCEPT !.replicated_or_created = r]
    BY <2>0, Zenon DEF RoleChangeInfo
  <2>4. b \in BOOLEAN /\ d \in BOOLEAN /\ r \in BOOLEAN
    BY <2>0, <1>0
  <2> HIDE DEF b, d, r
  <2>5. TickInfo \in Info /\ TickInfo.snapshot_inflight = cached.snapshot_inflight
    BY <2>1, <2>4, <1>2, InfoTwoUpdates, Zenon
  <2>6. FilterInfo \in Info /\ FilterInfo.snapshot_inflight = cached.snapshot_inflight
    BY <2>2, <2>4, <1>2, InfoUpdates, Zenon
  <2>7. RoleChangeInfo \in Info /\ RoleChangeInfo.snapshot_inflight = cached.snapshot_inflight
    BY ZenonT(40), <2>3, <2>4, <1>2, InfoUpdates, Zenon
  <2>8. Inflight \in Info /\ Inflight.snapshot_inflight
    BY <1>2, InfoUpdates, Zenon DEF Inflight
  <2>9. OnRegionCreated(FilterInfo) \in Info
    BY <2>6, <1>0, Zenon DEF OnRegionCreated
  <2> QED
    BY <2>5, <2>6, <2>7, <2>8, <2>9, Zenon
<1> QED
  BY <1>0, <1>1, <1>2

\* Only a role change or a Create event marks a region as replicated.
LEMMA InfoReplicated ==
  ASSUME TypeOK, cached = Vacant \/ ~cached.replicated_or_created
  PROVE  /\ TickInfo = Vacant \/ ~TickInfo.replicated_or_created
         /\ cached # Vacant =>
              /\ ~EndFap(cached).replicated_or_created
              /\ ~Inflight.replicated_or_created
<1>0. cached \in Info \cup {Vacant} /\ IsInitialized \in BOOLEAN /\ Vacant \notin Info
  BY VacantAssumption DEF TypeOK, IsInitialized
<1>1. CASE cached = Vacant
  <2>1. ~NewInfo(FALSE, FALSE, TRUE).replicated_or_created
    BY DEF NewInfo
  <2> QED
    BY Zenon, <1>0, <1>1, <2>1 DEF TickInfo
<1>2. CASE cached \in Info
  <2>0. /\ cached # Vacant /\ cached.inited_or_fallback \in BOOLEAN
        /\ cached.fast_add_peer_start \in BOOLEAN /\ cached.replicated_or_created \in BOOLEAN
    BY <1>0, <1>2 DEF Info
  <2> DEFINE b == cached.inited_or_fallback \/ IsInitialized
             d == cached.fast_add_peer_start
                    \/ (/\ ~cached.inited_or_fallback /\ ~IsInitialized
                        /\ ~cached.snapshot_inflight)
  <2>1. TickInfo = [cached EXCEPT !.inited_or_fallback = b, !.fast_add_peer_start = d]
    BY <2>0, Zenon DEF TickInfo
  <2> HIDE DEF b, d
  <2>2. TickInfo.replicated_or_created = cached.replicated_or_created
    BY <2>1, <1>2 DEF Info
  <2>3. /\ EndFap(cached).replicated_or_created = cached.replicated_or_created
        /\ Inflight.replicated_or_created = cached.replicated_or_created
    BY <1>2 DEF EndFap, NewInfo, Inflight, Info
  <2> QED
    BY Zenon, <2>0, <2>2, <2>3
<1> QED
  BY <1>0, <1>1, <1>2

\* Type correctness is inductive by itself.
LEMMA TypeStep ==
  ASSUME TypeOK, [Next]_vars
  PROVE  TypeOK'
<1> USE TickersAssumption, BoundsAssumption, Records, NewInfos, InfoSteps
<1> DEFINE installed == [idx |-> snap.idx, full |-> ~snap.fake]
<1>a. installed \in Stored
  <2>1. snap.idx \in 0 .. MaxIndex /\ (~snap.fake) \in BOOLEAN
    BY TypeOK DEF TypeOK
  <2> QED
    BY <2>1, Records, Zenon
<1>b. [idx |-> fap, full |-> TRUE] \in Stored
  BY TypeOK, Records, Zenon DEF TypeOK
<1>c. 0 \in 0 .. MaxIndex
  OBVIOUS
<1> HIDE DEF installed
<1> USE TypeOK DEF TypeOK, vars, raftVars, msgVars, tickVars, workerVars, historyVars, FastPath, Destroying
<1>d. ASSUME NEW t \in Tickers, EndTick(t)
      PROVE  /\ tick' \in [Tickers -> {"idle"} \cup FastPath \cup Destroying]
             /\ tick_peer' \in [Tickers -> 0 .. MaxIndex]
             /\ tick_index' \in [Tickers -> 0 .. MaxIndex]
  BY <1>d DEF EndTick
<1>1. ASSUME NEW t \in Tickers, Tick(t) PROVE TypeOK'
  BY <1>1 DEF Tick, TickBody
<1>2. ASSUME NEW t \in Tickers, FapWait(t) PROVE TypeOK'
  BY <1>2, <1>d DEF FapWait
<1>3. ASSUME NEW t \in Tickers, FapOk(t) PROVE TypeOK'
  BY <1>3 DEF FapOk
<1>4. ASSUME NEW t \in Tickers, FapError(t) PROVE TypeOK'
  BY <1>4 DEF FapError
<1>5. ASSUME NEW t \in Tickers, FallbackClear(t) PROVE TypeOK'
  BY <1>5 DEF FallbackClear
<1>6. ASSUME NEW t \in Tickers, FallbackToSlowPath(t) PROVE TypeOK'
  <2>1. EndTick(t)
    BY Zenon, <1>6 DEF FallbackToSlowPath
  <2>2. cached' \in Info \cup {Vacant} /\ panicked' \in BOOLEAN
    BY Zenon, <1>6 DEF FallbackToSlowPath
  <2> QED
    BY <1>6, <1>d, <2>1, <2>2 DEF FallbackToSlowPath
<1>7. ASSUME NEW t \in Tickers, BuildError(t) PROVE TypeOK'
  BY <1>7 DEF BuildError
<1>8. ASSUME NEW t \in Tickers, SendRegionNotFound(t) PROVE TypeOK'
  BY <1>8, <1>d DEF SendRegionNotFound
<1>9. ASSUME NEW t \in Tickers, SendFake(t) PROVE TypeOK'
  <2>1. tick_index[t] \in 0 .. MaxIndex
    OBVIOUS
  <2>2. [fake |-> TRUE, idx |-> tick_index[t]] \in Snapshots
    BY Zenon, <2>1
  <2>3. net' \subseteq Snapshots
    BY Zenon, <1>9, <2>2 DEF SendFake, SendBody
  <2> QED
    BY <1>9, <2>3 DEF SendFake, SendBody
<1>10. ASSUME NEW t \in Tickers, SetSnapshotInflight(t) PROVE TypeOK'
  <2>1. EndTick(t)
    BY Zenon, <1>10 DEF SetSnapshotInflight
  <2>2. cached' \in Info \cup {Vacant} /\ panicked' \in BOOLEAN
    BY Zenon, <1>10 DEF SetSnapshotInflight
  <2> QED
    BY <1>10, <1>d, <2>1, <2>2 DEF SetSnapshotInflight
<1>11. CASE LeaderAppend
  BY <1>11 DEF LeaderAppend
<1>12. CASE CreatePeer
  BY <1>12 DEF CreatePeer
<1>13. CASE OnRoleChange
  BY <1>13 DEF OnRoleChange
<1>14. CASE TickAbsent
  BY <1>14 DEF TickAbsent
<1>15. CASE SendRegular
  <2>1. PICK i \in joined .. leader_index : net' = net \cup {[fake |-> FALSE, idx |-> i]}
    BY <1>15 DEF SendRegular
  <2>2. i \in 0 .. MaxIndex
    OBVIOUS
  <2>3. [fake |-> FALSE, idx |-> i] \in Snapshots
    BY <2>2, Records, Zenon
  <2> QED
    BY ZenonT(60), <1>15, <2>1, <2>3 DEF SendRegular
<1>16. CASE LoseSnapshot
  BY SMTT(60), <1>16 DEF LoseSnapshot
<1>17. ASSUME NEW s \in net, RecvSnapshot(s) PROVE TypeOK'
  BY <1>17 DEF RecvSnapshot
<1>18. CASE DestroyPeer
  BY Zenon, <1>18 DEF DestroyPeer, OtherBusy
<1>27. CASE PersistSnapshot
  <2>1. cached' \in Info \cup {Vacant}
    BY Zenon, <1>27 DEF PersistSnapshot, OnRegionCreated
  <2> QED
    BY Zenon, <1>27, <2>1 DEF PersistSnapshot, OtherBusy
<1>28. CASE HandleDestroy
  BY <1>28, <1>c DEF HandleDestroy, OtherBusy
<1>29. CASE RemoveCachedRegionInfo
  BY <1>29 DEF RemoveCachedRegionInfo
<1>19. CASE Restart
  <2>1. cached' \in Info \cup {Vacant}
    BY <1>19, NewInfos, Zenon DEF Restart, OnRegionCreated
  <2>2. /\ tick' \in [Tickers -> {"idle"} \cup FastPath \cup Destroying]
        /\ tick_peer' \in [Tickers -> 0 .. MaxIndex] /\ tick_index' \in [Tickers -> 0 .. MaxIndex]
    BY SMTT(60), <1>19 DEF Restart
  <2>3. crashes' \in 0 .. MaxCrashes
    BY SMTT(60), <1>19 DEF Restart
  <2>4. net' \subseteq Snapshots /\ task' \in Snapshots
    BY SMTT(60), <1>19 DEF Restart
  <2> QED
    BY <1>19, <2>1, <2>2, <2>3, <2>4 DEF Restart
<1>20. CASE PreApplySnapshot
  BY SMTT(60), <1>20 DEF PreApplySnapshot
<1>e. ASSUME PostRegular
      PROVE  /\ kvstore' \in Stored /\ fap' \in 0 .. MaxIndex /\ task' \in Snapshots
             /\ wpc' \in {"idle", "queued", "pending", "apply_fap", "done"}
             /\ panicked' \in BOOLEAN /\ dropped' \in BOOLEAN
  <2>1. (dropped /\ snap.fake) \in BOOLEAN /\ "done" \in {"idle", "queued", "pending", "apply_fap", "done"}
    OBVIOUS
  <2> QED
    BY ZenonT(60), <1>e, <2>1, <1>a, <1>c DEF PostRegular, ApplyPreHandledSnapshot, installed
<1>21. CASE PostExisting
  <2>1. PostRegular
    BY Zenon, <1>21 DEF PostExisting
  <2> QED
    BY <1>21, <1>e, <2>1 DEF PostExisting
<1>22. CASE PostNoFap
  <2>1. PostRegular
    BY Zenon, <1>22 DEF PostNoFap
  <2>2. cached' \in Info \cup {Vacant}
    BY Zenon, <1>22 DEF PostNoFap
  <2> QED
    BY <1>22, <1>e, <2>1, <2>2 DEF PostNoFap
<1>23. CASE PostFoundFap
  BY <1>23 DEF PostFoundFap
<1>24. CASE ApplyFapSnapshot
  BY ZenonT(60), <1>24, <1>b, <1>c DEF ApplyFapSnapshot
<1>25. CASE WriteNormal
  BY <1>25 DEF WriteNormal
<1>26. CASE UNCHANGED vars
  BY <1>26
<1> QED
  BY ZenonT(60), [Next]_vars, <1>1, <1>2, <1>3, <1>4, <1>5, <1>6, <1>7, <1>8, <1>9, <1>10, <1>11, <1>12,
       <1>13, <1>14, <1>15, <1>16, <1>17, <1>18, <1>19, <1>20, <1>21, <1>22, <1>23, <1>24,
       <1>25, <1>26, <1>27, <1>28, <1>29
     DEF Next, TickerStep, CallStep, RaftStep, WorkerStep

-----------------------------------------------------------------------------
\* Without a peer the info stays unmarked.
LEMMA VacantStep ==
  ASSUME TypeOK, PeerInv, VacantInv, [Next]_vars
  PROVE  VacantInv'
<1> USE DEF raftVars, msgVars, tickVars, workerVars, historyVars
<1>0. /\ "peer" \in Tickers /\ tick \in [Tickers -> {"idle"} \cup FastPath \cup Destroying]
      /\ peer \in {"absent", "replicated", "initialized"}
  BY TickersAssumption DEF TypeOK
\* A step that neither destroys the peer nor marks the info.
<1>1. ASSUME peer' = peer, tick'["peer"] = "removed" => tick["peer"] = "removed",
             cached = Vacant \/ ~cached.replicated_or_created =>
               cached' = Vacant \/ ~cached'.replicated_or_created
      PROVE  VacantInv'
  BY Zenon, <1>1 DEF VacantInv
\* A step that finds the peer there and leaves it there.
<1>2. ASSUME peer' # "absent", tick'["peer"] # "removed" PROVE VacantInv'
  BY Zenon, <1>2 DEF VacantInv
<1>3. ASSUME NEW t \in Tickers, TickerStep(t) PROVE VacantInv'
  <2>1. peer' = peer /\ (tick'["peer"] = tick["peer"] \/ tick'["peer"] \in {"idle"} \cup FastPath)
    BY <1>0, <1>3
       DEF TickerStep, CallStep, Tick, TickBody, FapWait, FapOk, FapError, FallbackClear,
           FallbackToSlowPath, BuildError, SendRegionNotFound, SendFake, SendBody,
           SetSnapshotInflight, EndTick, FastPath
  <2>2. tick'["peer"] = "removed" => tick["peer"] = "removed"
    BY <2>1 DEF FastPath
  <2>3. \/ cached' \in {cached, TickInfo}
        \/ cached # Vacant /\ cached' \in {EndFap(cached), Inflight}
    BY Zenon, <1>3
       DEF TickerStep, CallStep, Tick, TickBody, FapWait, FapOk, FapError, FallbackClear,
           FallbackToSlowPath, BuildError, SendRegionNotFound, SendFake, SendBody,
           SetSnapshotInflight
  <2>4. ASSUME cached = Vacant \/ ~cached.replicated_or_created
        PROVE  cached' = Vacant \/ ~cached'.replicated_or_created
    <3>1. /\ TickInfo = Vacant \/ ~TickInfo.replicated_or_created
          /\ cached # Vacant =>
               /\ ~EndFap(cached).replicated_or_created
               /\ ~Inflight.replicated_or_created
      BY Zenon, <2>4, InfoReplicated
    <3>2. CASE cached' = cached
      BY Zenon, <2>4, <3>2
    <3>3. CASE cached' = TickInfo
      BY Zenon, <3>1, <3>3
    <3>4. CASE cached # Vacant /\ cached' = EndFap(cached)
      BY Zenon, <3>1, <3>4
    <3>5. CASE cached # Vacant /\ cached' = Inflight
      BY Zenon, <3>1, <3>5
    <3> QED
      BY Zenon, <2>3, <3>2, <3>3, <3>4, <3>5
  <2> QED
    BY Zenon, <1>1, <2>1, <2>2, <2>4
<1>4. CASE LeaderAppend \/ SendRegular \/ LoseSnapshot \/ HandleDestroy
  <2>1. peer' = peer /\ cached' = cached /\ (tick'["peer"] = tick["peer"] \/ tick'["peer"] = "dropped")
    BY <1>0, <1>4 DEF LeaderAppend, SendRegular, LoseSnapshot, HandleDestroy
  <2>2. tick'["peer"] = "removed" => tick["peer"] = "removed"
    BY <2>1
  <2> QED
    BY Zenon, <1>1, <2>1, <2>2
<1>5. CASE TickAbsent
  BY Zenon, <1>1, <1>5, InfoReplicated DEF TickAbsent
<1>6. CASE CreatePeer
  <2>1. peer = "absent" /\ peer' = "replicated" /\ tick' = tick
    BY Zenon, <1>6 DEF CreatePeer
  <2>2. tick["peer"] # "removed"
    BY Zenon, <2>1 DEF PeerInv, Destroying
  <2>3. peer' # "absent"
    BY <2>1
  <2> QED
    BY Zenon, <1>2, <2>1, <2>2, <2>3
<1>7. CASE OnRoleChange \/ PersistSnapshot \/ \E s \in net : RecvSnapshot(s)
  <2>1. /\ peer # "absent" \/ peer' = "initialized"
        /\ peer' \in {peer, "initialized"} /\ tick["peer"] = "idle" /\ tick' = tick
    BY Zenon, <1>7 DEF OnRoleChange, PersistSnapshot, RecvSnapshot
  <2>2. peer' # "absent" /\ tick'["peer"] # "removed"
    BY <2>1
  <2> QED
    BY Zenon, <1>2, <2>2
<1>8. CASE RemoveCachedRegionInfo
  BY Zenon, <1>8 DEF RemoveCachedRegionInfo, VacantInv
<1>9. CASE DestroyPeer
  BY Zenon, <1>9 DEF DestroyPeer, VacantInv
<1>10. CASE Restart
  <2>1. /\ tick'["peer"] = "idle" /\ peer' = IF region_state = "none" THEN "absent" ELSE peer
        /\ cached' = IF region_state = "Normal" THEN OnRegionCreated(Vacant) ELSE Vacant
    BY <1>0, <1>10 DEF Restart
  <2>2. tick'["peer"] # "removed" /\ (region_state = "Normal" => region_state # "none")
    BY <2>1
  <2>3. region_state # "none" => peer = "initialized"
    BY Zenon DEF PeerInv
  <2>4. region_state # "none" => peer' # "absent"
    BY <2>1, <2>3
  <2> QED
    BY Zenon, <2>1, <2>2, <2>4 DEF VacantInv
<1>11. CASE WorkerStep
  <2>1. wpc # "idle" /\ peer' = peer /\ tick' = tick
    BY <1>11
       DEF WorkerStep, PreApplySnapshot, PostExisting, PostNoFap, PostFoundFap, ApplyFapSnapshot,
           WriteNormal
  <2>2. peer = "initialized" /\ tick["peer"] \notin Destroying
    BY <2>1 DEF PeerInv
  <2>3. peer' # "absent" /\ tick'["peer"] # "removed"
    BY <2>1, <2>2 DEF Destroying
  <2> QED
    BY Zenon, <1>2, <2>3
<1>12. CASE UNCHANGED vars
  BY Zenon, <1>12 DEF vars, VacantInv
<1> QED
  BY Zenon, <1>3, <1>4, <1>5, <1>6, <1>7, <1>8, <1>9, <1>10, <1>11, <1>12 DEF Next, RaftStep

-----------------------------------------------------------------------------
\* A fast path that has met no race: the peer has no snapshot, the worker nothing to do,
\* the other thread is idle, and before it has sent its fake snapshot there is none.
LEMMA FastPathAlone ==
  ASSUME IInv, ~raced, NEW t \in Tickers, tick[t] \in FastPath
  PROVE  /\ peer = "replicated" /\ region_state = "none" /\ wpc = "idle" /\ cached \in Info
         /\ ~panicked /\ tick["peer"] \notin Destroying
         /\ \A u \in Tickers \ {t} : tick[u] = "idle"
         /\ tick[t] # "sent" => Fakes = {}
<1>1. /\ peer = "replicated" /\ cached # Vacant /\ ~panicked
      /\ \A u \in Tickers \ {t} : tick[u] = "idle"
  BY Zenon DEF IInv, RaceInv, TickInv
<1>2. /\ peer \in {"absent", "replicated", "initialized"} /\ cached \in Info \cup {Vacant}
      /\ "peer" \in Tickers /\ tick[t] # "idle"
  BY TickersAssumption DEF IInv, TypeOK, FastPath
<1>3. /\ peer = "initialized" <=> region_state # "none"
      /\ wpc # "idle" => region_state = "Applying"
  BY Zenon DEF IInv, StateInv, PeerInv
<1>4. region_state = "none" /\ wpc = "idle"
  BY <1>1, <1>3
<1>5. tick["peer"] \notin Destroying
  BY <1>1, <1>2 DEF FastPath, Destroying
<1>6. tick[t] # "sent" => Fakes = {}
  <2>1. ASSUME tick[t] # "sent", NEW u \in Tickers PROVE tick[u] # "sent"
    BY <1>1, <2>1
  <2> QED
    BY Zenon, <1>1, <1>2, <1>5, <2>1 DEF IInv, RaceInv, InflightInv
<1> QED
  BY Zenon, <1>1, <1>2, <1>4, <1>5, <1>6

\* Most steps touch only the info, the tickers' places, the pre-handle task and the
\* order of the worker: no snapshot is sent, accepted or dropped, no data moves.
Quiet ==
  /\ UNCHANGED <<peer, region_state, snap, fap, kvstore, joined, accepted, overtaken, dropped>>
  /\ net' \subseteq net
  /\ raced => raced'
  /\ wpc' = wpc \/ {wpc, wpc'} \subseteq {"queued", "pending", "apply_fap"}
  /\ tick'["peer"] \in Destroying <=> tick["peer"] \in Destroying
  /\ tick["peer"] \in Destroying => task' = task
  /\ \A t \in Tickers :
       tick'[t] = "build" => tick[t] = "build" /\ tick_index'[t] = tick_index[t]

DataInvs == PeerInv /\ AcceptedInv /\ IndexInv /\ DataInv /\ FakeInv

LEMMA QuietKeeps ==
  ASSUME TypeOK, DataInvs, Quiet
  PROVE  DataInvs'
<1> USE DEF DataInvs
<1>1. PeerInv' /\ AcceptedInv' /\ IndexInv'
  BY DEF Quiet, PeerInv, AcceptedInv, IndexInv
<1>2. FakeInv' /\ DataInv'
  BY SMTT(60) DEF Quiet, FakeInv, DataInv, TypeOK
<1> QED
  BY <1>1, <1>2

LEMMA QuietSteps ==
  ASSUME TypeOK, PeerInv, TypeOK',
         \/ \E t \in Tickers :
              \/ Tick(t) \/ FapWait(t) \/ FapError(t) \/ FallbackToSlowPath(t) \/ BuildError(t)
              \/ SendRegionNotFound(t) \/ SetSnapshotInflight(t)
         \/ LeaderAppend \/ OnRoleChange \/ TickAbsent \/ LoseSnapshot
         \/ RemoveCachedRegionInfo \/ PreApplySnapshot \/ PostFoundFap \/ UNCHANGED vars
  PROVE  Quiet
<1> USE TickersAssumption
   DEF Quiet, TypeOK, FastPath, Destroying, vars, raftVars, msgVars, tickVars, workerVars,
       historyVars
<1>1. ASSUME NEW t \in Tickers, Tick(t) PROVE Quiet
  BY SMTT(60), <1>1 DEF Tick, TickBody, MayTick
<1>2. ASSUME NEW t \in Tickers, FapError(t) \/ BuildError(t) PROVE  Quiet
  BY SMTT(60), <1>2 DEF FapError, BuildError
<1>3. ASSUME NEW t \in Tickers, FapWait(t) \/ SendRegionNotFound(t) PROVE  Quiet
  BY SMTT(60), <1>3 DEF FapWait, SendRegionNotFound, EndTick
<1>4. ASSUME NEW t \in Tickers, FallbackToSlowPath(t) \/ SetSnapshotInflight(t) PROVE Quiet
  BY SMTT(60), <1>4 DEF FallbackToSlowPath, SetSnapshotInflight, EndTick
<1>5. CASE LeaderAppend \/ OnRoleChange \/ TickAbsent \/ LoseSnapshot
  BY SMTT(60), <1>5 DEF LeaderAppend, OnRoleChange, TickAbsent, LoseSnapshot
<1>6. CASE RemoveCachedRegionInfo
  BY SMTT(60), <1>6 DEF RemoveCachedRegionInfo
<1>7. CASE PreApplySnapshot \/ PostFoundFap
  BY SMTT(60), <1>7 DEF PreApplySnapshot, PostFoundFap, PeerInv
<1>8. CASE UNCHANGED vars
  BY SMTT(40), <1>8
<1> QED
  BY Zenon, <1>1, <1>2, <1>3, <1>4, <1>5, <1>6, <1>7, <1>8

\* Types the following lemmas need.
LEMMA DataTypes ==
  ASSUME TypeOK
  PROVE  /\ "peer" \in Tickers /\ tick \in [Tickers -> {"idle"} \cup FastPath \cup Destroying]
         /\ tick_index \in [Tickers -> 0 .. MaxIndex]
         /\ kvstore.idx \in Nat /\ snap.idx \in Nat /\ accepted.idx \in Nat /\ \A s \in net : s.idx \in Nat
         /\ snap.fake \in BOOLEAN /\ kvstore.full \in BOOLEAN
<1>1. /\ "peer" \in Tickers /\ tick \in [Tickers -> {"idle"} \cup FastPath \cup Destroying]
      /\ tick_index \in [Tickers -> 0 .. MaxIndex]
  BY TickersAssumption DEF TypeOK
<1>2. /\ kvstore.idx \in Nat /\ snap.idx \in Nat /\ accepted.idx \in Nat /\ \A s \in net : s.idx \in Nat
      /\ snap.fake \in BOOLEAN /\ kvstore.full \in BOOLEAN
  BY BoundsAssumption DEF TypeOK, Snapshots, Stored
<1> QED
  BY <1>1, <1>2

\* The fast path touches no data of a region that has a snapshot.
LEMMA DataCallStep ==
  ASSUME IInv, PeerInv, AcceptedInv, IndexInv, DataInv, FakeInv, TypeOK', NEW t \in Tickers
  PROVE  /\ FapOk(t) => DataInvs'
         /\ FallbackClear(t) => DataInvs'
         /\ SendFake(t) => DataInvs'
<1>0. TypeOK' /\ TypeOK
  BY DEF IInv
<1>t. /\ "peer" \in Tickers /\ tick \in [Tickers -> {"idle"} \cup FastPath \cup Destroying]
      /\ tick_index \in [Tickers -> 0 .. MaxIndex]
  BY <1>0, DataTypes
<1>s. /\ kvstore.idx \in Nat /\ snap.idx \in Nat /\ accepted.idx \in Nat /\ \A s \in net : s.idx \in Nat
      /\ snap.fake \in BOOLEAN /\ kvstore.full \in BOOLEAN
  BY <1>0, DataTypes
<1> USE DEF raftVars, msgVars, tickVars, workerVars, historyVars
<1>1. ASSUME FapOk(t) PROVE DataInvs'
  <2>a. ASSUME ~raced PROVE region_state = "none"
    <3>1. tick[t] \in FastPath
      BY <1>1 DEF FapOk, FastPath
    <3> QED
      BY Zenon, <2>a, <3>1, FastPathAlone
  <2>1. PeerInv'
    BY <1>0, <1>s, <1>t, <1>1 DEF TypeOK, FapOk, PeerInv, FastPath, Destroying
  <2>2. AcceptedInv'
    BY <1>0, <1>s, <1>t, <1>1 DEF TypeOK, FapOk, AcceptedInv, FastPath, Destroying
  <2>3. IndexInv'
    BY <1>0, <1>s, <1>t, <1>1 DEF TypeOK, FapOk, IndexInv
  <2>4. DataInv'
    BY <1>0, <1>s, <1>t, <1>1 DEF TypeOK, FapOk, DataInv
  <2>5. FakeInv'
    BY <1>0, <1>s, <1>t, <1>1, <2>a DEF TypeOK, FapOk, FakeInv
  <2> QED
    BY Zenon, <2>1, <2>2, <2>3, <2>4, <2>5 DEF DataInvs
<1>2. ASSUME FallbackClear(t) PROVE DataInvs'
  <2>a. ASSUME ~raced PROVE region_state = "none"
    <3>1. tick[t] \in FastPath
      BY <1>2 DEF FallbackClear, FastPath
    <3> QED
      BY Zenon, <2>a, <3>1, FastPathAlone
  <2>1. PeerInv'
    BY <1>0, <1>s, <1>t, <1>2 DEF TypeOK, FallbackClear, PeerInv, FastPath, Destroying
  <2>2. AcceptedInv'
    BY <1>0, <1>s, <1>t, <1>2 DEF TypeOK, FallbackClear, AcceptedInv, FastPath, Destroying
  <2>3. IndexInv'
    BY <1>0, <1>s, <1>t, <1>2 DEF TypeOK, FallbackClear, IndexInv
  <2>4. DataInv'
    BY <1>0, <1>s, <1>t, <1>2 DEF TypeOK, FallbackClear, DataInv
  <2>5. FakeInv'
    BY <1>0, <1>s, <1>t, <1>2, <2>a DEF TypeOK, FallbackClear, FakeInv
  <2> QED
    BY Zenon, <2>1, <2>2, <2>3, <2>4, <2>5 DEF DataInvs
<1>3. ASSUME SendFake(t) PROVE DataInvs'
  <2>1. PeerInv'
    BY <1>0, <1>s, <1>t, <1>3 DEF TypeOK, SendFake, SendBody, PeerInv, FastPath, Destroying
  <2>2. AcceptedInv'
    BY <1>0, <1>s, <1>t, <1>3 DEF TypeOK, SendFake, SendBody, AcceptedInv, FastPath, Destroying
  <2>3. IndexInv'
    BY <1>0, <1>s, <1>t, <1>3 DEF TypeOK, SendFake, SendBody, IndexInv
  <2>4. DataInv'
    BY <1>0, <1>s, <1>t, <1>3 DEF TypeOK, SendFake, SendBody, DataInv
  <2>5. FakeInv'
    BY <1>0, <1>s, <1>t, <1>3 DEF TypeOK, SendFake, SendBody, FakeInv
  <2> QED
    BY Zenon, <2>1, <2>2, <2>3, <2>4, <2>5 DEF DataInvs
<1> QED
  BY Zenon, <1>1, <1>2, <1>3

\* A peer is created and gets a snapshot.
LEMMA DataSnapshotStep ==
  ASSUME IInv, PeerInv, AcceptedInv, IndexInv, DataInv, FakeInv, TypeOK'
  PROVE  /\ CreatePeer => DataInvs'
         /\ SendRegular => DataInvs'
         /\ (\E s \in net : RecvSnapshot(s)) => DataInvs'
         /\ PersistSnapshot => DataInvs'
<1>0. TypeOK' /\ TypeOK
  BY DEF IInv
<1>t. /\ "peer" \in Tickers /\ tick \in [Tickers -> {"idle"} \cup FastPath \cup Destroying]
      /\ tick_index \in [Tickers -> 0 .. MaxIndex]
  BY <1>0, DataTypes
<1>s. /\ kvstore.idx \in Nat /\ snap.idx \in Nat /\ accepted.idx \in Nat /\ \A s \in net : s.idx \in Nat
      /\ snap.fake \in BOOLEAN /\ kvstore.full \in BOOLEAN
  BY <1>0, DataTypes
<1> USE DEF raftVars, msgVars, tickVars, workerVars, historyVars
<1>4. ASSUME CreatePeer PROVE DataInvs'
  <2>1. PeerInv'
    BY <1>0, <1>s, <1>t, <1>4 DEF TypeOK, CreatePeer, PeerInv
  <2>2. AcceptedInv'
    BY <1>0, <1>s, <1>t, <1>4 DEF TypeOK, CreatePeer, AcceptedInv, PeerInv
  <2>3. IndexInv'
    BY <1>0, <1>s, <1>t, <1>4 DEF TypeOK, CreatePeer, IndexInv
  <2>4. DataInv'
    BY <1>0, <1>s, <1>t, <1>4 DEF TypeOK, CreatePeer, DataInv
  <2>5. FakeInv'
    BY <1>0, <1>s, <1>t, <1>4 DEF TypeOK, CreatePeer, FakeInv
  <2> QED
    BY Zenon, <2>1, <2>2, <2>3, <2>4, <2>5 DEF DataInvs
<1>5. ASSUME SendRegular PROVE DataInvs'
  <2>1. PeerInv'
    BY <1>0, <1>s, <1>t, <1>5 DEF TypeOK, SendRegular, PeerInv
  <2>2. AcceptedInv'
    BY <1>0, <1>s, <1>t, <1>5 DEF TypeOK, SendRegular, AcceptedInv
  <2>3. IndexInv'
    BY <1>0, <1>s, <1>t, <1>5 DEF TypeOK, SendRegular, IndexInv, PeerInv
  <2>4. DataInv'
    BY <1>0, <1>s, <1>t, <1>5 DEF TypeOK, SendRegular, DataInv
  <2>5. FakeInv'
    BY <1>0, <1>s, <1>t, <1>5 DEF TypeOK, SendRegular, FakeInv
  <2> QED
    BY Zenon, <2>1, <2>2, <2>3, <2>4, <2>5 DEF DataInvs
<1>6. ASSUME NEW s \in net, RecvSnapshot(s) PROVE DataInvs'
  <2>1. PeerInv'
    BY <1>0, <1>s, <1>t, <1>6 DEF TypeOK, RecvSnapshot, PeerInv
  <2>2. AcceptedInv'
    BY <1>0, <1>s, <1>t, <1>6 DEF TypeOK, RecvSnapshot, AcceptedInv, IndexInv, Destroying
  <2>3. IndexInv'
    BY <1>0, <1>s, <1>t, <1>6 DEF TypeOK, RecvSnapshot, IndexInv
  <2>4. DataInv'
    BY <1>0, <1>s, <1>t, <1>6 DEF TypeOK, RecvSnapshot, DataInv
  <2>5. FakeInv'
    BY <1>0, <1>s, <1>t, <1>6 DEF TypeOK, RecvSnapshot, FakeInv
  <2> QED
    BY Zenon, <2>1, <2>2, <2>3, <2>4, <2>5 DEF DataInvs
<1>7. ASSUME PersistSnapshot PROVE DataInvs'
  <2>a. ASSUME accepted.fake, ~raced', peer = "replicated"
        PROVE  fap = accepted.idx /\ kvstore = NoRegion
    <3>1. ~raced /\ accepted # NoSnapshot
      BY Zenon, <2>a, <1>7 DEF PersistSnapshot
    <3>2. accepted \in Fakes /\ tick["peer"] \notin Destroying
      BY Zenon, <2>a, <3>1 DEF Fakes, AcceptedInv
    <3>3. fap = accepted.idx
      BY Zenon, <2>a, <3>1, <3>2 DEF IInv, RaceInv, InflightInv
    <3>4. region_state = "none"
      BY <2>a DEF PeerInv
    <3> QED
      BY Zenon, <3>3, <3>4 DEF PeerInv
  <2>1. PeerInv'
    BY <1>0, <1>s, <1>t, <1>7 DEF TypeOK, PersistSnapshot, PeerInv, AcceptedInv, Destroying
  <2>2. AcceptedInv'
    BY <1>0, <1>s, <1>t, <1>7 DEF TypeOK, PersistSnapshot, AcceptedInv
  <2>3. IndexInv'
    BY <1>0, <1>s, <1>t, <1>7 DEF TypeOK, PersistSnapshot, IndexInv, AcceptedInv
  <2>4. DataInv'
    BY <1>0, <1>s, <1>t, <1>7 DEF TypeOK, PersistSnapshot, DataInv, AcceptedInv, PeerInv, NoRegion
  <2>5. FakeInv'
    BY Zenon, <1>0, <1>s, <1>t, <1>7, <2>a DEF TypeOK, PersistSnapshot, FakeInv, AcceptedInv
  <2> QED
    BY Zenon, <2>1, <2>2, <2>3, <2>4, <2>5 DEF DataInvs
<1> QED
  BY Zenon, <1>4, <1>5, <1>6, <1>7

\* The peer is destroyed or the process restarts.
LEMMA DataDestroyStep ==
  ASSUME IInv, PeerInv, AcceptedInv, IndexInv, DataInv, FakeInv, TypeOK'
  PROVE  /\ HandleDestroy => DataInvs'
         /\ DestroyPeer => DataInvs'
         /\ Restart => DataInvs'
<1>0. TypeOK' /\ TypeOK
  BY DEF IInv
<1>t. /\ "peer" \in Tickers /\ tick \in [Tickers -> {"idle"} \cup FastPath \cup Destroying]
      /\ tick_index \in [Tickers -> 0 .. MaxIndex]
  BY <1>0, DataTypes
<1>s. /\ kvstore.idx \in Nat /\ snap.idx \in Nat /\ accepted.idx \in Nat /\ \A s \in net : s.idx \in Nat
      /\ snap.fake \in BOOLEAN /\ kvstore.full \in BOOLEAN
  BY <1>0, DataTypes
<1> USE DEF raftVars, msgVars, tickVars, workerVars, historyVars
<1>8. ASSUME HandleDestroy PROVE DataInvs'
  <2>1. PeerInv'
    BY <1>0, <1>s, <1>t, <1>8 DEF TypeOK, HandleDestroy, PeerInv, Destroying
  <2>2. AcceptedInv'
    BY <1>0, <1>s, <1>t, <1>8 DEF TypeOK, HandleDestroy, AcceptedInv
  <2>3. IndexInv'
    BY <1>0, <1>s, <1>t, <1>8 DEF TypeOK, HandleDestroy, IndexInv
  <2>4. DataInv'
    BY <1>0, <1>s, <1>t, <1>8 DEF TypeOK, HandleDestroy, DataInv, IndexInv, NoRegion
  <2>5. FakeInv'
    BY <1>0, <1>s, <1>t, <1>8 DEF TypeOK, HandleDestroy, FakeInv
  <2> QED
    BY Zenon, <2>1, <2>2, <2>3, <2>4, <2>5 DEF DataInvs
<1>9. ASSUME DestroyPeer PROVE DataInvs'
  <2>1. PeerInv'
    BY <1>0, <1>s, <1>t, <1>9 DEF TypeOK, DestroyPeer, PeerInv, Destroying
  <2>2. AcceptedInv'
    BY <1>0, <1>s, <1>t, <1>9 DEF TypeOK, DestroyPeer, AcceptedInv, Destroying
  <2>3. IndexInv'
    BY <1>0, <1>s, <1>t, <1>9 DEF TypeOK, DestroyPeer, IndexInv
  <2>4. DataInv'
    BY <1>0, <1>s, <1>t, <1>9 DEF TypeOK, DestroyPeer, DataInv, PeerInv, Destroying
  <2>5. FakeInv'
    BY <1>0, <1>s, <1>t, <1>9 DEF TypeOK, DestroyPeer, FakeInv
  <2> QED
    BY Zenon, <2>1, <2>2, <2>3, <2>4, <2>5 DEF DataInvs
<1>10. ASSUME Restart PROVE DataInvs'
  <2>1. PeerInv'
    BY <1>0, <1>s, <1>t, <1>10 DEF TypeOK, Restart, PeerInv, Destroying
  <2>2. AcceptedInv'
    BY <1>0, <1>s, <1>t, <1>10 DEF TypeOK, Restart, AcceptedInv
  <2>3. IndexInv'
    BY <1>0, <1>s, <1>t, <1>10 DEF TypeOK, Restart, IndexInv
  <2>4. DataInv'
    BY <1>0, <1>s, <1>t, <1>10 DEF TypeOK, Restart, DataInv
  <2>5. FakeInv'
    BY <1>0, <1>s, <1>t, <1>10 DEF TypeOK, Restart, FakeInv
  <2> QED
    BY Zenon, <2>1, <2>2, <2>3, <2>4, <2>5 DEF DataInvs
<1> QED
  BY Zenon, <1>8, <1>9, <1>10

\* The region worker installs a snapshot.
LEMMA DataWorkerStep ==
  ASSUME IInv, PeerInv, AcceptedInv, IndexInv, DataInv, FakeInv, TypeOK'
  PROVE  /\ PostExisting => DataInvs'
         /\ PostNoFap => DataInvs'
         /\ ApplyFapSnapshot => DataInvs'
         /\ WriteNormal => DataInvs'
<1>0. TypeOK' /\ TypeOK
  BY DEF IInv
<1>t. /\ "peer" \in Tickers /\ tick \in [Tickers -> {"idle"} \cup FastPath \cup Destroying]
      /\ tick_index \in [Tickers -> 0 .. MaxIndex]
  BY <1>0, DataTypes
<1>s. /\ kvstore.idx \in Nat /\ snap.idx \in Nat /\ accepted.idx \in Nat /\ \A s \in net : s.idx \in Nat
      /\ snap.fake \in BOOLEAN /\ kvstore.full \in BOOLEAN
  BY <1>0, DataTypes
<1> USE DEF raftVars, msgVars, tickVars, workerVars, historyVars
\* Installing a snapshot as a regular one, which no fake one that is still backed meets.
<1>p. ASSUME PostRegular, wpc = "pending", ~(kvstore = NoRegion /\ fap = snap.idx),
             UNCHANGED <<region_state, snap, overtaken, raced>>
      PROVE  DataInv'
  <2>1. region_state = "Applying"
    BY <1>p DEF PeerInv
  <2>2. CASE task \in {NoSnapshot, snap}
    <3>1. /\ kvstore' = IF kvstore.idx = snap.idx THEN kvstore
                        ELSE [idx |-> snap.idx, full |-> ~snap.fake]
          /\ dropped' = (dropped /\ snap.fake)
      BY Zenon, <1>p, <2>2 DEF PostRegular, ApplyPreHandledSnapshot
    <3>2. CASE kvstore.idx = snap.idx
      BY <1>0, <1>s, <1>p, <2>1, <3>1, <3>2 DEF DataInv, TypeOK
    <3>3. CASE kvstore.idx # snap.idx
      <4>1. snap.fake => overtaken \/ raced \/ dropped
        BY <1>p, <2>1, <3>3 DEF FakeInv
      <4>2. kvstore'.idx = snap.idx /\ kvstore'.full = ~snap.fake /\ kvstore'.idx <= snap.idx
        BY <1>s, <3>1, <3>3
      <4>3. kvstore'.full \/ snap.fake
        BY Zenon, <4>2
      <4> QED
        BY Zenon, <1>p, <3>1, <4>1, <4>2, <4>3 DEF DataInv
    <3> QED
      BY <3>2, <3>3
  <2>3. CASE task \notin {NoSnapshot, snap}
    BY <1>0, <1>p, <2>1, <2>3 DEF PostRegular, DataInv, TypeOK
  <2> QED
    BY <2>2, <2>3
<1>11. ASSUME PostExisting PROVE DataInvs'
  <2>1. PeerInv'
    BY <1>0, <1>s, <1>t, <1>11 DEF TypeOK, PostExisting, PostRegular, ApplyPreHandledSnapshot, RegionExists, PeerInv
  <2>2. AcceptedInv'
    BY <1>0, <1>s, <1>t, <1>11 DEF TypeOK, PostExisting, PostRegular, ApplyPreHandledSnapshot, RegionExists, AcceptedInv
  <2>3. IndexInv'
    BY <1>0, <1>s, <1>t, <1>11 DEF TypeOK, PostExisting, PostRegular, ApplyPreHandledSnapshot, RegionExists, IndexInv
  <2>4. DataInv'
    <3>1. /\ PostRegular /\ wpc = "pending" /\ ~(kvstore = NoRegion /\ fap = snap.idx)
          /\ UNCHANGED <<region_state, snap, overtaken, raced>>
      BY <1>11 DEF PostExisting, RegionExists, Persisted, NoRegion
    <3> QED
      BY Zenon, <1>p, <3>1
  <2>5. FakeInv'
    BY <1>0, <1>s, <1>t, <1>11 DEF TypeOK, PostExisting, PostRegular, ApplyPreHandledSnapshot, RegionExists, FakeInv, NoRegion
  <2> QED
    BY Zenon, <2>1, <2>2, <2>3, <2>4, <2>5 DEF DataInvs
<1>12. ASSUME PostNoFap PROVE DataInvs'
  <2>1. PeerInv'
    BY <1>0, <1>s, <1>t, <1>12 DEF TypeOK, PostNoFap, PostRegular, ApplyPreHandledSnapshot, RegionExists, Persisted, PeerInv
  <2>2. AcceptedInv'
    BY <1>0, <1>s, <1>t, <1>12 DEF TypeOK, PostNoFap, PostRegular, ApplyPreHandledSnapshot, RegionExists, Persisted, AcceptedInv
  <2>3. IndexInv'
    BY <1>0, <1>s, <1>t, <1>12 DEF TypeOK, PostNoFap, PostRegular, ApplyPreHandledSnapshot, RegionExists, Persisted, IndexInv
  <2>4. DataInv'
    <3>1. /\ PostRegular /\ wpc = "pending" /\ ~(kvstore = NoRegion /\ fap = snap.idx)
          /\ UNCHANGED <<region_state, snap, overtaken, raced>>
      BY <1>12 DEF PostNoFap, RegionExists, Persisted, NoRegion
    <3> QED
      BY Zenon, <1>p, <3>1
  <2>5. FakeInv'
    BY <1>0, <1>s, <1>t, <1>12 DEF TypeOK, PostNoFap, PostRegular, ApplyPreHandledSnapshot, RegionExists, Persisted, FakeInv
  <2> QED
    BY Zenon, <2>1, <2>2, <2>3, <2>4, <2>5 DEF DataInvs
<1>13. ASSUME ApplyFapSnapshot PROVE DataInvs'
  <2>1. PeerInv'
    BY <1>0, <1>s, <1>t, <1>13 DEF TypeOK, ApplyFapSnapshot, Persisted, PeerInv
  <2>2. AcceptedInv'
    BY <1>0, <1>s, <1>t, <1>13 DEF TypeOK, ApplyFapSnapshot, Persisted, AcceptedInv
  <2>3. IndexInv'
    BY <1>0, <1>s, <1>t, <1>13 DEF TypeOK, ApplyFapSnapshot, Persisted, IndexInv
  <2>4. DataInv'
    BY <1>0, <1>s, <1>t, <1>13 DEF TypeOK, ApplyFapSnapshot, Persisted, DataInv, PeerInv
  <2>5. FakeInv'
    BY Zenon, <1>0, <1>s, <1>t, <1>13 DEF TypeOK, ApplyFapSnapshot, Persisted, FakeInv
  <2> QED
    BY Zenon, <2>1, <2>2, <2>3, <2>4, <2>5 DEF DataInvs
<1>14. ASSUME WriteNormal PROVE DataInvs'
  <2>1. PeerInv'
    BY <1>0, <1>s, <1>t, <1>14 DEF TypeOK, WriteNormal, PeerInv
  <2>2. AcceptedInv'
    BY <1>0, <1>s, <1>t, <1>14 DEF TypeOK, WriteNormal, AcceptedInv, PeerInv
  <2>3. IndexInv'
    BY <1>0, <1>s, <1>t, <1>14 DEF TypeOK, WriteNormal, IndexInv, PeerInv
  <2>4. DataInv'
    BY <1>0, <1>s, <1>t, <1>14 DEF TypeOK, WriteNormal, DataInv, PeerInv
  <2>5. FakeInv'
    BY <1>0, <1>s, <1>t, <1>14 DEF TypeOK, WriteNormal, FakeInv
  <2> QED
    BY Zenon, <2>1, <2>2, <2>3, <2>4, <2>5 DEF DataInvs
<1> QED
  BY Zenon, <1>11, <1>12, <1>13, <1>14

\* What is on disk, on its way and in the engine-store stays consistent.
LEMMA DataStep ==
  ASSUME IInv, DataInvs, [Next]_vars
  PROVE  DataInvs'
<1>1. TypeOK' /\ TypeOK /\ PeerInv /\ AcceptedInv /\ IndexInv /\ DataInv /\ FakeInv
  BY TypeStep DEF IInv, DataInvs
<1> QED
  BY Zenon, <1>1, DataCallStep, DataSnapshotStep, DataDestroyStep, DataWorkerStep,
       QuietSteps, QuietKeeps, [Next]_vars
     DEF Next, TickerStep, CallStep, RaftStep, WorkerStep

-----------------------------------------------------------------------------
\* Steps of a fast path that has met no race.
LEMMA RaceCallStep ==
  ASSUME IInv, NEW t \in Tickers, CallStep(t), ~raced'
  PROVE  RaceInv'
<1> USE DEF raftVars, msgVars, tickVars, workerVars, historyVars
<1>0. /\ tick \in [Tickers -> {"idle"} \cup FastPath \cup Destroying] /\ TypeOK /\ "peer" \in Tickers
      /\ tick_index \in [Tickers -> 0 .. MaxIndex] /\ Vacant \notin Info
  BY TickersAssumption, VacantAssumption DEF IInv, TypeOK
<1>1. /\ peer' = peer /\ snap' = snap /\ kvstore' = kvstore /\ wpc' = wpc /\ task' = task
      /\ accepted' = accepted /\ raced' = raced /\ tick[t] \in FastPath
  BY Zenon
     DEF CallStep, FapWait, FapOk, FapError, FallbackClear, FallbackToSlowPath, BuildError,
         SendRegionNotFound, SendFake, SendBody, SetSnapshotInflight, FastPath
<1>2. /\ peer = "replicated" /\ wpc = "idle" /\ cached \in Info /\ ~panicked
      /\ \A u \in Tickers \ {t} : tick[u] = "idle"
      /\ tick[t] # "sent" => Fakes = {}
  BY Zenon, <1>1, FastPathAlone
\* The worker has nothing to do.
<1>3. TaskInv'
  <2>1. wpc # "pending" /\ wpc # "apply_fap"
    BY <1>2
  <2> QED
    BY Zenon, <1>1, <2>1 DEF IInv, RaceInv, TaskInv
<1>4. ASSUME NEW p \in {"idle"} \cup FastPath, tick' = [tick EXCEPT ![t] = p],
             cached' # Vacant, p = "build" => tick_index'[t] = fap'
      PROVE  TickInv'
  <2>1. \A u \in Tickers : u # t => tick'[u] = "idle"
    BY <1>0, <1>2, <1>4
  <2>2. tick'[t] = p
    BY <1>0, <1>4
  <2>3. "idle" \notin FastPath
    BY DEF FastPath
  <2> QED
    BY Zenon, <1>1, <1>2, <1>4, <2>1, <2>2, <2>3 DEF TickInv
\* A step on the way to the fake snapshot.
<1>5. ASSUME tick[t] # "sent", net' = net PROVE InflightInv'
  BY Zenon, <1>1, <1>2, <1>5 DEF InflightInv, Fakes
<1>6. CASE FapWait(t) \/ SendRegionNotFound(t) \/ FapError(t) \/ BuildError(t) \/ FallbackClear(t)
  <2>1. /\ net' = net /\ cached' = cached /\ panicked' = panicked /\ tick[t] \in {"ffi", "build", "clear"}
        /\ \E p \in {"idle", "clear", "fallback"} : tick' = [tick EXCEPT ![t] = p]
    BY Zenon, <1>6
       DEF FapWait, SendRegionNotFound, FapError, BuildError, FallbackClear, EndTick
  <2>2. PICK p \in {"idle", "clear", "fallback"} : tick' = [tick EXCEPT ![t] = p]
    BY <2>1
  <2>3. p \in {"idle"} \cup FastPath /\ p # "build" /\ tick[t] # "sent"
    BY <2>1 DEF FastPath
  <2>4. cached' # Vacant
    BY Zenon, <1>0, <1>2, <2>1
  <2>5. TickInv'
    BY Zenon, <1>4, <2>2, <2>3, <2>4
  <2> QED
    BY Zenon, <1>2, <1>3, <1>5, <2>1, <2>3, <2>5 DEF RaceInv
<1>7. CASE FapOk(t)
  <2>1. \E i \in 1 .. leader_index :
          /\ fap' = i
          /\ \/ tick' = [tick EXCEPT ![t] = "build"] /\ tick_index' = [tick_index EXCEPT ![t] = i]
             \/ tick' = [tick EXCEPT ![t] = "clear"]
    BY Zenon, <1>7 DEF FapOk
  <2>2. /\ net' = net /\ cached' = cached /\ panicked' = panicked /\ tick[t] = "ffi"
    BY Zenon, <1>7 DEF FapOk
  <2>3. tick[t] # "sent"
    BY <2>2
  <2>4. TickInv'
    <3>1. CASE tick' = [tick EXCEPT ![t] = "build"] /\ tick_index' = [tick_index EXCEPT ![t] = fap']
      <4>1. tick_index'[t] = fap' /\ "build" \in {"idle"} \cup FastPath
        BY <1>0, <3>1 DEF FastPath
      <4> QED
        BY Zenon, <1>0, <1>2, <1>4, <2>2, <3>1, <4>1
    <3>2. CASE tick' = [tick EXCEPT ![t] = "clear"]
      <4>1. "clear" # "build" /\ "clear" \in {"idle"} \cup FastPath
        BY DEF FastPath
      <4> QED
        BY Zenon, <1>0, <1>2, <1>4, <2>2, <3>2, <4>1
    <3> QED
      BY Zenon, <2>1, <3>1, <3>2
  <2> QED
    BY Zenon, <1>2, <1>3, <1>5, <2>2, <2>3, <2>4 DEF RaceInv
<1>8. CASE FallbackToSlowPath(t)
  <2>1. /\ net' = net /\ tick[t] = "fallback" /\ tick' = [tick EXCEPT ![t] = "idle"]
        /\ cached # Vacant => cached' = EndFap(cached) /\ panicked' = panicked
    BY Zenon, <1>8 DEF FallbackToSlowPath, EndTick
  <2>2. cached' # Vacant /\ panicked' = panicked
    BY Zenon, <1>0, <1>2, <2>1, NewInfos
  <2>3. tick[t] # "sent" /\ "idle" # "build" /\ "idle" \in {"idle"} \cup FastPath
    BY <2>1
  <2>4. TickInv'
    BY Zenon, <1>4, <2>1, <2>2, <2>3
  <2> QED
    BY Zenon, <1>2, <1>3, <1>5, <2>1, <2>2, <2>3, <2>4 DEF RaceInv
<1>9. CASE SendFake(t)
  <2>1. /\ tick[t] = "build" /\ tick' = [tick EXCEPT ![t] = "sent"] /\ cached' = cached
        /\ panicked' = panicked /\ fap' = fap
        /\ net' \subseteq net \cup {[fake |-> TRUE, idx |-> tick_index[t]]}
    BY Zenon, <1>9 DEF SendFake, SendBody
  <2>2. tick[t] # "sent" /\ "sent" # "build" /\ "sent" \in {"idle"} \cup FastPath /\ tick'[t] = "sent"
    BY <1>0, <2>1 DEF FastPath
  <2>3. tick_index[t] = fap
    BY Zenon, <1>1, <2>1 DEF IInv, RaceInv, TickInv
  <2>4. TickInv'
    BY Zenon, <1>0, <1>2, <1>4, <2>1, <2>2
  <2>5. ASSUME NEW s, s \in Fakes' PROVE s.idx = fap
    <3>1. s \in net' \cup {accepted} /\ s.fake
      BY Zenon, <1>1, <2>5 DEF Fakes
    <3>2. ~(s \in net \cup {accepted})
      BY Zenon, <1>2, <2>2, <3>1 DEF Fakes
    <3>3. s = [fake |-> TRUE, idx |-> tick_index[t]]
      BY Zenon, <2>1, <3>1, <3>2
    <3> QED
      BY <2>3, <3>3
  <2>6. InflightInv'
    BY Zenon, <2>1, <2>2, <2>5 DEF InflightInv
  <2> QED
    BY Zenon, <1>2, <1>3, <2>1, <2>4, <2>6 DEF RaceInv
<1>10. CASE SetSnapshotInflight(t)
  <2>1. /\ net' = net /\ tick[t] = "sent" /\ tick' = [tick EXCEPT ![t] = "idle"] /\ fap' = fap
        /\ cached # Vacant => cached' = Inflight /\ panicked' = panicked
    BY Zenon, <1>10 DEF SetSnapshotInflight, EndTick
  <2>2. cached' \in Info /\ cached'.snapshot_inflight /\ panicked' = panicked
    BY Zenon, <1>0, <1>2, <2>1, InfoSteps
  <2>3. "idle" # "build" /\ "idle" \in {"idle"} \cup FastPath
    OBVIOUS
  <2>4. TickInv'
    BY Zenon, <1>0, <1>4, <2>1, <2>2, <2>3
  <2>5. \A u \in Tickers : tick'[u] = "idle"
    BY <1>0, <1>2, <2>1
  <2>6. InflightInv => InflightInv'
    <3>1. Fakes' = Fakes /\ tick["peer"] \notin Destroying
      BY Zenon, <1>1, <2>1, FastPathAlone DEF Fakes
    <3> QED
      BY Zenon, <1>0, <1>1, <2>1, <2>2, <2>5, <3>1 DEF InflightInv
  <2> QED
    BY Zenon, <1>1, <1>2, <1>3, <2>2, <2>4, <2>6 DEF RaceInv, IInv
<1> QED
  BY Zenon, <1>6, <1>7, <1>8, <1>9, <1>10 DEF CallStep

\* A MsgAppend, on either thread.
LEMMA RaceTickStep ==
  ASSUME IInv, NEW t \in Tickers, Tick(t), ~raced'
  PROVE  RaceInv'
<1> USE DEF raftVars, msgVars, tickVars, workerVars, historyVars
<1>0. /\ tick \in [Tickers -> {"idle"} \cup FastPath \cup Destroying] /\ TypeOK
      /\ cached \in Info \cup {Vacant} /\ Vacant \notin Info
      /\ peer \in {"absent", "replicated", "initialized"}
  BY VacantAssumption DEF IInv, TypeOK
<1>1. /\ peer' = peer /\ snap' = snap /\ kvstore' = kvstore /\ wpc' = wpc /\ task' = task
      /\ accepted' = accepted /\ net' = net /\ fap' = fap /\ panicked' = panicked
      /\ tick_index' = tick_index
      /\ ~raced /\ tick[t] = "idle" /\ cached' = TickInfo
      /\ TickGoesOn => tick' = [tick EXCEPT ![t] = "ffi"] /\ ~OtherBusy(t)
      /\ ~TickGoesOn => tick' = tick
  BY Zenon DEF Tick, TickBody, MayTick
<1>2. ~panicked /\ TickInv /\ InflightInv /\ TaskInv
  BY Zenon, <1>1 DEF IInv, RaceInv
<1>3. TaskInv'
  BY Zenon, <1>1, <1>2 DEF TaskInv, RegionExists, Persisted
<1>4. cached # Vacant =>
        TickInfo # Vacant /\ TickInfo.snapshot_inflight = cached.snapshot_inflight
  BY Zenon, <1>0, InfoSteps
<1>5. CASE TickGoesOn
  <2>1. /\ cached # Vacant /\ cached.replicated_or_created /\ region_state = "none"
        /\ ~cached.snapshot_inflight
    BY Zenon, <1>5 DEF TickGoesOn, IsInitialized
  <2>2. peer = "replicated"
    <3>1. peer # "absent"
      BY Zenon, <2>1 DEF IInv, StateInv, VacantInv
    <3>2. peer # "initialized"
      BY Zenon, <2>1 DEF IInv, StateInv, PeerInv
    <3> QED
      BY <1>0, <3>1, <3>2
  <2>3. \A u \in Tickers : tick[u] = "idle"
    BY Zenon, <1>1, <1>5 DEF OtherBusy
  <2>4. tick'[t] = "ffi" /\ \A u \in Tickers \ {t} : tick'[u] = "idle"
    BY <1>0, <1>1, <1>5, <2>3
  <2>5. "idle" \notin FastPath /\ "ffi" # "build" /\ "idle" # "sent" /\ "idle" \notin Destroying
    BY DEF FastPath, Destroying
  <2>6. TickInv'
    BY Zenon, <1>1, <1>4, <2>1, <2>2, <2>4, <2>5 DEF TickInv
  <2>7. Fakes = {}
    <3>1. "peer" \in Tickers
      BY TickersAssumption
    <3> QED
      BY Zenon, <1>2, <2>1, <2>2, <2>3, <2>5, <3>1 DEF InflightInv
  <2>8. InflightInv'
    BY Zenon, <1>1, <2>7 DEF InflightInv, Fakes
  <2> QED
    BY Zenon, <1>1, <1>2, <1>3, <2>6, <2>8 DEF RaceInv
<1>6. CASE ~TickGoesOn
  <2>1. TickInv'
    BY Zenon, <1>1, <1>2, <1>4, <1>6 DEF TickInv
  <2>2. InflightInv'
    <3>1. Fakes' = Fakes
      BY Zenon, <1>1 DEF Fakes
    <3> QED
      BY Zenon, <1>1, <1>2, <1>4, <1>6, <3>1 DEF InflightInv
  <2> QED
    BY Zenon, <1>1, <1>2, <1>3, <2>1, <2>2 DEF RaceInv
<1> QED
  BY <1>5, <1>6

\* Steps of the raftstore.
LEMMA RaceRaftStep ==
  ASSUME IInv, RaftStep, ~raced'
  PROVE  RaceInv'
<1> USE DEF raftVars, msgVars, tickVars, workerVars, historyVars
<1>0. /\ tick \in [Tickers -> {"idle"} \cup FastPath \cup Destroying] /\ TypeOK /\ "peer" \in Tickers
      /\ cached \in Info \cup {Vacant} /\ Vacant \notin Info /\ NoSnapshot.fake = FALSE
      /\ "idle" \notin FastPath /\ "idle" \notin Destroying /\ "idle" # "sent"
  BY TickersAssumption, VacantAssumption DEF IInv, TypeOK, NoSnapshot, FastPath, Destroying
<1>p. ~panicked
  BY Zenon
     DEF RaftStep, LeaderAppend, CreatePeer, OnRoleChange, TickAbsent, SendRegular, LoseSnapshot,
         RecvSnapshot, PersistSnapshot, HandleDestroy, RemoveCachedRegionInfo, DestroyPeer, Restart
\* The worker's task, for a step that leaves the worker alone.
<1>1. ASSUME snap' = snap, task' = task, wpc' = wpc, kvstore' = kvstore, fap' = fap, TaskInv
      PROVE  TaskInv'
  BY Zenon, <1>1 DEF TaskInv, RegionExists, Persisted
\* A step that leaves the peer and the tickers alone, sends no fake snapshot, and keeps
\* an info that is there.
<1>2. ASSUME peer' = peer, tick' = tick, tick_index' = tick_index, fap' = fap, raced' = raced,
             snap' = snap, task' = task, wpc' = wpc, kvstore' = kvstore, panicked' = panicked,
             Fakes' \subseteq Fakes,
             cached # Vacant => cached' # Vacant /\ cached'.snapshot_inflight = cached.snapshot_inflight
      PROVE  RaceInv'
  <2>1. ~panicked /\ TickInv /\ InflightInv /\ TaskInv
    BY Zenon, <1>2 DEF IInv, RaceInv
  <2>2. TickInv'
    BY Zenon, <1>2, <2>1 DEF TickInv
  <2>3. InflightInv'
    BY Zenon, <1>2, <2>1 DEF InflightInv
  <2> QED
    BY Zenon, <1>1, <1>2, <2>1, <2>2, <2>3 DEF RaceInv
\* A step after which all tickers are idle and no fake snapshot is on its way to a peer
\* without one.
<1>3. ASSUME \A t \in Tickers : tick'[t] \notin FastPath, TaskInv', panicked' = panicked,
             peer' # "replicated" \/ tick'["peer"] \in Destroying \/ Fakes' = {}
      PROVE  RaceInv'
  BY Zenon, <1>p, <1>3 DEF RaceInv, TickInv, InflightInv
<1>4. CASE LeaderAppend \/ LoseSnapshot
  <2>1. /\ cached' = cached /\ tick' = tick /\ tick_index' = tick_index /\ peer' = peer
        /\ net' \subseteq net /\ accepted' = accepted /\ raced' = raced
        /\ snap' = snap /\ task' = task /\ wpc' = wpc /\ kvstore' = kvstore /\ fap' = fap
        /\ panicked' = panicked
    BY Zenon, <1>4 DEF LeaderAppend, LoseSnapshot
  <2>2. Fakes' \subseteq Fakes
    BY Zenon, <2>1 DEF Fakes
  <2> QED
    BY Zenon, <1>2, <2>1, <2>2
<1>5. CASE SendRegular
  <2>1. /\ cached' = cached /\ tick' = tick /\ tick_index' = tick_index /\ peer' = peer
        /\ accepted' = accepted /\ raced' = raced
        /\ snap' = snap /\ task' = task /\ wpc' = wpc /\ kvstore' = kvstore /\ fap' = fap
        /\ panicked' = panicked
    BY Zenon, <1>5 DEF SendRegular
  <2>2. PICK i \in joined .. leader_index : net' = net \cup {[fake |-> FALSE, idx |-> i]}
    BY Zenon, <1>5 DEF SendRegular
  <2>3. Fakes' \subseteq Fakes
    BY <2>1, <2>2 DEF Fakes
  <2> QED
    BY Zenon, <1>2, <2>1, <2>3
<1>6. CASE OnRoleChange
  <2>1. /\ cached' = RoleChangeInfo /\ tick' = tick /\ tick_index' = tick_index /\ peer' = peer
        /\ net' = net /\ accepted' = accepted /\ raced' = raced
        /\ snap' = snap /\ task' = task /\ wpc' = wpc /\ kvstore' = kvstore /\ fap' = fap
        /\ panicked' = panicked
    BY Zenon, <1>6 DEF OnRoleChange
  <2>2. cached # Vacant => cached' # Vacant /\ cached'.snapshot_inflight = cached.snapshot_inflight
    BY Zenon, <1>0, <2>1, InfoSteps
  <2>3. Fakes' \subseteq Fakes
    BY Zenon, <2>1 DEF Fakes
  <2> QED
    BY Zenon, <1>2, <2>1, <2>2, <2>3
<1>7. CASE TickAbsent
  <2>1. /\ cached = Vacant /\ tick' = tick /\ tick_index' = tick_index /\ peer' = peer
        /\ net' = net /\ accepted' = accepted /\ raced' = raced
        /\ snap' = snap /\ task' = task /\ wpc' = wpc /\ kvstore' = kvstore /\ fap' = fap
        /\ panicked' = panicked
    BY Zenon, <1>7 DEF TickAbsent
  <2>2. Fakes' \subseteq Fakes
    BY Zenon, <2>1 DEF Fakes
  <2> QED
    BY Zenon, <1>2, <2>1, <2>2
<1>8. CASE CreatePeer
  <2>1. /\ peer = "absent" /\ tick' = tick /\ net' = net /\ accepted' = accepted /\ raced' = raced
        /\ snap' = snap /\ task' = task /\ wpc' = wpc /\ kvstore' = kvstore /\ fap' = fap
        /\ panicked' = panicked
    BY Zenon, <1>8 DEF CreatePeer
  <2>2. peer # "replicated"
    BY <2>1
  <2>3. TickInv /\ TaskInv
    BY Zenon, <2>1 DEF IInv, RaceInv
  <2>4. \A t \in Tickers : tick'[t] \notin FastPath
    BY Zenon, <2>1, <2>2, <2>3 DEF TickInv
  <2>5. net = {} /\ accepted = NoSnapshot
    BY Zenon, <2>1 DEF IInv, StateInv, PeerInv, AcceptedInv
  <2>6. Fakes' = {}
    BY <1>0, <2>1, <2>5 DEF Fakes
  <2> QED
    BY Zenon, <1>1, <1>3, <2>1, <2>3, <2>4, <2>6
<1>9. ASSUME NEW s \in net, RecvSnapshot(s) PROVE RaceInv'
  <2>1. /\ cached' = FilterInfo /\ tick' = tick /\ tick_index' = tick_index /\ peer' = peer
        /\ net' = net \ {s} /\ accepted' \in {NoSnapshot, s} /\ raced' = raced
        /\ snap' = snap /\ task' = task /\ wpc' = wpc /\ kvstore' = kvstore /\ fap' = fap
        /\ panicked' = panicked
    BY Zenon, <1>9 DEF RecvSnapshot
  <2>2. cached # Vacant => cached' # Vacant /\ cached'.snapshot_inflight = cached.snapshot_inflight
    BY Zenon, <1>0, <2>1, InfoSteps
  <2>3. Fakes' \subseteq Fakes
    BY <1>0, <1>9, <2>1 DEF Fakes
  <2> QED
    BY Zenon, <1>2, <2>1, <2>2, <2>3
<1>10. CASE PersistSnapshot
  <2>1. /\ tick["peer"] = "idle" /\ ~OtherBusy("peer") /\ ~raced /\ tick' = tick /\ peer' = "initialized"
        /\ wpc' = "queued" /\ task' = task /\ panicked' = panicked /\ accepted # NoSnapshot
    BY Zenon, <1>10 DEF PersistSnapshot
  <2>2. \A t \in Tickers : tick'[t] \notin FastPath
    BY Zenon, <1>0, <2>1 DEF OtherBusy
  <2>3. wpc = "idle"
    BY Zenon, <2>1 DEF IInv, StateInv, PeerInv, AcceptedInv
  <2>4. wpc # "pending" /\ wpc' # "pending" /\ wpc' # "apply_fap" /\ peer' # "replicated"
    BY <2>1, <2>3
  <2>5. task = NoSnapshot
    BY Zenon, <2>1, <2>4 DEF IInv, RaceInv, TaskInv
  <2>6. TaskInv'
    BY Zenon, <2>1, <2>4, <2>5 DEF TaskInv
  <2> QED
    BY Zenon, <1>3, <2>1, <2>2, <2>4, <2>6
<1>11. CASE HandleDestroy
  <2>1. /\ tick["peer"] = "idle" /\ ~OtherBusy("peer") /\ tick' = [tick EXCEPT !["peer"] = "dropped"]
        /\ wpc' = "idle" /\ task' = NoSnapshot /\ panicked' = panicked
    BY Zenon, <1>11 DEF HandleDestroy
  <2>2. \A u \in Tickers \ {"peer"} : tick[u] = "idle"
    BY Zenon, <2>1 DEF OtherBusy
  <2>3. (\A t \in Tickers : tick'[t] \notin FastPath) /\ tick'["peer"] \in Destroying
    BY <1>0, <2>1, <2>2 DEF FastPath, Destroying
  <2>4. wpc' # "pending" /\ wpc' # "apply_fap"
    BY <2>1
  <2>5. TaskInv'
    BY Zenon, <2>1, <2>4 DEF TaskInv
  <2> QED
    BY Zenon, <1>3, <2>1, <2>3, <2>5
<1>12. CASE RemoveCachedRegionInfo
  <2>1. /\ tick["peer"] = "dropped" /\ tick' = [tick EXCEPT !["peer"] = "removed"] /\ raced' = raced
        /\ snap' = snap /\ task' = task /\ wpc' = wpc /\ kvstore' = kvstore /\ fap' = fap
        /\ panicked' = panicked
    BY Zenon, <1>12 DEF RemoveCachedRegionInfo
  <2>2. TickInv /\ TaskInv
    BY Zenon, <2>1 DEF IInv, RaceInv
  <2>3. tick["peer"] # "idle" /\ tick["peer"] \notin FastPath
    BY <2>1 DEF FastPath
  <2>4. \A t \in Tickers : tick[t] \notin FastPath
    BY Zenon, <1>0, <2>2, <2>3 DEF TickInv
  <2>5. (\A t \in Tickers : tick'[t] \notin FastPath) /\ tick'["peer"] \in Destroying
    BY <1>0, <2>1, <2>4 DEF FastPath, Destroying
  <2> QED
    BY Zenon, <1>1, <1>3, <2>1, <2>2, <2>5
<1>13. CASE DestroyPeer
  <2>1. /\ tick["peer"] = "removed" /\ ~OtherBusy("peer") /\ tick' = [tick EXCEPT !["peer"] = "idle"]
        /\ wpc' = wpc /\ task' = task /\ panicked' = panicked /\ peer' = "absent"
    BY Zenon, <1>13 DEF DestroyPeer
  <2>2. \A u \in Tickers \ {"peer"} : tick[u] = "idle"
    BY Zenon, <2>1 DEF OtherBusy
  <2>3. (\A t \in Tickers : tick'[t] \notin FastPath) /\ peer' # "replicated"
    BY <1>0, <2>1, <2>2 DEF FastPath
  <2>4. tick["peer"] \in Destroying
    BY <2>1 DEF Destroying
  <2>5. wpc = "idle" /\ task = NoSnapshot
    BY Zenon, <2>4 DEF IInv, StateInv, PeerInv
  <2>6. wpc' # "pending" /\ wpc' # "apply_fap"
    BY <2>1, <2>5
  <2>7. TaskInv'
    BY Zenon, <2>1, <2>5, <2>6 DEF TaskInv
  <2> QED
    BY Zenon, <1>3, <2>1, <2>3, <2>7
<1>14. CASE Restart
  <2>1. /\ tick' = [t \in Tickers |-> "idle"] /\ net' = {} /\ accepted' = NoSnapshot
        /\ task' = NoSnapshot /\ wpc' \in {"queued", "idle"} /\ panicked' = panicked
    BY Zenon, <1>14 DEF Restart
  <2>2. wpc' # "pending" /\ wpc' # "apply_fap" /\ \A t \in Tickers : tick'[t] \notin FastPath
    BY <1>0, <2>1
  <2>3. Fakes' = {}
    BY <1>0, <2>1 DEF Fakes
  <2>4. TaskInv'
    BY Zenon, <2>1, <2>2 DEF TaskInv
  <2> QED
    BY Zenon, <1>3, <2>1, <2>2, <2>3, <2>4
<1> QED
  BY Zenon, <1>4, <1>5, <1>6, <1>7, <1>8, <1>9, <1>10, <1>11, <1>12, <1>13, <1>14 DEF RaftStep

\* Steps of the region worker, which find the peer initialized and no fast path.
LEMMA RaceWorkerStep ==
  ASSUME IInv, WorkerStep, ~raced'
  PROVE  RaceInv'
<1> USE DEF raftVars, msgVars, tickVars, workerVars, historyVars
<1>1. /\ peer' = peer /\ snap' = snap /\ tick' = tick /\ raced' = raced
      /\ wpc \in {"queued", "pending", "apply_fap", "done"}
  BY Zenon
     DEF WorkerStep, PreApplySnapshot, PostExisting, PostNoFap, PostFoundFap, ApplyFapSnapshot,
         WriteNormal
<1>0. ~panicked /\ TickInv /\ TaskInv
  BY Zenon, <1>1 DEF IInv, RaceInv
<1>2. wpc # "idle"
  BY <1>1
<1>3. region_state = "Applying"
  BY Zenon, <1>2 DEF IInv, StateInv, PeerInv
<1>4. peer # "replicated"
  BY <1>3 DEF IInv, StateInv, PeerInv
<1>5. TickInv' /\ InflightInv'
  BY Zenon, <1>0, <1>1, <1>4 DEF TickInv, InflightInv
<1>6. ASSUME task' = NoSnapshot, panicked' = panicked, wpc' \in {"idle", "done"} PROVE RaceInv'
  <2>1. wpc' # "pending" /\ wpc' # "apply_fap"
    BY <1>6
  <2> QED
    BY Zenon, <1>0, <1>1, <1>5, <1>6, <2>1 DEF RaceInv, TaskInv
<1>7. CASE PreApplySnapshot
  <2>1. /\ wpc = "queued" /\ wpc' = "pending" /\ kvstore' = kvstore /\ fap' = fap
        /\ task' \in {task, snap} /\ panicked' = panicked
        /\ Persisted /\ ~RegionExists => task' = task
    BY Zenon, <1>7 DEF PreApplySnapshot
  <2>2. wpc # "pending" /\ wpc' # "apply_fap"
    BY <2>1
  <2>3. task = NoSnapshot
    BY Zenon, <1>0, <2>2 DEF TaskInv
  <2> QED
    BY Zenon, <1>0, <1>1, <1>5, <2>1, <2>2, <2>3 DEF RaceInv, TaskInv, Persisted, RegionExists
<1>8. CASE PostExisting \/ PostNoFap
  <2>1. task \in {NoSnapshot, snap} /\ PostRegular
    BY Zenon, <1>0, <1>8 DEF TaskInv, PostExisting, PostNoFap
  <2>2. task' = NoSnapshot /\ wpc' = "done" /\ panicked' = panicked
    BY Zenon, <2>1 DEF PostRegular
  <2> QED
    BY Zenon, <1>6, <2>2
<1>9. CASE PostFoundFap
  <2>1. /\ wpc = "pending" /\ wpc' = "apply_fap" /\ ~RegionExists /\ Persisted
        /\ kvstore' = kvstore /\ fap' = fap /\ task' = task /\ panicked' = panicked
    BY Zenon, <1>9 DEF PostFoundFap
  <2>2. wpc' # "pending"
    BY <2>1
  <2> QED
    BY Zenon, <1>0, <1>1, <1>5, <2>1, <2>2 DEF RaceInv, TaskInv, Persisted, RegionExists
<1>10. CASE ApplyFapSnapshot
  <2>1. wpc = "apply_fap" /\ Persisted
    BY Zenon, <1>0, <1>10 DEF ApplyFapSnapshot, TaskInv
  <2>2. wpc # "pending" /\ wpc' = "done" /\ panicked' = panicked /\ task' = task
    BY <1>10, <2>1 DEF ApplyFapSnapshot
  <2> QED
    BY Zenon, <1>0, <1>6, <2>2 DEF TaskInv
<1>11. CASE WriteNormal
  <2>1. wpc = "done" /\ wpc' = "idle" /\ panicked' = panicked /\ task' = task
    BY Zenon, <1>11 DEF WriteNormal
  <2>2. wpc # "pending"
    BY <2>1
  <2> QED
    BY Zenon, <1>0, <1>6, <2>1, <2>2 DEF TaskInv
<1> QED
  BY Zenon, <1>7, <1>8, <1>9, <1>10, <1>11 DEF WorkerStep

LEMMA RaceStep ==
  ASSUME IInv, [Next]_vars
  PROVE  RaceInv'
<1>1. CASE raced'
  BY Zenon, <1>1 DEF RaceInv
<1>2. CASE ~raced' /\ UNCHANGED vars
  BY Zenon, <1>2
     DEF IInv, RaceInv, TickInv, InflightInv, TaskInv, Fakes, RegionExists, Persisted, vars,
         raftVars, msgVars, tickVars, workerVars, historyVars
<1> QED
  BY Zenon, <1>1, <1>2, RaceCallStep, RaceTickStep, RaceRaftStep, RaceWorkerStep
     DEF Next, TickerStep

-----------------------------------------------------------------------------
\* The invariant holds initially and is inductive.
LEMMA InvInit ==
  ASSUME Init
  PROVE  IInv
<1> USE DEF Init
<1>1. TypeOK
  <2>1. 0 \in 0 .. MaxIndex /\ 0 \in 0 .. MaxCrashes
    BY BoundsAssumption
  <2> QED
    BY Zenon, <2>1, Records DEF TypeOK
<1>2. /\ \A t \in Tickers : tick[t] = "idle"
      /\ "peer" \in Tickers
  BY TickersAssumption
<1>3. tick["peer"] = "idle"
  BY <1>2
<1>4. StateInv
  BY <1>2, <1>3
     DEF StateInv, PeerInv, AcceptedInv, IndexInv, DataInv, FakeInv, VacantInv, Destroying
<1>5. RaceInv
  <2>1. TickInv
    BY <1>2 DEF TickInv, FastPath
  <2>2. InflightInv /\ TaskInv
    BY DEF InflightInv, TaskInv
  <2> QED
    BY Zenon, <2>1, <2>2 DEF RaceInv
<1> QED
  BY Zenon, <1>1, <1>4, <1>5 DEF IInv

LEMMA InvStep ==
  ASSUME IInv, [Next]_vars
  PROVE  IInv'
<1>1. TypeOK' /\ VacantInv' /\ RaceInv'
  BY Zenon, TypeStep, VacantStep, RaceStep DEF IInv, StateInv
<1>2. DataInvs
  BY Zenon DEF IInv, StateInv, DataInvs
<1>3. DataInvs'
  BY Zenon, <1>2, DataStep
<1> QED
  BY Zenon, <1>1, <1>3 DEF IInv, StateInv, DataInvs

LEMMA AlwaysIInv == Spec => []IInv
  BY InvInit, InvStep, PTL DEF Spec

\* The variables keep their types, whoever ticks.
THEOREM TypeCorrect == Spec => []TypeOK
<1>1. IInv => TypeOK
  BY DEF IInv
<1> QED
  BY <1>1, AlwaysIInv, PTL

\* A region becomes Normal with its data, whoever ticks and wherever a crash cuts a
\* destroy short: the only ways to lose it are a destroy, a fake snapshot that another
\* one overtook, and a race of the two tickers.
THEOREM NormalHasData == Spec => []DataUnlessOrphaned
<1>1. IInv => DataUnlessOrphaned
  <2> SUFFICES ASSUME IInv, region_state = "Normal", ~dropped
               PROVE  kvstore.idx = snap.idx /\ (kvstore.full \/ overtaken \/ raced)
    BY Zenon DEF DataUnlessOrphaned
  <2>1. region_state # "none"
    OBVIOUS
  <2> QED
    BY Zenon, <2>1 DEF IInv, StateInv, DataInv
<1> QED
  BY <1>1, AlwaysIInv, PTL

\* A fake snapshot that raft took first finds its FAP snapshot until its data is in the
\* engine-store, whoever ticks, unless the tickers raced or a destroy dropped it.
THEOREM FakeAlwaysBacked == Spec => []FakeIsBacked
<1>1. IInv => FakeIsBacked
  BY Zenon DEF IInv, StateInv, FakeInv, FakeIsBacked
<1> QED
  BY <1>1, AlwaysIInv, PTL

\* The panics of the fast path need both threads: a fast path on one of them while the
\* other starts one, persists a first snapshot or destroys the peer.
THEOREM PanicFree == Spec => []NoPanicUnlessRaced
<1>1. IInv => NoPanicUnlessRaced
  BY Zenon DEF IInv, RaceInv, NoPanicUnlessRaced
<1> QED
  BY <1>1, AlwaysIInv, PTL
==============================================================================
