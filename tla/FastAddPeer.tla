----------------------------- MODULE FastAddPeer -----------------------------
(***************************************************************************)
(* Fast add peer (FAP): a new learner fetches its data from another        *)
(* engine-store instead of waiting for the leader's snapshot.  One region. *)
(*                                                                         *)
(* The forwarder's on_raft_message hook intercepts MsgAppend and           *)
(* MsgSnapshot (core/fast_add_peer.rs).  The engine-store writes the data  *)
(* as a "FAP snapshot"; the proxy then sends itself a fake, empty          *)
(* MsgSnapshot with the same index, and when the raftstore applies that    *)
(* one, post_apply_snapshot makes the engine-store apply the FAP snapshot  *)
(* (core/forward_raft/fap_snapshot.rs).  CachedRegionInfo, one per region, *)
(* ties the two together.                                                  *)
(*                                                                         *)
(* The hook runs on the thread of the peer FSM and, for messages that were *)
(* routed before the peer existed, on the thread of the store FSM: Tickers *)
(* says which of the two call fast_add_peer.  Nothing orders the two; the  *)
(* history variable raced records that they got into each other's way.     *)
(* The batching, cancelling and retrying of Apply jobs is in               *)
(* SnapshotPrehandle.                                                      *)
(***************************************************************************)
EXTENDS Integers

CONSTANTS Tickers,     \* threads that run maybe_fast_path_tick to its end
          Vacant,      \* no CachedRegionInfo for the region
          MaxIndex,    \* bound: raft log length of the leader
          MaxCrashes   \* bound: process crashes

ASSUME TickersAssumption == Tickers \in {{"peer"}, {"peer", "store"}}
ASSUME BoundsAssumption == MaxIndex \in Nat /\ MaxCrashes \in Nat

VARIABLES
  peer,         \* absent, replicated (no snapshot yet) or initialized
  region_state, \* persisted PeerState: none, Applying or Normal
  snap,         \* the snapshot region_state is about
  cached,       \* the CachedRegionInfo, or Vacant
  fap,          \* index of the FAP snapshot persisted in the engine-store, 0 if none
  kvstore,      \* the region in the engine-store: index, and is the data there
  net,          \* MsgSnapshots on their way to the peer
  accepted,     \* the snapshot raft has taken and the write worker has not written
  leader_index, \* last index of the leader
  joined,       \* index of the conf change that added the peer
  tick,         \* where each ticker is in maybe_fast_path_tick, or the peer FSM's
                \* thread in destroy_peer (dropped, removed)
  tick_peer,    \* the peer its MsgAppend is for: the index that added it
  tick_index,   \* applied_index of the FAP snapshot it is building a fake one for
  wpc,          \* where the region worker is with the region's Apply job
  task,         \* the snapshot a registered pre-handle task is for
  panicked,     \* a panic of the proxy or of the engine-store
  crashes,
  overtaken,    \* history: a fake snapshot was accepted after another snapshot
  raced,        \* history: a fast path on one thread overlapped with a fast path,
                \* a first snapshot or a destroy on the other
  dropped       \* history: the engine-store dropped the region for a destroy that
                \* has not reached its tombstone

raftVars == <<peer, region_state, snap, leader_index, joined>>
msgVars == <<net, accepted>>
tickVars == <<tick, tick_peer, tick_index>>
workerVars == <<wpc, task>>
historyVars == <<overtaken, raced, dropped>>
vars == <<raftVars, cached, fap, kvstore, msgVars, tickVars, workerVars,
          panicked, crashes, historyVars>>

Snapshots == [fake : BOOLEAN, idx : 0 .. MaxIndex]
Stored == [idx : 0 .. MaxIndex, full : BOOLEAN]
Info == [replicated_or_created : BOOLEAN, inited_or_fallback : BOOLEAN,
         snapshot_inflight : BOOLEAN, fast_add_peer_start : BOOLEAN]
NoRegion == [idx |-> 0, full |-> FALSE]
NoSnapshot == [fake |-> FALSE, idx |-> 0]

ASSUME VacantAssumption == Vacant \notin Info

FastPath == {"ffi", "clear", "fallback", "build", "sent"}
Destroying == {"dropped", "removed"}

TypeOK ==
  /\ peer \in {"absent", "replicated", "initialized"}
  /\ region_state \in {"none", "Applying", "Normal"}
  /\ snap \in Snapshots
  /\ cached \in Info \cup {Vacant}
  /\ fap \in 0 .. MaxIndex
  /\ kvstore \in Stored
  /\ net \subseteq Snapshots /\ accepted \in Snapshots
  /\ leader_index \in 0 .. MaxIndex /\ joined \in 0 .. MaxIndex
  /\ tick \in [Tickers -> {"idle"} \cup FastPath \cup Destroying]
  /\ tick_peer \in [Tickers -> 0 .. MaxIndex]
  /\ tick_index \in [Tickers -> 0 .. MaxIndex]
  /\ wpc \in {"idle", "queued", "pending", "apply_fap", "done"}
  /\ task \in Snapshots
  /\ panicked \in BOOLEAN /\ overtaken \in BOOLEAN
  /\ raced \in BOOLEAN /\ dropped \in BOOLEAN
  /\ crashes \in 0 .. MaxCrashes

Init ==
  /\ peer = "absent" /\ region_state = "none"
  /\ snap = NoSnapshot
  /\ cached = Vacant
  /\ fap = 0 /\ kvstore = NoRegion
  /\ net = {} /\ accepted = NoSnapshot
  /\ leader_index = 0 /\ joined = 0
  /\ tick = [t \in Tickers |-> "idle"]
  /\ tick_peer = [t \in Tickers |-> 0] /\ tick_index = [t \in Tickers |-> 0]
  /\ wpc = "idle" /\ task = NoSnapshot
  /\ panicked = FALSE /\ crashes = 0 /\ overtaken = FALSE /\ raced = FALSE
  /\ dropped = FALSE

\* post_apply_snapshot holds the lock of the region's slot while it applies a
\* FAP snapshot; nobody else gets at the CachedRegionInfo.
Unlocked == wpc # "apply_fap"

\* ProxyForwarder::is_initialized: the persisted region state.
IsInitialized == region_state # "none"

\* The other thread is in the middle of something that concerns the region.
OtherBusy(t) == \E u \in Tickers \ {t} : tick[u] # "idle"

NewInfo(replicated, inited, start) ==
  [replicated_or_created |-> replicated, inited_or_fallback |-> inited,
   snapshot_inflight |-> FALSE, fast_add_peer_start |-> start]

\* Fault: the fallback is not recorded.
EndFapUnrecorded(c) == NewInfo(c.replicated_or_created, FALSE, FALSE)

\* The three stores that end a fast path, whether it succeeded or not.
EndFap(c) == NewInfo(c.replicated_or_created, TRUE, FALSE)
-----------------------------------------------------------------------------
\* maybe_fast_path_tick: what a MsgAppend does.

\* The closure f of maybe_fast_path_tick and the decisions taken from it: the
\* new CachedRegionInfo, and whether the ticker goes on to call fast_add_peer.
\* FALLBACK_MILLIS is 0, so f never falls back on a timeout.
TickInfo ==
  CASE cached = Vacant /\ IsInitialized -> Vacant
    [] cached = Vacant /\ ~IsInitialized -> NewInfo(FALSE, FALSE, TRUE)
    [] OTHER ->
         [cached EXCEPT
            !.inited_or_fallback = @ \/ IsInitialized,
            !.fast_add_peer_start =
               @ \/ (/\ ~cached.inited_or_fallback /\ ~IsInitialized
                     /\ ~cached.snapshot_inflight)]

TickGoesOn ==
  /\ cached # Vacant /\ cached.replicated_or_created
  /\ ~cached.inited_or_fallback /\ ~IsInitialized
  /\ ~cached.snapshot_inflight

\* Fault: a fake snapshot that was sent does not stop the next MsgAppend.
TickGoesOnInflight ==
  /\ cached # Vacant /\ cached.replicated_or_created
  /\ ~cached.inited_or_fallback /\ ~IsInitialized

MayTick(t) == tick[t] = "idle" /\ (t = "peer" => peer # "absent")

\* The store FSM also sees messages for a peer that is gone (peer 0 here): the
\* hook runs before the raftstore's checks of the message.
TickBody(t, info, goes_on) ==
  /\ ~panicked /\ MayTick(t) /\ Unlocked
  /\ cached' = info
  /\ IF goes_on
     THEN /\ tick' = [tick EXCEPT ![t] = "ffi"]
          /\ \E p \in {joined} \cup IF t = "store" THEN {0} ELSE {} :
               tick_peer' = [tick_peer EXCEPT ![t] = p]
     ELSE UNCHANGED <<tick, tick_peer>>
  /\ raced' = (raced \/ (goes_on /\ OtherBusy(t)))
  /\ UNCHANGED <<raftVars, fap, kvstore, msgVars, tick_index, workerVars, panicked,
                 crashes, overtaken, dropped>>

\* Fault: as TickGoesOnInflight.
TickInflight(t) == TickBody(t, TickInfo, TickGoesOnInflight)

\* Fault: the entry for the first message is built but never inserted, as the
\* code does for an initialized region.
TickNoInsert(t) ==
  TickBody(t, IF cached = Vacant THEN Vacant ELSE TickInfo,
           IF cached = Vacant THEN ~IsInitialized ELSE TickGoesOn)

Tick(t) == TickBody(t, TickInfo, TickGoesOn)

\* The first MsgAppend of a region reaches the store FSM before the peer
\* exists: it only registers the region.
TickAbsent ==
  /\ ~panicked /\ peer = "absent" /\ cached = Vacant
  /\ cached' = TickInfo
  /\ UNCHANGED <<raftVars, fap, kvstore, msgVars, tickVars, workerVars, panicked,
                 crashes, historyVars>>

\* maybe_fast_path_tick returns.
EndTick(t) ==
  /\ tick' = [tick EXCEPT ![t] = "idle"]
  /\ tick_peer' = [tick_peer EXCEPT ![t] = 0]
  /\ tick_index' = [tick_index EXCEPT ![t] = 0]

\* The FFI call fast_add_peer answers WaitForData: the MsgAppend is dropped.
FapWait(t) ==
  /\ ~panicked /\ tick[t] = "ffi"
  /\ EndTick(t)
  /\ UNCHANGED <<raftVars, cached, fap, kvstore, msgVars, workerVars, panicked,
                 crashes, historyVars>>

\* It answers Ok: a FAP snapshot with applied index i is persisted.  It is of
\* use only if the remote peer had applied the conf change that added this one
\* (validate_remote_peer_region).
FapOk(t) ==
  \E i \in 1 .. leader_index :
    /\ ~panicked /\ tick[t] = "ffi"
    /\ fap' = i
    /\ IF i >= joined /\ tick_peer[t] = joined
       THEN /\ tick' = [tick EXCEPT ![t] = "build"]
            /\ tick_index' = [tick_index EXCEPT ![t] = i]
       ELSE tick' = [tick EXCEPT ![t] = "clear"] /\ UNCHANGED tick_index
    /\ UNCHANGED <<raftVars, cached, kvstore, msgVars, tick_peer, workerVars,
                   panicked, crashes, historyVars>>

\* It answers with an error.  A result that does not parse ends the same way: the
\* code falls back and goes on with an empty region or applied index 0, which the
\* next checks refuse, and falls back again.
FapError(t) ==
  /\ ~panicked /\ tick[t] = "ffi"
  /\ tick' = [tick EXCEPT ![t] = "clear"]
  /\ UNCHANGED <<raftVars, cached, fap, kvstore, msgVars, tick_peer, tick_index,
                 workerVars, panicked, crashes, historyVars>>

\* fap_fallback_to_slow, first half: clear_fap_snapshot.
FallbackClear(t) ==
  /\ ~panicked /\ tick[t] = "clear"
  /\ fap' = 0
  /\ tick' = [tick EXCEPT ![t] = "fallback"]
  /\ UNCHANGED <<raftVars, cached, kvstore, msgVars, tick_peer, tick_index,
                 workerVars, panicked, crashes, historyVars>>

\* fallback_to_slow_path, under the lock.
FallbackToSlowPath(t) ==
  /\ ~panicked /\ tick[t] = "fallback" /\ Unlocked
  /\ EndTick(t)
  /\ IF cached = Vacant
     THEN panicked' = TRUE /\ UNCHANGED cached
     ELSE cached' = EndFap(cached) /\ UNCHANGED panicked
  /\ UNCHANGED <<raftVars, fap, kvstore, msgVars, workerVars, crashes, historyVars>>

\* build_and_send_snapshot fails before it sends (a raft log entry or a file is
\* missing), or the transport answers with an error.
BuildError(t) ==
  /\ ~panicked /\ tick[t] = "build"
  /\ tick' = [tick EXCEPT ![t] = "fallback"]
  /\ tick_index' = [tick_index EXCEPT ![t] = 0]
  /\ UNCHANGED <<raftVars, cached, fap, kvstore, msgVars, tick_peer, workerVars,
                 panicked, crashes, historyVars>>

\* The transport does not find the region: the call succeeds all the same.
SendRegionNotFound(t) ==
  /\ ~panicked /\ tick[t] = "build"
  /\ EndTick(t)
  /\ UNCHANGED <<raftVars, cached, fap, kvstore, msgVars, workerVars, panicked,
                 crashes, historyVars>>

SendBody(t, i) ==
  /\ ~panicked /\ tick[t] = "build"
  /\ tick' = [tick EXCEPT ![t] = "sent"]
  /\ tick_index' = [tick_index EXCEPT ![t] = 0]
  /\ net' = IF peer # "absent" /\ tick_peer[t] = joined
            THEN net \cup {[fake |-> TRUE, idx |-> i]} ELSE net
  /\ UNCHANGED <<raftVars, cached, fap, kvstore, accepted, tick_peer, workerVars,
                 panicked, crashes, historyVars>>

\* Fault: the snapshot is built for the index after the applied one.
SendFakeNext(t) == SendBody(t, tick_index[t] + 1)

\* trans.send of the fake snapshot.  One sent for a peer that is gone is dropped
\* by the message checks of the raftstore.
SendFake(t) == SendBody(t, tick_index[t])

Inflight == [cached EXCEPT !.snapshot_inflight = TRUE]

\* set_snapshot_inflight, under the lock.
SetSnapshotInflight(t) ==
  /\ ~panicked /\ tick[t] = "sent" /\ Unlocked
  /\ EndTick(t)
  /\ IF cached = Vacant
     THEN panicked' = TRUE /\ UNCHANGED cached
     ELSE cached' = Inflight /\ UNCHANGED panicked
  /\ UNCHANGED <<raftVars, fap, kvstore, msgVars, workerVars, crashes, historyVars>>
-----------------------------------------------------------------------------
\* The raftstore: creating, initializing and destroying the peer.

\* The leader proposes; nothing else of it matters here.
LeaderAppend ==
  /\ ~panicked /\ leader_index < MaxIndex
  /\ leader_index' = leader_index + 1
  /\ UNCHANGED <<peer, region_state, snap, joined, cached, fap, kvstore, msgVars,
                 tickVars, workerVars, panicked, crashes, historyVars>>

\* maybe_create_peer: a conf change added a peer on this store and its leader
\* contacts it.
CreatePeer ==
  /\ ~panicked /\ peer = "absent" /\ leader_index < MaxIndex
  /\ peer' = "replicated"
  /\ leader_index' = leader_index + 1 /\ joined' = leader_index + 1
  /\ UNCHANGED <<region_state, snap, cached, fap, kvstore, msgVars, tickVars,
                 workerVars, panicked, crashes, historyVars>>

\* on_role_change of the forwarder.
RoleChangeInfo ==
  IF cached = Vacant THEN NewInfo(TRUE, peer = "initialized", FALSE)
  ELSE [cached EXCEPT !.replicated_or_created = @ \/ peer = "replicated"]

OnRoleChange ==
  /\ ~panicked /\ peer # "absent" /\ tick["peer"] = "idle" /\ Unlocked
  /\ cached' = RoleChangeInfo /\ cached' # cached
  /\ UNCHANGED <<raftVars, fap, kvstore, msgVars, tickVars, workerVars, panicked,
                 crashes, historyVars>>

\* The leader sends a regular snapshot, which contains this peer.
SendRegular ==
  /\ ~panicked /\ peer # "absent"
  /\ \E i \in joined .. leader_index : net' = net \cup {[fake |-> FALSE, idx |-> i]}
  /\ UNCHANGED <<raftVars, cached, fap, kvstore, accepted, tickVars, workerVars,
                 panicked, crashes, historyVars>>

LoseSnapshot ==
  /\ ~panicked /\ \E s \in net : net' = net \ {s}
  /\ UNCHANGED <<raftVars, cached, fap, kvstore, accepted, tickVars, workerVars,
                 panicked, crashes, historyVars>>

\* snapshot_filter: is a MsgSnapshot ignored, and what becomes of the info.
FilterRejects ==
  /\ cached # Vacant /\ ~cached.inited_or_fallback
  /\ cached.fast_add_peer_start /\ ~cached.snapshot_inflight

FilterInfo ==
  IF cached = Vacant THEN Vacant
  ELSE [cached EXCEPT !.inited_or_fallback = @ \/ IsInitialized]

\* The peer FSM receives a MsgSnapshot: the hook filters it, and raft takes one
\* that is ahead of the log.  While an earlier snapshot is being written or applied
\* it stays where it is.
RecvSnapshot(s) ==
  /\ ~panicked /\ s \in net /\ net' = net \ {s}
  /\ peer # "absent" /\ region_state # "Applying" /\ accepted = NoSnapshot
  /\ tick["peer"] = "idle" /\ Unlocked
  /\ cached' = FilterInfo
  /\ accepted' = IF FilterRejects \/ (peer = "initialized" /\ s.idx <= snap.idx)
                 THEN NoSnapshot ELSE s
  /\ UNCHANGED <<raftVars, fap, kvstore, tickVars, workerVars, panicked, crashes,
                 historyVars>>

\* on_region_changed with a Create event.
OnRegionCreated(info) == IF info = Vacant THEN NewInfo(TRUE, TRUE, FALSE) ELSE info

\* The ready with the snapshot is written, region state and all; on_persist_snapshot
\* announces a new region and schedules the Apply job.
PersistSnapshot ==
  /\ ~panicked /\ accepted # NoSnapshot /\ tick["peer"] = "idle" /\ Unlocked
  /\ accepted' = NoSnapshot
  /\ peer' = "initialized" /\ region_state' = "Applying" /\ snap' = accepted
  /\ cached' = OnRegionCreated(cached)
  /\ wpc' = "queued"
  /\ overtaken' = (overtaken \/ (accepted.fake /\ peer = "initialized"))
  /\ raced' = (raced \/ OtherBusy("peer")) /\ dropped' = FALSE
  /\ UNCHANGED <<leader_index, joined, fap, kvstore, net, tickVars, task, panicked,
                 crashes>>

\* destroy_peer of a peer with no unpersisted ready and no Apply job that runs (one
\* that was waiting is cancelled).  First on_region_changed, with a Destroy event,
\* makes the engine-store drop the region and its FAP snapshot.
HandleDestroy ==
  /\ ~panicked /\ peer # "absent" /\ tick["peer"] = "idle" /\ accepted = NoSnapshot
  /\ wpc \in {"idle", "queued", "pending"}
  /\ tick' = [tick EXCEPT !["peer"] = "dropped"]
  /\ fap' = 0 /\ kvstore' = NoRegion
  /\ wpc' = "idle" /\ task' = NoSnapshot
  /\ raced' = (raced \/ OtherBusy("peer")) /\ dropped' = TRUE
  /\ UNCHANGED <<raftVars, cached, msgVars, tick_peer, tick_index, panicked, crashes,
                 overtaken>>

\* Then it removes the CachedRegionInfo.
RemoveCachedRegionInfo ==
  /\ ~panicked /\ tick["peer"] = "dropped" /\ Unlocked
  /\ tick' = [tick EXCEPT !["peer"] = "removed"]
  /\ cached' = Vacant
  /\ UNCHANGED <<raftVars, fap, kvstore, msgVars, tick_peer, tick_index, workerVars,
                 panicked, crashes, historyVars>>

\* Peer::destroy writes the tombstone and the mailbox is closed.  A fast path of
\* the store FSM may outlive the peer.
DestroyPeer ==
  /\ ~panicked /\ tick["peer"] = "removed"
  /\ tick' = [tick EXCEPT !["peer"] = "idle"]
  /\ peer' = "absent" /\ region_state' = "none" /\ snap' = NoSnapshot
  /\ net' = {}
  /\ overtaken' = FALSE /\ dropped' = FALSE /\ raced' = OtherBusy("peer")
  /\ UNCHANGED <<leader_index, joined, cached, fap, kvstore, accepted, tick_peer,
                 tick_index, workerVars, panicked, crashes>>
-----------------------------------------------------------------------------
\* The region worker applies the snapshot.

\* query_fap_snapshot_state: is there a FAP snapshot for this very snapshot.
Persisted == fap = snap.idx

\* kvstore_region_exist of the engine-store.
RegionExists == kvstore.idx # 0

\* Fault: a snapshot whose pre-handling is skipped is taken for applied.
PreApplySnapshotDone ==
  /\ ~panicked /\ wpc = "queued"
  /\ LET skip == Persisted /\ (cached = Vacant \/ ~RegionExists)
     IN  wpc' = IF skip THEN "done" ELSE "pending"
  /\ UNCHANGED <<raftVars, cached, fap, kvstore, msgVars, tickVars, task, panicked,
                 crashes, historyVars>>

\* pre_apply_snapshot: pre-handle in the background, unless the snapshot will be
\* replaced by the FAP snapshot (pre_apply_snapshot_for_fap_snapshot) or its
\* files cannot be opened.
PreApplySnapshot ==
  /\ ~panicked /\ wpc = "queued"
  /\ wpc' = "pending"
  /\ IF Persisted /\ (cached = Vacant \/ ~RegionExists)
     THEN UNCHANGED task ELSE task' \in {task, snap}
  /\ UNCHANGED <<raftVars, cached, fap, kvstore, msgVars, tickVars, panicked, crashes,
                 historyVars>>

\* apply_pre_handled_snapshot of the engine-store.  It keeps what it has when the
\* very same snapshot is installed again after a crash, and drops a FAP snapshot.
\* A fake snapshot has no data in its files; a regular one makes up for what a
\* destroy dropped.
ApplyPreHandledSnapshot ==
  /\ kvstore' = IF kvstore.idx = snap.idx THEN kvstore
                ELSE [idx |-> snap.idx, full |-> ~snap.fake]
  /\ fap' = 0
  /\ dropped' = (dropped /\ snap.fake)

\* The regular half of post_apply_snapshot: install the pre-handled data, or
\* pre-handle now.  A task for another snapshot is a panic.
PostRegular ==
  IF task \in {NoSnapshot, snap}
  THEN /\ ApplyPreHandledSnapshot
       /\ task' = NoSnapshot /\ wpc' = "done" /\ UNCHANGED panicked
  ELSE panicked' = TRUE /\ UNCHANGED <<kvstore, fap, task, wpc, dropped>>

\* post_apply_snapshot of a region that the engine-store has already.
PostExisting ==
  /\ ~panicked /\ wpc = "pending" /\ RegionExists
  /\ PostRegular
  /\ UNCHANGED <<raftVars, cached, msgVars, tickVars, crashes, overtaken, raced>>

\* quit_apply_fap: there is no FAP snapshot for this snapshot, which is applied
\* as a regular one; the fast path is over.
PostNoFap ==
  /\ ~panicked /\ wpc = "pending" /\ ~RegionExists /\ ~Persisted
  /\ PostRegular
  /\ cached' = IF cached = Vacant THEN Vacant ELSE EndFap(cached)
  /\ UNCHANGED <<raftVars, msgVars, tickVars, crashes, overtaken, raced>>

\* The FAP snapshot is there: the worker keeps the slot's lock and applies it.
PostFoundFap ==
  /\ ~panicked /\ wpc = "pending" /\ ~RegionExists /\ Persisted
  /\ wpc' = "apply_fap"
  /\ UNCHANGED <<raftVars, cached, fap, kvstore, msgVars, tickVars, task, panicked,
                 crashes, historyVars>>

\* apply_fap_snapshot with assert_exist: the engine-store panics if that FAP
\* snapshot is gone by now.  A task that pre-handles the snapshot is not taken.
ApplyFapSnapshot ==
  /\ ~panicked /\ wpc = "apply_fap"
  /\ IF ~Persisted
     THEN panicked' = TRUE /\ UNCHANGED <<wpc, kvstore, fap, cached>>
     ELSE /\ wpc' = "done"
          /\ kvstore' = [idx |-> fap, full |-> TRUE] /\ fap' = 0
          /\ cached' = IF cached = Vacant THEN Vacant ELSE EndFap(cached)
          /\ UNCHANGED panicked
  /\ UNCHANGED <<raftVars, msgVars, tickVars, task, crashes, historyVars>>

\* apply_snap ends: the region state becomes Normal.
WriteNormal ==
  /\ ~panicked /\ wpc = "done"
  /\ wpc' = "idle" /\ region_state' = "Normal"
  /\ UNCHANGED <<peer, snap, leader_index, joined, cached, fap, kvstore, msgVars,
                 tickVars, task, panicked, crashes, historyVars>>

\* Crash and StoreFsm init: regions in state Normal announce themselves with a
\* Create event, those in state Applying have their snapshot scheduled again,
\* uninitialized peers are forgotten.
Restart ==
  /\ ~panicked /\ crashes < MaxCrashes
  /\ crashes' = crashes + 1
  /\ peer' = IF region_state = "none" THEN "absent" ELSE peer
  /\ cached' = IF region_state = "Normal" THEN OnRegionCreated(Vacant) ELSE Vacant
  /\ tick' = [t \in Tickers |-> "idle"]
  /\ tick_peer' = [t \in Tickers |-> 0] /\ tick_index' = [t \in Tickers |-> 0]
  /\ net' = {} /\ accepted' = NoSnapshot
  /\ dropped' = (dropped /\ region_state # "none")
  /\ wpc' = IF region_state = "Applying" THEN "queued" ELSE "idle"
  /\ task' = NoSnapshot
  /\ UNCHANGED <<region_state, snap, leader_index, joined, fap, kvstore, panicked,
                 overtaken, raced>>

-----------------------------------------------------------------------------
\* A step of a call of maybe_fast_path_tick that has gone on to fast_add_peer.
CallStep(t) ==
  \/ FapWait(t) \/ FapOk(t) \/ FapError(t) \/ FallbackClear(t)
  \/ FallbackToSlowPath(t) \/ BuildError(t) \/ SendRegionNotFound(t) \/ SendFake(t)
  \/ SetSnapshotInflight(t)

TickerStep(t) == Tick(t) \/ CallStep(t)

RaftStep ==
  \/ LeaderAppend \/ CreatePeer \/ OnRoleChange \/ TickAbsent \/ SendRegular
  \/ LoseSnapshot \/ (\E s \in net : RecvSnapshot(s)) \/ PersistSnapshot
  \/ HandleDestroy \/ RemoveCachedRegionInfo \/ DestroyPeer \/ Restart

WorkerStep ==
  \/ PreApplySnapshot \/ PostExisting \/ PostNoFap \/ PostFoundFap
  \/ ApplyFapSnapshot \/ WriteNormal

\* A panic ends the process: no action is enabled after it.
Next == (\E t \in Tickers : TickerStep(t)) \/ RaftStep \/ WorkerStep

Spec == Init /\ [][Next]_vars
-----------------------------------------------------------------------------
\* Properties.

\* A region that is Normal is in the engine-store with the index of its snapshot,
\* unless a crash cut its destruction short, and with its data, unless another
\* snapshot overtook the fake one or the two tickers raced: whichever order
\* MsgAppends, snapshots, role changes, fallbacks, crashes and the region worker ran
\* in (maybe_fast_path_tick, snapshot_filter, pre_/post_apply_snapshot).
DataUnlessOrphaned ==
  region_state = "Normal" /\ ~dropped =>
    /\ kvstore.idx = snap.idx
    /\ kvstore.full \/ overtaken \/ raced

\* A fake snapshot that raft took as the first one of the region finds its FAP
\* snapshot until the engine-store has the data: no fallback, second fast path or
\* restart takes it away (snapshot_inflight is what protects it).  Only a race of
\* the two tickers does, or a destroy, also one that a crash cuts short.
FakeIsBacked ==
  /\ region_state = "Applying" /\ snap.fake /\ ~overtaken /\ ~raced /\ ~dropped
  /\ wpc \in {"queued", "pending", "apply_fap"}
  => \/ fap = snap.idx
     \/ kvstore = [idx |-> snap.idx, full |-> TRUE]

\* No panic: the CachedRegionInfo that fallback_to_slow_path and
\* set_snapshot_inflight expect is there, apply_fap_snapshot finds the FAP
\* snapshot that was queried before, and no left-over pre-handle task is taken for
\* another snapshot.
NoPanic == ~panicked

\* The same as long as the store FSM's thread is not inside a fast path while the
\* peer FSM's thread starts one, persists a snapshot or destroys the peer: nothing
\* else, no crash, lost message or cut destroy, leads to one of these panics.
NoPanicUnlessRaced == panicked => raced

\* The comments in pre_ and post_apply_snapshot_for_fap_snapshot: the branch for a
\* vacant CachedRegionInfo is not reached, "because cached region info is inited
\* after restart and on the first fap message".
InfoKnownWhenApplying == wpc \in {"queued", "pending"} => cached # Vacant

\* The comment in post_apply_snapshot_for_fap_snapshot: a fake snapshot is handled
\* as such "to prevent error data", so a Normal region that is not being destroyed
\* has its data.
DataWhenNormal == region_state = "Normal" /\ ~dropped => kvstore.full
-----------------------------------------------------------------------------
\* Liveness.

\* A MsgAppend passes the hook.  Raft, whose log is empty, rejects it, and only
\* then does the leader owe the peer a snapshot: a MsgAppend that the hook drops is
\* never answered.
AppendPasses ==
  /\ peer = "replicated" /\ accepted = NoSnapshot
  /\ cached # Vacant /\ cached.inited_or_fallback

AnswerRejection == AppendPasses /\ SendRegular

\* snapshot_inflight is set and nothing is in flight.  MsgAppends are dropped from
\* here on, so neither a fast path nor the leader will send another snapshot.
FakeLost ==
  /\ peer = "replicated" /\ accepted = NoSnapshot
  /\ cached # Vacant /\ cached.snapshot_inflight
  /\ net = {}

\* Fairness: threads run and calls return; MsgAppends keep coming to the peer FSM;
\* the engine-store gives a fast path up some day ("we move the canceling mechanism
\* to TiFlash", maybe_fast_path_tick) and the transport finds the region of a peer
\* that exists; the leader answers a rejected MsgAppend, and its snapshots are not
\* lost for ever.
Fairness ==
  /\ WF_vars(Tick("peer")) /\ WF_vars(OnRoleChange)
  /\ \A t \in Tickers :
       /\ WF_vars(CallStep(t))
       /\ SF_vars(FapOk(t) \/ FapError(t))
       /\ SF_vars(BuildError(t) \/ SendFake(t))
  /\ WF_vars(RemoveCachedRegionInfo \/ DestroyPeer)
  /\ WF_vars(PersistSnapshot) /\ WF_vars(WorkerStep)
  /\ WF_vars(AnswerRejection)
  /\ SF_vars(\E s \in net : s.fake /\ RecvSnapshot(s))
  /\ SF_vars(\E s \in net : ~s.fake /\ RecvSnapshot(s))

LiveSpec == Spec /\ Fairness

\* A peer that was added ends up with a Normal region or is destroyed, unless its
\* fake snapshot is lost or two tickers make the process panic: a failed, refused
\* or interrupted fast path does not leave it waiting for ever.
PeerIsInitialized ==
  peer = "replicated" ~>
    (region_state = "Normal" \/ peer = "absent" \/ FakeLost \/ panicked)
==============================================================================
