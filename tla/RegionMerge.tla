----------------------------- MODULE RegionMerge -----------------------------
(***************************************************************************)
(* The merge of a source region S into its neighbour T on one store: the    *)
(* peer and the apply delegate of each region, the mailboxes between them,  *)
(* StoreMeta, the region states in the kv engine, and the engine-store      *)
(* whose data the merge moves.                                              *)
(*                                                                          *)
(* Both regions follow logs that are committed elsewhere (History).  T may  *)
(* reach the merge through its log (CommitMerge) or jump over it with a     *)
(* snapshot, S may be behind T, and the process may crash between any two   *)
(* steps.                                                                   *)
(***************************************************************************)
EXTENDS Naturals, Sequences

CONSTANTS
  Histories,   \* pairs [s |-> log of S, t |-> log of T]
  MaxCrashes   \* bound: restarts of the process

(* An entry of S is a write or the empty entry of a new leader ("write"), a     *)
(* PrepareMerge, or a RollbackMerge of the PrepareMerge at an index.  An entry  *)
(* of T is a write, a split of some other part of T ("split"), a split that     *)
(* gives S's former range away ("leave") or a CommitMerge, with the epoch       *)
(* version of its header and the index of its PrepareMerge.                     *)
SEntry == [k : {"write", "prepare"}] \cup [k : {"rollback"}, at : Nat \ {0}]
TEntry == [k : {"write", "split", "leave"}] \cup [k : {"commit"}, ver : Nat, at : Nat]

-----------------------------------------------------------------------------
(* What the logs x.s of S and x.t of T say. *)

SVer(x, i) == 1 + Len(SelectSeq(SubSeq(x.s, 1, i), LAMBDA e : e.k # "write"))

(* T's region after entry i, r being the one before: its epoch version, the entry that   *)
(* merged S into it (0: none) and whether it still covers S's range.  A CommitMerge       *)
(* whose header has another version is rejected.                                          *)
After(x, r, i) ==
  LET e == x.t[i] IN
  CASE e.k = "write" -> r
    [] e.k = "split" -> [r EXCEPT !.ver = @ + 1]
    [] e.k = "leave" -> [r EXCEPT !.ver = @ + 1, !.covers = FALSE]
    [] e.k = "commit" /\ e.ver # r.ver -> r
    [] OTHER -> [ver |-> (IF SVer(x, e.at) > r.ver THEN SVer(x, e.at) ELSE r.ver) + 1,
                 merged |-> i, covers |-> TRUE]

Regions(x) ==
  LET R[i \in 0 .. Len(x.t)] == IF i = 0 THEN [ver |-> 1, merged |-> 0, covers |-> FALSE]
                                         ELSE After(x, R[i - 1], i)
  IN  R

(* f is the PrepareMerge in force after each entry of S (0: none).  A PrepareMerge closes *)
(* S's log for everything but its own rollback and empty entries of new leaders.          *)
InForce(x, f) ==
  /\ f[0] = 0
  /\ \A i \in 1 .. Len(x.s) :
       /\ f[i] <= i
       /\ x.s[i].k = "write" => f[i] = f[i - 1]
       /\ x.s[i].k = "prepare" => f[i] = i
       /\ x.s[i].k = "rollback" => f[i] = 0 /\ f[i - 1] = x.s[i].at

(* The PrepareMerge at c is never rolled back: all that follows it are empty entries. *)
StaysInForce(x, f, c) == c \in 1 .. Len(x.s) /\ \A i \in c .. Len(x.s) : f[i] = c

(* The logs S and T may have.  The versions of T only grow and tell its regions apart;    *)
(* T merges S at most once, with a PrepareMerge that is not rolled back, and does not get *)
(* S's range back once it has given it away.                                              *)
HistoryOK(x) ==
  LET R == Regions(x)
      m == R[Len(x.t)].merged
  IN  /\ x.s \in Seq(SEntry) /\ x.t \in Seq(TEntry)
      /\ \E f \in [0 .. Len(x.s) -> 0 .. Len(x.s)] :
           InForce(x, f) /\ (m # 0 => StaysInForce(x, f, x.t[m].at))
      /\ R \in [0 .. Len(x.t) -> [ver : Nat, merged : 0 .. Len(x.t), covers : BOOLEAN]]
      /\ R[0].ver = 1
      /\ \A i, j \in 0 .. Len(x.t) :
           /\ i <= j => R[i].ver <= R[j].ver
           /\ R[i].ver = R[j].ver => R[i].covers = R[j].covers
           /\ m <= i /\ i <= j /\ R[j].covers => R[i].covers
      /\ \A i \in 0 .. Len(x.t) :
           /\ R[i].merged # 0 <=> m # 0 /\ i >= m
           /\ R[i].covers => m # 0 /\ i >= m
      /\ m # 0 => x.t[m].ver = R[m - 1].ver

ASSUME MergeAssumption == MaxCrashes \in Nat /\ \A x \in Histories : HistoryOK(x)

-----------------------------------------------------------------------------
VARIABLES
  h,        \* the committed logs of the two regions
  low,      \* the first entry that the CommitMerge of h.t carries, 0: not proposed
  sp,       \* S's PeerFsm
  sbox,     \* the mailbox of S's PeerFsm
  sa,       \* S's ApplyFsm
  sdisk,    \* S's raft log and commit index in the raft engine
  tp,       \* T's PeerFsm
  tbox,     \* the apply results in the mailbox of T's PeerFsm
  ta,       \* T's ApplyFsm
  tdisk,    \* T's raft log and commit index in the raft engine
  meta,     \* StoreMeta
  kv,       \* region states and apply states in the kv engine
  es,       \* the engine-store in memory
  esdisk,   \* what the engine-store must have on disk
  crashes,
  panic     \* "none", or the assertion that failed

vars == <<h, low, sp, sbox, sa, sdisk, tp, tbox, ta, tdisk, meta, kv, es, esdisk, crashes, panic>>
source == <<sp, sbox, sa, sdisk>>
target == <<tp, tbox, ta, tdisk>>
store == <<kv, es, esdisk>>

TRegion == Regions(h)                      \* T's region after each entry of its log
Merge == TRegion[Len(h.t)].merged          \* the entry of T that merges S
Commit == h.t[Merge].at                    \* S's PrepareMerge, the last entry T needs
TargetVer == h.t[Merge].ver                \* the version of T when S was merged

-----------------------------------------------------------------------------
NoSnap == [idx |-> 0, phase |-> "none", destroy |-> FALSE]

Peer == [up |-> TRUE, last |-> 0, commit |-> 0, sent |-> 0, merge |-> 0, cul |-> 0,
         removing |-> FALSE, delayed |-> "none"]

Init ==
  /\ h \in Histories /\ low = 0
  /\ sp = Peer /\ sbox = << >>
  /\ sa = [stopped |-> FALSE, applied |-> 0, write |-> FALSE, tasks |-> << >>]
  /\ sdisk = [last |-> 0, commit |-> 0]
  /\ tp = [last |-> 0, commit |-> 0, sent |-> 0, applied |-> 0, snap |-> 0,
           checked |-> [idx |-> 0, destroy |-> FALSE], inst |-> NoSnap]
  /\ tbox = << >>
  /\ ta = [applied |-> 0, ver |-> 1, wait |-> "no", write |-> FALSE]
  /\ tdisk = [last |-> 0, commit |-> 0]
  /\ meta = [s |-> TRUE, tver |-> 1, target |-> 0, atomic |-> "none"]
  /\ kv = [s |-> "Normal", sapplied |-> 0, merge |-> 0, t |-> "Normal", tapplied |-> 0, tver |-> 1]
  /\ es = [s |-> TRUE, sapplied |-> 0, tapplied |-> 0, absorbed |-> 0]
  /\ esdisk = es
  /\ crashes = 0 /\ panic = "none"

(* Every step of the store needs the process to be alive; a step that meets a failed *)
(* assertion only records it.                                                        *)
Alive == panic = "none"
Check(ok, what) == panic' = IF ok THEN panic ELSE what

(* Router::force_send to S fails once S's mailbox is closed. *)
ToSource(m) == sbox' = IF sp.up THEN Append(sbox, m) ELSE sbox

-----------------------------------------------------------------------------
(* S's peer and apply delegate. *)

(* MsgAppend and heartbeats from S's leader, and the ready that follows: the log and  *)
(* the hard state are persisted, the committed entries go to the apply delegate.  A   *)
(* peer that is being removed ignores raft messages.                                  *)
AppendS ==
  /\ Alive /\ sp.up /\ ~sp.removing
  /\ \E l \in sp.last .. Len(h.s), c \in sp.commit .. Len(h.s) :
       /\ c <= l /\ <<l, c>> # <<sp.last, sp.commit>>
       /\ sp' = [sp EXCEPT !.last = l, !.commit = c, !.sent = c]
       /\ sdisk' = [last |-> l, commit |-> c]
  /\ UNCHANGED <<h, low, sbox, sa, target, meta, store, crashes, panic>>

(* The ready after a restart, or after the target has appended to S's log. *)
ReadyS ==
  /\ Alive /\ sp.up /\ ~sp.removing
  /\ sdisk' = [last |-> sp.last, commit |-> sp.commit]
  /\ sp' = [sp EXCEPT !.sent = sp.commit]
  /\ <<sp', sdisk'>> # <<sp, sdisk>>
  /\ UNCHANGED <<h, low, sbox, sa, target, meta, store, crashes, panic>>

(* A write or an admin command reaches the engine-store unless it already has it. *)
EsWriteS(i) ==
  es' = [es EXCEPT !.sapplied = IF es.s /\ i > @ THEN i ELSE @]

(* The answer Persist to an admin command of S: S is flushed. *)
EsPersistS(i) ==
  /\ EsWriteS(i)
  /\ esdisk' = [esdisk EXCEPT !.sapplied = IF esdisk.s THEN es'.sapplied ELSE @]

(* exec_rollback_merge reads the region state that PrepareMerge wrote. *)
RollbackOk(e) == e.k = "rollback" => kv.s = "Merging" /\ kv.merge = e.at

ApplyS ==
  /\ Alive /\ ~sa.stopped /\ ~sa.write /\ sa.applied < sp.sent
  /\ LET i == sa.applied + 1
         k == h.s[i].k
     IN  /\ sa' = [sa EXCEPT !.applied = i, !.write = k # "write"]
         /\ IF k = "write" THEN EsWriteS(i) /\ UNCHANGED esdisk ELSE EsPersistS(i)
         /\ Check(RollbackOk(h.s[i]), "exec_rollback_merge: not merging")
  /\ UNCHANGED <<h, low, sp, sbox, sdisk, target, meta, kv, crashes>>

(* ApplyContext::commit after the command, then the ApplyRes. *)
WriteS ==
  /\ Alive /\ sa.write
  /\ sa' = [sa EXCEPT !.write = FALSE]
  /\ LET e == h.s[sa.applied]
         p == e.k = "prepare"
     IN  /\ kv' = [kv EXCEPT !.sapplied = sa.applied,
                             !.s = IF p THEN "Merging" ELSE "Normal",
                             !.merge = IF p THEN sa.applied ELSE 0]
         /\ ToSource([k |-> e.k, at |-> IF p THEN sa.applied ELSE e.at])
  /\ UNCHANGED <<h, low, sp, sdisk, target, meta, es, esdisk, crashes, panic>>

-----------------------------------------------------------------------------
(* The messages of S's mailbox.  Took(m): S's peer takes m off its mailbox. *)

Took(k) == Alive /\ sp.up /\ sbox # << >> /\ Head(sbox).k = k

(* maybe_append_merge_entries: the entries low .. c that the CommitMerge carries, as  *)
(* far as they are not committed here yet.  commit_to beyond the log panics,          *)
(* maybe_append of entries that do not follow the log does nothing.                   *)
MergeEntriesFit(c) == low > c => sp.last >= c
\* Mutant: without entries there is nothing to do.
MaybeAppendEntriesOnly(c) ==
  LET at == IF low - 1 < sp.commit THEN sp.commit ELSE low - 1 IN
  IF low > c \/ at >= c \/ at > sp.last THEN sp
  ELSE [sp EXCEPT !.last = IF c > @ THEN c ELSE @, !.commit = c]
MaybeAppendMergeEntries(c) ==
  IF low > c THEN [sp EXCEPT !.commit = IF c > @ THEN c ELSE @]
  ELSE LET at == IF low - 1 < sp.commit THEN sp.commit ELSE low - 1 IN
       IF at >= c \/ at > sp.last THEN sp
       ELSE [sp EXCEPT !.last = IF c > @ THEN c ELSE @, !.commit = c]

ScheduleS(task) == sa' = [sa EXCEPT !.tasks = Append(@, task)]

(* S stops for good: it takes no more readies, its apply delegate gets `task`. *)
StopFor(task) == sp' = [sp EXCEPT !.removing = TRUE, !.cul = 0] /\ ScheduleS(task)

\* Mutant: the log of S is enough.
LogIsThere(c) == sp.last >= c
\* S's peer knows that its apply delegate has executed the PrepareMerge at c.
CaughtUp(c) == sp.merge = c

OnCatchUpLogs ==
  /\ Took("catch_up") /\ sbox' = Tail(sbox)
  /\ LET c == Head(sbox).at IN
       IF CaughtUp(c)
       THEN StopFor("logs_up_to_date") /\ Check(sp.cul = 0, "catch_up_logs: already got")
       ELSE /\ sp' = [MaybeAppendMergeEntries(c) EXCEPT !.cul = c]
            /\ Check(sp.cul = 0 /\ MergeEntriesFit(c), "catch_up_logs: commit_to out of range")
            /\ UNCHANGED sa
  /\ UNCHANGED <<h, low, sdisk, target, meta, store, crashes>>

OnReadyPrepareMerge ==
  /\ Took("prepare") /\ sbox' = Tail(sbox)
  /\ LET c == Head(sbox).at IN
       IF sp.cul = c
       THEN /\ sp' = [sp EXCEPT !.merge = c, !.removing = TRUE, !.cul = 0]
            /\ ScheduleS("logs_up_to_date")
       ELSE sp' = [sp EXCEPT !.merge = c] /\ UNCHANGED sa
  /\ UNCHANGED <<h, low, sdisk, target, meta, store, crashes, panic>>

OnReadyRollbackMerge ==
  /\ Took("rollback") /\ sbox' = Tail(sbox)
  /\ sp' = [sp EXCEPT !.merge = 0]
  /\ Check(sp.merge = Head(sbox).at, "rollbacks a wrong merge")
  /\ UNCHANGED <<h, low, sa, sdisk, target, meta, store, crashes>>

(* destroy_peer(merged_by_target) waits until the raft log of S is deleted ... *)
DestroyPeer(merged, ok) ==
  /\ sp' = [sp EXCEPT !.removing = TRUE, !.delayed = IF merged THEN "merged" ELSE "stale"]
  /\ Check(ok /\ sp.delayed = "none", "destroy peer twice with same delay reason")

(* The raft log gc worker has deleted S's log and says so. *)
RaftLogGcFlushed ==
  /\ Alive /\ sp.up /\ sp.delayed # "none"
  /\ \A i \in 1 .. Len(sbox) : sbox[i].k # "flushed"
  /\ ToSource([k |-> "flushed", at |-> 0])
  /\ UNCHANGED <<h, low, sp, sa, sdisk, target, meta, store, crashes, panic>>

(* ... and then removes S.  First on_region_changed(Destroy): the engine-store drops S,  *)
(* unless T has already absorbed it.  (StoreMeta is locked from here to the end of       *)
(* destroy_peer; the model lets T's peer in between.)                                    *)
OnRegionDestroyed ==
  /\ Took("flushed") /\ es.s
  /\ es' = [es EXCEPT !.s = FALSE, !.sapplied = 0]
  /\ esdisk' = [esdisk EXCEPT !.s = FALSE, !.sapplied = 0]
  /\ Check(meta.atomic = "none", "is applying atomic snapshot during destroying")
  /\ UNCHANGED <<h, low, source, target, meta, kv, crashes>>

(* Then Peer::destroy writes the tombstone.  A peer that was merged leaves region_ranges *)
(* alone, which belong to T by now; any other one must still be in StoreMeta.            *)
OnRaftLogGcFlushed ==
  /\ Took("flushed") /\ ~es.s /\ sbox' = << >>
  /\ sp' = [sp EXCEPT !.up = FALSE]
  /\ kv' = [kv EXCEPT !.s = "Tombstone", !.sapplied = 0, !.merge = 0]
  /\ meta' = [meta EXCEPT !.s = FALSE, !.target = 0]
  /\ Check((sp.delayed = "merged" \/ meta.s) /\ meta.atomic = "none", "meta corruption detected")
  /\ UNCHANGED <<h, low, sa, sdisk, target, es, esdisk, crashes>>

(* on_merge_result(FromTargetLog) unwraps pending_merge_state. *)
OnMergeResultLog ==
  /\ Took("from_target_log") /\ sbox' = Tail(sbox)
  /\ DestroyPeer(TRUE, sp.merge # 0)
  /\ UNCHANGED <<h, low, sa, sdisk, target, meta, store, crashes>>

\* Mutant: S destroys itself at once.
OnMergeResultStep1Destroy ==
  /\ Took("from_target_snapshot_step1") /\ sbox' = Tail(sbox)
  /\ DestroyPeer(TRUE, TRUE)
  /\ UNCHANGED <<h, low, sa, sdisk, target, meta, store, crashes>>

(* FromTargetSnapshotStep1: only the apply delegate goes, S's state stays until T's      *)
(* snapshot is persisted.                                                                *)
OnMergeResultStep1 ==
  /\ Took("from_target_snapshot_step1") /\ sbox' = Tail(sbox)
  /\ sp' = [sp EXCEPT !.removing = TRUE] /\ ScheduleS("destroy_for_snapshot")
  /\ UNCHANGED <<h, low, sdisk, target, meta, store, crashes, panic>>

OnMergeResultStep2 ==
  /\ Took("from_target_snapshot_step2") /\ sbox' = Tail(sbox)
  /\ DestroyPeer(TRUE, TRUE)
  /\ UNCHANGED <<h, low, sa, sdisk, target, meta, store, crashes>>

(* on_apply_res: TaskRes::Destroy of a source that waits for T's snapshot, or of a   *)
(* stale one.                                                                        *)
OnApplyDestroyed ==
  /\ Took("destroyed") /\ sbox' = Tail(sbox)
  /\ DestroyPeer(FALSE, TRUE)
  /\ UNCHANGED <<h, low, sa, sdisk, target, meta, store, crashes>>

OnApplyDestroyedForSnapshot ==
  /\ Took("destroyed_for_snapshot") /\ sbox' = Tail(sbox)
  /\ meta' = [meta EXCEPT !.atomic = "ready"]
  /\ Check(meta.atomic = "wait", "on_apply_res: no atomic snapshot")
  /\ UNCHANGED <<h, low, sp, sa, sdisk, target, store, crashes>>

(* A raft message that names the merge target: S is stale, the merge is done elsewhere. *)
(* need_gc_merge records the version of the target; if T has moved past it without      *)
(* meeting S, S destroys itself.                                                        *)
NeedGcMerge == meta.tver > TargetVer
OnMergeTarget ==
  /\ Alive /\ sp.up /\ ~sp.removing /\ Merge # 0
  /\ meta' = [meta EXCEPT !.target = TargetVer]
  /\ IF NeedGcMerge THEN StopFor("destroy") ELSE UNCHANGED <<sp, sa>>
  /\ <<meta', sp'>> # <<meta, sp>>
  /\ UNCHANGED <<h, low, sbox, sdisk, target, store, crashes, panic>>

(* The tasks that follow the last entries in the queue of S's apply delegate. *)
ApplyTaskS(task) ==
  /\ Alive /\ sa.tasks # << >> /\ Head(sa.tasks) = task /\ ~sa.write
  /\ sa.stopped \/ sa.applied = sp.sent

LogsUpToDateForMerge ==
  /\ ApplyTaskS("logs_up_to_date")
  /\ sa' = [sa EXCEPT !.tasks = Tail(@), !.stopped = TRUE]
  /\ ta' = [ta EXCEPT !.wait = "ready"]
  /\ UNCHANGED <<h, low, sp, sbox, sdisk, tp, tbox, tdisk, meta, store, crashes, panic>>

(* handle_destroy answers only if the delegate has not stopped yet. *)
HandleDestroy ==
  /\ \E snapshot \in BOOLEAN :
       /\ ApplyTaskS(IF snapshot THEN "destroy_for_snapshot" ELSE "destroy")
       /\ Check(~snapshot \/ ~sa.stopped, "handle_destroy: already stopped")
       /\ sbox' = IF sa.stopped \/ ~sp.up THEN sbox
                  ELSE Append(sbox, [k |-> IF snapshot THEN "destroyed_for_snapshot" ELSE "destroyed",
                                     at |-> 0])
  /\ sa' = [sa EXCEPT !.tasks = Tail(@), !.stopped = TRUE]
  /\ UNCHANGED <<h, low, sp, sdisk, target, meta, store, crashes>>

-----------------------------------------------------------------------------
(* T's peer and apply delegate. *)

(* A handler of T's peer is running while a snapshot is between its two checks. *)
TargetFree == Alive /\ tp.checked.idx = 0

(* MsgAppend from T's leader.  The CommitMerge carries S's log from `low` on: the       *)
(* leader of S has seen every peer of S acknowledge the entries before.  Behind a       *)
(* pending snapshot nothing is persisted.                                               *)
AppendT ==
  /\ TargetFree
  /\ \E l \in tp.last .. Len(h.t), c \in tp.commit .. Len(h.t) :
       /\ c <= l /\ <<l, c>> # <<tp.last, tp.commit>>
       /\ tp' = [tp EXCEPT !.last = l, !.commit = c]
       /\ tdisk' = IF tp.snap = 0 /\ tp.inst = NoSnap THEN [last |-> l, commit |-> c] ELSE tdisk
       /\ IF low = 0 /\ Merge # 0 /\ Merge <= l
          THEN \E i \in 1 .. sdisk.last + 1 : low' = i
          ELSE UNCHANGED low
  /\ UNCHANGED <<h, source, tbox, ta, meta, store, crashes, panic>>

(* handle_raft_ready_append: no ready while a snapshot is being installed; with a       *)
(* pending snapshot raft hands out no entries.                                          *)
ReadyT ==
  /\ TargetFree /\ tp.inst = NoSnap /\ tp.snap = 0
  /\ tdisk' = [last |-> tp.last, commit |-> tp.commit]
  /\ tp' = [tp EXCEPT !.sent = tp.commit]
  /\ <<tp', tdisk'>> # <<tp, tdisk>>
  /\ UNCHANGED <<h, low, source, tbox, ta, meta, store, crashes, panic>>

(* What the engine-store does with entry i of T and answers Persist to: a split, or a  *)
(* CommitMerge that moves the data of S, as far as S has applied, into T.              *)
EsWriteT(i, e) ==
  IF i <= e.tapplied THEN e
  ELSE IF i = Merge THEN [s |-> FALSE, sapplied |-> 0, tapplied |-> i, absorbed |-> e.sapplied]
  ELSE [e EXCEPT !.tapplied = i]

Runs(i) == TRegion[i].ver # TRegion[i - 1].ver      \* an admin command that is not rejected

ApplyT ==
  /\ Alive /\ ~ta.write /\ ta.wait = "no" /\ ta.applied < tp.sent
  /\ LET i == ta.applied + 1 IN
       /\ i # Merge
       /\ ta' = [ta EXCEPT !.applied = i, !.write = Runs(i), !.ver = TRegion[i].ver]
       /\ es' = EsWriteT(i, es)
       /\ IF Runs(i) THEN esdisk' = [esdisk EXCEPT !.tapplied = es'.tapplied] /\ UNCHANGED tbox
                     ELSE tbox' = Append(tbox, i) /\ UNCHANGED esdisk
  /\ UNCHANGED <<h, low, source, tp, tdisk, meta, kv, crashes, panic>>

(* exec_commit_merge asks S's peer to catch up and waits (WaitMergeSource); notify_one  *)
(* only logs that S is gone.                                                            *)
WaitMergeSource ==
  /\ Alive /\ ~ta.write /\ ta.wait = "no" /\ ta.applied < tp.sent
  /\ ta.applied + 1 = Merge
  /\ ta' = [ta EXCEPT !.wait = "wait"]
  /\ ToSource([k |-> "catch_up", at |-> Commit])
  /\ UNCHANGED <<h, low, sp, sa, sdisk, tp, tbox, tdisk, meta, store, crashes, panic>>

(* resume_pending and the rest of exec_commit_merge, post_exec included. *)
ExecCommitMerge ==
  /\ Alive /\ ta.wait = "ready"
  /\ ta' = [ta EXCEPT !.wait = "no", !.applied = Merge, !.write = TRUE, !.ver = TRegion[Merge].ver]
  /\ es' = EsWriteT(Merge, es) /\ esdisk' = es'
  /\ Check(kv.s = "Merging" /\ kv.merge = Commit, "unexpected state of merging region")
  /\ UNCHANGED <<h, low, source, tp, tbox, tdisk, meta, kv, crashes>>

(* ApplyContext::commit: the region states of T and, after CommitMerge, of S. *)
WriteT ==
  /\ Alive /\ ta.write
  /\ ta' = [ta EXCEPT !.write = FALSE]
  /\ kv' = IF ta.applied = Merge
           THEN [kv EXCEPT !.tapplied = Merge, !.tver = ta.ver, !.s = "Tombstone", !.merge = 0]
           ELSE [kv EXCEPT !.tapplied = ta.applied, !.tver = ta.ver]
  /\ tbox' = Append(tbox, ta.applied)
  /\ UNCHANGED <<h, low, source, tp, tdisk, meta, es, esdisk, crashes, panic>>

\* Mutant: S stays in StoreMeta.
SourceStays == [meta EXCEPT !.tver = TRegion[Merge].ver]
(* T's range now ends, or begins, where S's did. *)
WithoutSource == [meta EXCEPT !.tver = TRegion[Merge].ver, !.s = FALSE]

(* on_apply_res of T: on_ready_commit_merge takes S out of StoreMeta and tells it. *)
OnApplyRes ==
  /\ TargetFree /\ tbox # << >> /\ tbox' = Tail(tbox)
  /\ tp' = [tp EXCEPT !.applied = Head(tbox)]
  /\ IF Head(tbox) = Merge
     THEN /\ meta' = WithoutSource
          /\ ToSource([k |-> "from_target_log", at |-> 0])
          /\ Check(meta.s /\ sp.up, "on_ready_commit_merge: source is gone")
     ELSE /\ meta' = [meta EXCEPT !.tver = TRegion[Head(tbox)].ver]
          /\ UNCHANGED <<sbox, panic>>
  /\ UNCHANGED <<h, low, sp, sa, sdisk, ta, tdisk, store, crashes>>

-----------------------------------------------------------------------------
(* A snapshot of T. *)

(* ready_to_handle_pending_snap: the apply delegate has nothing left to do. *)
NothingApplying == tp.sent = tp.applied

(* S may be destroyed in favour of a snapshot only if the snapshot is the next thing T  *)
(* does, and was taken after the merge that S was told of (maybe_destroy_source).       *)
\* Mutant: the apply delegate of T may still be at work.
CanDestroySourceNow(j) ==
  tp.inst = NoSnap /\ tp.snap = 0 /\ meta.target # 0 /\ TRegion[j].ver > meta.target
CanDestroySource(j) ==
  /\ tp.inst = NoSnap /\ tp.snap = 0 /\ NothingApplying
  /\ meta.target # 0 /\ TRegion[j].ver > meta.target

(* on_raft_message, first half: check_snapshot drops a snapshot that overlaps S unless S *)
(* can be destroyed.  StoreMeta is unlocked when it returns.                             *)
CheckSnapshot ==
  /\ TargetFree /\ meta.atomic = "none"
  /\ \E j \in tp.commit + 1 .. Len(h.t) :
       LET overlapped == meta.s /\ TRegion[j].covers IN
       /\ overlapped => CanDestroySource(j)
       /\ tp' = [tp EXCEPT !.checked = [idx |-> j, destroy |-> overlapped]]
  /\ UNCHANGED <<h, low, source, tbox, ta, tdisk, meta, store, crashes, panic>>

(* Raft's restore: a snapshot whose entry is in the log only moves the commit index, any *)
(* other one becomes the pending snapshot.  (One at or below the commit index is ignored  *)
(* and changes nothing: CheckSnapshot leaves it out.)                                     *)
\* Mutant: the commit index is left behind.
RestoredBehind(j) ==
  IF j <= tp.last THEN [tp EXCEPT !.commit = j] ELSE [tp EXCEPT !.snap = j, !.last = j]
Restored(j) ==
  IF j <= tp.last THEN [tp EXCEPT !.commit = j]
  ELSE [tp EXCEPT !.snap = j, !.last = j, !.commit = j]

(* Second half: raft steps the message, then destroy_regions_for_snapshot. *)
StepSnapshot ==
  /\ Alive /\ tp.checked.idx # 0
  /\ LET r == Restored(tp.checked.idx) IN
       /\ tp' = [r EXCEPT !.checked = [idx |-> 0, destroy |-> FALSE]]
       /\ IF r.snap # 0 /\ tp.checked.destroy
          THEN /\ meta' = [meta EXCEPT !.atomic = "wait"]
               /\ ToSource([k |-> "from_target_snapshot_step1", at |-> 0])
               /\ Check(meta.s /\ sp.up /\ meta.atomic = "none", "source region has been destroyed")
          ELSE UNCHANGED <<meta, sbox, panic>>
  /\ UNCHANGED <<h, low, sp, sa, sdisk, tbox, ta, tdisk, store, crashes>>

(* handle_raft_ready_append with a pending snapshot waits for the apply delegates of T  *)
(* and of the source that has to go.                                                    *)
TakeSnapshot ==
  /\ TargetFree /\ tp.inst = NoSnap /\ tp.snap # 0
  /\ NothingApplying /\ meta.atomic # "wait"
  /\ tp' = [tp EXCEPT !.snap = 0, !.applied = tp.snap,
                      !.inst = [idx |-> tp.snap, phase |-> "persisting",
                                destroy |-> meta.atomic = "ready"]]
  /\ Check(meta.atomic = "ready" => meta.s, "handle_raft_ready_append: source is gone")
  /\ UNCHANGED <<h, low, source, tbox, ta, tdisk, meta, store, crashes>>

(* apply_snapshot's write: T is Applying and its source a tombstone in one batch. *)
PersistSnapshot ==
  /\ Alive /\ tp.inst.phase = "persisting"
  /\ LET j == tp.inst.idx IN
       /\ kv' = [kv EXCEPT !.t = "Applying", !.tapplied = j, !.tver = TRegion[j].ver,
                           !.s = IF tp.inst.destroy THEN "Tombstone" ELSE @,
                           !.merge = IF tp.inst.destroy THEN 0 ELSE @]
       /\ tdisk' = [last |-> j, commit |-> j]
  /\ tp' = [tp EXCEPT !.inst.phase = "persisted"]
  /\ UNCHANGED <<h, low, source, tbox, ta, meta, es, esdisk, crashes, panic>>

(* on_persist_snapshot and on_ready_persist_snapshot: T's apply delegate is registered  *)
(* anew, StoreMeta is told, the source may destroy itself.                              *)
OnPersistSnapshot ==
  /\ TargetFree /\ tp.inst.phase = "persisted"
  /\ LET j == tp.inst.idx
         d == tp.inst.destroy
     IN  /\ tp' = [tp EXCEPT !.inst.phase = "applying"]
         /\ ta' = [applied |-> j, ver |-> TRegion[j].ver, wait |-> "no", write |-> FALSE]
         /\ meta' = [meta EXCEPT !.s = @ /\ ~d, !.tver = TRegion[j].ver, !.atomic = "none"]
         /\ IF d THEN ToSource([k |-> "from_target_snapshot_step2", at |-> 0]) ELSE UNCHANGED sbox
         /\ Check(IF d THEN meta.s /\ sp.up /\ meta.atomic = "ready"
                       ELSE TRegion[j].covers => ~meta.s, "on_ready_persist_snapshot: meta corrupted")
  /\ UNCHANGED <<h, low, sp, sa, sdisk, tbox, tdisk, store, crashes>>

(* The region worker ingests the snapshot into the engine-store, then writes Normal. *)
WithSnapshot(e, j) ==
  [e EXCEPT !.tapplied = j, !.absorbed = IF TRegion[j].merged # 0 THEN Commit ELSE 0]

InstallSnapshot ==
  /\ Alive /\ tp.inst.phase = "applying"
  /\ es' = WithSnapshot(es, tp.inst.idx) /\ esdisk' = WithSnapshot(esdisk, tp.inst.idx)
  /\ kv' = [kv EXCEPT !.t = "Normal"]
  /\ tp' = [tp EXCEPT !.inst.phase = "installed"]
  /\ UNCHANGED <<h, low, source, tbox, ta, tdisk, meta, crashes, panic>>

(* check_snap_status sees that the snapshot is applied. *)
FinishSnapshot ==
  /\ TargetFree /\ tp.inst.phase = "installed"
  /\ tp' = [tp EXCEPT !.inst = NoSnap, !.sent = tp.inst.idx]
  /\ UNCHANGED <<h, low, source, tbox, ta, tdisk, meta, store, crashes, panic>>

-----------------------------------------------------------------------------
(* The process dies and starts again: StoreFsm::init builds the peers and StoreMeta from *)
(* the kv engine, raft starts from its log.  The engine-store has flushed a region         *)
(* whenever it liked, so it comes back with any prefix of what it had in memory.           *)
Restart ==
  /\ Alive /\ crashes < MaxCrashes /\ crashes' = crashes + 1
  /\ sp' = [Peer EXCEPT !.up = kv.s # "Tombstone", !.last = sdisk.last, !.commit = sdisk.commit,
                        !.sent = kv.sapplied, !.merge = kv.merge]
  /\ sbox' = << >>
  /\ sa' = [stopped |-> kv.s = "Tombstone", applied |-> kv.sapplied, write |-> FALSE, tasks |-> << >>]
  /\ tp' = [last |-> tdisk.last, commit |-> tdisk.commit, sent |-> kv.tapplied,
            applied |-> kv.tapplied, snap |-> 0, checked |-> [idx |-> 0, destroy |-> FALSE],
            inst |-> IF kv.t = "Applying"
                     THEN [idx |-> kv.tapplied, phase |-> "applying", destroy |-> FALSE]
                     ELSE NoSnap]
  /\ tbox' = << >>
  /\ ta' = [applied |-> kv.tapplied, ver |-> kv.tver, wait |-> "no", write |-> FALSE]
  /\ meta' = [s |-> kv.s # "Tombstone", tver |-> kv.tver, target |-> 0, atomic |-> "none"]
  /\ \E i \in esdisk.sapplied .. es.sapplied, j \in esdisk.tapplied .. es.tapplied :
       esdisk' = [esdisk EXCEPT !.sapplied = i, !.tapplied = j]
  /\ es' = esdisk'
  /\ UNCHANGED <<h, low, sdisk, tdisk, kv, panic>>

(* The steps the store takes by itself, and the messages that are repeated until they  *)
(* are answered: T's log, and the reply to a stale S.                                   *)
Work ==
  \/ ReadyS \/ ApplyS \/ WriteS
  \/ OnCatchUpLogs \/ OnReadyPrepareMerge \/ OnReadyRollbackMerge
  \/ OnMergeResultLog \/ OnMergeResultStep1 \/ OnMergeResultStep2
  \/ OnApplyDestroyed \/ OnApplyDestroyedForSnapshot
  \/ RaftLogGcFlushed \/ OnRegionDestroyed \/ OnRaftLogGcFlushed
  \/ OnMergeTarget \/ LogsUpToDateForMerge \/ HandleDestroy
  \/ AppendT \/ ReadyT \/ ApplyT \/ WaitMergeSource \/ ExecCommitMerge \/ WriteT \/ OnApplyRes
  \/ StepSnapshot \/ TakeSnapshot \/ PersistSnapshot \/ OnPersistSnapshot
  \/ InstallSnapshot \/ FinishSnapshot

Next == Work \/ AppendS \/ CheckSnapshot \/ Restart

Spec == Init /\ [][Next]_vars /\ WF_vars(Work)

-----------------------------------------------------------------------------
SIdx == 0 .. Len(h.s)
TIdx == 0 .. Len(h.t)

(* The type of the state: the peers, delegates, StoreMeta and the two stores.  A peer   *)
(* commits what it has and applies what is committed.                                     *)
Messages == {"prepare", "rollback", "catch_up", "flushed", "from_target_log", "destroyed",
             "from_target_snapshot_step1", "from_target_snapshot_step2", "destroyed_for_snapshot"}
Phases == {"none", "persisting", "persisted", "applying", "installed"}
Message == [k : Messages, at : SIdx]
SPeer == [up : BOOLEAN, last : SIdx, commit : SIdx, sent : SIdx, merge : SIdx, cul : SIdx,
          removing : BOOLEAN, delayed : {"none", "merged", "stale"}]
SApply == [stopped : BOOLEAN, applied : SIdx, write : BOOLEAN,
           tasks : Seq({"logs_up_to_date", "destroy", "destroy_for_snapshot"})]
TPeer == [last : TIdx, commit : TIdx, sent : TIdx, applied : TIdx, snap : TIdx,
          checked : [idx : TIdx, destroy : BOOLEAN],
          inst : [idx : TIdx, phase : Phases, destroy : BOOLEAN]]
TApply == [applied : TIdx, ver : Nat, wait : {"no", "wait", "ready"}, write : BOOLEAN]
Meta == [s : BOOLEAN, tver : Nat, target : Nat, atomic : {"none", "wait", "ready"}]
Kv == [s : {"Normal", "Merging", "Tombstone"}, sapplied : SIdx, merge : SIdx,
       t : {"Normal", "Applying"}, tapplied : TIdx, tver : Nat]
EngineStore == [s : BOOLEAN, sapplied : SIdx, tapplied : TIdx, absorbed : SIdx]

TypeOK ==
  /\ h \in Histories /\ low \in 0 .. Len(h.s) + 1
  /\ sp \in SPeer /\ sbox \in Seq(Message) /\ sa \in SApply
  /\ tp \in TPeer /\ tp.commit <= tp.last /\ tp.sent <= tp.commit
  /\ tbox \in Seq(TIdx) /\ ta \in TApply
  /\ sdisk \in [last : SIdx, commit : SIdx] /\ tdisk \in [last : TIdx, commit : TIdx]
  /\ meta \in Meta /\ kv \in Kv /\ es \in EngineStore /\ esdisk \in EngineStore
  /\ crashes \in 0 .. MaxCrashes

(* No assertion, unwrap or panic of the merge code fails: S is where exec_commit_merge,  *)
(* on_ready_commit_merge, destroy_regions_for_snapshot, on_ready_persist_snapshot and    *)
(* destroy_peer expect it.                                                               *)
NoPanic == panic = "none"

(* An engine-store whose T is past the CommitMerge has absorbed the whole log of S up to *)
(* the PrepareMerge, in memory and on disk: T never merges an S that was not caught up.  *)
MergedWhole ==
  \A e \in {es, esdisk} : Merge # 0 /\ e.tapplied >= Merge => e.absorbed >= Commit

(* What replaces S is on disk: T's region with the merge, and its data in the engine-    *)
(* store or a snapshot that is still to be applied.                                      *)
Replaced ==
  Merge # 0 /\ kv.tapplied >= Merge /\ (esdisk.tapplied >= Merge \/ kv.t = "Applying")

(* Until S is replaced a crash finds no tombstone, and S's data in the engine-store as   *)
(* far as S's apply state says, or already merged into T.                                *)
SourceKept ==
  \/ Replaced
  \/ /\ kv.s # "Tombstone"
     /\ \/ esdisk.s /\ esdisk.sapplied >= kv.sapplied
        \/ Merge # 0 /\ esdisk.tapplied >= Merge

(* The two regions never both claim S's range in StoreMeta, and an S that StoreMeta has  *)
(* lost will be destroyed: nothing else would ever do it.                                *)
RangesDisjoint ==
  /\ meta.s => \A i \in TIdx : meta.tver = TRegion[i].ver => ~TRegion[i].covers
  /\ sp.up /\ ~meta.s => sp.removing

(* Whatever S's leader does, T's replica reaches the end of its log and S is destroyed:  *)
(* a target that waits for its source (WaitMergeSource) is always resumed, a snapshot    *)
(* that waits for its source (atomic_snap_regions) is always applied.                    *)
MergeFinishes == <>[](~sp.up /\ ~meta.s /\ kv.t = "Normal" /\ es.tapplied = Len(h.t))
====
