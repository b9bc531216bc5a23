---- MODULE RaftLogStore ----
(***************************************************************************)
(* The raft log of one peer: EntryStorage with its entry cache, the write  *)
(* tasks handed to the asynchronous write worker, PSLogEngine, raft log gc,*)
(* snapshots, destroy and restart.                                         *)
(*                                                                         *)
(* Indexes count from RAFT_INIT_LOG_INDEX: index 0 is the initial truncated*)
(* index of a region.  An entry is its term; 0 is no entry.  raft-rs and   *)
(* the leader are the environment.  The peers of this store are learners:  *)
(* nothing of a leader (warm-up, asynchronous fetch, applying unpersisted  *)
(* entries) is in here.                                                    *)
(***************************************************************************)
EXTENDS Integers, Sequences, FiniteSetsExt

CONSTANTS
    MaxIndex,     \* bound on the indexes of the log
    MaxTerm,      \* bound on the terms
    MaxReady,     \* bound on the readies handled
    MaxCrashes,   \* bound on restarts
    MemoryHigh,   \* may needs_evict_entry_cache answer true?
    Destroys      \* may the peer be destroyed and created again?

ASSUME ConstantsAssumption ==
    /\ {MaxIndex, MaxTerm} \subseteq Nat \ {0}
    /\ {MaxReady, MaxCrashes} \subseteq Nat
    /\ {MemoryHigh, Destroys} \subseteq BOOLEAN

VARIABLES
    \* the peer's thread
    raft,       \* RaftLog and RaftLocalState: [log, last, commit, term, persisted]
    trunc,      \* the truncated state: [index, term]
    applied,    \* apply_state.applied_index
    sched,      \* last_applying_idx and the commit term of that task: [index, term]
    given,      \* the entries given to the apply thread, by index
    cache,      \* EntryCache.cache, by index
    cpersisted, \* EntryCache.persisted
    trace,      \* EntryCache.trace: ranges <<start, end>>
    compacted,  \* last_compacted_idx
    readies,    \* unpersisted_readies with what raft-rs records of each
    snap,       \* apply_snap_ctx: is a snapshot persisted, applied or done?
    phase,      \* where the peer is between running and destroyed
    \* the write worker
    queue,      \* the tasks sent to it
    batch,      \* WriteTaskBatch
    notes,      \* the ready numbers it has notified
    \* the apply thread and the raft log gc worker
    results,    \* apply results on their way to the peer
    gcq,        \* tasks of the gc worker
    \* the disks
    pages,      \* the raft log in PSLogEngine, by index
    rstate,     \* the raft state in PSLogEngine
    kv,         \* region state, apply state and snapshot raft state
    \* bookkeeping
    floor,      \* the commit index of destroyed peers
    nready, crashes, panicked

peerVars == <<raft, trunc, applied, sched, given, cache, cpersisted, trace, compacted, readies, snap, phase>>
writerVars == <<queue, batch, notes>>
workerVars == <<results, gcq>>
diskVars == <<pages, rstate, kv>>
vars == <<peerVars, writerVars, workerVars, diskVars, floor, nready, crashes, panicked>>

Index == 1..MaxIndex
Terms == 0..MaxTerm
Keep == -1

NoLog == [i \in Index |-> 0]
NoOps == [i \in Index |-> Keep]
NoState == [last |-> -1, commit |-> 0, term |-> 0]

----------------------------------------------------------------------------
(* Reading the log.                                                        *)

EntryTerm(i) == IF i = trunc.index THEN trunc.term ELSE raft.log[i]

LastTerm == EntryTerm(raft.last)

\* EntryStorage::entries: the cache holds the end of the log; what is before it
\* is fetched from the raft engine.
FetchEntry(i) == IF cache[i] # 0 THEN cache[i] ELSE pages[i]

\* EntryStorage::term.
StoreTerm(i) ==
    IF i = trunc.index THEN trunc.term
    ELSE IF trunc.term = LastTerm \/ i = raft.last THEN LastTerm
    ELSE FetchEntry(i)

FirstPage == LET ps == {i \in Index : pages[i] # 0} IN IF ps = {} THEN 0 ELSE Min(ps)

----------------------------------------------------------------------------
(* The entry cache.                                                        *)

CacheEmpty(c) == \A i \in Index : c[i] = 0

CacheLast(c) == Max({i \in Index : c[i] # 0})

\* EntryCache::compact_to.  Traced ranges that begin below idx go as a whole.
CompactTo(c, tr, to) ==
    LET idx == Min({to, cpersisted + 1})
        goes(k) == tr[k][1] < idx /\ tr[k][2] <= cpersisted + 1
        n == Max({0} \cup {k \in 1..Len(tr) : \A j \in 1..k : goes(j)})
        end == IF n = 0 THEN idx ELSE Max({idx, tr[n][2]})
    IN [cache |-> [i \in Index |-> IF i < end THEN 0 ELSE c[i]],
        trace |-> SubSeq(tr, n + 1, Len(tr))]

\* evict_entry_cache(false), after committed entries went to the apply thread.
Evict(c, tr) == CompactTo(c, tr, IF CacheEmpty(c) THEN MaxIndex + 1 ELSE CacheLast(c) + 1)

\* EntryCache::append: what is from the first new index on is replaced.
CacheAppend(c, from, to, e) ==
    [i \in Index |-> IF i < from THEN c[i] ELSE IF i <= to THEN e ELSE 0]

\* Its two panics: a hole, and a traced entry that is replaced.
AppendPanics(c, tr, from) ==
    /\ ~CacheEmpty(c)
    /\ \/ CacheLast(c) + 1 < from
       \/ /\ CacheLast(c) >= from
          /\ tr # <<>>
          /\ tr[Len(tr)][2] - 1 >= Max({from, Min({i \in Index : c[i] # 0})})

----------------------------------------------------------------------------
(* Write batches of the raft engine: the last operation on a page counts.  *)

Over(ops, later) == [i \in Index |-> IF later[i] = Keep THEN ops[i] ELSE later[i]]

WritePages(ops) == [i \in Index |-> IF ops[i] = Keep THEN pages[i] ELSE ops[i]]

\* Mutant: what is beyond the last new entry stays.
AppendOpsKeeping(from, to, e, overwrite) ==
    [i \in Index |-> IF i \in from..to THEN e ELSE Keep]

\* RaftLogBatch::append with overwrite_to.
AppendOps(from, to, e, overwrite) ==
    [i \in Index |-> IF i \in from..to THEN e
                     ELSE IF to < i /\ i < overwrite THEN 0 ELSE Keep]

\* PSLogEngine::clean; first = 0 seeks the first page.
CleanOps(first, last) ==
    LET from == IF first = 0 THEN FirstPage ELSE first
    IN [i \in Index |-> IF from # 0 /\ from < last /\ i \in from..last THEN 0 ELSE Keep]

\* Mutant: the end of a task is deleted too.
GcOpsInclusive(tasks) ==
    LET from(t) == IF t.start = 0 THEN FirstPage ELSE t.start
    IN [i \in Index |-> IF \E k \in 1..Len(tasks) :
                             /\ tasks[k].start # tasks[k].end
                             /\ from(tasks[k]) # 0
                             /\ i \in from(tasks[k])..tasks[k].end
                        THEN 0 ELSE Keep]

\* The same for all tasks of one flush of the gc worker: PSLogEngine::gc.
GcOps(tasks) ==
    LET from(t) == IF t.start = 0 THEN FirstPage ELSE t.start
    IN [i \in Index |-> IF \E k \in 1..Len(tasks) :
                             /\ tasks[k].start # tasks[k].end
                             /\ from(tasks[k]) # 0
                             /\ i \in from(tasks[k])..(tasks[k].end - 1)
                        THEN 0 ELSE Keep]

NoBatch == [wbs |-> <<[ops |-> NoOps, state |-> NoState]>>, kv |-> <<>>, number |-> 0, writing |-> FALSE]

----------------------------------------------------------------------------
Init ==
    /\ raft = [log |-> NoLog, last |-> 0, commit |-> 0, term |-> 0, persisted |-> 0]
    /\ trunc = [index |-> 0, term |-> 0]
    /\ applied = 0
    /\ sched = [index |-> 0, term |-> 0]
    /\ given = NoLog
    /\ cache = NoLog
    /\ cpersisted = 0
    /\ trace = <<>>
    /\ compacted = 0
    /\ readies = <<>>
    /\ snap = "none"
    /\ phase = "running"
    /\ queue = <<>>
    /\ batch = NoBatch
    /\ notes = <<>>
    /\ results = <<>>
    /\ gcq = <<>>
    /\ pages = NoLog
    /\ rstate = [last |-> 0, commit |-> 0, term |-> 0]
    /\ kv = [state |-> "Normal", applied |-> 0, trunc |-> [index |-> 0, term |-> 0],
             commit |-> [index |-> 0, term |-> 0], snapstate |-> NoState]
    /\ floor = 0
    /\ nready = 0
    /\ crashes = 0
    /\ panicked = FALSE

Initialized == kv.state # "Tombstone"

----------------------------------------------------------------------------
(* The peer handles a ready of raft-rs: committed entries go to the apply  *)
(* thread, then entries and hard state become a write task.                *)

RaftState(r) == [last |-> r.last, commit |-> r.commit, term |-> r.term]

\* raft-rs: the log after a message of term m with entries from..to of term e.
RaftAppend(r, from, to, e, m) ==
    [r EXCEPT !.log = CacheAppend(r.log, from, to, e), !.last = to, !.term = m,
              !.persisted = Min({r.persisted, from - 1})]

\* raft-rs, and the leader: entries replace entries of another term that are not
\* committed, and only a new leader's do.  They never bring back, at the same
\* index, the entry of a ready that is still being persisted: maybe_persist would
\* take them for it.
CanAppend(from, to, e, m) ==
    /\ from \in raft.commit + 1..raft.last + 1
    /\ EntryTerm(from - 1) <= e
    /\ raft.term <= m
    /\ from <= raft.last => raft.log[from] # e /\ raft.term < m
    /\ \A k \in 1..Len(readies) : ~(readies[k].last \in from..to /\ readies[k].term = e)

\* What handle_raft_committed_entries does with the entries up to commit: the
\* store is the one before this ready.
GiveEntries(r, high) ==
    LET to == Min({r.commit, r.persisted})
        some == to > sched.index
        tr == Append(trace, <<sched.index + 1, to + 1>>)
        after == IF some /\ high THEN Evict(cache, tr)
                 ELSE [cache |-> cache, trace |-> IF some THEN tr ELSE trace]
    IN [sched |-> IF some THEN [index |-> to, term |-> StoreTerm(to)] ELSE sched,
        given |-> [i \in Index |-> IF i \in sched.index + 1..to THEN FetchEntry(i) ELSE given[i]],
        cache |-> after.cache, trace |-> after.trace]

\* handle_raft_ready_append for a ready without a snapshot.
HandleReady(r, from, to, e, high) ==
    LET g == GiveEntries(r, high)
        appends == from <= to
        task == [number |-> nready + 1,
                 ops |-> IF appends THEN AppendOps(from, to, e, raft.last + 1) ELSE NoOps,
                 state |-> IF RaftState(r) # RaftState(raft) THEN RaftState(r) ELSE NoState,
                 kv |-> <<>>]
        has_data == appends \/ task.state # NoState
    IN /\ raft' = r
       /\ sched' = g.sched
       /\ given' = g.given
       /\ cache' = IF appends THEN CacheAppend(g.cache, from, to, e) ELSE g.cache
       /\ trace' = g.trace
       /\ panicked' = (appends /\ AppendPanics(g.cache, g.trace, from))
       /\ queue' = IF has_data THEN Append(queue, task) ELSE queue
       /\ readies' = IF has_data
                     THEN Append(readies, [number |-> nready + 1, snap |-> 0,
                                           last |-> IF appends THEN to ELSE 0,
                                           term |-> IF appends THEN e ELSE 0])
                     ELSE readies
       /\ nready' = IF has_data THEN nready + 1 ELSE nready
       /\ UNCHANGED <<trunc, applied, cpersisted, compacted, snap, phase, batch, notes,
                      workerVars, diskVars, floor, crashes>>

CanHandleReady ==
    /\ ~panicked
    /\ phase = "running"
    /\ Initialized
    /\ snap = "none"

ReadyAppend ==
    /\ CanHandleReady
    /\ nready < MaxReady
    /\ \E to \in Index, m \in 1..MaxTerm, high \in {FALSE, MemoryHigh} :
         \E from \in 1..to, e \in 1..m :
           /\ CanAppend(from, to, e, m)
           /\ \E c \in raft.commit..to :
                HandleReady([RaftAppend(raft, from, to, e, m) EXCEPT !.commit = c], from, to, e, high)

ReadyCommit ==
    /\ CanHandleReady
    /\ nready < MaxReady
    /\ \E c \in raft.commit + 1..raft.last, high \in {FALSE, MemoryHigh} :
         HandleReady([raft EXCEPT !.commit = c], 1, 0, 0, high)

\* A ready without data: entries are persisted that were committed before.
ReadyCommitted ==
    /\ CanHandleReady
    /\ Min({raft.commit, raft.persisted}) > sched.index
    /\ \E high \in {FALSE, MemoryHigh} : HandleReady(raft, 1, 0, 0, high)

\* handle_raft_ready_append for a ready with a snapshot at index s of term t and
\* entries of term t up to index to.  apply_snapshot deletes the log of an
\* initialized peer, from its first index, in the task's own batch.
ReadySnapshot ==
    /\ ~panicked
    /\ phase = "running"
    /\ snap = "none"
    /\ nready < MaxReady
    /\ readies = <<>>
    /\ applied = sched.index
    /\ \E s \in Index, t \in 1..MaxTerm :
         /\ s > raft.commit /\ s > floor
         /\ t >= EntryTerm(raft.commit)
         /\ s <= raft.last => EntryTerm(s) # t
         /\ \E to \in s..MaxIndex :
              LET r == [log |-> CacheAppend(NoLog, s + 1, to, t), last |-> to, commit |-> s,
                        term |-> Max({raft.term, t}), persisted |-> Min({raft.persisted, raft.commit})]
                  st == [index |-> s, term |-> t]
                  clean == IF Initialized THEN CleanOps(trunc.index + 1, raft.last) ELSE NoOps
                  first_gc == compacted = 0 /\ Initialized
              IN /\ raft' = r
                 /\ trunc' = st
                 /\ applied' = s
                 /\ cache' = CacheAppend(NoLog, s + 1, to, t)
                 /\ queue' = Append(queue, [number |-> nready + 1,
                                            ops |-> Over(clean, AppendOps(s + 1, to, t, s + 1)),
                                            state |-> RaftState(r),
                                            kv |-> <<[state |-> "Applying", applied |-> s, trunc |-> st,
                                                      commit |-> kv.commit,
                                                      snapstate |-> [last |-> s, commit |-> s, term |-> r.term]]>>])
                 /\ readies' = <<[number |-> nready + 1, snap |-> s,
                                  last |-> IF to > s THEN to ELSE 0,
                                  term |-> IF to > s THEN t ELSE 0]>>
                 /\ gcq' = IF first_gc
                           THEN Append(gcq, [start |-> 0, end |-> trunc.index + 1])
                           ELSE gcq
                 /\ compacted' = IF first_gc THEN trunc.index + 1 ELSE compacted
    /\ cpersisted' = 0
    /\ trace' = <<>>
    /\ snap' = "persisting"
    /\ nready' = nready + 1
    /\ UNCHANGED <<sched, given, phase, batch, notes, results, diskVars, floor, crashes, panicked>>

----------------------------------------------------------------------------
(* The write worker.                                                       *)

\* Mutant: the batch keeps the number of its first ready.
AddWriteTaskFirst ==
    /\ ~panicked
    /\ ~batch.writing
    /\ queue # <<>>
    /\ LET task == Head(queue)
           wb == Head(batch.wbs)
       IN batch' = [batch EXCEPT !.wbs = <<[ops |-> Over(wb.ops, task.ops),
                                            state |-> IF task.state = NoState THEN wb.state ELSE task.state]>>,
                                 !.kv = IF task.kv = <<>> THEN @ ELSE task.kv,
                                 !.number = IF @ = 0 THEN task.number ELSE @]
    /\ queue' = Tail(queue)
    /\ UNCHANGED <<peerVars, notes, workerVars, diskVars, floor, nready, crashes, panicked>>

\* WriteTaskBatch::add_write_task; a batch that is large enough is split, and its
\* raft state goes with the first part.
AddWriteTask ==
    /\ ~panicked
    /\ ~batch.writing
    /\ queue # <<>>
    /\ \E split \in BOOLEAN :
         LET task == Head(queue)
             wbs == IF split /\ batch.number # 0
                    THEN Append(batch.wbs, [ops |-> NoOps, state |-> NoState]) ELSE batch.wbs
             wb == wbs[Len(wbs)]
             merged == [ops |-> Over(wb.ops, task.ops),
                        state |-> IF task.state = NoState THEN wb.state ELSE task.state]
         IN batch' = [batch EXCEPT !.wbs = [wbs EXCEPT ![Len(wbs)] = merged],
                                   !.kv = IF task.kv = <<>> THEN @ ELSE task.kv,
                                   !.number = task.number]
    /\ queue' = Tail(queue)
    /\ UNCHANGED <<peerVars, notes, workerVars, diskVars, floor, nready, crashes, panicked>>

\* write_to_db begins with the kv engine.
WriteKv ==
    /\ ~panicked
    /\ ~batch.writing
    /\ batch.number # 0
    /\ kv' = IF batch.kv = <<>> THEN kv ELSE batch.kv[1]
    /\ batch' = [batch EXCEPT !.writing = TRUE]
    /\ UNCHANGED <<peerVars, queue, notes, workerVars, pages, rstate, floor, nready, crashes, panicked>>

\* The raft batches are consumed one by one.
WriteRaft ==
    /\ ~panicked
    /\ batch.writing
    /\ batch.wbs # <<>>
    /\ LET wb == Head(batch.wbs)
       IN /\ pages' = WritePages(wb.ops)
          /\ rstate' = IF wb.state = NoState THEN rstate ELSE wb.state
    /\ batch' = [batch EXCEPT !.wbs = Tail(@)]
    /\ UNCHANGED <<peerVars, queue, notes, workerVars, kv, floor, nready, crashes, panicked>>

\* write_to_db ends: the peer is notified of the last ready of the batch.
NotifyPersisted ==
    /\ ~panicked
    /\ batch.writing
    /\ batch.wbs = <<>>
    /\ notes' = Append(notes, batch.number)
    /\ batch' = NoBatch
    /\ UNCHANGED <<peerVars, queue, workerVars, diskVars, floor, nready, crashes, panicked>>

----------------------------------------------------------------------------
(* The peer learns that readies are persisted.                             *)

\* Mutant: the term of the entry is not compared.
PersistedAfterNoTerm(rs) ==
    LET lasts == {rs[k].last : k \in 1..Len(rs)} \cup {rs[k].snap : k \in 1..Len(rs)}
    IN Min({raft.last, Max({raft.persisted} \cup lasts)})

\* raft-rs: RaftLog::maybe_persist for the last entry of the last ready, and
\* maybe_persist_snap.
PersistedAfter(rs) ==
    LET withLog == {k \in 1..Len(rs) : rs[k].last # 0}
        k == Max(withLog)
        base == Max({raft.persisted} \cup {rs[j].snap : j \in 1..Len(rs)})
    IN IF withLog # {} /\ rs[k].last > base /\ rs[k].last <= raft.last
          /\ StoreTerm(rs[k].last) = rs[k].term
       THEN rs[k].last ELSE base

\* Peer::persisted_number: every ready before the first unpersisted one.
PersistedNumber == IF readies = <<>> THEN nready ELSE readies[1].number - 1

\* on_persist_ready: a number that is not persisted yet is one of a ready; a peer
\* that is to be removed forgets the index.
OnPersistReady ==
    /\ ~panicked
    /\ notes # <<>>
    /\ panicked' = /\ Head(notes) > PersistedNumber
                   /\ \A k \in 1..Len(readies) : readies[k].number # Head(notes)
    /\ LET done == {k \in 1..Len(readies) : readies[k].number <= Head(notes)}
           n == Max({0} \cup done)
           persisted == IF phase = "running" THEN PersistedAfter(SubSeq(readies, 1, n)) ELSE raft.persisted
       IN /\ readies' = SubSeq(readies, n + 1, Len(readies))
          /\ raft' = [raft EXCEPT !.persisted = persisted]
          /\ cpersisted' = IF phase = "running" THEN persisted ELSE cpersisted
          /\ snap' = IF snap = "persisting" /\ n = Len(readies) THEN "applying" ELSE snap
    /\ notes' = Tail(notes)
    /\ UNCHANGED <<trunc, applied, sched, given, cache, trace, compacted, phase, queue, batch,
                   workerVars, diskVars, floor, nready, crashes>>

\* The region worker has applied the snapshot.
WriteNormal ==
    /\ ~panicked
    /\ snap = "applying"
    /\ phase = "running"
    /\ kv' = [kv EXCEPT !.state = "Normal", !.snapstate = NoState]
    /\ snap' = "applied"
    /\ UNCHANGED <<raft, trunc, applied, sched, given, cache, cpersisted, trace, compacted, readies,
                   phase, writerVars, workerVars, pages, rstate, floor, nready, crashes, panicked>>

\* check_snap_status: a snapshot of this run, not one found after a restart, sets
\* the indexes.
CheckSnapStatus ==
    /\ ~panicked
    /\ snap = "applied"
    /\ phase = "running"
    /\ snap' = "none"
    /\ sched' = trunc
    /\ compacted' = IF sched.index = trunc.index THEN compacted ELSE trunc.index + 1
    /\ UNCHANGED <<raft, trunc, applied, given, cache, cpersisted, trace, readies, phase, writerVars,
                   workerVars, diskVars, floor, nready, crashes, panicked>>

----------------------------------------------------------------------------
(* Applying, and log compaction.                                           *)

\* The apply thread applies up to a, and executes a CompactLog that truncates the
\* log to c; c is the present truncated index when there is none.  The result goes
\* to the peer.
ApplyEntries ==
    /\ ~panicked
    /\ phase = "running"
    /\ \E a \in kv.applied + 1..sched.index :
         \E c \in kv.trunc.index..a - 1 :
           LET t == IF c = kv.trunc.index THEN kv.trunc ELSE [index |-> c, term |-> given[c]]
           IN /\ kv' = [kv EXCEPT !.applied = a, !.trunc = t, !.commit = sched]
              /\ results' = Append(results, [applied |-> a, trunc |-> t])
    /\ UNCHANGED <<peerVars, writerVars, gcq, pages, rstate, floor, nready, crashes, panicked>>

\* on_apply_res: on_ready_compact_log for the CompactLog, then post_apply.
OnApplyRes ==
    /\ ~panicked
    /\ phase = "running"
    /\ results # <<>>
    /\ LET res == Head(results)
           compacts == res.trunc # trunc
           to == res.trunc.index + 1
           c1 == IF compacts THEN CompactTo(cache, trace, to) ELSE [cache |-> cache, trace |-> trace]
           c2 == CompactTo(c1.cache, c1.trace, res.applied + 1)
       IN /\ gcq' = IF compacts THEN Append(gcq, [start |-> compacted, end |-> to]) ELSE gcq
          /\ compacted' = IF compacts THEN to ELSE compacted
          /\ cache' = c2.cache
          /\ trace' = c2.trace
          /\ trunc' = res.trunc
          /\ applied' = res.applied
    /\ results' = Tail(results)
    /\ UNCHANGED <<raft, sched, given, cpersisted, readies, snap, phase, writerVars, diskVars, floor,
                   nready, crashes, panicked>>

\* Runner::flush of the gc worker; the callback of a flush task tells the peer.
RaftLogGc ==
    /\ ~panicked
    /\ gcq # <<>>
    /\ pages' = WritePages(GcOps(gcq))
    /\ gcq' = <<>>
    /\ phase' = IF phase = "flushing" THEN "flushed" ELSE phase
    /\ UNCHANGED <<raft, trunc, applied, sched, given, cache, cpersisted, trace, compacted, readies,
                   snap, writerVars, results, rstate, kv, floor, nready, crashes, panicked>>

----------------------------------------------------------------------------
(* The peer is destroyed.  The region may come back to the store as a peer *)
(* that knows nothing but its id.                                          *)

\* destroy_peer begins, with no snapshot in the peer's hands: pending_remove.
StartDestroy ==
    /\ ~panicked
    /\ Destroys
    /\ phase = "running"
    /\ snap = "none"
    /\ results = <<>>
    /\ phase' = "removing"
    /\ UNCHANGED <<raft, trunc, applied, sched, given, cache, cpersisted, trace, compacted, readies,
                   snap, writerVars, workerVars, diskVars, floor, nready, crashes, panicked>>

\* Mutant: the flushed range ends one index late.
DelayDestroyLate ==
    /\ ~panicked
    /\ phase = "removing"
    /\ readies = <<>>
    /\ Initialized
    /\ gcq' = Append(gcq, [start |-> compacted, end |-> trunc.index + 2])
    /\ compacted' = trunc.index + 2
    /\ phase' = "flushing"
    /\ UNCHANGED <<raft, trunc, applied, sched, given, cache, cpersisted, trace, readies, snap,
                   writerVars, results, diskVars, floor, nready, crashes, panicked>>

\* maybe_delay_destroy waits for unpersisted readies, then flushes raft log gc; an
\* uninitialized peer has no log.
DelayDestroy ==
    /\ ~panicked
    /\ phase = "removing"
    /\ readies = <<>>
    /\ LET end == IF compacted = 0 THEN trunc.index + 1 ELSE compacted
       IN IF Initialized
          THEN /\ gcq' = Append(gcq, [start |-> compacted, end |-> end])
               /\ compacted' = end
               /\ phase' = "flushing"
          ELSE /\ phase' = "flushed"
               /\ UNCHANGED <<gcq, compacted>>
    /\ UNCHANGED <<raft, trunc, applied, sched, given, cache, cpersisted, trace, readies, snap,
                   writerVars, results, diskVars, floor, nready, crashes, panicked>>

\* Peer::destroy writes the kv engine first ...
DestroyKv ==
    /\ ~panicked
    /\ phase = "flushed"
    /\ kv' = [kv EXCEPT !.state = "Tombstone", !.applied = 0, !.trunc = [index |-> 0, term |-> 0],
                        !.commit = [index |-> 0, term |-> 0]]
    /\ phase' = "tombstone"
    /\ UNCHANGED <<raft, trunc, applied, sched, given, cache, cpersisted, trace, compacted, readies,
                   snap, writerVars, workerVars, pages, rstate, floor, nready, crashes, panicked>>

Gone ==
    /\ raft' = [raft EXCEPT !.log = NoLog, !.last = 0, !.commit = 0, !.term = 0, !.persisted = 0]
    /\ trunc' = [index |-> 0, term |-> 0]
    /\ sched' = [index |-> 0, term |-> 0]
    /\ given' = NoLog
    /\ cache' = NoLog
    /\ applied' = 0
    /\ cpersisted' = 0
    /\ trace' = <<>>
    /\ compacted' = 0
    /\ readies' = <<>>
    /\ snap' = "none"
    /\ phase' = "gone"

\* ... and then the raft engine.
DestroyRaft ==
    /\ ~panicked
    /\ phase = "tombstone"
    /\ pages' = WritePages(CleanOps(compacted, raft.last))
    /\ rstate' = NoState
    /\ floor' = Max({floor, raft.commit})
    /\ Gone
    /\ UNCHANGED <<writerVars, workerVars, kv, nready, crashes, panicked>>

\* A message for the region creates an uninitialized peer.
Recreate ==
    /\ ~panicked
    /\ phase = "gone"
    /\ phase' = "running"
    /\ UNCHANGED <<raft, trunc, applied, sched, given, cache, cpersisted, trace, compacted, readies,
                   snap, writerVars, workerVars, diskVars, floor, nready, crashes, panicked>>

----------------------------------------------------------------------------
(* The store stops anywhere and starts again.                              *)

\* recover_from_applying_state.
Recovered ==
    LET clean == kv.state = "Applying" /\ kv.snapstate.commit > rstate.commit
    IN [pages |-> IF clean THEN WritePages(CleanOps(0, rstate.last)) ELSE pages,
        rstate |-> IF clean THEN kv.snapstate ELSE rstate]

\* validate_states, init_last_term and init_applied_term.
StatesValid(ps, rs) ==
    LET commit == Max({rs.commit, kv.commit.index})
    IN /\ rs.commit < kv.commit.index => ps[kv.commit.index] = kv.commit.term
       /\ commit <= rs.last
       /\ rs.term >= kv.commit.term
       /\ rs.last = kv.trunc.index \/ (rs.last > 0 /\ ps[rs.last] # 0)
       /\ kv.applied \in {0, kv.trunc.index} \/ kv.applied > rs.last \/ ps[kv.applied] # 0

\* Peer::new and EntryStorage::new.  What is in queues and caches is lost.
RestartPeer ==
    LET rec == Recovered
        ps == rec.pages
        rs == rec.rstate
    IN /\ pages' = ps
       /\ rstate' = rs
       /\ panicked' = ~StatesValid(ps, rs)
       /\ raft' = [log |-> [i \in Index |-> IF kv.trunc.index < i /\ i <= rs.last THEN ps[i] ELSE 0],
                   last |-> rs.last, commit |-> Max({rs.commit, kv.commit.index}),
                   term |-> rs.term, persisted |-> rs.last]
       /\ trunc' = kv.trunc
       /\ applied' = kv.applied
       /\ sched' = [index |-> kv.applied, term |-> kv.commit.term]
       /\ given' = [i \in Index |-> IF i <= kv.applied THEN given[i] ELSE 0]
       /\ cache' = NoLog
       /\ cpersisted' = rs.last
       /\ trace' = <<>>
       /\ compacted' = 0
       /\ readies' = <<>>
       /\ snap' = IF kv.state = "Applying" THEN "applying" ELSE "none"
       /\ phase' = "running"
       /\ floor' = floor

\* clear_stale_meta for a peer that was destroyed.
RestartTombstone ==
    /\ pages' = IF rstate = NoState THEN pages ELSE WritePages(CleanOps(0, rstate.last))
    /\ rstate' = NoState
    /\ floor' = Max({floor, raft.commit})
    /\ Gone
    /\ UNCHANGED panicked

Restart ==
    /\ ~panicked
    /\ crashes < MaxCrashes
    /\ crashes' = crashes + 1
    /\ queue' = <<>>
    /\ batch' = NoBatch
    /\ notes' = <<>>
    /\ results' = <<>>
    /\ gcq' = <<>>
    /\ IF kv.state = "Tombstone" THEN RestartTombstone ELSE RestartPeer
    /\ UNCHANGED <<kv, nready>>

----------------------------------------------------------------------------
Next ==
    \/ ReadyAppend
    \/ ReadyCommit
    \/ ReadyCommitted
    \/ ReadySnapshot
    \/ AddWriteTask
    \/ WriteKv
    \/ WriteRaft
    \/ NotifyPersisted
    \/ OnPersistReady
    \/ WriteNormal
    \/ CheckSnapStatus
    \/ ApplyEntries
    \/ OnApplyRes
    \/ RaftLogGc
    \/ StartDestroy
    \/ DelayDestroy
    \/ DestroyKv
    \/ DestroyRaft
    \/ Recreate
    \/ Restart

Spec == Init /\ [][Next]_vars

----------------------------------------------------------------------------
\* The types of the state.
TypeOK ==
    /\ raft \in [log : [Index -> Terms], last : 0..MaxIndex, commit : 0..MaxIndex, term : Terms,
                 persisted : 0..MaxIndex]
    /\ trunc \in [index : 0..MaxIndex, term : Terms]
    /\ applied \in 0..MaxIndex
    /\ sched \in [index : 0..MaxIndex, term : Terms]
    /\ {given, cache, pages} \subseteq [Index -> Terms]
    /\ cpersisted \in 0..MaxIndex
    /\ compacted \in 0..MaxIndex + 1
    /\ snap \in {"none", "persisting", "applying", "applied"}
    /\ phase \in {"running", "removing", "flushing", "flushed", "tombstone", "gone"}
    /\ kv.state \in {"Normal", "Applying", "Tombstone"}
    /\ rstate \in [last : 0..MaxIndex, commit : 0..MaxIndex, term : Terms] \cup {NoState}

\* on_persist_ready, raft-rs and the cache: what raft-rs takes for persisted, and
\* the peer acknowledges, is the entry of its log and is on disk.
PersistedOnDisk ==
    phase = "running" /\ Initialized =>
        /\ \A i \in trunc.index + 1..raft.persisted : pages[i] = raft.log[i]
        /\ snap = "none" => rstate.last >= raft.persisted

\* EntryStorage::entries: a read of the log returns the entry of the log, be it in
\* the cache or on disk, whatever the writer, gc and eviction have done so far.
ReadsRight ==
    phase = "running" =>
        \A i \in trunc.index + 1..raft.last : FetchEntry(i) = raft.log[i]

\* handle_raft_committed_entries: what was given to the apply thread is still the
\* log of the peer, also after a restart.
AppliesCommitted ==
    phase = "running" => \A i \in trunc.index + 1..sched.index : given[i] = raft.log[i]

\* write_to_db, PSLogEngine::append and gc: after each raft write batch the disk
\* holds a log without a hole from the truncated index to the last index of the
\* raft state, and nothing of an overwritten log after it; whatever write of a
\* snapshot a crash cut short, recover_from_applying_state leaves the indexes of the
\* peer in order.
DiskLogWhole ==
    /\ kv.state = "Normal" /\ phase = "running" /\ rstate # NoState =>
        \A i \in kv.trunc.index + 1..MaxIndex : (pages[i] # 0) = (i <= rstate.last)
    /\ phase = "running" /\ snap # "persisting" =>
        /\ trunc.index <= applied
        /\ applied <= raft.commit
        /\ raft.commit <= raft.last

\* validate_states, init_last_term, init_applied_term, EntryCache::append and
\* on_persist_ready: no restart is refused, no assertion of the entry cache fails,
\* and a notification of the write worker matches a ready.
NoPanic == ~panicked

\* The write worker and on_persist_ready: no ready waits for a notification that
\* will not come.
NoReadyForgotten ==
    queue = <<>> /\ batch = NoBatch /\ notes = <<>> => readies = <<>>

====
