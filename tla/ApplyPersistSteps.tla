-------------------------- MODULE ApplyPersistSteps --------------------------
(***************************************************************************)
(* ApplyPersist, for every log, number of crashes and choice of entry      *)
(* types: the inductive invariant, what the log determines, and the one    *)
(* shape, ApplyStep, that the execution of every kind of entry has.        *)
(***************************************************************************)
EXTENDS ApplyPersist, SequenceTheorems, TLAPS

\* The epochs in the log are the ones the region goes through, and only grow.
LogOK ==
  \A i \in 1 .. Len(log) :
    /\ log[i].version = VersionAfter(log, i - 1)
    /\ log[i].version < i
    /\ \A j \in 0 .. i - 1 : VersionAfter(log, j) <= log[i].version

\* How far the copies of the applied index are.
Order ==
  /\ applied_index <= Len(log) /\ truncated <= applied_index
  /\ kv.applied <= applied_index /\ kv_synced.applied <= kv.applied
  /\ kv.truncated <= kv.applied /\ kv_synced.truncated <= kv_synced.applied
  /\ es.applied <= Len(log) /\ es_disk.applied <= Len(log)
  /\ es.exists => es_disk.exists /\ applied_index <= es.applied
  /\ es_disk.exists => es.exists \/ pending_remove
  /\ es_disk.exists => kv.applied <= es_disk.applied
  /\ es_disk.exists /\ "apply_state" \in wb => applied_index <= es_disk.applied

\* The write batch is empty but for a write under way and a pending Tombstone.
Batch ==
  /\ "apply_state" \in wb => pc = "write"
  /\ "region_state" \in wb => pending_remove \/ "apply_state" \in wb
  /\ pc \in {"delete", "notify"} => wb = {}

\* What is compacted is below an applied index that is written, or is about to.
Compaction ==
  /\ compacted => truncated <= kv.applied \/ "apply_state" \in wb
  /\ mailbox.compact_to <= kv.applied + 1 /\ gc_task <= kv.applied + 1
  /\ raft_first <= kv_synced.applied + 1

\* The epochs, in memory and in kv.
Epochs ==
  /\ version = VersionAfter(log, applied_index)
  /\ kv.version = VersionAfter(log, kv.applied)
  /\ kv_synced.version = VersionAfter(log, kv_synced.applied)
  /\ version = kv.version \/ ("apply_state" \in wb /\ "region_state" \in wb)
  /\ version <= kv_synced.version \/ ("region_state" \in wb /\ sync_log_hint)
  /\ meta_version <= kv_synced.version
  /\ mailbox.full => mailbox.version <= kv_synced.version

\* A file is deleted only after its ingest is below the synced applied index.
Files ==
  /\ \A i \in pending_delete_ssts \cup delete_ssts : i <= applied_index
  /\ pc \in {"idle", "notify"} => delete_ssts = {}
  /\ pc = "write" /\ delete_ssts # {} => sync_log_hint /\ "apply_state" \in wb
  /\ pc = "delete" => \A i \in delete_ssts : i <= kv_synced.applied

\* The inductive invariant.
IInv ==
  /\ TypeOK /\ LogOK /\ Order /\ Batch /\ Compaction /\ Epochs /\ Files
  /\ ExactlyOnce /\ SstKept /\ NoPanic
-----------------------------------------------------------------------------
\* The operators on the log.

\* An entry of the log is a record of the right type.
LEMMA EntryType ==
  ASSUME TypeOK, NEW i \in 1 .. Len(log)
  PROVE  /\ log[i] \in Entries /\ log[i].version \in Index /\ log[i].epoch \in Index
         /\ log[i].type \in AllTypes /\ log[i].compact_index \in Index
<1>1. log \in Seq(Entries)
  BY DEF TypeOK
<1>2. log[i] \in Entries
  BY <1>1, ElementOfSeq
<1> QED
  BY <1>2 DEF Entries

LEMMA LogLength ==
  ASSUME TypeOK
  PROVE  Len(log) \in Nat /\ Len(log) <= MaxLog /\ Len(log) \in Index /\ MaxLog \in Nat
  BY BoundsAssumption, LenProperties DEF TypeOK, Index

\* The epoch after n entries is at most n.
LEMMA VersionBound ==
  ASSUME TypeOK, LogOK, NEW n \in 0 .. Len(log)
  PROVE  VersionAfter(log, n) \in 0 .. n
<1>1. CASE n = 0
  BY <1>1 DEF VersionAfter
<1>2. CASE n \in 1 .. Len(log)
  <2>1. log[n].version \in Nat /\ log[n].version < n
    BY <1>2, EntryType DEF LogOK, Index
  <2> QED
    BY <1>2, <2>1 DEF VersionAfter
<1> QED
  BY <1>1, <1>2, LogLength

\* The epoch moves exactly at the accepted splits.
LEMMA VersionStep ==
  ASSUME TypeOK, LogOK, NEW i \in 1 .. Len(log)
  PROVE  VersionAfter(log, i) =
           IF log[i].type = "Split" /\ log[i].epoch = VersionAfter(log, i - 1)
           THEN VersionAfter(log, i - 1) + 1 ELSE VersionAfter(log, i - 1)
<1>1. log[i].version = VersionAfter(log, i - 1)
  BY DEF LogOK
<1>2. i # 0
  BY LogLength
<1> QED
  BY <1>1, <1>2 DEF VersionAfter, Accepted

LEMMA VersionMono ==
  ASSUME TypeOK, LogOK, NEW n \in 0 .. Len(log), NEW m \in 0 .. n
  PROVE  VersionAfter(log, m) <= VersionAfter(log, n)
<1>1. CASE m = n
  BY <1>1, VersionBound
<1>2. CASE m < n
  <2>1. n \in 1 .. Len(log) /\ m \in 0 .. n - 1
    BY <1>2, LogLength
  <2>2. VersionAfter(log, m) <= log[n].version
    BY <2>1 DEF LogOK
  <2>3. log[n].version \in Nat /\ VersionAfter(log, m) \in Nat
    BY <2>1, EntryType, VersionBound, LogLength DEF Index
  <2>4. VersionAfter(log, n) >= log[n].version
    BY <2>1, <2>3 DEF VersionAfter
  <2>5. VersionAfter(log, n) \in Nat
    BY VersionBound
  <2> QED
    BY <2>2, <2>3, <2>4, <2>5
<1> QED
  BY <1>1, <1>2, LogLength

\* The data grows exactly by the accepted writes and ingests.
LEMMA DataStep ==
  ASSUME TypeOK, LogOK, NEW i \in 1 .. Len(log)
  PROVE  DataAfter(log, i) =
           IF log[i].type \in DataTypes /\ log[i].epoch = VersionAfter(log, i - 1)
           THEN DataAfter(log, i - 1) \cup {i} ELSE DataAfter(log, i - 1)
<1>1. log[i].version = VersionAfter(log, i - 1)
  BY DEF LogOK
<1>2. 1 .. i = (1 .. i - 1) \cup {i} /\ i \notin 1 .. i - 1
  BY LogLength
<1> QED
  BY <1>1, <1>2 DEF DataAfter, Accepted

\* A proposal extends the log and changes nothing the log said before.
LEMMA ProposeLog ==
  ASSUME TypeOK, LogOK, Propose
  PROVE  /\ Len(log') = Len(log) + 1 /\ Len(log') <= MaxLog
         /\ log' \in Seq(Entries)
         /\ \A i \in 1 .. Len(log) : log'[i] = log[i]
         /\ \A n \in 0 .. Len(log) : /\ VersionAfter(log', n) = VersionAfter(log, n)
                                     /\ DataAfter(log', n) = DataAfter(log, n)
         /\ log'[Len(log) + 1].version = VersionAfter(log, Len(log))
         /\ log'[Len(log) + 1].type = "IngestSst" => Len(log) + 1 \in ssts'
<1> DEFINE v == VersionAfter(log, Len(log))
           k == Len(log) + 1
<1>1. PICK t \in Types, e \in {v, v - 1} \cap Index, c \in 0 .. Len(log) :
        /\ log' = Append(log, [type |-> t, epoch |-> e, version |-> v,
                               compact_index |-> c])
        /\ ssts' = IF t = "IngestSst" THEN ssts \cup {k} ELSE ssts
  BY Zenon DEF Propose
<1> DEFINE new == [type |-> t, epoch |-> e, version |-> v, compact_index |-> c]
<1>2. v \in Index /\ c \in Index /\ t \in AllTypes
  BY VersionBound, LogLength, TypesAssumption DEF Index
<1>3. new \in Entries
  BY <1>2 DEF Entries
<1>4. log \in Seq(Entries) /\ Len(log) \in Nat /\ MaxLog \in Nat
  BY LogLength DEF TypeOK
<1>5. /\ log' = Append(log, new) /\ log' \in Seq(Entries) /\ Len(log') = Len(log) + 1
      /\ \A i \in 1 .. Len(log) : log'[i] = log[i]
      /\ log'[k] = new
  BY <1>1, <1>3, <1>4, AppendProperties
<1>6. Len(log') <= MaxLog
  BY <1>4, <1>5 DEF Propose
<1>7. ASSUME NEW n \in 0 .. Len(log)
      PROVE  /\ VersionAfter(log', n) = VersionAfter(log, n)
             /\ DataAfter(log', n) = DataAfter(log, n)
  <2>1. \A i \in 1 .. n : log'[i] = log[i]
    BY <1>4, <1>5
  <2>2. n # 0 => log'[n] = log[n]
    BY <1>4, <1>5
  <2>3. VersionAfter(log', n) = VersionAfter(log, n)
    BY <2>2 DEF VersionAfter
  <2>4. DataAfter(log', n) = DataAfter(log, n)
    BY <2>1 DEF DataAfter
  <2> QED
    BY <2>3, <2>4
<1>8. new.version = v /\ new.type = t
  OBVIOUS
<1>9. log'[k].version = v /\ (log'[k].type = "IngestSst" => k \in ssts')
  BY <1>1, <1>5, <1>8
<1> QED
  BY <1>5, <1>6, <1>7, <1>9

LEMMA ProposeKeepsLogOK ==
  ASSUME TypeOK, LogOK, Propose
  PROVE  LogOK'
<1> SUFFICES ASSUME NEW i \in 1 .. Len(log')
             PROVE  /\ log'[i].version = VersionAfter(log', i - 1)
                    /\ log'[i].version < i
                    /\ \A j \in 0 .. i - 1 : VersionAfter(log', j) <= log'[i].version
  BY DEF LogOK
<1> USE LogLength, ProposeLog
<1>1. CASE i \in 1 .. Len(log)
  <2>1. /\ log'[i] = log[i]
        /\ \A j \in 0 .. i - 1 : VersionAfter(log', j) = VersionAfter(log, j)
    BY <1>1
  <2> QED
    BY SMTT(60), <1>1, <2>1 DEF LogOK
<1>2. CASE i = Len(log) + 1
  <2>1. \A j \in 0 .. i - 1 : VersionAfter(log', j) = VersionAfter(log, j)
    BY <1>2
  <2>2. \A j \in 0 .. i - 1 : VersionAfter(log, j) <= VersionAfter(log, i - 1)
    BY <1>2, VersionMono
  <2>3. VersionAfter(log, i - 1) \in 0 .. i - 1
    BY <1>2, VersionBound
  <2>4. log'[i].version = VersionAfter(log, i - 1)
    BY <1>2
  <2> QED
    BY <1>2, <2>1, <2>2, <2>3, <2>4
<1> QED
  BY SMTT(60), <1>1, <1>2
-----------------------------------------------------------------------------
\* What every step of the apply worker that applies an entry has in common.

\* The region in the engine-store after i entries.
RegionAfter(i) == [exists |-> TRUE, applied |-> i, version |-> VersionAfter(log, i),
                   data |-> DataAfter(log, i)]

\* A command reaches the engine-store: it has seen it, or it is the next one.
EsStep ==
  \/ /\ ~es.exists /\ es' = es /\ es_disk' = es_disk
  \/ /\ es.exists
     /\ \/ es.applied >= I /\ es' = es
        \/ es.applied = applied_index /\ es' = RegionAfter(I)
     /\ es_disk' = es_disk \/ es_disk' = es'
     /\ pc' = "write" => es_disk' = es'

\* The peer is removed.
EsRemove ==
  /\ es' = [es EXCEPT !.exists = FALSE]
  /\ es_disk' = es_disk \/ es_disk' = [es_disk EXCEPT !.exists = FALSE]

ApplyStart == pc = "idle" /\ ~pending_remove /\ ~panicked /\ I \in 1 .. Len(log)

ApplyDelegate ==
  /\ applied_index' = I
  /\ truncated' \in 0 .. applied_index
  /\ truncated' = truncated \/ pc' = "write"
  /\ compacted' \in BOOLEAN /\ (compacted' => compacted \/ pc' = "write")
  /\ version' = VersionAfter(log, I)
  /\ has_pending_ssts' \in BOOLEAN /\ sync_log_hint' \in BOOLEAN
  /\ pc' \in {"idle", "write"} /\ ending' = FALSE /\ timer' = TRUE
  /\ wb' \subseteq {"apply_state", "region_state"}
  /\ ("apply_state" \in wb') <=> (pc' = "write")
  /\ "region_state" \in wb' => pending_remove' \/ pc' = "write"
  /\ version' = version \/ (pc' = "write" /\ "region_state" \in wb' /\ sync_log_hint')

ApplyEs ==
  \/ pending_remove' = FALSE /\ EsStep
  \/ pending_remove' = TRUE /\ pc' = "idle" /\ EsRemove

ApplyFiles ==
  /\ ssts' \subseteq ssts
  /\ \A i \in ssts : i \in ssts' \/ ~Accepted(log[i])
  /\ pending_delete_ssts' \subseteq pending_delete_ssts \cup {I}
  /\ delete_ssts' \subseteq pending_delete_ssts \cup {I}
  /\ delete_ssts' = {} \/ (pc' = "write" /\ sync_log_hint')
  /\ panicked' = FALSE

ApplyFrame ==
  UNCHANGED <<log, kv, kv_synced, mailbox, meta_version, destroyed, gc_task,
              raft_first, crashes>>

ApplyStep == ApplyStart /\ ApplyDelegate /\ ApplyEs /\ ApplyFiles /\ ApplyFrame

\* Facts at the start of every such step.
LEMMA StartFacts ==
  ASSUME IInv, CanApply
  PROVE  /\ ApplyStart /\ wb = {} /\ delete_ssts = {}
         /\ applied_index \in Nat /\ I \in Nat /\ I = applied_index + 1
         /\ truncated \in 0 .. applied_index
         /\ version = VersionAfter(log, applied_index)
         /\ version = log[I].version
         /\ Entry = log[I]
         /\ version = VersionAfter(log, I - 1)
         /\ es.exists => /\ applied_index <= es.applied
                         /\ es.data = DataAfter(log, es.applied)
                         /\ es.version = VersionAfter(log, es.applied)
         /\ es.applied \in Nat /\ es \in Region
<1>1. TypeOK /\ LogOK
  BY DEF IInv
<1>2. /\ applied_index \in Nat /\ raft_first \in Nat /\ raft_first >= 1
      /\ truncated \in Nat /\ es.applied \in Nat /\ es \in Region
      /\ wb \subseteq {"apply_state", "region_state"}
  BY SMTT(60), <1>1, LogLength DEF TypeOK, Index, Region
<1>3. /\ I \in 1 .. Len(log) /\ pc = "idle" /\ ~pending_remove /\ ~panicked
      /\ I = applied_index + 1 /\ Entry = log[I] /\ I - 1 = applied_index
  BY <1>1, <1>2, LogLength DEF CanApply, I, Entry
<1>4. wb = {} /\ delete_ssts = {}
  BY <1>2, <1>3 DEF IInv, Batch, Files
<1>5. version = VersionAfter(log, applied_index) /\ truncated <= applied_index
  BY DEF IInv, Epochs, Order
<1>6. version = log[I].version
  BY <1>1, <1>3, <1>5 DEF LogOK
<1>7. es.exists => /\ applied_index <= es.applied
                   /\ es.data = DataAfter(log, es.applied)
                   /\ es.version = VersionAfter(log, es.applied)
  BY DEF IInv, Order, ExactlyOnce
<1>8. ApplyStart
  BY <1>3, Zenon DEF ApplyStart
<1>9. I \in Nat /\ truncated \in 0 .. applied_index
  BY <1>2, <1>3, <1>5
<1>10. version = VersionAfter(log, I - 1)
  BY <1>3, <1>5, Zenon
<1> QED
  BY <1>2, <1>3, <1>4, <1>5, <1>6, <1>7, <1>8, <1>9, <1>10, Zenon

\* The engine-store step of a command with the right data and epoch.
LEMMA EsApplyStep ==
  ASSUME IInv, CanApply, NEW data, NEW ver, NEW answer,
         ver = VersionAfter(log, I),
         DataAfter(log, I) = DataAfter(log, I - 1) \cup data,
         es.exists => answer # "NotFound",
         ~es.exists => answer = "NotFound",
         EsAnswer(EsApply(I, data, ver), answer),
         pc' = "write" => answer # "None",
         answer \in {"None", "Persist", "NotFound"}
  PROVE  EsStep
<1> USE StartFacts
<1>1. CASE ~es.exists
  BY <1>1 DEF EsAnswer, EsApply, EsStep
<1>2. CASE es.exists /\ es.applied >= I
  <2>1. EsApply(I, data, ver) = es
    BY <1>2 DEF EsApply
  <2> QED
    BY <1>2, <2>1 DEF EsAnswer, EsStep
<1>3. CASE es.exists /\ es.applied < I
  <2>1. es.applied = applied_index /\ es.applied = I - 1
    BY <1>3
  <2>2. EsApply(I, data, ver) = RegionAfter(I)
    BY Zenon, <1>3, <2>1 DEF EsApply, RegionAfter, Region
  <2> QED
    BY <1>3, <2>1, <2>2 DEF EsAnswer, EsStep
<1> QED
  BY <1>1, <1>2, <1>3

\* A command forwarded as a write of data.
LEMMA ForwardWriteStep ==
  ASSUME IInv, CanProcess, NEW data, NEW writes, ForwardWrite(data, writes),
         "None" \notin writes,
         VersionAfter(log, I) = version,
         DataAfter(log, I) = DataAfter(log, I - 1) \cup data,
         ssts' \subseteq ssts,
         \A i \in ssts : i \in ssts' \/ ~Accepted(log[i])
  PROVE  ApplyStep
<1>1. CanApply
  BY DEF CanProcess
<1> USE <1>1
<1>2. PICK answer \in WriteAnswers :
        /\ EsAnswer(EsApply(I, data, version), answer)
        /\ Finish(answer \in writes, {})
  BY Zenon DEF ForwardWrite
<1>3. ApplyStart /\ wb = {} /\ delete_ssts = {} /\ truncated \in 0 .. applied_index
  BY StartFacts
<1>4. /\ pc' \in {"idle", "write"} /\ (pc' = "write" <=> answer \in writes)
      /\ wb' = IF answer \in writes THEN {"apply_state"} ELSE {}
      /\ applied_index' = I /\ timer' = TRUE /\ ending' = FALSE
  BY <1>2, <1>3 DEF Finish
<1>5. /\ UNCHANGED <<log, truncated, version, pending_remove, has_pending_ssts,
                     compacted, kv, kv_synced, delete_ssts, pending_delete_ssts,
                     mailbox, meta_version, destroyed, gc_task, raft_first,
                     panicked, crashes>>
      /\ sync_log_hint' \in BOOLEAN
  BY Zenon DEF ForwardWrite, kvVars, peerVars
<1>6. ApplyFrame
  BY <1>5 DEF ApplyFrame
<1>7. ApplyDelegate
  <2>1. compacted' \in BOOLEAN /\ has_pending_ssts' \in BOOLEAN
    BY <1>5, Zenon DEF IInv, TypeOK
  <2>2. compacted' => compacted
    BY <1>5, Zenon
  <2>3. wb' \subseteq {"apply_state", "region_state"} /\ "region_state" \notin wb'
        /\ ("apply_state" \in wb' <=> pc' = "write")
    BY <1>4
  <2> QED
    BY <1>3, <1>4, <1>5, <2>1, <2>2, <2>3, Zenon DEF ApplyDelegate
<1>8. ApplyEs
  <2>1. pending_remove' = FALSE
    BY <1>3, <1>5 DEF ApplyStart, IInv, TypeOK
  <2>2. answer \in {"None", "Persist", "NotFound"}
        /\ (es.exists => answer # "NotFound") /\ (~es.exists => answer = "NotFound")
    BY DEF WriteAnswers
  <2>3. EsStep
    BY <1>2, <1>4, <2>2, EsApplyStep
  <2> QED
    BY <2>1, <2>3 DEF ApplyEs
<1>9. ApplyFiles
  <2>1. panicked' = FALSE
    BY <1>3, <1>5 DEF ApplyStart, IInv, TypeOK
  <2> QED
    BY <1>3, <1>5, <2>1 DEF ApplyFiles
<1> QED
  BY <1>3, <1>6, <1>7, <1>8, <1>9 DEF ApplyStep

\* What a command leaves of the epoch and the data when it changes neither.
LEMMA NoEffect ==
  ASSUME IInv, CanApply,
         EpochNotMatch \/ Entry.type \notin DataTypes \cup {"Split"}
  PROVE  VersionAfter(log, I) = version /\ DataAfter(log, I) = DataAfter(log, I - 1)
<1> USE StartFacts
<1>1. TypeOK /\ LogOK /\ I \in 1 .. Len(log)
  BY DEF IInv, ApplyStart
<1>2. ~(log[I].type \in DataTypes \cup {"Split"} /\ log[I].epoch = VersionAfter(log, I - 1))
  BY DEF EpochNotMatch
<1> QED
  BY <1>1, <1>2, VersionStep, DataStep DEF DataTypes

LEMMA ForwardedSteps ==
  ASSUME IInv
  PROVE  /\ HandleErrorApply => ApplyStep
         /\ ExecWriteCmd => ApplyStep
         /\ FilterAdmin => ApplyStep
         /\ FilterCompactLog => ApplyStep
<1>1. ASSUME HandleErrorApply PROVE ApplyStep
  <2>1. CanProcess /\ CanApply /\ EpochNotMatch /\ ForwardWrite({}, {"Persist"})
    BY <1>1 DEF HandleErrorApply, CanProcess
  <2>2. VersionAfter(log, I) = version /\ DataAfter(log, I) = DataAfter(log, I - 1) \cup {}
    BY <2>1, NoEffect
  <2>3. ssts' = ssts \/ (Entry.type = "IngestSst" /\ ssts' = ssts \ {I})
    BY <1>1 DEF HandleErrorApply
  <2>4. ~Accepted(log[I])
    BY <2>1, StartFacts DEF EpochNotMatch, Accepted
  <2>5. ssts' \subseteq ssts /\ \A i \in ssts : i \in ssts' \/ ~Accepted(log[i])
    BY <2>3, <2>4
  <2> QED
    BY <2>1, <2>2, <2>5, ForwardWriteStep
<1>2. ASSUME ExecWriteCmd PROVE ApplyStep
  <2>1. CanProcess /\ CanApply /\ Entry.type = "Write" /\ ~EpochNotMatch
        /\ ForwardWrite({I}, {"Persist"}) /\ ssts' = ssts
    BY <1>2 DEF ExecWriteCmd, CanProcess
  <2>2. log[I].type = "Write" /\ log[I].epoch = VersionAfter(log, I - 1)
    BY <2>1, StartFacts DEF EpochNotMatch, DataTypes
  <2>3. TypeOK /\ LogOK /\ I \in 1 .. Len(log)
    BY <2>1, StartFacts DEF IInv, ApplyStart
  <2>4. VersionAfter(log, I) = version /\ DataAfter(log, I) = DataAfter(log, I - 1) \cup {I}
    BY Zenon, <2>1, <2>2, <2>3, VersionStep, DataStep, StartFacts DEF DataTypes
  <2> QED
    BY <2>1, <2>4, ForwardWriteStep
<1>3. ASSUME CanProcess, Entry.type \in {"Hash", "CompactLog"},
             ForwardWrite({}, {"Persist", "NotFound"}), ssts' = ssts
      PROVE  ApplyStep
  <2>1. CanApply /\ Entry.type \notin DataTypes \cup {"Split"}
    BY <1>3 DEF CanProcess, DataTypes
  <2>2. VersionAfter(log, I) = version /\ DataAfter(log, I) = DataAfter(log, I - 1) \cup {}
    BY <2>1, NoEffect
  <2> QED
    BY <1>3, <2>2, ForwardWriteStep
<1>4. FilterAdmin => ApplyStep
  BY <1>3 DEF FilterAdmin
<1>5. FilterCompactLog => ApplyStep
  BY <1>3 DEF FilterCompactLog
<1> QED
  BY <1>1, <1>2, <1>4, <1>5

LEMMA OnEmptyCmdStep ==
  ASSUME IInv, OnEmptyCmd
  PROVE  ApplyStep
<1>1. CanApply /\ Entry.type = "Empty" /\ Finish(FALSE, {})
  BY Zenon DEF OnEmptyCmd
<1>2. PICK answer \in WriteAnswers : EsAnswer(EsApply(I, {}, version), answer)
  BY Zenon DEF OnEmptyCmd
<1>3. ApplyStart /\ wb = {} /\ delete_ssts = {} /\ truncated \in 0 .. applied_index
  BY <1>1, StartFacts
<1>4. VersionAfter(log, I) = version /\ DataAfter(log, I) = DataAfter(log, I - 1) \cup {}
  BY <1>1, NoEffect DEF DataTypes
<1>5. pc' = "idle" /\ wb' = {} /\ applied_index' = I /\ timer' = TRUE /\ ending' = FALSE
  BY <1>1, <1>3 DEF Finish
<1>6. UNCHANGED <<log, truncated, version, pending_remove, has_pending_ssts,
                  sync_log_hint, compacted, kv, kv_synced, ssts, delete_ssts,
                  pending_delete_ssts, mailbox, meta_version, destroyed, gc_task,
                  raft_first, panicked, crashes>>
  BY DEF OnEmptyCmd, kvVars, sstVars, peerVars
<1>7. ApplyFrame
  BY <1>6 DEF ApplyFrame
<1>8. ApplyDelegate
  <2>1. compacted' \in BOOLEAN /\ has_pending_ssts' \in BOOLEAN /\ sync_log_hint' \in BOOLEAN
    BY <1>6, Zenon DEF IInv, TypeOK
  <2>2. compacted' => compacted
    BY <1>6, Zenon
  <2> QED
    BY <1>3, <1>4, <1>5, <1>6, <2>1, <2>2 DEF ApplyDelegate
<1>9. ApplyEs
  <2>1. pending_remove' = FALSE
    BY <1>3, <1>6 DEF ApplyStart, IInv, TypeOK
  <2>2. answer \in {"None", "Persist", "NotFound"}
        /\ (es.exists => answer # "NotFound") /\ (~es.exists => answer = "NotFound")
    BY DEF WriteAnswers
  <2>3. EsStep
    BY SMTT(60), <1>1, <1>2, <1>4, <1>5, <2>2, EsApplyStep
  <2> QED
    BY <2>1, <2>3 DEF ApplyEs
<1>10. ApplyFiles
  <2>1. panicked' = FALSE
    BY <1>3, <1>6 DEF ApplyStart, IInv, TypeOK
  <2> QED
    BY SMTT(60), <1>3, <1>6, <2>1 DEF ApplyFiles
<1> QED
  BY <1>3, <1>7, <1>8, <1>9, <1>10 DEF ApplyStep

LEMMA ExecCompactLogStep ==
  ASSUME IInv, ExecCompactLog
  PROVE  ApplyStep
<1>1. CanProcess /\ CanApply /\ Entry.type = "CompactLog" /\ Finish(TRUE, {})
  BY Zenon DEF ExecCompactLog, CanProcess
<1>2. PICK answer \in AdminAnswers : EsAnswer(EsApply(I, {}, version), answer)
  BY Zenon DEF ExecCompactLog
<1>3. ApplyStart /\ wb = {} /\ delete_ssts = {} /\ truncated \in 0 .. applied_index
      /\ applied_index \in Nat
  BY <1>1, StartFacts
<1>4. VersionAfter(log, I) = version /\ DataAfter(log, I) = DataAfter(log, I - 1) \cup {}
  BY <1>1, NoEffect DEF DataTypes
<1>5. pc' = "write" /\ wb' = {"apply_state"} /\ applied_index' = I /\ timer' = TRUE
      /\ ending' = FALSE
  BY <1>1, <1>3 DEF Finish
<1>6. UNCHANGED <<log, version, pending_remove, has_pending_ssts, kv, kv_synced,
                  ssts, delete_ssts, pending_delete_ssts, mailbox, meta_version,
                  destroyed, gc_task, raft_first, panicked, crashes>>
  BY DEF ExecCompactLog, kvVars, sstVars, peerVars
<1>7. ApplyFrame
  BY <1>6 DEF ApplyFrame
<1>8. ApplyDelegate
  <2>1. has_pending_ssts' \in BOOLEAN
    BY <1>6, Zenon DEF IInv, TypeOK
  <2>2. compacted' \in BOOLEAN /\ sync_log_hint' \in BOOLEAN
    BY Zenon DEF ExecCompactLog
  <2>3. Entry.compact_index \in Nat
    BY <1>1, <1>3, StartFacts, EntryType, LogLength DEF IInv, ApplyStart, Index
  <2>4. truncated' \in 0 .. applied_index
    BY <1>3, <2>3 DEF ExecCompactLog
  <2> QED
    BY <1>4, <1>5, <1>6, <2>1, <2>2, <2>4 DEF ApplyDelegate
<1>9. ApplyEs
  <2>1. pending_remove' = FALSE
    BY <1>3, <1>6 DEF ApplyStart, IInv, TypeOK
  <2>2. answer \in {"Persist", "NotFound"}
        /\ (es.exists => answer # "NotFound") /\ (~es.exists => answer = "NotFound")
    BY DEF AdminAnswers
  <2>3. EsStep
    BY SMTT(60), <1>1, <1>2, <1>4, <2>2, EsApplyStep
  <2> QED
    BY SMTT(60), <2>1, <2>3 DEF ApplyEs
<1>10. ApplyFiles
  <2>1. panicked' = FALSE
    BY <1>3, <1>6 DEF ApplyStart, IInv, TypeOK
  <2> QED
    BY SMTT(60), <1>3, <1>6, <2>1 DEF ApplyFiles
<1> QED
  BY <1>3, <1>7, <1>8, <1>9, <1>10 DEF ApplyStep

LEMMA ExecSplitStep ==
  ASSUME IInv, ExecSplit
  PROVE  ApplyStep
<1>1. CanProcess /\ CanApply /\ Entry.type = "Split" /\ ~EpochNotMatch
      /\ Finish(TRUE, {"region_state"}) /\ version' = version + 1
  BY Zenon DEF ExecSplit, CanProcess
<1>2. PICK answer \in AdminAnswers : EsAnswer(EsApply(I, {}, version + 1), answer)
  BY Zenon DEF ExecSplit
<1>3. ApplyStart /\ wb = {} /\ delete_ssts = {} /\ truncated \in 0 .. applied_index
  BY SMTT(60), <1>1, StartFacts
<1>4. VersionAfter(log, I) = version + 1 /\ DataAfter(log, I) = DataAfter(log, I - 1) \cup {}
  <2>1. TypeOK /\ LogOK /\ I \in 1 .. Len(log)
    BY <1>3 DEF IInv, ApplyStart
  <2>2. log[I].type = "Split" /\ log[I].epoch = VersionAfter(log, I - 1)
    BY <1>1, StartFacts DEF EpochNotMatch, RegionTypes
  <2> QED
    BY <1>1, <2>1, <2>2, StartFacts, VersionStep, DataStep DEF DataTypes
<1>5. pc' = "write" /\ wb' = {"apply_state", "region_state"} /\ applied_index' = I
      /\ timer' = TRUE /\ ending' = FALSE
  BY <1>1, <1>3 DEF Finish
<1>6. UNCHANGED <<log, truncated, pending_remove, has_pending_ssts, compacted, kv,
                  kv_synced, ssts, delete_ssts, pending_delete_ssts, mailbox,
                  meta_version, destroyed, gc_task, raft_first, panicked, crashes>>
  BY DEF ExecSplit, kvVars, sstVars, peerVars
<1>7. ApplyFrame
  BY <1>6 DEF ApplyFrame
<1>8. ApplyDelegate
  <2>1. has_pending_ssts' \in BOOLEAN /\ compacted' \in BOOLEAN
    BY <1>6, Zenon DEF IInv, TypeOK
  <2>2. ShouldSyncLog
    BY <1>1 DEF ShouldSyncLog
  <2>3. sync_log_hint' \in BOOLEAN /\ sync_log_hint'
    BY <2>2, Zenon DEF ExecSplit
  <2> QED
    BY <1>1, <1>3, <1>4, <1>5, <1>6, <2>1, <2>3 DEF ApplyDelegate
<1>9. ApplyEs
  <2>1. pending_remove' = FALSE
    BY <1>3, <1>6 DEF ApplyStart, IInv, TypeOK
  <2>2. answer \in {"Persist", "NotFound"}
        /\ (es.exists => answer # "NotFound") /\ (~es.exists => answer = "NotFound")
    BY DEF AdminAnswers
  <2>3. EsStep
    BY <1>1, <1>2, <1>4, <2>2, EsApplyStep
  <2> QED
    BY SMTT(60), <2>1, <2>3 DEF ApplyEs
<1>10. ApplyFiles
  <2>1. panicked' = FALSE
    BY <1>3, <1>6 DEF ApplyStart, IInv, TypeOK
  <2> QED
    BY SMTT(60), <1>3, <1>6, <2>1 DEF ApplyFiles
<1> QED
  BY <1>3, <1>7, <1>8, <1>9, <1>10 DEF ApplyStep

LEMMA ExecRemoveSelfStep ==
  ASSUME IInv, ExecRemoveSelf
  PROVE  ApplyStep
<1>1. CanProcess /\ CanApply /\ Entry.type = "RemoveSelf"
      /\ Finish(FALSE, {"region_state"}) /\ pending_remove' = TRUE
  BY Zenon DEF ExecRemoveSelf, CanProcess
<1>3. ApplyStart /\ wb = {} /\ delete_ssts = {} /\ truncated \in 0 .. applied_index
  BY <1>1, StartFacts
<1>4. VersionAfter(log, I) = version
  BY <1>1, NoEffect DEF DataTypes
<1>5. pc' = "idle" /\ wb' = {"region_state"} /\ applied_index' = I
      /\ timer' = TRUE /\ ending' = FALSE
  BY <1>1, <1>3 DEF Finish
<1>6. UNCHANGED <<log, truncated, version, has_pending_ssts, compacted, kv,
                  kv_synced, ssts, delete_ssts, pending_delete_ssts, mailbox,
                  meta_version, destroyed, gc_task, raft_first, panicked, crashes>>
  BY DEF ExecRemoveSelf, kvVars, sstVars, peerVars
<1>7. ApplyFrame
  BY <1>6 DEF ApplyFrame
<1>8. ApplyDelegate
  <2>1. has_pending_ssts' \in BOOLEAN /\ compacted' \in BOOLEAN /\ sync_log_hint' \in BOOLEAN
    BY <1>6, Zenon DEF IInv, TypeOK, ExecRemoveSelf
  <2> QED
    BY <1>1, <1>3, <1>4, <1>5, <1>6, <2>1 DEF ApplyDelegate
<1>9. ApplyEs
  BY <1>1, <1>5, Zenon DEF ApplyEs, EsRemove, ExecRemoveSelf
<1>10. ApplyFiles
  <2>1. panicked' = FALSE
    BY <1>3, <1>6 DEF ApplyStart, IInv, TypeOK
  <2> QED
    BY SMTT(60), <1>3, <1>6, <2>1 DEF ApplyFiles
<1> QED
  BY <1>3, <1>7, <1>8, <1>9, <1>10 DEF ApplyStep

\* Here SstKept is needed: the file of an accepted ingest is there.
LEMMA ExecIngestSstStep ==
  ASSUME IInv, ExecIngestSst
  PROVE  ApplyStep
<1>1. CanProcess /\ CanApply /\ Entry.type = "IngestSst" /\ ~EpochNotMatch
      /\ panicked' = (I \notin ssts)
  BY DEF ExecIngestSst, CanProcess
<1>2. PICK answer \in WriteAnswers :
        /\ EsAnswer(EsApply(I, {I}, version), answer)
        /\ Finish(answer # "None", {})
        /\ IF answer = "None"
           THEN /\ pending_delete_ssts' = pending_delete_ssts \cup {I}
                /\ UNCHANGED delete_ssts
           ELSE /\ delete_ssts' = delete_ssts \cup pending_delete_ssts \cup {I}
                /\ pending_delete_ssts' = {}
  BY Zenon DEF ExecIngestSst
<1>3. ApplyStart /\ wb = {} /\ delete_ssts = {} /\ truncated \in 0 .. applied_index
      /\ I \in 1 .. Len(log) /\ I = applied_index + 1 /\ applied_index \in Nat
  BY <1>1, StartFacts DEF ApplyStart
<1>4. log[I].type = "IngestSst" /\ log[I].epoch = VersionAfter(log, I - 1)
      /\ Accepted(log[I])
  BY ZenonT(60), <1>1, StartFacts DEF EpochNotMatch, DataTypes, Accepted
<1>5. VersionAfter(log, I) = version /\ DataAfter(log, I) = DataAfter(log, I - 1) \cup {I}
  BY SMTT(60), <1>1, <1>3, <1>4, StartFacts, VersionStep, DataStep DEF DataTypes, IInv
<1>6. /\ pc' \in {"idle", "write"} /\ (pc' = "write" <=> answer # "None")
      /\ wb' = IF answer # "None" THEN {"apply_state"} ELSE {}
      /\ applied_index' = I /\ timer' = TRUE /\ ending' = FALSE
  BY <1>2, <1>3 DEF Finish
<1>7. UNCHANGED <<log, truncated, version, pending_remove, compacted, kv, kv_synced,
                  ssts, mailbox, meta_version, destroyed, gc_task, raft_first,
                  crashes>>
  BY DEF ExecIngestSst, kvVars, peerVars
<1>8. ApplyFrame
  BY <1>7 DEF ApplyFrame
<1>9. ShouldSyncLog
  BY <1>1 DEF ShouldSyncLog
<1>10. sync_log_hint' \in BOOLEAN /\ sync_log_hint' /\ has_pending_ssts' \in BOOLEAN
  BY <1>9, Zenon DEF ExecIngestSst
<1>11. ApplyDelegate
  <2>1. compacted' \in BOOLEAN
    BY <1>7, Zenon DEF IInv, TypeOK
  <2>2. compacted' => compacted
    BY <1>7, Zenon
  <2>3. wb' \subseteq {"apply_state", "region_state"} /\ "region_state" \notin wb'
        /\ ("apply_state" \in wb' <=> pc' = "write")
    BY <1>6
  <2> QED
    BY <1>3, <1>5, <1>6, <1>7, <1>10, <2>1, <2>2, <2>3, Zenon DEF ApplyDelegate
<1>12. ApplyEs
  <2>1. pending_remove' = FALSE
    BY <1>3, <1>7 DEF ApplyStart, IInv, TypeOK
  <2>2. answer \in {"None", "Persist", "NotFound"}
        /\ (es.exists => answer # "NotFound") /\ (~es.exists => answer = "NotFound")
    BY DEF WriteAnswers
  <2>3. EsStep
    BY <1>1, <1>2, <1>5, <1>6, <2>2, EsApplyStep
  <2> QED
    BY <2>1, <2>3 DEF ApplyEs
<1>13. ApplyFiles
  <2>1. kv_synced.applied <= applied_index /\ kv_synced.applied \in Nat
    BY SMTT(60), <1>3, LogLength DEF IInv, Order, TypeOK, Meta, Index
  <2>2. I \in kv_synced.applied + 1 .. Len(log)
    BY <1>3, <2>1, LogLength DEF IInv
  <2>3. I \in ssts
    BY <1>4, <2>2 DEF IInv, SstKept
  <2>4. panicked' = FALSE
    BY Zenon, <1>1, <2>3
  <2>5. answer = "None" => pc' = "idle"
    BY SMTT(60), <1>6
  <2>6. CASE answer = "None"
    BY SMTT(60), <1>2, <1>3, <1>7, <2>4, <2>6 DEF ApplyFiles
  <2>7. CASE answer # "None"
    BY <1>2, <1>3, <1>6, <1>7, <1>10, <2>4, <2>7 DEF ApplyFiles
  <2> QED
    BY Zenon, <2>6, <2>7
<1> QED
  BY <1>3, <1>8, <1>11, <1>12, <1>13 DEF ApplyStep

LEMMA ApplyIsApplyStep ==
  ASSUME IInv, Apply
  PROVE  ApplyStep
  BY ForwardedSteps, OnEmptyCmdStep, ExecCompactLogStep, ExecSplitStep,
     ExecRemoveSelfStep, ExecIngestSstStep DEF Apply
==============================================================================
