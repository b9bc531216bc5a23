-------------------------- MODULE ApplyPersistProofs --------------------------
(***************************************************************************)
(* ApplyPersist: every step keeps the inductive invariant; the theorems    *)
(* that follow, and that ApplyPersist implements LogReplica.               *)
(***************************************************************************)
EXTENDS ApplyPersistSteps

\* The invariant is preserved.

\* The initial states.
LEMMA InitIInv == Init => IInv
<1> SUFFICES ASSUME Init PROVE IInv
  OBVIOUS
<1> USE BoundsAssumption
<1>1. TypeOK
  <2>1. log \in Seq(Entries) /\ Len(log) = 0
    BY EmptySeq DEF Init
  <2>2. kv \in Meta /\ kv_synced \in Meta
    BY SMTT(40) DEF Init, NewMeta, Meta, Index
  <2>3. es \in Region /\ es_disk \in Region /\ mailbox \in Result
    BY DEF Init, NewRegion, Region, NoResult, Result, Index
  <2>4. /\ applied_index \in Index /\ truncated \in Index /\ version \in Index
        /\ meta_version \in Index /\ gc_task \in 0 .. MaxLog + 1
        /\ raft_first \in 1 .. MaxLog + 1 /\ crashes \in 0 .. MaxCrashes
        /\ Len(log) <= MaxLog
    BY <2>1 DEF Init, Index
  <2>5. /\ pending_remove \in BOOLEAN /\ has_pending_ssts \in BOOLEAN
        /\ pc \in {"idle", "write", "delete", "notify"}
        /\ wb \subseteq {"apply_state", "region_state"}
        /\ sync_log_hint \in BOOLEAN /\ ending \in BOOLEAN /\ timer \in BOOLEAN
        /\ compacted \in BOOLEAN /\ destroyed \in BOOLEAN /\ panicked \in BOOLEAN
        /\ ssts \subseteq Index /\ delete_ssts \subseteq Index
        /\ pending_delete_ssts \subseteq Index
    BY Zenon DEF Init
  <2> QED
    BY <2>1, <2>2, <2>3, <2>4, <2>5, Zenon DEF TypeOK
<1>2. Len(log) = 0 /\ 1 .. Len(log) = {}
  BY DEF Init
<1>3. LogOK
  BY <1>2 DEF LogOK
<1>9. kv = NewMeta /\ kv_synced = NewMeta /\ kv_synced.applied + 1 .. Len(log) = {}
  BY <1>2 DEF Init, NewMeta
<1>4. Order /\ Batch /\ Compaction /\ Files
  BY <1>2 DEF Init, Order, Batch, Compaction, Files, NewMeta, NewRegion, NoResult
<1>5. VersionAfter(log, 0) = 0 /\ DataAfter(log, 0) = {}
  BY SMTT(40) DEF VersionAfter, DataAfter
<1>6. Epochs
  BY SMTT(40), <1>5 DEF Init, Epochs, NewMeta, NoResult
<1>7. ExactlyOnce
  <2>1. es = NewRegion /\ es_disk = NewRegion
    BY DEF Init
  <2>2. NewRegion.applied = 0 /\ NewRegion.data = {} /\ NewRegion.version = 0
    BY DEF NewRegion
  <2> QED
    BY <1>5, <2>1, <2>2 DEF ExactlyOnce
<1>8. NoPanic
  BY Zenon DEF Init, NoPanic
<1>10. SstKept
  BY <1>9, Zenon DEF SstKept
<1> QED
  BY <1>1, <1>3, <1>4, <1>6, <1>7, <1>8, <1>10 DEF IInv

\* The numbers of a state, for the steps that need arithmetic.
LEMMA Numbers ==
  ASSUME TypeOK
  PROVE  /\ applied_index \in Nat /\ truncated \in Nat /\ version \in Nat
         /\ kv.applied \in Nat /\ kv.truncated \in Nat /\ kv.version \in Nat
         /\ kv_synced.applied \in Nat /\ kv_synced.truncated \in Nat
         /\ kv_synced.version \in Nat
         /\ es.applied \in Nat /\ es_disk.applied \in Nat
         /\ mailbox.compact_to \in Nat /\ mailbox.version \in Nat
         /\ meta_version \in Nat /\ gc_task \in Nat /\ raft_first \in Nat
         /\ Len(log) \in Nat /\ MaxLog \in Nat
<1>1. Index \subseteq Nat /\ MaxLog + 1 \in Nat
  BY LogLength DEF Index
<1>2. kv.applied \in Index /\ kv.truncated \in Index /\ kv.version \in Index
  BY DEF TypeOK, Meta
<1>3. kv_synced.applied \in Index /\ kv_synced.truncated \in Index
      /\ kv_synced.version \in Index
  BY DEF TypeOK, Meta
<1>4. es.applied \in Index /\ es_disk.applied \in Index
  BY DEF TypeOK, Region
<1>5. mailbox.compact_to \in 0 .. MaxLog + 1 /\ mailbox.version \in Index
  BY DEF TypeOK, Result
<1>6. /\ applied_index \in Index /\ truncated \in Index /\ version \in Index
      /\ meta_version \in Index /\ gc_task \in 0 .. MaxLog + 1
      /\ raft_first \in 1 .. MaxLog + 1
  BY DEF TypeOK
<1>7. /\ mailbox.compact_to \in Nat /\ gc_task \in Nat /\ raft_first \in Nat
  BY <1>1, <1>5, <1>6
<1> QED
  BY <1>1, <1>2, <1>3, <1>4, <1>5, <1>6, <1>7, LogLength, Zenon

LEMMA LeqPlusOne ==
  ASSUME NEW a \in Nat, NEW b \in Nat, NEW c \in Nat, a <= b + 1, b <= c
  PROVE  a <= c + 1
  OBVIOUS

\* The epochs in kv are those of a shorter prefix of the log.
LEMMA VersionsOrdered ==
  ASSUME IInv
  PROVE  kv_synced.version <= kv.version /\ kv.version <= version
<1>1. TypeOK /\ LogOK
  BY DEF IInv
<1>2. /\ applied_index \in 0 .. Len(log) /\ kv.applied \in 0 .. applied_index
      /\ kv.applied \in 0 .. Len(log) /\ kv_synced.applied \in 0 .. kv.applied
  BY SMTT(60), <1>1, Numbers DEF IInv, Order
<1> QED
  BY <1>1, <1>2, VersionMono DEF IInv, Epochs

\* A smaller range has fewer files to keep.
LEMMA SstKeptFewer ==
  ASSUME IInv, log' = log, ssts' = ssts, kv_synced.applied <= kv_synced'.applied,
         kv_synced'.applied \in Nat
  PROVE  SstKept'
<1>1. TypeOK
  BY DEF IInv
<1>2. \A i \in kv_synced'.applied + 1 .. Len(log) : i \in kv_synced.applied + 1 .. Len(log)
  BY SMTT(60), <1>1, Numbers
<1> QED
  BY <1>2 DEF IInv, SstKept

LEMMA EsFlushIInv ==
  ASSUME IInv, EsFlush
  PROVE  IInv'
<1>1. TypeOK'
  BY SMTT(40) DEF IInv, TypeOK, EsFlush, delegateVars, ctxVars, kvVars, esVars, sstVars, peerVars
<1>2. LogOK'
  BY Zenon DEF IInv, LogOK, EsFlush, delegateVars, ctxVars, kvVars, esVars, sstVars, peerVars
<1>3. Order'
  BY SMTT(60), Numbers DEF IInv, Order, EsFlush, delegateVars, ctxVars, kvVars, esVars, sstVars, peerVars
<1>4. Batch'
  BY DEF IInv, Batch, EsFlush, delegateVars, ctxVars, kvVars, esVars, sstVars, peerVars
<1>5. Compaction'
  BY Numbers DEF IInv, Compaction, EsFlush, delegateVars, ctxVars, kvVars, esVars, sstVars, peerVars
<1>6. Epochs'
  BY Zenon, Numbers DEF IInv, Epochs, EsFlush, delegateVars, ctxVars, kvVars, esVars, sstVars, peerVars
<1>7. Files'
  BY ZenonT(40), Numbers DEF IInv, Files, EsFlush, delegateVars, ctxVars, kvVars, esVars, sstVars, peerVars
<1>8. ExactlyOnce'
  BY DEF IInv, ExactlyOnce, EsFlush, delegateVars, ctxVars, kvVars, esVars, sstVars, peerVars
<1>9. SstKept'
  BY Zenon, Numbers DEF IInv, SstKept, EsFlush, delegateVars, ctxVars, kvVars, esVars, sstVars, peerVars
<1>10. NoPanic'
  BY DEF IInv, NoPanic, EsFlush, delegateVars, ctxVars, kvVars, esVars, sstVars, peerVars
<1> QED
  BY <1>1, <1>2, <1>3, <1>4, <1>5, <1>6, <1>7, <1>8, <1>9, <1>10 DEF IInv

LEMMA EndPollIInv ==
  ASSUME IInv, EndPoll
  PROVE  IInv'
<1>1. TypeOK'
  BY ZenonT(40) DEF IInv, TypeOK, EndPoll, delegateVars, ctxVars, kvVars, esVars, sstVars, peerVars
<1>2. LogOK'
  BY Zenon DEF IInv, LogOK, EndPoll, delegateVars, ctxVars, kvVars, esVars, sstVars, peerVars
<1>3. Order'
  BY Numbers DEF IInv, Order, EndPoll, delegateVars, ctxVars, kvVars, esVars, sstVars, peerVars
<1>4. Batch'
  BY Zenon DEF IInv, Batch, EndPoll, delegateVars, ctxVars, kvVars, esVars, sstVars, peerVars
<1>5. Compaction'
  BY Zenon, Numbers DEF IInv, Compaction, EndPoll, delegateVars, ctxVars, kvVars, esVars, sstVars, peerVars
<1>6. Epochs'
  BY Zenon, Numbers DEF IInv, Epochs, EndPoll, delegateVars, ctxVars, kvVars, esVars, sstVars, peerVars
<1>7. Files'
  BY Numbers DEF IInv, Files, EndPoll, delegateVars, ctxVars, kvVars, esVars, sstVars, peerVars
<1>8. ExactlyOnce'
  BY DEF IInv, ExactlyOnce, EndPoll, delegateVars, ctxVars, kvVars, esVars, sstVars, peerVars
<1>9. SstKept'
  BY Zenon, Numbers DEF IInv, SstKept, EndPoll, delegateVars, ctxVars, kvVars, esVars, sstVars, peerVars
<1>10. NoPanic'
  BY DEF IInv, NoPanic, EndPoll, delegateVars, ctxVars, kvVars, esVars, sstVars, peerVars
<1> QED
  BY <1>1, <1>2, <1>3, <1>4, <1>5, <1>6, <1>7, <1>8, <1>9, <1>10 DEF IInv

LEMMA WriteToDbIInv ==
  ASSUME IInv, WriteToDb
  PROVE  IInv'
<1>a. TypeOK /\ LogOK
  BY Zenon DEF IInv
<1>n. /\ applied_index \in Nat /\ truncated \in Nat /\ version \in Nat
      /\ kv.applied \in Nat /\ kv.truncated \in Nat /\ kv.version \in Nat
      /\ kv_synced.applied \in Nat /\ kv_synced.version \in Nat
      /\ kv_synced.truncated \in Nat
      /\ es.applied \in Nat /\ es_disk.applied \in Nat
      /\ mailbox.compact_to \in Nat /\ mailbox.version \in Nat
      /\ meta_version \in Nat /\ gc_task \in Nat /\ raft_first \in Nat
      /\ Len(log) \in Nat /\ MaxLog \in Nat
  BY Zenon, <1>a, Numbers
<1>b. /\ pc = "write" /\ wb' = {} /\ pc' = "delete" /\ kv' = Written
      /\ kv_synced' = IF wb # {} /\ sync_log_hint THEN Written ELSE kv_synced
      /\ UNCHANGED <<log, delegateVars, ending, timer, compacted, esVars, sstVars,
                     peerVars, panicked, crashes>>
  BY Zenon DEF WriteToDb
<1>c. Written \in Meta
  BY Zenon, <1>a DEF Written, TypeOK, Meta
<1>d. /\ Written.applied = IF "apply_state" \in wb THEN applied_index ELSE kv.applied
      /\ Written.truncated = IF "apply_state" \in wb THEN truncated ELSE kv.truncated
      /\ Written.version = IF "region_state" \in wb THEN version ELSE kv.version
  BY Zenon DEF Written
<1>e. Written.version = VersionAfter(log, Written.applied)
  BY Zenon, <1>d DEF IInv, Epochs
<1>f. /\ kv_synced.applied <= Written.applied /\ kv_synced.version <= Written.version
      /\ Written.applied <= applied_index /\ kv.applied <= Written.applied
      /\ Written.truncated <= Written.applied /\ Written.version = version
      /\ Written.applied \in Nat
  BY SMTT(60), <1>a, <1>d, <1>n, VersionsOrdered DEF IInv, Order, Epochs
<1>g. kv_synced' = Written \/ kv_synced' = kv_synced
  BY Zenon, <1>b
<1>h. kv_synced.applied <= kv_synced'.applied /\ kv_synced'.applied \in Nat
      /\ kv_synced.version <= kv_synced'.version
  BY SMTT(60), <1>a, <1>f, <1>g, <1>n
<1>1. TypeOK'
  <2>1. kv' \in Meta /\ kv_synced' \in Meta
    BY <1>a, <1>b, <1>c, <1>g DEF TypeOK
  <2>2. sync_log_hint' \in BOOLEAN
    BY ZenonT(40) DEF WriteToDb
  <2> QED
    BY <1>a, <1>b, <2>1, <2>2 DEF TypeOK, delegateVars, esVars, sstVars, peerVars
<1>2. LogOK'
  BY ZenonT(40) DEF IInv, LogOK, WriteToDb, delegateVars, ctxVars, kvVars, esVars, sstVars, peerVars
<1>3. Order'
  <2>1. /\ kv'.applied <= applied_index /\ kv_synced'.applied <= kv'.applied
        /\ kv'.truncated <= kv'.applied
    BY SMTT(60), <1>a, <1>b, <1>f, <1>g, <1>n DEF IInv, Order
  <2>2. kv_synced'.truncated <= kv_synced'.applied
    BY <1>b, <1>f, <1>g DEF IInv, Order
  <2>3. es_disk.exists => kv'.applied <= es_disk.applied
    BY Zenon, <1>b, <1>d DEF IInv, Order
  <2> QED
    BY Zenon, <1>b, <2>1, <2>2, <2>3 DEF IInv, Order, delegateVars, esVars
<1>4. Batch'
  BY DEF IInv, Batch, WriteToDb, delegateVars, ctxVars, kvVars, esVars, sstVars, peerVars
<1>5. Compaction'
  <2>1. compacted => truncated <= kv'.applied
    BY Zenon, <1>a, <1>b, <1>d, <1>n DEF IInv, Compaction, Order
  <2>0. /\ mailbox.compact_to <= kv.applied + 1 /\ gc_task <= kv.applied + 1
        /\ raft_first <= kv_synced.applied + 1
    BY Zenon DEF IInv, Compaction
  <2>2. mailbox.compact_to <= kv'.applied + 1 /\ gc_task <= kv'.applied + 1
    BY Zenon, <1>b, <1>f, <1>n, <2>0, LeqPlusOne
  <2>3. raft_first <= kv_synced'.applied + 1
    BY ZenonT(40), <1>h, <1>n, <2>0, LeqPlusOne
  <2> QED
    BY Zenon, <1>b, <2>1, <2>2, <2>3 DEF Compaction, delegateVars, peerVars
<1>6. Epochs'
  <2>1. version = VersionAfter(log, applied_index) /\ kv'.version = VersionAfter(log, kv'.applied)
    BY ZenonT(40), <1>b, <1>e DEF IInv, Epochs
  <2>2. kv_synced'.version = VersionAfter(log, kv_synced'.applied)
    BY Zenon, <1>e, <1>g DEF IInv, Epochs
  <2>3. version = kv'.version
    BY Zenon, <1>b, <1>f
  <2>4. version <= kv_synced'.version
    <3>1. CASE "region_state" \in wb /\ sync_log_hint
      BY SMTT(60), <1>a, <1>b, <1>f, <3>1, <1>n
    <3>2. CASE version <= kv_synced.version
      BY SMTT(40), <1>a, <1>f, <1>g, <3>2, <1>n
    <3> QED
      BY Zenon, <3>1, <3>2 DEF IInv, Epochs
  <2>5. kv_synced'.version \in Nat
    BY Zenon, <1>a, <1>f, <1>g, <1>n
  <2>6. meta_version <= kv_synced'.version
        /\ (mailbox.full => mailbox.version <= kv_synced'.version)
    BY SMTT(60), <1>a, <1>h, <2>5, <1>n DEF IInv, Epochs
  <2> QED
    BY <1>b, <2>1, <2>2, <2>3, <2>4, <2>6 DEF Epochs, delegateVars, peerVars
<1>7. Files'
  <2>1. delete_ssts # {} => kv_synced'.applied = applied_index
    BY <1>b, <1>d DEF IInv, Files
  <2>2. \A i \in delete_ssts : i <= kv_synced'.applied
    BY <2>1 DEF IInv, Files
  <2>3. \A i \in pending_delete_ssts \cup delete_ssts : i <= applied_index
    BY Zenon DEF IInv, Files
  <2> QED
    BY <1>b, <2>2, <2>3 DEF Files, delegateVars, sstVars
<1>8. ExactlyOnce'
  BY DEF IInv, ExactlyOnce, WriteToDb, delegateVars, ctxVars, kvVars, esVars, sstVars, peerVars
<1>9. SstKept'
  BY Zenon, <1>b, <1>h, SstKeptFewer DEF sstVars
<1>10. NoPanic'
  BY Zenon DEF IInv, NoPanic, WriteToDb, delegateVars, ctxVars, kvVars, esVars, sstVars, peerVars
<1> QED
  BY SMTT(60), <1>1, <1>2, <1>3, <1>4, <1>5, <1>6, <1>7, <1>8, <1>9, <1>10 DEF IInv

LEMMA DeleteSstsIInv ==
  ASSUME IInv, DeleteSsts
  PROVE  IInv'
<1>a. TypeOK
  BY DEF IInv
<1>n. /\ applied_index \in Nat /\ truncated \in Nat /\ version \in Nat
      /\ kv.applied \in Nat /\ kv.truncated \in Nat /\ kv.version \in Nat
      /\ kv_synced.applied \in Nat /\ kv_synced.version \in Nat
      /\ kv_synced.truncated \in Nat
      /\ es.applied \in Nat /\ es_disk.applied \in Nat
      /\ mailbox.compact_to \in Nat /\ mailbox.version \in Nat
      /\ meta_version \in Nat /\ gc_task \in Nat /\ raft_first \in Nat
      /\ Len(log) \in Nat /\ MaxLog \in Nat
  BY <1>a, Numbers
<1>b. pc = "delete" /\ ssts' = ssts \ delete_ssts /\ UNCHANGED <<log, kv_synced>>
  BY Zenon DEF DeleteSsts, kvVars
<1>1. TypeOK'
  BY ZenonT(40) DEF IInv, TypeOK, DeleteSsts, delegateVars, ctxVars, kvVars, esVars, sstVars, peerVars
<1>2. LogOK'
  BY Zenon DEF IInv, LogOK, DeleteSsts, delegateVars, ctxVars, kvVars, esVars, sstVars, peerVars
<1>3. Order'
  BY Zenon, Numbers DEF IInv, Order, DeleteSsts, delegateVars, ctxVars, kvVars, esVars, sstVars, peerVars
<1>4. Batch'
  BY Zenon DEF IInv, Batch, DeleteSsts, delegateVars, ctxVars, kvVars, esVars, sstVars, peerVars
<1>5. Compaction'
  BY Zenon, Numbers DEF IInv, Compaction, DeleteSsts, delegateVars, ctxVars, kvVars, esVars, sstVars, peerVars
<1>6. Epochs'
  BY Zenon, Numbers DEF IInv, Epochs, DeleteSsts, delegateVars, ctxVars, kvVars, esVars, sstVars, peerVars
<1>7. Files'
  BY Numbers DEF IInv, Files, DeleteSsts, delegateVars, ctxVars, kvVars, esVars, sstVars, peerVars
<1>8. ExactlyOnce'
  BY DEF IInv, ExactlyOnce, DeleteSsts, delegateVars, ctxVars, kvVars, esVars, sstVars, peerVars
<1>9. SstKept'
  <2>2. \A i \in delete_ssts : i <= kv_synced.applied /\ i \in Nat
    BY SMTT(40), <1>a, <1>b, <1>n DEF IInv, Files, TypeOK, Index
  <2>3. \A i \in kv_synced.applied + 1 .. Len(log) : i \notin delete_ssts
    BY SMTT(40), <2>2, <1>n
  <2> QED
    BY Zenon, <1>b, <2>3 DEF IInv, SstKept
<1>10. NoPanic'
  BY DEF IInv, NoPanic, DeleteSsts, delegateVars, ctxVars, kvVars, esVars, sstVars, peerVars
<1> QED
  BY Zenon, <1>1, <1>2, <1>3, <1>4, <1>5, <1>6, <1>7, <1>8, <1>9, <1>10 DEF IInv

LEMMA NotifyIInv ==
  ASSUME IInv, Notify
  PROVE  IInv'
<1>a. TypeOK /\ pc = "notify" /\ wb = {}
  BY Zenon DEF IInv, Notify, Batch
<1>n. /\ applied_index \in Nat /\ truncated \in Nat /\ version \in Nat
      /\ kv.applied \in Nat /\ kv.truncated \in Nat /\ kv.version \in Nat
      /\ kv_synced.applied \in Nat /\ kv_synced.version \in Nat
      /\ kv_synced.truncated \in Nat
      /\ es.applied \in Nat /\ es_disk.applied \in Nat
      /\ mailbox.compact_to \in Nat /\ mailbox.version \in Nat
      /\ meta_version \in Nat /\ gc_task \in Nat /\ raft_first \in Nat
      /\ Len(log) \in Nat /\ MaxLog \in Nat
  BY Zenon, <1>a, Numbers
<1>b. UNCHANGED <<log, delegateVars, wb, sync_log_hint, timer, kvVars, esVars,
                  sstVars, meta_version, destroyed, gc_task, raft_first, panicked,
                  crashes>>
  BY Zenon DEF Notify
<1>c. /\ mailbox'.version = version /\ mailbox'.removed = pending_remove
      /\ mailbox'.compact_to = IF compacted THEN truncated + 1 ELSE mailbox.compact_to
      /\ mailbox'.full = TRUE
      /\ compacted' = FALSE /\ ending' = FALSE /\ pc' = "idle"
  BY Zenon DEF Notify
<1>1. TypeOK'
  <2>1. (IF compacted THEN truncated + 1 ELSE mailbox.compact_to) \in 0 .. MaxLog + 1
    BY SMTT(60), <1>a, <1>n DEF TypeOK, Index, Result
  <2>2. mailbox' \in Result
    BY Zenon, <1>a, <2>1 DEF Notify, TypeOK, Result
  <2> QED
    BY ZenonT(40), <1>a, <1>b, <1>c, <2>2 DEF TypeOK, delegateVars, kvVars, esVars, sstVars
<1>2. LogOK'
  BY ZenonT(40) DEF IInv, LogOK, Notify, delegateVars, ctxVars, kvVars, esVars, sstVars, peerVars
<1>3. Order'
  BY ZenonT(40), Numbers DEF IInv, Order, Notify, delegateVars, ctxVars, kvVars, esVars, sstVars, peerVars
<1>4. Batch'
  BY Zenon DEF IInv, Batch, Notify, delegateVars, ctxVars, kvVars, esVars, sstVars, peerVars
<1>5. Compaction'
  <2>1. mailbox'.compact_to <= kv.applied + 1
    BY SMTT(60), <1>a, <1>c, <1>n DEF IInv, Compaction
  <2> QED
    BY Zenon, <1>b, <1>c, <2>1 DEF IInv, Compaction, kvVars
<1>6. Epochs'
  <2>1. mailbox'.version <= kv_synced.version
    BY ZenonT(40), <1>a, <1>c DEF IInv, Epochs
  <2> QED
    BY Zenon, <1>b, <1>c, <2>1 DEF IInv, Epochs, kvVars, delegateVars
<1>7. Files'
  BY Zenon, Numbers DEF IInv, Files, Notify, delegateVars, ctxVars, kvVars, esVars, sstVars, peerVars
<1>8. ExactlyOnce'
  BY Zenon DEF IInv, ExactlyOnce, Notify, delegateVars, ctxVars, kvVars, esVars, sstVars, peerVars
<1>9. SstKept'
  BY ZenonT(40), Numbers DEF IInv, SstKept, Notify, delegateVars, ctxVars, kvVars, esVars, sstVars, peerVars
<1>10. NoPanic'
  BY Zenon DEF IInv, NoPanic, Notify, delegateVars, ctxVars, kvVars, esVars, sstVars, peerVars
<1> QED
  BY Zenon, <1>1, <1>2, <1>3, <1>4, <1>5, <1>6, <1>7, <1>8, <1>9, <1>10 DEF IInv

LEMMA OnApplyResIInv ==
  ASSUME IInv, OnApplyRes
  PROVE  IInv'
<1>a. TypeOK /\ mailbox.full /\ mailbox' = NoResult
  BY Zenon DEF IInv, OnApplyRes
<1>n. /\ applied_index \in Nat /\ truncated \in Nat /\ version \in Nat
      /\ kv.applied \in Nat /\ kv.truncated \in Nat /\ kv.version \in Nat
      /\ kv_synced.applied \in Nat /\ kv_synced.version \in Nat
      /\ kv_synced.truncated \in Nat
      /\ es.applied \in Nat /\ es_disk.applied \in Nat
      /\ mailbox.compact_to \in Nat /\ mailbox.version \in Nat
      /\ meta_version \in Nat /\ gc_task \in Nat /\ raft_first \in Nat
      /\ Len(log) \in Nat /\ MaxLog \in Nat
  BY <1>a, Numbers
<1>b. UNCHANGED <<log, delegateVars, ctxVars, kvVars, sstVars, raft_first,
                  panicked, crashes>>
  BY Zenon DEF OnApplyRes
<1>c. /\ NoResult.compact_to = 0 /\ NoResult.version = 0 /\ NoResult.full = FALSE
      /\ NoResult.removed = FALSE
  BY DEF NoResult
<1>d. /\ es' = [es EXCEPT !.exists = es.exists /\ ~mailbox.removed]
      /\ es_disk' = [es_disk EXCEPT !.exists = es_disk.exists /\ ~mailbox.removed]
  BY DEF OnApplyRes
<1>e. /\ es'.applied = es.applied /\ es'.data = es.data /\ es'.version = es.version
      /\ es_disk'.applied = es_disk.applied /\ es_disk'.data = es_disk.data
      /\ es_disk'.version = es_disk.version
  BY <1>a, <1>d DEF TypeOK, Region
<1>f. /\ es'.exists <=> es.exists /\ ~mailbox.removed
      /\ es_disk'.exists <=> es_disk.exists /\ ~mailbox.removed
  BY Zenon, <1>a, <1>d DEF TypeOK, Region
<1>g. meta_version' = mailbox.version
      /\ gc_task' = (IF mailbox.compact_to # 0 THEN mailbox.compact_to ELSE gc_task)
      /\ destroyed' = mailbox.removed
  BY DEF OnApplyRes
<1>1. TypeOK'
  <2>1. es' \in Region /\ es_disk' \in Region
    BY Zenon, <1>a, <1>d DEF TypeOK, Region
  <2>2. NoResult \in Result
    BY <1>a, <1>n DEF NoResult, Result, Index
  <2>3. meta_version' \in Index /\ gc_task' \in 0 .. MaxLog + 1 /\ destroyed' \in BOOLEAN
    BY <1>a, <1>g DEF TypeOK, Result
  <2> QED
    BY SMTT(60), <1>a, <1>b, <2>1, <2>2, <2>3
    DEF TypeOK, delegateVars, ctxVars, kvVars, sstVars
<1>2. LogOK'
  BY Zenon DEF IInv, LogOK, OnApplyRes, delegateVars, ctxVars, kvVars, esVars, sstVars, peerVars
<1>3. Order'
  BY Zenon, <1>b, <1>e, <1>f DEF IInv, Order, delegateVars, ctxVars, kvVars
<1>4. Batch'
  BY Zenon DEF IInv, Batch, OnApplyRes, delegateVars, ctxVars, kvVars, esVars, sstVars, peerVars
<1>5. Compaction'
  <2>1. gc_task' <= kv.applied + 1 /\ 0 <= kv.applied + 1
    BY SMTT(60), <1>a, <1>g, <1>n DEF IInv, Compaction
  <2> QED
    BY Zenon, <1>a, <1>b, <1>c, <2>1 DEF IInv, Compaction, delegateVars, ctxVars, kvVars
<1>6. Epochs'
  <2>1. meta_version' <= kv_synced.version
    BY Zenon, <1>a, <1>g DEF IInv, Epochs
  <2> QED
    BY Zenon, <1>a, <1>b, <1>c, <2>1 DEF IInv, Epochs, delegateVars, ctxVars, kvVars
<1>7. Files'
  BY Zenon, Numbers DEF IInv, Files, OnApplyRes, delegateVars, ctxVars, kvVars, esVars, sstVars, peerVars
<1>8. ExactlyOnce'
  BY ZenonT(40), <1>b, <1>e, <1>f DEF IInv, ExactlyOnce
<1>9. SstKept'
  BY ZenonT(40), Numbers DEF IInv, SstKept, OnApplyRes, delegateVars, ctxVars, kvVars, esVars, sstVars, peerVars
<1>10. NoPanic'
  BY DEF IInv, NoPanic, OnApplyRes, delegateVars, ctxVars, kvVars, esVars, sstVars, peerVars
<1> QED
  BY Zenon, <1>1, <1>2, <1>3, <1>4, <1>5, <1>6, <1>7, <1>8, <1>9, <1>10 DEF IInv

LEMMA RaftLogGcIInv ==
  ASSUME IInv, RaftLogGc
  PROVE  IInv'
<1>a. TypeOK
  BY Zenon DEF IInv
<1>n. /\ applied_index \in Nat /\ truncated \in Nat /\ version \in Nat
      /\ kv.applied \in Nat /\ kv.truncated \in Nat /\ kv.version \in Nat
      /\ kv_synced.applied \in Nat /\ kv_synced.version \in Nat
      /\ kv_synced.truncated \in Nat
      /\ es.applied \in Nat /\ es_disk.applied \in Nat
      /\ mailbox.compact_to \in Nat /\ mailbox.version \in Nat
      /\ meta_version \in Nat /\ gc_task \in Nat /\ raft_first \in Nat
      /\ Len(log) \in Nat /\ MaxLog \in Nat
  BY Zenon, <1>a, Numbers
<1>b. /\ kv_synced' = kv /\ gc_task' = 0
      /\ raft_first' = (IF gc_task > raft_first THEN gc_task ELSE raft_first)
      /\ UNCHANGED <<log, delegateVars, ctxVars, kv, esVars, sstVars, mailbox,
                     meta_version, destroyed, panicked, crashes>>
  BY Zenon DEF RaftLogGc
<1>c. kv_synced.applied <= kv.applied /\ kv_synced.version <= kv.version
  BY Zenon, VersionsOrdered DEF IInv, Order
<1>1. TypeOK'
  <2>1. raft_first' \in 1 .. MaxLog + 1 /\ gc_task' \in 0 .. MaxLog + 1
    BY SMTT(60), <1>a, <1>b, <1>n DEF TypeOK
  <2> QED
    BY SMTT(60), <1>a, <1>b, <2>1 DEF TypeOK, delegateVars, ctxVars, esVars, sstVars
<1>2. LogOK'
  BY Zenon DEF IInv, LogOK, RaftLogGc, delegateVars, ctxVars, kvVars, esVars, sstVars, peerVars
<1>3. Order'
  BY SMTT(60), Numbers DEF IInv, Order, RaftLogGc, delegateVars, ctxVars, kvVars, esVars, sstVars, peerVars
<1>4. Batch'
  BY ZenonT(40) DEF IInv, Batch, RaftLogGc, delegateVars, ctxVars, kvVars, esVars, sstVars, peerVars
<1>5. Compaction'
  <2>1. raft_first' <= kv.applied + 1 /\ 0 <= kv.applied + 1
    BY SMTT(60), <1>a, <1>b, <1>c, <1>n DEF IInv, Compaction
  <2> QED
    BY Zenon, <1>b, <2>1 DEF IInv, Compaction, delegateVars, ctxVars
<1>6. Epochs'
  <2>1. version <= kv.version \/ ("region_state" \in wb /\ sync_log_hint)
    BY SMTT(40), <1>a, <1>c, <1>n DEF IInv, Epochs
  <2>2. meta_version <= kv.version /\ (mailbox.full => mailbox.version <= kv.version)
    BY SMTT(40), <1>a, <1>c, <1>n DEF IInv, Epochs
  <2> QED
    BY Zenon, <1>b, <2>1, <2>2 DEF IInv, Epochs, delegateVars, ctxVars
<1>7. Files'
  <2>1. \A i \in delete_ssts : i \in Nat
    BY SMTT(60), <1>a, <1>n DEF TypeOK, Index
  <2>2. pc = "delete" => \A i \in delete_ssts : i <= kv.applied
    BY SMTT(60), <1>a, <1>c, <2>1, <1>n DEF IInv, Files
  <2> QED
    BY Zenon, <1>b, <2>2 DEF IInv, Files, delegateVars, ctxVars, sstVars
<1>8. ExactlyOnce'
  BY Zenon DEF IInv, ExactlyOnce, RaftLogGc, delegateVars, ctxVars, kvVars, esVars, sstVars, peerVars
<1>9. SstKept'
  BY Zenon, <1>a, <1>b, <1>c, <1>n, SstKeptFewer DEF sstVars
<1>10. NoPanic'
  BY Zenon DEF IInv, NoPanic, RaftLogGc, delegateVars, ctxVars, kvVars, esVars, sstVars, peerVars
<1> QED
  BY SMTT(60), <1>1, <1>2, <1>3, <1>4, <1>5, <1>6, <1>7, <1>8, <1>9, <1>10 DEF IInv

LEMMA CleanupImportSstIInv ==
  ASSUME IInv, CleanupImportSst
  PROVE  IInv'
<1>a. TypeOK /\ LogOK
  BY Zenon DEF IInv
<1>n. /\ applied_index \in Nat /\ truncated \in Nat /\ version \in Nat
      /\ kv.applied \in Nat /\ kv.truncated \in Nat /\ kv.version \in Nat
      /\ kv_synced.applied \in Nat /\ kv_synced.version \in Nat
      /\ kv_synced.truncated \in Nat
      /\ es.applied \in Nat /\ es_disk.applied \in Nat
      /\ mailbox.compact_to \in Nat /\ mailbox.version \in Nat
      /\ meta_version \in Nat /\ gc_task \in Nat /\ raft_first \in Nat
      /\ Len(log) \in Nat /\ MaxLog \in Nat
  BY Zenon, <1>a, Numbers
<1>b. UNCHANGED <<log, kv_synced>>
  BY Zenon DEF CleanupImportSst, kvVars
<1>1. TypeOK'
  BY ZenonT(40) DEF IInv, TypeOK, CleanupImportSst, delegateVars, ctxVars, kvVars, esVars, sstVars, peerVars
<1>2. LogOK'
  BY ZenonT(40) DEF IInv, LogOK, CleanupImportSst, delegateVars, ctxVars, kvVars, esVars, sstVars, peerVars
<1>3. Order'
  BY ZenonT(40), Numbers DEF IInv, Order, CleanupImportSst, delegateVars, ctxVars, kvVars, esVars, sstVars, peerVars
<1>4. Batch'
  BY ZenonT(40) DEF IInv, Batch, CleanupImportSst, delegateVars, ctxVars, kvVars, esVars, sstVars, peerVars
<1>5. Compaction'
  BY ZenonT(40), Numbers DEF IInv, Compaction, CleanupImportSst, delegateVars, ctxVars, kvVars, esVars, sstVars, peerVars
<1>6. Epochs'
  BY ZenonT(40), Numbers DEF IInv, Epochs, CleanupImportSst, delegateVars, ctxVars, kvVars, esVars, sstVars, peerVars
<1>7. Files'
  BY ZenonT(40), Numbers DEF IInv, Files, CleanupImportSst, delegateVars, ctxVars, kvVars, esVars, sstVars, peerVars
<1>8. ExactlyOnce'
  BY ZenonT(40) DEF IInv, ExactlyOnce, CleanupImportSst, delegateVars, ctxVars, kvVars, esVars, sstVars, peerVars
<1>9. SstKept'
  <2>2. PICK i \in ssts : log[i].epoch < meta_version /\ ssts' = ssts \ {i}
    BY ZenonT(40) DEF CleanupImportSst
  <2>3. ASSUME i \in kv_synced.applied + 1 .. Len(log), Accepted(log[i])
        PROVE  FALSE
    <3>1. i \in 1 .. Len(log) /\ kv_synced.applied \in 0 .. i - 1
      BY SMTT(40), <2>3, <1>n
    <3>2. VersionAfter(log, kv_synced.applied) <= log[i].version
      BY Zenon, <1>a, <3>1 DEF LogOK
    <3>3. meta_version <= kv_synced.version
          /\ kv_synced.version = VersionAfter(log, kv_synced.applied)
      BY Zenon DEF IInv, Epochs
    <3>4. log[i].version \in Index /\ log[i].version = log[i].epoch
      BY Zenon, <1>a, <2>3, <3>1, EntryType DEF Accepted
    <3>5. log[i].version \in Nat
      BY SMTT(60), <3>4, <1>n DEF Index
    <3> QED
      BY SMTT(60), <2>2, <3>2, <3>3, <3>4, <3>5, <1>n
  <2> QED
    BY Zenon, <1>b, <2>2, <2>3 DEF IInv, SstKept
<1>10. NoPanic'
  BY ZenonT(40) DEF IInv, NoPanic, CleanupImportSst, delegateVars, ctxVars, kvVars, esVars, sstVars, peerVars
<1> QED
  BY Zenon, <1>1, <1>2, <1>3, <1>4, <1>5, <1>6, <1>7, <1>8, <1>9, <1>10 DEF IInv

LEMMA RestartIInv ==
  ASSUME IInv, Restart
  PROVE  IInv'
<1>a. TypeOK
  BY Zenon DEF IInv
<1>n. /\ applied_index \in Nat /\ truncated \in Nat /\ version \in Nat
      /\ kv.applied \in Nat /\ kv.truncated \in Nat /\ kv.version \in Nat
      /\ kv_synced.applied \in Nat /\ kv_synced.version \in Nat
      /\ kv_synced.truncated \in Nat
      /\ es.applied \in Nat /\ es_disk.applied \in Nat
      /\ mailbox.compact_to \in Nat /\ mailbox.version \in Nat
      /\ meta_version \in Nat /\ gc_task \in Nat /\ raft_first \in Nat
      /\ Len(log) \in Nat /\ MaxLog \in Nat
  BY Zenon, <1>a, Numbers
<1>b. (kv' = kv \/ kv' = kv_synced) /\ kv_synced' = kv'
  BY Zenon DEF Restart
<1>c. /\ applied_index' = kv'.applied /\ truncated' = kv'.truncated /\ version' = kv'.version
      /\ es' = es_disk /\ mailbox' = NoResult /\ meta_version' = kv'.version /\ gc_task' = 0
      /\ pc' = "idle" /\ wb' = {} /\ compacted' = FALSE
      /\ delete_ssts' = {} /\ pending_delete_ssts' = {}
      /\ UNCHANGED <<log, es_disk, ssts, raft_first, panicked>>
  BY Zenon DEF Restart
<1>d. /\ NoResult.compact_to = 0 /\ NoResult.version = 0 /\ NoResult.full = FALSE
      /\ NoResult.removed = FALSE
  BY Zenon DEF NoResult
<1>e. /\ kv'.applied \in Nat /\ kv'.truncated \in Nat /\ kv'.version \in Nat
      /\ kv_synced.applied <= kv'.applied /\ kv'.applied <= kv.applied
      /\ kv'.truncated <= kv'.applied /\ kv'.version = VersionAfter(log, kv'.applied)
  BY SMTT(60), <1>a, <1>b, <1>n DEF IInv, Order, Epochs
<1>1. TypeOK'
  <2>1. kv' \in Meta /\ kv_synced' \in Meta
    BY Zenon, <1>a, <1>b DEF TypeOK
  <2>2. /\ applied_index' \in Index /\ truncated' \in Index /\ version' \in Index
        /\ meta_version' \in Index
    BY Zenon, <1>c, <2>1 DEF Meta
  <2>3. pending_remove' \in BOOLEAN /\ destroyed' \in BOOLEAN
    BY Zenon, <2>1 DEF Restart, Meta
  <2>4. NoResult \in Result
    BY <1>a, <1>n DEF NoResult, Result, Index
  <2>5. /\ has_pending_ssts' \in BOOLEAN /\ sync_log_hint' \in BOOLEAN
        /\ ending' \in BOOLEAN /\ timer' \in BOOLEAN /\ compacted' \in BOOLEAN
    BY ZenonT(40) DEF Restart
  <2>6. crashes' \in 0 .. MaxCrashes /\ gc_task' \in 0 .. MaxLog + 1
    BY SMTT(40), <1>a, <1>n, BoundsAssumption DEF Restart, TypeOK
  <2> QED
    BY ZenonT(40), <1>a, <1>c, <2>1, <2>2, <2>3, <2>4, <2>5, <2>6 DEF TypeOK
<1>2. LogOK'
  BY Zenon DEF IInv, LogOK, Restart, delegateVars, ctxVars, kvVars, esVars, sstVars, peerVars
<1>3. Order'
  <2>1. es_disk.exists => kv'.applied <= es_disk.applied
    BY SMTT(60), <1>a, <1>e, <1>n DEF IInv, Order
  <2>2. kv'.applied <= Len(log)
    BY SMTT(60), <1>a, <1>e, <1>n DEF IInv, Order
  <2> QED
    BY ZenonT(40), <1>b, <1>c, <1>e, <2>1, <2>2 DEF IInv, Order
<1>4. Batch'
  BY Zenon DEF IInv, Batch, Restart, delegateVars, ctxVars, kvVars, esVars, sstVars, peerVars
<1>5. Compaction'
  <2>0. raft_first <= kv_synced.applied + 1
    BY Zenon DEF IInv, Compaction
  <2>1. raft_first <= kv'.applied + 1
    BY ZenonT(40), <1>e, <1>n, <2>0, LeqPlusOne
  <2>2. 0 <= kv'.applied + 1
    BY <1>e
  <2> QED
    BY Zenon, <1>b, <1>c, <1>d, <2>1, <2>2 DEF Compaction
<1>6. Epochs'
  BY SMTT(40), <1>b, <1>c, <1>d, <1>e DEF Epochs
<1>7. Files'
  BY ZenonT(40), Numbers DEF IInv, Files, Restart, delegateVars, ctxVars, kvVars, esVars, sstVars, peerVars
<1>8. ExactlyOnce'
  BY ZenonT(40) DEF IInv, ExactlyOnce, Restart, delegateVars, ctxVars, kvVars, esVars, sstVars, peerVars
<1>9. SstKept'
  BY Zenon, <1>b, <1>c, <1>e, SstKeptFewer
<1>10. NoPanic'
  BY Zenon DEF IInv, NoPanic, Restart, delegateVars, ctxVars, kvVars, esVars, sstVars, peerVars
<1> QED
  BY Zenon, <1>1, <1>2, <1>3, <1>4, <1>5, <1>6, <1>7, <1>8, <1>9, <1>10 DEF IInv

LEMMA ProposeIInv ==
  ASSUME IInv, Propose
  PROVE  IInv'
<1>a. TypeOK /\ LogOK
  BY Zenon DEF IInv
<1>b. UNCHANGED <<applied_index, truncated, version, pending_remove,
                  has_pending_ssts, pc, wb, sync_log_hint, ending, timer, compacted,
                  kv, kv_synced, es, es_disk, delete_ssts, pending_delete_ssts,
                  mailbox, meta_version, destroyed, gc_task, raft_first, panicked,
                  crashes>>
  BY ZenonT(40) DEF Propose, delegateVars, ctxVars, kvVars, esVars, peerVars
<1>c. ssts' = ssts \/ ssts' = ssts \cup {Len(log) + 1}
  BY ZenonT(40) DEF Propose
<1>d. /\ Len(log') = Len(log) + 1 /\ Len(log') <= MaxLog /\ log' \in Seq(Entries)
      /\ \A i \in 1 .. Len(log) : log'[i] = log[i]
      /\ \A n \in 0 .. Len(log) : /\ VersionAfter(log', n) = VersionAfter(log, n)
                                  /\ DataAfter(log', n) = DataAfter(log, n)
      /\ log'[Len(log) + 1].type = "IngestSst" => Len(log) + 1 \in ssts'
  BY ZenonT(40), <1>a, ProposeLog
<1>n. /\ Len(log) \in Nat /\ MaxLog \in Nat /\ applied_index \in Nat
      /\ kv.applied \in Nat /\ kv_synced.applied \in Nat /\ es.applied \in Nat
      /\ es_disk.applied \in Nat
  BY Zenon, <1>a, Numbers
<1>1. TypeOK'
  <2>1. ssts \subseteq Index /\ Len(log) + 1 \in Index
    BY SMTT(40), <1>a, <1>d, <1>n DEF TypeOK, Index
  <2>2. ssts' \subseteq Index
    BY <1>c, <2>1
  <2> QED
    BY SMTT(60), <1>a, <1>b, <1>d, <2>2 DEF TypeOK
<1>2. LogOK'
  BY <1>a, ProposeKeepsLogOK
<1>o. /\ applied_index \in 0 .. Len(log) /\ kv.applied \in 0 .. Len(log)
      /\ kv_synced.applied \in 0 .. Len(log) /\ es.applied \in 0 .. Len(log)
      /\ es_disk.applied \in 0 .. Len(log)
  BY SMTT(40), <1>n DEF IInv, Order
<1>3. Order'
  <2>1. applied_index <= Len(log') /\ es.applied <= Len(log') /\ es_disk.applied <= Len(log')
    BY SMTT(40), <1>d, <1>n, <1>o
  <2> QED
    BY ZenonT(40), <1>b, <2>1 DEF IInv, Order
<1>4. Batch'
  BY Zenon, <1>b DEF IInv, Batch
<1>5. Compaction'
  BY Zenon, <1>b DEF IInv, Compaction
<1>6. Epochs'
  BY ZenonT(40), <1>b, <1>d, <1>o DEF IInv, Epochs
<1>7. Files'
  BY ZenonT(40), <1>b DEF IInv, Files
<1>8. ExactlyOnce'
  BY ZenonT(40), <1>b, <1>d, <1>o DEF IInv, ExactlyOnce
<1>9. SstKept'
  <2> SUFFICES ASSUME NEW i \in kv_synced.applied + 1 .. Len(log'),
                      log'[i].type = "IngestSst", Accepted(log'[i])
               PROVE  i \in ssts'
    BY ZenonT(40), <1>b DEF SstKept
  <2>1. CASE i = Len(log) + 1
    BY ZenonT(40), <1>d, <2>1
  <2>2. CASE i # Len(log) + 1
    <3>1. i \in kv_synced.applied + 1 .. Len(log) /\ i \in 1 .. Len(log)
      BY SMTT(40), <1>d, <1>n, <2>2
    <3>2. i \in ssts
      BY ZenonT(40), <1>d, <3>1 DEF IInv, SstKept
    <3> QED
      BY Zenon, <1>c, <3>2
  <2> QED
    BY Zenon, <2>1, <2>2
<1>10. NoPanic'
  BY Zenon, <1>b DEF IInv, NoPanic
<1> QED
  BY Zenon, <1>1, <1>2, <1>3, <1>4, <1>5, <1>6, <1>7, <1>8, <1>9, <1>10 DEF IInv

\* The engine-store after an apply step: how far it is, and what it has.
LEMMA ApplyEsFacts ==
  ASSUME IInv, ApplyStep
  PROVE  /\ es' \in Region /\ es_disk' \in Region
         /\ es'.applied <= Len(log) /\ es_disk'.applied <= Len(log)
         /\ es'.exists => es_disk'.exists /\ I <= es'.applied
         /\ es_disk'.exists => es'.exists \/ pending_remove'
         /\ es_disk'.exists => kv.applied <= es_disk'.applied
         /\ es_disk'.exists /\ pc' = "write" => I <= es_disk'.applied
         /\ \A r \in {es', es_disk'} :
              r.exists => /\ r.data = DataAfter(log, r.applied)
                          /\ r.version = VersionAfter(log, r.applied)
<1>a. TypeOK /\ LogOK /\ I \in 1 .. Len(log) /\ ~pending_remove
      /\ es \in Region /\ es_disk \in Region
  BY ZenonT(40) DEF IInv, ApplyStep, ApplyStart, TypeOK
<1>n. /\ Len(log) \in Nat /\ MaxLog \in Nat /\ applied_index \in Nat
      /\ kv.applied \in Nat /\ es.applied \in Nat /\ es_disk.applied \in Nat
      /\ I = applied_index + 1 /\ Len(log) <= MaxLog
  BY Zenon, <1>a, Numbers, LogLength DEF I
<1>o. /\ kv.applied <= applied_index /\ es.applied <= Len(log) /\ es_disk.applied <= Len(log)
      /\ es.exists => es_disk.exists /\ applied_index <= es.applied
      /\ es_disk.exists => es.exists
      /\ es_disk.exists => kv.applied <= es_disk.applied
      /\ \A r \in {es, es_disk} :
              r.exists => /\ r.data = DataAfter(log, r.applied)
                          /\ r.version = VersionAfter(log, r.applied)
  BY ZenonT(40), <1>a DEF IInv, Order, ExactlyOnce
<1>r. /\ RegionAfter(I).exists = TRUE /\ RegionAfter(I).applied = I
      /\ RegionAfter(I).data = DataAfter(log, I)
      /\ RegionAfter(I).version = VersionAfter(log, I)
  BY ZenonT(40) DEF RegionAfter
<1>t. RegionAfter(I) \in Region
  <2>1. VersionAfter(log, I) \in Index /\ I \in Index
    BY SMTT(40), <1>a, <1>n, VersionBound DEF Index
  <2>2. DataAfter(log, I) \in SUBSET Index
    BY SMTT(40), <1>a, <1>n DEF DataAfter, Index
  <2> QED
    BY Zenon, <2>1, <2>2 DEF RegionAfter, Region
<1>1. CASE pending_remove' = FALSE /\ EsStep /\ ~es.exists
  BY ZenonT(40), <1>1, <1>a, <1>o DEF EsStep
<1>2. CASE pending_remove' = FALSE /\ EsStep /\ es.exists /\ es' = es /\ es.applied >= I
  <2>1. es_disk' = es_disk \/ es_disk' = es
    BY Zenon, <1>2 DEF EsStep
  <2>2. pc' = "write" => es_disk' = es
    BY Zenon, <1>2 DEF EsStep
  <2>3. kv.applied <= es.applied /\ I <= es.applied
    BY SMTT(40), <1>2, <1>n, <1>o
  <2> QED
    BY ZenonT(40), <1>2, <1>a, <1>o, <2>1, <2>2, <2>3
<1>3. CASE pending_remove' = FALSE /\ EsStep /\ es.exists /\ es' = RegionAfter(I)
  <2>1. es_disk' = es_disk \/ es_disk' = RegionAfter(I)
    BY Zenon, <1>3 DEF EsStep
  <2>2. pc' = "write" => es_disk' = RegionAfter(I)
    BY Zenon, <1>3 DEF EsStep
  <2>3. kv.applied <= I /\ I <= I /\ I <= Len(log)
    BY SMTT(40), <1>a, <1>n, <1>o
  <2> QED
    BY ZenonT(40), <1>3, <1>a, <1>o, <1>r, <1>t, <2>1, <2>2, <2>3
<1>4. CASE pending_remove' = TRUE /\ pc' = "idle" /\ EsRemove
  <2>1. /\ es' \in Region /\ es'.exists = FALSE /\ es'.applied = es.applied
    BY Zenon, <1>4, <1>a DEF EsRemove, Region
  <2>2. \/ es_disk' = es_disk
        \/ es_disk' \in Region /\ es_disk'.exists = FALSE /\ es_disk'.applied = es_disk.applied
    BY ZenonT(40), <1>4, <1>a DEF EsRemove, Region
  <2> QED
    BY Zenon, <1>4, <1>a, <1>o, <2>1, <2>2
<1> QED
  BY ZenonT(40), <1>1, <1>2, <1>3, <1>4 DEF ApplyStep, ApplyEs, EsStep

LEMMA ApplyIInv ==
  ASSUME IInv, ApplyStep
  PROVE  IInv'
<1>a. TypeOK /\ LogOK /\ Batch /\ Epochs /\ Files
  BY Zenon DEF IInv
<1>b. /\ pc = "idle" /\ ~pending_remove /\ I \in 1 .. Len(log)
      /\ applied_index' = I
      /\ UNCHANGED <<log, kv, kv_synced, mailbox, meta_version, destroyed, gc_task,
                     raft_first, crashes>>
  BY Zenon DEF ApplyStep, ApplyStart, ApplyDelegate, ApplyFrame
<1>w. "apply_state" \notin wb /\ "region_state" \notin wb
  BY <1>a, <1>b DEF Batch
<1>d. ApplyDelegate
  BY DEF ApplyStep
<1>f. ApplyFiles
  BY Zenon DEF ApplyStep
<1>p. pc' \in {"idle", "write"} /\ (("apply_state" \in wb') <=> (pc' = "write"))
  BY Zenon, <1>d DEF ApplyDelegate
<1>n. /\ Len(log) \in Nat /\ MaxLog \in Nat /\ applied_index \in Nat
      /\ truncated \in Nat /\ kv.applied \in Nat /\ kv_synced.applied \in Nat
      /\ I = applied_index + 1 /\ I \in Index /\ Len(log) <= MaxLog
  <2>1. Len(log) \in Nat /\ MaxLog \in Nat /\ Len(log) <= MaxLog
    BY Zenon, <1>a, LogLength
  <2>2. /\ applied_index \in Nat /\ truncated \in Nat /\ kv.applied \in Nat
        /\ kv_synced.applied \in Nat
    BY Zenon, <1>a, Numbers
  <2> QED
    BY SMTT(40), <1>b, <2>1, <2>2 DEF I, Index
<1>1. TypeOK'
  <2>1. applied_index' \in Index /\ truncated' \in Index /\ version' \in Index
    <3>1. VersionAfter(log, I) \in Index
      BY <1>a, <1>b, <1>n, VersionBound DEF Index
    <3> QED
      BY SMTT(60), <1>b, <1>d, <1>n, <3>1 DEF ApplyDelegate, Index
  <2>2. /\ has_pending_ssts' \in BOOLEAN /\ sync_log_hint' \in BOOLEAN
        /\ ending' \in BOOLEAN /\ timer' \in BOOLEAN /\ compacted' \in BOOLEAN
    BY <1>d, Zenon DEF ApplyDelegate
  <2>3. pending_remove' \in BOOLEAN
    BY Zenon DEF ApplyStep, ApplyEs
  <2>4. panicked' \in BOOLEAN
    BY ZenonT(40), <1>f, Zenon DEF ApplyFiles
  <2>5. /\ pc' \in {"idle", "write", "delete", "notify"}
        /\ wb' \subseteq {"apply_state", "region_state"}
    BY Zenon, <1>d DEF ApplyDelegate
  <2>6. es' \in Region /\ es_disk' \in Region
    BY Zenon, ApplyEsFacts
  <2>7. /\ ssts' \subseteq Index /\ delete_ssts' \subseteq Index
        /\ pending_delete_ssts' \subseteq Index
    BY ZenonT(40), <1>a, <1>f, <1>n DEF ApplyFiles, TypeOK
  <2> QED
    BY ZenonT(60), <1>a, <1>b, <2>1, <2>2, <2>3, <2>4, <2>5, <2>6, <2>7, Zenon DEF TypeOK
<1>2. LogOK'
  BY ZenonT(40), <1>a, <1>b DEF LogOK
<1>3. Order'
  <2>1. /\ I <= Len(log) /\ truncated' <= I /\ kv.applied <= I
    BY SMTT(40), <1>b, <1>d, <1>n DEF ApplyDelegate, IInv, Order
  <2>2. /\ kv_synced.applied <= kv.applied
        /\ kv.truncated <= kv.applied /\ kv_synced.truncated <= kv_synced.applied
    BY Zenon DEF IInv, Order
  <2> QED
    BY ZenonT(60), <1>b, <1>p, <2>1, <2>2, ApplyEsFacts DEF Order
<1>4. Batch'
  BY Zenon, <1>d, <1>p DEF ApplyDelegate, Batch
<1>5. Compaction'
  BY ZenonT(40), <1>b, <1>d, <1>p, <1>w DEF ApplyDelegate, IInv, Compaction
<1>6. Epochs'
  <2>1. version' = VersionAfter(log, I)
        /\ (version' = version \/ (pc' = "write" /\ "region_state" \in wb' /\ sync_log_hint'))
    BY Zenon, <1>d DEF ApplyDelegate
  <2>2. version = kv.version /\ version <= kv_synced.version
    BY ZenonT(40), <1>a, <1>w DEF Epochs
  <2> QED
    BY ZenonT(40), <1>a, <1>b, <1>p, <2>1, <2>2 DEF Epochs
<1>7. Files'
  <2>1. \A i \in pending_delete_ssts' \cup delete_ssts' : i <= I
    <3> SUFFICES ASSUME NEW i \in pending_delete_ssts' \cup delete_ssts'
                 PROVE  i <= I
      BY Zenon
    <3>1. i = I \/ i \in pending_delete_ssts
      BY Zenon, <1>f DEF ApplyFiles
    <3>2. i \in pending_delete_ssts => i \in Nat /\ i <= applied_index
      BY SMTT(40), <1>a DEF Files, TypeOK, Index
    <3> QED
      BY SMTT(40), <1>n, <3>1, <3>2
  <2>2. delete_ssts' = {} \/ (pc' = "write" /\ sync_log_hint')
    BY Zenon, <1>f DEF ApplyFiles
  <2> QED
    BY Zenon, <1>b, <1>p, <2>1, <2>2 DEF Files
<1>8. ExactlyOnce'
  BY ZenonT(40), <1>b, ApplyEsFacts DEF ExactlyOnce
<1>9. SstKept'
  BY ZenonT(40), <1>b, <1>f DEF ApplyFiles, IInv, SstKept
<1>10. NoPanic'
  BY Zenon, <1>f DEF ApplyFiles, NoPanic
<1> QED
  BY SMTT(60), <1>1, <1>2, <1>3, <1>4, <1>5, <1>6, <1>7, <1>8, <1>9, <1>10 DEF IInv

\* A stuttering step.
LEMMA StutterIInv ==
  ASSUME IInv, UNCHANGED vars
  PROVE  IInv'
<1> USE DEF vars, delegateVars, ctxVars, kvVars, esVars, sstVars, peerVars
<1>1. TypeOK'
  BY SMTT(40) DEF IInv, TypeOK
<1>2. LogOK'
  BY Zenon DEF IInv, LogOK
<1>3. Order' /\ Batch' /\ Compaction'
  BY ZenonT(40) DEF IInv, Order, Batch, Compaction
<1>4. Epochs' /\ Files'
  BY ZenonT(40) DEF IInv, Epochs, Files
<1>5. ExactlyOnce' /\ SstKept' /\ NoPanic'
  BY Zenon DEF IInv, ExactlyOnce, SstKept, NoPanic
<1> QED
  BY ZenonT(60), <1>1, <1>2, <1>3, <1>4, <1>5 DEF IInv

LEMMA NextIInv ==
  ASSUME IInv, [Next]_vars
  PROVE  IInv'
<1>1. CASE Apply
  BY Zenon, <1>1, ApplyIsApplyStep, ApplyIInv
<1>2. CASE UNCHANGED vars
  BY Zenon, <1>2, StutterIInv
<1> QED
  BY Zenon, <1>1, <1>2, ProposeIInv, EsFlushIInv, EndPollIInv, WriteToDbIInv, DeleteSstsIInv,
     NotifyIInv, OnApplyResIInv, RaftLogGcIInv, CleanupImportSstIInv, RestartIInv
  DEF Next

\* IInv holds in every reachable state of the apply, persist, compact, ingest and
\* restart protocol.
THEOREM Invariant == Spec => []IInv
<1>1. Init => IInv
  BY Zenon, InitIInv
<1>2. IInv /\ [Next]_vars => IInv'
  BY NextIInv
<1> QED
  BY <1>1, <1>2, PTL DEF Spec

\* Every variable has its type: apply indexes, epochs and files stay within the log.
THEOREM TypeCorrect == Spec => []TypeOK
<1>1. IInv => TypeOK
  BY DEF IInv
<1> QED
  BY <1>1, Invariant, PTL

\* write_to_db never persists an apply index beyond what the engine-store has on disk.
THEOREM NoGapHolds == Spec => []NoGap
<1>1. IInv => NoGap
  BY DEF IInv, Order, NoGap
<1> QED
  BY <1>1, Invariant, PTL

\* The raft log gc never removes an entry that a restart has to replay, power
\* failures included.
THEOREM LogIsKept == Spec => []LogKept
<1>1. IInv => LogKept
  BY DEF IInv, Compaction, LogKept
<1> QED
  BY <1>1, Invariant, PTL

\* No SST file that a replay will ingest is deleted by cleanup or after a write.
THEOREM IngestIsSafe == Spec => []SstKept
<1>1. IInv => SstKept
  BY DEF IInv
<1> QED
  BY <1>1, Invariant, PTL

\* handle_ingest_sst never meets a missing file, also when it replays an ingest.
THEOREM PanicFree == Spec => []NoPanic
<1>1. IInv => NoPanic
  BY DEF IInv
<1> QED
  BY <1>1, Invariant, PTL

\* The engine-store has exactly the effects of a prefix of the log, each entry once,
\* in memory and on disk.
THEOREM AppliedExactlyOnce == Spec => []ExactlyOnce
<1>1. IInv => ExactlyOnce
  BY DEF IInv
<1> QED
  BY <1>1, Invariant, PTL

\* Epoch checks use the epoch of the applied index, before and after a restart.
THEOREM EpochsAreCurrent == Spec => []EpochIsCurrent
<1>1. IInv => EpochIsCurrent
  BY Zenon DEF IInv, Epochs, EpochIsCurrent
<1> QED
  BY <1>1, Invariant, PTL
-----------------------------------------------------------------------------
\* The implementation of LogReplica.

\* The replica after its next entry is the one LogReplica computes.
LEMMA RegionAfterIsAfter ==
  ASSUME IInv, ApplyStart, es.exists, es.applied = applied_index
  PROVE  RegionAfter(I) = Replica!After(es.applied + 1)
<1>a. TypeOK /\ LogOK /\ I \in 1 .. Len(log) /\ applied_index \in Nat /\ es \in Region
  BY Zenon, Numbers DEF IInv, ApplyStart, TypeOK
<1>b. I = es.applied + 1 /\ I - 1 = es.applied
  BY SMTT(40), <1>a DEF I
<1>1. es.version = VersionAfter(log, I - 1) /\ es.data = DataAfter(log, I - 1)
  BY Zenon, <1>b DEF IInv, ExactlyOnce
<1>2. VersionAfter(log, I) = IF log[I].epoch = es.version /\ log[I].type = "Split"
                             THEN es.version + 1 ELSE es.version
  BY ZenonT(40), <1>a, <1>1, VersionStep
<1>3. DataAfter(log, I) =
        IF log[I].epoch = es.version /\ log[I].type \in {"Write", "IngestSst"}
        THEN es.data \cup {I} ELSE es.data
  BY Zenon, <1>a, <1>1, DataStep DEF DataTypes
<1>4. Replica!After(I) = [es EXCEPT !.applied = I, !.data = DataAfter(log, I),
                                    !.version = VersionAfter(log, I)]
  BY Zenon, <1>2, <1>3, <1>a DEF Replica!After, Region
<1> QED
  BY ZenonT(40), <1>a, <1>b, <1>4 DEF RegionAfter, Region

LEMMA ApplyRefines ==
  ASSUME IInv, ApplyStep
  PROVE  [Replica!Next]_(Replica!vars)
<1>0. ApplyStart /\ log' = log /\ I \in 1 .. Len(log) /\ applied_index \in Nat
  BY Zenon, Numbers DEF ApplyStep, ApplyStart, ApplyFrame, IInv
<1>1. CASE EsStep /\ ~es.exists
  BY Zenon, <1>0, <1>1 DEF EsStep, Replica!vars
<1>2. CASE EsStep /\ es.exists /\ es' = es
  BY Zenon, <1>0, <1>2 DEF EsStep, Replica!vars, Replica!Next, Replica!Persist
<1>3. CASE EsStep /\ es.exists /\ es' # es
  <2>1. es.applied = applied_index /\ es' = RegionAfter(I) /\ es_disk' \in {es_disk, es'}
    BY Zenon, <1>3 DEF EsStep
  <2>2. es' = Replica!After(es.applied + 1)
    BY Zenon, <1>0, <1>3, <2>1, RegionAfterIsAfter
  <2>3. es.applied < Len(log)
    BY SMTT(40), <1>0, <2>1, LogLength DEF I, IInv
  <2> QED
    BY Zenon, <1>0, <1>3, <2>1, <2>2, <2>3 DEF Replica!Next, Replica!ApplyNext
<1>4. CASE EsRemove
  BY Zenon, <1>0, <1>4 DEF EsRemove, Replica!Next, Replica!Remove
<1> QED
  BY Zenon, <1>1, <1>2, <1>3, <1>4 DEF ApplyStep, ApplyEs

\* Every step of ApplyPersist is a step of LogReplica or leaves its variables alone.
LEMMA NextRefines ==
  ASSUME IInv, [Next]_vars
  PROVE  [Replica!Next]_(Replica!vars)
<1>1. CASE Propose
  <2>1. PICK t \in Types, e \in {VersionAfter(log, Len(log)), VersionAfter(log, Len(log)) - 1} \cap Index,
             c \in 0 .. Len(log) :
               log' = Append(log, [type |-> t, epoch |-> e,
                                   version |-> VersionAfter(log, Len(log)),
                                   compact_index |-> c])
    BY ZenonT(40), <1>1 DEF Propose
  <2>2. TypeOK /\ LogOK
    BY Zenon DEF IInv
  <2>3. Len(log) \in Nat /\ Len(log) <= MaxLog /\ MaxLog \in Nat
    BY Zenon, <2>2, LogLength
  <2>4. VersionAfter(log, Len(log)) \in Index
    BY SMTT(60), <2>2, <2>3, VersionBound DEF Index
  <2>5. [type |-> t, epoch |-> e, version |-> VersionAfter(log, Len(log)),
         compact_index |-> c] \in Entries
    BY SMTT(60), <2>3, <2>4, TypesAssumption DEF Entries, Index
  <2>6. UNCHANGED <<es, es_disk>>
    BY Zenon, <1>1 DEF Propose, esVars
  <2> QED
    BY ZenonT(40), <2>1, <2>5, <2>6 DEF Replica!Next, Replica!Commit
<1>2. CASE EsFlush
  BY Zenon, <1>2 DEF EsFlush, Replica!Next, Replica!Persist
<1>3. CASE Apply
  BY Zenon, <1>3, ApplyIsApplyStep, ApplyRefines
<1>4. CASE Restart
  BY Zenon, <1>4 DEF Restart, Replica!Next, Replica!Crash
<1>5. CASE UNCHANGED <<log, es, es_disk>>
  BY Zenon, <1>5 DEF Replica!vars
<1>6. ASSUME EndPoll \/ WriteToDb \/ DeleteSsts \/ Notify
      PROVE  UNCHANGED <<log, es, es_disk>>
  BY ZenonT(40), <1>6 DEF EndPoll, WriteToDb, DeleteSsts, Notify, esVars
<1>7. ASSUME RaftLogGc \/ CleanupImportSst
      PROVE  UNCHANGED <<log, es, es_disk>>
  BY ZenonT(40), <1>7 DEF RaftLogGc, CleanupImportSst, esVars
<1>8. ASSUME UNCHANGED vars
      PROVE  UNCHANGED <<log, es, es_disk>>
  BY Zenon, <1>8 DEF vars, esVars
<1>9. CASE OnApplyRes
  <2>1. es \in Region /\ es_disk \in Region /\ log' = log
    BY Zenon, <1>9 DEF IInv, TypeOK, OnApplyRes
  <2>2. CASE mailbox.removed
    BY Zenon, <1>9, <2>1, <2>2 DEF OnApplyRes, Replica!Next, Replica!Remove, Region
  <2>3. CASE ~mailbox.removed
    BY <1>9, <2>1, <2>3 DEF OnApplyRes, Replica!vars, Region
  <2> QED
    BY Zenon, <2>2, <2>3
<1> QED
  BY Zenon, <1>1, <1>2, <1>3, <1>4, <1>5, <1>6, <1>7, <1>8, <1>9 DEF Next

\* The engine-store, driven by the proxy through filtering, persistence, compaction
\* and replay after a restart, is a replica of the committed log.
THEOREM RefinesReplica == Spec => ImplementsReplica
<1>1. Init => Replica!Init
  BY Zenon DEF Init, NewRegion, Replica!Init
<1>2. IInv /\ [Next]_vars => [Replica!Next]_(Replica!vars)
  BY NextRefines
<1> QED
  BY <1>1, <1>2, Invariant, PTL DEF Spec, ImplementsReplica, Replica!Spec
==============================================================================
