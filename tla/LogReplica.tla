------------------------------ MODULE LogReplica ------------------------------
(***************************************************************************)
(* What the proxy and the engine-store together promise about one region:  *)
(* a replica that applies a growing log of committed entries in order,     *)
(* each exactly once, persists its state now and then, and restarts from   *)
(* what it persisted.  An entry proposed at a stale epoch has no effect.   *)
(***************************************************************************)
EXTENDS Integers, Sequences

CONSTANT Entries  \* what the leader may propose

VARIABLES log,      \* committed entries
          region,   \* the replica in memory
          durable   \* the replica on disk

vars == <<log, region, durable>>

Init ==
  /\ log = << >>
  /\ region = [exists |-> TRUE, applied |-> 0, version |-> 0, data |-> {}]
  /\ durable = region

Commit ==
  /\ \E e \in Entries : log' = Append(log, e)
  /\ UNCHANGED <<region, durable>>

\* The replica after one more entry.
After(i) ==
  LET e == log[i]
      ok == e.epoch = region.version
  IN [region EXCEPT
        !.applied = i,
        !.data = IF ok /\ e.type \in {"Write", "IngestSst"} THEN @ \cup {i} ELSE @,
        !.version = IF ok /\ e.type = "Split" THEN @ + 1 ELSE @]

ApplyNext ==
  /\ region.exists /\ region.applied < Len(log)
  /\ region' = After(region.applied + 1)
  /\ durable' \in {durable, region'}
  /\ UNCHANGED log

Persist ==
  /\ region.exists
  /\ durable' = region
  /\ UNCHANGED <<log, region>>

Remove ==
  /\ region' = [region EXCEPT !.exists = FALSE]
  /\ durable' \in {durable, [durable EXCEPT !.exists = FALSE]}
  /\ UNCHANGED log

Crash ==
  /\ region' = durable
  /\ UNCHANGED <<log, durable>>

Next == Commit \/ ApplyNext \/ Persist \/ Remove \/ Crash

Spec == Init /\ [][Next]_vars
==============================================================================
