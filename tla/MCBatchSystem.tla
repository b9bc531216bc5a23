---------------------------- MODULE MCBatchSystem ----------------------------
(* Small instances of BatchSystem: regions a1 (the merge target f1, and f3, a   *)
(* peer that a split registers at the same region id) and a2 (the source f2).   *)
EXTENDS BatchSystem

CONSTANTS f1, f2, f3, a1, a2, t1, t2, p1, p2, p3

ThreeFsms == {f1, f2, f3}
TwoFsms == {f1, f2}
TwoAddrs == {a1, a2}
AddrTable == [f \in Fsms |-> IF f = f2 THEN a2 ELSE a1]
TwoThreads == {t1, t2}
TwoPollers == {p1, p2}
ThreePollers == {p1, p2, p3}

\* A workload: the calls of t1, the calls of t2 (once each), and the hot FSMs.
Load(c1, c2, n) ==
  [calls |-> [t \in Threads |-> [c \in Calls |-> IF c \in (IF t = t1 THEN c1 ELSE c2)
                                                THEN 1 ELSE 0]],
   hot |-> n]

\* The workloads, each with the races it is for.
Scenarios ==
  { Load({"merge"}, {"catch_up"}, 0),                 \* the wake-up of a merge target
    Load({"merge"}, {"handle"}, 1),
    Load({"merge", "catch_up"}, {"close"}, 0),        \* ... and its mailbox closes
    Load({"merge"}, {"stop"}, 0),                     \* a waiting target is destroyed
    Load({"stop"}, {"handle"}, 0),                    \* a handle outlives its address
    Load({"stop", "task"}, {"register"}, 0),          \* a region id is used again
    Load({"task"}, {"task", "close"}, 0),             \* a full mailbox closes
    Load({"task", "resize"}, {"resize"}, 1),          \* pollers leave with FSMs
    Load({"control", "resize"}, {"control"}, 0),
    Load({"control", "task"}, {"shutdown"}, 0),
    Load({"resize", "stop"}, {"shutdown"}, 0),
    Load({"register"}, {"shutdown"}, 0) }             \* a mailbox registered too late

============================================================================
