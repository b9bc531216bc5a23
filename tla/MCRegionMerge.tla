---------------------------- MODULE MCRegionMerge ----------------------------
(* Small instances of RegionMerge. *)
EXTENDS RegionMerge

w == [k |-> "write"]
p == [k |-> "prepare"]
r(i) == [k |-> "rollback", at |-> i]
c(v, i) == [k |-> "commit", ver |-> v, at |-> i]
split == [k |-> "split"]
leave == [k |-> "leave"]

(* A merge after a split of T, whose CommitMerge was proposed twice; one after a        *)
(* rollback, the first CommitMerge having been proposed before T's last split; one      *)
(* with an empty entry after the PrepareMerge, whose range is split off again.          *)
ThreeHistories ==
  { [s |-> <<w, p>>, t |-> <<split, c(2, 2), c(2, 2)>>],
    [s |-> <<p, r(1), p>>, t |-> <<c(0, 1), c(1, 3)>>],
    [s |-> <<p, w>>, t |-> <<c(1, 1), leave>>] }
=============================================================================
