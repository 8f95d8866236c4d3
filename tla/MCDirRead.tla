------------------------------ MODULE MCDirRead ------------------------------
(* Instances of DirRead for TLC. *)
EXTENDS DirRead

SmallLens == {2, 3}
SmallRecs == {2, 3}
(* Positions that are bytes, and others that lie closer or farther apart.  *)
SmallGaps == {1, 2, 3}
SmallCounts == {0, 2, 3, 5}
=============================================================================
