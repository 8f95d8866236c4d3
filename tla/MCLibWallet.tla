----------------------------- MODULE MCLibWallet -----------------------------
(* Instances of LibWallet for TLC. *)
EXTENDS LibWallet

(* A file shorter than a page, and one longer than a page and a buffer. *)
TwoFiles == [short |-> <<1>>, long |-> <<2, 3, 4>>]
NoFile == "none"
SmallOffsets == {0, 2}
SmallCounts == {1, 3}
AnyRefusal == {"createZygote", "createTrustlet"}
(* A refused creation returns this length as an id. *)
OneSize == {6}
=============================================================================
