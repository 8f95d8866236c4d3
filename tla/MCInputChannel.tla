--------------------------- MODULE MCInputChannel ---------------------------
(* Instances of InputChannel for TLC. *)
EXTENDS InputChannel

(* No name, every remainder modulo 4, the longest name, one too long. *)
SmallNames == 0 .. 6
FewArgs == {0, 2, 3}
SmallModules == {0, 3}

=============================================================================
