--------------------------- MODULE MCAddressSpace ---------------------------
(* Instances of AddressSpace for TLC. *)
EXTENDS AddressSpace

(* No byte, one byte, a whole page, a page and a byte. *)
SmallSizes == 0 .. 3
=============================================================================
