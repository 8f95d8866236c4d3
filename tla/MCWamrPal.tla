----------------------------- MODULE MCWamrPal -----------------------------
(* Instances of WamrPal for TLC: the sets of faults of each environment.   *)
EXTENDS WamrPal

(* Every kind of call may fail. *)
AllFaults == FaultKinds

(* Entering and leaving an existing domain and giving a key back succeed;  *)
(* everything that allocates may fail.                                     *)
AllocationFaults == {"pkey_alloc", "virt_alloc", "mpk_alloc", "mspace",
                     "wamr_init"}

NoFaults == {}
=============================================================================
