----------------------------- MODULE MCSvmVmpl -----------------------------
(* Instances of SvmVmpl for TLC.                                           *)
EXTENDS SvmVmpl
=============================================================================
