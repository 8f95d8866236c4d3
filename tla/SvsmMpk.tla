------------------------------ MODULE SvsmMpk ------------------------------
(***************************************************************************)
(* The six MPK services of the VMPL0 monitor (SVSM), for one VMPL1         *)
(* process, as wamr-pal/pal_monitor_call.{h,c} uses them.  The monitor     *)
(* itself is a separate code base that is not part of this repository:     *)
(* everything here is external and is constrained only by the interface    *)
(* comments of pal_monitor_call.h and by what the callers do with a        *)
(* result.                                                                 *)
(***************************************************************************)
EXTENDS Integers, FiniteSets

CONSTANTS
  MaxKey,   \* protection keys are 1..MaxKey (15 on the hardware)
  Faults    \* the kinds of calls that may fail in this environment

FaultKinds == {"pkey_alloc", "virt_alloc", "mpk_alloc", "enter_domain",
               "exit_domain", "free_pkey", "mspace", "wamr_init"}

ASSUME SvsmAssumption ==
  /\ MaxKey \in Nat \ {0}
  /\ Faults \subseteq FaultKinds

VARIABLES
  svsmKeys,     \* keys the monitor has handed to this process
  svsmRegions,  \* <<base, key>>: pages the monitor has mapped with a key
  pkru,         \* keys whose access the process's VMSA.PKRU enables
  misuse        \* interface rules the process has broken so far (history)

svsmVars == <<svsmKeys, svsmRegions, pkru, misuse>>

Keys == 1 .. MaxKey

(* A call of this kind may be refused by the environment. *)
MayFail(kind) == kind \in Faults

SvsmTypeOK ==
  /\ svsmKeys \subseteq Keys
  /\ svsmRegions \subseteq (Nat \X Keys)
  /\ pkru \subseteq Keys
  /\ misuse \subseteq {"alloc_unowned", "free_unowned"}

SvsmInit ==
  /\ svsmKeys = {}
  /\ svsmRegions = {}
  /\ pkru = {}
  /\ misuse = {}

(***************************************************************************)
(* Services.  Each one says what happens to the variables it owns; the     *)
(* caller leaves the others UNCHANGED.                                     *)
(***************************************************************************)

(* pal_svsm_mpk_alloc: "pkey (1-15, from pkey_alloc)". *)
SvsmMpkAlloc(base, key, done) ==
  /\ svsmRegions' = IF done THEN svsmRegions \cup {<<base, key>>}
                            ELSE svsmRegions
  /\ misuse' = IF key \in svsmKeys THEN misuse
                                   ELSE misuse \cup {"alloc_unowned"}

(* pal_svsm_mpk_enter_domain: what PKRU enables afterwards. *)
Entered(key) == pkru \cup {key}

(* pal_svsm_mpk_exit_domain, applied to a PKRU value: the possible results. *)
Exited(rights, key) ==
  {rights \ {key}} \cup (IF MayFail("exit_domain") THEN {rights} ELSE {})

(* pal_svsm_mpk_free_pkey(key, base, size). *)
SvsmFreePkey(key, base, done) ==
  /\ svsmKeys' = IF done THEN svsmKeys \ {key} ELSE svsmKeys
  /\ svsmRegions' = IF done THEN {r \in svsmRegions : r[1] # base}
                            ELSE svsmRegions
  /\ misuse' = IF key \in svsmKeys THEN misuse
                                   ELSE misuse \cup {"free_unowned"}

(* One pal_svsm_mpk_free_pkey(key, NULL, 0) for each key of a set, of      *)
(* which those in kept are refused: no memory is touched.                  *)
SvsmFreeKeys(keys, kept) ==
  /\ kept \subseteq keys
  /\ kept # {} => MayFail("free_pkey")
  /\ svsmKeys' = svsmKeys \ (keys \ kept)
  /\ misuse' = IF keys \subseteq svsmKeys THEN misuse
                                          ELSE misuse \cup {"free_unowned"}
=============================================================================
