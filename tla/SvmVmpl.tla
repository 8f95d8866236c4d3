------------------------------ MODULE SvmVmpl ------------------------------
(***************************************************************************)
(* How the host runs one vCPU at several privilege levels (VMPLs) of a     *)
(* SEV-SNP guest: src/host/kvm/svm/sev.c with its callers in svm.c and     *)
(* x86.c.                                                                  *)
(*                                                                         *)
(* A vCPU has one VMSA (the page of encrypted registers) and one GHCB MSR  *)
(* value per level, one VMCB that points at those of the level that runs,  *)
(* and for every level a slot in which any vCPU of the guest leaves an AP  *)
(* creation request.  The vCPU thread takes a request when it handles      *)
(* KVM_REQ_UPDATE_PROTECTED_GUEST_STATE, when it gets an INIT, or when it  *)
(* switches level.  The slots are guarded by the vCPU's snp_vmsa_mutex;    *)
(* snp_target_vmpl is written by the vCPU's own thread without it.         *)
(*                                                                         *)
(* The steps of one vCPU thread: "host" is the top of vcpu_run, "guest" is *)
(* after VMRUN, "target" and "checked" are the two places inside           *)
(* __sev_run_vmpl_vmsa where another vCPU can get in between, "error" is a *)
(* KVM_RUN that returned an error to the VMM.                              *)
(***************************************************************************)
EXTENDS Integers, FiniteSets

CONSTANTS VCpu,         \* the vCPUs of the guest
          Bsp,          \* the boot vCPU, the only one that starts runnable
          VMPL_MAX,     \* SVM_SEV_VMPL_MAX
          Page,         \* guest pages a guest may name as a VMSA
          Backed,       \* those with a memory slot and a gmem page behind it
          Ghcb,         \* guest pages a guest uses as a GHCB
          Creators,     \* bound: the vCPUs that call AP creation
          MaxCreate,    \* bound: AP creation calls in one behaviour
          MaxSwitch,    \* bound: level switches
          MaxEvent,     \* bound: interrupts, INITs and SIPIs
          MaxGhcb       \* bound: GHCB registrations and writes of its MSR

Vmpl == 0 .. VMPL_MAX - 1

(* INVALID_PAGE, the VMSA that the host allocates with the vCPU, and the   *)
(* values of the GHCB MSR that are not the address of a GHCB.              *)
INVALID_PAGE == "INVALID_PAGE"
HostVmsa == "host_vmsa"
SevInfo == "sev_info"
VmplDone == "vmpl_resp"
VmplError == "vmpl_resp_error"
RegDone == "reg_gpa_resp"

ASSUME VmplAssumption ==
  /\ IsFiniteSet(VCpu) /\ Bsp \in VCpu
  /\ VMPL_MAX \in Nat /\ VMPL_MAX > 0
  /\ Backed \subseteq Page /\ Page \cap {INVALID_PAGE, HostVmsa} = {}
  /\ Creators \subseteq VCpu
  /\ {MaxCreate, MaxSwitch, MaxEvent, MaxGhcb} \subseteq Nat

Vmsas == Page \cup {INVALID_PAGE, HostVmsa}
GhcbMsrs == Ghcb \cup {SevInfo, VmplDone, VmplError, RegDone}

VARIABLES
  svm,        \* struct vcpu_svm of every vCPU, the fields this module needs
  pc,         \* where the vCPU thread is
  new,        \* new_vmpl of __sev_run_vmpl_vmsa, and the exit that called it
  request,    \* vCPUs with KVM_REQ_UPDATE_PROTECTED_GUEST_STATE pending
  event,      \* pending INIT, SIPI and interrupt of every vCPU
  pin,        \* references the host holds on guest pages used as VMSA
  said,       \* history: what the level should find in its GHCB MSR
  vc,         \* history: vCPUs with a #VC that VMPL0 has not seen
  due,        \* history: the level whose CREATE is the last one accepted
              \* and not yet looked at, while the target level is its own
  calls       \* <<creations, switches, events, set-ups>>, for the bounds

vars == <<svm, pc, new, request, event, pin, said, vc, due, calls>>

MpStates == {"uninitialized", "runnable", "halted", "init_received"}

(* The fields of vcpu_svm, vcpu and VMCB in use here.                      *)
SvmState ==
  [mp_state   : MpStates,
   vmsa_pa    : [Vmpl -> Vmsas],
   vmcb_vmsa  : Vmsas,
   ghcb_gpa   : [Vmpl -> GhcbMsrs],
   vmcb_ghcb  : GhcbMsrs,
   registered : [Vmpl -> Ghcb \cup {"none"}],
   current    : Vmpl,
   target     : Vmpl,
   ap_create  : [Vmpl -> BOOLEAN],
   gpa        : [Vmpl -> Page \cup {INVALID_PAGE}]]

TypeOK ==
  /\ svm \in [VCpu -> SvmState]
  /\ pc \in [VCpu -> {"host", "guest", "target", "checked", "error"}]
  /\ new \in [VCpu -> [vmpl : Vmpl, by : {"nae", "msr", "vc", "none"}]]
  /\ request \subseteq VCpu
  /\ event \in [VCpu -> SUBSET {"init", "sipi", "irq"}]
  /\ pin \in [Page -> Nat]
  /\ said \in [VCpu -> [Vmpl -> GhcbMsrs]]
  /\ vc \subseteq VCpu
  /\ due \in [VCpu -> SUBSET Vmpl]
  /\ calls \in (0 .. MaxCreate) \X (0 .. MaxSwitch) \X (0 .. MaxEvent)
              \X (0 .. MaxGhcb)

(* A vCPU as svm_vcpu_create and the RESET in sev_es_vcpu_reset leave it.  *)
ResetSvm(c) ==
  [mp_state   |-> IF c = Bsp THEN "runnable" ELSE "uninitialized",
   vmsa_pa    |-> [v \in Vmpl |-> IF v = 0 THEN HostVmsa ELSE INVALID_PAGE],
   vmcb_vmsa  |-> HostVmsa,
   ghcb_gpa   |-> [v \in Vmpl |-> SevInfo],
   vmcb_ghcb  |-> SevInfo,
   registered |-> [v \in Vmpl |-> "none"],
   current    |-> 0,
   target     |-> 0,
   ap_create  |-> [v \in Vmpl |-> FALSE],
   gpa        |-> [v \in Vmpl |-> INVALID_PAGE]]

NoSwitch == [vmpl |-> 0, by |-> "none"]

Init ==
  /\ svm = [c \in VCpu |-> ResetSvm(c)]
  /\ pc = [c \in VCpu |-> "host"]
  /\ new = [c \in VCpu |-> NoSwitch]
  /\ request = {}
  /\ event = [c \in VCpu |-> {}]
  /\ pin = [p \in Page |-> 0]
  /\ said = [c \in VCpu |-> [v \in Vmpl |-> SevInfo]]
  /\ vc = {}
  /\ due = [c \in VCpu |-> {}]
  /\ calls = <<0, 0, 0, 0>>

Creating == calls[1] < MaxCreate /\ calls' = [calls EXCEPT ![1] = @ + 1]
SettingUp == calls[4] < MaxGhcb /\ calls' = [calls EXCEPT ![4] = @ + 1]
Happening == calls[3] < MaxEvent /\ calls' = [calls EXCEPT ![3] = @ + 1]
Switching == calls[2] < MaxSwitch /\ calls' = [calls EXCEPT ![2] = @ + 1]

-----------------------------------------------------------------------------
(* Taking a request: __sev_snp_update_protected_guest_state                *)

(* Mutant: the update leaves the VMCB with the GHCB of the old level.      *)
MakeTargetCurrentNoGhcb(s) ==
  IF s.current = s.target THEN s
  ELSE [s EXCEPT !.current = s.target]

(* The end of the update: another level becomes current and its GHCB MSR   *)
(* value replaces that of the level that was.                              *)
MakeTargetCurrent(s) ==
  IF s.current = s.target THEN s
  ELSE [s EXCEPT !.ghcb_gpa[s.current] = s.vmcb_ghcb,
                 !.vmcb_ghcb = s.ghcb_gpa[s.target],
                 !.current = s.target]

(* The VMSA of the target level is dropped and the vCPU halted; a valid    *)
(* address in the slot makes it run again on the new VMSA.  An address     *)
(* without memory is an early return: the address stays in the slot and    *)
(* the current level does not change.                                      *)
UpdateProtectedState(s) ==
  LET t == s.target
      gpa == s.gpa[t]
      cleared == [s EXCEPT !.mp_state = "halted",
                           !.vmsa_pa[t] = INVALID_PAGE,
                           !.vmcb_vmsa = INVALID_PAGE]
      loaded == [cleared EXCEPT !.mp_state = "runnable",
                                !.vmsa_pa[t] = gpa,
                                !.vmcb_vmsa = gpa,
                                !.gpa[t] = INVALID_PAGE]
  IN CASE gpa = INVALID_PAGE -> MakeTargetCurrent(cleared)
       [] gpa \in Backed     -> MakeTargetCurrent(loaded)
       [] OTHER              -> cleared

(* Mutant: the VMSA that is replaced stays pinned.                         *)
UpdatePinsKeepOld(s) ==
  [p \in Page |->
     pin[p] + (IF p = s.gpa[s.target] /\ p \in Backed THEN 1 ELSE 0)]

(* The page references the update gives back and takes.                    *)
UpdatePins(s) ==
  LET old == s.vmsa_pa[s.target]
      gpa == s.gpa[s.target]
  IN [p \in Page |-> pin[p] + (IF p = gpa /\ p \in Backed THEN 1 ELSE 0)
                            - (IF p = old THEN 1 ELSE 0)]

(* sev_snp_init_protected_guest_state, under the vCPU's snp_vmsa_mutex:    *)
(* whether it finds a request for the target level, and what it leaves.    *)
HasUpdate(s) == s.ap_create[s.target]

InitProtectedState(s) ==
  IF HasUpdate(s)
  THEN UpdateProtectedState([s EXCEPT !.ap_create[s.target] = FALSE])
  ELSE s

(* svm_vcpu_reset with an init event: the update, then sev_es_init_vmcb.   *)
InitReset(s) ==
  LET u == InitProtectedState(s)
  IN [u EXCEPT !.vmcb_vmsa = u.vmsa_pa[u.current]]

(* What a reset of vCPU c changes outside its own state.                   *)
ResetEffects(c) ==
  /\ pin' = IF HasUpdate(svm[c]) THEN UpdatePins(svm[c]) ELSE pin
  /\ vc' = IF HasUpdate(svm[c]) THEN vc \ {c} ELSE vc
  /\ due' = IF HasUpdate(svm[c])
            THEN [due EXCEPT ![c] = @ \ {svm[c].target}] ELSE due

-----------------------------------------------------------------------------
(* The vCPU thread outside the guest: vcpu_run, vcpu_enter_guest,          *)
(* vcpu_block                                                              *)

(* Mutant: the update request does not wake a halted vCPU.                 *)
HasEventsIrqOnly(c) == "irq" \in event[c]

(* What wakes a halted vCPU besides INIT and SIPI.                         *)
HasEvents(c) == c \in request \/ "irq" \in event[c]

(* vcpu_enter_guest takes the update request: kvm_vcpu_reset.  When the    *)
(* reset leaves the vCPU unrunnable the loop starts again.                 *)
HandleUpdateRequest(c) ==
  /\ pc[c] = "host" /\ c \in request
  /\ svm[c].mp_state = "runnable"
  /\ request' = request \ {c}
  /\ svm' = [svm EXCEPT ![c] = InitReset(@)]
  /\ ResetEffects(c)
  /\ UNCHANGED <<pc, new, event, said, calls>>

(* kvm_apic_accept_events: INIT resets the vCPU, which then waits for a    *)
(* SIPI unless it is the boot vCPU; a SIPI in any other state is dropped.  *)
AcceptEvents(c) ==
  /\ pc[c] = "host" /\ event[c] \cap {"init", "sipi"} # {}
  /\ c \in request => svm[c].mp_state # "runnable"
  /\ LET s == svm[c]
         i == IF "init" \in event[c]
              THEN [InitReset(s) EXCEPT !.mp_state =
                      IF c = Bsp THEN "runnable" ELSE "init_received"]
              ELSE s
         r == IF "sipi" \in event[c] /\ i.mp_state = "init_received"
              THEN [i EXCEPT !.mp_state = "runnable"] ELSE i
     IN svm' = [svm EXCEPT ![c] =
                  IF r.mp_state = "halted" THEN [r EXCEPT !.mp_state = "runnable"]
                  ELSE r]
  /\ IF "init" \in event[c] THEN ResetEffects(c) ELSE UNCHANGED <<pin, vc, due>>
  /\ event' = [event EXCEPT ![c] = @ \ {"init", "sipi"}]
  /\ UNCHANGED <<pc, new, request, said, calls>>

(* vcpu_block finds an event and makes a halted vCPU runnable.             *)
Unhalt(c) ==
  /\ pc[c] = "host" /\ svm[c].mp_state = "halted"
  /\ HasEvents(c) /\ event[c] \cap {"init", "sipi"} = {}
  /\ svm' = [svm EXCEPT ![c].mp_state = "runnable"]
  /\ UNCHANGED <<pc, new, request, event, pin, said, vc, due, calls>>

(* VMRUN.  The mode is set before the requests are looked at once more, so *)
(* none is pending here.  Without a VMSA the entry fails (SVM_EXIT_ERR)    *)
(* and KVM_RUN returns to the VMM.  A pending interrupt is injected.       *)
Enter(c) ==
  /\ pc[c] = "host" /\ svm[c].mp_state = "runnable"
  /\ c \notin request /\ event[c] \cap {"init", "sipi"} = {}
  /\ pc' = [pc EXCEPT ![c] =
              IF svm[c].vmcb_vmsa = INVALID_PAGE THEN "error" ELSE "guest"]
  /\ event' = [event EXCEPT ![c] = {}]
  /\ vc' = vc \ {c}
  /\ UNCHANGED <<svm, new, request, pin, said, due, calls>>

-----------------------------------------------------------------------------
(* Level switches: __sev_run_vmpl_vmsa and the exits that call it          *)

(* Mutant: the new level is compared with the target just assigned.        *)
BeginSwitchNever(c, s, v, by) ==
  /\ svm' = [svm EXCEPT ![c] = [s EXCEPT !.target = v]]
  /\ pc' = [pc EXCEPT ![c] = "host"]
  /\ new' = [new EXCEPT ![c] = NoSwitch]
  /\ due' = [due EXCEPT ![c] = {}]

(* The first half sets the target level without the mutex; a switch to     *)
(* the level that runs is done.                                            *)
BeginSwitch(c, s, v, by) ==
  /\ svm' = [svm EXCEPT ![c] = [s EXCEPT !.target = v]]
  /\ pc' = [pc EXCEPT ![c] = IF v = s.current THEN "host" ELSE "target"]
  /\ new' = [new EXCEPT ![c] =
               IF v = s.current THEN NoSwitch ELSE [vmpl |-> v, by |-> by]]
  /\ due' = [due EXCEPT ![c] = {}]

(* SVM_VMGEXIT_RUN_VMPL: the GHCB has to be the registered one of this     *)
(* level, or KVM_RUN fails.  The answer is in the GHCB page, not in the    *)
(* MSR.                                                                    *)
RunVmplNae(c, v) ==
  /\ pc[c] = "guest" /\ svm[c].vmcb_ghcb \in Ghcb
  /\ Switching
  /\ IF svm[c].registered[svm[c].current] = svm[c].vmcb_ghcb
     THEN BeginSwitch(c, svm[c], v, "nae")
     ELSE pc' = [pc EXCEPT ![c] = "error"] /\ UNCHANGED <<svm, new, due>>
  /\ UNCHANGED <<request, event, pin, said, vc>>

(* GHCB_MSR_VMPL_REQ: the answer is preset to success, because it is saved *)
(* with the level that leaves.                                             *)
RunVmplMsr(c, v) ==
  /\ pc[c] = "guest"
  /\ Switching
  /\ BeginSwitch(c, [svm[c] EXCEPT !.vmcb_ghcb = VmplDone], v, "msr")
  /\ said' = [said EXCEPT ![c][svm[c].current] = VmplDone]
  /\ UNCHANGED <<request, event, pin, vc>>

(* sev_vc_vmpl: a #VC that the host intercepts in a trustlet or process    *)
(* level goes to the monitor at VMPL0; in VMPL0 and in the guest kernel's  *)
(* VMPL2 it is left alone.                                                 *)
VcLevels == Vmpl \ {0, 2}

VcInterception(c) ==
  /\ pc[c] = "guest"
  /\ Switching
  /\ IF svm[c].current \in VcLevels
     THEN BeginSwitch(c, svm[c], 0, "vc") /\ vc' = vc \cup {c}
     ELSE pc' = [pc EXCEPT ![c] = "host"] /\ UNCHANGED <<svm, new, vc, due>>
  /\ UNCHANGED <<request, event, pin, said>>

(* The switch looks for a creation request, now under the mutex and for    *)
(* whatever the target level is by then; taking one replaces the switch.   *)
SwitchTakesUpdate(c) ==
  /\ pc[c] = "target"
  /\ svm' = [svm EXCEPT ![c] = InitProtectedState(@)]
  /\ pc' = [pc EXCEPT ![c] = IF HasUpdate(svm[c]) THEN "host" ELSE "checked"]
  /\ new' = [new EXCEPT ![c] = IF HasUpdate(svm[c]) THEN NoSwitch ELSE @]
  /\ ResetEffects(c)
  /\ UNCHANGED <<request, event, said, calls>>

(* Mutant: the VMCB keeps the VMSA of the level that is left.              *)
SwitchLevelOldVmsa(s, v) ==
  [s EXCEPT !.ghcb_gpa[s.current] = s.vmcb_ghcb,
            !.vmcb_ghcb = s.ghcb_gpa[v],
            !.current = v]

(* The switch itself: the VMCB gets the VMSA and the GHCB MSR value of the *)
(* new level.                                                              *)
SwitchLevel(s, v) ==
  [s EXCEPT !.ghcb_gpa[s.current] = s.vmcb_ghcb,
            !.vmcb_vmsa = s.vmsa_pa[v],
            !.vmcb_ghcb = s.ghcb_gpa[v],
            !.current = v]

(* A level without a VMSA is refused, with the target level already        *)
(* changed.  A #VC that cannot reach VMPL0 ends KVM_RUN, a refused MSR     *)
(* request gets the error bit.                                             *)
SwitchOrRefuse(c) ==
  /\ pc[c] = "checked"
  /\ LET s == svm[c]
         n == new[c]
         refused == s.vmsa_pa[n.vmpl] = INVALID_PAGE
     IN /\ svm' = [svm EXCEPT ![c] =
                     CASE ~refused -> SwitchLevel(s, n.vmpl)
                       [] refused /\ n.by = "msr" ->
                            [s EXCEPT !.vmcb_ghcb = VmplError]
                       [] OTHER -> s]
        /\ said' = IF refused /\ n.by = "msr"
                   THEN [said EXCEPT ![c][s.current] = VmplError] ELSE said
        /\ pc' = [pc EXCEPT ![c] =
                    IF refused /\ n.by = "vc" THEN "error" ELSE "host"]
  /\ new' = [new EXCEPT ![c] = NoSwitch]
  /\ UNCHANGED <<request, event, pin, vc, due, calls>>

-----------------------------------------------------------------------------
(* Other exits                                                             *)

(* GHCB_MSR_REG_GPA_REQ: the GHCB is registered for the current level; a   *)
(* guest does this once per level.                                         *)
RegisterGhcb(c, g) ==
  /\ pc[c] = "guest" /\ svm[c].registered[svm[c].current] = "none"
  /\ SettingUp
  /\ svm' = [svm EXCEPT ![c].registered[svm[c].current] = g,
                        ![c].vmcb_ghcb = RegDone]
  /\ said' = [said EXCEPT ![c][svm[c].current] = RegDone]
  /\ pc' = [pc EXCEPT ![c] = "host"]
  /\ UNCHANGED <<new, request, event, pin, vc, due>>

(* The guest writes the address of its GHCB to the MSR; no exit.           *)
SetGhcb(c, g) ==
  /\ pc[c] = "guest" /\ svm[c].vmcb_ghcb # g
  /\ SettingUp
  /\ svm' = [svm EXCEPT ![c].vmcb_ghcb = g]
  /\ said' = [said EXCEPT ![c][svm[c].current] = g]
  /\ UNCHANGED <<pc, new, request, event, pin, vc, due>>

(* HLT, and an exit that changes nothing here (interrupt, kick, timer).    *)
Halt(c) ==
  /\ pc[c] = "guest"
  /\ svm' = [svm EXCEPT ![c].mp_state = "halted"]
  /\ pc' = [pc EXCEPT ![c] = "host"]
  /\ UNCHANGED <<new, request, event, pin, said, vc, due, calls>>

OtherExit(c) ==
  /\ pc[c] = "guest"
  /\ pc' = [pc EXCEPT ![c] = "host"]
  /\ UNCHANGED <<svm, new, request, event, pin, said, vc, due, calls>>

(* An interrupt, INIT or SIPI for c, from a device or another vCPU.        *)
SendEvent(c, e) ==
  /\ e \notin event[c] /\ pc[c] # "error"
  /\ Happening
  /\ event' = [event EXCEPT ![c] = @ \cup {e}]
  /\ UNCHANGED <<svm, pc, new, request, pin, said, vc, due>>

(* sev_snp_ap_creation, by c for level v of vCPU t.  The slot is cleared   *)
(* and marked before the request is checked, so a refused request also     *)
(* takes the level's VMSA away once the target vCPU looks at the slot.     *)
(* Only CREATE_ON_INIT leaves the target vCPU alone.                       *)
ApRequests == {"create_on_init", "create", "destroy"}

(* What the checks accept: VMPL0 only from another vCPU whose VMCB runs    *)
(* its VMPL0 VMSA; a new VMSA has to be a 4 KB page that is not 2 MB       *)
(* aligned, with the injection mode of the level's other vCPUs.  Any       *)
(* address the checks refuse, for either reason, is INVALID_PAGE here.     *)
AcceptsCreation(c, t, v, r, gpa) ==
  /\ v = 0 => c # t /\ svm[c].vmsa_pa[0] = svm[c].vmcb_vmsa
  /\ r # "destroy" => gpa \in Page

(* Mutant: the target level stays that of an earlier request.              *)
FillSlotOldTarget(s, v, gpa) == [s EXCEPT !.gpa[v] = gpa]

FillSlot(s, v, gpa) == [s EXCEPT !.target = v, !.gpa[v] = gpa]

Kicks(ok, r) == ~(ok /\ r = "create_on_init")

ApCreation(c, t, v, r, gpa) ==
  /\ pc[c] = "guest" /\ c \in Creators /\ svm[c].vmcb_ghcb \in Ghcb
  /\ svm[c].registered[svm[c].current] = svm[c].vmcb_ghcb
  /\ Creating
  /\ LET ok == AcceptsCreation(c, t, v, r, gpa)
         slot == [svm[t] EXCEPT !.ap_create[v] = TRUE,
                                !.gpa[v] = INVALID_PAGE]
         made == IF ok /\ r # "destroy"
                 THEN FillSlot(slot, v, gpa) ELSE slot
         kick == Kicks(ok, r)
     IN /\ svm' = [svm EXCEPT ![t] =
                     IF kick /\ @.mp_state = "uninitialized"
                     THEN [made EXCEPT !.mp_state = "runnable"] ELSE made]
        /\ request' = IF kick THEN request \cup {t} ELSE request
        /\ due' = [due EXCEPT ![t] =
                     CASE ok /\ r = "create"         -> {v}
                       [] ok /\ r = "create_on_init" -> {}
                       [] OTHER                      -> @ \ {v}]
  /\ pc' = [pc EXCEPT ![c] = "host"]
  /\ UNCHANGED <<new, event, pin, said, vc>>

-----------------------------------------------------------------------------
GuestStep(c) ==
  \/ \E v \in Vmpl : RunVmplNae(c, v) \/ RunVmplMsr(c, v)
  \/ VcInterception(c)
  \/ \E g \in Ghcb : RegisterGhcb(c, g) \/ SetGhcb(c, g)
  \/ \E t \in VCpu, v \in Vmpl, r \in ApRequests,
        p \in Page \cup {INVALID_PAGE} : ApCreation(c, t, v, r, p)
  \/ Halt(c)
  \/ OtherExit(c)

HostStep(c) ==
  \/ HandleUpdateRequest(c)
  \/ AcceptEvents(c)
  \/ Unhalt(c)
  \/ Enter(c)
  \/ SwitchTakesUpdate(c)
  \/ SwitchOrRefuse(c)

Next == \E c \in VCpu : \/ GuestStep(c)
                        \/ HostStep(c)
                        \/ \E e \in {"init", "sipi", "irq"} : SendEvent(c, e)

(* The vCPU thread goes on as long as the VMM calls KVM_RUN, and a kick is *)
(* an IPI that takes a vCPU with a request out of the guest.               *)
Fairness ==
  \A c \in VCpu : /\ WF_vars(HostStep(c))
                  /\ WF_vars(c \in request /\ OtherExit(c))

Spec == Init /\ [][Next]_vars /\ Fairness

-----------------------------------------------------------------------------
(* Properties                                                              *)

(* The guest only ever runs on the VMSA that the host has recorded for the *)
(* level it believes to be current, whatever creation requests and         *)
(* switches met on the way (sev.c:3464-3475, 3913, 4597).                  *)
VmcbMatchesVmpl ==
  \A c \in VCpu : pc[c] = "guest" =>
    svm[c].vmcb_vmsa = svm[c].vmsa_pa[svm[c].current]

(* Every level finds in its GHCB MSR what it wrote or what the host        *)
(* answered it, also after other levels have run or a switch was replaced  *)
(* by a creation: GHCB values never move between levels.                   *)
GhcbKept ==
  \A c \in VCpu, v \in Vmpl :
    (IF v = svm[c].current THEN svm[c].vmcb_ghcb ELSE svm[c].ghcb_gpa[v])
      = said[c][v]

(* The host holds exactly one reference on a guest page for every level of *)
(* every vCPU that uses it as VMSA: none is given back early, none kept.   *)
PinsExact ==
  \A p \in Page :
    pin[p] = Cardinality({cv \in VCpu \X Vmpl : svm[cv[1]].vmsa_pa[cv[2]] = p})

(* A #VC taken in a trustlet level is next seen by the monitor at VMPL0,   *)
(* unless a creation request replaces a VMSA of that vCPU first            *)
(* (sev.c:3932-3948).                                                      *)
VcReachesMonitor ==
  [][\A c \in VCpu : pc[c] = "host" /\ pc'[c] = "guest" /\ c \in vc
       => svm[c].current = 0]_vars

(* An update request is always taken, also by a halted vCPU; only a vCPU   *)
(* that failed or waits for a SIPI does not get to it.                     *)
UpdateTaken ==
  \A c \in VCpu :
    c \in request ~> \/ c \notin request
                     \/ pc[c] = "error"
                     \/ svm[c].mp_state = "init_received"

(* AP_CREATE: "Switch to new VMSA on the next VMRUN" (sev.c:3629): the     *)
(* guest does not go on with the old VMSA of the level of the last CREATE  *)
(* accepted for a vCPU, whatever refused creations, DESTROYs, INITs and    *)
(* interrupts come in between.  There is one target level for all slots,   *)
(* so a second CREATE for another level, or a level switch that the vCPU   *)
(* asks for itself, has the request taken for that level (sev.c:3498,      *)
(* 3887) and the first slot wait.                                          *)
CreateTakesEffect ==
  \A c \in VCpu : pc[c] = "guest" /\ c \notin request
    => svm[c].current \notin due[c]
=============================================================================
