----------------------------- MODULE HvDoorbell -----------------------------
(***************************************************************************)
(* Restricted injection: how the host gives interrupts to a VMPL that only *)
(* accepts the #HV exception (src/host/kvm/svm/sev.c:4127-4345 with its    *)
(* callers in svm.c, x86.c and lapic.c).                                   *)
(*                                                                         *)
(* The host writes the vector into the doorbell page, a guest page both    *)
(* sides write, and injects #HV unless the page says no_further_signal.    *)
(* The local APIC believes the interrupt in service from then on; at every *)
(* exit the host looks whether the guest has taken the vector.  One vCPU   *)
(* at one restricted level; devices and the guest are the environment.     *)
(*                                                                         *)
(* Steps of the vCPU thread: "host" is the top of vcpu_enter_guest, where  *)
(* events are injected, "armed" is between the injection and VMRUN,        *)
(* "guest" is after it, "halted" is blocked in vcpu_block.                 *)
(***************************************************************************)
EXTENDS Integers, FiniteSetsExt

CONSTANTS Vector,      \* interrupt vectors, each a priority class of its own
          MaxRaise,    \* bound: interrupts and NMIs in one behaviour
          MaxDoorbell  \* bound: times the guest clears or moves its doorbell

ASSUME DoorbellAssumption ==
  /\ Vector \subseteq Nat \ {0} /\ IsFiniteSet(Vector)
  /\ MaxRaise \in Nat /\ MaxDoorbell \in Nat

VARIABLES
  irr, isr,      \* request and in-service registers of the local APIC
  nmi_queued,    \* vcpu->arch.nmi_queued (KVM_REQ_NMI is set when it is not 0)
  nmi_pending,   \* vcpu->arch.nmi_pending
  req_event,     \* KVM_REQ_EVENT
  page,          \* pending_event of the doorbell page
  active,        \* snp_doorbell_active (the APIC is software enabled with it)
  presented,     \* snp_doorbell_presented_vector
  last,          \* snp_doorbell_last_presented_vector
  event_inj,     \* #HV in the VMCB
  pc,            \* where the vCPU thread is
  hv,            \* guest: #HV taken, handler not yet run
  serving,       \* guest: vectors it handles and has not yet acknowledged
  in_nmi,        \* guest: it handles an NMI and has not reported it complete
  raised, cleared  \* counters for the bounds

vars == <<irr, isr, nmi_queued, nmi_pending, req_event, page, active, presented, last,
          event_inj, pc, hv, serving, in_nmi, raised, cleared>>
apic == <<irr, isr>>
doorbell == <<active, presented, last>>
nmi == <<nmi_queued, nmi_pending>>
guest == <<hv, serving, in_nmi>>
bounds == <<raised, cleared>>

NmiLimit == 2  \* limit in process_nmi; restricted levels never mask NMIs

EmptyPage == [vector |-> 0, nmi |-> FALSE, no_further_signal |-> FALSE]

TypeOK ==
  /\ irr \subseteq Vector /\ isr \subseteq Vector
  /\ nmi_queued \in 0 .. MaxRaise /\ nmi_pending \in 0 .. NmiLimit
  /\ page \in [vector : Vector \cup {0}, nmi : BOOLEAN,
               no_further_signal : BOOLEAN]
  /\ {req_event, active, presented, event_inj, hv, in_nmi} \subseteq BOOLEAN
  /\ last \in Vector \cup {0}
  /\ pc \in {"host", "armed", "guest", "halted"}
  /\ serving \subseteq Vector
  /\ raised \in 0 .. MaxRaise /\ cleared \in 0 .. MaxDoorbell

(* A level that was created with restricted injection; its guest has not   *)
(* yet set a doorbell page.                                                *)
Init ==
  /\ irr = {} /\ isr = {} /\ nmi_queued = 0 /\ nmi_pending = 0 /\ req_event = FALSE
  /\ page = EmptyPage
  /\ active = FALSE /\ presented = FALSE /\ last = 0 /\ event_inj = FALSE
  /\ pc = "host" /\ hv = FALSE /\ serving = {} /\ in_nmi = FALSE
  /\ raised = 0 /\ cleared = 0

-----------------------------------------------------------------------------
(* Devices                                                                 *)

(* __apic_accept_irq: a disabled APIC ignores the interrupt; otherwise the *)
(* request bit is set and the vCPU is asked to look at its events.         *)
Raise(v) ==
  /\ raised < MaxRaise /\ raised' = raised + 1
  /\ irr' = IF active THEN irr \cup {v} ELSE irr
  /\ req_event' = (req_event \/ active)
  /\ UNCHANGED <<isr, nmi, page, doorbell, event_inj, pc, guest, cleared>>

(* kvm_inject_nmi.                                                         *)
RaiseNmi ==
  /\ raised < MaxRaise /\ raised' = raised + 1
  /\ nmi_queued' = nmi_queued + 1
  /\ UNCHANGED <<apic, nmi_pending, req_event, page, doorbell, event_inj, pc, guest, cleared>>

-----------------------------------------------------------------------------
(* Injection, before VMRUN                                                 *)

(* kvm_apic_has_interrupt: a requested vector above all those in service.  *)
Injectable == {v \in irr : \A w \in isr : v > w}

(* Mutant: a vector may be presented over one the guest has not taken.     *)
NeverBlocked == FALSE

(* sev_restricted_injection_blocked: a presented vector is still there.    *)
Blocked == active /\ presented /\ page.vector # 0

(* kvm_vcpu_has_events for a halted vCPU.                                  *)
HasEvents == \/ nmi_queued > 0
             \/ nmi_pending > 0 /\ active
             \/ Injectable # {} /\ ~Blocked

(* process_nmi: the NMIs that are pending once the queued ones are added;  *)
(* it asks for the injection of those there are.                           *)
ProcessNmi == IF nmi_queued = 0 THEN nmi_pending
              ELSE Min({nmi_pending + nmi_queued, NmiLimit})
EventsWanted == req_event \/ (nmi_queued > 0 /\ ProcessNmi > 0)

(* sev_inject_restricted_nmi: the NMI bit, and #HV unless told otherwise.  *)
(* A vector that could be injected too has to wait for the next entry; a   *)
(* second NMI waits until the guest reports this one complete.             *)
InjectNmi ==
  /\ ProcessNmi > 0 /\ active
  /\ nmi_pending' = ProcessNmi - 1
  /\ page' = [page EXCEPT !.nmi = TRUE, !.no_further_signal = TRUE]
  /\ event_inj' = ~page.no_further_signal
  /\ req_event' = (Injectable # {})
  /\ UNCHANGED <<apic, presented, last>>

(* kvm_cpu_get_interrupt moves the highest vector from IRR to ISR;         *)
(* sev_inject_restricted_irq presents it, and does nothing at all without  *)
(* a doorbell.                                                             *)
InjectIrq ==
  /\ ~(ProcessNmi > 0 /\ active) /\ Injectable # {} /\ ~Blocked
  /\ LET v == Max(Injectable)
     IN /\ irr' = irr \ {v}
        /\ isr' = isr \cup {v}
        /\ IF active
           THEN /\ page' = [page EXCEPT !.vector = v,
                     !.no_further_signal = @ \/ page.vector = 0]
                /\ presented' = TRUE /\ last' = v
                /\ event_inj' = (page.vector = 0 /\ ~page.no_further_signal)
           ELSE UNCHANGED <<page, presented, last, event_inj>>
  /\ req_event' = FALSE
  /\ nmi_pending' = ProcessNmi

(* Nothing to inject, or only what has to wait.  The interrupt window that *)
(* the host asks for then does not exist under restricted injection.       *)
InjectNothing ==
  /\ ~(ProcessNmi > 0 /\ active) /\ (Injectable = {} \/ Blocked)
  /\ req_event' = FALSE
  /\ nmi_pending' = ProcessNmi
  /\ UNCHANGED <<apic, page, presented, last, event_inj>>

(* vcpu_enter_guest: process_nmi, and when KVM_REQ_EVENT is set            *)
(* kvm_check_and_inject_events.                                            *)
InjectEvents ==
  /\ pc = "host" /\ pc' = "armed"
  /\ nmi_queued' = 0
  /\ IF EventsWanted
     THEN InjectNmi \/ InjectIrq \/ InjectNothing
     ELSE /\ nmi_pending' = ProcessNmi
          /\ UNCHANGED <<apic, page, presented, last, event_inj, req_event>>
  /\ UNCHANGED <<active, guest, bounds>>

(* VMRUN delivers the #HV of the VMCB.                                     *)
Enter ==
  /\ pc = "armed" /\ pc' = "guest"
  /\ hv' = (hv \/ event_inj)
  /\ event_inj' = FALSE
  /\ UNCHANGED <<apic, nmi, req_event, page, doorbell, serving, in_nmi, bounds>>

(* A request or a signal shows up before VMRUN: svm_cancel_injection takes *)
(* the event out of the VMCB, and at a restricted level                    *)
(* svm_complete_interrupts does not queue it again.                        *)
CancelInjection ==
  /\ pc = "armed" /\ pc' = "host"
  /\ req_event' = (req_event \/ event_inj)
  /\ event_inj' = FALSE
  /\ UNCHANGED <<apic, nmi, page, doorbell, guest, bounds>>

-----------------------------------------------------------------------------
(* The guest and its exits                                                 *)

(* External: the guest exchanges the pending word for an empty one, from   *)
(* the #HV handler or when it enables interrupts, and starts serving.      *)
TakeEvents ==
  /\ pc = "guest" /\ (hv \/ page # EmptyPage)
  /\ page' = EmptyPage /\ hv' = FALSE
  /\ serving' = IF page.vector = 0 THEN serving ELSE serving \cup {page.vector}
  /\ in_nmi' = (in_nmi \/ page.nmi)
  /\ UNCHANGED <<apic, nmi, req_event, doorbell, event_inj, pc, bounds>>

(* External: while it serves a vector with interrupts disabled, the guest  *)
(* leaves the page for later.                                              *)
DeferHv ==
  /\ pc = "guest" /\ hv /\ serving # {}
  /\ hv' = FALSE
  /\ UNCHANGED <<apic, nmi, req_event, page, doorbell, event_inj, pc, serving,
                 in_nmi, bounds>>

(* sev_restricted_injection_check_isr, first thing at every exit: once the *)
(* guest has taken the vector, the APIC moves it from IRR to ISR.          *)
Taken == active /\ presented /\ page.vector = 0
CheckedIrr == IF Taken THEN irr \ {last} ELSE irr
CheckedIsr == IF Taken THEN isr \cup {last} ELSE isr

(* Mutant: the vector counts as taken while it is still in the page.       *)
CheckIsrEarly == presented' = (presented /\ ~active) /\ UNCHANGED last

CheckIsr == presented' = (presented /\ ~Taken) /\ UNCHANGED last

(* Mutant: EOI does not ask for another look at the events.                *)
EoiNoRequest == FALSE

(* apic_set_eoi, from the guest's EOI write.                               *)
EoiRequest == CheckedIsr # {}

Eoi ==
  /\ pc = "guest" /\ serving # {} /\ ~hv
  /\ pc' = "host"
  /\ CheckIsr
  /\ irr' = CheckedIrr
  /\ isr' = IF CheckedIsr = {} THEN {} ELSE CheckedIsr \ {Max(CheckedIsr)}
  /\ req_event' = (req_event \/ EoiRequest)
  /\ serving' = serving \ {Max(serving)}
  /\ UNCHANGED <<nmi, page, active, event_inj, hv, in_nmi, bounds>>

(* SVM_VMGEXIT_NMI_COMPLETE.                                               *)
NmiComplete ==
  /\ pc = "guest" /\ in_nmi /\ ~hv
  /\ pc' = "host"
  /\ CheckIsr
  /\ irr' = CheckedIrr /\ isr' = CheckedIsr
  /\ req_event' = TRUE /\ in_nmi' = FALSE
  /\ UNCHANGED <<nmi, page, active, event_inj, hv, serving, bounds>>

(* Mutant: HLT always blocks.                                              *)
SkipHltNever == FALSE

(* sev_should_skip_hlt: HLT returns at once while a vector is presented.   *)
SkipHlt == active /\ presented' /\ page.vector # 0

Hlt ==
  /\ pc = "guest" /\ serving = {} /\ ~in_nmi /\ ~hv
  /\ CheckIsr
  /\ irr' = CheckedIrr /\ isr' = CheckedIsr
  /\ pc' = IF SkipHlt THEN "host" ELSE "halted"
  /\ UNCHANGED <<nmi, req_event, page, active, event_inj, guest, bounds>>

(* vcpu_block.                                                             *)
Wake ==
  /\ pc = "halted" /\ HasEvents /\ pc' = "host"
  /\ UNCHANGED <<apic, nmi, req_event, page, doorbell, event_inj,
                 guest, bounds>>

(* Any exit that is neither of these: an intercept, a kick, a timer.       *)
OtherExit ==
  /\ pc = "guest" /\ pc' = "host"
  /\ CheckIsr
  /\ irr' = CheckedIrr /\ isr' = CheckedIsr
  /\ UNCHANGED <<nmi, req_event, page, active, event_inj, guest, bounds>>

(* sev_snp_hv_doorbell_page: SET and CLEAR also enable and disable the     *)
(* APIC.  The page is the one before, or another one, which the guest has  *)
(* emptied; moving an active doorbell gives up what the old page holds.    *)
SetDoorbell ==
  /\ pc = "guest" /\ pc' = "host"
  /\ CheckIsr
  /\ irr' = CheckedIrr /\ isr' = CheckedIsr
  /\ page' \in {page, EmptyPage}
  /\ cleared' = IF active /\ page' # page THEN cleared + 1 ELSE cleared
  /\ cleared' <= MaxDoorbell
  /\ active' = TRUE /\ req_event' = TRUE
  /\ UNCHANGED <<nmi, event_inj, guest, raised>>

ClearDoorbell ==
  /\ pc = "guest" /\ active /\ pc' = "host"
  /\ cleared < MaxDoorbell /\ cleared' = cleared + 1
  /\ CheckIsr
  /\ irr' = CheckedIrr /\ isr' = CheckedIsr
  /\ active' = FALSE
  /\ UNCHANGED <<nmi, req_event, page, event_inj, guest, raised>>

-----------------------------------------------------------------------------
HostStep == InjectEvents \/ Enter \/ CancelInjection \/ Wake
GuestStep == TakeEvents \/ DeferHv \/ Eoi \/ NmiComplete \/ Hlt \/ OtherExit \/ SetDoorbell \/ ClearDoorbell

Next == \/ \E v \in Vector : Raise(v)
        \/ RaiseNmi
        \/ HostStep
        \/ GuestStep

(* The thread goes on, VMRUN is not cancelled for ever, a pending request  *)
(* kicks the vCPU out of the guest, and the guest looks at its doorbell    *)
(* and acknowledges what it serves.                                        *)
Fairness ==
  /\ WF_vars(InjectEvents) /\ SF_vars(Enter) /\ WF_vars(Wake)
  /\ WF_vars((req_event \/ nmi_queued > 0) /\ OtherExit)
  /\ SF_vars(TakeEvents) /\ SF_vars(Eoi) /\ SF_vars(NmiComplete)

Spec == Init /\ [][Next]_vars /\ Fairness

-----------------------------------------------------------------------------
(* Properties                                                              *)

(* A vector in the doorbell stays until the guest takes it: the host never *)
(* presents another one over it (sev.c:4267-4288).                         *)
NeverOverwritten ==
  [][page.vector # 0 => page'.vector \in {page.vector, 0}]_vars

(* The vector that waits in the doorbell is the one whose acceptance the   *)
(* host will note: presented and last are never about another vector.      *)
WaitingRemembered ==
  page.vector # 0 => presented /\ last = page.vector

(* The vCPU never sleeps while its active doorbell holds a vector          *)
(* (svm.c:3270-3290).                                                      *)
NoSleepOnVector == pc = "halted" /\ active => page.vector = 0

(* A request for the highest vector, and an NMI, always reaches the        *)
(* doorbell, however injections, cancelled entries and exits interleave,   *)
(* except for two cases: the guest has cleared or moved the doorbell       *)
(* (sev.c:4186), or the vector was presented already when the request came *)
(* and check_isr takes both for one (kvm_apic_clear_irr, sev.c:4237).      *)
HighestGetsThrough ==
  LET v == Max(Vector)
  IN /\ (v \in irr /\ ~(presented /\ last = v)) ~> (page.vector = v \/ cleared > 0)
     /\ (nmi_pending > 0 /\ active) ~> (page.nmi \/ cleared > 0)
=============================================================================
