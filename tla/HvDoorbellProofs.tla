-------------------------- MODULE HvDoorbellProofs --------------------------
(***************************************************************************)
(* For every set of vectors: the host never writes over a vector that the  *)
(* guest has not taken, remembers which one it is, and the vCPU does not   *)
(* sleep on it.                                                            *)
(***************************************************************************)
EXTENDS HvDoorbell, FiniteSetTheorems, TLAPS

(* TypeOK bounds nmi_queued by MaxRaise; inductive is that every queued    *)
(* NMI has been raised.                                                    *)
QueuedWereRaised == nmi_queued <= raised

(* check_isr puts snp_doorbell_last_presented_vector in service.           *)
PresentedIsVector == presented => last \in Vector

DoorbellInv ==
  /\ TypeOK
  /\ QueuedWereRaised
  /\ PresentedIsVector
  /\ WaitingRemembered
  /\ NoSleepOnVector

-----------------------------------------------------------------------------
(* What it takes for a pair to be in the ordering.                         *)
LEMMA StrictSubsetPair ==
  ASSUME NEW S, NEW A \in SUBSET S, NEW B \in SUBSET S, A \subseteq B, A # B
  PROVE  <<A, B>> \in StrictSubsetOrdering(S)
PROOF BY DEF StrictSubsetOrdering

(* A non-empty finite set of numbers has a largest element: of the sets of *)
(* elements from some x on, one is minimal.                                *)
LEMMA MaxInSet ==
  ASSUME NEW S, S \subseteq Nat, IsFiniteSet(S), S # {}
  PROVE  Max(S) \in S
PROOF
  <1> DEFINE From(x) == {y \in S : y >= x}
             T == {From(x) : x \in S}
             R == StrictSubsetOrdering(S)
  <1>1. IsWellFoundedOn(R, SUBSET S)
    BY FS_StrictSubsetOrderingWellFounded, FS_FiniteSubsetsOfFinite
  <1>2. T \subseteq SUBSET S /\ T # {}
    OBVIOUS
  <1>3. PICK U \in T : \A V \in T : <<V, U>> \notin R
    <2> HIDE DEF T, R
    <2> QED BY <1>1, <1>2, WFMin
  <1>4. PICK x \in S : U = From(x)
    OBVIOUS
  <1>5. ASSUME NEW z \in S PROVE x >= z
    <2> x \in Nat /\ z \in Nat
      OBVIOUS
    <2> SUFFICES ASSUME z > x PROVE FALSE
      OBVIOUS
    <2>1. ASSUME NEW y \in From(z) PROVE y \in From(x)
      <3> y \in Nat
        OBVIOUS
      <3> QED OBVIOUS
    <2>2. x \in From(x) /\ x \notin From(z)
      OBVIOUS
    <2>3. <<From(z), From(x)>> \in R
      <3>1. From(z) \subseteq From(x) /\ From(z) # From(x)
        BY <2>1, <2>2
      <3>2. From(z) \in SUBSET S /\ From(x) \in SUBSET S
        OBVIOUS
      <3> HIDE DEF From
      <3> QED BY <3>1, <3>2, StrictSubsetPair
    <2> QED BY <2>3, <1>3, <1>4
  <1> QED BY <1>5 DEF Max

(* process_nmi leaves at most NmiLimit NMIs pending.                       *)
LEMMA ProcessNmiType ==
  ASSUME TypeOK PROVE ProcessNmi \in 0 .. NmiLimit
PROOF
  <1> DEFINE n == nmi_pending + nmi_queued
  <1>1. n \in Nat /\ nmi_pending \in 0 .. 2 /\ nmi_queued \in Nat
    BY DoorbellAssumption DEF TypeOK, NmiLimit
  <1> HIDE DEF n
  <1>2. Min({n, 2}) \in {n, 2} /\ Min({n, 2}) <= 2
    <2>1. \E x \in {n, 2} : \A y \in {n, 2} : x <= y
      BY <1>1
    <2> QED BY <2>1, <1>1 DEF Min
  <1> QED BY <1>1, <1>2 DEF ProcessNmi, NmiLimit, n

(* The vector that kvm_cpu_get_interrupt takes is one that was requested.  *)
LEMMA HighestRequested ==
  ASSUME TypeOK, Injectable # {} PROVE Max(Injectable) \in irr
PROOF
  <1>1. Injectable \subseteq irr /\ irr \subseteq Vector
    BY DEF TypeOK, Injectable
  <1>2. Injectable \subseteq Nat /\ IsFiniteSet(Injectable)
    BY <1>1, DoorbellAssumption, FS_Subset
  <1> QED BY <1>1, <1>2, MaxInSet

-----------------------------------------------------------------------------
(* The invariant holds initially and is preserved, one step per action.    *)

LEMMA InitDoorbell == Init => DoorbellInv
PROOF
  <1> SUFFICES ASSUME Init PROVE DoorbellInv
    OBVIOUS
  <1> USE DEF Init, EmptyPage
  <1>1. {req_event, active, presented, event_inj, hv, in_nmi} \subseteq BOOLEAN
    OBVIOUS
  <1>2. page \in [vector : Vector \cup {0}, nmi : BOOLEAN,
                  no_further_signal : BOOLEAN]
    OBVIOUS
  <1>3. TypeOK
    BY <1>1, <1>2, DoorbellAssumption DEF TypeOK, NmiLimit
  <1>4. QueuedWereRaised
    BY DEF QueuedWereRaised
  <1>5. PresentedIsVector /\ WaitingRemembered /\ NoSleepOnVector
    BY DEF PresentedIsVector, WaitingRemembered, NoSleepOnVector
  <1> QED BY <1>3, <1>4, <1>5 DEF DoorbellInv

(* Injection: the one place where the host writes to the doorbell page.    *)
LEMMA InjectKeepsType ==
  ASSUME TypeOK, InjectEvents PROVE TypeOK'
PROOF
  <1> USE DEF TypeOK
  <1>0. /\ UNCHANGED <<active, hv, serving, in_nmi, raised, cleared>>
        /\ pc' = "armed" /\ nmi_queued' = 0 /\ MaxRaise \in Nat
    BY DoorbellAssumption DEF InjectEvents, guest, bounds
  <1>1. ProcessNmi \in 0 .. NmiLimit
    BY ProcessNmiType
  <1>2. CASE EventsWanted /\ InjectNmi
    <2>1. ProcessNmi - 1 \in 0 .. NmiLimit
      BY <1>1, <1>2 DEF InjectNmi, NmiLimit
    <2>2. page' \in [vector : Vector \cup {0}, nmi : BOOLEAN,
                     no_further_signal : BOOLEAN]
      BY <1>2 DEF InjectNmi
    <2>3. event_inj' \in BOOLEAN /\ req_event' \in BOOLEAN
      BY <1>2 DEF InjectNmi
    <2> QED BY <1>0, <1>2, <2>1, <2>2, <2>3 DEF InjectNmi, apic
  <1>3. CASE EventsWanted /\ InjectIrq
    <2> DEFINE v == Max(Injectable)
    <2>1. v \in Vector
      BY <1>3, HighestRequested DEF InjectIrq
    <2> HIDE DEF v
    <2>2. irr' = irr \ {v} /\ isr' = isr \cup {v} /\ req_event' = FALSE
          /\ nmi_pending' = ProcessNmi
      BY <1>3 DEF InjectIrq, v
    <2>3. CASE active
      <3>1. /\ page' = [page EXCEPT !.vector = v,
                          !.no_further_signal = @ \/ page.vector = 0]
            /\ presented' = TRUE /\ last' = v
            /\ event_inj' = (page.vector = 0 /\ ~page.no_further_signal)
        BY <1>3, <2>3 DEF InjectIrq, v
      <3>2. page' \in [vector : Vector \cup {0}, nmi : BOOLEAN,
                       no_further_signal : BOOLEAN]
        BY <3>1, <2>1
      <3>3. event_inj' \in BOOLEAN
        BY <3>1
      <3>4. irr' \subseteq Vector /\ isr' \subseteq Vector
        BY <2>1, <2>2
      <3>5. {req_event, active, presented, event_inj, hv, in_nmi}' \subseteq BOOLEAN
        BY <1>0, <2>2, <3>1, <3>3
      <3> QED BY <1>0, <1>1, <2>1, <2>2, <3>1, <3>2, <3>4, <3>5
    <2>4. CASE ~active
      <3>1. UNCHANGED <<page, presented, last, event_inj>>
        BY <1>3, <2>4 DEF InjectIrq
      <3>4. irr' \subseteq Vector /\ isr' \subseteq Vector
        BY <2>1, <2>2
      <3>5. {req_event, active, presented, event_inj, hv, in_nmi}' \subseteq BOOLEAN
        BY <1>0, <2>2, <3>1
      <3> QED BY <1>0, <1>1, <2>2, <3>1, <3>4, <3>5
    <2> QED BY <2>3, <2>4
  <1>4. CASE EventsWanted /\ InjectNothing
    <2>1. /\ UNCHANGED <<irr, isr, page, presented, last, event_inj>>
          /\ req_event' = FALSE /\ nmi_pending' = ProcessNmi
      BY <1>4 DEF InjectNothing, apic
    <2>2. {req_event, active, presented, event_inj, hv, in_nmi}' \subseteq BOOLEAN
      BY <1>0, <2>1
    <2> QED BY <1>0, <1>1, <2>1, <2>2
  <1>5. CASE ~EventsWanted
    BY <1>0, <1>1, <1>5 DEF InjectEvents, apic
  <1> QED BY <1>2, <1>3, <1>4, <1>5 DEF InjectEvents

(* The start of every exit: check_isr.                                     *)
LEMMA ExitKeepsType ==
  ASSUME TypeOK, PresentedIsVector, CheckIsr
  PROVE  /\ CheckedIrr \subseteq Vector /\ CheckedIsr \subseteq Vector
         /\ presented' \in BOOLEAN /\ last' \in Vector \cup {0}
PROOF
  <1>1. CheckedIrr \subseteq Vector /\ CheckedIsr \subseteq Vector
    BY DEF TypeOK, PresentedIsVector, CheckedIrr, CheckedIsr, Taken
  <1>2. presented' \in BOOLEAN
    BY DEF CheckIsr
  <1>3. last' \in Vector \cup {0}
    BY DEF TypeOK, CheckIsr
  <1> QED BY <1>1, <1>2, <1>3

(* Every other step.                                                       *)
LEMMA StepKeepsType ==
  ASSUME TypeOK, QueuedWereRaised, PresentedIsVector, [Next]_vars
  PROVE  TypeOK'
PROOF
  <1> USE DEF TypeOK, apic, doorbell, nmi, guest, bounds
  <1>0. MaxRaise \in Nat /\ MaxDoorbell \in Nat
    BY DoorbellAssumption
  <1>1. ASSUME NEW v \in Vector, Raise(v) PROVE TypeOK'
    BY <1>0, <1>1 DEF Raise
  <1>2. CASE RaiseNmi
    BY <1>0, <1>2 DEF RaiseNmi, QueuedWereRaised
  <1>3. CASE InjectEvents
    BY <1>3, InjectKeepsType
  <1>4. CASE Enter
    BY <1>4 DEF Enter
  <1>5. CASE CancelInjection
    BY <1>5 DEF CancelInjection
  <1>6. CASE Wake
    BY <1>6 DEF Wake
  <1>7. CASE TakeEvents
    BY <1>7 DEF TakeEvents, EmptyPage
  <1>8. CASE DeferHv
    BY <1>8 DEF DeferHv
  <1>9. CASE Eoi
    <2>1. CheckIsr
      BY <1>9 DEF Eoi
    <2>2. req_event' \in BOOLEAN
      BY <1>9 DEF Eoi
    <2>3. isr' \subseteq CheckedIsr /\ serving' \subseteq serving
      BY <1>9 DEF Eoi
    <2> QED BY <1>9, <2>1, <2>2, <2>3, ExitKeepsType DEF Eoi
  <1>10. CASE NmiComplete
    BY <1>10, ExitKeepsType DEF NmiComplete
  <1>11. CASE Hlt
    BY <1>11, ExitKeepsType DEF Hlt
  <1>12. CASE OtherExit
    BY <1>12, ExitKeepsType DEF OtherExit
  <1>13. CASE SetDoorbell
    <2>1. CheckIsr /\ irr' = CheckedIrr /\ isr' = CheckedIsr
      BY <1>13 DEF SetDoorbell
    <2>2. {req_event, active, presented, event_inj, hv, in_nmi}' \subseteq BOOLEAN
      BY <1>13, <2>1, ExitKeepsType DEF SetDoorbell
    <2>3. cleared' \in 0 .. MaxDoorbell
      BY <1>0, <1>13 DEF SetDoorbell
    <2>4. page' \in [vector : Vector \cup {0}, nmi : BOOLEAN,
                     no_further_signal : BOOLEAN]
      <3>1. page' = page \/ page' = EmptyPage
        BY <1>13 DEF SetDoorbell
      <3>2. EmptyPage \in [vector : Vector \cup {0}, nmi : BOOLEAN,
                           no_further_signal : BOOLEAN]
        BY DEF EmptyPage
      <3> HIDE DEF EmptyPage
      <3> QED BY <3>1, <3>2
    <2> QED BY <1>13, <2>1, <2>2, <2>3, <2>4, ExitKeepsType DEF SetDoorbell
  <1>14. CASE ClearDoorbell
    <2>1. CheckIsr /\ irr' = CheckedIrr /\ isr' = CheckedIsr
      BY <1>14 DEF ClearDoorbell
    <2>2. {req_event, active, presented, event_inj, hv, in_nmi}' \subseteq BOOLEAN
      BY <1>14, <2>1, ExitKeepsType DEF ClearDoorbell
    <2>3. cleared' \in 0 .. MaxDoorbell
      BY <1>0, <1>14 DEF ClearDoorbell
    <2> QED BY <1>14, <2>1, <2>2, <2>3, ExitKeepsType DEF ClearDoorbell
  <1>15. CASE UNCHANGED vars
    BY <1>15 DEF vars
  <1> HIDE DEF TypeOK
  <1> QED
    BY <1>1, <1>2, <1>3, <1>4, <1>5, <1>6, <1>7, <1>8, <1>9, <1>10, <1>11,
       <1>12, <1>13, <1>14, <1>15
    DEF Next, HostStep, GuestStep

(* The NMIs that are queued have been raised.                              *)
LEMMA StepKeepsQueued ==
  ASSUME TypeOK, QueuedWereRaised, [Next]_vars PROVE QueuedWereRaised'
PROOF
  <1> USE DEF QueuedWereRaised, nmi, bounds
  <1>0. nmi_queued \in Nat /\ raised \in Nat
    BY DoorbellAssumption DEF TypeOK
  <1>1. ASSUME NEW v \in Vector, Raise(v) PROVE QueuedWereRaised'
    BY <1>0, <1>1 DEF Raise
  <1>2. CASE RaiseNmi
    BY <1>0, <1>2 DEF RaiseNmi
  <1>3. CASE InjectEvents
    BY <1>0, <1>3 DEF InjectEvents
  <1>4. CASE UNCHANGED <<nmi_queued, raised>>
    BY <1>4
  <1>5. (HostStep /\ ~InjectEvents) \/ GuestStep \/ UNCHANGED vars
          => UNCHANGED <<nmi_queued, raised>>
    BY DEF HostStep, GuestStep, vars, Enter, CancelInjection, Wake, TakeEvents,
           DeferHv, Eoi, NmiComplete, Hlt, OtherExit, SetDoorbell, ClearDoorbell
  <1> QED BY <1>1, <1>2, <1>3, <1>4, <1>5 DEF Next, HostStep

(* What a step can do to the doorbell: the host presents a vector,         *)
(* check_isr runs, with the page kept or another one set, the guest takes  *)
(* the pending word, or the page and what the host remembers of it stay,   *)
(* except for the flags of the page.                                       *)
PageKept == page'.vector = page.vector /\ UNCHANGED <<presented, last>>
Present == /\ active /\ ~Blocked
           /\ presented' = TRUE
           /\ last' = page'.vector /\ page'.vector \in Vector
Checks == CheckIsr /\ page'.vector \in {page.vector, 0}
Empties == page'.vector = 0 /\ UNCHANGED <<presented, last>>

LEMMA InjectDoorbell ==
  ASSUME TypeOK, InjectEvents PROVE PageKept \/ Present
PROOF
  <1> USE DEF TypeOK
  <1>1. CASE EventsWanted /\ InjectNmi
    BY <1>1 DEF InjectNmi, PageKept
  <1>2. CASE EventsWanted /\ InjectIrq
    <2>1. CASE active
      <3> DEFINE v == Max(Injectable)
      <3>1. v \in Vector
        BY <1>2, HighestRequested DEF InjectIrq
      <3> HIDE DEF v
      <3>2. /\ ~Blocked /\ presented' = TRUE /\ last' = v
            /\ page' = [page EXCEPT !.vector = v,
                          !.no_further_signal = @ \/ page.vector = 0]
        BY <1>2, <2>1 DEF InjectIrq, v
      <3>3. page'.vector = v
        BY <3>2
      <3> QED BY <2>1, <3>1, <3>2, <3>3 DEF Present
    <2>2. CASE ~active
      BY <1>2, <2>2 DEF InjectIrq, PageKept
    <2> QED BY <2>1, <2>2
  <1>3. CASE EventsWanted /\ InjectNothing
    BY <1>3 DEF InjectNothing, PageKept
  <1>4. CASE ~EventsWanted
    BY <1>4 DEF InjectEvents, PageKept
  <1> QED BY <1>1, <1>2, <1>3, <1>4 DEF InjectEvents

LEMMA StepDoorbell ==
  ASSUME TypeOK, [Next]_vars
  PROVE  PageKept \/ Present \/ Checks \/ Empties
PROOF
  <1> USE DEF doorbell
  <1>1. ASSUME NEW v \in Vector, Raise(v) PROVE PageKept
    BY <1>1 DEF Raise, PageKept
  <1>2. RaiseNmi \/ Enter \/ CancelInjection \/ Wake \/ DeferHv
          \/ UNCHANGED vars => PageKept
    BY DEF RaiseNmi, Enter, CancelInjection, Wake, DeferHv, vars, PageKept
  <1>3. Eoi \/ NmiComplete \/ Hlt \/ OtherExit \/ ClearDoorbell => Checks
    BY DEF Eoi, NmiComplete, Hlt, OtherExit, ClearDoorbell, Checks
  <1>4. SetDoorbell => Checks
    BY DEF SetDoorbell, EmptyPage, Checks
  <1>5. TakeEvents => Empties
    BY DEF TakeEvents, EmptyPage, Empties
  <1> QED BY <1>1, <1>2, <1>3, <1>4, <1>5, InjectDoorbell DEF Next, HostStep, GuestStep

(* The vector in the page is the one the host remembers.                   *)
LEMMA StepKeepsRemembered ==
  ASSUME TypeOK, PresentedIsVector, WaitingRemembered, [Next]_vars
  PROVE  PresentedIsVector' /\ WaitingRemembered'
PROOF
  <1> USE DEF PresentedIsVector, WaitingRemembered
  <1>1. CASE PageKept
    BY <1>1 DEF PageKept
  <1>2. CASE Present
    BY <1>2 DEF Present
  <1>3. CASE Checks
    BY <1>3 DEF Checks, CheckIsr, Taken
  <1>4. CASE Empties
    BY <1>4 DEF Empties
  <1> QED BY <1>1, <1>2, <1>3, <1>4, StepDoorbell

(* HLT looks at the page after check_isr, and while the vCPU is blocked    *)
(* only devices act.                                                       *)
LEMMA StepKeepsAwake ==
  ASSUME TypeOK, WaitingRemembered, NoSleepOnVector, [Next]_vars
  PROVE  NoSleepOnVector'
PROOF
  <1> USE DEF NoSleepOnVector
  <1>1. CASE Hlt
    BY <1>1 DEF Hlt, SkipHlt, CheckIsr, Taken, WaitingRemembered
  <1>2. ASSUME NEW v \in Vector, Raise(v) PROVE NoSleepOnVector'
    BY <1>2 DEF Raise, doorbell
  <1>3. CASE RaiseNmi
    BY <1>3 DEF RaiseNmi, doorbell
  <1>4. CASE UNCHANGED vars
    BY <1>4 DEF vars
  <1>5. HostStep \/ (GuestStep /\ ~Hlt) => pc' # "halted"
    BY DEF HostStep, GuestStep, InjectEvents, Enter, CancelInjection, Wake,
           TakeEvents, DeferHv, Eoi, NmiComplete, OtherExit, SetDoorbell,
           ClearDoorbell
  <1> QED BY <1>1, <1>2, <1>3, <1>4, <1>5 DEF Next, GuestStep

LEMMA StepDoorbellInv == DoorbellInv /\ [Next]_vars => DoorbellInv'
PROOF
  BY StepKeepsType, StepKeepsQueued, StepKeepsRemembered, StepKeepsAwake
  DEF DoorbellInv

LEMMA DoorbellInvariant == Spec => []DoorbellInv
PROOF
  BY InitDoorbell, StepDoorbellInv, PTL DEF Spec

-----------------------------------------------------------------------------
(* Type correctness: the APIC registers and the doorbell hold vectors      *)
(* only, and at most two NMIs are pending.                                 *)
THEOREM DoorbellTypeCorrect == Spec => []TypeOK
PROOF
  <1>1. DoorbellInv => TypeOK
    BY DEF DoorbellInv
  <1> QED BY <1>1, DoorbellInvariant, PTL

(* The vector that waits in the doorbell is the one whose acceptance       *)
(* check_isr will note.                                                    *)
THEOREM VectorRemembered == Spec => []WaitingRemembered
PROOF
  <1>1. DoorbellInv => WaitingRemembered
    BY DEF DoorbellInv
  <1> QED BY <1>1, DoorbellInvariant, PTL

(* sev_should_skip_hlt: no vCPU is blocked with a vector in its page.      *)
THEOREM AwakeForVector == Spec => []NoSleepOnVector
PROOF
  <1>1. DoorbellInv => NoSleepOnVector
    BY DEF DoorbellInv
  <1> QED BY <1>1, DoorbellInvariant, PTL

(* sev_restricted_injection_blocked: the host does not write a vector over *)
(* another one.                                                            *)
THEOREM VectorNotOverwritten == Spec => NeverOverwritten
PROOF
  <1>1. DoorbellInv /\ [Next]_vars
          => [page.vector # 0 => page'.vector \in {page.vector, 0}]_vars
    <2> SUFFICES ASSUME DoorbellInv, [Next]_vars, page.vector # 0
                 PROVE  page'.vector \in {page.vector, 0}
      OBVIOUS
    <2>1. ~Present
      BY DEF DoorbellInv, WaitingRemembered, Present, Blocked
    <2> QED BY <2>1, StepDoorbell DEF DoorbellInv, PageKept, Checks, Empties
  <1> QED BY <1>1, DoorbellInvariant, PTL DEF Spec, NeverOverwritten
=============================================================================
