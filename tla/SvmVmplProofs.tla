--------------------------- MODULE SvmVmplProofs ---------------------------
(***************************************************************************)
(* For every number of vCPUs, levels and pages, and every sequence of      *)
(* switches and AP creations: the guest runs on the VMSA of its level,     *)
(* GHCB values stay with their level, a #VC reaches VMPL0, the references  *)
(* on VMSA pages are exact, and an accepted CREATE takes effect.           *)
(***************************************************************************)
EXTENDS SvmVmpl, FiniteSetTheorems, TLAPS

(* The part of the state of a vCPU that says what runs.                    *)
SameCore(s, r) ==
  /\ r.vmsa_pa = s.vmsa_pa /\ r.vmcb_vmsa = s.vmcb_vmsa
  /\ r.ghcb_gpa = s.ghcb_gpa /\ r.vmcb_ghcb = s.vmcb_ghcb
  /\ r.current = s.current

(* The GHCB MSR value of level v, wherever it is kept.                     *)
GhcbOf(s, v) == IF v = s.current THEN s.vmcb_ghcb ELSE s.ghcb_gpa[v]

(* The VMCB has no VMSA or that of the current level.                      *)
VmsaOK(s) == s.vmcb_vmsa \in {INVALID_PAGE, s.vmsa_pa[s.current]}

LEMMA VmplFacts == 0 \in Vmpl /\ INVALID_PAGE \in Vmsas
PROOF BY VmplAssumption DEF Vmpl, Vmsas

-----------------------------------------------------------------------------
(* Taking a creation request                                               *)

LEMMA MakeTargetCurrentKeeps ==
  ASSUME NEW s \in SvmState
  PROVE  /\ MakeTargetCurrent(s) \in SvmState
         /\ MakeTargetCurrent(s).current = s.target
         /\ MakeTargetCurrent(s).vmsa_pa = s.vmsa_pa
         /\ MakeTargetCurrent(s).vmcb_vmsa = s.vmcb_vmsa
         /\ \A v \in Vmpl : GhcbOf(MakeTargetCurrent(s), v) = GhcbOf(s, v)
PROOF
  <1>1. CASE s.current = s.target
    BY <1>1 DEF MakeTargetCurrent
  <1>2. CASE s.current # s.target
    <2> DEFINE r == [s EXCEPT !.ghcb_gpa[s.current] = s.vmcb_ghcb,
                              !.vmcb_ghcb = s.ghcb_gpa[s.target],
                              !.current = s.target]
    <2>1. MakeTargetCurrent(s) = r
      BY <1>2 DEF MakeTargetCurrent
    <2>2. s.current \in Vmpl /\ s.target \in Vmpl /\ s.ghcb_gpa \in [Vmpl -> GhcbMsrs]
          /\ s.vmcb_ghcb \in GhcbMsrs
      BY DEF SvmState
    <2>3. r \in SvmState
      BY <2>2 DEF SvmState
    <2>4. /\ r.current = s.target /\ r.vmsa_pa = s.vmsa_pa
          /\ r.vmcb_vmsa = s.vmcb_vmsa /\ r.vmcb_ghcb = s.ghcb_gpa[s.target]
          /\ r.ghcb_gpa = [s.ghcb_gpa EXCEPT ![s.current] = s.vmcb_ghcb]
      BY DEF SvmState
    <2> HIDE DEF r
    <2>5. ASSUME NEW v \in Vmpl PROVE GhcbOf(r, v) = GhcbOf(s, v)
      BY <1>2, <2>2, <2>4 DEF GhcbOf
    <2> QED BY <2>1, <2>3, <2>4, <2>5
  <1> QED BY <1>1, <1>2

LEMMA UpdateKeeps ==
  ASSUME NEW s \in SvmState
  PROVE  /\ UpdateProtectedState(s) \in SvmState
         /\ VmsaOK(UpdateProtectedState(s))
         /\ \A v \in Vmpl : GhcbOf(UpdateProtectedState(s), v) = GhcbOf(s, v)
PROOF
  <1> DEFINE t == s.target
             gpa == s.gpa[t]
             cleared == [s EXCEPT !.mp_state = "halted",
                                  !.vmsa_pa[t] = INVALID_PAGE,
                                  !.vmcb_vmsa = INVALID_PAGE]
             loaded == [cleared EXCEPT !.mp_state = "runnable",
                                       !.vmsa_pa[t] = gpa,
                                       !.vmcb_vmsa = gpa,
                                       !.gpa[t] = INVALID_PAGE]
  <1>0. t \in Vmpl /\ gpa \in Page \cup {INVALID_PAGE}
    BY DEF SvmState
  <1>1. cleared \in SvmState /\ cleared.target = t
        /\ cleared.vmcb_vmsa = INVALID_PAGE
    BY <1>0 DEF SvmState, MpStates, Vmsas
  <1>2. \A v \in Vmpl : GhcbOf(cleared, v) = GhcbOf(s, v)
    BY DEF GhcbOf, SvmState
  <1>3. ASSUME gpa \in Backed
        PROVE  /\ loaded \in SvmState /\ loaded.target = t
               /\ loaded.vmcb_vmsa = gpa /\ loaded.vmsa_pa[t] = gpa
    <2> gpa \in Page
      BY <1>3, VmplAssumption
    <2> HIDE DEF cleared, gpa, t
    <2>1. /\ cleared.vmsa_pa \in [Vmpl -> Vmsas]
          /\ cleared.gpa \in [Vmpl -> Page \cup {INVALID_PAGE}]
      BY <1>1 DEF SvmState
    <2> QED BY <1>0, <1>1, <2>1 DEF SvmState, MpStates, Vmsas
  <1>4. \A v \in Vmpl : GhcbOf(loaded, v) = GhcbOf(cleared, v)
    <2> HIDE DEF cleared, gpa, t
    <2> QED BY <1>1 DEF GhcbOf, SvmState
  <1>5. UpdateProtectedState(s) =
          CASE gpa = INVALID_PAGE -> MakeTargetCurrent(cleared)
            [] gpa \in Backed     -> MakeTargetCurrent(loaded)
            [] OTHER              -> cleared
    BY DEF UpdateProtectedState
  <1> DEFINE u == UpdateProtectedState(s)
  <1> HIDE DEF cleared, loaded, gpa, t, u
  <1>6. u = MakeTargetCurrent(cleared) \/ u = cleared
        \/ (gpa \in Backed /\ u = MakeTargetCurrent(loaded))
    BY <1>5 DEF u
  <1>7. CASE u = cleared
    BY <1>1, <1>2, <1>7 DEF u, VmsaOK
  <1>8. CASE u = MakeTargetCurrent(cleared)
    BY <1>1, <1>2, <1>8, MakeTargetCurrentKeeps DEF u, VmsaOK
  <1>9. CASE gpa \in Backed /\ u = MakeTargetCurrent(loaded)
    BY <1>2, <1>3, <1>4, <1>9, MakeTargetCurrentKeeps DEF u, VmsaOK
  <1> QED BY <1>6, <1>7, <1>8, <1>9

LEMMA InitProtectedKeeps ==
  ASSUME NEW s \in SvmState, VmsaOK(s)
  PROVE  /\ InitProtectedState(s) \in SvmState
         /\ VmsaOK(InitProtectedState(s))
         /\ \A v \in Vmpl : GhcbOf(InitProtectedState(s), v) = GhcbOf(s, v)
         /\ ~HasUpdate(s) => InitProtectedState(s) = s
PROOF
  <1> DEFINE r == [s EXCEPT !.ap_create[s.target] = FALSE]
  <1>1. r \in SvmState
    BY DEF SvmState
  <1>2. \A v \in Vmpl : GhcbOf(r, v) = GhcbOf(s, v)
    BY DEF GhcbOf, SvmState
  <1> HIDE DEF r
  <1>3. CASE HasUpdate(s)
    <2>1. InitProtectedState(s) = UpdateProtectedState(r)
      BY <1>3 DEF InitProtectedState, r
    <2> QED BY <1>1, <1>2, <1>3, <2>1, UpdateKeeps
  <1>4. CASE ~HasUpdate(s)
    BY <1>4 DEF InitProtectedState
  <1> QED BY <1>3, <1>4

LEMMA InitResetKeeps ==
  ASSUME NEW s \in SvmState, VmsaOK(s)
  PROVE  /\ InitReset(s) \in SvmState
         /\ VmsaOK(InitReset(s))
         /\ \A v \in Vmpl : GhcbOf(InitReset(s), v) = GhcbOf(s, v)
         /\ ~HasUpdate(s) => InitReset(s).current = s.current
PROOF
  <1> DEFINE u == InitProtectedState(s)
             r == [u EXCEPT !.vmcb_vmsa = u.vmsa_pa[u.current]]
  <1>1. InitReset(s) = r
    BY DEF InitReset
  <1>2. /\ u \in SvmState
        /\ ~HasUpdate(s) => u = s
        /\ \A v \in Vmpl : GhcbOf(u, v) = GhcbOf(s, v)
    BY InitProtectedKeeps
  <1> HIDE DEF u
  <1>3. u.vmsa_pa[u.current] \in Vmsas
    BY <1>2 DEF SvmState
  <1>4. r \in SvmState /\ r.current = u.current
    BY <1>2, <1>3 DEF SvmState
  <1>5. VmsaOK(r) /\ \A v \in Vmpl : GhcbOf(r, v) = GhcbOf(u, v)
    BY <1>2, <1>3 DEF SvmState, VmsaOK, GhcbOf
  <1> QED BY <1>1, <1>2, <1>4, <1>5

(* A switch to another level than the current one.                         *)
LEMMA SwitchLevelKeeps ==
  ASSUME NEW s \in SvmState, NEW n \in Vmpl, n # s.current
  PROVE  /\ SwitchLevel(s, n) \in SvmState
         /\ VmsaOK(SwitchLevel(s, n))
         /\ SwitchLevel(s, n).current = n
         /\ \A v \in Vmpl : GhcbOf(SwitchLevel(s, n), v) = GhcbOf(s, v)
PROOF
  <1> DEFINE r == SwitchLevel(s, n)
  <1>1. /\ s.current \in Vmpl /\ s.vmcb_ghcb \in GhcbMsrs
        /\ s.ghcb_gpa \in [Vmpl -> GhcbMsrs] /\ s.vmsa_pa \in [Vmpl -> Vmsas]
    BY DEF SvmState
  <1>2. r \in SvmState
    BY <1>1 DEF SwitchLevel, SvmState
  <1>3. /\ r.current = n /\ r.vmsa_pa = s.vmsa_pa
        /\ r.vmcb_vmsa = s.vmsa_pa[n] /\ r.vmcb_ghcb = s.ghcb_gpa[n]
        /\ r.ghcb_gpa = [s.ghcb_gpa EXCEPT ![s.current] = s.vmcb_ghcb]
    BY DEF SwitchLevel, SvmState
  <1> HIDE DEF r
  <1>4. ASSUME NEW v \in Vmpl PROVE GhcbOf(r, v) = GhcbOf(s, v)
    BY <1>1, <1>3 DEF GhcbOf
  <1> QED BY <1>2, <1>3, <1>4 DEF VmsaOK, r

-----------------------------------------------------------------------------
(* The inductive invariant                                                 *)

(* The types that matter here; page references and counters do not.        *)
VmplTypes ==
  /\ svm \in [VCpu -> SvmState]
  /\ pc \in [VCpu -> {"host", "guest", "target", "checked", "error"}]
  /\ new \in [VCpu -> [vmpl : Vmpl, by : {"nae", "msr", "vc", "none"}]]
  /\ said \in [VCpu -> [Vmpl -> GhcbMsrs]]

(* A #VC is on its way to VMPL0.                                           *)
VcOnItsWay(c) ==
  \/ pc[c] \in {"target", "checked"} /\ new[c] = [vmpl |-> 0, by |-> "vc"]
  \/ pc[c] = "host" /\ svm[c].current = 0
  \/ pc[c] = "error"

(* One vCPU.  That a switch is to another level than the current one stays *)
(* true between its two halves, because only the vCPU's own thread changes *)
(* the current level; without it the switch would lose the GHCB value that *)
(* the VMCB holds.                                                         *)
VCpuOK(c) ==
  /\ VmsaOK(svm[c])
  /\ \A v \in Vmpl : GhcbOf(svm[c], v) = said[c][v]
  /\ pc[c] = "guest" => svm[c].vmcb_vmsa # INVALID_PAGE
  /\ pc[c] \in {"target", "checked"} => new[c].vmpl # svm[c].current
  /\ c \in vc => VcOnItsWay(c)

VmplInv == VmplTypes /\ \A c \in VCpu : VCpuOK(c)

(* What a step of another thread leaves alone.                             *)
Untouched(d) ==
  /\ SameCore(svm[d], svm'[d])
  /\ pc'[d] = pc[d] /\ new'[d] = new[d] /\ said'[d] = said[d]
  /\ d \in vc' => d \in vc

LEMMA UntouchedKeeps ==
  ASSUME NEW d \in VCpu, VCpuOK(d), Untouched(d) PROVE VCpuOK(d)'
PROOF
  BY DEF VCpuOK, Untouched, SameCore, VmsaOK, GhcbOf, VcOnItsWay

LEMMA StepOf ==
  ASSUME VmplInv, NEW c \in VCpu, VmplTypes', VCpuOK(c)',
         \A d \in VCpu \ {c} : Untouched(d)
  PROVE  VmplInv'
PROOF
  BY UntouchedKeeps DEF VmplInv

LEMMA InitVmpl == Init => VmplInv
PROOF
  <1> SUFFICES ASSUME Init PROVE VmplInv
    OBVIOUS
  <1>1. ASSUME NEW c \in VCpu PROVE ResetSvm(c) \in SvmState
    BY VmplFacts DEF ResetSvm, SvmState, MpStates, Vmsas, GhcbMsrs
  <1>2. VmplTypes
    BY <1>1, VmplFacts DEF Init, VmplTypes, NoSwitch, GhcbMsrs
  <1>3. ASSUME NEW c \in VCpu PROVE VCpuOK(c)
    <2>1. svm[c] = ResetSvm(c) /\ pc[c] = "host" /\ vc = {}
          /\ said[c] = [v \in Vmpl |-> SevInfo]
      BY DEF Init
    <2>2. /\ svm[c].current = 0 /\ svm[c].vmcb_ghcb = SevInfo
          /\ svm[c].ghcb_gpa = [v \in Vmpl |-> SevInfo]
          /\ svm[c].vmcb_vmsa = HostVmsa /\ svm[c].vmsa_pa[0] = HostVmsa
      BY <2>1, VmplFacts DEF ResetSvm
    <2> QED BY <2>1, <2>2 DEF VCpuOK, VmsaOK, GhcbOf
  <1> QED BY <1>2, <1>3 DEF VmplInv

-----------------------------------------------------------------------------
(* The steps of the vCPU thread outside the guest                          *)

(* What becomes of mp_state does not matter.                               *)
LEMMA SetMpState ==
  ASSUME NEW s \in SvmState, NEW m \in MpStates
  PROVE  [s EXCEPT !.mp_state = m] \in SvmState /\ SameCore(s, [s EXCEPT !.mp_state = m])
PROOF
  BY DEF SvmState, SameCore

(* A step after which c is in the host with the core of b, which keeps its *)
(* GHCB values.                                                            *)
LEMMA HostStepOf ==
  ASSUME VmplInv, NEW c \in VCpu, NEW b, NEW r \in SvmState, SameCore(b, r),
         VmsaOK(b), \A v \in Vmpl : GhcbOf(b, v) = GhcbOf(svm[c], v),
         pc[c] = "host", svm' = [svm EXCEPT ![c] = r],
         UNCHANGED <<pc, new, said>>, vc' \subseteq vc,
         c \in vc' => b.current = svm[c].current
  PROVE  VmplInv'
PROOF
  <1>1. VmplTypes /\ VCpuOK(c)
    BY DEF VmplInv
  <1>2. VmplTypes' /\ svm'[c] = r
    BY <1>1 DEF VmplTypes
  <1>3. VmsaOK(r) /\ \A v \in Vmpl : GhcbOf(r, v) = GhcbOf(svm[c], v)
    BY DEF SameCore, VmsaOK, GhcbOf
  <1>4. c \in vc' => r.current = svm[c].current
    BY DEF SameCore
  <1>5. VCpuOK(c)'
    BY <1>1, <1>2, <1>3, <1>4 DEF VCpuOK, VcOnItsWay
  <1>6. \A d \in VCpu \ {c} : Untouched(d)
    BY <1>1 DEF VmplTypes, Untouched, SameCore
  <1> QED BY <1>2, <1>5, <1>6, StepOf

LEMMA HandleUpdateRequestKeeps ==
  ASSUME VmplInv, NEW c \in VCpu, HandleUpdateRequest(c) PROVE VmplInv'
PROOF
  <1> DEFINE r == InitReset(svm[c])
  <1>1. svm[c] \in SvmState /\ VmsaOK(svm[c])
    BY DEF VmplInv, VmplTypes, VCpuOK
  <1>2. /\ r \in SvmState /\ VmsaOK(r) /\ SameCore(r, r)
        /\ \A v \in Vmpl : GhcbOf(r, v) = GhcbOf(svm[c], v)
        /\ ~HasUpdate(svm[c]) => r.current = svm[c].current
    BY <1>1, InitResetKeeps DEF SameCore
  <1>3. /\ pc[c] = "host" /\ svm' = [svm EXCEPT ![c] = r]
        /\ UNCHANGED <<pc, new, said>>
        /\ vc' = IF HasUpdate(svm[c]) THEN vc \ {c} ELSE vc
    BY DEF HandleUpdateRequest, ResetEffects
  <1> HIDE DEF r
  <1>4. vc' \subseteq vc /\ (c \in vc' => r.current = svm[c].current)
    BY <1>2, <1>3
  <1> QED BY <1>2, <1>3, <1>4, HostStepOf

LEMMA AcceptEventsKeeps ==
  ASSUME VmplInv, NEW c \in VCpu, AcceptEvents(c) PROVE VmplInv'
PROOF
  <1> DEFINE s == svm[c]
             b == IF "init" \in event[c] THEN InitReset(s) ELSE s
             i == IF "init" \in event[c]
                  THEN [InitReset(s) EXCEPT !.mp_state =
                          IF c = Bsp THEN "runnable" ELSE "init_received"]
                  ELSE s
             q == IF "sipi" \in event[c] /\ i.mp_state = "init_received"
                  THEN [i EXCEPT !.mp_state = "runnable"] ELSE i
             r == IF q.mp_state = "halted" THEN [q EXCEPT !.mp_state = "runnable"]
                  ELSE q
  <1>1. s \in SvmState /\ VmsaOK(s)
    BY DEF VmplInv, VmplTypes, VCpuOK
  <1>2. /\ b \in SvmState /\ VmsaOK(b)
        /\ \A v \in Vmpl : GhcbOf(b, v) = GhcbOf(s, v)
        /\ ("init" \in event[c] => ~HasUpdate(s)) => b.current = s.current
    <2> HIDE DEF s
    <2> QED BY <1>1, InitResetKeeps
  <1>3. i \in SvmState /\ SameCore(b, i)
    <2> HIDE DEF s
    <2>1. CASE "init" \in event[c]
      BY <1>1, <2>1, InitResetKeeps, SetMpState DEF MpStates
    <2>2. CASE "init" \notin event[c]
      BY <1>1, <2>2 DEF SameCore
    <2> QED BY <2>1, <2>2
  <1>4. q \in SvmState /\ SameCore(i, q)
    <2> HIDE DEF i
    <2>1. i \in SvmState
      BY <1>3
    <2> QED BY <2>1, SetMpState DEF MpStates, SameCore
  <1>5. r \in SvmState /\ SameCore(q, r)
    <2> HIDE DEF q
    <2>1. q \in SvmState
      BY <1>4
    <2> QED BY <2>1, SetMpState DEF MpStates, SameCore
  <1>6. SameCore(b, r)
    <2> HIDE DEF b, i, q, r
    <2> QED BY <1>3, <1>4, <1>5 DEF SameCore
  <1>7. /\ pc[c] = "host" /\ svm' = [svm EXCEPT ![c] = r]
        /\ UNCHANGED <<pc, new, said>>
    BY DEF AcceptEvents
  <1>8. vc' \subseteq vc /\ (c \in vc' => ("init" \in event[c] => ~HasUpdate(s)))
    BY DEF AcceptEvents, ResetEffects
  <1> HIDE DEF s, b, i, q, r
  <1>9. c \in vc' => b.current = s.current
    BY <1>2, <1>8
  <1>10. /\ \A v \in Vmpl : GhcbOf(b, v) = GhcbOf(svm[c], v)
         /\ c \in vc' => b.current = svm[c].current
    BY <1>2, <1>9 DEF s
  <1> QED BY <1>2, <1>5, <1>6, <1>7, <1>8, <1>10, HostStepOf

LEMMA UnhaltKeeps ==
  ASSUME VmplInv, NEW c \in VCpu, Unhalt(c) PROVE VmplInv'
PROOF
  <1> DEFINE r == [svm[c] EXCEPT !.mp_state = "runnable"]
  <1>1. svm[c] \in SvmState /\ VmsaOK(svm[c])
    BY DEF VmplInv, VmplTypes, VCpuOK
  <1>2. r \in SvmState /\ SameCore(svm[c], r)
    BY <1>1, SetMpState DEF MpStates
  <1>3. /\ pc[c] = "host" /\ svm' = [svm EXCEPT ![c] = r]
        /\ UNCHANGED <<pc, new, said, vc>>
    BY DEF Unhalt
  <1> HIDE DEF r
  <1> QED BY <1>1, <1>2, <1>3, HostStepOf

LEMMA EnterKeeps ==
  ASSUME VmplInv, NEW c \in VCpu, Enter(c) PROVE VmplInv'
PROOF
  <1>1. VmplTypes /\ VCpuOK(c)
    BY DEF VmplInv
  <1>2. /\ svm' = svm /\ new' = new /\ said' = said /\ vc' = vc \ {c}
        /\ pc' = [pc EXCEPT ![c] = IF svm[c].vmcb_vmsa = INVALID_PAGE
                                   THEN "error" ELSE "guest"]
    BY DEF Enter
  <1>3. VmplTypes'
    BY <1>1, <1>2 DEF VmplTypes
  <1>4. VCpuOK(c)'
    BY <1>1, <1>2 DEF VmplTypes, VCpuOK
  <1>5. \A d \in VCpu \ {c} : Untouched(d)
    BY <1>1, <1>2 DEF VmplTypes, Untouched, SameCore
  <1> QED BY <1>3, <1>4, <1>5, StepOf

-----------------------------------------------------------------------------
(* Level switches                                                          *)

(* A vCPU that runs has no #VC under way.                                  *)
LEMMA NoVcInGuest ==
  ASSUME VmplInv, NEW c \in VCpu, pc[c] = "guest" PROVE c \notin vc
PROOF
  BY DEF VmplInv, VCpuOK, VcOnItsWay

LEMMA BeginSwitchKeeps ==
  ASSUME VmplInv, NEW c \in VCpu, NEW s \in SvmState, NEW v \in Vmpl,
         NEW by \in {"nae", "msr", "vc"}, pc[c] = "guest",
         BeginSwitch(c, s, v, by), VmsaOK(s),
         said' \in [VCpu -> [Vmpl -> GhcbMsrs]],
         \A w \in Vmpl : GhcbOf(s, w) = said'[c][w],
         \A d \in VCpu \ {c} : said'[d] = said[d] /\ (d \in vc' => d \in vc),
         c \in vc' => v = 0 /\ by = "vc" /\ s.current # 0
  PROVE  VmplInv'
PROOF
  <1> DEFINE r == [s EXCEPT !.target = v]
             n == IF v = s.current THEN NoSwitch ELSE [vmpl |-> v, by |-> by]
             p == IF v = s.current THEN "host" ELSE "target"
  <1>0. VmplTypes
    BY DEF VmplInv
  <1>1. r \in SvmState /\ SameCore(s, r)
    BY DEF SvmState, SameCore
  <1>2. n \in [vmpl : Vmpl, by : {"nae", "msr", "vc", "none"}]
    BY VmplFacts DEF NoSwitch
  <1>3. /\ svm' = [svm EXCEPT ![c] = r] /\ new' = [new EXCEPT ![c] = n]
        /\ pc' = [pc EXCEPT ![c] = p]
    BY DEF BeginSwitch
  <1>4. /\ p \in {"host", "target"}
        /\ p = "target" => n = [vmpl |-> v, by |-> by] /\ v # s.current
        /\ p = "host" => v = s.current
    OBVIOUS
  <1> HIDE DEF r, n, p
  <1>5. VmplTypes' /\ svm'[c] = r /\ new'[c] = n /\ pc'[c] = p
    BY <1>0, <1>1, <1>2, <1>3, <1>4 DEF VmplTypes
  <1>6. VmsaOK(r) /\ r.current = s.current
        /\ \A w \in Vmpl : GhcbOf(r, w) = said'[c][w]
    BY <1>1 DEF SameCore, VmsaOK, GhcbOf
  <1>7. c \in vc' => p = "target" /\ n = [vmpl |-> 0, by |-> "vc"]
    BY <1>4
  <1>8. VCpuOK(c)'
    BY <1>4, <1>5, <1>6, <1>7 DEF VCpuOK, VcOnItsWay
  <1>9. \A d \in VCpu \ {c} : Untouched(d)
    BY <1>0, <1>3 DEF VmplTypes, Untouched, SameCore
  <1> QED BY <1>5, <1>8, <1>9, StepOf

(* An exit after which nothing of the core is changed.                     *)
LEMMA PlainExit ==
  ASSUME VmplInv, NEW c \in VCpu, pc[c] = "guest",
         NEW p \in {"host", "error"}, pc' = [pc EXCEPT ![c] = p],
         svm' \in [VCpu -> SvmState],
         \A d \in VCpu : SameCore(svm[d], svm'[d]),
         UNCHANGED <<new, said>>, vc' = vc
  PROVE  VmplInv'
PROOF
  <1>1. VmplTypes /\ VCpuOK(c) /\ c \notin vc
    BY NoVcInGuest DEF VmplInv
  <1>2. VmplTypes'
    BY <1>1 DEF VmplTypes
  <1>3. VCpuOK(c)'
    BY <1>1 DEF VmplTypes, VCpuOK, SameCore, VmsaOK, GhcbOf
  <1>4. \A d \in VCpu \ {c} : Untouched(d)
    BY <1>1 DEF VmplTypes, Untouched
  <1> QED BY <1>2, <1>3, <1>4, StepOf

LEMMA RunVmplNaeKeeps ==
  ASSUME VmplInv, NEW c \in VCpu, NEW v \in Vmpl, RunVmplNae(c, v)
  PROVE  VmplInv'
PROOF
  <1>1. /\ VmplTypes /\ svm[c] \in SvmState /\ VmsaOK(svm[c])
        /\ \A w \in Vmpl : GhcbOf(svm[c], w) = said[c][w]
    BY DEF VmplInv, VmplTypes, VCpuOK
  <1>2. pc[c] = "guest" /\ UNCHANGED <<said, vc>> /\ c \notin vc
    BY NoVcInGuest DEF RunVmplNae
  <1>3. CASE BeginSwitch(c, svm[c], v, "nae")
    BY <1>1, <1>2, <1>3, BeginSwitchKeeps DEF VmplTypes
  <1>4. CASE pc' = [pc EXCEPT ![c] = "error"] /\ UNCHANGED <<svm, new>>
    BY <1>1, <1>2, <1>4, PlainExit DEF VmplTypes, SameCore
  <1> QED BY <1>3, <1>4 DEF RunVmplNae

LEMMA RunVmplMsrKeeps ==
  ASSUME VmplInv, NEW c \in VCpu, NEW v \in Vmpl, RunVmplMsr(c, v)
  PROVE  VmplInv'
PROOF
  <1> DEFINE s == [svm[c] EXCEPT !.vmcb_ghcb = VmplDone]
  <1>1. /\ VmplTypes /\ svm[c] \in SvmState /\ VmsaOK(svm[c])
        /\ \A w \in Vmpl : GhcbOf(svm[c], w) = said[c][w]
    BY DEF VmplInv, VmplTypes, VCpuOK
  <1>2. /\ pc[c] = "guest" /\ vc' = vc /\ c \notin vc
        /\ said' = [said EXCEPT ![c][svm[c].current] = VmplDone]
        /\ BeginSwitch(c, s, v, "msr")
    BY NoVcInGuest DEF RunVmplMsr
  <1>3. s \in SvmState /\ VmsaOK(s)
    BY <1>1 DEF SvmState, GhcbMsrs, VmsaOK
  <1>4. said' \in [VCpu -> [Vmpl -> GhcbMsrs]]
    BY <1>1, <1>2 DEF VmplTypes, GhcbMsrs, SvmState
  <1>5. \A w \in Vmpl : GhcbOf(s, w) = said'[c][w]
    BY <1>1, <1>2 DEF VmplTypes, SvmState, GhcbOf
  <1>6. \A d \in VCpu \ {c} : said'[d] = said[d]
    BY <1>1, <1>2 DEF VmplTypes
  <1> HIDE DEF s
  <1> QED BY <1>2, <1>3, <1>4, <1>5, <1>6, BeginSwitchKeeps

LEMMA VcInterceptionKeeps ==
  ASSUME VmplInv, NEW c \in VCpu, VcInterception(c) PROVE VmplInv'
PROOF
  <1>1. /\ VmplTypes /\ svm[c] \in SvmState /\ VmsaOK(svm[c])
        /\ \A w \in Vmpl : GhcbOf(svm[c], w) = said[c][w]
    BY DEF VmplInv, VmplTypes, VCpuOK
  <1>2. pc[c] = "guest" /\ said' = said /\ c \notin vc
    BY NoVcInGuest DEF VcInterception
  <1>3. CASE svm[c].current \in VcLevels
    <2>1. /\ BeginSwitch(c, svm[c], 0, "vc") /\ vc' = vc \cup {c}
          /\ svm[c].current # 0
      BY <1>3 DEF VcInterception, VcLevels
    <2> QED BY <1>1, <1>2, <2>1, VmplFacts, BeginSwitchKeeps DEF VmplTypes
  <1>4. CASE svm[c].current \notin VcLevels
    <2>1. pc' = [pc EXCEPT ![c] = "host"] /\ UNCHANGED <<svm, new, vc>>
      BY <1>4 DEF VcInterception
    <2> QED BY <1>1, <1>2, <2>1, PlainExit DEF VmplTypes, SameCore
  <1> QED BY <1>3, <1>4

LEMMA SwitchTakesUpdateKeeps ==
  ASSUME VmplInv, NEW c \in VCpu, SwitchTakesUpdate(c) PROVE VmplInv'
PROOF
  <1> DEFINE r == InitProtectedState(svm[c])
  <1>1. VmplTypes /\ VCpuOK(c) /\ svm[c] \in SvmState /\ VmsaOK(svm[c])
    BY DEF VmplInv, VmplTypes, VCpuOK
  <1>2. /\ r \in SvmState /\ VmsaOK(r)
        /\ \A v \in Vmpl : GhcbOf(r, v) = GhcbOf(svm[c], v)
        /\ ~HasUpdate(svm[c]) => r = svm[c]
    BY <1>1, InitProtectedKeeps
  <1>3. /\ pc[c] = "target" /\ svm' = [svm EXCEPT ![c] = r] /\ said' = said
        /\ pc' = [pc EXCEPT ![c] = IF HasUpdate(svm[c]) THEN "host" ELSE "checked"]
        /\ new' = [new EXCEPT ![c] = IF HasUpdate(svm[c]) THEN NoSwitch ELSE @]
        /\ vc' = IF HasUpdate(svm[c]) THEN vc \ {c} ELSE vc
    BY DEF SwitchTakesUpdate, ResetEffects
  <1> HIDE DEF r
  <1>4. NoSwitch \in [vmpl : Vmpl, by : {"nae", "msr", "vc", "none"}]
    BY VmplFacts DEF NoSwitch
  <1>5. VmplTypes' /\ svm'[c] = r
    BY <1>1, <1>2, <1>3, <1>4 DEF VmplTypes
  <1>6. VCpuOK(c)'
    <2>1. CASE HasUpdate(svm[c])
      <3>1. pc'[c] = "host" /\ c \notin vc'
        BY <1>1, <1>3, <2>1 DEF VmplTypes
      <3> QED BY <1>1, <1>2, <1>3, <1>5, <3>1 DEF VCpuOK
    <2>2. CASE ~HasUpdate(svm[c])
      <3>1. pc'[c] = "checked" /\ vc' = vc /\ new'[c] = new[c] /\ svm'[c] = svm[c]
        BY <1>1, <1>2, <1>3, <1>5, <2>2 DEF VmplTypes
      <3> QED BY <1>1, <1>3, <3>1 DEF VCpuOK, VcOnItsWay
    <2> QED BY <2>1, <2>2
  <1>7. \A d \in VCpu \ {c} : Untouched(d)
    BY <1>1, <1>3 DEF VmplTypes, Untouched, SameCore
  <1> QED BY <1>5, <1>6, <1>7, StepOf

(* A step that ends in the host or in an error with what the level that    *)
(* runs is told in its GHCB MSR.                                           *)
LEMMA ToHostOf ==
  ASSUME VmplInv, NEW c \in VCpu, NEW r \in SvmState, NEW n,
         NEW p \in {"host", "error", "guest"},
         VmsaOK(r), said' \in [VCpu -> [Vmpl -> GhcbMsrs]],
         \A w \in Vmpl : GhcbOf(r, w) = said'[c][w],
         \A d \in VCpu \ {c} : said'[d] = said[d],
         n \in [vmpl : Vmpl, by : {"nae", "msr", "vc", "none"}],
         svm' = [svm EXCEPT ![c] = r], new' = [new EXCEPT ![c] = n],
         pc' = [pc EXCEPT ![c] = p], vc' = vc,
         p = "guest" => r.vmcb_vmsa # INVALID_PAGE,
         c \in vc => p = "error" \/ (p = "host" /\ r.current = 0)
  PROVE  VmplInv'
PROOF
  <1>1. VmplTypes
    BY DEF VmplInv
  <1>2. VmplTypes' /\ svm'[c] = r /\ pc'[c] = p
    BY <1>1 DEF VmplTypes
  <1>3. VCpuOK(c)'
    BY <1>2 DEF VCpuOK, VcOnItsWay
  <1>4. \A d \in VCpu \ {c} : Untouched(d)
    BY <1>1 DEF VmplTypes, Untouched, SameCore
  <1> QED BY <1>2, <1>3, <1>4, StepOf

(* The level that runs is told g.                                          *)
LEMMA ToldKeeps ==
  ASSUME VmplInv, NEW c \in VCpu, NEW g \in GhcbMsrs, NEW r \in SvmState,
         r.vmsa_pa = svm[c].vmsa_pa, r.vmcb_vmsa = svm[c].vmcb_vmsa,
         r.ghcb_gpa = svm[c].ghcb_gpa, r.current = svm[c].current,
         r.vmcb_ghcb = g, said' = [said EXCEPT ![c][svm[c].current] = g]
  PROVE  /\ VmsaOK(r) /\ said' \in [VCpu -> [Vmpl -> GhcbMsrs]]
         /\ \A w \in Vmpl : GhcbOf(r, w) = said'[c][w]
         /\ \A d \in VCpu \ {c} : said'[d] = said[d]
PROOF
  <1>1. VmplTypes /\ VmsaOK(svm[c]) /\ svm[c].current \in Vmpl
        /\ \A w \in Vmpl : GhcbOf(svm[c], w) = said[c][w]
    BY DEF VmplInv, VmplTypes, VCpuOK, SvmState
  <1>2. said' \in [VCpu -> [Vmpl -> GhcbMsrs]]
    BY <1>1 DEF VmplTypes
  <1>3. \A w \in Vmpl : said'[c][w] = IF w = svm[c].current THEN g ELSE said[c][w]
    BY <1>1 DEF VmplTypes
  <1>4. \A d \in VCpu \ {c} : said'[d] = said[d]
    BY <1>1 DEF VmplTypes
  <1> QED BY <1>1, <1>2, <1>3, <1>4 DEF VmsaOK, GhcbOf

LEMMA SwitchOrRefuseKeeps ==
  ASSUME VmplInv, NEW c \in VCpu, SwitchOrRefuse(c) PROVE VmplInv'
PROOF
  <1> DEFINE s == svm[c]
             n == new[c]
             refused == s.vmsa_pa[n.vmpl] = INVALID_PAGE
  <1>1. /\ VmplTypes /\ VCpuOK(c) /\ s \in SvmState /\ VmsaOK(s)
        /\ n \in [vmpl : Vmpl, by : {"nae", "msr", "vc", "none"}]
        /\ \A w \in Vmpl : GhcbOf(s, w) = said[c][w]
    BY DEF VmplInv, VmplTypes, VCpuOK
  <1>2. pc[c] = "checked" /\ new' = [new EXCEPT ![c] = NoSwitch] /\ vc' = vc
    BY DEF SwitchOrRefuse
  <1>3. n.vmpl \in Vmpl /\ n.vmpl # s.current
        /\ (c \in vc => n.vmpl = 0 /\ n.by = "vc")
    BY <1>1, <1>2 DEF VCpuOK, VcOnItsWay
  <1>4. NoSwitch \in [vmpl : Vmpl, by : {"nae", "msr", "vc", "none"}]
    BY VmplFacts DEF NoSwitch
  <1>5. CASE ~refused
    <2>1. /\ svm' = [svm EXCEPT ![c] = SwitchLevel(s, n.vmpl)] /\ said' = said
          /\ pc' = [pc EXCEPT ![c] = "host"]
      BY <1>5 DEF SwitchOrRefuse
    <2>2. said \in [VCpu -> [Vmpl -> GhcbMsrs]]
      BY <1>1 DEF VmplTypes
    <2> DEFINE r == SwitchLevel(s, n.vmpl)
    <2>3. /\ r \in SvmState /\ VmsaOK(r) /\ r.current = n.vmpl
          /\ \A w \in Vmpl : GhcbOf(r, w) = said[c][w]
      BY <1>1, <1>3, SwitchLevelKeeps
    <2> HIDE DEF r, s, n
    <2>4. svm' = [svm EXCEPT ![c] = r]
      BY <2>1 DEF r
    <2> QED BY <1>2, <1>3, <1>4, <2>1, <2>2, <2>3, <2>4, ToHostOf
  <1>6. CASE refused /\ n.by = "msr"
    <2> DEFINE r == [s EXCEPT !.vmcb_ghcb = VmplError]
    <2>1. /\ svm' = [svm EXCEPT ![c] = r]
          /\ said' = [said EXCEPT ![c][s.current] = VmplError]
          /\ pc' = [pc EXCEPT ![c] = "host"]
      BY <1>6 DEF SwitchOrRefuse
    <2>2. /\ r \in SvmState /\ VmplError \in GhcbMsrs /\ r.vmcb_ghcb = VmplError
          /\ r.vmsa_pa = s.vmsa_pa /\ r.vmcb_vmsa = s.vmcb_vmsa
          /\ r.ghcb_gpa = s.ghcb_gpa /\ r.current = s.current
      BY <1>1 DEF SvmState, GhcbMsrs
    <2>3. c \notin vc
      BY <1>3, <1>6
    <2> HIDE DEF r
    <2>4. /\ VmsaOK(r) /\ said' \in [VCpu -> [Vmpl -> GhcbMsrs]]
          /\ \A w \in Vmpl : GhcbOf(r, w) = said'[c][w]
          /\ \A d \in VCpu \ {c} : said'[d] = said[d]
      BY <2>1, <2>2, ToldKeeps
    <2> QED BY <1>2, <1>4, <2>1, <2>2, <2>3, <2>4, ToHostOf
  <1>7. CASE refused /\ n.by # "msr"
    <2> DEFINE p == IF n.by = "vc" THEN "error" ELSE "host"
    <2>1. /\ svm' = [svm EXCEPT ![c] = s] /\ said' = said
          /\ pc' = [pc EXCEPT ![c] = p]
      BY <1>7 DEF SwitchOrRefuse
    <2>2. p \in {"host", "error"} /\ (c \in vc => p = "error")
      BY <1>3
    <2>3. said \in [VCpu -> [Vmpl -> GhcbMsrs]]
      BY <1>1 DEF VmplTypes
    <2> HIDE DEF p, s, n
    <2> QED BY <1>1, <1>2, <1>4, <2>1, <2>2, <2>3, ToHostOf
  <1> QED BY <1>5, <1>6, <1>7

-----------------------------------------------------------------------------
(* Other exits, and what other threads do                                  *)

LEMMA RegisterGhcbKeeps ==
  ASSUME VmplInv, NEW c \in VCpu, NEW g \in Ghcb, RegisterGhcb(c, g)
  PROVE  VmplInv'
PROOF
  <1> DEFINE s == svm[c]
             r == [s EXCEPT !.registered[s.current] = g, !.vmcb_ghcb = RegDone]
  <1>1. VmplTypes /\ s \in SvmState /\ s.current \in Vmpl
        /\ new[c] \in [vmpl : Vmpl, by : {"nae", "msr", "vc", "none"}]
    BY DEF VmplInv, VmplTypes, SvmState
  <1>2. /\ pc[c] = "guest" /\ UNCHANGED <<new, vc>> /\ c \notin vc
        /\ said' = [said EXCEPT ![c][s.current] = RegDone]
        /\ pc' = [pc EXCEPT ![c] = "host"]
    BY NoVcInGuest DEF RegisterGhcb
  <1>3. svm' = [svm EXCEPT ![c] = r]
    BY <1>1 DEF RegisterGhcb, VmplTypes, SvmState
  <1>4. /\ r \in SvmState /\ RegDone \in GhcbMsrs /\ r.vmcb_ghcb = RegDone
        /\ r.vmsa_pa = s.vmsa_pa /\ r.vmcb_vmsa = s.vmcb_vmsa
        /\ r.ghcb_gpa = s.ghcb_gpa /\ r.current = s.current
    BY <1>1 DEF SvmState, GhcbMsrs
  <1>5. new' = [new EXCEPT ![c] = new[c]]
    BY <1>1, <1>2 DEF VmplTypes
  <1> HIDE DEF r
  <1>6. /\ VmsaOK(r) /\ said' \in [VCpu -> [Vmpl -> GhcbMsrs]]
        /\ \A w \in Vmpl : GhcbOf(r, w) = said'[c][w]
        /\ \A d \in VCpu \ {c} : said'[d] = said[d]
    BY <1>2, <1>4, ToldKeeps
  <1> QED BY <1>1, <1>2, <1>3, <1>4, <1>5, <1>6, ToHostOf

LEMMA SetGhcbKeeps ==
  ASSUME VmplInv, NEW c \in VCpu, NEW g \in Ghcb, SetGhcb(c, g)
  PROVE  VmplInv'
PROOF
  <1> DEFINE s == svm[c]
             r == [s EXCEPT !.vmcb_ghcb = g]
  <1>1. VmplTypes /\ s \in SvmState /\ VCpuOK(c)
        /\ new[c] \in [vmpl : Vmpl, by : {"nae", "msr", "vc", "none"}]
    BY DEF VmplInv, VmplTypes
  <1>2. /\ pc[c] = "guest" /\ UNCHANGED <<new, vc, pc>> /\ c \notin vc
        /\ said' = [said EXCEPT ![c][s.current] = g]
        /\ s.vmcb_vmsa # INVALID_PAGE
    BY <1>1, NoVcInGuest DEF SetGhcb, VCpuOK
  <1>3. svm' = [svm EXCEPT ![c] = r]
    BY <1>1 DEF SetGhcb, VmplTypes, SvmState
  <1>4. /\ r \in SvmState /\ g \in GhcbMsrs /\ r.vmcb_ghcb = g
        /\ r.vmsa_pa = s.vmsa_pa /\ r.vmcb_vmsa = s.vmcb_vmsa
        /\ r.ghcb_gpa = s.ghcb_gpa /\ r.current = s.current
    BY <1>1 DEF SvmState, GhcbMsrs
  <1>5. new' = [new EXCEPT ![c] = new[c]] /\ pc' = [pc EXCEPT ![c] = "guest"]
    BY <1>1, <1>2 DEF VmplTypes
  <1> HIDE DEF r
  <1>6. /\ VmsaOK(r) /\ said' \in [VCpu -> [Vmpl -> GhcbMsrs]]
        /\ \A w \in Vmpl : GhcbOf(r, w) = said'[c][w]
        /\ \A d \in VCpu \ {c} : said'[d] = said[d]
    BY <1>2, <1>4, ToldKeeps
  <1> QED BY <1>1, <1>2, <1>3, <1>4, <1>5, <1>6, ToHostOf

LEMMA HaltKeeps ==
  ASSUME VmplInv, NEW c \in VCpu, Halt(c) \/ OtherExit(c) PROVE VmplInv'
PROOF
  <1> DEFINE r == [svm[c] EXCEPT !.mp_state = "halted"]
  <1>1. svm \in [VCpu -> SvmState]
    BY DEF VmplInv, VmplTypes
  <1>2. r \in SvmState /\ SameCore(svm[c], r)
    BY <1>1, SetMpState DEF MpStates
  <1>3. svm' = [svm EXCEPT ![c] = r] \/ svm' = svm
    BY DEF Halt, OtherExit
  <1> HIDE DEF r
  <1>4. svm' \in [VCpu -> SvmState] /\ \A d \in VCpu : SameCore(svm[d], svm'[d])
    BY <1>1, <1>2, <1>3 DEF SameCore
  <1>5. /\ pc[c] = "guest" /\ pc' = [pc EXCEPT ![c] = "host"]
        /\ UNCHANGED <<new, said>> /\ vc' = vc
    BY DEF Halt, OtherExit
  <1> QED BY <1>4, <1>5, PlainExit

(* A creation request writes the slot of its target vCPU and nothing of    *)
(* what that vCPU runs on.                                                 *)
LEMMA ApCreationKeeps ==
  ASSUME VmplInv, NEW c \in VCpu, NEW t \in VCpu, NEW v \in Vmpl,
         NEW r \in ApRequests, NEW gpa \in Page \cup {INVALID_PAGE},
         ApCreation(c, t, v, r, gpa)
  PROVE  VmplInv'
PROOF
  <1> DEFINE s == svm[t]
             ok == AcceptsCreation(c, t, v, r, gpa)
             slot == [s EXCEPT !.ap_create[v] = TRUE, !.gpa[v] = INVALID_PAGE]
             made == IF ok /\ r # "destroy" THEN FillSlot(slot, v, gpa) ELSE slot
             q == IF Kicks(ok, r) /\ s.mp_state = "uninitialized"
                  THEN [made EXCEPT !.mp_state = "runnable"] ELSE made
  <1>1. svm \in [VCpu -> SvmState] /\ s \in SvmState
    BY DEF VmplInv, VmplTypes
  <1>2. slot \in SvmState /\ SameCore(s, slot)
    BY <1>1 DEF SvmState, SameCore
  <1>3. made \in SvmState /\ SameCore(slot, made)
    <2> HIDE DEF slot, ok
    <2>1. FillSlot(slot, v, gpa) \in SvmState /\ SameCore(slot, FillSlot(slot, v, gpa))
      BY <1>2 DEF FillSlot, SvmState, SameCore
    <2> QED BY <1>2, <2>1 DEF SameCore
  <1>4. q \in SvmState /\ SameCore(made, q)
    <2> HIDE DEF made, s, ok
    <2>1. made \in SvmState
      BY <1>3
    <2> QED BY <2>1, SetMpState DEF MpStates, SameCore
  <1>5. svm' = [svm EXCEPT ![t] = q]
    BY <1>1 DEF ApCreation
  <1>6. /\ pc[c] = "guest" /\ pc' = [pc EXCEPT ![c] = "host"]
        /\ UNCHANGED <<new, said>> /\ vc' = vc
    BY DEF ApCreation
  <1> HIDE DEF slot, made, q
  <1>7. SameCore(s, q)
    BY <1>2, <1>3, <1>4 DEF SameCore
  <1>8. svm' \in [VCpu -> SvmState] /\ \A d \in VCpu : SameCore(svm[d], svm'[d])
    BY <1>1, <1>4, <1>5, <1>7 DEF SameCore
  <1> QED BY <1>6, <1>8, PlainExit

LEMMA SendEventKeeps ==
  ASSUME VmplInv, UNCHANGED <<svm, pc, new, said, vc>> PROVE VmplInv'
PROOF
  BY DEF VmplInv, VmplTypes, VCpuOK, VcOnItsWay

LEMMA StepVmpl == VmplInv /\ [Next]_vars => VmplInv'
PROOF
  <1> SUFFICES ASSUME VmplInv, [Next]_vars PROVE VmplInv'
    OBVIOUS
  <1>1. CASE UNCHANGED vars
    BY <1>1, SendEventKeeps DEF vars
  <1>2. ASSUME NEW c \in VCpu, GuestStep(c) PROVE VmplInv'
    BY <1>2, RunVmplNaeKeeps, RunVmplMsrKeeps, VcInterceptionKeeps,
       RegisterGhcbKeeps, SetGhcbKeeps, ApCreationKeeps, HaltKeeps DEF GuestStep
  <1>3. ASSUME NEW c \in VCpu, HostStep(c) PROVE VmplInv'
    BY <1>3, HandleUpdateRequestKeeps, AcceptEventsKeeps, UnhaltKeeps, EnterKeeps,
       SwitchTakesUpdateKeeps, SwitchOrRefuseKeeps DEF HostStep
  <1>4. ASSUME NEW c \in VCpu, NEW e, SendEvent(c, e) PROVE VmplInv'
    BY <1>4, SendEventKeeps DEF SendEvent
  <1> QED BY <1>1, <1>2, <1>3, <1>4 DEF Next

-----------------------------------------------------------------------------
(* What it is for                                                          *)

LEMMA VmplInvariant == Spec => []VmplInv
PROOF
  BY InitVmpl, StepVmpl, PTL DEF Spec

(* The guest runs on the VMSA that the host has recorded for its current   *)
(* level: the update that takes a creation request (sev.c:3464-3475), the  *)
(* reset (sev.c:4597) and the level switch (sev.c:3913) all leave the VMCB *)
(* with that VMSA or with none, and with none it cannot enter.             *)
THEOREM RunsOnItsVmsa == Spec => []VmcbMatchesVmpl
PROOF
  <1>1. VmplInv => VmcbMatchesVmpl
    BY DEF VmplInv, VCpuOK, VmsaOK, VmcbMatchesVmpl
  <1> QED BY <1>1, VmplInvariant, PTL

(* Every level finds its own GHCB MSR value: the update and the switch     *)
(* swap the values of two different levels and write back the one the VMCB *)
(* holds, so none is lost and none moves to another level.                 *)
THEOREM GhcbStaysWithLevel == Spec => []GhcbKept
PROOF
  <1>1. VmplInv => GhcbKept
    BY DEF VmplInv, VCpuOK, GhcbOf, GhcbKept
  <1> QED BY <1>1, VmplInvariant, PTL

(* A #VC of a trustlet level that no creation request has overtaken is     *)
(* seen at VMPL0 when the vCPU next enters the guest: sev_vc_vmpl either   *)
(* switches to VMPL0 or ends KVM_RUN with an error, and no event in        *)
(* between changes the current level.                                      *)
THEOREM VcGoesToMonitor == Spec => VcReachesMonitor
PROOF
  <1> DEFINE Arrives == \A c \in VCpu : pc[c] = "host" /\ pc'[c] = "guest" /\ c \in vc
                          => svm[c].current = 0
  <1>1. VmplInv /\ [Next]_vars => [Arrives]_vars
    BY DEF VmplInv, VCpuOK, VcOnItsWay
  <1> QED BY <1>1, VmplInvariant, PTL DEF Spec, VcReachesMonitor

-----------------------------------------------------------------------------
(* Page references and creation requests                                   *)

(* Whoever uses p as its VMSA in the vCPU states m.                        *)
UsersIn(m, p) == {cv \in VCpu \X Vmpl : m[cv[1]].vmsa_pa[cv[2]] = p}
Users(p) == UsersIn(svm, p)

(* A CREATE that has not been looked at is marked in the slot of the level *)
(* that is the target, and its vCPU has the update request.                *)
DueInv ==
  \A c \in VCpu : \A v \in due[c] :
    v = svm[c].target /\ svm[c].ap_create[v] /\ c \in request

CallRec ==
  (0 .. MaxCreate) \X (0 .. MaxSwitch) \X (0 .. MaxEvent) \X (0 .. MaxGhcb)

(* The types that VmplTypes leaves out.                                    *)
RestTypes ==
  /\ request \subseteq VCpu
  /\ event \in [VCpu -> SUBSET {"init", "sipi", "irq"}]
  /\ pin \in [Page -> Int]
  /\ vc \subseteq VCpu
  /\ due \in [VCpu -> SUBSET Vmpl]
  /\ calls \in CallRec

SlotRest == RestTypes /\ PinsExact /\ DueInv

SlotInv == VmplInv /\ SlotRest

LEMMA UsersFinite ==
  ASSUME NEW S \in SUBSET (VCpu \X Vmpl)
  PROVE  IsFiniteSet(S) /\ Cardinality(S) \in Nat
PROOF
  <1>1. IsFiniteSet(Vmpl)
    BY VmplAssumption, FS_Interval DEF Vmpl
  <1>2. IsFiniteSet(VCpu \X Vmpl)
    BY <1>1, VmplAssumption, FS_Product
  <1>3. IsFiniteSet(S)
    BY <1>2, FS_Subset
  <1> QED BY <1>3, FS_CardinalityType

(* What the update does to the slots and VMSAs of its vCPU.                *)
NewVmsa(s) == IF s.gpa[s.target] \in Backed THEN s.gpa[s.target] ELSE INVALID_PAGE

LEMMA MakeTargetCurrentSlots ==
  ASSUME NEW s \in SvmState
  PROVE  LET u == MakeTargetCurrent(s)
         IN u.target = s.target /\ u.ap_create = s.ap_create /\ u.vmsa_pa = s.vmsa_pa
PROOF
  BY DEF MakeTargetCurrent, SvmState

LEMMA UpdateSlots ==
  ASSUME NEW s \in SvmState
  PROVE  LET u == UpdateProtectedState(s)
         IN /\ u.target = s.target /\ u.ap_create = s.ap_create
            /\ u.vmsa_pa = [s.vmsa_pa EXCEPT ![s.target] = NewVmsa(s)]
PROOF
  <1> DEFINE t == s.target
             gpa == s.gpa[t]
             cleared == [s EXCEPT !.mp_state = "halted",
                                  !.vmsa_pa[t] = INVALID_PAGE,
                                  !.vmcb_vmsa = INVALID_PAGE]
             loaded == [cleared EXCEPT !.mp_state = "runnable",
                                       !.vmsa_pa[t] = gpa,
                                       !.vmcb_vmsa = gpa,
                                       !.gpa[t] = INVALID_PAGE]
             u == UpdateProtectedState(s)
  <1>0. t \in Vmpl /\ gpa \in Page \cup {INVALID_PAGE} /\ s.vmsa_pa \in [Vmpl -> Vmsas]
    BY DEF SvmState
  <1>1. /\ cleared \in SvmState /\ cleared.target = t
        /\ cleared.ap_create = s.ap_create
        /\ cleared.vmsa_pa = [s.vmsa_pa EXCEPT ![t] = INVALID_PAGE]
    BY <1>0 DEF SvmState, MpStates, Vmsas
  <1>2. ASSUME gpa \in Backed
        PROVE  /\ loaded \in SvmState /\ loaded.target = t
               /\ loaded.ap_create = s.ap_create
               /\ loaded.vmsa_pa = [s.vmsa_pa EXCEPT ![t] = gpa]
    <2> gpa \in Page
      BY <1>2, VmplAssumption
    <2> HIDE DEF cleared, gpa, t
    <2>1. /\ cleared.vmsa_pa \in [Vmpl -> Vmsas]
          /\ cleared.gpa \in [Vmpl -> Page \cup {INVALID_PAGE}]
      BY <1>1 DEF SvmState
    <2>2. loaded \in SvmState /\ loaded.target = cleared.target
          /\ loaded.ap_create = cleared.ap_create
          /\ loaded.vmsa_pa = [cleared.vmsa_pa EXCEPT ![t] = gpa]
      BY <1>0, <1>1, <2>1 DEF SvmState, MpStates, Vmsas
    <2> QED BY <1>0, <1>1, <2>2
  <1>3. u = CASE gpa = INVALID_PAGE -> MakeTargetCurrent(cleared)
              [] gpa \in Backed     -> MakeTargetCurrent(loaded)
              [] OTHER              -> cleared
    BY DEF UpdateProtectedState
  <1>4. NewVmsa(s) = (IF gpa \in Backed THEN gpa ELSE INVALID_PAGE)
        /\ INVALID_PAGE \notin Backed
    BY VmplAssumption DEF NewVmsa
  <1> HIDE DEF cleared, loaded, gpa, t, u
  <1>5. \/ (gpa \notin Backed /\ u \in {MakeTargetCurrent(cleared), cleared})
        \/ (gpa \in Backed /\ u = MakeTargetCurrent(loaded))
    BY <1>3, <1>4
  <1>6. CASE gpa \notin Backed /\ u \in {MakeTargetCurrent(cleared), cleared}
    BY <1>1, <1>4, <1>6, MakeTargetCurrentSlots DEF u, t
  <1>7. CASE gpa \in Backed /\ u = MakeTargetCurrent(loaded)
    BY <1>2, <1>4, <1>7, MakeTargetCurrentSlots DEF u, t
  <1> QED BY <1>5, <1>6, <1>7

LEMMA InitProtectedSlots ==
  ASSUME NEW s \in SvmState, VmsaOK(s)
  PROVE  LET u == InitProtectedState(s)
         IN /\ u \in SvmState /\ u.target = s.target
            /\ ~HasUpdate(s) => u.ap_create = s.ap_create /\ u.vmsa_pa = s.vmsa_pa
            /\ HasUpdate(s) =>
                 u.vmsa_pa = [s.vmsa_pa EXCEPT ![s.target] = NewVmsa(s)]
PROOF
  <1> DEFINE r == [s EXCEPT !.ap_create[s.target] = FALSE]
  <1>1. r \in SvmState /\ r.target = s.target /\ r.gpa = s.gpa /\ r.vmsa_pa = s.vmsa_pa
    BY DEF SvmState
  <1> HIDE DEF r
  <1>2. CASE HasUpdate(s)
    <2>1. InitProtectedState(s) = UpdateProtectedState(r)
      BY <1>2 DEF InitProtectedState, r
    <2>2. NewVmsa(r) = NewVmsa(s)
      BY <1>1 DEF NewVmsa
    <2> QED BY <1>1, <1>2, <2>1, <2>2, UpdateSlots, InitProtectedKeeps
  <1>3. CASE ~HasUpdate(s)
    BY <1>3 DEF InitProtectedState
  <1> QED BY <1>2, <1>3

LEMMA InitResetSlots ==
  ASSUME NEW s \in SvmState, VmsaOK(s)
  PROVE  LET u == InitReset(s)
         IN /\ u \in SvmState /\ u.target = s.target
            /\ ~HasUpdate(s) => u.ap_create = s.ap_create /\ u.vmsa_pa = s.vmsa_pa
            /\ HasUpdate(s) =>
                 u.vmsa_pa = [s.vmsa_pa EXCEPT ![s.target] = NewVmsa(s)]
PROOF
  <1> DEFINE u == InitProtectedState(s)
             r == [u EXCEPT !.vmcb_vmsa = u.vmsa_pa[u.current]]
  <1>1. InitReset(s) = r
    BY DEF InitReset
  <1>2. /\ u \in SvmState /\ u.target = s.target
        /\ ~HasUpdate(s) => u.ap_create = s.ap_create /\ u.vmsa_pa = s.vmsa_pa
        /\ HasUpdate(s) => u.vmsa_pa = [s.vmsa_pa EXCEPT ![s.target] = NewVmsa(s)]
    BY InitProtectedSlots
  <1> HIDE DEF u
  <1>3. r \in SvmState
    BY <1>2 DEF SvmState
  <1>4. r.target = u.target /\ r.ap_create = u.ap_create /\ r.vmsa_pa = u.vmsa_pa
    BY <1>2 DEF SvmState
  <1> HIDE DEF r
  <1> QED BY <1>1, <1>2, <1>3, <1>4

(* The users of p before and after vCPU c becomes r, which has w as the    *)
(* VMSA of level t.                                                        *)
Pays(m, c, r, t, w, p) ==
  Cardinality(UsersIn([m EXCEPT ![c] = r], p)) =
    Cardinality(UsersIn(m, p)) + (IF p = w THEN 1 ELSE 0)
                               - (IF p = m[c].vmsa_pa[t] THEN 1 ELSE 0)

(* A vCPU that keeps its VMSAs except for one level: the users of every    *)
(* page change by that level alone.                                        *)
LEMMA OneSlot ==
  ASSUME NEW m \in [VCpu -> SvmState], NEW c \in VCpu, NEW r \in SvmState,
         NEW t \in Vmpl, NEW w, NEW p \in Page,
         r.vmsa_pa = [m[c].vmsa_pa EXCEPT ![t] = w]
  PROVE  Pays(m, c, r, t, w, p)
PROOF
  <1> DEFINE k == <<c, t>>
             S == UsersIn(m, p)
             n == [m EXCEPT ![c] = r]
  <1>1. S \in SUBSET (VCpu \X Vmpl) /\ k \in VCpu \X Vmpl
    BY DEF UsersIn
  <1>2. IsFiniteSet(S) /\ Cardinality(S) \in Nat
    BY <1>1, UsersFinite
  <1>3. k \in S <=> p = m[c].vmsa_pa[t]
    BY <1>1 DEF UsersIn
  <1>4. /\ m[c].vmsa_pa \in [Vmpl -> Vmsas]
        /\ n[c].vmsa_pa = [m[c].vmsa_pa EXCEPT ![t] = w]
        /\ \A d \in VCpu : d # c => n[d] = m[d]
    BY DEF SvmState
  <1> HIDE DEF n
  <1>5. ASSUME NEW d \in VCpu, NEW v \in Vmpl, <<d, v>> # k
        PROVE  n[d].vmsa_pa[v] = m[d].vmsa_pa[v]
    BY <1>4, <1>5
  <1>6. n[c].vmsa_pa[t] = w
    BY <1>4
  <1>7. UsersIn(n, p) = IF p = w THEN S \cup {k} ELSE S \ {k}
    BY <1>5, <1>6 DEF UsersIn
  <1> HIDE DEF S, k
  <1>8. Cardinality(S \cup {k}) = IF k \in S THEN Cardinality(S) ELSE Cardinality(S) + 1
    BY <1>2, FS_AddElement
  <1>9. Cardinality(S \ {k}) = IF k \in S THEN Cardinality(S) - 1 ELSE Cardinality(S)
    BY <1>2, FS_RemoveElement
  <1> QED BY <1>2, <1>3, <1>7, <1>8, <1>9 DEF S, n, Pays

(* The state after an update, or after one that found no request.          *)
LEMMA TookUpdate ==
  ASSUME SlotInv, NEW c \in VCpu, NEW r \in SvmState,
         svm' = [svm EXCEPT ![c] = r], r.target = svm[c].target,
         ~HasUpdate(svm[c]) =>
           r.ap_create = svm[c].ap_create /\ r.vmsa_pa = svm[c].vmsa_pa,
         HasUpdate(svm[c]) =>
           r.vmsa_pa = [svm[c].vmsa_pa EXCEPT ![svm[c].target] = NewVmsa(svm[c])],
         ResetEffects(c), request \ {c} \subseteq request'
  PROVE  /\ pin' \in [Page -> Int] /\ vc' \subseteq VCpu
         /\ due' \in [VCpu -> SUBSET Vmpl]
         /\ PinsExact'
         /\ DueInv'
PROOF
  <1> DEFINE s == svm[c]
             t == s.target
  <1>1. /\ svm \in [VCpu -> SvmState] /\ s \in SvmState /\ t \in Vmpl
        /\ pin \in [Page -> Int] /\ vc \subseteq VCpu
        /\ due \in [VCpu -> SUBSET Vmpl]
    BY DEF SlotInv, SlotRest, VmplInv, VmplTypes, RestTypes, SvmState
  <1>2. \A d \in VCpu : svm'[d] = IF d = c THEN r ELSE svm[d]
    BY <1>1
  <1>3. \A v \in due[c] : v = t /\ HasUpdate(s)
    BY DEF SlotInv, SlotRest, DueInv, HasUpdate
  <1>4. \A d \in VCpu \ {c} : due'[d] = due[d]
    BY <1>1 DEF ResetEffects
  <1>5. due'[c] = {}
    BY <1>1, <1>3 DEF ResetEffects
  <1>6. vc' \subseteq VCpu /\ due' \in [VCpu -> SUBSET Vmpl]
    BY <1>1 DEF ResetEffects
  <1>7. DueInv'
    <2> SUFFICES ASSUME NEW d \in VCpu, NEW v \in due'[d]
                 PROVE  v = svm'[d].target /\ svm'[d].ap_create[v] /\ d \in request'
      BY DEF DueInv
    <2>1. d # c /\ due'[d] = due[d]
      BY <1>4, <1>5
    <2> QED BY <1>2, <2>1 DEF SlotInv, SlotRest, DueInv
  <1>8. ASSUME NEW p \in Page
        PROVE  /\ pin'[p] = Cardinality(Users(p)')
               /\ pin' \in [Page -> Int]
    <2>1. pin[p] = Cardinality(Users(p)) /\ pin[p] \in Int
      BY <1>1 DEF SlotInv, SlotRest, PinsExact, Users, UsersIn
    <2>2. CASE HasUpdate(s)
      <3>1. pin' = UpdatePins(s)
        BY <2>2 DEF ResetEffects
      <3>2. p = NewVmsa(s) <=> p = s.gpa[t] /\ p \in Backed
        BY VmplAssumption DEF NewVmsa
      <3>3. pin' \in [Page -> Int]
        BY <1>1, <3>1 DEF UpdatePins
      <3>4. pin'[p] = pin[p] + (IF p = NewVmsa(s) THEN 1 ELSE 0)
                             - (IF p = s.vmsa_pa[t] THEN 1 ELSE 0)
        BY <3>1, <3>2 DEF UpdatePins
      <3>5. r.vmsa_pa = [s.vmsa_pa EXCEPT ![t] = NewVmsa(s)]
        BY <2>2
      <3> HIDE DEF t
      <3>6. Cardinality(Users(p)') =
              Cardinality(Users(p)) + (IF p = NewVmsa(s) THEN 1 ELSE 0)
                                    - (IF p = s.vmsa_pa[t] THEN 1 ELSE 0)
        <4>1. Pays(svm, c, r, t, NewVmsa(s), p)
          BY <1>1, <3>5, OneSlot
        <4>2. Users(p)' = UsersIn([svm EXCEPT ![c] = r], p) /\ Users(p) = UsersIn(svm, p)
          BY DEF Users
        <4> QED BY <4>1, <4>2 DEF Pays
      <3> QED BY <2>1, <3>3, <3>4, <3>6
    <2>3. CASE ~HasUpdate(s)
      <3>1. pin' = pin /\ r.vmsa_pa = s.vmsa_pa
        BY <2>3 DEF ResetEffects
      <3>2. \A d \in VCpu : svm'[d].vmsa_pa = svm[d].vmsa_pa
        BY <1>2, <3>1
      <3>3. Users(p)' = Users(p)
        BY <3>2 DEF Users, UsersIn
      <3> QED BY <1>1, <2>1, <3>1, <3>3
    <2> QED BY <2>2, <2>3
  <1>9. PinsExact'
    BY <1>8 DEF PinsExact, Users, UsersIn
  <1>10. pin' \in [Page -> Int]
    BY <1>1 DEF ResetEffects, UpdatePins
  <1> QED BY <1>6, <1>7, <1>9, <1>10

(* Steps that replace no VMSA: each vCPU keeps its target level and slots  *)
(* or has nothing due afterwards.                                          *)
LEMMA SameSlots ==
  ASSUME SlotInv, \A d \in VCpu : svm'[d].vmsa_pa = svm[d].vmsa_pa, pin' = pin,
         request \subseteq request',
         \A d \in VCpu : \/ due'[d] = {}
                         \/ /\ due'[d] = due[d] /\ svm'[d].target = svm[d].target
                            /\ svm'[d].ap_create = svm[d].ap_create
  PROVE  pin' \in [Page -> Int] /\ PinsExact' /\ DueInv'
PROOF
  <1>1. pin' \in [Page -> Int]
    BY DEF SlotInv, SlotRest, RestTypes
  <1>2. \A p \in Page : Users(p)' = Users(p)
    BY DEF Users, UsersIn
  <1>3. PinsExact'
    BY <1>2 DEF SlotInv, SlotRest, PinsExact, Users, UsersIn
  <1>4. DueInv'
    BY DEF SlotInv, SlotRest, DueInv
  <1> QED BY <1>1, <1>3, <1>4

LEMMA CallsKept ==
  ASSUME SlotRest, Creating \/ Switching \/ Happening \/ SettingUp \/ calls' = calls
  PROVE  calls' \in CallRec
PROOF
  <1>1. calls \in CallRec
    BY DEF SlotRest, RestTypes
  <1>2. CASE Creating
    BY <1>1, <1>2, VmplAssumption DEF Creating, CallRec
  <1>3. CASE Switching
    BY <1>1, <1>3, VmplAssumption DEF Switching, CallRec
  <1>4. CASE Happening
    BY <1>1, <1>4, VmplAssumption DEF Happening, CallRec
  <1>5. CASE SettingUp
    BY <1>1, <1>5, VmplAssumption DEF SettingUp, CallRec
  <1> QED BY <1>1, <1>2, <1>3, <1>4, <1>5

(* A step of the thread of c that is not an update.                        *)
LEMMA OwnStep ==
  ASSUME SlotInv, NEW c \in VCpu, NEW r, svm' = [svm EXCEPT ![c] = r],
         r.vmsa_pa = svm[c].vmsa_pa, UNCHANGED <<pin, request>>, vc' \subseteq VCpu,
         event' \in [VCpu -> SUBSET {"init", "sipi", "irq"}], calls' \in CallRec,
         \/ due' = [due EXCEPT ![c] = {}]
         \/ /\ due' = due /\ r.target = svm[c].target
            /\ r.ap_create = svm[c].ap_create
  PROVE  SlotRest'
PROOF
  <1>1. svm \in [VCpu -> SvmState] /\ due \in [VCpu -> SUBSET Vmpl]
        /\ request \subseteq VCpu
    BY DEF SlotInv, SlotRest, RestTypes, VmplInv, VmplTypes
  <1>2. \A d \in VCpu : svm'[d] = IF d = c THEN r ELSE svm[d]
    BY <1>1
  <1>3. \A d \in VCpu : svm'[d].vmsa_pa = svm[d].vmsa_pa
    BY <1>2
  <1>4. due' \in [VCpu -> SUBSET Vmpl]
    BY <1>1
  <1>5. \A d \in VCpu : \/ due'[d] = {}
                        \/ /\ due'[d] = due[d] /\ svm'[d].target = svm[d].target
                           /\ svm'[d].ap_create = svm[d].ap_create
    BY <1>1, <1>2
  <1>6. pin' \in [Page -> Int] /\ PinsExact' /\ DueInv'
    BY <1>3, <1>5, SameSlots
  <1> QED BY <1>1, <1>4, <1>6 DEF SlotRest, RestTypes

(* What the slots of two states of a vCPU have in common.                  *)
SameSlotFields(s, r) ==
  r.target = s.target /\ r.ap_create = s.ap_create /\ r.vmsa_pa = s.vmsa_pa

LEMMA UpdateStep ==
  ASSUME SlotInv, NEW c \in VCpu,
         HandleUpdateRequest(c) \/ AcceptEvents(c) \/ SwitchTakesUpdate(c)
  PROVE  SlotRest'
PROOF
  <1> DEFINE s == svm[c]
  <1>1. s \in SvmState /\ VmsaOK(s) /\ svm \in [VCpu -> SvmState]
    BY DEF SlotInv, VmplInv, VmplTypes, VCpuOK
  <1>2. /\ request \subseteq VCpu /\ calls \in CallRec /\ vc \subseteq VCpu
        /\ event \in [VCpu -> SUBSET {"init", "sipi", "irq"}]
    BY DEF SlotInv, SlotRest, RestTypes
  <1>3. CASE HandleUpdateRequest(c)
    <2> DEFINE r == InitReset(s)
    <2>1. /\ svm' = [svm EXCEPT ![c] = r] /\ ResetEffects(c)
          /\ request' = request \ {c} /\ UNCHANGED <<event, calls>>
      BY <1>3 DEF HandleUpdateRequest
    <2>2. /\ r \in SvmState /\ r.target = s.target
          /\ ~HasUpdate(s) => r.ap_create = s.ap_create /\ r.vmsa_pa = s.vmsa_pa
          /\ HasUpdate(s) => r.vmsa_pa = [s.vmsa_pa EXCEPT ![s.target] = NewVmsa(s)]
      BY <1>1, InitResetSlots
    <2> HIDE DEF r
    <2> QED BY <1>2, <2>1, <2>2, TookUpdate DEF SlotRest, RestTypes
  <1>4. CASE SwitchTakesUpdate(c)
    <2> DEFINE r == InitProtectedState(s)
    <2>1. /\ svm' = [svm EXCEPT ![c] = r] /\ ResetEffects(c)
          /\ UNCHANGED <<event, calls, request>>
      BY <1>4 DEF SwitchTakesUpdate
    <2>2. /\ r \in SvmState /\ r.target = s.target
          /\ ~HasUpdate(s) => r.ap_create = s.ap_create /\ r.vmsa_pa = s.vmsa_pa
          /\ HasUpdate(s) => r.vmsa_pa = [s.vmsa_pa EXCEPT ![s.target] = NewVmsa(s)]
      BY <1>1, InitProtectedSlots
    <2> HIDE DEF r
    <2> QED BY <1>2, <2>1, <2>2, TookUpdate DEF SlotRest, RestTypes
  <1>5. CASE AcceptEvents(c)
    <2> DEFINE b == IF "init" \in event[c] THEN InitReset(s) ELSE s
               i == IF "init" \in event[c]
                    THEN [InitReset(s) EXCEPT !.mp_state =
                            IF c = Bsp THEN "runnable" ELSE "init_received"]
                    ELSE s
               q == IF "sipi" \in event[c] /\ i.mp_state = "init_received"
                    THEN [i EXCEPT !.mp_state = "runnable"] ELSE i
               r == IF q.mp_state = "halted" THEN [q EXCEPT !.mp_state = "runnable"]
                    ELSE q
    <2>1. b \in SvmState
      BY <1>1, InitResetSlots
    <2>2. i \in SvmState /\ SameSlotFields(b, i)
      <3>1. CASE "init" \in event[c]
        <4> DEFINE u == InitReset(s)
        <4>1. u \in SvmState /\ i = [u EXCEPT !.mp_state =
                                       IF c = Bsp THEN "runnable" ELSE "init_received"]
              /\ b = u
          BY <2>1, <3>1
        <4> HIDE DEF u, i, b
        <4> QED BY <4>1 DEF SvmState, MpStates, SameSlotFields
      <3>2. CASE "init" \notin event[c]
        BY <1>1, <3>2 DEF SameSlotFields
      <3> QED BY <3>1, <3>2
    <2>3. q \in SvmState /\ SameSlotFields(i, q)
      <3> HIDE DEF i
      <3> QED BY <2>2 DEF SvmState, MpStates, SameSlotFields
    <2>4. r \in SvmState /\ SameSlotFields(q, r)
      <3> HIDE DEF q
      <3> QED BY <2>3 DEF SvmState, MpStates, SameSlotFields
    <2>5. SameSlotFields(b, r)
      <3> HIDE DEF b, i, q, r
      <3> QED BY <2>2, <2>3, <2>4 DEF SameSlotFields
    <2>6. svm' = [svm EXCEPT ![c] = r]
      BY <1>5 DEF AcceptEvents
    <2>7. /\ UNCHANGED <<calls, request>>
          /\ event' = [event EXCEPT ![c] = @ \ {"init", "sipi"}]
      BY <1>5 DEF AcceptEvents
    <2>8. event' \in [VCpu -> SUBSET {"init", "sipi", "irq"}]
      BY <1>2, <2>7
    <2>9. CASE "init" \in event[c]
      <3>1. ResetEffects(c) /\ b = InitReset(s)
        BY <1>5, <2>9 DEF AcceptEvents
      <3>2. /\ b.target = s.target
            /\ ~HasUpdate(s) => b.ap_create = s.ap_create /\ b.vmsa_pa = s.vmsa_pa
            /\ HasUpdate(s) => b.vmsa_pa = [s.vmsa_pa EXCEPT ![s.target] = NewVmsa(s)]
        BY <1>1, <3>1, InitResetSlots
      <3> HIDE DEF b, r
      <3>3. /\ r.target = s.target
            /\ ~HasUpdate(s) => r.ap_create = s.ap_create /\ r.vmsa_pa = s.vmsa_pa
            /\ HasUpdate(s) => r.vmsa_pa = [s.vmsa_pa EXCEPT ![s.target] = NewVmsa(s)]
        BY <2>5, <3>2 DEF SameSlotFields
      <3> QED BY <1>2, <2>4, <2>6, <2>7, <2>8, <3>1, <3>3, TookUpdate
              DEF SlotRest, RestTypes
    <2>10. CASE "init" \notin event[c]
      <3>1. UNCHANGED <<pin, vc, due>> /\ b = s
        BY <1>5, <2>10 DEF AcceptEvents
      <3> HIDE DEF b, r
      <3>2. /\ r.target = s.target
            /\ r.ap_create = s.ap_create /\ r.vmsa_pa = s.vmsa_pa
        BY <2>5, <3>1 DEF SameSlotFields
      <3> QED BY <1>2, <2>6, <2>7, <2>8, <3>1, <3>2, OwnStep
    <2> QED BY <2>9, <2>10
  <1> QED BY <1>3, <1>4, <1>5

LEMMA BeginSwitchSlots ==
  ASSUME SlotInv, NEW c \in VCpu, NEW s \in SvmState, NEW v \in Vmpl, NEW by,
         BeginSwitch(c, s, v, by), s.vmsa_pa = svm[c].vmsa_pa,
         UNCHANGED <<pin, request, event>>, vc' \subseteq VCpu, calls' \in CallRec
  PROVE  SlotRest'
PROOF
  <1> DEFINE r == [s EXCEPT !.target = v]
  <1>1. svm' = [svm EXCEPT ![c] = r] /\ due' = [due EXCEPT ![c] = {}]
    BY DEF BeginSwitch
  <1>2. r.vmsa_pa = svm[c].vmsa_pa
    BY DEF SvmState
  <1>3. event' \in [VCpu -> SUBSET {"init", "sipi", "irq"}]
    BY DEF SlotInv, SlotRest, RestTypes
  <1> HIDE DEF r
  <1> QED BY <1>1, <1>2, <1>3, OwnStep

(* The other steps of a vCPU thread.                                       *)
LEMMA OwnSteps ==
  ASSUME SlotInv, NEW c \in VCpu,
         \/ \E v \in Vmpl : RunVmplNae(c, v) \/ RunVmplMsr(c, v)
         \/ \E g \in Ghcb : RegisterGhcb(c, g) \/ SetGhcb(c, g)
         \/ VcInterception(c) \/ Halt(c) \/ OtherExit(c) \/ Unhalt(c) \/ Enter(c)
         \/ SwitchOrRefuse(c)
         \/ \E e \in {"init", "sipi", "irq"} : SendEvent(c, e)
  PROVE  SlotRest'
PROOF
  <1> DEFINE s == svm[c]
  <1>1. s \in SvmState /\ svm \in [VCpu -> SvmState] /\ s.current \in Vmpl
    BY DEF SlotInv, VmplInv, VmplTypes, SvmState
  <1>2. /\ SlotRest /\ calls \in CallRec /\ vc \subseteq VCpu
        /\ event \in [VCpu -> SUBSET {"init", "sipi", "irq"}]
    BY DEF SlotInv, SlotRest, RestTypes
  <1>3. svm = [svm EXCEPT ![c] = s]
    BY <1>1
  <1>4. ASSUME NEW v \in Vmpl, RunVmplNae(c, v) PROVE SlotRest'
    <2>1. calls' \in CallRec /\ UNCHANGED <<request, event, pin, vc>>
      BY <1>2, <1>4, CallsKept DEF RunVmplNae
    <2>2. CASE BeginSwitch(c, s, v, "nae")
      BY <1>1, <1>2, <2>1, <2>2, BeginSwitchSlots
    <2>3. CASE UNCHANGED <<svm, due>>
      <3>1. svm' = [svm EXCEPT ![c] = s] /\ due' = due
        BY <1>3, <2>3
      <3> HIDE DEF s
      <3> QED BY <1>2, <2>1, <3>1, OwnStep DEF s
    <2> QED BY <1>4, <2>2, <2>3 DEF RunVmplNae
  <1>5. ASSUME NEW v \in Vmpl, RunVmplMsr(c, v) PROVE SlotRest'
    <2> DEFINE r == [s EXCEPT !.vmcb_ghcb = VmplDone]
    <2>1. /\ calls' \in CallRec /\ UNCHANGED <<request, event, pin, vc>>
          /\ BeginSwitch(c, r, v, "msr")
      BY <1>2, <1>5, CallsKept DEF RunVmplMsr
    <2>2. r \in SvmState /\ r.vmsa_pa = svm[c].vmsa_pa
      BY <1>1 DEF SvmState, GhcbMsrs
    <2> HIDE DEF r
    <2> QED BY <1>2, <2>1, <2>2, BeginSwitchSlots
  <1>6. ASSUME VcInterception(c) PROVE SlotRest'
    <2>1. /\ calls' \in CallRec /\ UNCHANGED <<request, event, pin>>
          /\ vc' \subseteq VCpu
      BY <1>2, <1>6, CallsKept DEF VcInterception
    <2>2. CASE BeginSwitch(c, s, 0, "vc")
      BY <1>1, <1>2, <2>1, <2>2, VmplFacts, BeginSwitchSlots
    <2>3. CASE UNCHANGED <<svm, due>>
      <3>1. svm' = [svm EXCEPT ![c] = s] /\ due' = due
        BY <1>3, <2>3
      <3> HIDE DEF s
      <3> QED BY <1>2, <2>1, <3>1, OwnStep DEF s
    <2> QED BY <1>6, <2>2, <2>3 DEF VcInterception
  <1>7. ASSUME NEW r, svm' = [svm EXCEPT ![c] = r], SameSlotFields(s, r),
               UNCHANGED <<pin, request, due>>, vc' \subseteq vc, calls' \in CallRec,
               event' \in [VCpu -> SUBSET {"init", "sipi", "irq"}]
        PROVE  SlotRest'
    BY <1>2, <1>7, OwnStep DEF SameSlotFields
  <1>8. ASSUME NEW g \in Ghcb, RegisterGhcb(c, g) PROVE SlotRest'
    <2> DEFINE r == [s EXCEPT !.registered[s.current] = g, !.vmcb_ghcb = RegDone]
    <2>1. /\ calls' \in CallRec /\ UNCHANGED <<request, event, pin, vc, due>>
      BY <1>2, <1>8, CallsKept DEF RegisterGhcb
    <2>2. svm' = [svm EXCEPT ![c] = r] /\ SameSlotFields(s, r)
      BY <1>1, <1>8 DEF RegisterGhcb, SvmState, SameSlotFields
    <2> HIDE DEF r
    <2> QED BY <1>2, <1>7, <2>1, <2>2
  <1>9. ASSUME NEW g \in Ghcb, SetGhcb(c, g) PROVE SlotRest'
    <2> DEFINE r == [s EXCEPT !.vmcb_ghcb = g]
    <2>1. /\ calls' \in CallRec /\ UNCHANGED <<request, event, pin, vc, due>>
      BY <1>2, <1>9, CallsKept DEF SetGhcb
    <2>2. svm' = [svm EXCEPT ![c] = r] /\ SameSlotFields(s, r)
      BY <1>1, <1>9 DEF SetGhcb, SvmState, SameSlotFields
    <2> HIDE DEF r
    <2> QED BY <1>2, <1>7, <2>1, <2>2
  <1>10. ASSUME Halt(c) \/ Unhalt(c) PROVE SlotRest'
    <2>1. /\ calls' = calls /\ UNCHANGED <<request, event, pin, vc, due>>
          /\ \E m \in MpStates : svm' = [svm EXCEPT ![c].mp_state = m]
      BY <1>10 DEF Halt, Unhalt, MpStates
    <2>2. PICK m \in MpStates : svm' = [svm EXCEPT ![c].mp_state = m]
      BY <2>1
    <2> DEFINE r == [s EXCEPT !.mp_state = m]
    <2>3. svm' = [svm EXCEPT ![c] = r] /\ SameSlotFields(s, r)
      BY <1>1, <2>2 DEF SvmState, SameSlotFields
    <2> HIDE DEF r
    <2> QED BY <1>2, <1>7, <2>1, <2>3
  <1>11. ASSUME OtherExit(c) \/ Enter(c) \/ \E e \in {"init", "sipi", "irq"} : SendEvent(c, e)
         PROVE  SlotRest'
    <2>1. /\ UNCHANGED <<svm, request, pin, due>> /\ vc' \subseteq vc
          /\ Happening \/ calls' = calls
      BY <1>11 DEF OtherExit, Enter, SendEvent
    <2>2. event' \in [VCpu -> SUBSET {"init", "sipi", "irq"}]
      BY <1>2, <1>11 DEF OtherExit, Enter, SendEvent
    <2>3. calls' \in CallRec
      BY <1>2, <2>1, CallsKept
    <2>4. svm' = [svm EXCEPT ![c] = s] /\ SameSlotFields(s, s)
      BY <1>3, <2>1 DEF SameSlotFields
    <2> HIDE DEF s
    <2> QED BY <1>7, <2>1, <2>2, <2>3, <2>4
  <1>12. ASSUME SwitchOrRefuse(c) PROVE SlotRest'
    <2> DEFINE n == new[c]
               refused == s.vmsa_pa[n.vmpl] = INVALID_PAGE
               r == CASE ~refused -> SwitchLevel(s, n.vmpl)
                      [] refused /\ n.by = "msr" -> [s EXCEPT !.vmcb_ghcb = VmplError]
                      [] OTHER -> s
    <2>1. /\ svm' = [svm EXCEPT ![c] = r] /\ calls' = calls
          /\ UNCHANGED <<request, event, pin, vc, due>>
      BY <1>12 DEF SwitchOrRefuse
    <2>2. /\ SameSlotFields(s, SwitchLevel(s, n.vmpl)) /\ SameSlotFields(s, s)
          /\ SameSlotFields(s, [s EXCEPT !.vmcb_ghcb = VmplError])
      BY <1>1 DEF SwitchLevel, SvmState, SameSlotFields
    <2>3. r \in {SwitchLevel(s, n.vmpl), [s EXCEPT !.vmcb_ghcb = VmplError], s}
      OBVIOUS
    <2> HIDE DEF r, s
    <2>4. SameSlotFields(s, r)
      BY <2>2, <2>3
    <2> QED BY <1>2, <1>7, <2>1, <2>4
  <1> QED BY <1>4, <1>5, <1>6, <1>8, <1>9, <1>10, <1>11, <1>12

(* A creation request pins nothing.  An accepted CREATE makes its level    *)
(* the target and asks for the update; any other request leaves the level  *)
(* that is due alone or takes it out.                                      *)
LEMMA ApCreationSlots ==
  ASSUME SlotInv, NEW c \in VCpu, NEW t \in VCpu, NEW v \in Vmpl,
         NEW r \in ApRequests, NEW gpa \in Page \cup {INVALID_PAGE},
         ApCreation(c, t, v, r, gpa)
  PROVE  SlotRest'
PROOF
  <1> DEFINE s == svm[t]
             ok == AcceptsCreation(c, t, v, r, gpa)
             slot == [s EXCEPT !.ap_create[v] = TRUE, !.gpa[v] = INVALID_PAGE]
             made == IF ok /\ r # "destroy" THEN FillSlot(slot, v, gpa) ELSE slot
             q == IF Kicks(ok, r) /\ s.mp_state = "uninitialized"
                  THEN [made EXCEPT !.mp_state = "runnable"] ELSE made
             tgt == IF ok /\ r # "destroy" THEN v ELSE s.target
  <1>1. /\ svm \in [VCpu -> SvmState] /\ s \in SvmState
        /\ s.ap_create \in [Vmpl -> BOOLEAN]
    BY DEF SlotInv, VmplInv, VmplTypes, SvmState
  <1>2. /\ SlotRest /\ request \subseteq VCpu /\ pin \in [Page -> Int]
        /\ due \in [VCpu -> SUBSET Vmpl] /\ vc \subseteq VCpu
        /\ event \in [VCpu -> SUBSET {"init", "sipi", "irq"}]
        /\ PinsExact /\ DueInv
    BY DEF SlotInv, SlotRest, RestTypes
  <1>3. /\ slot \in SvmState /\ slot.vmsa_pa = s.vmsa_pa /\ slot.target = s.target
        /\ slot.ap_create = [s.ap_create EXCEPT ![v] = TRUE]
    BY <1>1 DEF SvmState
  <1>4. /\ made \in SvmState /\ made.vmsa_pa = s.vmsa_pa
        /\ made.ap_create = slot.ap_create /\ made.target = tgt
    <2> HIDE DEF slot, ok, s
    <2> QED BY <1>3 DEF FillSlot, SvmState
  <1>5. /\ q.vmsa_pa = s.vmsa_pa /\ q.target = tgt
        /\ q.ap_create = [s.ap_create EXCEPT ![v] = TRUE]
    <2> HIDE DEF made, slot, ok, s, tgt
    <2> QED BY <1>3, <1>4 DEF SvmState
  <1>6. /\ svm' = [svm EXCEPT ![t] = q]
        /\ request' = IF Kicks(ok, r) THEN request \cup {t} ELSE request
    BY <1>1 DEF ApCreation
  <1>7. due' = [due EXCEPT ![t] = CASE ok /\ r = "create"         -> {v}
                                    [] ok /\ r = "create_on_init" -> {}
                                    [] OTHER                      -> @ \ {v}]
    BY DEF ApCreation
  <1>8. Creating /\ UNCHANGED <<event, pin, vc>>
    BY DEF ApCreation
  <1>9. calls' \in CallRec
    BY <1>2, <1>8, CallsKept
  <1> HIDE DEF s, ok, slot, made, q
  <1>10. \A d \in VCpu : svm'[d] = IF d = t THEN q ELSE svm[d]
    BY <1>1, <1>6
  <1>11. \A d \in VCpu : svm'[d].vmsa_pa = svm[d].vmsa_pa
    BY <1>5, <1>10 DEF s
  <1>12. PinsExact'
    <2>1. \A p \in Page : Users(p)' = Users(p)
      BY <1>11 DEF Users, UsersIn
    <2> QED BY <1>2, <1>8, <2>1 DEF PinsExact, Users, UsersIn
  <1>13. due' \in [VCpu -> SUBSET Vmpl]
    BY <1>2, <1>7
  <1>14. request' \subseteq VCpu /\ request \subseteq request'
    BY <1>2, <1>6
  <1>15. DueInv'
    <2> SUFFICES ASSUME NEW d \in VCpu, NEW w \in due'[d]
                 PROVE  w = svm'[d].target /\ svm'[d].ap_create[w] /\ d \in request'
      BY DEF DueInv
    <2>1. CASE d # t
      <3>1. due'[d] = due[d] /\ svm'[d] = svm[d]
        BY <1>2, <1>7, <1>10, <2>1
      <3> QED BY <1>2, <1>14, <3>1 DEF DueInv
    <2>2. CASE d = t
      <3>1. \/ ok /\ r = "create" /\ due'[t] = {v}
            \/ ok /\ r = "create_on_init" /\ due'[t] = {}
            \/ ~ok /\ due'[t] = due[t] \ {v}
            \/ r = "destroy" /\ due'[t] = due[t] \ {v}
        BY <1>2, <1>7 DEF ApRequests
      <3>2. CASE ok /\ r = "create" /\ due'[t] = {v}
        <4>1. w = v /\ tgt = v /\ Kicks(ok, r)
          BY <2>2, <3>2 DEF Kicks
        <4> QED BY <1>1, <1>5, <1>6, <1>10, <2>2, <4>1
      <3>3. CASE (~ok \/ r = "destroy") /\ due'[t] = due[t] \ {v}
        <4>1. w \in due[t] /\ w # v /\ tgt = s.target
          BY <2>2, <3>3
        <4>2. w = s.target /\ s.ap_create[w] /\ t \in request
          BY <1>2, <4>1 DEF DueInv, s
        <4>3. w \in Vmpl
          BY <1>2, <4>1
        <4> QED BY <1>1, <1>5, <1>10, <1>14, <2>2, <4>1, <4>2, <4>3
      <3> QED BY <2>2, <3>1, <3>2, <3>3
    <2> QED BY <2>1, <2>2
  <1> QED BY <1>2, <1>8, <1>9, <1>12, <1>13, <1>14, <1>15 DEF SlotRest, RestTypes

LEMMA InitSlots == Init => SlotRest
PROOF
  <1> SUFFICES ASSUME Init PROVE SlotRest
    OBVIOUS
  <1>1. ASSUME NEW p \in Page PROVE Cardinality(Users(p)) = 0
    <2>1. p # INVALID_PAGE /\ p # HostVmsa
      BY VmplAssumption
    <2>2. \A c \in VCpu, v \in Vmpl : svm[c].vmsa_pa[v] \in {INVALID_PAGE, HostVmsa}
      BY DEF Init, ResetSvm
    <2>3. Users(p) = {}
      BY <2>1, <2>2 DEF Users, UsersIn
    <2> QED BY <2>3, FS_EmptySet
  <1>2. PinsExact
    BY <1>1 DEF Init, PinsExact, Users, UsersIn
  <1>3. DueInv
    BY DEF Init, DueInv
  <1>4. RestTypes
    BY VmplAssumption DEF Init, RestTypes, CallRec
  <1> QED BY <1>2, <1>3, <1>4 DEF SlotRest

LEMMA SlotInvariant == Spec => []SlotInv
PROOF
  <1>1. Init => SlotInv
    BY InitVmpl, InitSlots DEF SlotInv
  <1>2. SlotInv /\ [Next]_vars => SlotInv'
    <2> SUFFICES ASSUME SlotInv, [Next]_vars PROVE SlotRest'
      BY StepVmpl DEF SlotInv
    <2>1. CASE UNCHANGED vars
      BY <2>1 DEF vars, SlotInv, SlotRest, RestTypes, PinsExact, DueInv
    <2>2. ASSUME NEW c \in VCpu, GuestStep(c) PROVE SlotRest'
      BY <2>2, OwnSteps, ApCreationSlots DEF GuestStep
    <2>3. ASSUME NEW c \in VCpu, HostStep(c) PROVE SlotRest'
      BY <2>3, OwnSteps, UpdateStep DEF HostStep
    <2>4. ASSUME NEW c \in VCpu, NEW e \in {"init", "sipi", "irq"}, SendEvent(c, e)
          PROVE  SlotRest'
      BY <2>4, OwnSteps
    <2> QED BY <2>1, <2>2, <2>3, <2>4 DEF Next
  <1> QED BY <1>1, <1>2, PTL DEF Spec

(* Every variable keeps its type through any mix of exits, updates and     *)
(* switches: no page reference count of the host ever goes below zero      *)
(* (sev.c:3433 gives back what an earlier update took), no slot is written *)
(* outside its array of levels and a VMSA is a page the guest named.       *)
THEOREM VmplTypeCorrect == Spec => []TypeOK
PROOF
  <1>1. SlotInv => TypeOK
    <2> SUFFICES ASSUME SlotInv PROVE TypeOK
      OBVIOUS
    <2>1. ASSUME NEW p \in Page PROVE pin[p] \in Nat
      <3>1. Users(p) \in SUBSET (VCpu \X Vmpl)
        BY DEF Users, UsersIn
      <3>2. pin[p] = Cardinality(Users(p))
        BY DEF SlotInv, SlotRest, PinsExact, Users, UsersIn
      <3> QED BY <3>1, <3>2, UsersFinite
    <2>2. pin \in [Page -> Nat]
      BY <2>1 DEF SlotInv, SlotRest, RestTypes
    <2> QED BY <2>2 DEF SlotInv, SlotRest, VmplInv, VmplTypes, RestTypes, CallRec, TypeOK
  <1> QED BY <1>1, SlotInvariant, PTL

(* The host holds exactly one reference on a guest page for every level of *)
(* every vCPU that runs on it: the update takes the new page and gives the *)
(* old one back (sev.c:3433, 3450), and nothing else changes a VMSA.       *)
THEOREM PinsFollowVmsas == Spec => []PinsExact
PROOF
  <1>1. SlotInv => PinsExact
    BY DEF SlotInv, SlotRest
  <1> QED BY <1>1, SlotInvariant, PTL

(* A vCPU does not go on with the old VMSA of the level of the last CREATE *)
(* accepted for it: that level is the target and its slot is marked for as *)
(* long as the request is pending, whatever INITs, refused requests and    *)
(* other vCPUs' creations come first (sev.c:3501, 3622-3649).              *)
THEOREM CreateIsTaken == Spec => []CreateTakesEffect
PROOF
  <1>1. SlotInv => CreateTakesEffect
    BY DEF SlotInv, SlotRest, DueInv, CreateTakesEffect
  <1> QED BY <1>1, SlotInvariant, PTL

=============================================================================
