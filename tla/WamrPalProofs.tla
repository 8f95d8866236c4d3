--------------------------- MODULE WamrPalProofs ---------------------------
(***************************************************************************)
(* Proofs about WamrPal, for every number of keys, pool size, address      *)
(* limit, set of modules and set of faults.                                *)
(***************************************************************************)
EXTENDS WamrPal, TLAPS

(* Places where nothing is loaded, where the module is, and in between.    *)
ClearPcs == {"boot", "init", "alloc", "create", "destroy", "exited", "spin"}
LoadedPcs == {"enter", "inst", "env", "hash", "call", "fin", "unload",
              "unloading"}
LoadingPcs == {"enterload", "loading", "undoload"}

(* What g_wasm_buf, g_module and the domain are at each place of the code. *)
ControlInv ==
  /\ pc \in {"boot", "init"} => nextAddr = 1
  /\ pc \in ClearPcs => domain = NoDomain /\ module = NoModule
  /\ pc \in ClearPcs \ {"create"} => wasmBuf = NoModule
  /\ pc \in {"create"} \cup LoadingPcs => wasmBuf = request.mod
  /\ pc \in {"alloc", "create"} \cup LoadingPcs => request.kind = "load"
  /\ pc \in {"idle", "dispatch"} =>
       /\ wasmBuf = module
       /\ IF module = NoModule THEN domain = NoDomain ELSE domain.base # 0
  /\ pc \in LoadedPcs =>
       domain.base # 0 /\ module # NoModule /\ wasmBuf = module
  /\ pc \in LoadingPcs \cup {"undomain"} => domain.base # 0 /\ module = NoModule
  /\ ModuleBacked

(* KeyConservation needs to know that a push never finds the stack full.   *)
PoolInv ==
  /\ domain.base = 0 => freeTop = pkeyTotal
  /\ domain.base # 0 => freeTop + 1 = pkeyTotal /\ domain.pkey # 0
  /\ \A i \in 1 .. freeTop : pkeyFree[i] # 0
  /\ KeyConservation

MpkInv == SvsmTypeOK /\ AllocTypeOK /\ PoolInv

-----------------------------------------------------------------------------
(* What each operation of the allocator does to its invariant.             *)

(* The pool is intact when neither it nor the domain's key is touched.     *)
LEMMA PoolUntouched ==
  ASSUME PoolInv, UNCHANGED poolVars, domain'.base = domain.base,
         domain'.pkey = domain.pkey
  PROVE  PoolInv'
BY DEF PoolInv, KeyConservation, FreeKeys, PoolKeys, poolVars

(* The allocator's invariant survives whatever leaves its variables alone. *)
LEMMA AllocatorUntouched ==
  ASSUME MpkInv, UNCHANGED allocVars, SvsmTypeOK'
  PROVE  MpkInv'
<1>1. AllocTypeOK'
  BY DEF MpkInv, AllocTypeOK, allocVars, poolVars, heapVars
<1>2. PoolInv'
  BY PoolUntouched DEF MpkInv, allocVars
<1>. QED BY <1>1, <1>2 DEF MpkInv

LEMMA MpkUntouched ==
  ASSUME MpkInv, UNCHANGED mpkVars
  PROVE  MpkInv'
<1>1. SvsmTypeOK'
  BY DEF MpkInv, SvsmTypeOK, mpkVars, svsmVars
<1>. QED BY <1>1, AllocatorUntouched DEF mpkVars

(* The key of a live domain is a key of the monitor. *)
LEMMA DomainKey ==
  ASSUME MpkInv, domain.base # 0
  PROVE  domain.pkey \in Keys
BY SvsmAssumption DEF MpkInv, AllocTypeOK, PoolInv, Keys

(* What pkey_pool_init writes into its two tables. *)
LEMMA KeyTable ==
  ASSUME NEW got \in 0 .. PoolSize, NEW ks \in [1 .. got -> Keys]
  PROVE  /\ [i \in Slots |-> IF i <= got THEN ks[i] ELSE 0]
              \in [Slots -> 0 .. MaxKey]
         /\ {ks[i] : i \in 1 .. got} \subseteq Keys
<1>. USE SvsmAssumption, AllocatorAssumption
<1>1. \A i \in Slots : (IF i <= got THEN ks[i] ELSE 0) \in 0 .. MaxKey
  BY DEF Keys, Slots
<1>2. \A i \in 1 .. got : ks[i] \in Keys
  OBVIOUS
<1>. QED BY <1>1, <1>2

LEMMA AllocatorInitPreserves ==
  ASSUME MpkInv, domain = NoDomain,
         NEW got \in 1 .. PoolSize, NEW ks \in KeyGrants(got),
         AllocatorInit(got, ks)
  PROVE  MpkInv' /\ UNCHANGED domain
<1>. USE SvsmAssumption, AllocatorAssumption
<1>1. /\ ks \in [1 .. got -> Keys]
      /\ \A i, j \in 1 .. got : ks[i] = ks[j] => i = j
  BY DEF KeyGrants
<1>2. got \in 0 .. PoolSize
  OBVIOUS
<1>3. /\ pkeyPool' = [i \in Slots |-> IF i <= got THEN ks[i] ELSE 0]
      /\ pkeyFree' = [i \in Slots |-> IF i <= got THEN ks[i] ELSE 0]
      /\ pkeyTotal' = got /\ freeTop' = got
      /\ svsmKeys' = svsmKeys \cup {ks[i] : i \in 1 .. got}
      /\ domain' = domain
  BY DEF AllocatorInit, PkeyPoolInit
<1>4. nextAddr' \in 1 .. AddrLimit - 1
  BY DEF MpkInv, AllocTypeOK, AllocatorInit, AddressSpaceExhausted
<1>5. svsmKeys' \subseteq Keys
  BY <1>1, <1>2, <1>3, KeyTable DEF MpkInv, SvsmTypeOK
<1>6. SvsmTypeOK'
  BY <1>5 DEF MpkInv, SvsmTypeOK, AllocatorInit
<1>7. pkeyPool' \in [Slots -> 0 .. MaxKey] /\ pkeyFree' \in [Slots -> 0 .. MaxKey]
  BY <1>1, <1>2, <1>3, KeyTable
<1>8. AllocTypeOK'
  BY <1>2, <1>3, <1>4, <1>7 DEF MpkInv, AllocTypeOK, AllocatorInit
<1>9. \A i \in 1 .. got : pkeyFree'[i] = ks[i] /\ pkeyPool'[i] = ks[i]
  BY <1>3 DEF Slots
<1>10. domain'.base = 0
  BY <1>3 DEF NoDomain
<1>11. \A i \in 1 .. freeTop' : pkeyFree'[i] # 0
  <2>1. \A i \in 1 .. got : ks[i] # 0
    BY <1>1 DEF Keys
  <2>. QED BY <1>3, <1>9, <2>1
<1>12. KeyConservation'
  BY <1>1, <1>3, <1>9, <1>10 DEF KeyConservation, FreeKeys, PoolKeys
<1>13. PoolInv'
  BY <1>3, <1>10, <1>11, <1>12 DEF PoolInv
<1>. QED BY <1>3, <1>6, <1>8, <1>13 DEF MpkInv

LEMMA AllocatorInitFailsPreserves ==
  ASSUME MpkInv, domain = NoDomain, nextAddr = 1,
         NEW got \in 0 .. PoolSize, NEW ks \in KeyGrants(got),
         NEW kept \in SUBSET {ks[i] : i \in 1 .. got}, NEW at,
         AllocatorInitFails(got, ks, kept, at)
  PROVE  MpkInv' /\ UNCHANGED domain
<1>. USE SvsmAssumption, AllocatorAssumption
<1>1. ks \in [1 .. got -> Keys]
  BY DEF KeyGrants
<1>2. /\ pkeyPool' = [i \in Slots |-> IF i <= got THEN ks[i] ELSE 0]
      /\ pkeyFree' = [i \in Slots |-> IF i <= got THEN ks[i] ELSE 0]
      /\ pkeyTotal' = 0 /\ freeTop' = 0
      /\ svsmKeys' = svsmKeys \cup kept
      /\ UNCHANGED <<allocInit, defaultMsp, currentMsp, domain, svsmRegions,
                     pkru, misuse>>
  BY DEF AllocatorInitFails, heapVars
<1>3. nextAddr' \in 1 .. AddrLimit - 1
  BY DEF AllocatorInitFails
<1>4. SvsmTypeOK'
  <2>1. svsmKeys' \subseteq Keys
    BY <1>1, <1>2, KeyTable DEF MpkInv, SvsmTypeOK
  <2>. QED BY <1>2, <2>1 DEF MpkInv, SvsmTypeOK
<1>5. pkeyPool' \in [Slots -> 0 .. MaxKey] /\ pkeyFree' \in [Slots -> 0 .. MaxKey]
  BY <1>1, <1>2, KeyTable
<1>6. AllocTypeOK'
  BY <1>2, <1>3, <1>5 DEF MpkInv, AllocTypeOK
<1>7. PoolInv'
  <2>1. domain'.base = 0
    BY <1>2 DEF NoDomain
  <2>. QED
    BY <1>2, <2>1 DEF PoolInv, KeyConservation, FreeKeys, PoolKeys
<1>. QED BY <1>2, <1>4, <1>6, <1>7 DEF MpkInv

LEMMA AllocatorDestroyPreserves ==
  ASSUME MpkInv, domain = NoDomain, AllocatorDestroy
  PROVE  MpkInv' /\ UNCHANGED domain
<1>1. CASE allocInit
  <2>. PICK kept \in SUBSET PoolKeys : SvsmFreeKeys(PoolKeys, kept)
    BY <1>1 DEF AllocatorDestroy, PkeyPoolDestroy
  <2>1. /\ pkeyTotal' = 0 /\ freeTop' = 0
        /\ UNCHANGED <<pkeyPool, pkeyFree, nextAddr, domain, svsmRegions, pkru>>
        /\ allocInit' = FALSE /\ defaultMsp' = FALSE /\ currentMsp' = "null"
    BY <1>1 DEF AllocatorDestroy, PkeyPoolDestroy
  <2>2. SvsmTypeOK'
    BY <2>1 DEF MpkInv, SvsmTypeOK, SvsmFreeKeys
  <2>3. AllocTypeOK'
    <3>1. pkeyTotal' \in 0 .. PoolSize /\ freeTop' \in 0 .. PoolSize
      BY <2>1, AllocatorAssumption
    <3>. QED BY <2>1, <3>1 DEF MpkInv, AllocTypeOK
  <2>4. domain'.base = 0
    BY <2>1 DEF NoDomain
  <2>5. PoolInv'
    BY <2>1, <2>4 DEF PoolInv, KeyConservation, FreeKeys, PoolKeys
  <2>. QED BY <2>1, <2>2, <2>3, <2>5 DEF MpkInv
<1>2. CASE ~allocInit
  <2>1. UNCHANGED <<allocVars, svsmVars>>
    BY <1>2 DEF AllocatorDestroy
  <2>. QED BY <2>1, MpkUntouched DEF mpkVars, allocVars
<1>. QED BY <1>1, <1>2

LEMMA DomainCreatePreserves ==
  ASSUME MpkInv, domain = NoDomain, DomainCreate
  PROVE  /\ MpkInv'
         /\ domain' = [pkey |-> PoolTop, base |-> nextAddr, msp |-> FALSE]
         /\ domain'.base # 0
         /\ UNCHANGED <<pkru, currentMsp>>
<1>. USE SvsmAssumption, AllocatorAssumption
<1>1. freeTop \in 1 .. PoolSize /\ freeTop \in 1 .. pkeyTotal
  BY DEF MpkInv, AllocTypeOK, DomainCreate, PoolInv, NoDomain
<1>2. PoolTop \in Keys
  <2>1. PoolTop \in 0 .. MaxKey
    BY <1>1 DEF MpkInv, AllocTypeOK, PoolTop, Slots
  <2>2. PoolTop # 0
    BY <1>1 DEF MpkInv, PoolInv, PoolTop
  <2>. QED BY <2>1, <2>2 DEF Keys
<1>3. /\ freeTop' = freeTop - 1
      /\ UNCHANGED <<pkeyPool, pkeyTotal, pkeyFree, allocInit, defaultMsp,
                     currentMsp, svsmKeys, pkru>>
      /\ domain' = [pkey |-> PoolTop, base |-> nextAddr, msp |-> FALSE]
      /\ svsmRegions' = svsmRegions \cup {<<nextAddr, PoolTop>>}
      /\ misuse' \in {misuse, misuse \cup {"alloc_unowned"}}
  BY DEF DomainCreate, PkeyPoolAlloc, SvsmMpkAlloc, heapVars
<1>4. nextAddr \in Nat \ {0} /\ nextAddr' \in 1 .. AddrLimit - 1
  BY DEF MpkInv, AllocTypeOK, DomainCreate, AddressSpaceExhausted
<1>5. SvsmTypeOK'
  BY <1>2, <1>3, <1>4 DEF MpkInv, SvsmTypeOK
<1>6. /\ domain'.base = nextAddr /\ domain'.pkey = PoolTop
      /\ domain' \in [pkey : 0 .. MaxKey, base : 0 .. AddrLimit, msp : BOOLEAN]
  <2>1. nextAddr \in 0 .. AddrLimit /\ PoolTop \in 0 .. MaxKey
    BY <1>2, <1>4 DEF MpkInv, AllocTypeOK, Keys
  <2>. QED BY <1>3, <2>1
<1>7. freeTop' \in 0 .. PoolSize
  BY <1>1, <1>3
<1>8. AllocTypeOK'
  BY <1>3, <1>4, <1>6, <1>7 DEF MpkInv, AllocTypeOK
<1>9. KeyConservation'
  <2>1. \A i, j \in 1 .. freeTop : pkeyFree[i] = pkeyFree[j] => i = j
    BY DEF MpkInv, PoolInv, KeyConservation
  <2>2. PoolTop = pkeyFree[freeTop]
    BY DEF PoolTop
  <2>3. FreeKeys' = FreeKeys \ {PoolTop} /\ PoolTop \in FreeKeys
    <3>1. \A i \in 1 .. freeTop : i # freeTop => pkeyFree[i] # PoolTop
      BY <1>1, <2>1, <2>2
    <3>2. 1 .. freeTop' = (1 .. freeTop) \ {freeTop}
      BY <1>1, <1>3
    <3>. QED BY <1>1, <1>3, <2>2, <3>1, <3>2 DEF FreeKeys
  <2>4. PoolKeys' = FreeKeys
    BY <1>3 DEF MpkInv, PoolInv, KeyConservation, PoolKeys, NoDomain
  <2>5. PoolKeys' = FreeKeys' \cup {domain'.pkey} /\ domain'.pkey \notin FreeKeys'
    BY <1>6, <2>3, <2>4
  <2>6. domain'.base # 0
    BY <1>4, <1>6
  <2>7. \A i, j \in 1 .. freeTop' : pkeyFree'[i] = pkeyFree'[j] => i = j
    BY <1>1, <1>3, <2>1
  <2>. QED BY <2>5, <2>6, <2>7 DEF KeyConservation
<1>10. /\ domain'.base # 0 /\ domain'.pkey # 0
       /\ freeTop' + 1 = pkeyTotal'
       /\ \A i \in 1 .. freeTop' : pkeyFree'[i] # 0
  BY <1>1, <1>2, <1>3, <1>4, <1>6 DEF MpkInv, PoolInv, NoDomain, Keys
<1>11. PoolInv'
  BY <1>9, <1>10 DEF PoolInv
<1>. QED BY <1>3, <1>5, <1>8, <1>10, <1>11 DEF MpkInv

LEMMA DomainCreateFailsPreserves ==
  ASSUME MpkInv, DomainCreateFails
  PROVE  MpkInv' /\ UNCHANGED <<allocVars, pkru>>
<1>1. /\ UNCHANGED <<allocVars, svsmKeys, svsmRegions, pkru>>
      /\ misuse' \in {misuse, misuse \cup {"alloc_unowned"}}
  BY DEF DomainCreateFails, SvsmMpkAlloc, svsmVars
<1>2. SvsmTypeOK'
  BY <1>1 DEF MpkInv, SvsmTypeOK
<1>. QED BY <1>1, <1>2, AllocatorUntouched

LEMMA DomainEnterPreserves ==
  ASSUME MpkInv, DomainEnter
  PROVE  /\ MpkInv'
         /\ domain'.base = domain.base /\ domain'.pkey = domain.pkey
         /\ domain'.msp = TRUE
<1>1. /\ domain' = [domain EXCEPT !.msp = TRUE]
      /\ domain \in [pkey : 0 .. MaxKey, base : 0 .. AddrLimit, msp : BOOLEAN]
  BY DEF DomainEnter, MpkInv, AllocTypeOK
<1>2. /\ domain' \in [pkey : 0 .. MaxKey, base : 0 .. AddrLimit, msp : BOOLEAN]
      /\ domain'.base = domain.base /\ domain'.pkey = domain.pkey
      /\ domain'.msp = TRUE
  BY <1>1, Zenon
<1>3. UNCHANGED <<poolVars, nextAddr, allocInit, defaultMsp, svsmKeys,
                  svsmRegions, misuse>>
  BY DEF DomainEnter, heapVars
<1>4. SvsmTypeOK'
  BY <1>3, DomainKey DEF MpkInv, SvsmTypeOK, DomainEnter, Entered
<1>5. currentMsp' = "domain"
  BY DEF DomainEnter
<1>6. AllocTypeOK'
  BY <1>2, <1>3, <1>5 DEF MpkInv, AllocTypeOK, poolVars
<1>7. PoolInv'
  BY <1>2, <1>3, PoolUntouched DEF MpkInv
<1>. QED BY <1>2, <1>4, <1>6, <1>7 DEF MpkInv

LEMMA DomainEnterFailsPreserves ==
  ASSUME MpkInv, domain.base # 0, DomainEnterFails
  PROVE  MpkInv' /\ UNCHANGED allocVars
<1>1. pkru' \subseteq Keys
  BY DomainKey DEF MpkInv, SvsmTypeOK, DomainEnterFails, Exited, Entered
<1>2. SvsmTypeOK'
  BY <1>1 DEF MpkInv, SvsmTypeOK, DomainEnterFails
<1>. QED BY <1>2, AllocatorUntouched DEF DomainEnterFails

LEMMA DomainExitPreserves ==
  ASSUME MpkInv, DomainExit
  PROVE  MpkInv' /\ UNCHANGED domain
<1>1. pkru' \subseteq Keys
  BY DEF MpkInv, SvsmTypeOK, DomainExit, Exited
<1>2. SvsmTypeOK'
  BY <1>1 DEF MpkInv, SvsmTypeOK, DomainExit
<1>3. AllocTypeOK'
  BY DEF MpkInv, AllocTypeOK, DomainExit, DefaultMsp, poolVars, heapVars
<1>4. PoolInv'
  BY PoolUntouched DEF MpkInv, DomainExit
<1>. QED BY <1>2, <1>3, <1>4 DEF MpkInv, DomainExit

LEMMA DomainDestroyPreserves ==
  ASSUME MpkInv, domain.base # 0, DomainDestroy
  PROVE  MpkInv' /\ domain' = NoDomain
<1>. USE SvsmAssumption, AllocatorAssumption
<1>. PICK entered \in BOOLEAN, freed \in BOOLEAN :
            DestroyRegion(entered, freed)
  BY DEF DomainDestroy
<1>1. domain.pkey \in Keys
  BY DomainKey
<1>2. freeTop + 1 = pkeyTotal /\ freeTop + 1 \in Slots /\ freeTop \in Nat
  BY DEF MpkInv, AllocTypeOK, PoolInv, Slots
<1>3. /\ freeTop' = freeTop + 1
      /\ pkeyFree' = [pkeyFree EXCEPT ![freeTop + 1] = domain.pkey]
      /\ UNCHANGED <<pkeyPool, pkeyTotal>>
      /\ domain' = NoDomain
      /\ UNCHANGED <<nextAddr, allocInit, defaultMsp>>
  BY <1>2 DEF DestroyRegion, PkeyPoolFree, heapVars
<1>4. SvsmTypeOK'
  <2>1. pkru' \subseteq Keys
    BY <1>1 DEF MpkInv, SvsmTypeOK, DestroyRegion, Exited, Entered
  <2>. QED
    BY <2>1 DEF MpkInv, SvsmTypeOK, DestroyRegion, SvsmFreePkey
<1>5. pkeyFree' \in [Slots -> 0 .. MaxKey] /\ freeTop' \in 0 .. PoolSize
  <2>1. domain.pkey \in 0 .. MaxKey
    BY <1>1 DEF Keys
  <2>. QED BY <1>2, <1>3, <2>1 DEF MpkInv, AllocTypeOK, Slots
<1>6. currentMsp' \in {"null", "default", "domain"}
  BY DEF DestroyRegion, DefaultMsp, MpkInv, AllocTypeOK
<1>7. NoDomain \in [pkey : 0 .. MaxKey, base : 0 .. AddrLimit, msp : BOOLEAN]
  BY DEF NoDomain
<1>8. AllocTypeOK'
  BY <1>3, <1>5, <1>6, <1>7 DEF MpkInv, AllocTypeOK
<1>9. domain'.base = 0
  BY <1>3 DEF NoDomain
<1>10. /\ pkeyFree'[freeTop + 1] = domain.pkey
       /\ \A i \in 1 .. freeTop : pkeyFree'[i] = pkeyFree[i]
       /\ 1 .. freeTop' = (1 .. freeTop) \cup {freeTop + 1}
  <2>1. pkeyFree \in [Slots -> 0 .. MaxKey] /\ 1 .. freeTop \subseteq Slots
    BY <1>2 DEF MpkInv, AllocTypeOK, Slots
  <2>2. freeTop + 1 \notin 1 .. freeTop
    BY <1>2
  <2>3. 1 .. freeTop' = (1 .. freeTop) \cup {freeTop + 1}
    BY <1>2, <1>3
  <2>4. pkeyFree'[freeTop + 1] = domain.pkey
    BY <1>2, <1>3, <2>1
  <2>5. \A i \in 1 .. freeTop : pkeyFree'[i] = pkeyFree[i]
    BY <1>2, <1>3, <2>1, <2>2
  <2>. QED BY <2>3, <2>4, <2>5
<1>11. KeyConservation'
  <2>1. /\ \A i, j \in 1 .. freeTop : pkeyFree[i] = pkeyFree[j] => i = j
        /\ \A i \in 1 .. freeTop : pkeyFree[i] # domain.pkey
        /\ PoolKeys = FreeKeys \cup {domain.pkey}
    BY DEF MpkInv, PoolInv, KeyConservation, FreeKeys
  <2>2. FreeKeys' = FreeKeys \cup {domain.pkey}
    BY <1>10 DEF FreeKeys
  <2>3. PoolKeys' = PoolKeys
    BY <1>3 DEF PoolKeys
  <2>4. \A i, j \in 1 .. freeTop' : pkeyFree'[i] = pkeyFree'[j] => i = j
    BY <1>10, <2>1
  <2>. QED BY <1>9, <2>1, <2>2, <2>3, <2>4 DEF KeyConservation
<1>12. \A i \in 1 .. freeTop' : pkeyFree'[i] # 0
  <2>1. domain.pkey # 0 /\ \A i \in 1 .. freeTop : pkeyFree[i] # 0
    BY DEF MpkInv, PoolInv
  <2>. QED BY <1>10, <2>1
<1>13. PoolInv'
  <2>1. freeTop' = pkeyTotal'
    BY <1>2, <1>3
  <2>. QED BY <1>9, <1>11, <1>12, <2>1 DEF PoolInv
<1>. QED BY <1>3, <1>4, <1>8, <1>13 DEF MpkInv

-----------------------------------------------------------------------------
(* The inductive invariant.                                                *)
IndInv == MpkInv /\ PalTypeOK /\ ControlInv

(* The steps that do not call the allocator, on any of their paths.        *)
LocalStep ==
  \/ PalHeapInit \/ ReceiveShutdown \/ RejectName \/ ReceiveLoad
  \/ ReceiveCall \/ AllocBuffer \/ AllocBufferFails
  \/ Instantiate \/ CreateExecEnv \/ WriteEnvHash \/ CallFunction
  \/ \E r \in Requests : GuestInvoke(r)

LEMMA LocalStepUntouched ==
  ASSUME LocalStep
  PROVE  UNCHANGED mpkVars
BY DEF LocalStep, PalHeapInit, ReceiveShutdown, RejectName, ReceiveLoad,
   ReceiveCall, AllocBuffer, AllocBufferFails, Instantiate, CreateExecEnv,
   WriteEnvHash, CallFunction, GuestInvoke, Touching, Goto, SendAnswer

(* The allocator's invariant, the pool's included, is kept by every step.  *)
LEMMA MpkStep ==
  ASSUME IndInv, [Next]_vars
  PROVE  MpkInv'
<1>. USE DEF IndInv
<1>1. CASE UNCHANGED vars
  BY <1>1, MpkUntouched DEF vars
<1>2. CASE LocalStep
  BY <1>2, LocalStepUntouched, MpkUntouched
<1>3. CASE RuntimeInit
  <2>1. domain = NoDomain
    BY <1>3 DEF RuntimeInit, ControlInv, ClearPcs
  <2>. QED BY <1>3, <2>1, AllocatorInitPreserves DEF RuntimeInit
<1>4. CASE RuntimeInitFails
  <2>1. domain = NoDomain /\ nextAddr = 1
    BY <1>4 DEF RuntimeInitFails, ControlInv, ClearPcs
  <2>. QED BY <1>4, <2>1, AllocatorInitFailsPreserves DEF RuntimeInitFails
<1>5. CASE UnloadEnter
  <2>1. domain.base # 0
    BY <1>5 DEF UnloadEnter, ControlInv, LoadedPcs
  <2>. QED
    BY <1>5, <2>1, MpkUntouched, DomainEnterPreserves,
       DomainEnterFailsPreserves DEF UnloadEnter
<1>6. CASE UnloadModule
  BY <1>6, DomainExitPreserves, MpkUntouched DEF UnloadModule, Touching
<1>7. CASE UnloadDestroy
  <2>1. domain.base # 0
    BY <1>7 DEF UnloadDestroy, ControlInv
  <2>. QED BY <1>7, <2>1, DomainDestroyPreserves DEF UnloadDestroy
<1>8. CASE LoadCreate
  <2>1. domain = NoDomain
    BY <1>8 DEF LoadCreate, ControlInv, ClearPcs
  <2>. QED BY <1>8, <2>1, DomainCreatePreserves DEF LoadCreate
<1>9. CASE LoadCreateFails
  BY <1>9, DomainCreateFailsPreserves, MpkUntouched DEF LoadCreateFails
<1>10. CASE LoadEnter
  <2>1. domain.base # 0
    BY <1>10 DEF LoadEnter, ControlInv, LoadingPcs
  <2>. QED
    BY <1>10, <2>1, DomainEnterPreserves, DomainEnterFailsPreserves
    DEF LoadEnter
<1>11. CASE LoadModule
  BY <1>11, DomainExitPreserves, MpkUntouched DEF LoadModule, Touching
<1>12. CASE LoadUndo
  <2>1. domain.base # 0
    BY <1>12 DEF LoadUndo, ControlInv, LoadingPcs
  <2>. QED BY <1>12, <2>1, DomainDestroyPreserves DEF LoadUndo
<1>13. CASE InvokeEnter
  BY <1>13, DomainEnterPreserves DEF InvokeEnter
<1>14. CASE InvokeEnterFails
  <2>1. domain.base # 0
    BY <1>14 DEF InvokeEnterFails, ControlInv, LoadedPcs
  <2>. QED
    BY <1>14, <2>1, DomainEnterFailsPreserves, MpkUntouched
    DEF InvokeEnterFails
<1>15. CASE InvokeCleanup
  BY <1>15, DomainExitPreserves, MpkUntouched DEF InvokeCleanup, Touching
<1>16. CASE RuntimeDestroy
  <2>1. domain = NoDomain
    BY <1>16 DEF RuntimeDestroy, ControlInv, ClearPcs
  <2>. QED
    BY <1>16, <2>1, AllocatorDestroyPreserves, MpkUntouched
    DEF RuntimeDestroy
<1>. QED
  BY <1>1, <1>2, <1>3, <1>4, <1>5, <1>6, <1>7, <1>8, <1>9, <1>10, <1>11,
     <1>12, <1>13, <1>14, <1>15, <1>16 DEF Next, PalNext, LocalStep

-----------------------------------------------------------------------------
(* Answers and requests are well formed.                                   *)
LEMMA SendAnswerType ==
  ASSUME out \in Outputs, NEW status \in -1 .. 5,
         NEW ran \in Modules \cup {NoModule}, SendAnswer(status, ran)
  PROVE  /\ out' \in Outputs /\ reply' \in Outputs
         /\ inflated' \in BOOLEAN
         /\ request' = NoRequest
         /\ pc' = "idle"
<1>1. [out EXCEPT !.status = status, !.ran = ran] \in Outputs
  BY DEF Outputs
<1>. QED BY <1>1 DEF SendAnswer

LEMMA HashType ==
  ASSUME out \in Outputs, NEW h \in {"none", "fresh", "stale"}
  PROVE  [out EXCEPT !.hash = h] \in Outputs
BY DEF Outputs

LEMMA RequestType ==
  /\ NoRequest.kind = "none" /\ NoRequest.mod = NoModule
  /\ NoOutput \in Outputs
  /\ \A r \in Requests : r.kind = "load" => r.mod \in Modules
BY DEF NoRequest, NoOutput, Outputs, Requests

(* PalTypeOK is kept by every step.                                        *)
LEMMA PalTypeStep ==
  ASSUME IndInv, [Next]_vars
  PROVE  PalTypeOK'
<1>. USE DEF IndInv, PalTypeOK, Pcs, InDomainPcs, OutsidePcs
<1>1. CASE UNCHANGED vars
  BY <1>1 DEF vars, mainVars, wasmletVars, invokeVars
<1>2. CASE PalHeapInit
  BY <1>2 DEF PalHeapInit, mainVars, wasmletVars, invokeVars
<1>3. CASE RuntimeInit
  BY <1>3 DEF RuntimeInit, mainVars, wasmletVars, invokeVars
<1>4. CASE RuntimeInitFails
  BY <1>4 DEF RuntimeInitFails, mainVars, wasmletVars, invokeVars
<1>5. CASE ReceiveShutdown
  BY <1>5 DEF ReceiveShutdown, Goto, wasmletVars, invokeVars
<1>6. CASE RejectName
  BY <1>6, SendAnswerType DEF RejectName, wasmletVars, invokeVars
<1>7. CASE ReceiveLoad
  BY <1>7 DEF ReceiveLoad, Goto, wasmletVars, invokeVars
<1>8. CASE ReceiveCall
  BY <1>8, SendAnswerType DEF ReceiveCall, Goto, wasmletVars, invokeVars
<1>9. CASE UnloadEnter
  BY <1>9 DEF UnloadEnter, Goto, AfterUnload, wasmletVars, invokeVars
<1>10. CASE UnloadModule
  BY <1>10 DEF UnloadModule, Touching, Goto, mainVars, wasmletVars, invokeVars
<1>11. CASE UnloadDestroy
  BY <1>11 DEF UnloadDestroy, Goto, AfterUnload, invokeVars
<1>12. CASE AllocBuffer
  <2>1. request.mod \in Modules \cup {NoModule}
    BY <1>12, RequestType DEF AllocBuffer, ControlInv
  <2>. QED BY <1>12, <2>1 DEF AllocBuffer, Goto, wasmletVars, invokeVars
<1>13. CASE AllocBufferFails
  BY <1>13, SendAnswerType DEF AllocBufferFails, wasmletVars, invokeVars
<1>14. CASE LoadCreate
  BY <1>14 DEF LoadCreate, Goto, invokeVars
<1>15. CASE LoadCreateFails
  BY <1>15, SendAnswerType DEF LoadCreateFails, wasmletVars, invokeVars
<1>16. CASE LoadEnter
  BY <1>16 DEF LoadEnter, Goto, wasmletVars, invokeVars
<1>17. CASE LoadModule
  <2>1. request.mod \in Modules \cup {NoModule}
    BY <1>17, RequestType DEF LoadModule, ControlInv, LoadingPcs
  <2>. QED
    BY <1>17, <2>1
    DEF LoadModule, Touching, Goto, mainVars, wasmletVars, invokeVars
<1>18. CASE LoadUndo
  <2>1. SendAnswer(3, NoModule)
    BY <1>18 DEF LoadUndo
  <2>2. /\ out' \in Outputs /\ reply' \in Outputs /\ inflated' \in BOOLEAN
        /\ request' = NoRequest /\ pc' = "idle"
    BY <2>1, SendAnswerType
  <2>3. domainCreated' \in BOOLEAN
    BY <1>18 DEF LoadUndo
  <2>. QED BY <1>18, <2>2, <2>3 DEF LoadUndo, invokeVars
<1>19. CASE InvokeEnter
  BY <1>19 DEF InvokeEnter, Goto, wasmletVars
<1>20. CASE InvokeEnterFails
  BY <1>20, SendAnswerType DEF InvokeEnterFails, wasmletVars, invokeVars
<1>21. CASE Instantiate
  BY <1>21 DEF Instantiate, Touching, Goto, mainVars, wasmletVars, invokeVars
<1>22. CASE CreateExecEnv
  BY <1>22 DEF CreateExecEnv, Touching, Goto, mainVars, wasmletVars, invokeVars
<1>23. CASE WriteEnvHash
  BY <1>23, HashType DEF WriteEnvHash, wasmletVars, invokeVars
<1>24. CASE CallFunction
  BY <1>24 DEF CallFunction, Touching, Goto, mainVars, wasmletVars, invokeVars
<1>25. CASE InvokeCleanup
  <2>1. CASE domain.pkey \in pkru
    <3>1. SendAnswer(0, module) \/ SendAnswer(4, NoModule)
      BY <1>25, <2>1 DEF InvokeCleanup, Touching
    <3>2. /\ out' \in Outputs /\ reply' \in Outputs /\ inflated' \in BOOLEAN
          /\ request' = NoRequest /\ pc' = "idle"
      BY <3>1, SendAnswerType
    <3>3. inst' = FALSE /\ execEnv' = FALSE
      BY <1>25, <2>1 DEF InvokeCleanup, Touching
    <3>. QED
      BY <1>25, <2>1, <3>2, <3>3 DEF InvokeCleanup, Touching, wasmletVars
  <2>2. CASE domain.pkey \notin pkru
    BY <1>25, <2>2
    DEF InvokeCleanup, Touching, mainVars, wasmletVars, invokeVars
  <2>. QED BY <2>1, <2>2
<1>26. CASE RuntimeDestroy
  BY <1>26 DEF RuntimeDestroy, Goto, invokeVars
<1>27. ASSUME NEW r \in Requests, GuestInvoke(r)
       PROVE  PalTypeOK'
  <2>1. out' \in Outputs
    <3>1. (IF out.hash = "fresh" THEN "stale" ELSE out.hash)
             \in {"none", "fresh", "stale"}
      BY DEF Outputs
    <3>. QED BY <1>27, <3>1, HashType DEF GuestInvoke
  <2>. QED
    BY <1>27, <2>1, RequestType DEF GuestInvoke, wasmletVars, invokeVars
<1>. QED
  BY <1>1, <1>2, <1>3, <1>4, <1>5, <1>6, <1>7, <1>8, <1>9, <1>10, <1>11,
     <1>12, <1>13, <1>14, <1>15, <1>16, <1>17, <1>18, <1>19, <1>20, <1>21,
     <1>22, <1>23, <1>24, <1>25, <1>26, <1>27 DEF Next, PalNext

-----------------------------------------------------------------------------
(* ControlInv is kept by every step.                                       *)
LEMMA ControlStep ==
  ASSUME IndInv, [Next]_vars
  PROVE  ControlInv'
<1>. USE DEF IndInv, ControlInv, ModuleBacked, ClearPcs, LoadedPcs, LoadingPcs
<1>1. CASE UNCHANGED vars
  BY <1>1 DEF vars, mainVars, wasmletVars, mpkVars, allocVars
<1>2. CASE PalHeapInit
  BY <1>2 DEF PalHeapInit, mainVars, wasmletVars, mpkVars, allocVars
<1>3. CASE RuntimeInit
  <2>1. UNCHANGED domain
    BY <1>3, AllocatorInitPreserves DEF RuntimeInit
  <2>. QED BY <1>3, <2>1 DEF RuntimeInit, mainVars
<1>4. CASE RuntimeInitFails
  <2>1. UNCHANGED domain
    BY <1>4, AllocatorInitFailsPreserves DEF RuntimeInitFails
  <2>. QED BY <1>4, <2>1 DEF RuntimeInitFails, mainVars, wasmletVars
<1>5. CASE ReceiveShutdown
  BY <1>5 DEF ReceiveShutdown, Goto, wasmletVars, mpkVars, allocVars
<1>6. CASE RejectName
  BY <1>6 DEF RejectName, SendAnswer, wasmletVars, mpkVars, allocVars
<1>7. CASE ReceiveLoad
  BY <1>7 DEF ReceiveLoad, Goto, wasmletVars, mpkVars, allocVars
<1>8. CASE ReceiveCall
  BY <1>8 DEF ReceiveCall, Goto, SendAnswer, wasmletVars, mpkVars, allocVars
<1>9. CASE UnloadEnter
  <2>1. domain'.base = domain.base
    BY <1>9, DomainEnterPreserves, DomainEnterFailsPreserves
    DEF UnloadEnter, allocVars
  <2>. QED BY <1>9, <2>1 DEF UnloadEnter, Goto, AfterUnload, wasmletVars
<1>10. CASE UnloadModule
  <2>1. UNCHANGED domain
    BY <1>10, DomainExitPreserves DEF UnloadModule, Touching, mpkVars, allocVars
  <2>. QED
    BY <1>10, <2>1 DEF UnloadModule, Touching, Goto, mainVars, wasmletVars
<1>11. CASE UnloadDestroy
  <2>1. domain' = NoDomain
    BY <1>11, DomainDestroyPreserves DEF UnloadDestroy
  <2>. QED BY <1>11, <2>1 DEF UnloadDestroy, Goto, AfterUnload
<1>12. CASE AllocBuffer
  BY <1>12 DEF AllocBuffer, Goto, wasmletVars, mpkVars, allocVars
<1>13. CASE AllocBufferFails
  BY <1>13
  DEF AllocBufferFails, SendAnswer, wasmletVars, mpkVars, allocVars
<1>14. CASE LoadCreate
  <2>1. domain'.base # 0
    BY <1>14, DomainCreatePreserves DEF LoadCreate
  <2>. QED BY <1>14, <2>1 DEF LoadCreate, Goto
<1>15. CASE LoadCreateFails
  <2>1. UNCHANGED domain
    BY <1>15, DomainCreateFailsPreserves
    DEF LoadCreateFails, mpkVars, allocVars
  <2>. QED BY <1>15, <2>1 DEF LoadCreateFails, SendAnswer, wasmletVars
<1>16. CASE LoadEnter
  <2>1. domain'.base = domain.base
    BY <1>16, DomainEnterPreserves, DomainEnterFailsPreserves
    DEF LoadEnter, allocVars
  <2>. QED BY <1>16, <2>1 DEF LoadEnter, Goto, wasmletVars
<1>17. CASE LoadModule
  <2>1. UNCHANGED domain
    BY <1>17, DomainExitPreserves DEF LoadModule, Touching, mpkVars, allocVars
  <2>2. request.mod # NoModule
    BY <1>17, RequestType, PalAssumption DEF LoadModule, PalTypeOK
  <2>. QED
    BY <1>17, <2>1, <2>2
    DEF LoadModule, Touching, Goto, mainVars, wasmletVars
<1>18. CASE LoadUndo
  <2>1. domain' = NoDomain
    BY <1>18, DomainDestroyPreserves DEF LoadUndo
  <2>. QED BY <1>18, <2>1 DEF LoadUndo, SendAnswer
<1>19. CASE InvokeEnter
  <2>1. domain'.base = domain.base
    BY <1>19, DomainEnterPreserves DEF InvokeEnter
  <2>. QED BY <1>19, <2>1 DEF InvokeEnter, Goto, wasmletVars
<1>20. CASE InvokeEnterFails
  <2>1. UNCHANGED domain
    BY <1>20, DomainEnterFailsPreserves
    DEF InvokeEnterFails, mpkVars, allocVars
  <2>. QED BY <1>20, <2>1 DEF InvokeEnterFails, SendAnswer, wasmletVars
<1>21. CASE Instantiate \/ CreateExecEnv \/ CallFunction \/ WriteEnvHash
  <2>1. /\ pc \in {"inst", "env", "hash", "call"}
        /\ pc' \in {"env", "hash", "call", "fin", "fault"}
        /\ UNCHANGED <<wasmBuf, wasmletVars, mpkVars>>
    BY <1>21 DEF Instantiate, CreateExecEnv, WriteEnvHash, CallFunction,
       Touching, Goto, mainVars
  <2>. QED BY <2>1 DEF wasmletVars, mpkVars, allocVars
<1>22. CASE InvokeCleanup
  <2>1. UNCHANGED domain
    BY <1>22, DomainExitPreserves DEF InvokeCleanup, Touching, mpkVars, allocVars
  <2>2. UNCHANGED <<wasmBuf, module>> /\ pc' \in {"idle", "fault"} /\ pc = "fin"
    BY <1>22 DEF InvokeCleanup, Touching, SendAnswer, mainVars, wasmletVars
  <2>. QED BY <2>1, <2>2
<1>23. CASE RuntimeDestroy
  <2>1. UNCHANGED domain
    BY <1>23, AllocatorDestroyPreserves DEF RuntimeDestroy
  <2>. QED BY <1>23, <2>1 DEF RuntimeDestroy
<1>24. ASSUME NEW r \in Requests, GuestInvoke(r)
       PROVE  ControlInv'
  BY <1>24 DEF GuestInvoke, wasmletVars, mpkVars, allocVars
<1>. QED
  BY <1>1, <1>2, <1>3, <1>4, <1>5, <1>6, <1>7, <1>8, <1>9, <1>10, <1>11,
     <1>12, <1>13, <1>14, <1>15, <1>16, <1>17, <1>18, <1>19, <1>20, <1>21,
     <1>22, <1>23, <1>24 DEF Next, PalNext

-----------------------------------------------------------------------------
(* The inductive invariant holds in every reachable state.                 *)
THEOREM Inductive == Spec => []IndInv
<1>1. Init => IndInv
  <2>. SUFFICES ASSUME Init PROVE IndInv
    OBVIOUS
  <2>. USE SvsmAssumption, AllocatorAssumption, PalAssumption
  <2>1. SvsmTypeOK
    BY DEF Init, SvsmInit, SvsmTypeOK
  <2>2. domain.base = 0 /\ NoDomain \in
           [pkey : 0 .. MaxKey, base : 0 .. AddrLimit, msp : BOOLEAN]
    BY DEF Init, AllocInit, NoDomain
  <2>3. AllocTypeOK
    <3>1. /\ nextAddr \in 1 .. AddrLimit - 1
          /\ pkeyTotal \in 0 .. PoolSize /\ freeTop \in 0 .. PoolSize
      BY DEF Init, AllocInit
    <3>2. /\ pkeyPool \in [Slots -> 0 .. MaxKey]
          /\ pkeyFree \in [Slots -> 0 .. MaxKey]
      BY DEF Init, AllocInit
    <3>3. allocInit \in BOOLEAN /\ defaultMsp \in BOOLEAN
      BY DEF Init, AllocInit
    <3>. QED
      BY <2>2, <3>1, <3>2, <3>3 DEF Init, AllocInit, AllocTypeOK
  <2>4. PoolInv
    BY <2>2
    DEF Init, AllocInit, PoolInv, KeyConservation, FreeKeys, PoolKeys
  <2>5. PalTypeOK
    BY RequestType DEF Init, PalTypeOK, Pcs, InDomainPcs, OutsidePcs
  <2>6. ControlInv
    BY DEF Init, AllocInit, ControlInv, ModuleBacked, ClearPcs, LoadedPcs,
       LoadingPcs
  <2>. QED BY <2>1, <2>3, <2>4, <2>5, <2>6 DEF IndInv, MpkInv
<1>2. IndInv /\ [Next]_vars => IndInv'
  BY MpkStep, PalTypeStep, ControlStep DEF IndInv
<1>. QED BY <1>1, <1>2, PTL DEF Spec

(* The type invariant.                                                     *)
THEOREM TypeCorrect == Spec => []TypeOK
<1>1. IndInv => TypeOK
  BY DEF IndInv, MpkInv, TypeOK
<1>. QED BY <1>1, Inductive, PTL

(* Whatever calls fail, and wherever, the key pool neither loses nor       *)
(* duplicates a key: pkey_pool_alloc and pkey_pool_free stay balanced over *)
(* every sequence of loads, failed loads, unloads and shutdowns.           *)
THEOREM KeysConserved == Spec => []KeyConservation
<1>1. IndInv => KeyConservation
  BY DEF IndInv, MpkInv, PoolInv
<1>. QED BY <1>1, Inductive, PTL

(* Whatever calls fail, g_wasm_buf outlives the module loaded from it.     *)
THEOREM BufferOutlivesModule == Spec => []ModuleBacked
<1>1. IndInv => ModuleBacked
  BY DEF IndInv, ControlInv
<1>. QED BY <1>1, Inductive, PTL

-----------------------------------------------------------------------------
(* What the monitor holds for the process                                  *)

(* How the address pointer and the monitor's regions may move together:    *)
(* nothing new below the pointer, or one region at the pointer.            *)
RegionStep ==
  \/ nextAddr' >= nextAddr /\ svsmRegions' \subseteq svsmRegions
  \/ nextAddr' > nextAddr /\ \E k : svsmRegions' = svsmRegions \cup {<<nextAddr, k>>}

LEMMA RegionStepOf ==
  ASSUME IndInv, [Next]_vars PROVE RegionStep
PROOF
  <1>0. nextAddr \in Nat
    BY DEF IndInv, MpkInv, AllocTypeOK
  <1>1. CASE UNCHANGED <<nextAddr, svsmRegions>>
    BY <1>0, <1>1 DEF RegionStep
  <1>2. CASE UNCHANGED vars
    BY <1>0, <1>2 DEF RegionStep, vars, mpkVars, allocVars, svsmVars
  <1>3. CASE LocalStep
    BY <1>1, <1>3, LocalStepUntouched DEF mpkVars, allocVars, svsmVars
  <1>4. CASE RuntimeInit \/ RuntimeInitFails
    <2>1. nextAddr' \in {nextAddr, nextAddr + 1} /\ svsmRegions' = svsmRegions
      BY <1>4 DEF RuntimeInit, RuntimeInitFails, AllocatorInit, AllocatorInitFails
    <2> QED BY <1>0, <2>1 DEF RegionStep
  <1>5. CASE \/ UnloadEnter \/ UnloadModule \/ LoadCreateFails \/ LoadEnter
             \/ LoadModule \/ InvokeEnter \/ InvokeEnterFails \/ InvokeCleanup
             \/ RuntimeDestroy
    <2>1. UNCHANGED <<nextAddr, svsmRegions>>
      BY <1>5 DEF UnloadEnter, UnloadModule, LoadCreateFails, LoadEnter,
         LoadModule, InvokeEnter, InvokeEnterFails, InvokeCleanup, RuntimeDestroy,
         Touching, DomainEnter, DomainEnterFails, DomainExit, DomainCreateFails,
         SvsmMpkAlloc, AllocatorDestroy, mpkVars, allocVars, svsmVars
    <2> QED BY <1>1, <2>1
  <1>6. CASE UnloadDestroy \/ LoadUndo
    <2>1. nextAddr' = nextAddr /\ svsmRegions' \subseteq svsmRegions
      BY <1>6 DEF UnloadDestroy, LoadUndo, DomainDestroy, DestroyRegion,
         SvsmFreePkey, allocVars, svsmVars
    <2> QED BY <1>0, <2>1 DEF RegionStep
  <1>7. CASE LoadCreate
    <2>1. nextAddr' = nextAddr + 1
          /\ svsmRegions' = svsmRegions \cup {<<nextAddr, PoolTop>>}
      BY <1>7 DEF LoadCreate, DomainCreate, SvsmMpkAlloc
    <2> QED BY <1>0, <2>1 DEF RegionStep
  <1> QED BY <1>2, <1>3, <1>4, <1>5, <1>6, <1>7 DEF Next, PalNext, LocalStep

(* A region that the monitor has mapped stays clear of every later one:    *)
(* g_mpk_next_addr only moves up, and mpk_region_map takes it back only    *)
(* when the monitor refused the region.  Whatever fails, free_pkey         *)
(* included.                                                               *)
THEOREM RegionsStayDisjoint == Spec => []RegionsDisjoint
PROOF
  <1>1. Init => RegionsDisjoint
    BY DEF Init, SvsmInit, RegionsDisjoint
  <1>2. IndInv /\ IndInv' /\ RegionsDisjoint /\ [Next]_vars => RegionsDisjoint'
    <2> SUFFICES ASSUME IndInv, IndInv', RegionsDisjoint, [Next]_vars
                 PROVE  RegionsDisjoint'
      OBVIOUS
    <2>1. nextAddr \in Nat /\ nextAddr' \in Nat /\ svsmRegions \subseteq Nat \X Keys
      BY DEF IndInv, MpkInv, AllocTypeOK, SvsmTypeOK
    <2>2. RegionStep
      BY RegionStepOf
    <2>3. CASE nextAddr' >= nextAddr /\ svsmRegions' \subseteq svsmRegions
      BY <2>1, <2>3 DEF RegionsDisjoint
    <2>4. ASSUME NEW k, nextAddr' > nextAddr,
                 svsmRegions' = svsmRegions \cup {<<nextAddr, k>>}
          PROVE  RegionsDisjoint'
      <3>1. <<nextAddr, k>>[1] = nextAddr
        OBVIOUS
      <3>2. \A r \in svsmRegions : r[1] \in Nat /\ r[1] < nextAddr
        BY <2>1 DEF RegionsDisjoint
      <3>3. \A r \in svsmRegions' : r[1] < nextAddr'
        BY <2>1, <2>4, <3>1, <3>2
      <3>4. \A r, q \in svsmRegions' : r[1] = q[1] => r = q
        BY <2>1, <2>4, <3>1, <3>2 DEF RegionsDisjoint
      <3> QED BY <3>3, <3>4 DEF RegionsDisjoint
    <2> QED BY <2>2, <2>3, <2>4 DEF RegionStep
  <1> QED BY <1>1, <1>2, Inductive, PTL DEF Spec

(* What the monitor holds is what the allocator knows of: its pool, and    *)
(* the region of the live domain.  It needs the monitor to accept what is  *)
(* given back, for mpk_domain_destroy and pkey_pool_destroy forget a key   *)
(* or region that it refuses.                                              *)
HeldInv ==
  /\ pc \in {"boot", "init", "exited", "spin"} => ~allocInit
  /\ ~allocInit => svsmKeys = {}
  /\ svsmKeys \subseteq PoolKeys
  /\ svsmRegions = IF domain.base = 0 THEN {} ELSE {<<domain.base, domain.pkey>>}

(* Steps after which the monitor holds the same, for the same domain.      *)
LEMMA HeldUntouched ==
  ASSUME HeldInv, UNCHANGED <<svsmKeys, svsmRegions, poolVars, allocInit>>,
         domain'.base = domain.base, domain'.pkey = domain.pkey,
         pc' \in {"boot", "init", "exited", "spin"} => ~allocInit
  PROVE  HeldInv'
PROOF
  BY DEF HeldInv, PoolKeys, poolVars

LEMMA HeldStep ==
  ASSUME ~MayFail("free_pkey"), IndInv, HeldInv, [Next]_vars PROVE HeldInv'
PROOF
  <1>0. MpkInv /\ ControlInv
    BY DEF IndInv
  <1>1. CASE UNCHANGED vars
    <2>1. /\ UNCHANGED <<svsmKeys, svsmRegions, poolVars, allocInit>>
          /\ domain' = domain /\ pc' = pc
      BY <1>1 DEF vars, mpkVars, allocVars, svsmVars, heapVars
    <2>2. pc' \in {"boot", "init", "exited", "spin"} => ~allocInit
      BY <2>1 DEF HeldInv
    <2> QED BY <2>1, <2>2, HeldUntouched
  <1>2. CASE LocalStep
    <2>1. /\ UNCHANGED <<svsmKeys, svsmRegions, poolVars, allocInit>>
          /\ domain' = domain
      BY <1>2, LocalStepUntouched DEF mpkVars, allocVars, svsmVars, heapVars
    <2>2. pc' \in {"boot", "init", "exited", "spin"} =>
            pc \in {"boot", "init", "exited", "spin"}
      BY <1>2 DEF LocalStep, PalHeapInit, ReceiveShutdown, RejectName, ReceiveLoad,
         ReceiveCall, AllocBuffer, AllocBufferFails, Instantiate, CreateExecEnv,
         WriteEnvHash, CallFunction, GuestInvoke, Touching, Goto, SendAnswer
    <2>3. pc' \in {"boot", "init", "exited", "spin"} => ~allocInit
      BY <2>2 DEF HeldInv
    <2> QED BY <2>1, <2>3, HeldUntouched
  <1>3. CASE RuntimeInit
    <2>1. PICK got \in 1 .. PoolSize : \E ks \in KeyGrants(got) : AllocatorInit(got, ks)
      BY <1>3 DEF RuntimeInit
    <2>2. PICK ks \in KeyGrants(got) : AllocatorInit(got, ks)
      BY <2>1
    <2>3. /\ pc = "init" /\ pc' = "idle" /\ allocInit' = TRUE
          /\ UNCHANGED <<domain, svsmRegions>>
      BY <1>3, <2>2 DEF RuntimeInit, AllocatorInit
    <2>4. /\ svsmKeys' = svsmKeys \cup {ks[i] : i \in 1 .. got}
          /\ pkeyPool' = [i \in Slots |-> IF i <= got THEN ks[i] ELSE 0]
          /\ pkeyTotal' = got
      BY <2>2 DEF AllocatorInit, PkeyPoolInit
    <2>5. svsmKeys = {}
      BY <2>3 DEF HeldInv
    <2>6. \A i \in 1 .. got : pkeyPool'[i] = ks[i]
      BY <2>4, AllocatorAssumption DEF Slots
    <2>7. svsmKeys' \subseteq PoolKeys'
      BY <2>4, <2>5, <2>6 DEF PoolKeys
    <2> QED BY <2>3, <2>7 DEF HeldInv
  <1>4. CASE RuntimeInitFails
    <2>1. /\ pc = "init" /\ UNCHANGED <<domain, svsmRegions, allocInit>>
          /\ svsmKeys' = svsmKeys
      BY <1>4 DEF RuntimeInitFails, AllocatorInitFails, heapVars
    <2>2. ~allocInit /\ svsmKeys = {}
      BY <2>1 DEF HeldInv
    <2> QED BY <2>1, <2>2 DEF HeldInv
  <1>5. CASE \/ UnloadEnter \/ UnloadModule \/ LoadCreateFails \/ LoadEnter
             \/ LoadModule \/ InvokeEnter \/ InvokeEnterFails \/ InvokeCleanup
    <2>1. UNCHANGED <<svsmKeys, svsmRegions, poolVars, allocInit>>
      BY <1>5 DEF UnloadEnter, UnloadModule, LoadCreateFails, LoadEnter,
         LoadModule, InvokeEnter, InvokeEnterFails, InvokeCleanup,
         Touching, DomainEnter, DomainEnterFails, DomainExit, DomainCreateFails,
         SvsmMpkAlloc, mpkVars, allocVars, svsmVars, heapVars
    <2>2. domain'.base = domain.base /\ domain'.pkey = domain.pkey
      <3>1. DomainEnter \/ UNCHANGED domain
        BY <1>5 DEF UnloadEnter, UnloadModule, LoadCreateFails, LoadEnter,
           LoadModule, InvokeEnter, InvokeEnterFails, InvokeCleanup,
           Touching, DomainEnterFails, DomainExit, DomainCreateFails,
           mpkVars, allocVars
      <3> QED BY <1>0, <3>1, DomainEnterPreserves
    <2>3. pc' \notin {"boot", "init", "exited", "spin"}
      BY <1>5 DEF UnloadEnter, UnloadModule, LoadCreateFails, LoadEnter,
         LoadModule, InvokeEnter, InvokeEnterFails, InvokeCleanup,
         Touching, Goto, SendAnswer, AfterUnload
    <2> QED BY <2>1, <2>2, <2>3, HeldUntouched
  <1>6. CASE UnloadDestroy \/ LoadUndo
    <2>1. DomainDestroy /\ domain.base # 0
          /\ pc' \notin {"boot", "init", "exited", "spin"}
      BY <1>0, <1>6 DEF UnloadDestroy, LoadUndo, ControlInv, LoadingPcs, Goto,
         SendAnswer, AfterUnload
    <2>2. /\ svsmRegions' = {r \in svsmRegions : r[1] # domain.base}
          /\ svsmKeys' \subseteq svsmKeys /\ domain' = NoDomain
          /\ UNCHANGED <<pkeyPool, pkeyTotal, allocInit>>
      BY <2>1 DEF DomainDestroy, DestroyRegion, SvsmFreePkey, PkeyPoolFree, heapVars
    <2>3. svsmRegions' = {} /\ domain'.base = 0
      BY <2>1, <2>2 DEF HeldInv, NoDomain
    <2> QED BY <2>1, <2>2, <2>3 DEF HeldInv, PoolKeys
  <1>7. CASE LoadCreate
    <2>1. domain = NoDomain /\ domain.base = 0
      BY <1>0, <1>7 DEF LoadCreate, ControlInv, ClearPcs, NoDomain
    <2>2. /\ svsmRegions' = svsmRegions \cup {<<nextAddr, PoolTop>>}
          /\ UNCHANGED <<svsmKeys, pkeyPool, pkeyTotal, allocInit>>
          /\ pc' = "enterload"
      BY <1>7 DEF LoadCreate, DomainCreate, SvsmMpkAlloc, PkeyPoolAlloc, heapVars, Goto
    <2>3. domain'.base = nextAddr /\ domain'.pkey = PoolTop /\ domain'.base # 0
      BY <1>0, <1>7, <2>1, DomainCreatePreserves DEF LoadCreate
    <2> QED BY <2>1, <2>2, <2>3 DEF HeldInv, PoolKeys
  <1>8. CASE RuntimeDestroy
    <2>1. domain = NoDomain /\ module = NoModule
      BY <1>0, <1>8 DEF RuntimeDestroy, ControlInv, ClearPcs
    <2>2. AllocatorDestroy /\ pc' = "exited"
      BY <1>8, <2>1 DEF RuntimeDestroy
    <2>3. CASE allocInit
      <3>1. PICK kept \in SUBSET PoolKeys : SvsmFreeKeys(PoolKeys, kept)
        BY <2>2, <2>3 DEF AllocatorDestroy, PkeyPoolDestroy
      <3>2. svsmKeys' = svsmKeys \ PoolKeys
        BY <3>1 DEF SvsmFreeKeys
      <3>3. allocInit' = FALSE /\ UNCHANGED <<domain, svsmRegions>>
        BY <2>2, <2>3 DEF AllocatorDestroy
      <3>4. svsmKeys' = {}
        BY <3>2 DEF HeldInv
      <3> QED BY <3>3, <3>4 DEF HeldInv
    <2>4. CASE ~allocInit
      <3>1. UNCHANGED <<svsmKeys, svsmRegions, poolVars, allocInit, domain>>
        BY <2>2, <2>4 DEF AllocatorDestroy, allocVars, svsmVars, heapVars
      <3> QED BY <2>4, <3>1, HeldUntouched
    <2> QED BY <2>3, <2>4
  <1> QED BY <1>1, <1>2, <1>3, <1>4, <1>5, <1>6, <1>7, <1>8
          DEF Next, PalNext, LocalStep

LEMMA HeldInvariant ==
  ASSUME ~MayFail("free_pkey") PROVE Spec => []HeldInv
PROOF
  <1>1. Init => HeldInv
    BY DEF Init, SvsmInit, AllocInit, NoDomain, HeldInv
  <1>2. IndInv /\ HeldInv /\ [Next]_vars => HeldInv'
    BY HeldStep
  <1> QED BY <1>1, <1>2, Inductive, PTL DEF Spec

(* As long as the monitor takes back what mpk_domain_destroy gives back,   *)
(* it holds the region of the loaded module and no other whenever the      *)
(* guest has control: no failed load leaks one and no unload leaves one    *)
(* behind.                                                                 *)
THEOREM NoRegionLeaks ==
  ASSUME ~MayFail("free_pkey") PROVE Spec => []RegionsAccounted
PROOF
  <1>1. IndInv /\ HeldInv => RegionsAccounted
    BY DEF IndInv, ControlInv, ClearPcs, NoDomain, HeldInv, RegionsAccounted, Suspended
  <1> QED BY <1>1, Inductive, HeldInvariant, PTL

(* Under the same condition a runtime that has exited, after the shutdown  *)
(* of wasmlet_runtime_destroy or a start that failed half way, has given   *)
(* back every key and every region.                                        *)
THEOREM NothingHeldAtExit ==
  ASSUME ~MayFail("free_pkey") PROVE Spec => []ReturnedAtExit
PROOF
  <1>1. IndInv /\ HeldInv => ReturnedAtExit
    BY DEF IndInv, ControlInv, ClearPcs, NoDomain, HeldInv, ReturnedAtExit
  <1> QED BY <1>1, Inductive, HeldInvariant, PTL

-----------------------------------------------------------------------------
(* What the guest is told                                                  *)

(* ret of wasmlet_invoke is -1 until a call has succeeded, and a call is   *)
(* made only behind the write of env_hash.                                 *)
HashInv ==
  /\ pc \in {"inst", "env", "hash", "call"} => callOk = FALSE
  /\ pc = "call" => out.hash = "fresh"
  /\ pc = "fin" /\ callOk = TRUE => out.hash = "fresh"
  /\ reply.status = 0 => reply.hash = "fresh"

LEMMA AnswerHash ==
  ASSUME out \in Outputs, NEW status, NEW ran, SendAnswer(status, ran),
         status = 0 => out.hash = "fresh"
  PROVE  HashInv'
PROOF
  <1>1. /\ [out EXCEPT !.status = status, !.ran = ran].status = status
        /\ [out EXCEPT !.status = status, !.ran = ran].hash = out.hash
    BY DEF Outputs
  <1> QED BY <1>1 DEF SendAnswer, HashInv

LEMMA HashStep ==
  ASSUME IndInv, HashInv, [Next]_vars PROVE HashInv'
PROOF
  <1>0. out \in Outputs
    BY DEF IndInv, PalTypeOK
  <1>1. CASE UNCHANGED vars
    BY <1>1 DEF vars, mainVars, invokeVars, HashInv
  <1>2. ASSUME reply' = reply, pc' \notin {"inst", "env", "hash", "call", "fin"}
        PROVE  HashInv'
    BY <1>2 DEF HashInv
  <1>3. ASSUME NEW r \in Requests, GuestInvoke(r) PROVE HashInv'
    <2>1. reply' = NoOutput /\ pc' \in {"dispatch", "spin"} /\ NoOutput.status = -1
      BY <1>3 DEF GuestInvoke, NoOutput
    <2> QED BY <2>1 DEF HashInv
  <1>4. CASE \/ PalHeapInit \/ RuntimeInit \/ RuntimeInitFails \/ ReceiveShutdown
             \/ ReceiveLoad \/ UnloadEnter \/ UnloadModule \/ UnloadDestroy
             \/ AllocBuffer \/ LoadCreate \/ LoadEnter \/ LoadModule
             \/ RuntimeDestroy
    <2>1. reply' = reply /\ pc' \notin {"inst", "env", "hash", "call", "fin"}
      BY <1>4 DEF PalHeapInit, RuntimeInit, RuntimeInitFails, ReceiveShutdown,
         ReceiveLoad, UnloadEnter, UnloadModule, UnloadDestroy, AllocBuffer,
         LoadCreate, LoadEnter, LoadModule, RuntimeDestroy, Touching, Goto,
         AfterUnload, mainVars
    <2> QED BY <1>2, <2>1
  <1>5. CASE \/ RejectName \/ AllocBufferFails \/ LoadCreateFails \/ LoadUndo
             \/ InvokeEnterFails
    <2>1. \E status \in 1 .. 5 : SendAnswer(status, NoModule)
      BY <1>5 DEF RejectName, AllocBufferFails, LoadCreateFails, LoadUndo,
         InvokeEnterFails
    <2> QED BY <1>0, <2>1, AnswerHash
  <1>6. CASE ReceiveCall
    <2>1. SendAnswer(5, NoModule) \/ (reply' = reply /\ pc' = "enter")
      BY <1>6 DEF ReceiveCall, Goto
    <2> QED BY <1>0, <1>2, <2>1, AnswerHash
  <1>7. CASE InvokeEnter
    BY <1>7 DEF InvokeEnter, Goto, HashInv
  <1>8. CASE Instantiate
    <2>1. /\ pc = "inst" /\ pc' \in {"env", "fin", "fault"} /\ callOk' = callOk
          /\ UNCHANGED <<out, reply>>
      BY <1>8 DEF Instantiate, Touching, Goto, mainVars, invokeVars
    <2> QED BY <2>1 DEF HashInv
  <1>9. CASE CreateExecEnv
    <2>1. /\ pc = "env" /\ pc' \in {"hash", "fin", "fault"} /\ callOk' = callOk
          /\ UNCHANGED <<out, reply>>
      BY <1>9 DEF CreateExecEnv, Touching, Goto, mainVars, invokeVars
    <2> QED BY <2>1 DEF HashInv
  <1>10. CASE WriteEnvHash
    <2>1. /\ pc = "hash" /\ pc' = "call" /\ callOk' = callOk /\ reply' = reply
          /\ out' = [out EXCEPT !.hash = "fresh"]
      BY <1>10 DEF WriteEnvHash, invokeVars
    <2>2. out'.hash = "fresh"
      BY <1>0, <2>1 DEF Outputs
    <2> QED BY <2>1, <2>2 DEF HashInv
  <1>11. CASE CallFunction
    <2>1. /\ pc = "call" /\ pc' \in {"fin", "fault"} /\ UNCHANGED <<out, reply>>
      BY <1>11 DEF CallFunction, Touching, Goto, mainVars
    <2> QED BY <2>1 DEF HashInv
  <1>12. CASE InvokeCleanup
    <2>1. CASE domain.pkey \in pkru
      <3>1. pc = "fin" /\ IF callOk THEN SendAnswer(0, module) ELSE SendAnswer(4, NoModule)
        BY <1>12, <2>1 DEF InvokeCleanup, Touching
      <3>2. CASE callOk = TRUE
        <4>1. SendAnswer(0, module) /\ out.hash = "fresh"
          BY <3>1, <3>2 DEF HashInv
        <4> QED BY <1>0, <4>1, AnswerHash
      <3>3. CASE callOk = FALSE
        BY <1>0, <3>1, <3>3, AnswerHash
      <3>4. callOk \in BOOLEAN
        BY DEF IndInv, PalTypeOK
      <3> QED BY <3>2, <3>3, <3>4
    <2>2. CASE domain.pkey \notin pkru
      BY <1>2, <1>12, <2>2 DEF InvokeCleanup, Touching, mainVars
    <2> QED BY <2>1, <2>2
  <1> QED BY <1>1, <1>3, <1>4, <1>5, <1>6, <1>7, <1>8, <1>9, <1>10, <1>11, <1>12
          DEF Next, PalNext

(* A successful answer carries the env_hash written for its own instance:  *)
(* wasmlet_invoke cannot reach the function call without it, and no failed *)
(* or rejected request in between leaves ret at 0.                         *)
THEOREM HashIsFresh == Spec => []FreshEnvHash
PROOF
  <1>1. Init => HashInv
    <2>1. NoOutput.status = -1
      BY DEF NoOutput
    <2> QED BY <2>1 DEF Init, HashInv
  <1>2. IndInv /\ HashInv /\ [Next]_vars => HashInv'
    BY HashStep
  <1>3. HashInv => FreshEnvHash
    BY DEF HashInv, FreshEnvHash
  <1> QED BY <1>1, <1>2, <1>3, Inductive, PTL DEF Spec

-----------------------------------------------------------------------------
(* The runtime implements PalService                                       *)

(* Which request is being served at each place of the code.                *)
ServeInv ==
  /\ pc \in {"boot", "init", "idle", "exited"} => request = NoRequest
  /\ pc = "dispatch" => request \in Requests
  /\ pc \in {"unload", "unloading", "undomain"} => request.kind \in {"load", "shutdown"}
  /\ pc = "destroy" => request.kind = "shutdown"
  /\ pc \in {"enter", "inst", "env", "hash", "call", "fin"} =>
       \/ request.kind = "call"
       \/ request.kind = "load" /\ module = request.mod

LEMMA ServeStep ==
  ASSUME IndInv, ServeInv, [Next]_vars PROVE ServeInv'
PROOF
  <1> USE DEF ServeInv
  <1>1. CASE UNCHANGED vars
    BY <1>1 DEF vars, mainVars, wasmletVars
  <1>2. ASSUME NEW r \in Requests, GuestInvoke(r) PROVE ServeInv'
    BY <1>2 DEF GuestInvoke
  <1>3. ASSUME request' = NoRequest, pc' \in {"idle", "exited"} PROVE ServeInv'
    BY <1>3
  <1>4. CASE RejectName \/ AllocBufferFails \/ LoadCreateFails \/ LoadUndo \/ InvokeEnterFails
    BY <1>3, <1>4 DEF RejectName, AllocBufferFails, LoadCreateFails, LoadUndo,
       InvokeEnterFails, SendAnswer
  <1>5. CASE PalHeapInit \/ RuntimeInit \/ RuntimeInitFails
    <2>1. request' = request /\ pc \in {"boot", "init"} /\ pc' \in {"init", "idle", "exited"}
      BY <1>5 DEF PalHeapInit, RuntimeInit, RuntimeInitFails, mainVars
    <2> QED BY <2>1
  <1>6. CASE ReceiveShutdown \/ ReceiveLoad
    BY <1>6 DEF ReceiveShutdown, ReceiveLoad, Goto
  <1>7. CASE ReceiveCall
    BY <1>3, <1>7 DEF ReceiveCall, Goto, SendAnswer
  <1>8. CASE UnloadEnter \/ UnloadModule \/ UnloadDestroy
    <2>1. /\ pc \in {"unload", "unloading", "undomain"} /\ request' = request
          /\ pc' \in {AfterUnload, "unloading", "undomain", "fault"}
      BY <1>8 DEF UnloadEnter, UnloadModule, UnloadDestroy, Touching, Goto, mainVars
    <2> QED BY <2>1 DEF AfterUnload
  <1>9. CASE AllocBuffer \/ LoadCreate \/ LoadEnter
    BY <1>9 DEF AllocBuffer, LoadCreate, LoadEnter, Goto
  <1>10. CASE LoadModule
    <2>1. pc = "loading" /\ request' = request /\ request.kind = "load"
          /\ (pc' \in {"undoload", "fault"} \/ (pc' = "enter" /\ module' = request.mod))
      BY <1>10 DEF LoadModule, Touching, Goto, mainVars, IndInv, ControlInv, LoadingPcs
    <2> QED BY <2>1
  <1>11. CASE InvokeEnter \/ Instantiate \/ CreateExecEnv \/ WriteEnvHash \/ CallFunction
    <2>1. /\ pc \in {"enter", "inst", "env", "hash", "call"}
          /\ pc' \in {"inst", "env", "hash", "call", "fin", "fault"}
          /\ UNCHANGED <<request, module>>
      BY <1>11 DEF InvokeEnter, Instantiate, CreateExecEnv, WriteEnvHash, CallFunction,
         Touching, Goto, mainVars, wasmletVars
    <2> QED BY <2>1
  <1>12. CASE InvokeCleanup
    <2>1. pc' = "fault" \/ (request' = NoRequest /\ pc' = "idle")
      BY <1>12 DEF InvokeCleanup, Touching, SendAnswer
    <2> QED BY <2>1
  <1>13. CASE RuntimeDestroy
    <2>1. pc' = "exited" /\ request' = NoRequest
      BY <1>13 DEF RuntimeDestroy, IndInv, ControlInv, ClearPcs
    <2> QED BY <1>3, <2>1
  <1> QED BY <1>1, <1>2, <1>4, <1>5, <1>6, <1>7, <1>8, <1>9, <1>10, <1>11, <1>12, <1>13
          DEF Next, PalNext

(* The places where the runtime serves a request or waits for one.         *)
ServingPcs == Pcs \ {"boot", "init", "exited", "spin"}

(* A step that the guest cannot see.                                       *)
LEMMA Unseen ==
  ASSUME UNCHANGED <<request, module, reply>>,
         pc' = pc \/ (pc \in ServingPcs /\ pc' \in ServingPcs)
                  \/ (pc = "boot" /\ pc' = "init")
  PROVE  UNCHANGED Service!serviceVars
PROOF
  BY DEF Service!serviceVars, ServingPcs

(* An answer of the runtime is one that PalService allows.                 *)
LEMMA Answers ==
  ASSUME IndInv, NEW status \in 0 .. 5, NEW ran, SendAnswer(status, ran),
         ran = (IF status = 0 THEN module ELSE NoModule),
         pc \in ServingPcs, module' = module, Service!Allowed(status)
  PROVE  Service!Next
PROOF
  <1> DEFINE w == [out EXCEPT !.status = status, !.ran = ran]
  <1>1. out \in Outputs
    BY DEF IndInv, PalTypeOK
  <1>2. w.status = status /\ w.ran = ran
    BY <1>1 DEF Outputs
  <1>3. reply' = w /\ request' = NoRequest /\ pc' = "idle"
    BY DEF SendAnswer
  <1> HIDE DEF w
  <1>4. Service!Answer(status)
    BY <1>2, <1>3 DEF Service!Answer, Service!NoRequest, NoRequest, ServingPcs
  <1> QED BY <1>4 DEF Service!Next

LEMMA ServiceStep ==
  ASSUME IndInv, IndInv', ServeInv, [Next]_vars
  PROVE  [Service!Next]_(Service!serviceVars)
PROOF
  <1>0. pc \in Pcs /\ pc' \in Pcs /\ ControlInv
    BY DEF IndInv, PalTypeOK
  <1>1. CASE UNCHANGED vars
    BY <1>1, Unseen DEF vars, mainVars, wasmletVars
  <1>2. CASE PalHeapInit \/ RuntimeInit \/ RuntimeInitFails
    <2>1. /\ UNCHANGED <<request, module, reply>> /\ pc \in {"boot", "init"}
          /\ \/ pc = "boot" /\ pc' = "init"
             \/ pc' \in {"idle", "exited"}
      BY <1>2 DEF PalHeapInit, RuntimeInit, RuntimeInitFails, mainVars, wasmletVars
    <2>2. CASE pc = "boot" /\ pc' = "init"
      BY <2>1, <2>2, Unseen
    <2>3. CASE pc' \in {"idle", "exited"}
      <3>1. Service!Start
        BY <2>1, <2>3 DEF Service!Start
      <3> QED BY <3>1 DEF Service!Next
    <2> QED BY <2>1, <2>2, <2>3
  <1>3. ASSUME NEW r \in Requests, GuestInvoke(r) PROVE Service!Next
    <2>1. /\ pc \in {"idle", "exited"} /\ request = NoRequest /\ request' = r
          /\ module' = module /\ reply' = NoOutput
          /\ \/ pc = "idle" /\ pc' = "dispatch"
             \/ pc = "exited" /\ pc' = "spin"
      BY <1>3 DEF GuestInvoke, ServeInv, wasmletVars
    <2>2. NoOutput.status = -1 /\ NoOutput.ran = NoModule
      BY DEF NoOutput
    <2>3. Service!Ask(r)
      BY <2>1, <2>2 DEF Service!Ask, Service!NoRequest, Service!NoAnswer, NoRequest
    <2>4. r \in Service!Requests
      BY DEF Service!Requests, Requests
    <2> QED BY <2>3, <2>4 DEF Service!Next
  <1>4. CASE \/ ReceiveShutdown \/ ReceiveLoad \/ UnloadEnter \/ UnloadDestroy
             \/ AllocBuffer \/ LoadCreate \/ LoadEnter \/ InvokeEnter \/ Instantiate
             \/ CreateExecEnv \/ WriteEnvHash \/ CallFunction
    <2>1. /\ UNCHANGED <<request, module, reply>>
          /\ pc \notin {"boot", "init", "exited", "spin"}
          /\ pc' \notin {"boot", "init", "exited", "spin"}
      BY <1>4 DEF ReceiveShutdown, ReceiveLoad, UnloadEnter, UnloadDestroy,
         AllocBuffer, LoadCreate, LoadEnter, InvokeEnter, Instantiate, CreateExecEnv,
         WriteEnvHash, CallFunction, Touching, Goto, AfterUnload, mainVars, wasmletVars
    <2> QED BY <1>0, <2>1, Unseen DEF ServingPcs
  <1>5. CASE RejectName
    <2>1. /\ SendAnswer(1, NoModule) /\ pc = "dispatch" /\ request.kind = "bad"
          /\ module' = module
      BY <1>5 DEF RejectName, wasmletVars
    <2>2. Service!Allowed(1) /\ pc \in ServingPcs
      BY <1>0, <2>1 DEF Service!Allowed, ServingPcs
    <2> QED BY <2>1, <2>2, Answers
  <1>6. CASE ReceiveCall
    <2>1. CASE wasmBuf = NoModule
      <3>1. /\ SendAnswer(5, NoModule) /\ pc = "dispatch" /\ request.kind = "call"
            /\ module' = module
        BY <1>6, <2>1 DEF ReceiveCall, wasmletVars
      <3>2. module = NoModule
        BY <1>0, <2>1, <3>1 DEF ControlInv
      <3>3. Service!Allowed(5) /\ pc \in ServingPcs
        BY <1>0, <3>1, <3>2 DEF Service!Allowed, ServingPcs
      <3> QED BY <3>1, <3>3, Answers
    <2>2. CASE wasmBuf # NoModule
      <3>1. UNCHANGED <<request, module, reply>> /\ pc = "dispatch" /\ pc' = "enter"
        BY <1>6, <2>2 DEF ReceiveCall, Goto, wasmletVars
      <3> QED BY <1>0, <3>1, Unseen DEF ServingPcs
    <2> QED BY <2>1, <2>2
  <1>7. CASE UnloadModule
    <2>1. /\ pc = "unloading" /\ pc' \in {"undomain", "fault"}
          /\ UNCHANGED <<request, reply>>
          /\ module' = NoModule \/ module' = module
      BY <1>7 DEF UnloadModule, Touching, Goto, mainVars, wasmletVars
    <2>2. CASE module' = module
      BY <1>0, <2>1, <2>2, Unseen DEF ServingPcs
    <2>3. CASE module' = NoModule
      <3>1. Service!Unload
        BY <2>1, <2>3 DEF Service!Unload, ServeInv
      <3> QED BY <3>1 DEF Service!Next
    <2> QED BY <2>1, <2>2, <2>3
  <1>8. CASE AllocBufferFails \/ LoadCreateFails \/ LoadUndo
    <2>1. /\ \E status \in {2, 3} : SendAnswer(status, NoModule)
          /\ pc \in {"alloc", "create", "undoload"} /\ module' = module
      BY <1>8 DEF AllocBufferFails, LoadCreateFails, LoadUndo, wasmletVars
    <2>2. PICK status \in {2, 3} : SendAnswer(status, NoModule)
      BY <2>1
    <2>3. request.kind = "load" /\ module = NoModule
      BY <1>0, <2>1 DEF ControlInv, ClearPcs, LoadingPcs
    <2>4. Service!Allowed(2) /\ Service!Allowed(3) /\ pc \in ServingPcs
      <3>1. Service!Allowed(2)
        BY <2>3 DEF Service!Allowed
      <3>2. Service!Allowed(3)
        BY <2>3 DEF Service!Allowed
      <3> QED BY <1>0, <2>1, <3>1, <3>2 DEF ServingPcs
    <2> QED BY <2>1, <2>2, <2>4, Answers
  <1>9. CASE LoadModule
    <2>1. /\ pc = "loading" /\ pc' \in {"enter", "undoload", "fault"}
          /\ UNCHANGED <<request, reply>>
          /\ module' \in {request.mod, NoModule, module}
      BY <1>9 DEF LoadModule, Touching, Goto, mainVars, wasmletVars
    <2>2. module = NoModule /\ request.kind = "load"
      BY <1>0, <2>1 DEF ControlInv, LoadingPcs
    <2>3. CASE module' = module
      BY <1>0, <2>1, <2>3, Unseen DEF ServingPcs
    <2>4. CASE module' = request.mod
      <3>1. Service!Load
        BY <2>1, <2>2, <2>4 DEF Service!Load
      <3> QED BY <3>1 DEF Service!Next
    <2> QED BY <2>1, <2>2, <2>3, <2>4
  <1>10. CASE InvokeEnterFails
    <2>1. SendAnswer(4, NoModule) /\ pc = "enter" /\ module' = module
      BY <1>10 DEF InvokeEnterFails, wasmletVars
    <2>2. module # NoModule
      BY <1>0, <2>1 DEF ControlInv, LoadedPcs
    <2>3. Service!Allowed(4) /\ pc \in ServingPcs
      BY <1>0, <2>1, <2>2 DEF Service!Allowed, Service!Ready, ServeInv, ServingPcs
    <2> QED BY <2>1, <2>3, Answers
  <1>11. CASE InvokeCleanup
    <2>1. CASE domain.pkey \in pkru
      <3>1. /\ SendAnswer(0, module) \/ SendAnswer(4, NoModule)
            /\ pc = "fin" /\ module' = module
        BY <1>11, <2>1 DEF InvokeCleanup, Touching, wasmletVars
      <3>2. module # NoModule
        BY <1>0, <3>1 DEF ControlInv, LoadedPcs
      <3>3. Service!Ready
        BY <3>1, <3>2 DEF Service!Ready, ServeInv
      <3>4. Service!Allowed(0) /\ Service!Allowed(4) /\ pc \in ServingPcs
        BY <1>0, <3>1, <3>3 DEF Service!Allowed, ServingPcs
      <3> QED BY <3>1, <3>4, Answers
    <2>2. CASE domain.pkey \notin pkru
      <3>1. UNCHANGED <<request, module, reply>> /\ pc = "fin" /\ pc' = "fault"
        BY <1>11, <2>2 DEF InvokeCleanup, Touching, mainVars, wasmletVars
      <3> QED BY <1>0, <3>1, Unseen DEF ServingPcs
    <2> QED BY <2>1, <2>2
  <1>12. CASE RuntimeDestroy
    <2>1. module = NoModule /\ pc = "destroy" /\ request.kind = "shutdown"
      BY <1>0, <1>12 DEF RuntimeDestroy, ControlInv, ClearPcs, ServeInv
    <2>2. /\ pc' = "exited" /\ request' = NoRequest /\ UNCHANGED <<module, reply>>
      BY <1>12, <2>1 DEF RuntimeDestroy
    <2>3. Service!Stop
      BY <2>1, <2>2 DEF Service!Stop, Service!NoRequest, NoRequest
    <2> QED BY <2>3 DEF Service!Next
  <1> QED BY <1>1, <1>2, <1>3, <1>4, <1>5, <1>6, <1>7, <1>8, <1>9, <1>10, <1>11, <1>12
          DEF Next, PalNext

(* Seen through its channels, the runtime does what PalService says,       *)
(* whatever fails below it: a load replaces the module or leaves none, a   *)
(* call runs the module that is loaded and names it, a rejected or failed  *)
(* request says so and changes nothing else, and after a shutdown there is *)
(* no answer.                                                              *)
THEOREM Refinement == Spec => ImplementsService
PROOF
  <1>1. Init => ServeInv
    BY DEF Init, ServeInv
  <1>2. IndInv /\ ServeInv /\ [Next]_vars => ServeInv'
    BY ServeStep
  <1>3. Init => Service!Init
    <2>1. NoOutput.status = -1 /\ NoOutput.ran = NoModule
      BY DEF NoOutput
    <2> QED BY <2>1 DEF Init, Service!Init, Service!NoRequest, Service!NoAnswer, NoRequest
  <1>4. IndInv /\ IndInv' /\ ServeInv /\ [Next]_vars
          => [Service!Next]_(Service!serviceVars)
    BY ServiceStep
  <1> QED BY <1>1, <1>2, <1>3, <1>4, Inductive, PTL
          DEF Spec, ImplementsService, Service!Spec

-----------------------------------------------------------------------------
(***************************************************************************)
(* Access rights: which protection keys PKRU enables at each place of      *)
(* wamr_pal_main.c and wasmlet_vmpl1.c.  The proofs rest on the inductive  *)
(* invariant above and on one assumption about the monitor: exit_domain    *)
(* does not fail, for mpk_domain_exit only prints a message when it does.  *)
(***************************************************************************)
(* An instance and its execution environment live only inside one          *)
(* wasmlet_invoke.                                                         *)
InvocationInv ==
  /\ pc \notin {"env", "hash", "call", "fin", "fault"} => ~inst
  /\ pc \notin {"hash", "call", "fin", "fault"} => ~execEnv

(* A domain has an mspace from its first successful enter on.              *)
HeapInv ==
  /\ domain.base = 0 => ~domain.msp
  /\ module # NoModule => domain.msp
  /\ pc = "loading" => domain.msp

(* Outside a domain no key is enabled; inside, exactly the domain's.       *)
(* wasmlet_unload_module does not look at the result of mpk_domain_enter,  *)
(* so there PKRU may lack the key when that call can fail.                 *)
AccessInv ==
  /\ pc \in OutsidePcs => pkru = {} /\ currentMsp # "domain"
  /\ pc \in InDomainPcs \ {"unloading"} => pkru = {domain.pkey}
  /\ pc = "unloading" => pkru \subseteq {domain.pkey}
  /\ pc = "unloading" /\ ~MayFail("enter_domain") => pkru = {domain.pkey}

RightsInv == IndInv /\ InvocationInv /\ HeapInv /\ AccessInv

-----------------------------------------------------------------------------
LEMMA InvocationStep ==
  ASSUME InvocationInv, PalTypeOK, [Next]_vars
  PROVE  InvocationInv'
<1>. USE DEF InvocationInv
<1>1. CASE UNCHANGED vars
  BY <1>1 DEF vars, invokeVars
<1>2. CASE Instantiate
  BY <1>2 DEF Instantiate, Touching, Goto, invokeVars
<1>3. CASE CreateExecEnv
  BY <1>3 DEF CreateExecEnv, Touching, Goto, invokeVars
<1>4. CASE WriteEnvHash
  BY <1>4 DEF WriteEnvHash, invokeVars
<1>5. CASE CallFunction
  BY <1>5 DEF CallFunction, Touching, Goto, invokeVars
<1>6. CASE InvokeCleanup
  <2>1. CASE domain.pkey \in pkru
    <3>1. ~inst' /\ ~execEnv'
      BY <1>6, <2>1 DEF InvokeCleanup, Touching
    <3>. QED BY <3>1
  <2>2. CASE domain.pkey \notin pkru
    BY <1>6, <2>2 DEF InvokeCleanup, Touching
  <2>. QED BY <2>1, <2>2
<1>7. CASE InvokeEnter
  BY <1>7 DEF InvokeEnter, Goto
<1>8. ASSUME \/ PalHeapInit \/ RuntimeInit \/ RuntimeInitFails
             \/ ReceiveShutdown \/ RejectName \/ ReceiveLoad \/ ReceiveCall
             \/ UnloadEnter \/ UnloadModule \/ UnloadDestroy
             \/ AllocBuffer \/ AllocBufferFails
             \/ LoadCreate \/ LoadCreateFails \/ LoadEnter \/ LoadModule
             \/ LoadUndo \/ InvokeEnterFails \/ RuntimeDestroy
             \/ \E r \in Requests : GuestInvoke(r)
      PROVE  InvocationInv'
  <2>1. /\ UNCHANGED <<inst, execEnv>>
        /\ pc \notin {"env", "hash", "call", "fin", "fault"}
    BY <1>8 DEF PalHeapInit, RuntimeInit, RuntimeInitFails,
       ReceiveShutdown, RejectName, ReceiveLoad, ReceiveCall, UnloadEnter,
       UnloadModule, UnloadDestroy, AllocBuffer, AllocBufferFails,
       LoadCreate, LoadCreateFails, LoadEnter, LoadModule, LoadUndo,
       InvokeEnterFails, RuntimeDestroy, GuestInvoke, Touching, invokeVars
  <2>. QED BY <2>1
<1>. QED
  BY <1>1, <1>2, <1>3, <1>4, <1>5, <1>6, <1>7, <1>8 DEF Next, PalNext

-----------------------------------------------------------------------------
(* What the domain operations do to the rights, when exit_domain works.    *)
LEMMA ExitedExact ==
  ASSUME ~MayFail("exit_domain"), NEW rights, NEW key
  PROVE  Exited(rights, key) = {rights \ {key}}
BY DEF Exited

LEMMA EnterRights ==
  ASSUME pkru = {}, MpkInv, DomainEnter
  PROVE  pkru' = {domain'.pkey} /\ domain'.msp
<1>1. domain'.pkey = domain.pkey /\ domain'.msp
  BY DomainEnterPreserves
<1>. QED BY <1>1 DEF DomainEnter, Entered

LEMMA EnterFailsRights ==
  ASSUME ~MayFail("exit_domain"), pkru = {}, DomainEnterFails
  PROVE  pkru' = {} /\ UNCHANGED <<domain, currentMsp>>
BY ExitedExact DEF DomainEnterFails, Entered, allocVars

LEMMA ExitRights ==
  ASSUME ~MayFail("exit_domain"), pkru \subseteq {domain.pkey}, DomainExit
  PROVE  pkru' = {} /\ currentMsp' # "domain" /\ UNCHANGED domain
BY ExitedExact DEF DomainExit, DefaultMsp

LEMMA DestroyRights ==
  ASSUME ~MayFail("exit_domain"), pkru = {}, currentMsp # "domain",
         domain.base # 0, DomainDestroy
  PROVE  pkru' = {} /\ currentMsp' # "domain" /\ domain' = NoDomain
<1>. PICK entered \in BOOLEAN, freed \in BOOLEAN :
            DestroyRegion(entered, freed)
  BY DEF DomainDestroy
<1>1. CASE entered
  BY <1>1, ExitedExact DEF DestroyRegion, DefaultMsp, Entered
<1>2. CASE ~entered
  BY <1>2 DEF DestroyRegion
<1>. QED BY <1>1, <1>2

(* The steps that change neither the domain, nor PKRU, nor g_current_msp,  *)
(* nor g_module.                                                           *)
LEMMA LocalStepRights ==
  ASSUME LocalStep
  PROVE  UNCHANGED <<domain, pkru, currentMsp, module>>
<1>1. UNCHANGED <<domain, pkru, currentMsp>>
  BY LocalStepUntouched DEF mpkVars, allocVars, svsmVars
<1>2. UNCHANGED module
  BY DEF LocalStep, PalHeapInit, ReceiveShutdown, RejectName, ReceiveLoad,
     ReceiveCall, AllocBuffer, AllocBufferFails, Instantiate, CreateExecEnv,
     WriteEnvHash, CallFunction, GuestInvoke, Touching, wasmletVars
<1>. QED BY <1>1, <1>2

(* wasm_runtime_load runs only behind the mpk_domain_enter before it.      *)
LEMMA LoadingStep ==
  ASSUME Next, pc' = "loading"
  PROVE  LoadEnter
BY DEF Next, PalNext, PalHeapInit, RuntimeInit, RuntimeInitFails,
   ReceiveShutdown, RejectName, ReceiveLoad, ReceiveCall, UnloadEnter,
   UnloadModule, UnloadDestroy, AllocBuffer, AllocBufferFails, LoadCreate,
   LoadCreateFails, LoadModule, LoadUndo, InvokeEnter, InvokeEnterFails,
   Instantiate, CreateExecEnv, WriteEnvHash, CallFunction, InvokeCleanup,
   RuntimeDestroy, GuestInvoke, Touching, Goto, SendAnswer, AfterUnload

LEMMA HeapStep ==
  ASSUME IndInv, HeapInv, [Next]_vars
  PROVE  HeapInv'
<1>. DEFINE Heap == /\ domain.base = 0 => ~domain.msp
                    /\ module # NoModule => domain.msp
<1>. USE DEF HeapInv, IndInv
<1>. SUFFICES Heap'
  <2>1. CASE UNCHANGED vars
    BY <2>1 DEF vars, mpkVars, allocVars
  <2>2. CASE Next /\ pc' = "loading"
    <3>1. LoadEnter /\ DomainEnter
      BY <2>2, LoadingStep DEF LoadEnter, Goto
    <3>2. domain'.msp
      BY <3>1, DomainEnterPreserves
    <3>. QED BY <3>2
  <2>. QED BY <2>1, <2>2
<1>0. ~NoDomain.msp
  BY DEF NoDomain
<1>1. CASE UNCHANGED vars
  BY <1>1 DEF vars, mpkVars, allocVars, wasmletVars
<1>2. CASE LocalStep
  BY <1>2, LocalStepRights
<1>3. CASE RuntimeInit
  <2>1. UNCHANGED <<domain, module>>
    BY <1>3, AllocatorInitPreserves
    DEF RuntimeInit, ControlInv, ClearPcs
  <2>. QED BY <2>1
<1>4. CASE RuntimeInitFails
  <2>1. UNCHANGED <<domain, module>>
    BY <1>4, AllocatorInitFailsPreserves
    DEF RuntimeInitFails, ControlInv, ClearPcs, wasmletVars
  <2>. QED BY <2>1
<1>5. CASE UnloadEnter
  <2>1. /\ domain'.base = domain.base
        /\ domain'.msp \/ UNCHANGED domain
    BY <1>5, DomainEnterPreserves, DomainEnterFailsPreserves
    DEF UnloadEnter, ControlInv, LoadedPcs, mpkVars, allocVars
  <2>2. UNCHANGED module /\ domain.base # 0
    BY <1>5 DEF UnloadEnter, wasmletVars, ControlInv, LoadedPcs
  <2>. QED BY <2>1, <2>2
<1>6. CASE UnloadModule \/ InvokeCleanup
  <2>1. UNCHANGED domain /\ module' \in {module, NoModule}
    BY <1>6, DomainExitPreserves
    DEF UnloadModule, InvokeCleanup, Touching, wasmletVars, mpkVars, allocVars
  <2>. QED BY <2>1
<1>7. CASE UnloadDestroy \/ LoadUndo
  <2>1. domain' = NoDomain /\ module = NoModule /\ module' = module
    BY <1>7, DomainDestroyPreserves
    DEF UnloadDestroy, LoadUndo, ControlInv, LoadingPcs
  <2>. QED BY <1>0, <2>1
<1>8. CASE LoadCreate
  <2>1. domain'.base # 0 /\ module' = NoModule
    BY <1>8, DomainCreatePreserves DEF LoadCreate, ControlInv, ClearPcs
  <2>. QED BY <2>1
<1>9. CASE LoadCreateFails
  <2>1. UNCHANGED <<domain, module>>
    BY <1>9, DomainCreateFailsPreserves
    DEF LoadCreateFails, wasmletVars, mpkVars, allocVars
  <2>. QED BY <2>1
<1>10. CASE LoadEnter
  <2>1. domain.base # 0 /\ module = NoModule /\ UNCHANGED module
    BY <1>10 DEF LoadEnter, ControlInv, LoadingPcs, wasmletVars
  <2>2. domain'.base = domain.base
    BY <1>10, <2>1, DomainEnterPreserves, DomainEnterFailsPreserves
    DEF LoadEnter, allocVars
  <2>. QED BY <2>1, <2>2
<1>11. CASE InvokeEnter
  <2>1. domain'.base = domain.base /\ domain'.msp /\ domain.base # 0
    BY <1>11, DomainEnterPreserves DEF InvokeEnter, ControlInv, LoadedPcs
  <2>. QED BY <2>1
<1>12. CASE InvokeEnterFails
  <2>1. UNCHANGED <<domain, module>>
    BY <1>12, DomainEnterFailsPreserves
    DEF InvokeEnterFails, ControlInv, LoadedPcs, wasmletVars, mpkVars, allocVars
  <2>. QED BY <2>1
<1>13. CASE LoadModule
  <2>1. UNCHANGED domain /\ domain.msp /\ domain.base # 0
    BY <1>13, DomainExitPreserves
    DEF LoadModule, Touching, mpkVars, allocVars, ControlInv, LoadingPcs
  <2>. QED BY <2>1
<1>14. CASE RuntimeDestroy
  <2>1. UNCHANGED <<domain, module>>
    BY <1>14, AllocatorDestroyPreserves
    DEF RuntimeDestroy, ControlInv, ClearPcs
  <2>. QED BY <2>1
<1>. QED
  BY <1>1, <1>2, <1>3, <1>4, <1>5, <1>6, <1>7, <1>8, <1>9, <1>10, <1>11,
     <1>12, <1>14, <1>13 DEF Next, PalNext, LocalStep

(* Without failing monitor calls around a live domain, mpk_domain_enter    *)
(* can only fail to create the mspace of a fresh one.                      *)
LEMMA EnterWorks ==
  ASSUME ~MayFail("enter_domain"), domain.base # 0, domain.msp
  PROVE  ~DomainEnterFails
BY DEF DomainEnterFails

LEMMA AccessStep ==
  ASSUME ~MayFail("exit_domain"), RightsInv, [Next]_vars
  PROVE  AccessInv'
<1>. USE DEF RightsInv, AccessInv, InDomainPcs, OutsidePcs
<1>1. CASE UNCHANGED vars
  BY <1>1 DEF vars, mpkVars, allocVars, svsmVars
<1>2. CASE Instantiate \/ CreateExecEnv \/ WriteEnvHash \/ CallFunction
  <2>1. /\ pc \in {"inst", "env", "hash", "call"}
        /\ pc' \in {"env", "hash", "call", "fin", "fault"}
    BY <1>2 DEF Instantiate, CreateExecEnv, WriteEnvHash, CallFunction,
       Touching, Goto
  <2>. QED BY <1>2, <2>1, LocalStepRights DEF LocalStep
<1>3. CASE LocalStep /\ ~(\/ Instantiate \/ CreateExecEnv \/ WriteEnvHash
                          \/ CallFunction)
  <2>1. pc \in OutsidePcs /\ pc' \in OutsidePcs
    BY <1>3 DEF LocalStep, PalHeapInit, ReceiveShutdown, RejectName,
       ReceiveLoad, ReceiveCall, AllocBuffer, AllocBufferFails, GuestInvoke,
       Goto, SendAnswer
  <2>. QED BY <1>3, <2>1, LocalStepRights
<1>4. CASE RuntimeInit \/ RuntimeInitFails
  <2>1. /\ pc \in OutsidePcs /\ pc' \in {"idle", "exited"}
        /\ pkru' = pkru /\ currentMsp' \in {"default", currentMsp}
    BY <1>4 DEF RuntimeInit, RuntimeInitFails, AllocatorInit,
       AllocatorInitFails
  <2>. QED BY <2>1
<1>5. CASE UnloadEnter
  <2>1. /\ pc = "unload" /\ domain.base # 0 /\ domain.msp
        /\ DomainEnter \/ DomainEnterFails
        /\ pc' = "unloading"
    BY <1>5 DEF UnloadEnter, IndInv, ControlInv, LoadedPcs, HeapInv, Goto
  <2>2. CASE DomainEnter
    <3>1. pkru' = {domain'.pkey}
      BY <2>1, <2>2, EnterRights DEF IndInv
    <3>. QED BY <2>1, <3>1
  <2>3. CASE DomainEnterFails
    <3>1. pkru' = {} /\ MayFail("enter_domain")
      BY <2>1, <2>3, EnterFailsRights, EnterWorks
    <3>. QED BY <2>1, <3>1 DEF MayFail
  <2>. QED BY <2>1, <2>2, <2>3
<1>6. CASE UnloadModule \/ LoadModule \/ InvokeCleanup
  <2>1. CASE domain.pkey \notin pkru
    <3>1. pc' = "fault"
      BY <1>6, <2>1 DEF UnloadModule, LoadModule, InvokeCleanup, Touching
    <3>. QED BY <3>1
  <2>2. CASE domain.pkey \in pkru
    <3>1. /\ pc \in {"unloading", "loading", "fin"} /\ DomainExit
          /\ pc' \in {"undomain", "enter", "undoload", "idle"}
      BY <1>6, <2>2 DEF UnloadModule, LoadModule, InvokeCleanup, Touching,
         Goto, SendAnswer
    <3>2. pkru' = {} /\ currentMsp' # "domain"
      BY <3>1, ExitRights
    <3>. QED BY <3>1, <3>2
  <2>. QED BY <2>1, <2>2
<1>7. CASE UnloadDestroy \/ LoadUndo
  <2>1. /\ pc \in {"undomain", "undoload"} /\ domain.base # 0
        /\ DomainDestroy
        /\ pc' \in {"alloc", "destroy", "idle"}
    BY <1>7 DEF UnloadDestroy, LoadUndo, Goto, AfterUnload, SendAnswer,
       IndInv, ControlInv, LoadingPcs
  <2>2. pkru' = {} /\ currentMsp' # "domain"
    BY <2>1, DestroyRights
  <2>. QED BY <2>1, <2>2
<1>8. CASE LoadCreate \/ LoadCreateFails
  <2>1. pc = "create" /\ pc' \in {"enterload", "idle"}
    BY <1>8 DEF LoadCreate, LoadCreateFails, Goto, SendAnswer
  <2>2. UNCHANGED <<pkru, currentMsp>>
    BY <1>8 DEF LoadCreate, LoadCreateFails, DomainCreate, DomainCreateFails,
       mpkVars, allocVars, svsmVars
  <2>. QED BY <2>1, <2>2
<1>9. CASE LoadEnter \/ InvokeEnter \/ InvokeEnterFails
  <2>1. /\ pc \in {"enterload", "enter"}
        /\ \/ DomainEnter /\ pc' \in {"loading", "inst"}
           \/ DomainEnterFails /\ pc' \in {"undoload", "idle"}
           \/ UNCHANGED mpkVars /\ pc' = "idle"
    BY <1>9 DEF LoadEnter, InvokeEnter, InvokeEnterFails, Goto, SendAnswer
  <2>2. CASE DomainEnter /\ pc' \in {"loading", "inst"}
    <3>1. pkru' = {domain'.pkey}
      BY <2>1, <2>2, EnterRights DEF IndInv
    <3>. QED BY <2>2, <3>1
  <2>3. CASE DomainEnterFails /\ pc' \in {"undoload", "idle"}
    BY <2>1, <2>3, EnterFailsRights
  <2>4. CASE UNCHANGED mpkVars /\ pc' = "idle"
    BY <2>1, <2>4 DEF mpkVars, allocVars, svsmVars
  <2>. QED BY <2>1, <2>2, <2>3, <2>4
<1>10. CASE RuntimeDestroy
  <2>1. pc = "destroy" /\ pc' \in {"unload", "exited"}
    BY <1>10 DEF RuntimeDestroy, Goto
  <2>2. pkru' = pkru /\ currentMsp' \in {"null", currentMsp}
    BY <1>10 DEF RuntimeDestroy, AllocatorDestroy, mpkVars, allocVars,
       svsmVars
  <2>. QED BY <2>1, <2>2
<1>. QED
  BY <1>1, <1>2, <1>3, <1>4, <1>5, <1>6, <1>7, <1>8, <1>9, <1>10
  DEF Next, PalNext, LocalStep

-----------------------------------------------------------------------------
THEOREM RightsInductive ==
  ASSUME ~MayFail("exit_domain")
  PROVE  Spec => []RightsInv
<1>1. Init => InvocationInv /\ HeapInv /\ AccessInv
  BY DEF Init, SvsmInit, AllocInit, NoDomain, InvocationInv, HeapInv,
     AccessInv, InDomainPcs, OutsidePcs
<1>2. IndInv /\ IndInv' /\ InvocationInv /\ HeapInv /\ AccessInv /\ [Next]_vars
        => (InvocationInv /\ HeapInv /\ AccessInv)'
  BY InvocationStep, HeapStep, AccessStep DEF RightsInv, IndInv
<1>3. IndInv /\ InvocationInv /\ HeapInv /\ AccessInv => RightsInv
  BY DEF RightsInv
<1>. QED BY <1>1, <1>2, <1>3, Inductive, PTL DEF Spec

(* As long as the monitor lets the runtime leave a domain, the guest never *)
(* regains control while a protection key is enabled, the allocator points *)
(* into a domain, or an instance is left over - whatever else fails, and   *)
(* even where wasmlet_unload_module ignores a failed enter.                *)
THEOREM ClosedAtSuspension ==
  ASSUME ~MayFail("exit_domain")
  PROVE  Spec => []ClosedWhenSuspended
<1>1. RightsInv => ClosedWhenSuspended
  BY DEF RightsInv, InvocationInv, AccessInv, ClosedWhenSuspended, Suspended,
     OutsidePcs
<1>. QED BY <1>1, RightsInductive, PTL

(* If moreover entering a domain that has an mspace never fails, WAMR      *)
(* never touches protected memory without the right to.                    *)
THEOREM NoFaultTheorem ==
  ASSUME ~MayFail("exit_domain"), ~MayFail("enter_domain")
  PROVE  Spec => []NoDomainFault
<1>1. Init => NoDomainFault
  BY DEF Init, NoDomainFault
<1>2. RightsInv /\ NoDomainFault /\ [Next]_vars => NoDomainFault'
  <2>. SUFFICES ASSUME RightsInv, NoDomainFault, [Next]_vars
                PROVE  NoDomainFault'
    OBVIOUS
  <2>1. pc \in InDomainPcs => domain.pkey \in pkru
    BY DEF RightsInv, AccessInv
  <2>2. CASE UNCHANGED vars
    BY <2>2 DEF vars, NoDomainFault
  <2>3. CASE Next
    BY <2>1, <2>3 DEF NoDomainFault, InDomainPcs, Next, PalNext, PalHeapInit, RuntimeInit,
       RuntimeInitFails, ReceiveShutdown, RejectName, ReceiveLoad,
       ReceiveCall, UnloadEnter, UnloadModule, UnloadDestroy, AllocBuffer,
       AllocBufferFails, LoadCreate, LoadCreateFails, LoadEnter, LoadModule,
       LoadUndo, InvokeEnter, InvokeEnterFails, Instantiate, CreateExecEnv,
       WriteEnvHash, CallFunction, InvokeCleanup, RuntimeDestroy,
       GuestInvoke, Touching, Goto, SendAnswer, AfterUnload
  <2>. QED BY <2>2, <2>3
<1>. QED BY <1>1, <1>2, RightsInductive, PTL DEF Spec
=============================================================================
