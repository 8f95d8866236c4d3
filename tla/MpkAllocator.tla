---------------------------- MODULE MpkAllocator ----------------------------
(***************************************************************************)
(* wamr-pal/mpk_allocator_vmpl1.c: the pool of protection keys, the bump   *)
(* allocator of protected regions, the default heap and the life cycle of  *)
(* one protection domain (create, enter, exit, destroy).                   *)
(*                                                                         *)
(* Addresses are counted in regions: DEFAULT_HEAP_SIZE and MPK_MODULE_HEAP *)
(* are both 4 MB, so every mpk_region_map takes one unit.  Unit 1 stands   *)
(* for MPK_REGION_BASE and 0 for the null pointer.                         *)
(***************************************************************************)
EXTENDS SvsmMpk

CONSTANTS
  PoolSize,   \* PKEY_POOL_SIZE: keys taken from the monitor at start-up
  AddrLimit   \* first unit the region allocator may not reach

ASSUME AllocatorAssumption ==
  /\ PoolSize \in Nat \ {0}
  /\ PoolSize <= MaxKey
  /\ AddrLimit \in Nat \ {0, 1, 2}

VARIABLES
  pkeyPool,    \* g_pkey_pool: every key taken from the monitor (0: unused)
  pkeyTotal,   \* g_pkey_total
  pkeyFree,    \* g_pkey_free: stack of unused keys
  freeTop,     \* g_pkey_free_top
  nextAddr,    \* g_mpk_next_addr
  allocInit,   \* g_allocator_initialized
  defaultMsp,  \* g_default_msp and g_default_base are not null
  currentMsp,  \* g_current_msp: "null", "default" or "domain"
  domain       \* the mpk_domain_t the caller passes in (g_module_domain)

poolVars == <<pkeyPool, pkeyTotal, pkeyFree, freeTop>>
heapVars == <<allocInit, defaultMsp>>
allocVars == <<poolVars, nextAddr, heapVars, currentMsp, domain>>

Slots == 1 .. PoolSize
NoDomain == [pkey |-> 0, base |-> 0, msp |-> FALSE]

AllocTypeOK ==
  /\ pkeyPool \in [Slots -> 0 .. MaxKey]
  /\ pkeyTotal \in 0 .. PoolSize
  /\ pkeyFree \in [Slots -> 0 .. MaxKey]
  /\ freeTop \in 0 .. PoolSize
  /\ nextAddr \in 1 .. AddrLimit - 1
  /\ allocInit \in BOOLEAN
  /\ defaultMsp \in BOOLEAN
  /\ currentMsp \in {"null", "default", "domain"}
  /\ domain \in [pkey : 0 .. MaxKey, base : 0 .. AddrLimit, msp : BOOLEAN]

AllocInit ==
  /\ pkeyPool = [i \in Slots |-> 0]
  /\ pkeyTotal = 0
  /\ pkeyFree = [i \in Slots |-> 0]
  /\ freeTop = 0
  /\ nextAddr = 1
  /\ allocInit = FALSE
  /\ defaultMsp = FALSE
  /\ currentMsp = "null"
  /\ domain = NoDomain

-----------------------------------------------------------------------------
(* The keys of the pool and the ones on its free stack. *)
PoolKeys == {pkeyPool[i] : i \in 1 .. pkeyTotal}
FreeKeys == {pkeyFree[i] : i \in 1 .. freeTop}

(* pkey_pool_init: the monitor answers the first got of PoolSize requests  *)
(* with the distinct keys ks and refuses the next one.                     *)
PkeyPoolInit(got, ks) ==
  LET table == [i \in Slots |-> IF i <= got THEN ks[i] ELSE 0]
  IN /\ got < PoolSize => MayFail("pkey_alloc")
     /\ pkeyPool' = table
     /\ pkeyFree' = table
     /\ pkeyTotal' = got
     /\ freeTop' = got
     /\ svsmKeys' = svsmKeys \cup {ks[i] : i \in 1 .. got}

(* The answers the monitor can give to got requests. *)
KeyGrants(got) ==
  {ks \in [1 .. got -> Keys \ svsmKeys] :
     \A i, j \in 1 .. got : ks[i] = ks[j] => i = j}

(* pkey_pool_alloc: pop the free stack. *)
PoolTop == pkeyFree[freeTop]
PkeyPoolAlloc ==
  /\ freeTop' = freeTop - 1
  /\ UNCHANGED <<pkeyPool, pkeyTotal, pkeyFree>>

(* pkey_pool_free: push, unless the stack already holds g_pkey_total keys. *)
PkeyPoolFree(key) ==
  /\ IF freeTop < pkeyTotal
     THEN /\ pkeyFree' = [pkeyFree EXCEPT ![freeTop + 1] = key]
          /\ freeTop' = freeTop + 1
     ELSE UNCHANGED <<pkeyFree, freeTop>>
  /\ UNCHANGED <<pkeyPool, pkeyTotal>>

(* pkey_pool_destroy: give every key of the pool back to the monitor.      *)
PkeyPoolDestroy ==
  /\ \E kept \in SUBSET PoolKeys : SvsmFreeKeys(PoolKeys, kept)
  /\ pkeyTotal' = 0
  /\ freeTop' = 0
  /\ UNCHANGED <<pkeyPool, pkeyFree>>

-----------------------------------------------------------------------------
(* Mutant: the bound is tested against the address before the addition.    *)
MutantExhausted == nextAddr >= AddrLimit

(* mpk_region_map gives up before it calls the monitor. *)
AddressSpaceExhausted == nextAddr + 1 >= AddrLimit

(***************************************************************************)
(* mpk_allocator_init, when everything succeeds: the key pool, then the    *)
(* default heap (pkey 0, plain virt_alloc, so the monitor's MPK manager    *)
(* does not know of it).                                                   *)
(***************************************************************************)
AllocatorInit(got, ks) ==
  /\ PkeyPoolInit(got, ks)
  /\ got > 0
  /\ ~AddressSpaceExhausted
  /\ nextAddr' = nextAddr + 1
  /\ allocInit' = TRUE
  /\ defaultMsp' = TRUE
  /\ currentMsp' = "default"
  /\ UNCHANGED <<domain, svsmRegions, pkru, misuse>>

(***************************************************************************)
(* mpk_allocator_init and wasm_runtime_full_init, when one of their steps  *)
(* fails: no key at all, or a later step, after which the pool is          *)
(* destroyed again and the keys go back.  at: the step that fails.  The    *)
(* address of the default heap is rolled back only when virt_alloc itself  *)
(* refuses it.                                                             *)
(***************************************************************************)
AllocatorInitFails(got, ks, kept, at) ==
  LET keys == {ks[i] : i \in 1 .. got}
  IN /\ got < PoolSize => MayFail("pkey_alloc")
     /\ kept \subseteq keys
     /\ kept # {} => MayFail("free_pkey")
     /\ MayFail(at)
     /\ got = 0 <=> at = "pkey_alloc"
     /\ svsmKeys' = svsmKeys \cup kept
     /\ LET table == [i \in Slots |-> IF i <= got THEN ks[i] ELSE 0]
        IN pkeyPool' = table /\ pkeyFree' = table
     /\ nextAddr' = IF at \in {"pkey_alloc", "virt_alloc"} THEN nextAddr
                                                         ELSE nextAddr + 1
     /\ pkeyTotal' = 0
     /\ freeTop' = 0
     /\ UNCHANGED <<heapVars, currentMsp, domain, svsmRegions, pkru, misuse>>

(* Mutant: the keys of the pool are not given back. *)
MutantAllocatorDestroy ==
  /\ defaultMsp' = FALSE
  /\ currentMsp' = "null"
  /\ allocInit' = FALSE
  /\ UNCHANGED <<poolVars, nextAddr, domain, svsmVars>>

(* mpk_allocator_destroy. *)
AllocatorDestroy ==
  IF allocInit
  THEN /\ PkeyPoolDestroy
       /\ defaultMsp' = FALSE
       /\ currentMsp' = "null"
       /\ allocInit' = FALSE
       /\ UNCHANGED <<nextAddr, domain, svsmRegions, pkru>>
  ELSE UNCHANGED <<allocVars, svsmVars>>

-----------------------------------------------------------------------------
(* mpk_domain_create succeeds: a key from the pool, a region tagged with it. *)
DomainCreate ==
  /\ freeTop > 0
  /\ ~AddressSpaceExhausted
  /\ PkeyPoolAlloc
  /\ SvsmMpkAlloc(nextAddr, PoolTop, TRUE)
  /\ nextAddr' = nextAddr + 1
  /\ domain' = [pkey |-> PoolTop, base |-> nextAddr, msp |-> FALSE]
  /\ UNCHANGED <<heapVars, currentMsp, svsmKeys, pkru>>

(* Mutant: the key is not pushed back when mpk_region_map fails. *)
MutantDomainCreateFails ==
  /\ freeTop > 0
  /\ AddressSpaceExhausted \/ MayFail("mpk_alloc")
  /\ PkeyPoolAlloc
  /\ UNCHANGED <<nextAddr, heapVars, currentMsp, domain, svsmVars>>

(* mpk_domain_create fails: no key, no address left, or the monitor        *)
(* refuses the region.  The key popped for it is pushed back and the       *)
(* address rolled back, so the pool and the bump pointer end unchanged.    *)
DomainCreateFails ==
  /\ \/ /\ freeTop = 0 \/ AddressSpaceExhausted
        /\ UNCHANGED svsmVars
     \/ /\ freeTop > 0 /\ ~AddressSpaceExhausted
        /\ MayFail("mpk_alloc")
        /\ SvsmMpkAlloc(nextAddr, PoolTop, FALSE)
        /\ UNCHANGED <<svsmKeys, pkru>>
  /\ UNCHANGED allocVars

(* mpk_domain_enter succeeds; the first time it also creates the mspace.   *)
DomainEnter ==
  /\ domain.base # 0
  /\ pkru' = Entered(domain.pkey)
  /\ domain' = [domain EXCEPT !.msp = TRUE]
  /\ currentMsp' = "domain"
  /\ UNCHANGED <<poolVars, nextAddr, heapVars, svsmKeys, svsmRegions, misuse>>

(* Mutant: a domain whose mspace cannot be created is not left again. *)
MutantDomainEnterFails ==
  /\ \/ /\ domain.base = 0 \/ MayFail("enter_domain")
        /\ UNCHANGED pkru
     \/ /\ MayFail("mspace") /\ ~domain.msp
        /\ pkru' = Entered(domain.pkey)
  /\ UNCHANGED <<allocVars, svsmKeys, svsmRegions, misuse>>

(* mpk_domain_enter fails: the monitor refuses, or the mspace cannot be    *)
(* created and the domain is left again.  g_current_msp keeps its value.   *)
DomainEnterFails ==
  /\ \/ /\ domain.base = 0 \/ MayFail("enter_domain")
        /\ UNCHANGED pkru
     \/ /\ MayFail("mspace") /\ ~domain.msp
        /\ pkru' \in Exited(Entered(domain.pkey), domain.pkey)
  /\ UNCHANGED <<allocVars, svsmKeys, svsmRegions, misuse>>

(* The target of g_current_msp = g_default_msp. *)
DefaultMsp == IF defaultMsp THEN "default" ELSE "null"

(* mpk_domain_exit. *)
DomainExit ==
  /\ pkru' \in Exited(pkru, domain.pkey)
  /\ currentMsp' = DefaultMsp
  /\ UNCHANGED <<poolVars, nextAddr, heapVars, domain, svsmKeys, svsmRegions,
                 misuse>>

(* Mutant: the address range of the destroyed region is used again even    *)
(* when the monitor has refused to unmap it.                               *)
MutantDestroyRegion(entered, freed) ==
  /\ ~freed => MayFail("free_pkey")
  /\ PkeyPoolFree(domain.pkey)
  /\ SvsmFreePkey(domain.pkey, domain.base, freed)
  /\ nextAddr' = domain.base
  /\ domain' = NoDomain
  /\ UNCHANGED <<heapVars, currentMsp, pkru>>

(***************************************************************************)
(* mpk_domain_destroy: enter once more to destroy the mspace (entered),    *)
(* leave, forget the domain, push the key on the local pool AND give key   *)
(* and region back to the monitor (freed).                                 *)
(***************************************************************************)
DestroyRegion(entered, freed) ==
  /\ entered => domain.msp
  /\ ~entered => ~domain.msp \/ MayFail("enter_domain")
  /\ ~freed => MayFail("free_pkey")
  /\ pkru' \in IF entered THEN Exited(Entered(domain.pkey), domain.pkey)
                          ELSE {pkru}
  /\ currentMsp' = IF entered THEN DefaultMsp ELSE currentMsp
  /\ PkeyPoolFree(domain.pkey)
  /\ SvsmFreePkey(domain.pkey, domain.base, freed)
  /\ domain' = NoDomain
  /\ UNCHANGED <<nextAddr, heapVars>>

DomainDestroy ==
  IF domain.base = 0
  THEN UNCHANGED <<allocVars, svsmVars>>
  ELSE \E entered, freed \in BOOLEAN : DestroyRegion(entered, freed)
=============================================================================
