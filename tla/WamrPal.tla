------------------------------- MODULE WamrPal -------------------------------
(***************************************************************************)
(* The bare-metal WAMR runtime of a trustlet: the main loop of             *)
(* wamr-pal/wamr_pal_main.c, the module life cycle of wasmlet_vmpl1.c and  *)
(* the MPK allocator below it (MpkAllocator).                              *)
(*                                                                         *)
(* VMPL1 runs one thread.  It is suspended inside pal_svsm_exit or         *)
(* pal_svsm_get_result and resumes when the guest invokes it, so the only  *)
(* concurrency is between the runtime and its caller; what is hard is the  *)
(* long sequence of requests, each of which can fail half way.  A step is  *)
(* one call of the mpk_domain_* or wasm_runtime_* layer with the           *)
(* bookkeeping around it; pc names the place in the code.                  *)
(***************************************************************************)
EXTENDS MpkAllocator

CONSTANTS
  Modules,         \* WASM modules a request may carry
  NoModule,        \* null
  InvokeAfterExit  \* the guest may invoke a trustlet that has exited

ASSUME PalAssumption ==
  /\ NoModule \notin Modules
  /\ InvokeAfterExit \in BOOLEAN

VARIABLES
  pc,             \* control point of VMPL1
  request,        \* what the input channel holds, NoRequest when served
  wasmBuf,        \* g_wasm_buf: the bytecode it holds
  module,         \* g_module
  domainCreated,  \* g_domain_created
  runtimeInit,    \* g_runtime_initialized
  inst,           \* inst of wasmlet_invoke is not null
  execEnv,        \* exec_env of wasmlet_invoke is not null
  callOk,         \* ret = 0 in wasmlet_invoke
  inflated,       \* the runtime has inflated the output channel
  out,            \* the output channel
  reply           \* what the guest was last given

mainVars == <<request, wasmBuf, inflated, out, reply>>
wasmletVars == <<module, domainCreated, runtimeInit>>
invokeVars == <<inst, execEnv, callOk>>
mpkVars == <<allocVars, svsmVars>>
vars == <<pc, mainVars, wasmletVars, invokeVars, mpkVars>>

Requests ==
  [kind : {"load"}, mod : Modules]
    \cup [kind : {"call", "bad", "shutdown"}, mod : {NoModule}]
NoRequest == [kind |-> "none", mod |-> NoModule]

(* Status word, module whose function produced the result word, and the    *)
(* env_hash bytes: absent, written for this request, or left by an earlier *)
(* one.                                                                    *)
Outputs == [status : -1 .. 5, ran : Modules \cup {NoModule},
            hash : {"none", "fresh", "stale"}]
NoOutput == [status |-> -1, ran |-> NoModule, hash |-> "none"]

InDomainPcs == {"loading", "inst", "env", "hash", "call", "fin", "unloading"}
OutsidePcs == {"boot", "init", "idle", "dispatch", "unload", "undomain",
               "alloc", "create", "enterload", "undoload", "enter",
               "destroy", "exited", "spin"}
Pcs == InDomainPcs \cup OutsidePcs \cup {"fault"}

(* VMPL1 is not running: the guest has control. *)
Suspended == {"idle", "exited"}

PalTypeOK ==
  /\ pc \in Pcs
  /\ request \in Requests \cup {NoRequest}
  /\ wasmBuf \in Modules \cup {NoModule}
  /\ module \in Modules \cup {NoModule}
  /\ domainCreated \in BOOLEAN
  /\ runtimeInit \in BOOLEAN
  /\ inst \in BOOLEAN
  /\ execEnv \in BOOLEAN
  /\ callOk \in BOOLEAN
  /\ inflated \in BOOLEAN
  /\ out \in Outputs
  /\ reply \in Outputs

(* Every variable of the runtime has its type; in particular the bump      *)
(* pointer of mpk_region_map stays below MPK_REGION_LIMIT and the free     *)
(* stack within its array.                                                 *)
TypeOK == SvsmTypeOK /\ AllocTypeOK /\ PalTypeOK

Init ==
  /\ SvsmInit
  /\ AllocInit
  /\ pc = "boot"
  /\ request = NoRequest
  /\ wasmBuf = NoModule
  /\ module = NoModule
  /\ domainCreated = FALSE
  /\ runtimeInit = FALSE
  /\ inst = FALSE
  /\ execEnv = FALSE
  /\ callOk = FALSE
  /\ inflated = FALSE
  /\ out = NoOutput
  /\ reply = NoOutput

-----------------------------------------------------------------------------
(* Phase A: pal_heap_init, then wasmlet_runtime_init, then suspend.        *)

PalHeapInit ==
  /\ pc = "boot"
  /\ \/ pc' = "init"
     \/ /\ MayFail("virt_alloc") \/ MayFail("mspace")
        /\ pc' = "exited"
  /\ UNCHANGED <<mainVars, wasmletVars, invokeVars, mpkVars>>

RuntimeInit ==
  /\ pc = "init"
  /\ \E got \in 1 .. PoolSize : \E ks \in KeyGrants(got) :
        AllocatorInit(got, ks)
  /\ runtimeInit' = TRUE
  /\ pc' = "idle"
  /\ UNCHANGED <<mainVars, module, domainCreated, invokeVars>>

RuntimeInitFails ==
  /\ pc = "init"
  /\ \E got \in 0 .. PoolSize, 
         at \in {"pkey_alloc", "virt_alloc", "mspace", "wamr_init"} :
        \E ks \in KeyGrants(got) :
           \E kept \in SUBSET {ks[i] : i \in 1 .. got} :
              AllocatorInitFails(got, ks, kept, at)
  /\ pc' = "exited"
  /\ UNCHANGED <<mainVars, wasmletVars, invokeVars>>

-----------------------------------------------------------------------------
(* The guest.  Invoking a runtime that has left its loop resumes it in the *)
(* while (1) behind pal_svsm_exit.                                         *)
GuestInvoke(r) ==
  /\ \/ pc = "idle" /\ pc' = "dispatch"
     \/ pc = "exited" /\ InvokeAfterExit /\ pc' = "spin"
  /\ request' = r
  /\ reply' = NoOutput
  /\ out' = [out EXCEPT !.hash = IF @ = "fresh" THEN "stale" ELSE @]
  /\ UNCHANGED <<wasmBuf, inflated, wasmletVars, invokeVars, mpkVars>>

(* write_output_channel(status, result), then pal_svsm_get_result.         *)
SendAnswer(status, ran) ==
  LET written == [out EXCEPT !.status = status, !.ran = ran]
  IN /\ inflated' = TRUE
     /\ out' = written
     /\ reply' = written
     /\ request' = NoRequest
     /\ pc' = "idle"

(* Continue at a label without touching the channels. *)
Goto(label) ==
  /\ pc' = label
  /\ UNCHANGED <<request, inflated, out, reply>>

(* A step that reads or writes memory of the domain: without the key in    *)
(* PKRU the access is a page fault that nothing in VMPL1 handles.          *)
Touching(step) ==
  IF domain.pkey \in pkru
  THEN step
  ELSE /\ pc' = "fault"
       /\ UNCHANGED <<mainVars, wasmletVars, invokeVars, mpkVars>>

-----------------------------------------------------------------------------
(* The head of the loop: which mode the request asks for.                  *)

ReceiveShutdown ==
  /\ pc = "dispatch" /\ request.kind = "shutdown"
  /\ Goto(IF wasmBuf # NoModule THEN "unload" ELSE "destroy")
  /\ UNCHANGED <<wasmBuf, wasmletVars, invokeVars, mpkVars>>

(* Mutant: the rejected request is not answered before the loop goes on. *)
MutantRejectName ==
  /\ pc = "dispatch" /\ request.kind = "bad"
  /\ inflated' = TRUE
  /\ out' = [out EXCEPT !.status = 1, !.ran = NoModule]
  /\ UNCHANGED <<pc, request, reply, wasmBuf, wasmletVars, invokeVars, mpkVars>>

RejectName ==
  /\ pc = "dispatch" /\ request.kind = "bad"
  /\ SendAnswer(1, NoModule)
  /\ UNCHANGED <<wasmBuf, wasmletVars, invokeVars, mpkVars>>

ReceiveLoad ==
  /\ pc = "dispatch" /\ request.kind = "load"
  /\ Goto(IF wasmBuf # NoModule THEN "unload" ELSE "alloc")
  /\ UNCHANGED <<wasmBuf, wasmletVars, invokeVars, mpkVars>>

(* Mutant: a call without a loaded module is not rejected. *)
MutantReceiveCall ==
  /\ pc = "dispatch" /\ request.kind = "call"
  /\ Goto("enter")
  /\ UNCHANGED <<wasmBuf, wasmletVars, invokeVars, mpkVars>>

ReceiveCall ==
  /\ pc = "dispatch" /\ request.kind = "call"
  /\ IF wasmBuf = NoModule THEN SendAnswer(5, NoModule) ELSE Goto("enter")
  /\ UNCHANGED <<wasmBuf, wasmletVars, invokeVars, mpkVars>>

-----------------------------------------------------------------------------
(* wasmlet_unload_module, and the pal_free(g_wasm_buf) after it.           *)

(* Where wasmlet_unload_module was called from. *)
AfterUnload == IF request.kind = "load" THEN "alloc" ELSE "destroy"

(* Mutant: wasm_runtime_unload is called without entering the domain. *)
MutantUnloadEnter ==
  /\ pc = "unload"
  /\ Goto("unloading")
  /\ UNCHANGED <<wasmBuf, wasmletVars, invokeVars, mpkVars>>

(* The result of mpk_domain_enter is not looked at. *)
UnloadEnter ==
  /\ pc = "unload"
  /\ IF module = NoModule
     THEN Goto(AfterUnload) /\ wasmBuf' = NoModule /\ UNCHANGED mpkVars
     ELSE /\ Goto("unloading")
          /\ UNCHANGED wasmBuf
          /\ DomainEnter \/ DomainEnterFails
  /\ UNCHANGED <<wasmletVars, invokeVars>>

(* wasm_runtime_unload and the mpk_domain_exit behind it. *)
UnloadModule ==
  /\ pc = "unloading"
  /\ Touching(
       /\ module' = NoModule
       /\ DomainExit
       /\ Goto("undomain")
       /\ UNCHANGED <<wasmBuf, domainCreated, runtimeInit, invokeVars>>)

UnloadDestroy ==
  /\ pc = "undomain"
  /\ DomainDestroy
  /\ domainCreated' = FALSE
  /\ wasmBuf' = NoModule
  /\ Goto(AfterUnload)
  /\ UNCHANGED <<module, runtimeInit, invokeVars>>

-----------------------------------------------------------------------------
(* Mode 1: copy the bytecode, then wasmlet_load_module.                    *)

AllocBuffer ==
  /\ pc = "alloc"
  /\ wasmBuf' = request.mod
  /\ Goto("create")
  /\ UNCHANGED <<wasmletVars, invokeVars, mpkVars>>

AllocBufferFails ==
  /\ pc = "alloc"
  /\ SendAnswer(2, NoModule)
  /\ UNCHANGED <<wasmBuf, wasmletVars, invokeVars, mpkVars>>

(* The early returns of wasmlet_load_module are not taken. *)
CanLoad == runtimeInit /\ module = NoModule

LoadCreate ==
  /\ pc = "create"
  /\ CanLoad
  /\ DomainCreate
  /\ domainCreated' = TRUE
  /\ Goto("enterload")
  /\ UNCHANGED <<wasmBuf, module, runtimeInit, invokeVars>>

LoadCreateFails ==
  /\ pc = "create"
  /\ IF CanLoad THEN DomainCreateFails ELSE UNCHANGED mpkVars
  /\ wasmBuf' = NoModule
  /\ SendAnswer(3, NoModule)
  /\ UNCHANGED <<wasmletVars, invokeVars>>

LoadEnter ==
  /\ pc = "enterload"
  /\ \/ DomainEnter /\ Goto("loading")
     \/ DomainEnterFails /\ Goto("undoload")
  /\ UNCHANGED <<wasmBuf, wasmletVars, invokeVars>>

(* wasm_runtime_load and the mpk_domain_exit behind it. *)
LoadModule ==
  /\ pc = "loading"
  /\ Touching(
       /\ \/ module' = request.mod /\ Goto("enter")
          \/ module' = NoModule /\ Goto("undoload")
       /\ DomainExit
       /\ UNCHANGED <<wasmBuf, domainCreated, runtimeInit, invokeVars>>)

(* Mutant: a module that does not load leaves its domain behind. *)
MutantLoadUndo ==
  /\ pc = "undoload"
  /\ wasmBuf' = NoModule
  /\ SendAnswer(3, NoModule)
  /\ UNCHANGED <<wasmletVars, invokeVars, mpkVars>>

LoadUndo ==
  /\ pc = "undoload"
  /\ DomainDestroy
  /\ domainCreated' = FALSE
  /\ wasmBuf' = NoModule
  /\ SendAnswer(3, NoModule)
  /\ UNCHANGED <<module, runtimeInit, invokeVars>>

-----------------------------------------------------------------------------
(* wasmlet_invoke, for modes 1 and 2.                                      *)

(* The early return of wasmlet_invoke is not taken. *)
CanInvoke == runtimeInit /\ module # NoModule

InvokeEnter ==
  /\ pc = "enter"
  /\ CanInvoke
  /\ DomainEnter
  /\ callOk' = FALSE
  /\ Goto("inst")
  /\ UNCHANGED <<wasmBuf, wasmletVars, inst, execEnv>>

InvokeEnterFails ==
  /\ pc = "enter"
  /\ IF CanInvoke THEN DomainEnterFails ELSE UNCHANGED mpkVars
  /\ SendAnswer(4, NoModule)
  /\ UNCHANGED <<wasmBuf, wasmletVars, invokeVars>>

Instantiate ==
  /\ pc = "inst"
  /\ Touching(
       /\ \/ inst' = TRUE /\ Goto("env")
          \/ inst' = FALSE /\ Goto("fin")
       /\ UNCHANGED <<wasmBuf, wasmletVars, execEnv, callOk, mpkVars>>)

CreateExecEnv ==
  /\ pc = "env"
  /\ Touching(
       /\ \/ execEnv' = TRUE /\ Goto("hash")
          \/ execEnv' = FALSE /\ Goto("fin")
       /\ UNCHANGED <<wasmBuf, wasmletVars, inst, callOk, mpkVars>>)

(* Mutant: the hash is computed once per trustlet. *)
MutantWriteEnvHash ==
  /\ pc = "hash"
  /\ pc' = "call"
  /\ out' = [out EXCEPT !.hash = IF @ = "none" THEN "fresh" ELSE @]
  /\ UNCHANGED <<request, inflated, reply, wasmBuf, wasmletVars, invokeVars,
                 mpkVars>>

(* The env_hash of the fresh instance, straight into the output channel.   *)
WriteEnvHash ==
  /\ pc = "hash"
  /\ pc' = "call"
  /\ out' = [out EXCEPT !.hash = "fresh"]
  /\ UNCHANGED <<request, inflated, reply, wasmBuf, wasmletVars, invokeVars,
                 mpkVars>>

(* Function lookup and call: not found, a trap, or a result. *)
CallFunction ==
  /\ pc = "call"
  /\ Touching(
       /\ callOk' \in BOOLEAN
       /\ Goto("fin")
       /\ UNCHANGED <<wasmBuf, wasmletVars, inst, execEnv, mpkVars>>)

(* Mutant: a failed invocation frees the bytecode, as a failed load does. *)
MutantInvokeCleanup ==
  /\ pc = "fin"
  /\ Touching(
       /\ inst' = FALSE
       /\ execEnv' = FALSE
       /\ DomainExit
       /\ IF callOk THEN SendAnswer(0, module) ELSE SendAnswer(4, NoModule)
       /\ wasmBuf' = IF callOk THEN wasmBuf ELSE NoModule
       /\ UNCHANGED <<wasmletVars, callOk>>)

(* The cleanup label: destroy what was created, leave the domain, answer.  *)
InvokeCleanup ==
  /\ pc = "fin"
  /\ Touching(
       /\ inst' = FALSE
       /\ execEnv' = FALSE
       /\ DomainExit
       /\ IF callOk THEN SendAnswer(0, module) ELSE SendAnswer(4, NoModule)
       /\ UNCHANGED <<wasmBuf, wasmletVars, callOk>>)

-----------------------------------------------------------------------------
(* Mode 3: wasmlet_runtime_destroy and the final pal_svsm_exit(0).         *)
RuntimeDestroy ==
  /\ pc = "destroy"
  /\ IF module # NoModule
     THEN Goto("unload") /\ UNCHANGED <<runtimeInit, mpkVars>>
     ELSE /\ AllocatorDestroy
          /\ runtimeInit' = FALSE
          /\ pc' = "exited"
          /\ request' = NoRequest
          /\ UNCHANGED <<inflated, out, reply>>
  /\ UNCHANGED <<wasmBuf, module, domainCreated, invokeVars>>

-----------------------------------------------------------------------------
PalNext ==
  \/ PalHeapInit \/ RuntimeInit \/ RuntimeInitFails
  \/ ReceiveShutdown \/ RejectName \/ ReceiveLoad \/ ReceiveCall
  \/ UnloadEnter \/ UnloadModule \/ UnloadDestroy
  \/ AllocBuffer \/ AllocBufferFails
  \/ LoadCreate \/ LoadCreateFails \/ LoadEnter \/ LoadModule \/ LoadUndo
  \/ InvokeEnter \/ InvokeEnterFails \/ Instantiate \/ CreateExecEnv
  \/ WriteEnvHash \/ CallFunction \/ InvokeCleanup
  \/ RuntimeDestroy

Next == PalNext \/ \E r \in Requests : GuestInvoke(r)

Spec == Init /\ [][Next]_vars

(* VMPL1 keeps running while it has control; nothing obliges the guest to  *)
(* call again.                                                             *)
FairSpec == Spec /\ WF_vars(PalNext)

-----------------------------------------------------------------------------
(***************************************************************************)
(* Properties.                                                             *)
(***************************************************************************)

(* Whenever the guest has control, no protection key is enabled in PKRU,   *)
(* g_current_msp is not the heap of a domain, and no instance or execution *)
(* environment of an invocation is left: every early return and goto       *)
(* cleanup of load, invoke and unload leaves the domain it entered.        *)
ClosedWhenSuspended ==
  pc \in Suspended =>
    pkru = {} /\ currentMsp # "domain" /\ ~inst /\ ~execEnv

(* WAMR never touches the module's memory while PKRU forbids it: load,     *)
(* instantiate, call, cleanup and unload all run between a successful      *)
(* mpk_domain_enter and its mpk_domain_exit.                               *)
NoDomainFault == pc # "fault"

(* The key pool neither loses nor invents keys: the free stack holds       *)
(* distinct keys of the pool, and together with the key of the live domain *)
(* it holds all of them.                                                   *)
KeyConservation ==
  /\ \A i, j \in 1 .. freeTop : pkeyFree[i] = pkeyFree[j] => i = j
  /\ domain.base # 0 => domain.pkey \notin FreeKeys
  /\ PoolKeys = FreeKeys \cup (IF domain.base # 0 THEN {domain.pkey} ELSE {})

(* While the guest has control the monitor holds exactly one tagged region *)
(* when a module is loaded, the one of its domain, and none otherwise: no  *)
(* failed load leaks its region, no unload leaves one behind.              *)
RegionsAccounted ==
  pc \in Suspended =>
    svsmRegions = IF module # NoModule THEN {<<domain.base, domain.pkey>>}
                                       ELSE {}

(* Regions the monitor still has mapped never overlap the address that the *)
(* next mpk_region_map will use, and no two of them share an address.      *)
RegionsDisjoint ==
  /\ \A r \in svsmRegions : r[1] < nextAddr
  /\ \A r, q \in svsmRegions : r[1] = q[1] => r = q

(* A loaded module always has its bytecode buffer: WAMR keeps pointers     *)
(* into g_wasm_buf, so the buffer is freed only after wasm_runtime_unload, *)
(* on every path that frees it.                                            *)
ModuleBacked == module # NoModule => wasmBuf = module

(* When the runtime has exited, after shutdown or a failed start, it has   *)
(* given all its keys and all its tagged regions back to the monitor.      *)
ReturnedAtExit == pc = "exited" => svsmKeys = {} /\ svsmRegions = {}

(* A successful answer carries the env_hash of the instance that computed  *)
(* it, not the one an earlier request left in the output channel.          *)
FreshEnvHash == reply.status = 0 => reply.hash = "fresh"

(* The promise of PalService, for a guest that sees only the channels.     *)
Service == INSTANCE PalService WITH
  phase <- CASE pc \in {"boot", "init"} -> "booting"
             [] pc \in {"exited", "spin"} -> "stopped"
             [] OTHER -> "serving",
  loaded <- module,
  answer <- [status |-> reply.status, ran |-> reply.ran]
ImplementsService == Service!Spec

(* Every request that reaches the loop of a running trustlet is answered,  *)
(* or ends it when it is the shutdown request.                             *)
EveryRequestServed == pc = "dispatch" ~> pc \in Suspended

(* mpk_domain_create tags memory only with a key that the monitor has      *)
(* allocated to this process and has not been given back.                  *)
AllocatesWithOwnKeys == "alloc_unowned" \notin misuse

=============================================================================
