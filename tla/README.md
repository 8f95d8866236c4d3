# Verification of Wallet

Wallet runs serverless functions in an AMD SEV-SNP guest, isolated from the
guest's own kernel by VM privilege levels. The guest (VMPL2) asks a monitor
(SVSM, VMPL0) to create *zygotes* and to fork *trustlets* from them (VMPL1). A
trustlet is a bare-metal program; the one of this repository is a WAMR
WebAssembly runtime that isolates the loaded module with memory protection
keys (MPK). The host runs a modified Linux KVM that switches a vCPU between the
levels. This directory holds TLA+ models of the code, the TLC
configurations that check them and the TLAPS proofs about them.

## 1. Inventory

| Part | Source | State | Operations | Interacts with |
|---|---|---|---|---|
| Runtime main loop | `wamr-pal/wamr_pal_main.c` | `g_wasm_buf`, input and output channel | start-up, load + call, call, shutdown | resumed by the guest through the monitor; calls the module life cycle |
| Module life cycle | `wamr-pal/wasmlet_vmpl1.c` | `g_module`, `g_module_domain`, `g_domain_created`, `g_runtime_initialized` | runtime init/destroy, load, unload, invoke | WAMR; the MPK allocator |
| MPK allocator | `wamr-pal/mpk_allocator_vmpl1.c` | key pool and free stack, bump pointer, default and current heap, domain | init/destroy, domain create/enter/exit/destroy | the monitor's MPK services |
| Monitor calls | `wamr-pal/pal_monitor_call.c` | none | CPUID traps | the monitor |
| PAL heap, mmap layer | `wamr-pal/pal_malloc.c`, `platform/vmpl1/vmpl1_mmap.c` | mspace, bump pointer | malloc/free, mmap/munmap/mremap | share one address space with the MPK regions |
| Threads and locks | `platform/vmpl1/vmpl1_thread.c`, `pal_spinlock.h` | lock words | mutex, rwlock, condition stubs | WAMR |
| C library, SHA-512 | `wamr-pal/pal_string.c`, `sha512_simple.c` | none | string, memory and formatting routines; env_hash | everything in VMPL1 |
| Invocation library | `module/libwallet/src/trustlet.c` | one request page, result buffer, guest file descriptors | create, invoke with retry loop, delete | the driver; serves file requests of the trustlet |
| Zygotes, buffers, attestation | `module/libwallet/src/{zygote,memory,attest}.c` | none | create/delete, page rounding, reports | the driver |
| Kernel driver | `module/src/vmpl.c` | none | one handler per call type | `do_svsm_protocol` |
| Host: levels of a vCPU | `host/kvm/svm/sev.c`, `svm.c`, `x86.c` | per level a VMSA, a GHCB value and an AP creation slot; the VMCB; current and target level | run a level (by GHCB, by MSR, by #VC), AP creation, INIT/SIPI | the vCPU threads meet in the slots and in requests |
| Host: restricted injection | `host/kvm/svm/sev.c`, `lapic.c`, `x86.c` | doorbell page, IRR/ISR, pending NMIs | inject, cancel, EOI, HLT, set/clear doorbell | the page is written by guest and host |
| Host: private memory | `host/virt/kvm/{guest_memfd,kvm_main}.c`, `host/kvm/mmu/mmu.c`, `sev.c` | attributes, page cache, RMP, nested page table, invalidation count, range and sequence number | fault, set attributes, punch, allocate, close, split | vCPU threads, the VMM's ioctls and the file system interleave |
| Monitor (SVSM) | not in this repository | key table, tagged pages, PKRU | MPK services | external |

What is hard inside the guest is not parallelism - VMPL1 is single-threaded and
stands still while the guest runs - but the length of the legal call
sequences. Every request walks through create, enter, load, exit, enter,
instantiate, hash, call, exit, answer; each of these can fail, each failure has
its own undo path, and the state that must be undone is spread over four
owners: the main loop (`g_wasm_buf`), the life cycle (`g_module`,
`g_domain_created`), the allocator (pool, bump pointer, current heap) and the
monitor (keys, pages, PKRU). On the host it is the opposite: short paths, run by
vCPU threads, ioctls and interrupts at the same time, with values read under one
lock and used under another. What makes the parts correct:

* main loop: each request is answered once, with the status that says what
  happened; a call runs the module that was loaded last; the bytecode buffer
  outlives the module; the env_hash belongs to the answered invocation;
* life cycle: WAMR touches domain memory only between a successful enter and
  its exit; whenever the guest has control, the domain is closed;
* allocator: no key is lost or handed out twice; no region is leaked or
  mapped over another one; everything is given back at exit;
* address space: no allocator hands out a page twice, nor one of the other's below
  or above their common border; a mapping keeps its contents through the moves of
  the others;
* input channel: a request is decoded as it was packed, whatever an earlier,
  longer one has left in the channel;
* invocation library: a trustlet finds the answer to what it asked and nothing
  of another request; no file is opened for a process that is gone; every
  invocation returns; a directory is read completely, in order and once;
* driver: an id that reaches the application denotes a process;
* levels of a vCPU: the guest runs on the VMSA of the level the host believes in,
  each level finds its own GHCB value, a replaced VMSA is neither used nor kept
  pinned, no creation request is lost, a #VC of a trustlet reaches the monitor;
* restricted injection: a vector waits in the doorbell until it is taken, and the
  vCPU does not sleep on it;
* private memory: no mapping outlives the memory behind it, the loop that frees
  memory passes over no frame of it, mappings agree with attributes and reverse map.

`PROJECT.json` lists the hazards at their lines.

## 2. Modules

| Module | Models | State and actions |
|---|---|---|
| `SvsmMpk` | the monitor's MPK services (external) | `svsmKeys`, `svsmRegions`, `pkru`; `misuse` is a history variable that records broken interface rules |
| `MpkAllocator` | `mpk_allocator_vmpl1.c` | one variable per global; one operator per function, and one per way it can fail |
| `WamrPal` | `wamr_pal_main.c` and `wasmlet_vmpl1.c` on top of the allocator | `pc` names the place in the code; one action per call of the `mpk_domain_*` or `wasm_runtime_*` layer, with the bookkeeping around it |
| `PalService` | abstract specification: what a caller of the runtime sees | requests, the loaded module, answers |
| `AddressSpace` | `os_mmap`, `os_munmap`, `os_mremap` of `vmpl1_mmap.c` and `mpk_region_map` of the allocator | the two bump pointers, the mappings in use, the bytes; one action per function; `kept` is a history variable |
| `InputChannel` | the packing functions of `module/example/test_wamr.py` and the decoder in the loop of `wamr_pal_main.c` | the channel, a header and a body of which each request overwrites the front |
| `LibWallet` | `trustlet.c`, `zygote.c`, the handlers of `vmpl.c`, the Python objects | process table of the monitor (external), what each trustlet waits for, the page and buffers of one invocation; one action per library call and per request the retry loop serves |
| `DirRead` | the directory branch of the read request in `trustlet.c` | the directory with the position and the bytes of every entry, the position of the descriptor, the locals of the loop and what was delivered; one action per way through the body of the loop |
| `SvmVmpl` | level switches and AP creation in `sev.c`, the vCPU loop around them | the fields of `struct vcpu_svm` per vCPU, pending request and events, page references; one action per exit and per step of the vCPU thread; a level switch has two steps because another vCPU can get in before the mutex is taken |
| `HvDoorbell` | restricted injection: `sev.c` 4127-4345 and its callers | local APIC, NMI counters, doorbell page and what the host remembers of it; `pc` says whether the thread is before injection, before VMRUN, in the guest or blocked |
| `GuestMem` | `guest_memfd.c`, memory attributes and invalidation in `kvm_main.c`, private faults in `mmu.c`, RMP in `sev.c` | one variable per table; every fault, attribute change and hole is a thread with its own steps, down to the rounds of the loop that frees a folio; what happens under `mmu_lock` or a folio lock is one step |
| `MC...` | instances for TLC | |
| `WamrPalProofs`, `AddressSpaceProofs`, `InputChannelProofs`, `LibWalletProofs`, `DirReadProofs`, `HvDoorbellProofs`, `SvmVmplProofs`, `GuestMemProofs` | TLAPS proofs | |

`WamrPal` extends `MpkAllocator`, which extends `SvsmMpk`; it instantiates
`PalService` with a refinement mapping. The other modules stand alone: what
connects them is the shape of a request (`InputChannel` says that its bytes
arrive, `WamrPal` what happens then) and the regions (`AddressSpace` refines the
unit of 4 MB to bytes and adds the second allocator).

Abstractions. A WASM module is a model value. Addresses are counted in
regions of 4 MB, the size of the default heap and of every domain. WAMR's
calls succeed or fail nondeterministically. `Faults` names the monitor calls
(and `mspace`: dlmalloc, `wamr_init`: `wasm_runtime_full_init`) that may be
refused in an instance, so a property can be stated for exactly the failures
the code handles. An access to domain memory without the key in PKRU leads to
`pc = "fault"`, from which nothing continues: VMPL1 has no handler. In `InputChannel` a byte is
written as what it is a byte of, so that a shifted offset shows. `AddressSpace`
and `DirRead` scale pages, buffers and records down to a few bytes. The
operators named `Mutant...` are wrong variants of the definition that follows
them; each property has one that violates it (in the host modules they have
names of their own and a comment that starts with "Mutant").

Host modules. A VMSA, a GHCB and a folio are model values or small numbers; a
huge page has two frames. `SvmVmpl` has the registers of a level only in so far as
they are in the VMSA: the control registers saved in `vssa` follow the same path
as the GHCB value. An address that AP creation refuses stands for all reasons of
refusal, a page outside `Backed` for a missing slot and for a failing
`kvm_gmem_get_pfn`. `said`, `vc` and `due` are history variables. In `GuestMem` the
sequence number is replaced by the flag `moved` of each fault that has read it,
which is all the code compares; `stuck` is a history variable: the frames of a folio
whose lookup or update failed in `sev_gmem_invalidate`. They stay assigned in memory
that is freed. The host would stop when it clears such a folio, so `Free` does not
offer it again. Only the fault on a huge page that the hardware
reports (`RmpFault`) and the loop itself split reverse map entries. In `HvDoorbell` taking the pending
word is one exchange, as the GHCB specification asks of the guest, and every
vector has a priority class of its own.

## 3. Runs

| Run | Instance | Checks |
|---|---|---|
| `pal_service` | 2 modules, pool of 2 out of 3 keys, room for 4 regions, every allocation may fail | type correctness; closed when suspended; no fault; regions accounted for; buffer outlives module; all returned at exit; fresh env_hash; implements `PalService`; every request served |
| `pal_all_faults` | as above, every call may fail, calls after exit | key conservation; regions disjoint |
| `address_space` | pages of 2 bytes, 4 bytes below `MPK_REGION_BASE` and 5 above it, where `os_mmap` may run too | bump pointers below the limit; mappings disjoint except where `os_mmap` has run into an MPK region; contents and pages of all others kept |
| `input_channel` | names of 0 to 6 bytes (longest allowed: 5), 0, 2 or 3 arguments (most: 2), with and without a module | a request within the limits is decoded as sent; more arguments than `argv[]` holds stay out of it |
| `libwallet` | 3 processes, 2 files, pages and buffers of 2 bytes, 2 descriptors, ids from 3 on (request codes), any number of requests per invocation, any creation may be refused and any `pread` fail | answers exact; no file opened for a process that is gone; every invocation returns, but that of a process that is gone and whose id is a request code |
| `dir_read` | all directories of at most 3 entries, which may appear at any time, positions 1, 2 or 3 apart, requests of 0, 2, 3 or 5 bytes | in order and once, between seeks or where positions are bytes; within the count; nothing lost unless the answer is full |
| `svm_vmpl` | 2 vCPUs, 2 levels, one page with memory and one without, 1 GHCB, 2 creations, 3 switches, 1 event, 2 GHCB set-ups | VMCB matches the level; GHCB values stay with their level; page references exact; a CREATE takes effect; a #VC reaches VMPL0; update requests are taken |
| `hv_doorbell` | 2 vectors, 4 interrupts or NMIs, the doorbell cleared, or moved while active, at most once | a waiting vector is remembered, never overwritten, never slept on; NMIs, and requests for the highest vector that come while it is not presented, reach the page |
| `guest_mem` | 2 vCPUs, one huge page of 2 frames, 1 folio, 1 attribute change, 1 file operation, 2 faults | no stale mapping; freed memory shared but for failed updates; mappings assigned; mixed flag exact; faults map what the attributes say and end |
| `pal_keys`, `dir_skip`, `guest_mem_huge` | small instances | one violated property each, see Findings |

Bounds. Two modules are enough to tell "the module loaded now" from "one
loaded before". `PoolSize = 2` is larger than the code's `PKEY_POOL_SIZE = 1`,
so that a free key remains while a domain is live; one key more than the pool
lets the monitor hand out different ones. `AddrLimit = 5` or `6` leaves room
for the default heap and three or four loads, after which the address space is
exhausted: that path is reached too. The sequence of requests is unbounded.
In `AddressSpace`, sizes below, at and above a page, with two pages for
`os_mmap` alone and two that both allocators reach, cover a full space of either
side, mappings across the border and an `os_mmap` that runs over a region or is
overrun by one. `InputChannel` has
every remainder of the name length modulo 4 and one value beyond each limit. In
`LibWallet` three processes are one zygote with two trustlets, so invocations
of two trustlets alternate on the descriptors they share; one file is shorter
than a page and one is longer than the page and the read buffer; `FdLimit` is
reached. The ids 3, 4 and 5 are codes of requests, and a refused creation leaves
an object with id 6, so a process that is gone is taken for each of the four.
`DirRead` has names that fit, that fill the answer and that overflow it, and
directories longer than one `getdents64` batch; its positions agree with the
bytes, lie closer together or farther apart.

`svm_vmpl`: two creations are what it takes to bring a second vCPU up and then
replace its VMSA, or to fill both slots; three switches reach another level and
come back with one refusal; only the boot vCPU creates, as in a guest whose
monitor brings the others up. Two levels leave out VMPL2, whose #VC is handled
like that of VMPL0. `hv_doorbell`: four raises fill the APIC and the page with both
vectors, one of them twice, or add an NMI beyond the limit of two. `guest_mem`: one
attribute change, one file operation and two faults of two vCPUs are all pairs of
racing threads (the split of a large entry is not counted and may come in at any
point); one folio is enough for a huge page that is punched, freed and taken again
(with two, the safety properties hold as well, in 3.1 million states, but the liveness
property takes too long; the theorems are for any number); with one huge page every frame has a neighbour in it. The initial states
have all frames private or all shared. A second attribute change or file
operation takes the run beyond a few minutes.

Process ids. The monitor numbers zygotes and trustlets from one counter. An
ioctl that fails leaves the id in `rcx`, and the library reads it as an
`invocation_return_type`. For a process that is gone and whose id is 3, 4, 5 or 6 the
library therefore serves a request nobody made and repeats the ioctl for ever
(`Phantom`). The assumption behind this is that a refusing monitor leaves `rcx`
alone, which this repository does not settle. `EveryInvocationReturns` names the case
and says that there is no other; `NoPhantomOpen` says that the request nobody
made opens no file, because the page it is read from is empty.

Deadlock is checked in `input_channel` only: the runtime stops for good after
a shutdown, a failed start or a fault; the address space fills up; an
application may stop at any point; a vCPU may be halted with nothing to wake it,
or return to a VMM that gives up. In the host modules `UpdateTaken`,
`HighestGetsThrough` and `FaultEnds` say which threads must go on.

Fairness. `FairSpec` of `WamrPal` adds weak fairness of the runtime's own
steps: while VMPL1 has control it executes. Nothing is assumed of the guest, and
termination of the WASM function is part of the assumption: `CallFunction` is
one step. `FairSpec` of `LibWallet` adds weak fairness of the steps of an
invocation: an ioctl returns and the library runs on. Strong fairness of
`TrustletEnds` says that a trustlet does not ask for ever: its program is not part of
this repository, and a trustlet that did would keep the loop going. Nothing is assumed
of the application. In `SvmVmpl` the vCPU thread runs on while the VMM calls `KVM_RUN`,
and a vCPU with a request leaves the guest, because `kvm_vcpu_kick` sends an IPI.
`HvDoorbell` assumes the same and two things of the environment, both as strong
fairness: an entry is not cancelled for ever (each cancellation has a cause that
goes away), and the guest looks at its doorbell, acknowledges what it serves and
completes its NMIs each time it runs long enough. In `GuestMem` the threads run on;
nothing is assumed of the guest or the VMM.

## 4. Findings

* `pal_keys`: `mpk_domain_destroy` returns the key to the local pool and to the
  monitor. The next domain uses a key the monitor has taken back, and the pool
  is freed a second time at exit.
* `dir_skip`: when the names fill the answer exactly, the loop ends without the
  seek back, and the rest of the batch is never delivered.
  `CompleteUnlessFull` says, and is proved, that this is the only way.
* `guest_mem_huge`: the invalidation around an attribute change covers the frames
  that change, not the rest of their huge page. A fault on a shared neighbour that
  comes after the store and before the mixed flag maps the whole huge page as
  shared, over frames that are private, and nothing takes it away.

Noted without a run:

* `wasmlet_unload_module` (`wasmlet_vmpl1.c:198`) ignores a failed
  `mpk_domain_enter` and unloads without access to the memory: `NoDomainFault` does
  not hold if `Faults` contains `enter_domain`.
* `os_mmap` (`vmpl1_mmap.c:113`) compares its pointer only with the input channel,
  so after 64 GB of allocations it reaches the MPK regions, which a comment says
  it must not (`mpk_allocator_vmpl1.c:79-82`). The run reaches this case.
  `MappingsDisjoint`, `ContentsKept` and `LiveStayMapped` say how far it goes
  (`OwnRange`): only mappings that end beyond `MPK_REGION_BASE`, and regions below
  `mmap_next_addr`, can share pages.
* A directory is sought back by bytes of records (`trustlet.c:174-175`), although the
  comment on `d_off` says "Not an offset" (`trustlet.c:19`). Where the file
  system's positions are no bytes, the next request may begin anywhere before
  the old position. `InOrderOnce` and `CompleteUnlessFull` are stated so that they say what holds
  then: order within what is read between two seeks, and completeness of every request
  that ends without one. They hold through seeks, too, if `ByteOffsets`.
* `invoke_trustlet_bin` repeats the ioctl for ever for a process that is gone and
  whose id is a request code (section 3, Process ids).
* `sev_gmem_invalidate` goes on after a lookup or an update of the reverse map that fails
  (`sev.c:4992`, `5011`, `5018`): the frame stays assigned in memory that goes back to
  the host. A vCPU that splits the large entry between lookup and update makes the
  update of both its frames fail.
* The decoder (`wamr_pal_main.c:319`) clamps `argc` to 16 before it steps over the
  arguments, so behind more of them the module is read from the bytes of argument
  17 on and not from where the protocol comment (lines 57-58) puts it.
  `ArgsFitArgv` says what does hold for such a request: its name and the arguments
  that fit.
* The driver (`vmpl.c:125`) returns `rcx` of a failed creation as a process id
  although it promises -1.
* A refused AP creation (`sev.c:3565`) has already cleared and marked the slot and
  kicks the target, which then loses its VMSA. A vCPU that AP_DESTROY has taken the
  VMSA from is "offline and not runnable" (`sev.c:3411`) but in state HALTED, so an
  interrupt makes it enter with no VMSA and `KVM_RUN` fail.
* A second CREATE for another level of the same vCPU moves the one target level;
  the first waits in its slot until the vCPU switches to that level.
* A request for a vector that is presented already is dropped: when `check_isr` sees
  the vector taken, it clears its bit in the IRR (`kvm_apic_clear_irr`, `sev.c:4237`),
  and the guest serves the vector once for two requests. `HighestGetsThrough`
  leaves this case out.
* With vectors 1 and 2, the EOI meant for 1 can clear 2 in the ISR, because
  the injection puts 2 there before the guest has taken it from the page and the
  EOI write clears the highest (`lapic.c:1462`); 1 then stays in service and later
  requests of it wait for ever.
* After `pal_svsm_exit(0)` the runtime says "Should never reach here", but an exit
  is a suspension and the next invocation resumes behind it in
  `while (1)` (`pc = "spin"`).
* `wasmlet_invoke` writes the env_hash relying on an inflated output channel, which
  the runtime itself inflates only with the status word (`inflated`).

## 5. Proofs

`WamrPalProofs` proves, for all values of the constants and every set of
faults, `TypeCorrect`, `KeysConserved` and `BufferOutlivesModule`. The
properties are not inductive by themselves. The invariant `IndInv` adds to them

* `ControlInv`: what `g_wasm_buf`, `g_module` and the domain are at each place
  of the code. Without it, an unload could be reached with a null domain, a
  load with a live one;
* `PoolInv`: the free stack holds `pkeyTotal` keys, less one while a domain is
  live, and none of them is 0. Without it `pkey_pool_free` could find the stack
  full and drop the key.

There is one lemma per operator of the allocator (what it does to `MpkInv`) and
one lemma per part of `IndInv` with one step per action.

On top of `IndInv`, the same module proves

* `RegionsStayDisjoint` (`RegionsDisjoint`), whatever fails. `RegionStep` says what
  a step can do to the monitor's regions: leave or drop some, or add one at the bump
  pointer while moving the pointer behind it;
* `NoRegionLeaks` (`RegionsAccounted`) and `NothingHeldAtExit` (`ReturnedAtExit`),
  if the monitor does not refuse `free_pkey`: `mpk_domain_destroy` and
  `pkey_pool_destroy` forget a key or region whatever the monitor answers, so with
  that fault both are false. The invariant `HeldInv` says that the
  monitor holds no key outside the pool and exactly the region of the live domain;
  `ControlInv` then gives the places where there is no domain;
* `HashIsFresh` (`FreshEnvHash`), whatever fails. `HashInv` follows `ret` of
  `wasmlet_invoke` and the output channel from the write of the hash to the answer;
* `Refinement` (`ImplementsService`, the specification of `PalService` under the
  refinement mapping), whatever fails. `ServeInv` says which request is
  being served at each place of the code, for `pc` alone does not say whether an
  unload is that of a load or of a shutdown, or an invocation that of a load or of
  a call. `ServiceStep` then takes each action to a step of
  `PalService` or to a stutter.

A last part of the module is about access rights. It proves `ClosedAtSuspension` under the assumption that
`exit_domain` does not fail (the code ignores its result), and `NoFaultTheorem`
if moreover `enter_domain` does not fail (section 4 says what happens when it
does). Its invariant says which keys PKRU enables at each
place, that a loaded module's domain has an mspace, and where an instance can
exist.

`AddressSpaceProofs` proves `SpaceTypeCorrect`, `NoOverlap` (`MappingsDisjoint`),
`ContentsSafe` (`ContentsKept`) and `PagesSafe` (`LiveStayMapped`) for every instance,
however far `os_mmap` runs. `MappingsDisjoint` alone is not inductive: nothing would
keep the bump pointer from standing inside a mapping. The invariant `SpaceInv` adds
that every mapping lies between the base and the bump pointer of its owner. One lemma
says that removing a mapping keeps the invariant, one per allocator that adding one at
its pointer does. `OwnRangeApart` then compares mappings of different owners: one that
ends below `MPK_REGION_BASE`, or a region that starts above `mmap_next_addr`, lies
apart from all others. What a call writes or unmaps lies in its own mapping, rounded
up to pages, so that such mappings keep contents and pages; and a mapping that has
left its own range never comes back into it (`Fresh`). `KeptInv` adds that the history
variable has an entry for just the mappings in use.

`InputChannelProofs` proves `DecodesAsSent` (`DecodedAsSent`) for all limits and
all sets of lengths. The invariant `ChannelInv` says that the header is that of
the request sent last and that the front of the channel is its payload; the
rest may hold anything. The arithmetic fact under it is `SameArgOffset`: the
sender pads the name by itself, the decoder rounds the offset behind the header
up, and the two agree because the header is a multiple of 4 long. `ArgsStayInArgv`
(`ArgsFitArgv`) needs the same facts without the limit on the number of arguments.

`LibWalletProofs` proves `AnswersAreExact` (`AnswerExact`) for all files and all
sizes. It needs no assumption on process ids: a process that is gone may be
served by mistake, but then nobody reads the answer. The
invariant `LibInv` says that between invocations no trustlet waits and during one
only its target (`WaitInv`), that descriptors keep naming the file they were opened
for (`FdInv`), that at the switch the request page holds what the target
waits for (`SwitchInv`), and that the answer fits (`AnswerInv`). `PreadExact` is the fact
on sequences: length and bytes of what `pread` returns. `OpensOnlyForAskers`
(`NoPhantomOpen`) holds for all ids as well: `PhantomInv` says that an invocation of a
process that is gone works on an empty page, which it does because the page is new
for each invocation and no process can go during one; for a live target
`SwitchInv` says that what is served is what the target asked for.

`DirReadProofs` proves the three properties of `DirRead` for directories of any size
and layout that grow while they are read, for any positions the file system gives the
entries, and for all buffer and request sizes: `DeliversInOrder` (`InOrderOnce`),
`AnswerFits` (`WithinCount`) and `LosesOnlyWhenFull` (`CompleteUnlessFull`). `DirRead`
takes the loop step by step, as the code does. The sums of name and record lengths are
then variables of the code (`read_bytes`, `remaining`), and no induction over data is
needed. The heart of `ReadInv` is `LoopInv`: `ptr` lies `remaining` bytes of records
before the end of the batch, where the position of the descriptor is, everything
delivered lies before `ptr`, and everything between the start of the request and `ptr`
has been delivered. With positions that are bytes, the first part takes the
seek back to the start of a record; with others nothing is said of where it leads.
`IdleInv` carries the second part over to the next request, unless such a seek
came in between, and `DirInv` says that records lie one behind the other and positions grow,
which new entries at the end keep.

`HvDoorbellProofs` proves `DoorbellTypeCorrect`, `VectorRemembered`
(`WaitingRemembered`), `AwakeForVector` (`NoSleepOnVector`) and
`VectorNotOverwritten` (`NeverOverwritten`) for every finite set of vectors. `NeverOverwritten`
rests on `WaitingRemembered`: the host looks at its own `presented` flag before
it presents a vector, so the flag has to be set whenever the page holds one. The
invariant `DoorbellInv` adds that a presented vector is a vector (`check_isr`
puts it in service) and that every queued NMI was raised.

`SvmVmplProofs` proves `RunsOnItsVmsa` (`VmcbMatchesVmpl`), `GhcbStaysWithLevel`
(`GhcbKept`) and `VcGoesToMonitor` (`VcReachesMonitor`) for any number of vCPUs,
levels and pages. The invariant `VmplInv` says for every vCPU that the VMCB has
no VMSA or that of the current level, that `GhcbKept` holds, that a switch under
way is to another level than the current one, and where a vCPU with an unseen #VC
can be. The third part is what makes `GhcbKept` inductive: `__sev_run_vmpl_vmsa`
compares the levels before it takes the mutex and swaps the GHCB values
after, and a swap of a level with itself would lose the value in the VMCB. It stays
true in between because other vCPUs write the slots and the target level, never
the current one. There is a lemma per operator on the vCPU state and one
per action; `UntouchedKeeps` deals with all vCPUs but one at once. `VmplInv` needs
only the types of `svm`, `pc`, `new` and `said`. `SlotInv` extends it for
`PinsFollowVmsas` (`PinsExact`), `VmplTypeCorrect` (`TypeOK`: that `pin` stays natural
follows from `PinsExact`) and `CreateIsTaken` (`CreateTakesEffect`). The
first rests on how the set of users of a page changes when one level of one
vCPU gets another VMSA, and so on the set of vCPUs being finite; the last on `DueInv`: a
CREATE not yet looked at is marked in the slot of the target level, and its
vCPU has the update request. `VmplAssumption` names what the code takes for
granted: `INVALID_PAGE` and the VMSA the host allocates are no pages of the guest.

`GuestMemProofs` proves all safety properties of `GuestMem` for every number of
vCPUs, frames and folios and every size of huge pages: `MemTypeCorrect`,
`MappingsFollowCache` (`NoStaleMapping`), `HostGetsSharedMemory` (`FreedIsShared`),
`MappingsAreAssigned` (`MappedIsAssigned`), `MixedFlagExact` (`MixedExact`) and the
action property `MappedAsAttribute` (`FaultMapsAttribute`). None is inductive: a fault
reads attribute, folio and level in separate steps without `mmu_lock`. The
heart of `MemInv` is `FaultInv`: a fault that `is_page_fault_stale` would let pass now has
read what is true now. It holds because the ranges of the setter and of the hole
stay inside `mmu_invalidate_range` for as long as they are counted (`CountInv`,
`SetterInv`, `PunchInv`). `CacheInv` keeps a folio within one huge page, which is
what makes freeing it safe for the frames of the others. `ReleaseInv` is what
`HostGetsSharedMemory` needs: an assigned frame is at its index in the page cache, or
still before the loop of `sev_gmem_invalidate`, or its own round has failed, and the folio in
the loop is out of the page cache and not taken again. `RoundFacts` says what one round
does: the frames it passes are shared or have failed after it, and large entries still
cover a huge page. The splits that vCPUs make between rounds change sizes only. `MapInv` ties each mapping
to the page cache and the reverse map, with the one exception of a split whose zap
is still to come.

Only model-checked: liveness (`EveryRequestServed`, `EveryInvocationReturns`,
`UpdateTaken`, `HighestGetsThrough` and `FaultEnds`, the properties under
fairness), which is out of the prover's reach. Every invariant and every action
property that a passing run checks is proved. The violation runs are about
instances by nature. The other way round, the type invariants of the three host
modules are proved (`VmplTypeCorrect`, `DoorbellTypeCorrect`, `MemTypeCorrect`) and
not checked by a run as well.

## 6. Not modelled, and why

* `src/host` is the KVM of Linux 6.8 with the SEV-SNP host patches and Wallet's
  changes to them, about 100,000 of the 108,000 lines of C in the repository.
  Modelled is the part Wallet rests on: privilege levels, restricted injection and
  private memory, with the parts of `x86.c`, `lapic.c` and `mmu.c` they run through.
  Intel VMX, nested virtualization, the instruction emulator, Hyper-V, Xen, PMU,
  timers, PIC and IOAPIC, shadow paging and dirty logging are third-party code that
  an SNP guest does not run or that Wallet leaves as it is; a model of them would
  say nothing about Wallet. The share of lines the map covers is small for that
  reason.
* SEV VM life cycle: ASIDs, launch and measurement commands, intra-host migration
  and mirrors. The state machine is in the firmware; `kvm->lock` serialises the
  ioctls.
* `SvmVmpl`: destruction of vCPUs (`sev_free_vcpu` keeps the VMSA pages pinned), page
  state changes and guest requests, which leave the level alone. `HvDoorbell`: several
  levels on one vCPU (the doorbell state is per vCPU), exceptions and SMM.
  `GuestMem`: holes that cut a huge folio, memory failure, slots moved or deleted,
  and what the host maps for shared memory, which may be any level.
* The monitor, the kernel behind `kernel.patch` and WAMR are not in this
  repository. They appear by the effects the code relies on; `SvsmMpk`, the
  monitor's side of `LibWallet` and `getdents64` are marked external in the map.
* Mapping onto a page that is mapped already: what the monitor does is unknown,
  so `AddressSpace` says only that it must not happen.
* dlmalloc (`pal_malloc.c`) is third-party code behind a thin layer; an
  allocation succeeds or fails.
* The register conventions of `pal_monitor_call.c`, logging, build files,
  scripts, documentation and the vendored parts.
* Attestation (`attest.c`) passes buffers through and keeps no state.

## 7. Plan

Done, in this order: allocator and life cycle with their abstract service; the
address space; the input channel; the invocation library and the directory
reads; the proofs of section 5; the host's levels, restricted injection and private
memory. Next:

1. The objects behind `mpk_malloc`, `mpk_realloc` and `mpk_free`: each freed in the
   mspace it was allocated from, the fallback to the PAL heap included.
2. The freestanding C library as operators against reference definitions over
   bounded inputs: `memcmp`, `memmove`, `strncpy`, `strtoul`, `bsearch`, `qsort`
   and the width handling of `vsnprintf` in `pal_string.c`; the padding of
   `sha512_simple.c` at block boundaries.
3. The lock layer of `vmpl1_thread.c` and `pal_spinlock.h`: the recursive mutex
   is a plain one, so a second lock by the owner waits for itself.
4. Guest buffers (`memory.c`): the rounding of sizes and what is read beyond a
   buffer that is no multiple of a page.
5. Start and stop of the driver (`module.h`): the steps that are not undone when
   a later one fails.
6. Several processes on one monitor: one key table for trustlets forked from a
   zygote.
7. Restricted injection together with level switches: what a switch between host
   write and guest read does to a vector.
8. Proofs: the invariants of the modules of items 1 to 7, as far as no induction
   over data is needed; every safety property the passing runs check today is
   proved.
