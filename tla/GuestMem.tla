------------------------------ MODULE GuestMem ------------------------------
(***************************************************************************)
(* Private memory of an SNP guest: the page cache of a guest_memfd         *)
(* (src/host/virt/kvm/guest_memfd.c), the memory attributes that say which *)
(* guest frames are private (kvm_main.c), the nested page table with its   *)
(* invalidation protocol (kvm_main.c, kvm/mmu/mmu.c) and the reverse map   *)
(* table that the hardware checks (sev.c).                                 *)
(*                                                                         *)
(* Threads: every vCPU handles its nested page faults; one thread sets     *)
(* attributes (slots_lock); one punches holes in the file                  *)
(* (filemap_invalidate_lock).  What is done under mmu_lock, or under the   *)
(* lock of a folio, is one step.                                           *)
(*                                                                         *)
(* One memory slot is bound at offset 0 of the file, so that a guest frame *)
(* number is also the index in the file.  Frames form huge pages of HPage. *)
(* Folios are reused once they are neither cached nor referenced.          *)
(***************************************************************************)
EXTENDS Integers, FiniteSets

CONSTANTS VCpu,
          HPage,      \* PTRS_PER_PMD: frames in a huge page
          NPages,     \* frames in the slot, a multiple of HPage
          NFolios,    \* memory of the host
          MaxSet,     \* bound: KVM_SET_MEMORY_ATTRIBUTES
          MaxFile,    \* bound: operations on the file (allocate, punch, close)
          MaxFault    \* bound: faults

ASSUME GuestMemAssumption ==
  /\ HPage \in Nat \ {0} /\ NPages \in Nat \ {0} /\ NPages % HPage = 0
  /\ {NFolios, MaxSet, MaxFile, MaxFault} \subseteq Nat

Gfn == 0 .. NPages - 1
Folio == 1 .. NFolios
NoFolio == 0

Region(g) == {h \in Gfn : h \div HPage = g \div HPage}
Interval == {s \in SUBSET Gfn : s # {} /\
               \A a, b \in s : \A x \in Gfn : a <= x /\ x <= b => x \in s}

Levels == {"4K", "2M"}
Kinds == {"private", "shared"}

VARIABLES
  attr,       \* mem_attr_array: every frame private or shared
  mixed,      \* frames whose huge page has KVM_LPAGE_MIXED_FLAG
  bound,      \* the slot has a guest_memfd
  cache,      \* page cache: the folio at every index
  huge,       \* folios that cover a huge page
  rmp,        \* per folio and frame: "shared", or assigned as "4K" or "2M"
  npt,        \* leaf entry of every frame: what is mapped, where, how large
  inv,        \* mmu_invalidate_in_progress and mmu_invalidate_range
  fault,      \* the fault every vCPU handles
  setter,     \* the thread in kvm_vm_set_mem_attributes
  punch,      \* the thread in kvm_gmem_punch_hole
  stuck,      \* history: <<folio, frame>> whose release has failed
  calls       \* <<attribute changes, file operations, faults>>, for the bounds

vars == <<attr, mixed, bound, cache, huge, rmp, npt, inv, fault, setter,
          punch, stuck, calls>>

Unmapped == [kind |-> "none", folio |-> NoFolio, level |-> "4K"]
NoFault == [pc |-> "guest", gfn |-> 0, kind |-> "shared", moved |-> FALSE,
            folio |-> NoFolio, level |-> "4K"]
IdleSetter == [pc |-> "idle", range |-> {}, to |-> "shared", todo |-> {}]
IdlePunch == [pc |-> "idle", range |-> {}, folio |-> NoFolio, left |-> {}]

FaultSteps == {"guest", "seq", "attr", "pfn", "level", "map",
               "rmp", "psmash", "zap"}

TypeOK ==
  /\ attr \in [Gfn -> Kinds]
  /\ mixed \subseteq Gfn
  /\ bound \in BOOLEAN
  /\ cache \in [Gfn -> Folio \cup {NoFolio}]
  /\ huge \subseteq Folio
  /\ rmp \in [Folio -> [Gfn -> Levels \cup {"shared"}]]
  /\ npt \in [Gfn -> [kind : Kinds \cup {"none"},
                      folio : Folio \cup {NoFolio}, level : Levels]]
  /\ inv \in [count : 0 .. 2, range : SUBSET Gfn]
  /\ fault \in [VCpu -> [pc : FaultSteps, gfn : Gfn, kind : Kinds, moved : BOOLEAN,
                         folio : Folio \cup {NoFolio}, level : Levels]]
  /\ setter \in [pc : {"idle", "store"}, range : SUBSET Gfn, to : Kinds,
                 todo : SUBSET Gfn]
  /\ punch \in [pc : {"idle", "truncate", "release", "end"}, range : SUBSET Gfn,
                folio : Folio \cup {NoFolio}, left : SUBSET Gfn]
  /\ stuck \subseteq Folio \X Gfn
  /\ calls \in (0 .. MaxSet) \X (0 .. MaxFile) \X (0 .. MaxFault)

(* A new guest has only shared memory; most VMMs then make it private      *)
(* before the first vCPU runs.                                             *)
Init ==
  /\ \E k \in Kinds : attr = [g \in Gfn |-> k]
  /\ mixed = {}
  /\ bound = TRUE
  /\ cache = [g \in Gfn |-> NoFolio]
  /\ huge = {}
  /\ rmp = [f \in Folio |-> [g \in Gfn |-> "shared"]]
  /\ npt = [g \in Gfn |-> Unmapped]
  /\ inv = [count |-> 0, range |-> {}]
  /\ fault = [v \in VCpu |-> NoFault]
  /\ setter = IdleSetter
  /\ punch = IdlePunch
  /\ stuck = {}
  /\ calls = <<0, 0, 0>>

-----------------------------------------------------------------------------
(* The invalidation protocol                                               *)

(* The smallest interval that holds both, as kvm_mmu_invalidate_range_add  *)
(* keeps it.                                                               *)
Hull(s) == {x \in Gfn : \E a, b \in s : a <= x /\ x <= b}

(* kvm_mmu_invalidate_begin with kvm_mmu_invalidate_range_add.             *)
InvalidateBegin(i, range) ==
  [i EXCEPT !.count = @ + 1,
            !.range = IF i.count = 0 THEN range ELSE Hull(@ \cup range)]

(* Mutant: an invalidation never ends.                                     *)
InvalidateEndKeepCount(i) == i

(* kvm_mmu_invalidate_end decrements the count and increments              *)
(* mmu_invalidate_seq.  The number is only ever compared with the one a    *)
(* fault has read: "moved" says that it is another one by now.             *)
InvalidateEnd(i) == [i EXCEPT !.count = @ - 1]

HasReadSeq == {"attr", "pfn", "level", "map"}

(* Mutant: the end of an invalidation leaves no trace.                     *)
SeqMovesNever(fs) == fs

SeqMoves(fs) ==
  [v \in VCpu |-> [fs[v] EXCEPT !.moved = @ \/ fs[v].pc \in HasReadSeq]]

(* External: mmu_invalidate_retry_gfn of kvm_host.h.                       *)
Retry(f) == (inv.count > 0 /\ f.gfn \in inv.range) \/ f.moved

(* kvm_unmap_gfn_range: a huge entry goes as a whole.                      *)
Zap(range) ==
  [g \in Gfn |->
     IF g \in range \/ (npt[g].level = "2M" /\ Region(g) \cap range # {})
     THEN Unmapped ELSE npt[g]]

-----------------------------------------------------------------------------
(* The page cache and the reverse map table                                *)

(* Memory the host can use: not in the page cache nor on its way out, and  *)
(* no fault holds a reference.  Mappings hold none.  A frame that is still *)
(* assigned would stop the host when it clears the folio.                  *)
Free == {f \in Folio : /\ \A g \in Gfn : cache[g] # f /\ rmp[f][g] = "shared"
                       /\ \A v \in VCpu : fault[v].folio # f
                       /\ punch.folio # f}

(* filemap_alloc_folio and filemap_add_folio: a huge folio only where the  *)
(* cache has none of its frames.                                           *)
AddFolio(g, f, big) ==
  /\ cache[g] = NoFolio /\ f \in Free /\ \A e \in Free : f <= e
  /\ big => \A h \in Region(g) : cache[h] = NoFolio
  /\ cache' = [h \in Gfn |-> IF h = g \/ (big /\ h \in Region(g))
                             THEN f ELSE cache[h]]
  /\ huge' = IF big THEN huge \cup {f} ELSE huge \ {f}

(* sev_gmem_prepare: a frame that is not assigned yet gets a large entry   *)
(* if the whole large folio is unassigned, else an entry of its own.       *)
Prepare(f, big, g) ==
  LET large == big /\ \A h \in Region(g) : rmp[f][h] = "shared"
  IN IF rmp[f][g] # "shared" THEN rmp
     ELSE [rmp EXCEPT ![f] = [h \in Gfn |->
             CASE large /\ h \in Region(g) -> "2M"
               [] ~large /\ h = g          -> "4K"
               [] OTHER                    -> @[h]]]

(* kvm_gmem_get_folio at index g: find or allocate, then prepare.  Without *)
(* memory for a huge folio a small one is taken.                           *)
GetFolio(g) ==
  \/ /\ cache[g] # NoFolio
     /\ rmp' = Prepare(cache[g], cache[g] \in huge, g)
     /\ UNCHANGED <<cache, huge>>
  \/ \E f \in Folio, big \in BOOLEAN :
       AddFolio(g, f, big) /\ rmp' = Prepare(f, big, g)

(* It returns no folio: there is no memory, or the reverse map table       *)
(* refuses the update; then the folio stays in the cache as it is.         *)
GetFolioFails(g) ==
  /\ UNCHANGED rmp
  /\ \/ /\ cache[g] # NoFolio => rmp[cache[g]][g] = "shared"
        /\ UNCHANGED <<cache, huge>>
     \/ \E f \in Folio, big \in BOOLEAN : AddFolio(g, f, big)

(* The processor splits a large entry.                                     *)
Smashed(f) == [g \in Gfn |-> IF rmp[f][g] = "2M" THEN "4K" ELSE rmp[f][g]]

(* kvm_gmem_allocate (fallocate), one folio; it excludes punching.         *)
Allocate(g) ==
  /\ bound /\ punch.pc = "idle" /\ cache[g] = NoFolio
  /\ calls[2] < MaxFile /\ calls' = [calls EXCEPT ![2] = @ + 1]
  /\ GetFolio(g) \/ GetFolioFails(g)
  /\ UNCHANGED <<attr, mixed, bound, npt, inv, fault, setter, punch, stuck>>

-----------------------------------------------------------------------------
(* Nested page faults: kvm_faultin_pfn, then the mapping under mmu_lock    *)

Goto(v, pc) == fault' = [fault EXCEPT ![v].pc = pc]
Return(v) == fault' = [fault EXCEPT ![v] = NoFault]
OnlyFault == UNCHANGED <<attr, mixed, bound, cache, huge, rmp, npt, inv,
                         setter, punch, stuck, calls>>

(* The guest touches a frame with or without the encryption bit.           *)
Fault(v, g, k) ==
  /\ fault[v].pc = "guest" /\ npt[g].kind # k
  /\ calls[3] < MaxFault /\ calls' = [calls EXCEPT ![3] = @ + 1]
  /\ fault' = [fault EXCEPT ![v] = [NoFault EXCEPT !.pc = "seq", !.gfn = g,
                                                   !.kind = k]]
  /\ UNCHANGED <<attr, mixed, bound, cache, huge, rmp, npt, inv, setter, punch,
                 stuck>>

(* The sequence number is read first; an invalidation in progress that     *)
(* covers the frame makes the fault start again.                           *)
ReadSeq(v) ==
  /\ fault[v].pc = "seq" /\ ~Retry(fault[v])
  /\ fault' = [fault EXCEPT ![v].pc = "attr"]
  /\ OnlyFault

(* __kvm_faultin_pfn: a fault that disagrees with the attributes exits to  *)
(* the VMM (KVM_EXIT_MEMORY_FAULT).                                        *)
CheckAttributes(v) ==
  /\ fault[v].pc = "attr"
  /\ IF fault[v].kind # attr[fault[v].gfn] THEN Return(v)
     ELSE Goto(v, IF fault[v].kind = "private" THEN "pfn" ELSE "map")
  /\ OnlyFault

(* kvm_gmem_get_pfn.  A closed file and a missing folio are errors for the *)
(* VMM.                                                                    *)
GetPfn(v) ==
  /\ fault[v].pc = "pfn"
  /\ \/ /\ bound
        /\ GetFolio(fault[v].gfn)
        /\ fault' = [fault EXCEPT ![v].pc = "level",
                                  ![v].folio = cache'[fault[v].gfn]]
     \/ /\ IF bound THEN GetFolioFails(fault[v].gfn)
           ELSE UNCHANGED <<cache, huge, rmp>>
        /\ Return(v)
  /\ UNCHANGED <<attr, mixed, bound, npt, inv, setter, punch, stuck, calls>>

(* Whether a huge folio may be mapped as such: the index is rounded up,    *)
(* not down, so that only its first frame can if it is the last one of the *)
(* slot.                                                                   *)
WithinSlot(g) == ((g + HPage - 1) \div HPage) * HPage + HPage <= NPages

(* Mutant: the size of the folio decides alone.                            *)
MaxLevelFolioOnly(v) ==
  LET f == fault[v]
  IN /\ f.pc = "level"
     /\ IF rmp[f.folio][f.gfn] = "shared" THEN Return(v)
        ELSE fault' = [fault EXCEPT ![v].pc = "map",
                         ![v].level = IF f.folio \in huge /\ WithinSlot(f.gfn)
                                  THEN "2M" ELSE "4K"]
     /\ OnlyFault

(* sev_gmem_max_level reads the reverse map without a lock.  An entry that *)
(* has been released since is an error for the VMM.                        *)
MaxLevel(v) ==
  LET f == fault[v]
      large == /\ f.folio \in huge /\ WithinSlot(f.gfn)
               /\ rmp[f.folio][f.gfn] = "2M"
  IN /\ f.pc = "level"
     /\ IF rmp[f.folio][f.gfn] = "shared" THEN Return(v)
        ELSE fault' = [fault EXCEPT ![v].pc = "map",
                                    ![v].level = IF large THEN "2M" ELSE "4K"]
     /\ OnlyFault

(* The entry that is written: a huge page unless the attributes in it are  *)
(* mixed.  A smaller entry in a huge one splits it.                        *)
MapEntry(g, e) ==
  [h \in Gfn |->
     IF h = g \/ (e.level = "2M" /\ h \in Region(g)) THEN e
     ELSE IF h \in Region(g) THEN [npt[h] EXCEPT !.level = "4K"]
     ELSE npt[h]]

(* kvm_mmu_hugepage_adjust.  The host maps shared memory as it likes.      *)
MappingLevels(f) ==
  IF f.gfn \in mixed THEN {"4K"}
  ELSE IF f.kind = "shared" THEN Levels ELSE {f.level}

(* is_page_fault_stale.                                                    *)
IsStale(f) == Retry(f)

(* kvm_tdp_mmu_page_fault, the part under mmu_lock.                        *)
Map(v) ==
  LET f == fault[v]
  IN /\ f.pc = "map"
     /\ \/ /\ IsStale(f) /\ UNCHANGED npt
           /\ fault' = [fault EXCEPT ![v] = [NoFault EXCEPT !.pc = "seq",
                           !.gfn = f.gfn, !.kind = f.kind]]
        \/ /\ ~IsStale(f)
           /\ Return(v)
           /\ \E l \in MappingLevels(f) :
                npt' = MapEntry(f.gfn, [kind |-> f.kind, folio |-> f.folio,
                                        level |-> l])
     /\ UNCHANGED <<attr, mixed, bound, cache, huge, rmp, inv, setter, punch,
                    stuck, calls>>

-----------------------------------------------------------------------------
(* RMP faults: handle_rmp_page_fault                                       *)

(* The guest validates a 4K page that the reverse map has as part of a     *)
(* large entry.                                                            *)
RmpFault(v, g) ==
  /\ fault[v].pc = "guest"
  /\ npt[g].kind = "private" /\ rmp[npt[g].folio][g] = "2M"
  /\ fault' = [fault EXCEPT ![v] = [NoFault EXCEPT !.pc = "rmp", !.gfn = g]]
  /\ OnlyFault

(* A frame that is not private, or has no file or no memory, is left      *)
(* alone.                                                                  *)
RmpGetPfn(v) ==
  LET g == fault[v].gfn
  IN /\ fault[v].pc = "rmp"
     /\ \/ /\ attr[g] = "private" /\ bound
           /\ GetFolio(g)
           /\ fault' = [fault EXCEPT ![v].pc = "psmash", ![v].folio = cache'[g]]
        \/ /\ IF attr[g] = "private" /\ bound THEN GetFolioFails(g)
              ELSE UNCHANGED <<cache, huge, rmp>>
           /\ Return(v)
     /\ UNCHANGED <<attr, mixed, bound, npt, inv, setter, punch, stuck, calls>>

(* A large entry is split into small ones, unless the processor has it in  *)
(* use; the mappings go in both cases.                                     *)
Psmash(v) ==
  LET f == fault[v]
  IN /\ f.pc = "psmash"
     /\ IF rmp[f.folio][f.gfn] = "2M"
        THEN /\ \/ UNCHANGED rmp
                \/ rmp' = [rmp EXCEPT ![f.folio] = Smashed(f.folio)]
             /\ Goto(v, "zap")
        ELSE Return(v) /\ UNCHANGED rmp
     /\ UNCHANGED <<attr, mixed, bound, cache, huge, npt, inv, setter, punch,
                    stuck, calls>>

(* kvm_zap_gfn_range from the faulting frame on: begin, zap and end under  *)
(* one hold of mmu_lock.                                                   *)
ZapRange(v) ==
  LET range == {g \in Gfn : fault[v].gfn <= g /\ g < fault[v].gfn + HPage}
  IN /\ fault[v].pc = "zap"
     /\ npt' = Zap(range)
     /\ inv' = InvalidateEnd(InvalidateBegin(inv, range))
     /\ fault' = SeqMoves([fault EXCEPT ![v] = NoFault])
     /\ UNCHANGED <<attr, mixed, bound, cache, huge, rmp, setter, punch, stuck,
                    calls>>

-----------------------------------------------------------------------------
(* KVM_SET_MEMORY_ATTRIBUTES: kvm_vm_set_mem_attributes                    *)

(* The range is invalidated and zapped before anything is stored; nothing  *)
(* is done when it has these attributes already.                           *)
PreSet(range, k) ==
  /\ setter.pc = "idle" /\ \E g \in range : attr[g] # k
  /\ calls[1] < MaxSet /\ calls' = [calls EXCEPT ![1] = @ + 1]
  /\ inv' = InvalidateBegin(inv, range)
  /\ npt' = Zap(range)
  /\ setter' = [pc |-> "store", range |-> range, to |-> k, todo |-> range]
  /\ UNCHANGED <<attr, mixed, bound, cache, huge, rmp, fault, punch, stuck>>

StoreAttribute ==
  /\ setter.pc = "store" /\ setter.todo # {}
  /\ \E g \in setter.todo :
       /\ \A h \in setter.todo : g <= h
       /\ attr' = [attr EXCEPT ![g] = setter.to]
       /\ setter' = [setter EXCEPT !.todo = @ \ {g}]
  /\ UNCHANGED <<mixed, bound, cache, huge, rmp, npt, inv, fault, punch, stuck,
                 calls>>

(* Mutant: a huge page that the range covers in part keeps its flag.       *)
PostMixedWholeOnly(range, k) ==
  mixed \ {g \in range : Region(g) \subseteq range}

(* kvm_arch_post_set_memory_attributes: huge pages the range touches are   *)
(* mixed unless all of their frames have the attribute now.                *)
PostMixed(range, k) ==
  LET touched == {g \in Gfn : Region(g) \cap range # {}}
  IN (mixed \ touched) \cup
     {g \in touched : \E h \in Region(g) : attr[h] # k}

PostSet ==
  /\ setter.pc = "store" /\ setter.todo = {}
  /\ inv' = InvalidateEnd(inv)
  /\ fault' = SeqMoves(fault)
  /\ mixed' = PostMixed(setter.range, setter.to)
  /\ setter' = IdleSetter
  /\ UNCHANGED <<attr, bound, cache, huge, rmp, npt, punch, stuck, calls>>

-----------------------------------------------------------------------------
(* Punching holes and closing the file                                     *)

(* kvm_gmem_invalidate_begin.  Holes consist of whole huge pages: a hole   *)
(* that cuts a huge folio makes the page cache split it, which is not      *)
(* modelled.                                                               *)
PunchBegin(range) ==
  /\ punch.pc = "idle" /\ bound
  /\ \A g \in range : Region(g) \subseteq range
  /\ calls[2] < MaxFile /\ calls' = [calls EXCEPT ![2] = @ + 1]
  /\ inv' = InvalidateBegin(inv, range)
  /\ npt' = Zap(range)
  /\ punch' = [IdlePunch EXCEPT !.pc = "truncate", !.range = range]
  /\ UNCHANGED <<attr, mixed, bound, cache, huge, rmp, fault, setter, stuck>>

(* truncate_inode_pages_range, one folio: it leaves the cache under its    *)
(* lock, and kvm_gmem_free_folio starts to give its frames back.           *)
Truncate(f) ==
  /\ punch.pc = "truncate" /\ \E g \in punch.range : cache[g] = f
  /\ cache' = [g \in Gfn |-> IF cache[g] = f THEN NoFolio ELSE cache[g]]
  /\ punch' = [punch EXCEPT !.pc = "release", !.folio = f,
                            !.left = {g \in Gfn : cache[g] = f}]
  /\ UNCHANGED <<attr, mixed, bound, huge, rmp, npt, inv, fault, setter, stuck,
                 calls>>

(* use_2m_update: the loop is at the first frame of a large entry.         *)
Use2m(g) == /\ rmp[punch.folio][g] = "2M"
            /\ g % HPage = 0 /\ Region(g) \subseteq punch.left

(* Mutant: the size of the folio says how far the loop goes on.            *)
NextPfnByOrder(g) == IF punch.folio \in huge THEN Region(g) ELSE {g}

(* The frames that one round of the loop takes care of.                    *)
NextPfn(g) == IF Use2m(g) THEN Region(g) ELSE {g}

LoopPasses(done) ==
  LET left == punch.left \ done
  IN punch' = IF left # {} THEN [punch EXCEPT !.left = left]
              ELSE [punch EXCEPT !.pc = "truncate", !.folio = NoFolio, !.left = {}]

(* The frame is not assigned, or its entry is not found.                   *)
ReleaseSkips(g) ==
  /\ LoopPasses({g})
  /\ stuck' = IF rmp[punch.folio][g] = "shared" THEN stuck
              ELSE stuck \cup {<<punch.folio, g>>}
  /\ UNCHANGED rmp

(* rmp_make_shared, of the whole large entry or of the frame, which is     *)
(* split off before.                                                       *)
ReleaseFrames(g) ==
  LET f == punch.folio
  IN /\ rmp[f][g] # "shared"
     /\ LoopPasses(NextPfn(g))
     /\ rmp' = [rmp EXCEPT ![f] =
                  [h \in Gfn |-> IF h = g \/ (Use2m(g) /\ h \in Region(g))
                                 THEN "shared" ELSE Smashed(f)[h]]]
     /\ UNCHANGED stuck

(* The update is refused, also because a vCPU has split the large entry    *)
(* since it was read: the frames stay assigned.                            *)
ReleaseFails(g) ==
  LET f == punch.folio
  IN /\ rmp[f][g] # "shared"
     /\ LoopPasses(NextPfn(g))
     /\ rmp' \in IF Use2m(g) THEN {rmp} ELSE {rmp, [rmp EXCEPT ![f] = Smashed(f)]}
     /\ stuck' = stuck \cup ({f} \X NextPfn(g))

(* sev_gmem_invalidate, one round of its loop.                             *)
ReleaseFrame ==
  /\ punch.pc = "release"
  /\ \E g \in punch.left :
       /\ \A h \in punch.left : g <= h
       /\ ReleaseSkips(g) \/ ReleaseFrames(g) \/ ReleaseFails(g)
  /\ UNCHANGED <<attr, mixed, bound, cache, huge, npt, inv, fault, setter, calls>>

(* It ends when it finds no folio any more.                                *)
TruncateDone ==
  /\ punch.pc = "truncate" /\ \A g \in punch.range : cache[g] = NoFolio
  /\ punch' = [punch EXCEPT !.pc = "end"]
  /\ UNCHANGED <<attr, mixed, bound, cache, huge, rmp, npt, inv, fault, setter,
                 stuck, calls>>

(* Mutant: faults on their way do not notice the hole.                     *)
PunchEndUnnoticed ==
  /\ punch.pc = "end"
  /\ inv' = InvalidateEnd(inv)
  /\ punch' = IdlePunch
  /\ UNCHANGED <<attr, mixed, bound, cache, huge, rmp, npt, fault, setter, stuck,
                 calls>>

(* kvm_gmem_invalidate_end.                                                *)
PunchEnd ==
  /\ punch.pc = "end"
  /\ inv' = InvalidateEnd(inv)
  /\ fault' = SeqMoves(fault)
  /\ punch' = IdlePunch
  /\ UNCHANGED <<attr, mixed, bound, cache, huge, rmp, npt, setter, stuck, calls>>

(* kvm_gmem_release: the last reference to the file is gone, so no fault   *)
(* is inside kvm_gmem_get_pfn and nobody punches; slots_lock excludes the  *)
(* setter.  The folios stay until the inode goes.                          *)
Release ==
  /\ bound /\ punch.pc = "idle" /\ setter.pc = "idle"
  /\ calls[2] < MaxFile /\ calls' = [calls EXCEPT ![2] = @ + 1]
  /\ bound' = FALSE
  /\ npt' = Zap(Gfn)
  /\ inv' = InvalidateEnd(InvalidateBegin(inv, Gfn))
  /\ fault' = SeqMoves(fault)
  /\ UNCHANGED <<attr, mixed, cache, huge, rmp, setter, punch, stuck>>

-----------------------------------------------------------------------------
FaultStep(v) == ReadSeq(v) \/ CheckAttributes(v) \/ GetPfn(v) \/ MaxLevel(v)
                \/ Map(v) \/ RmpGetPfn(v) \/ Psmash(v) \/ ZapRange(v)
SetterStep == StoreAttribute \/ PostSet
PunchStep == \/ \E f \in Folio : Truncate(f)
             \/ ReleaseFrame \/ TruncateDone \/ PunchEnd

Next ==
  \/ \E v \in VCpu : \/ \E g \in Gfn : RmpFault(v, g) \/ \E k \in Kinds : Fault(v, g, k)
                     \/ FaultStep(v)
  \/ \E range \in Interval : PunchBegin(range) \/ \E k \in Kinds : PreSet(range, k)
  \/ \E g \in Gfn : Allocate(g)
  \/ SetterStep \/ PunchStep \/ Release

(* Every thread goes on.                                                   *)
Fairness == /\ \A v \in VCpu : WF_vars(FaultStep(v))
            /\ WF_vars(SetterStep) /\ WF_vars(PunchStep)

Spec == Init /\ [][Next]_vars /\ Fairness

-----------------------------------------------------------------------------
(* Properties                                                              *)

(* No private mapping of a folio outlives it: what the guest can reach is  *)
(* what the page cache has at that index, whatever holes are punched while *)
(* a fault is on its way (kvm_main.c:898-922, mmu.c:4500).                 *)
NoStaleMapping ==
  \A g \in Gfn : npt[g].kind = "private" =>
    npt[g].folio = cache[g] \/ ~bound

(* A folio that has left the page cache keeps no frame assigned to the     *)
(* guest, except those whose own update failed: the loop that gives them   *)
(* back passes over no other one, whatever sizes their entries have and    *)
(* vCPUs split meanwhile (sev.c:4986-5040).                                *)
FreedIsShared ==
  \A f \in Folio : (\A g \in Gfn : cache[g] # f) =>
    \A g \in Gfn : \/ rmp[f][g] = "shared"
                   \/ f = punch.folio /\ g \in punch.left
                   \/ <<f, g>> \in stuck

(* Every private mapping is backed by an assigned frame, and a large one   *)
(* by a large entry, except while a split waits for its zap.               *)
MappedIsAssigned ==
  \A g \in Gfn : npt[g].kind = "private" =>
    \/ rmp[npt[g].folio][g] # "shared" /\ (npt[g].level = "2M" =>
          rmp[npt[g].folio][g] = "2M")
    \/ \E v \in VCpu : fault[v].pc = "zap" /\ fault[v].folio = npt[g].folio

(* What a fault maps for its own frame agrees with the attributes at that  *)
(* moment, also when they changed and changed back during the fault.       *)
FaultMapsAttribute ==
  [][\A v \in VCpu : fault[v].pc = "map" /\ fault'[v].pc = "guest"
       => npt'[fault[v].gfn].kind = attr[fault[v].gfn]]_vars

(* The mixed flag is exact whenever no attributes are being changed.       *)
MixedExact ==
  setter.pc = "idle" =>
    mixed = {g \in Gfn : \E h \in Region(g) : attr[h] # attr[g]}

(* A fault ends, with a mapping or with an exit to the VMM, however        *)
(* invalidations of two threads overlap.                                   *)
FaultEnds == \A v \in VCpu : fault[v].pc # "guest" ~> fault[v].pc = "guest"

(* kvm_arch_post_set_memory_attributes: "KVM mustn't create a SHARED       *)
(* hugepage over a range that has PRIVATE GFNs" (mmu.c:7385).              *)
NoSharedHugeOverPrivate ==
  setter.pc = "idle" =>
    \A g \in Gfn : npt[g].kind = "shared" /\ npt[g].level = "2M"
      => attr[g] = "shared"
=============================================================================
