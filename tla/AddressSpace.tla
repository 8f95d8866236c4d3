---------------------------- MODULE AddressSpace ----------------------------
(***************************************************************************)
(* The part of the VMPL1 address space that two bump allocators share:     *)
(* os_mmap of platform/vmpl1/vmpl1_mmap.c hands out addresses from         *)
(* 0x5000000000 upwards, mpk_region_map of mpk_allocator_vmpl1.c from      *)
(* 0x6000000000.  Neither knows of the other; both only check that they    *)
(* stay below the input channel.  Addresses and sizes are in bytes of a    *)
(* scaled-down space with pages of PageSize bytes.                         *)
(***************************************************************************)
EXTENDS Integers, FiniteSets

CONSTANTS
  PageSize,   \* 4096
  MmapBase,   \* initial mmap_next_addr
  MpkBase,    \* MPK_REGION_BASE
  Limit,      \* the input channel at 0x28000000000
  MmapSizes,  \* sizes WAMR asks os_mmap for
  MpkSize     \* size of an MPK region, a multiple of the page size

ASSUME AddressAssumption ==
  /\ PageSize \in Nat \ {0}
  /\ MmapBase \in Nat /\ MpkBase \in Nat /\ Limit \in Nat
  /\ MmapBase < MpkBase /\ MpkBase < Limit
  /\ MmapSizes \subseteq Nat
  /\ MpkSize \in Nat \ {0}

VARIABLES
  mmapNext,  \* mmap_next_addr
  mpkNext,   \* g_mpk_next_addr
  live,      \* mappings in use: owner, first address, size asked for
  mapped,    \* addresses the monitor has backed with pages (external)
  mem,       \* contents of the address space
  kept       \* what each live mapping's owner expects to find (history)

vars == <<mmapNext, mpkNext, live, mapped, mem, kept>>

Space == MmapBase .. Limit - 1
Value == {0, 1}
Mapping == [owner : {"mmap", "mpk"}, lo : Space, size : Nat \ {0}]

AlignUp(size) == ((size + PageSize - 1) \div PageSize) * PageSize

(* The pages of a mapping and the bytes its owner uses. *)
Extent(m) == m.lo .. m.lo + AlignUp(m.size) - 1
Bytes(m) == m.lo .. m.lo + m.size - 1

Init ==
  /\ mmapNext = MmapBase
  /\ mpkNext = MpkBase
  /\ live = {}
  /\ mapped = {}
  /\ mem = [a \in Space |-> 0]
  /\ kept = [m \in {} |-> 0]

-----------------------------------------------------------------------------
(* pal_svsm_virt_alloc or pal_svsm_mpk_alloc.  When one of them refuses,   *)
(* the caller rolls its bump pointer back and nothing has changed.         *)
MonitorMaps(m) == mapped' = mapped \cup Extent(m)

(* Mutant: the last page of the range is included. *)
MutantMonitorUnmaps(m, others) ==
  mapped' \in {others \ (m.lo .. m.lo + AlignUp(m.size)), others}

(* pal_svsm_free or pal_svsm_mpk_free_pkey: done or refused.               *)
MonitorUnmaps(m, others) == mapped' \in {others \ Extent(m), others}

(* The contents after the pages of a mapping are zeroed. *)
Zeroed(m) == [a \in Space |-> IF a \in Extent(m) THEN 0 ELSE mem[a]]

Zeros(m) == [i \in 0 .. m.size - 1 |-> 0]

(* kept without a mapping, and with another one in its place. *)
Without(m) == [q \in live \ {m} |-> kept[q]]
With(m, data) == [q \in live \cup {m} |-> IF q = m THEN data ELSE kept[q]]

Mmapped(size) == [owner |-> "mmap", lo |-> mmapNext, size |-> size]

(* The size check and the address check of os_mmap: nothing keeps it below *)
(* MPK_REGION_BASE.                                                        *)
MmapFits(size) ==
  /\ size # 0
  /\ mmapNext + AlignUp(size) < Limit

(* Mutant: the bump pointer advances by the size before rounding. *)
MutantOsMmap(size) ==
  LET m == Mmapped(size)
  IN /\ MmapFits(size)
     /\ mmapNext' = mmapNext + size
     /\ MonitorMaps(m)
     /\ mem' = Zeroed(m)
     /\ live' = live \cup {m}
     /\ kept' = With(m, Zeros(m))
     /\ UNCHANGED mpkNext

OsMmap(size) ==
  LET m == Mmapped(size)
  IN /\ MmapFits(size)
     /\ mmapNext' = mmapNext + AlignUp(size)
     /\ MonitorMaps(m)
     /\ mem' = Zeroed(m)
     /\ live' = live \cup {m}
     /\ kept' = With(m, Zeros(m))
     /\ UNCHANGED mpkNext

(* os_munmap ignores a failure; the address is not used again either way.  *)
OsMunmap(m) ==
  /\ m.owner = "mmap"
  /\ live' = live \ {m}
  /\ kept' = Without(m)
  /\ MonitorUnmaps(m, mapped)
  /\ UNCHANGED <<mmapNext, mpkNext, mem>>

(* Mutant: the whole old region is copied into a smaller one. *)
MutantOsMremap(old, size) ==
  LET m == Mmapped(size)
      moved == [a \in Space |->
                  IF a \in m.lo .. m.lo + old.size - 1
                  THEN mem[old.lo + (a - m.lo)]
                  ELSE Zeroed(m)[a]]
      data == [i \in 0 .. size - 1 |->
                  IF i < old.size THEN kept[old][i] ELSE 0]
  IN /\ old.owner = "mmap"
     /\ MmapFits(size)
     /\ mmapNext' = mmapNext + AlignUp(size)
     /\ mem' = moved
     /\ live' = (live \ {old}) \cup {m}
     /\ kept' = [q \in live' |-> IF q = m THEN data ELSE kept[q]]
     /\ MonitorUnmaps(old, mapped \cup Extent(m))
     /\ UNCHANGED mpkNext

(* os_mremap: map, copy the common prefix, unmap the old region.           *)
OsMremap(old, size) ==
  LET m == Mmapped(size)
      common == IF old.size < size THEN old.size ELSE size
      moved == [a \in Space |->
                  IF a \in m.lo .. m.lo + common - 1
                  THEN mem[old.lo + (a - m.lo)]
                  ELSE Zeroed(m)[a]]
      data == [i \in 0 .. size - 1 |->
                  IF i < common THEN kept[old][i] ELSE 0]
  IN /\ old.owner = "mmap"
     /\ MmapFits(size)
     /\ mmapNext' = mmapNext + AlignUp(size)
     /\ mem' = moved
     /\ live' = (live \ {old}) \cup {m}
     /\ kept' = [q \in live' |-> IF q = m THEN data ELSE kept[q]]
     /\ MonitorUnmaps(old, mapped \cup Extent(m))
     /\ UNCHANGED mpkNext

(* Mutant: the limit is tested against the address before the addition. *)
MutantMpkRegionMap ==
  LET m == [owner |-> "mpk", lo |-> mpkNext, size |-> MpkSize]
  IN /\ mpkNext < Limit
     /\ mpkNext' = mpkNext + AlignUp(MpkSize)
     /\ MonitorMaps(m)
     /\ mem' = Zeroed(m)
     /\ live' = live \cup {m}
     /\ kept' = With(m, Zeros(m))
     /\ UNCHANGED mmapNext

(* mpk_region_map with a key: the monitor zeroes the pages it adds.        *)
MpkRegionMap ==
  LET m == [owner |-> "mpk", lo |-> mpkNext, size |-> MpkSize]
  IN /\ mpkNext + AlignUp(MpkSize) < Limit
     /\ mpkNext' = mpkNext + AlignUp(MpkSize)
     /\ MonitorMaps(m)
     /\ mem' = Zeroed(m)
     /\ live' = live \cup {m}
     /\ kept' = With(m, Zeros(m))
     /\ UNCHANGED mmapNext

(* The region is given back with the domain's key by mpk_domain_destroy.   *)
MpkRegionFree(m) ==
  /\ m.owner = "mpk"
  /\ live' = live \ {m}
  /\ kept' = Without(m)
  /\ MonitorUnmaps(m, mapped)
  /\ UNCHANGED <<mmapNext, mpkNext, mem>>

(* An owner fills its mapping. *)
Fill(m) ==
  /\ mem' = [a \in Space |-> IF a \in Bytes(m) THEN 1 ELSE mem[a]]
  /\ kept' = [kept EXCEPT ![m] = [i \in 0 .. m.size - 1 |-> 1]]
  /\ UNCHANGED <<mmapNext, mpkNext, live, mapped>>

Next ==
  \/ \E size \in MmapSizes : OsMmap(size)
  \/ \E m \in live : OsMunmap(m)
  \/ \E m \in live, size \in MmapSizes : OsMremap(m, size)
  \/ MpkRegionMap
  \/ \E m \in live : MpkRegionFree(m)
  \/ \E m \in live : Fill(m)

Spec == Init /\ [][Next]_vars
-----------------------------------------------------------------------------
(* Every variable has its type, the bump pointers stay below the input     *)
(* channel, and no mapping reaches it.                                     *)
SpaceTypeOK ==
  /\ mmapNext \in MmapBase .. Limit - 1
  /\ mpkNext \in MpkBase .. Limit - 1
  /\ live \subseteq Mapping
  /\ \A m \in live : m.lo + AlignUp(m.size) < Limit

(* The addresses of a mapping are its allocator's alone: an os_mmap        *)
(* mapping that ends below MPK_REGION_BASE, an MPK region that os_mmap has *)
(* not reached yet.                                                        *)
OwnRange(m) ==
  IF m.owner = "mmap" THEN m.lo + AlignUp(m.size) <= MpkBase
                      ELSE mmapNext <= m.lo

(* The mappings of one allocator never share a page, and those of both do  *)
(* only where os_mmap has run past MPK_REGION_BASE, which neither bump     *)
(* pointer's check prevents: a mapping below that address, or an MPK       *)
(* region above mmap_next_addr, shares none of its pages.                  *)
MappingsDisjoint ==
  \A m, q \in live :
    m # q /\ (m.owner = q.owner \/ OwnRange(m)) => Extent(m) \cap Extent(q) = {}

(* An owner finds in its mapping what it put there, through any number of  *)
(* maps, unmaps and moves of other mappings, and a moved mapping keeps the *)
(* prefix that fits: also when os_mmap maps over other MPK regions.        *)
ContentsKept ==
  \A m \in live : OwnRange(m) =>
    \A i \in 0 .. m.size - 1 : mem[m.lo + i] = kept[m][i]

(* The pages of a mapping in use stay mapped: unmapping one region never   *)
(* takes pages of another away, unless os_mmap has run over it.            *)
LiveStayMapped == \A m \in live : OwnRange(m) => Extent(m) \subseteq mapped
=============================================================================
