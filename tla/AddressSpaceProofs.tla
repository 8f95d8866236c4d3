------------------------- MODULE AddressSpaceProofs -------------------------
(***************************************************************************)
(* Two mappings share a page only where os_mmap has run past               *)
(* MPK_REGION_BASE into an MPK region, and no other mapping loses its      *)
(* pages or its contents, for every page size, layout and set of sizes.    *)
(***************************************************************************)
EXTENDS AddressSpace, TLAPS

(* Each mapping lies between its allocator's base and its bump pointer.    *)
BelowPointers ==
  /\ \A m \in live : m.owner = "mmap" => /\ MmapBase <= m.lo
                                        /\ m.lo + AlignUp(m.size) <= mmapNext
  /\ \A m \in live : m.owner = "mpk" => /\ MpkBase <= m.lo
                                       /\ m.lo + AlignUp(m.size) <= mpkNext

(* Two mappings in use lie one behind the other. *)
Apart(m, q) ==
  \/ m.lo + AlignUp(m.size) <= q.lo
  \/ q.lo + AlignUp(q.size) <= m.lo

SpaceInv ==
  /\ SpaceTypeOK
  /\ BelowPointers
  /\ \A m, q \in live : m # q /\ m.owner = q.owner => Apart(m, q)

(* align_up returns a size. *)
LEMMA AlignUpType ==
  ASSUME NEW size \in Nat
  PROVE  AlignUp(size) \in Nat
<1>1. (size + PageSize - 1) \div PageSize \in Nat
  BY AddressAssumption, Z3
<1>. QED BY <1>1, AddressAssumption DEF AlignUp

(* Unmapping, and writing to a mapping, leave at most the old mappings.    *)
LEMMA Shrink ==
  ASSUME SpaceInv, live' \subseteq live, UNCHANGED <<mmapNext, mpkNext>>
  PROVE  SpaceInv'
BY DEF SpaceInv, SpaceTypeOK, BelowPointers, Apart, AlignUp, Extent

(* os_mmap and os_mremap add one mapping at the old bump pointer.          *)
LEMMA GrowMmap ==
  ASSUME SpaceInv, NEW size \in Nat, MmapFits(size),
         mmapNext' = mmapNext + AlignUp(size), mpkNext' = mpkNext,
         live' \subseteq live \cup {Mmapped(size)}
  PROVE  SpaceInv'
<1> DEFINE n == Mmapped(size)
<1>1. AlignUp(size) \in Nat
  BY AlignUpType
<1>2. /\ mmapNext \in Int /\ mpkNext \in Int
      /\ MmapBase <= mmapNext /\ mmapNext < Limit
      /\ mmapNext' < Limit
      /\ mmapNext <= mmapNext' /\ mmapNext' \in Int
  BY <1>1, AddressAssumption DEF MmapFits, SpaceInv, SpaceTypeOK
<1>3. /\ n \in Mapping /\ n.owner = "mmap" /\ n.lo = mmapNext
      /\ n.lo + AlignUp(n.size) = mmapNext'
  BY <1>2, AddressAssumption DEF Mmapped, Mapping, Space, MmapFits
<1>4. \A m \in live : /\ m.lo \in Int /\ AlignUp(m.size) \in Nat
                      /\ m.owner \in {"mmap", "mpk"}
  BY AlignUpType, AddressAssumption
     DEF SpaceInv, SpaceTypeOK, Mapping, Space
<1>5. SpaceTypeOK'
  BY <1>2, <1>3, AddressAssumption DEF SpaceInv, SpaceTypeOK, AlignUp
<1>6. BelowPointers'
  <2> HIDE DEF n
  <2>1. \A m \in live : m.owner = "mmap" =>
           /\ MmapBase <= m.lo
           /\ m.lo + AlignUp(m.size) <= mmapNext'
    BY <1>2, <1>4, AddressAssumption DEF SpaceInv, BelowPointers
  <2>2. live' \subseteq live \cup {n}
    BY DEF n
  <2>. QED BY <1>2, <1>3, <2>1, <2>2 DEF SpaceInv, BelowPointers, AlignUp
<1>7. \A m \in live : m.owner = "mmap" => Apart(m, n) /\ Apart(n, m)
  <2> HIDE DEF n
  <2>. QED BY <1>2, <1>3, <1>4, AddressAssumption
            DEF SpaceInv, BelowPointers, Apart
<1>8. (\A m, q \in live : m # q /\ m.owner = q.owner => Apart(m, q))'
  <2> HIDE DEF n
  <2>1. live' \subseteq live \cup {n}
    BY DEF n
  <2>. QED BY <1>3, <1>7, <2>1 DEF SpaceInv, Apart, AlignUp
<1>. QED BY <1>5, <1>6, <1>8 DEF SpaceInv

(* mpk_region_map adds one mapping at its own bump pointer.                *)
LEMMA GrowMpk ==
  ASSUME SpaceInv, MpkRegionMap
  PROVE  SpaceInv'
<1> DEFINE n == [owner |-> "mpk", lo |-> mpkNext, size |-> MpkSize]
<1>0. live' = live \cup {n} /\ mmapNext' = mmapNext
  BY DEF MpkRegionMap
<1>1. AlignUp(MpkSize) \in Nat
  BY AlignUpType, AddressAssumption
<1>2. /\ mpkNext \in Int /\ mmapNext \in Int
      /\ MpkBase <= mpkNext /\ mpkNext < Limit
      /\ mpkNext' < Limit /\ mpkNext <= mpkNext' /\ mpkNext' \in Int
      /\ mpkNext' = mpkNext + AlignUp(MpkSize)
  BY <1>1, AddressAssumption DEF MpkRegionMap, SpaceInv, SpaceTypeOK
<1>3. /\ n \in Mapping /\ n.owner = "mpk" /\ n.lo = mpkNext
      /\ n.lo + AlignUp(n.size) = mpkNext'
  BY <1>2, AddressAssumption DEF Mapping, Space
<1>4. \A m \in live : /\ m.lo \in Int /\ AlignUp(m.size) \in Nat
                      /\ m.owner \in {"mmap", "mpk"}
  BY AlignUpType, AddressAssumption
     DEF SpaceInv, SpaceTypeOK, Mapping, Space
<1> HIDE DEF n
<1>5. SpaceTypeOK'
  BY <1>0, <1>2, <1>3, AddressAssumption DEF SpaceInv, SpaceTypeOK, AlignUp
<1>6. BelowPointers'
  <2>1. \A m \in live : m.owner = "mpk" =>
           /\ MpkBase <= m.lo
           /\ m.lo + AlignUp(m.size) <= mpkNext'
    BY <1>2, <1>4, AddressAssumption DEF SpaceInv, BelowPointers
  <2>. QED BY <1>0, <1>2, <1>3, <2>1 DEF SpaceInv, BelowPointers, AlignUp
<1>7. \A m \in live : m.owner = "mpk" => Apart(m, n) /\ Apart(n, m)
  BY <1>2, <1>3, <1>4, AddressAssumption DEF SpaceInv, BelowPointers, Apart
<1>8. (\A m, q \in live : m # q /\ m.owner = q.owner => Apart(m, q))'
  BY <1>0, <1>3, <1>7 DEF SpaceInv, Apart, AlignUp
<1>. QED BY <1>5, <1>6, <1>8 DEF SpaceInv

(* SpaceInv holds in every state, however far os_mmap runs.                *)
THEOREM SpaceInductive == Spec => []SpaceInv
<1>1. Init => SpaceInv
  BY AddressAssumption DEF Init, SpaceInv, SpaceTypeOK, BelowPointers
<1>2. SpaceInv /\ [Next]_vars => SpaceInv'
  <2> SUFFICES ASSUME SpaceInv, [Next]_vars PROVE SpaceInv'
    OBVIOUS
  <2>1. ASSUME NEW size \in MmapSizes, OsMmap(size) PROVE SpaceInv'
    BY <2>1, GrowMmap, AddressAssumption DEF OsMmap
  <2>2. ASSUME NEW m \in live, OsMunmap(m) PROVE SpaceInv'
    BY <2>2, Shrink DEF OsMunmap
  <2>3. ASSUME NEW m \in live, NEW size \in MmapSizes, OsMremap(m, size)
        PROVE SpaceInv'
    BY <2>3, GrowMmap, AddressAssumption DEF OsMremap
  <2>4. ASSUME MpkRegionMap PROVE SpaceInv'
    BY <2>4, GrowMpk
  <2>5. ASSUME NEW m \in live, MpkRegionFree(m) PROVE SpaceInv'
    BY <2>5, Shrink DEF MpkRegionFree
  <2>6. ASSUME NEW m \in live, Fill(m) PROVE SpaceInv'
    BY <2>6, Shrink DEF Fill
  <2>7. ASSUME UNCHANGED vars PROVE SpaceInv'
    BY <2>7, Shrink DEF vars
  <2>. QED BY <2>1, <2>2, <2>3, <2>4, <2>5, <2>6, <2>7 DEF Next
<1>. QED BY <1>1, <1>2, PTL DEF Spec

(* The bump pointers of os_mmap and mpk_region_map and every mapping stay  *)
(* below the input channel, however far os_mmap runs.                      *)
THEOREM SpaceTypeCorrect == Spec => []SpaceTypeOK
<1>1. Init => SpaceTypeOK
  BY AddressAssumption DEF Init, SpaceTypeOK
<1>2. SpaceTypeOK /\ [Next]_vars => SpaceTypeOK'
  <2> SUFFICES ASSUME SpaceTypeOK, [Next]_vars PROVE SpaceTypeOK'
    OBVIOUS
  <2>1. ASSUME live' \subseteq live, UNCHANGED <<mmapNext, mpkNext>>
        PROVE  SpaceTypeOK'
    BY <2>1 DEF SpaceTypeOK, AlignUp
  <2>2. ASSUME NEW size \in MmapSizes, MmapFits(size),
               mmapNext' = mmapNext + AlignUp(size), mpkNext' = mpkNext,
               live' \subseteq live \cup {Mmapped(size)}
        PROVE  SpaceTypeOK'
    <3>1. size \in Nat \ {0} /\ AlignUp(size) \in Nat
      BY <2>2, AlignUpType, AddressAssumption DEF MmapFits
    <3>2. mmapNext' \in MmapBase .. Limit - 1 /\ mpkNext' \in MpkBase .. Limit - 1
      BY <2>2, <3>1, AddressAssumption DEF MmapFits, SpaceTypeOK
    <3>3. /\ Mmapped(size) \in Mapping
          /\ Mmapped(size).lo + AlignUp(Mmapped(size).size) < Limit
      BY <2>2, <3>1, AddressAssumption
         DEF Mmapped, Mapping, Space, SpaceTypeOK, MmapFits
    <3>. QED BY <2>2, <3>2, <3>3 DEF SpaceTypeOK, AlignUp
  <2>3. ASSUME NEW size \in MmapSizes, OsMmap(size) PROVE SpaceTypeOK'
    BY <2>3, <2>2 DEF OsMmap
  <2>4. ASSUME NEW m \in live, NEW size \in MmapSizes, OsMremap(m, size)
        PROVE  SpaceTypeOK'
    BY <2>4, <2>2 DEF OsMremap
  <2>5. CASE MpkRegionMap
    <3> DEFINE n == [owner |-> "mpk", lo |-> mpkNext, size |-> MpkSize]
    <3>1. AlignUp(MpkSize) \in Nat
      BY AlignUpType, AddressAssumption
    <3>2. /\ mpkNext' = mpkNext + AlignUp(MpkSize) /\ mmapNext' = mmapNext
          /\ mpkNext + AlignUp(MpkSize) < Limit
          /\ live' = live \cup {n}
      BY <2>5 DEF MpkRegionMap
    <3>3. mmapNext' \in MmapBase .. Limit - 1 /\ mpkNext' \in MpkBase .. Limit - 1
      BY <3>1, <3>2, AddressAssumption DEF SpaceTypeOK
    <3>4. n \in Mapping /\ n.lo + AlignUp(n.size) < Limit
      BY <3>2, AddressAssumption DEF Mapping, Space, SpaceTypeOK
    <3> HIDE DEF n
    <3>. QED BY <3>2, <3>3, <3>4 DEF SpaceTypeOK, AlignUp
  <2>6. ASSUME NEW m \in live, OsMunmap(m) \/ MpkRegionFree(m) \/ Fill(m)
        PROVE  SpaceTypeOK'
    BY <2>6, <2>1 DEF OsMunmap, MpkRegionFree, Fill
  <2>7. CASE UNCHANGED vars
    BY <2>7, <2>1 DEF vars
  <2>. QED BY <2>3, <2>4, <2>5, <2>6, <2>7 DEF Next
<1>. QED BY <1>1, <1>2, PTL DEF Spec

-----------------------------------------------------------------------------
(* Contents and pages of the mappings in use                               *)

(* align_up never returns less than it is given. *)
LEMMA AlignUpCovers ==
  ASSUME NEW size \in Nat
  PROVE  AlignUp(size) \in Nat /\ size <= AlignUp(size)
<1> DEFINE x == size + PageSize - 1
           q == x \div PageSize
           r == x % PageSize
<1>1. x \in Nat /\ PageSize \in Nat /\ PageSize > 0
  BY AddressAssumption
<1>2. q \in Int /\ r \in Int /\ x = PageSize * q + r /\ r < PageSize
  BY <1>1, Z3
<1>3. AlignUp(size) = q * PageSize
  BY DEF AlignUp
<1>4. q * PageSize = PageSize * q /\ PageSize * q \in Int
  BY <1>1, <1>2
<1>5. q * PageSize >= size
  <2> DEFINE p == PageSize * q
  <2>1. x = p + r /\ p \in Int
    BY <1>2, <1>4
  <2> HIDE DEF p, q, r
  <2>2. p > size - 1
    BY <1>1, <1>2, <2>1
  <2>. QED BY <1>4, <2>1, <2>2 DEF p
<1>. QED BY <1>3, <1>5, AlignUpType

(* The history variable has an entry for every mapping in use and only for *)
(* those, and memory is a function of the addresses.                       *)
KeptInv ==
  /\ mem = [a \in Space |-> mem[a]]
  /\ kept = [m \in live |-> kept[m]]
  /\ ContentsKept

(* What a mapping in use looks like. *)
LEMMA LiveFacts ==
  ASSUME SpaceTypeOK, NEW m \in live
  PROVE  /\ m.lo \in Int /\ m.size \in Nat \ {0} /\ AlignUp(m.size) \in Nat
         /\ m.size <= AlignUp(m.size) /\ MmapBase <= m.lo
         /\ m.lo + AlignUp(m.size) < Limit
BY AlignUpCovers, AddressAssumption DEF SpaceTypeOK, Mapping, Space

(* A mapping in a range of its own lies apart from every other one.        *)
LEMMA OwnRangeApart ==
  ASSUME SpaceInv, NEW m \in live, NEW q \in live, m # q,
         m.owner = q.owner \/ OwnRange(m)
  PROVE  /\ Apart(m, q) /\ Apart(q, m)
         /\ Extent(m) \cap Extent(q) = {}
<1>1. /\ m.lo \in Int /\ AlignUp(m.size) \in Nat
      /\ q.lo \in Int /\ AlignUp(q.size) \in Nat
      /\ mmapNext \in Int /\ mpkNext \in Int
      /\ m.owner \in {"mmap", "mpk"} /\ q.owner \in {"mmap", "mpk"}
  BY LiveFacts, AddressAssumption DEF SpaceInv, SpaceTypeOK, Mapping
<1>2. CASE m.owner = q.owner
  <2>1. Apart(m, q)
    BY <1>2 DEF SpaceInv
  <2>. QED BY <1>1, <2>1 DEF Apart, Extent
<1>3. CASE m.owner # q.owner /\ OwnRange(m)
  <2>1. Apart(m, q)
    BY <1>1, <1>3, AddressAssumption DEF SpaceInv, BelowPointers, OwnRange, Apart
  <2>. QED BY <1>1, <2>1 DEF Apart, Extent
<1>. QED BY <1>2, <1>3

(* os_mmap, os_munmap, os_mremap and mpk_region_map put two mappings in    *)
(* use on the same page only where an os_mmap mapping reaches beyond       *)
(* MPK_REGION_BASE into an MPK region.                                     *)
THEOREM NoOverlap == Spec => []MappingsDisjoint
<1>1. SpaceInv => MappingsDisjoint
  BY OwnRangeApart DEF MappingsDisjoint
<1>. QED BY <1>1, SpaceInductive, PTL

(* A mapping at a bump pointer: none of those that keep a range of their   *)
(* own reaches into it.                                                    *)
Fresh(n) ==
  /\ n.lo \in Int /\ n.size \in Nat \ {0}
  /\ MmapBase <= n.lo /\ n.lo + AlignUp(n.size) < Limit
  /\ n \notin live
  /\ \A q \in live : OwnRange(q)' => OwnRange(q) /\ Apart(q, n)

LEMMA FreshMmap ==
  ASSUME SpaceInv, NEW size \in Nat, MmapFits(size),
         mmapNext' = mmapNext + AlignUp(size)
  PROVE  LET n == Mmapped(size)
         IN /\ Fresh(n) /\ n.lo = mmapNext /\ n.size = size
            /\ n.owner = "mmap"
<1> DEFINE n == Mmapped(size)
<1>1. AlignUp(size) \in Nat /\ size <= AlignUp(size) /\ size # 0
  BY AlignUpCovers DEF MmapFits
<1>2. /\ mmapNext \in Int /\ MmapBase <= mmapNext
      /\ mmapNext + AlignUp(size) < Limit
  BY <1>1, AddressAssumption DEF MmapFits, SpaceInv, SpaceTypeOK
<1>3. n.owner = "mmap" /\ n.lo = mmapNext /\ n.size = size
  BY DEF Mmapped
<1> HIDE DEF n
<1>4. \A q \in live : /\ q.lo \in Int /\ AlignUp(q.size) \in Nat
                      /\ q.owner \in {"mmap", "mpk"}
  BY LiveFacts DEF SpaceInv, SpaceTypeOK, Mapping
<1>5. ASSUME NEW q \in live, OwnRange(q)' PROVE OwnRange(q) /\ Apart(q, n)
  <2>1. CASE q.owner = "mmap"
    BY <1>1, <1>2, <1>3, <1>4, <1>5, <2>1, AddressAssumption
       DEF SpaceInv, BelowPointers, Apart, OwnRange, AlignUp
  <2>2. CASE q.owner = "mpk"
    BY <1>1, <1>2, <1>3, <1>4, <1>5, <2>2, AddressAssumption
       DEF Apart, OwnRange
  <2>. QED BY <1>4, <2>1, <2>2
<1>6. n \notin live
  BY <1>1, <1>2, <1>3, AddressAssumption DEF SpaceInv, BelowPointers
<1>. QED BY <1>1, <1>2, <1>3, <1>5, <1>6, AddressAssumption DEF Fresh, n

LEMMA FreshMpk ==
  ASSUME SpaceInv, mpkNext + AlignUp(MpkSize) < Limit, mmapNext' = mmapNext
  PROVE  Fresh([owner |-> "mpk", lo |-> mpkNext, size |-> MpkSize])
<1> DEFINE n == [owner |-> "mpk", lo |-> mpkNext, size |-> MpkSize]
<1>1. AlignUp(MpkSize) \in Nat /\ MpkSize <= AlignUp(MpkSize) /\ MpkSize \in Nat \ {0}
  BY AlignUpCovers, AddressAssumption
<1>2. mpkNext \in Int /\ MpkBase <= mpkNext /\ mmapNext \in Int
  BY AddressAssumption DEF SpaceInv, SpaceTypeOK
<1>3. n.owner = "mpk" /\ n.lo = mpkNext /\ n.size = MpkSize
  OBVIOUS
<1> HIDE DEF n
<1>4. \A q \in live : /\ q.lo \in Int /\ AlignUp(q.size) \in Nat
                      /\ q.owner \in {"mmap", "mpk"}
  BY LiveFacts DEF SpaceInv, SpaceTypeOK, Mapping
<1>5. ASSUME NEW q \in live, OwnRange(q)' PROVE OwnRange(q) /\ Apart(q, n)
  <2>1. OwnRange(q)
    BY <1>5 DEF OwnRange, AlignUp
  <2>. QED BY <1>1, <1>2, <1>3, <1>4, <2>1, AddressAssumption
            DEF SpaceInv, BelowPointers, Apart, OwnRange
<1>6. n \notin live
  BY <1>1, <1>2, <1>3, AddressAssumption DEF SpaceInv, BelowPointers
<1>7. Fresh(n)
  BY <1>1, <1>2, <1>3, <1>5, <1>6, AddressAssumption DEF Fresh
<1>. QED BY <1>7 DEF n

(* The bytes of the other mappings lie outside a fresh one. *)
LEMMA FreshBytes ==
  ASSUME SpaceInv, NEW n, Fresh(n), NEW q \in live, OwnRange(q)'
  PROVE  /\ \A i \in 0 .. q.size - 1 : q.lo + i \in Space \ Extent(n)
         /\ Extent(q) \cap Extent(n) = {}
<1>1. /\ q.lo \in Int /\ q.size \in Nat \ {0} /\ AlignUp(q.size) \in Nat
      /\ q.size <= AlignUp(q.size) /\ MmapBase <= q.lo
      /\ q.lo + AlignUp(q.size) < Limit
  BY LiveFacts DEF SpaceInv
<1>2. /\ n.lo \in Int /\ n.size \in Nat \ {0} /\ AlignUp(n.size) \in Nat
      /\ n.size <= AlignUp(n.size) /\ MmapBase <= n.lo
      /\ n.lo + AlignUp(n.size) < Limit
  BY AlignUpCovers DEF Fresh
<1>3. Apart(q, n)
  BY DEF Fresh
<1>. QED BY <1>1, <1>2, <1>3, AddressAssumption DEF Apart, Extent, Space

(* Its own bytes lie in its pages. *)
LEMMA FreshOwn ==
  ASSUME NEW n, Fresh(n)
  PROVE  \A i \in 0 .. n.size - 1 : n.lo + i \in Space /\ n.lo + i \in Extent(n)
<1>2. /\ n.lo \in Int /\ n.size \in Nat \ {0} /\ AlignUp(n.size) \in Nat
      /\ n.size <= AlignUp(n.size) /\ MmapBase <= n.lo
      /\ n.lo + AlignUp(n.size) < Limit
  BY AlignUpCovers DEF Fresh
<1>. QED BY <1>2, AddressAssumption DEF Extent, Space

(* os_mmap and mpk_region_map: the new pages are zero and the others stay. *)
LEMMA GrowKept ==
  ASSUME SpaceInv, KeptInv, LiveStayMapped, NEW n, Fresh(n),
         MonitorMaps(n), mem' = Zeroed(n), live' = live \cup {n},
         kept' = With(n, Zeros(n))
  PROVE  KeptInv' /\ LiveStayMapped'
<1>1. mem' = [a \in Space |-> mem'[a]] /\ kept' = [m \in live' |-> kept'[m]]
  BY DEF Zeroed, With
<1>2. ASSUME NEW m \in live, OwnRange(m)', NEW i \in 0 .. m.size - 1
      PROVE  mem'[m.lo + i] = kept'[m][i]
  <2>1. m.lo + i \in Space \ Extent(n) /\ OwnRange(m)
    BY <1>2, FreshBytes DEF Fresh
  <2>2. mem'[m.lo + i] = mem[m.lo + i]
    BY <2>1 DEF Zeroed
  <2>3. kept'[m] = kept[m]
    BY DEF With, Fresh
  <2>. QED BY <2>1, <2>2, <2>3 DEF KeptInv, ContentsKept
<1>3. ASSUME NEW i \in 0 .. n.size - 1 PROVE mem'[n.lo + i] = kept'[n][i]
  <2>1. n.lo + i \in Space /\ n.lo + i \in Extent(n)
    BY FreshOwn
  <2>2. mem'[n.lo + i] = 0
    BY <2>1 DEF Zeroed
  <2>3. kept'[n] = Zeros(n)
    BY DEF With
  <2>. QED BY <2>2, <2>3 DEF Zeros
<1>4. ContentsKept'
  BY <1>2, <1>3 DEF ContentsKept
<1>5. \A m \in live' : OwnRange(m)' => Extent(m) \subseteq mapped'
  BY DEF LiveStayMapped, MonitorMaps, Fresh
<1>6. LiveStayMapped'
  BY <1>5 DEF LiveStayMapped, Extent, AlignUp
<1>. QED BY <1>1, <1>4, <1>6 DEF KeptInv

(* os_munmap and mpk_domain_destroy take only their own pages away. *)
LEMMA ShrinkKept ==
  ASSUME SpaceInv, KeptInv, LiveStayMapped, NEW m \in live,
         live' = live \ {m}, kept' = Without(m), MonitorUnmaps(m, mapped),
         mem' = mem, mmapNext' = mmapNext
  PROVE  KeptInv' /\ LiveStayMapped'
<1>1. kept' = [q \in live' |-> kept'[q]] /\ \A q \in live' : kept'[q] = kept[q]
  BY DEF Without
<1>0. \A q \in live : OwnRange(q)' <=> OwnRange(q)
  BY DEF OwnRange, AlignUp
<1>2. ContentsKept'
  BY <1>0, <1>1 DEF KeptInv, ContentsKept
<1>3. ASSUME NEW q \in live', OwnRange(q)' PROVE Extent(q) \subseteq mapped'
  <2>1. q \in live /\ q # m /\ OwnRange(q)
    BY <1>0, <1>3
  <2>2. Extent(q) \cap Extent(m) = {}
    BY <2>1, OwnRangeApart
  <2>3. Extent(q) \subseteq mapped
    BY <2>1 DEF LiveStayMapped
  <2>. QED BY <2>2, <2>3 DEF MonitorUnmaps
<1>4. LiveStayMapped'
  BY <1>3 DEF LiveStayMapped, Extent, AlignUp
<1>. QED BY <1>1, <1>2, <1>4 DEF KeptInv

(* os_mremap copies the common prefix into zeroed pages. *)
LEMMA MoveKept ==
  ASSUME SpaceInv, KeptInv, LiveStayMapped,
         NEW old \in live, NEW size \in MmapSizes, OsMremap(old, size)
  PROVE  KeptInv' /\ LiveStayMapped'
<1> DEFINE n == Mmapped(size)
           common == IF old.size < size THEN old.size ELSE size
           data == [i \in 0 .. size - 1 |->
                      IF i < common THEN kept[old][i] ELSE 0]
<1>1. /\ MmapFits(size) /\ live' = (live \ {old}) \cup {n}
      /\ mem' = [a \in Space |-> IF a \in n.lo .. n.lo + common - 1
                                 THEN mem[old.lo + (a - n.lo)] ELSE Zeroed(n)[a]]
      /\ kept' = [q \in live' |-> IF q = n THEN data ELSE kept[q]]
      /\ MonitorUnmaps(old, mapped \cup Extent(n))
      /\ mmapNext' = mmapNext + AlignUp(size) /\ old.owner = "mmap"
  BY DEF OsMremap
<1>2. /\ Fresh(n) /\ n.lo = mmapNext /\ n.size = size /\ size \in Nat
      /\ n.owner = "mmap"
  BY <1>1, FreshMmap, AddressAssumption
<1>3. /\ old.lo \in Int /\ old.size \in Nat \ {0}
  BY LiveFacts DEF SpaceInv
<1>4. /\ common \in Nat /\ common <= size /\ common <= old.size
      /\ n.lo \in Int /\ size \in Nat /\ size <= AlignUp(size)
  BY <1>2, <1>3, AlignUpCovers DEF Fresh
<1>5. \A i \in 0 .. size - 1 : data[i] = IF i < common THEN kept[old][i] ELSE 0
  OBVIOUS
<1> HIDE DEF n, common, data
<1>6. \A a \in n.lo .. n.lo + common - 1 : a \in Extent(n)
  BY <1>2, <1>4, AlignUpCovers DEF Extent
<1>7. ASSUME NEW q \in live, q # old, OwnRange(q)', NEW i \in 0 .. q.size - 1
      PROVE  mem'[q.lo + i] = kept'[q][i]
  <2>1. q.lo + i \in Space \ Extent(n) /\ OwnRange(q)
    BY <1>2, <1>7, FreshBytes DEF Fresh
  <2>2. mem'[q.lo + i] = mem[q.lo + i]
    BY <1>1, <1>6, <2>1 DEF Zeroed
  <2>3. kept'[q] = kept[q]
    BY <1>1, <1>2, <1>7 DEF Fresh
  <2>. QED BY <2>1, <2>2, <2>3 DEF KeptInv, ContentsKept
<1>8. ASSUME n.lo + AlignUp(n.size) <= MpkBase, NEW i \in 0 .. n.size - 1
      PROVE  mem'[n.lo + i] = kept'[n][i]
  <2>0. OwnRange(old)
    <3>2. old.lo + AlignUp(old.size) <= mmapNext /\ AlignUp(old.size) \in Nat
      BY <1>1, LiveFacts DEF SpaceInv, BelowPointers
    <3>3. AlignUp(n.size) \in Nat
      BY <1>2, AlignUpType
    <3>. QED BY <1>1, <1>2, <1>3, <1>4, <1>8, <3>2, <3>3, AddressAssumption DEF OwnRange
  <2>1. n.lo + i \in Space /\ n.lo + i \in Extent(n)
    BY <1>2, FreshOwn
  <2>2. kept'[n][i] = IF i < common THEN kept[old][i] ELSE 0
    BY <1>1, <1>2, <1>5
  <2>3. CASE i < common
    <3>1. n.lo + i \in n.lo .. n.lo + common - 1 /\ (n.lo + i) - n.lo = i
      BY <1>2, <1>4, <2>3
    <3>2. mem'[n.lo + i] = mem[old.lo + i]
      BY <1>1, <2>1, <3>1
    <3>3. i \in 0 .. old.size - 1
      BY <1>2, <1>3, <1>4, <2>3
    <3>. QED BY <2>0, <2>2, <2>3, <3>2, <3>3 DEF KeptInv, ContentsKept
  <2>4. CASE ~(i < common)
    <3>1. n.lo + i \notin n.lo .. n.lo + common - 1
      BY <1>2, <1>4, <2>4
    <3>2. mem'[n.lo + i] = 0
      BY <1>1, <2>1, <3>1 DEF Zeroed
    <3>. QED BY <2>2, <2>4, <3>2
  <2>. QED BY <2>3, <2>4
<1>9. KeptInv'
  <2>1. mem' = [a \in Space |-> mem'[a]] /\ kept' = [m \in live' |-> kept'[m]]
    BY <1>1
  <2>2. ContentsKept'
    <3>1. \A m \in live' : OwnRange(m)' /\ m.owner = "mmap" =>
             m.lo + AlignUp(m.size) <= MpkBase
      BY DEF OwnRange, AlignUp
    <3>2. \A m \in live' : OwnRange(m)' =>
             \A i \in 0 .. m.size - 1 : mem'[m.lo + i] = kept'[m][i]
      BY <1>1, <1>2, <1>7, <1>8, <3>1
    <3>. QED BY <3>2 DEF ContentsKept
  <2>. QED BY <2>1, <2>2 DEF KeptInv
<1>10. LiveStayMapped'
  <2>1. Extent(n) \cap Extent(old) = {}
    <3>1. old.lo + AlignUp(old.size) <= n.lo /\ AlignUp(old.size) \in Nat
      BY <1>1, <1>2, LiveFacts DEF SpaceInv, BelowPointers
    <3>2. AlignUp(n.size) \in Nat
      BY <1>2, AlignUpType
    <3>. QED BY <1>3, <1>4, <3>1, <3>2 DEF Extent
  <2>2. ASSUME NEW q \in live, q # old, OwnRange(q)'
        PROVE  Extent(q) \cap Extent(old) = {} /\ Extent(q) \subseteq mapped
    <3>1. OwnRange(q)
      BY <1>2, <2>2 DEF Fresh
    <3>. QED BY <2>2, <3>1, OwnRangeApart DEF LiveStayMapped
  <2>3. \A q \in live' : OwnRange(q)' => Extent(q) \subseteq mapped'
    BY <1>1, <2>1, <2>2 DEF MonitorUnmaps
  <2>. QED BY <2>3 DEF LiveStayMapped, Extent, AlignUp
<1>. QED BY <1>9, <1>10

(* Writing to a mapping changes no other one. *)
LEMMA FillKept ==
  ASSUME SpaceInv, KeptInv, LiveStayMapped, NEW m \in live, Fill(m)
  PROVE  KeptInv' /\ LiveStayMapped'
<1>1. /\ mem' = [a \in Space |-> IF a \in Bytes(m) THEN 1 ELSE mem[a]]
      /\ kept' = [kept EXCEPT ![m] = [i \in 0 .. m.size - 1 |-> 1]]
      /\ live' = live /\ mapped' = mapped /\ mmapNext' = mmapNext
  BY DEF Fill
<1>2. /\ kept' = [q \in live |-> kept'[q]]
      /\ kept'[m] = [i \in 0 .. m.size - 1 |-> 1]
      /\ \A q \in live : q # m => kept'[q] = kept[q]
  BY <1>1 DEF KeptInv
<1>3. \A q \in live :
         /\ q.lo \in Int /\ q.size \in Nat \ {0} /\ AlignUp(q.size) \in Nat
         /\ q.size <= AlignUp(q.size) /\ MmapBase <= q.lo
         /\ q.lo + AlignUp(q.size) < Limit
  BY LiveFacts DEF SpaceInv
<1>4. ASSUME NEW q \in live, OwnRange(q), NEW i \in 0 .. q.size - 1
      PROVE  q.lo + i \in Space /\ (q.lo + i \in Bytes(m) <=> q = m)
  <2>1. q.lo + i \in Space
    BY <1>3, AddressAssumption DEF Space
  <2>2. CASE q = m
    BY <1>3, <2>1, <2>2 DEF Bytes
  <2>3. CASE q # m
    <3>1. Apart(q, m)
      BY <1>4, <2>3, OwnRangeApart
    <3>. QED BY <1>3, <2>1, <2>3, <3>1 DEF Apart, Bytes
  <2>. QED BY <2>2, <2>3
<1>5. \A q \in live : OwnRange(q)' <=> OwnRange(q)
  BY <1>1 DEF OwnRange, AlignUp
<1>6. ContentsKept'
  BY <1>1, <1>2, <1>4, <1>5 DEF KeptInv, ContentsKept
<1>. QED BY <1>1, <1>2, <1>5, <1>6 DEF KeptInv, LiveStayMapped, Extent, AlignUp

LEMMA KeptInductive == Spec => [](KeptInv /\ LiveStayMapped)
<1> DEFINE Inv == KeptInv /\ LiveStayMapped
<1>1. Init => Inv
  BY DEF Init, KeptInv, ContentsKept, LiveStayMapped
<1>2. SpaceInv /\ Inv /\ [Next]_vars => Inv'
  <2> SUFFICES ASSUME SpaceInv, KeptInv, LiveStayMapped, [Next]_vars
               PROVE  KeptInv' /\ LiveStayMapped'
    OBVIOUS
  <2>1. ASSUME NEW size \in MmapSizes, OsMmap(size)
        PROVE  KeptInv' /\ LiveStayMapped'
    <3>1. Fresh(Mmapped(size))
      BY <2>1, FreshMmap, AddressAssumption DEF OsMmap
    <3>. QED BY <2>1, <3>1, GrowKept DEF OsMmap
  <2>2. ASSUME NEW m \in live, OsMunmap(m) \/ MpkRegionFree(m)
        PROVE  KeptInv' /\ LiveStayMapped'
    BY <2>2, ShrinkKept DEF OsMunmap, MpkRegionFree
  <2>3. ASSUME NEW m \in live, NEW size \in MmapSizes, OsMremap(m, size)
        PROVE  KeptInv' /\ LiveStayMapped'
    BY <2>3, MoveKept
  <2>4. CASE MpkRegionMap
    <3> DEFINE n == [owner |-> "mpk", lo |-> mpkNext, size |-> MpkSize]
    <3>1. /\ mpkNext + AlignUp(MpkSize) < Limit /\ MonitorMaps(n)
          /\ mem' = Zeroed(n) /\ live' = live \cup {n} /\ kept' = With(n, Zeros(n))
          /\ mmapNext' = mmapNext
      BY <2>4 DEF MpkRegionMap
    <3>2. Fresh(n)
      BY <3>1, FreshMpk
    <3> HIDE DEF n
    <3>. QED BY <3>1, <3>2, GrowKept
  <2>5. ASSUME NEW m \in live, Fill(m) PROVE KeptInv' /\ LiveStayMapped'
    BY <2>5, FillKept
  <2>6. CASE UNCHANGED vars
    BY <2>6 DEF vars, KeptInv, ContentsKept, LiveStayMapped, OwnRange, Extent, AlignUp
  <2>. QED BY <2>1, <2>2, <2>3, <2>4, <2>5, <2>6 DEF Next
<1>. QED BY <1>1, <1>2, SpaceInductive, PTL DEF Spec

(* os_mmap, os_mremap and mpk_region_map: no owner loses what it wrote and *)
(* a mapping that moves takes the common prefix with it, as long as no     *)
(* mapping of the other allocator lies on its addresses.                   *)
THEOREM ContentsSafe == Spec => []ContentsKept
<1>1. KeptInv => ContentsKept
  BY DEF KeptInv
<1>. QED BY <1>1, KeptInductive, PTL

(* os_munmap, os_mremap and mpk_domain_destroy never unmap a page of       *)
(* another mapping, unless os_mmap has run over it.                        *)
THEOREM PagesSafe == Spec => []LiveStayMapped
BY KeptInductive, PTL
=============================================================================
