--------------------------- MODULE GuestMemProofs ---------------------------
(***************************************************************************)
(* Proofs about GuestMem, for every number of vCPUs, frames and folios,    *)
(* every size of huge pages and every interleaving of faults, attribute    *)
(* changes and holes.                                                      *)
(***************************************************************************)
EXTENDS GuestMem, TLAPS

(* The invalidations in progress are those of the setter and of the hole,  *)
(* and each of the two keeps its frames in mmu_invalidate_range.           *)
CountInv ==
  inv.count = (IF setter.pc = "store" THEN 1 ELSE 0)
              + (IF punch.pc = "idle" THEN 0 ELSE 1)

(* The setter: what it has stored, and the flag of the huge pages that it  *)
(* does not touch.                                                         *)
SetterInv ==
  /\ setter.pc = "idle" => setter = IdleSetter
  /\ setter.range \subseteq inv.range \/ setter.pc = "idle"
  /\ setter.todo \subseteq setter.range
  /\ \A g \in setter.range \ setter.todo : attr[g] = setter.to
  /\ \A g \in Gfn : Region(g) \cap setter.range = {} =>
       (g \in mixed <=> \E h \in Region(g) : attr[h] # attr[g])

(* The hole consists of huge pages, and nothing private is mapped in it    *)
(* from the zap on.                                                        *)
PunchInv ==
  /\ punch.pc = "idle" => punch.range = {}
  /\ punch.range \subseteq inv.range \/ punch.pc = "idle"
  /\ \A g \in punch.range : Region(g) \subseteq punch.range
  /\ \A g \in punch.range : npt[g].kind # "private"

(* A folio lies in one huge page, also while only a fault refers to it; a  *)
(* huge folio covers its huge page; large entries of the reverse map cover *)
(* a huge page.                                                            *)
OneRegion ==
  /\ \A g, h \in Gfn : cache[g] = cache[h] /\ cache[g] # NoFolio => h \in Region(g)
  /\ \A v \in VCpu, g \in Gfn :
       cache[g] = fault[v].folio /\ cache[g] # NoFolio => g \in Region(fault[v].gfn)

HugeCovers ==
  \A g \in Gfn : cache[g] \in huge => \A h \in Region(g) : cache[h] = cache[g]

LargeEntries ==
  \A f \in Folio, g \in Gfn : rmp[f][g] = "2M" =>
    \A h \in Region(g) : rmp[f][h] = "2M"

CacheInv == OneRegion /\ HugeCovers /\ LargeEntries

(* A large entry of folio f has been split and its mappings still have to  *)
(* go.                                                                     *)
Splitting(f) == \E w \in VCpu : fault[w].pc = "zap" /\ fault[w].folio = f

(* A fault that is_page_fault_stale would let pass has what is true now.   *)
FaultOK(f) ==
  /\ f.pc \in {"pfn", "level", "map"} => f.kind = attr[f.gfn]
  /\ f.pc \in {"level", "map"} /\ f.kind = "private" =>
       bound /\ f.folio \in Folio /\ f.folio = cache[f.gfn]
  /\ f.pc = "map" /\ f.kind = "private" =>
       /\ rmp[f.folio][f.gfn] # "shared"
       /\ f.level = "2M" =>
            /\ f.folio \in huge
            /\ \A h \in Region(f.gfn) : rmp[f.folio][h] # "shared"
            /\ rmp[f.folio][f.gfn] = "2M" \/ Splitting(f.folio)

FaultInv == \A v \in VCpu : Retry(fault[v]) \/ FaultOK(fault[v])

(* What the nested page table may hold.                                    *)
EntryOK(g) ==
  /\ bound /\ npt[g].folio \in Folio /\ npt[g].folio = cache[g]
  /\ rmp[npt[g].folio][g] # "shared"
  /\ npt[g].level = "2M" => \/ rmp[npt[g].folio][g] = "2M"
                            \/ Splitting(npt[g].folio)

MapInv == \A g \in Gfn : npt[g].kind = "private" => EntryOK(g)

(* While sev_gmem_invalidate runs, its folio is out of the page cache.     *)
(* Assigned frames are at their index in the cache, or still to be given   *)
(* back, or their update failed.                                           *)
ReleaseInv ==
  /\ punch.pc # "release" => punch.folio = NoFolio /\ punch.left = {}
  /\ punch.pc = "release" => punch.folio # NoFolio
  /\ punch.folio # NoFolio => \A g \in Gfn : cache[g] # punch.folio
  /\ \A f \in Folio, g \in Gfn : \/ rmp[f][g] = "shared" \/ cache[g] = f
                                 \/ (f = punch.folio /\ g \in punch.left)
                                 \/ <<f, g>> \in stuck

MemInv == /\ TypeOK /\ CountInv /\ SetterInv /\ PunchInv
          /\ CacheInv /\ FaultInv /\ MapInv /\ ReleaseInv

-----------------------------------------------------------------------------
(* Facts about the operators                                               *)

FaultRec == [pc : FaultSteps, gfn : Gfn, kind : Kinds, moved : BOOLEAN,
             folio : Folio \cup {NoFolio}, level : Levels]
EntryRec == [kind : Kinds \cup {"none"}, folio : Folio \cup {NoFolio},
             level : Levels]
InvRec == [count : 0 .. 2, range : SUBSET Gfn]
BegunRec == [count : 1 .. 3, range : SUBSET Gfn]

LEMMA RegionFacts ==
  ASSUME NEW g \in Gfn
  PROVE  /\ Region(g) \subseteq Gfn /\ g \in Region(g)
         /\ \A h \in Region(g) : Region(h) = Region(g)
         /\ \A h \in Gfn : g \in Region(h) => h \in Region(g)
PROOF BY DEF Region

LEMMA Facts == /\ 0 \in Gfn /\ NoFault \in FaultRec /\ Unmapped \in EntryRec
               /\ NoFolio \notin Folio /\ HPage \in Nat \ {0}
PROOF
  <1>1. 0 \in Gfn /\ HPage \in Nat \ {0}
    BY GuestMemAssumption DEF Gfn
  <1>2. NoFolio \notin Folio
    BY DEF NoFolio, Folio
  <1>3. NoFault \in FaultRec
    BY <1>1 DEF NoFault, FaultRec, FaultSteps, Kinds, Levels
  <1>4. Unmapped \in EntryRec
    BY DEF Unmapped, EntryRec, Levels
  <1> QED BY <1>1, <1>2, <1>3, <1>4

LEMMA HullFacts ==
  ASSUME NEW s \in SUBSET Gfn
  PROVE  s \subseteq Hull(s) /\ Hull(s) \subseteq Gfn
PROOF BY DEF Hull, Gfn

(* The range grows while an invalidation is in progress.                   *)
LEMMA BeginFacts ==
  ASSUME NEW i \in InvRec, NEW range \in SUBSET Gfn
  PROVE  LET b == InvalidateBegin(i, range)
         IN /\ b.count = i.count + 1 /\ range \subseteq b.range
            /\ b \in BegunRec
            /\ i.count > 0 => i.range \subseteq b.range
            /\ i.count < 2 => b \in InvRec
PROOF
  <1> DEFINE b == InvalidateBegin(i, range)
             r == IF i.count = 0 THEN range ELSE Hull(i.range \cup range)
  <1>1. b = [i EXCEPT !.count = i.count + 1, !.range = r]
    BY DEF InvalidateBegin
  <1>2. i.range \in SUBSET Gfn /\ i.count \in 0 .. 2
    BY DEF InvRec
  <1>3. r \in SUBSET Gfn /\ range \subseteq r /\ (i.count > 0 => i.range \subseteq r)
    <2>1. i.range \cup range \in SUBSET Gfn
      BY <1>2
    <2> QED BY <1>2, <2>1, HullFacts
  <1> HIDE DEF r
  <1>4. b.count = i.count + 1 /\ b.range = r
    BY <1>1 DEF InvRec
  <1>5. b \in BegunRec
    <2>1. i.count + 1 \in 1 .. 3
      BY <1>2
    <2> HIDE DEF b
    <2> QED BY <1>1, <1>3, <2>1 DEF InvRec, BegunRec
  <1>6. i.count < 2 => b \in InvRec
    <2> HIDE DEF b
    <2> QED BY <1>2, <1>4, <1>5 DEF InvRec, BegunRec
  <1> QED BY <1>3, <1>4, <1>5, <1>6

LEMMA EndFacts ==
  ASSUME NEW i \in BegunRec
  PROVE  /\ InvalidateEnd(i) \in InvRec
         /\ InvalidateEnd(i).count = i.count - 1
         /\ InvalidateEnd(i).range = i.range
PROOF
  BY DEF InvalidateEnd, InvRec, BegunRec

LEMMA BeginEndFacts ==
  ASSUME NEW i \in InvRec, NEW range \in SUBSET Gfn
  PROVE  LET e == InvalidateEnd(InvalidateBegin(i, range))
         IN /\ e \in InvRec /\ e.count = i.count
            /\ i.count > 0 => i.range \subseteq e.range
PROOF
  <1> DEFINE b == InvalidateBegin(i, range)
  <1>1. /\ b.count = i.count + 1 /\ b \in BegunRec
        /\ i.count > 0 => i.range \subseteq b.range
    BY BeginFacts
  <1> HIDE DEF b
  <1>4. InvalidateEnd(b) \in InvRec /\ InvalidateEnd(b).count = b.count - 1
        /\ InvalidateEnd(b).range = b.range
    BY <1>1, EndFacts
  <1>5. b.count - 1 = i.count
    BY <1>1 DEF InvRec
  <1> QED BY <1>1, <1>4, <1>5 DEF b

LEMMA SeqMovesFacts ==
  ASSUME NEW fs \in [VCpu -> FaultRec]
  PROVE  /\ SeqMoves(fs) \in [VCpu -> FaultRec]
         /\ \A v \in VCpu : LET m == SeqMoves(fs)[v]
              IN /\ m.pc = fs[v].pc /\ m.gfn = fs[v].gfn /\ m.kind = fs[v].kind
                 /\ m.folio = fs[v].folio /\ m.level = fs[v].level
                 /\ fs[v].pc \in HasReadSeq => m.moved
PROOF
  BY DEF SeqMoves, FaultRec

LEMMA ZapFacts ==
  ASSUME npt \in [Gfn -> EntryRec], NEW range
  PROVE  /\ Zap(range) \in [Gfn -> EntryRec]
         /\ \A g \in Gfn : Zap(range)[g] \in {npt[g], Unmapped}
         /\ \A g \in range \cap Gfn : Zap(range)[g] = Unmapped
         /\ \A g \in Gfn : npt[g].level = "2M" /\ Region(g) \cap range # {}
                             => Zap(range)[g] = Unmapped
PROOF
  BY Facts DEF Zap

LEMMA MapEntryFacts ==
  ASSUME npt \in [Gfn -> EntryRec], NEW g \in Gfn, NEW e \in EntryRec
  PROVE  LET m == MapEntry(g, e)
         IN /\ m \in [Gfn -> EntryRec] /\ m[g] = e
            /\ \A h \in Gfn : \/ m[h] = e /\ (h = g \/ (e.level = "2M" /\ h \in Region(g)))
                              \/ m[h] = npt[h]
                              \/ m[h] = [npt[h] EXCEPT !.level = "4K"]
PROOF
  <1>1. \A h \in Gfn : [npt[h] EXCEPT !.level = "4K"] \in EntryRec
    BY DEF EntryRec, Levels
  <1> QED BY <1>1 DEF MapEntry

-----------------------------------------------------------------------------
(* The page cache                                                          *)

CacheTypes ==
  /\ cache \in [Gfn -> Folio \cup {NoFolio}]
  /\ huge \subseteq Folio
  /\ rmp \in [Folio -> [Gfn -> Levels \cup {"shared"}]]

(* What an allocation does to the page cache.                              *)
LEMMA AddFolioFacts ==
  ASSUME CacheTypes, NEW g \in Gfn, NEW f \in Folio, NEW big \in BOOLEAN,
         AddFolio(g, f, big)
  PROVE  /\ cache' \in [Gfn -> Folio \cup {NoFolio}] /\ huge' \subseteq Folio
         /\ f \in Free /\ cache'[g] = f
         /\ f \in huge' <=> big
         /\ \A e \in Folio : e # f => (e \in huge' <=> e \in huge)
         /\ \A h \in Gfn : \/ cache'[h] = cache[h] /\ cache[h] # f
                           \/ cache'[h] = f /\ cache[h] = NoFolio /\ h \in Region(g)
         /\ big => \A h \in Region(g) : cache'[h] = f
PROOF
  <1>1. /\ cache[g] = NoFolio /\ f \in Free
        /\ big => \A h \in Region(g) : cache[h] = NoFolio
        /\ cache' = [h \in Gfn |-> IF h = g \/ (big /\ h \in Region(g))
                                   THEN f ELSE cache[h]]
        /\ huge' = IF big THEN huge \cup {f} ELSE huge \ {f}
    BY DEF AddFolio
  <1>2. \A h \in Gfn : cache[h] # f
    BY <1>1 DEF Free
  <1>3. Region(g) \subseteq Gfn /\ g \in Region(g)
    BY RegionFacts
  <1> QED BY <1>1, <1>2, <1>3 DEF CacheTypes

(* kvm_gmem_get_folio and its failures in two halves.                      *)
FolioStep(g) ==
  /\ \/ UNCHANGED <<cache, huge>>
     \/ \E f \in Folio, big \in BOOLEAN : AddFolio(g, f, big)
  /\ \/ rmp' = rmp
     \/ /\ cache'[g] \in Folio
        /\ rmp' = Prepare(cache'[g], cache'[g] \in huge', g)

LEMMA GetFolioStep ==
  ASSUME CacheTypes, NEW g \in Gfn, GetFolio(g)
  PROVE  FolioStep(g) /\ cache'[g] \in Folio
PROOF
  <1>1. CASE /\ cache[g] # NoFolio
             /\ rmp' = Prepare(cache[g], cache[g] \in huge, g)
             /\ UNCHANGED <<cache, huge>>
    BY <1>1 DEF CacheTypes, FolioStep
  <1>2. ASSUME NEW f \in Folio, NEW big \in BOOLEAN,
               AddFolio(g, f, big), rmp' = Prepare(f, big, g)
        PROVE  FolioStep(g) /\ cache'[g] \in Folio
    <2>1. cache'[g] = f /\ (f \in huge' <=> big)
      BY <1>2, AddFolioFacts
    <2>2. (f \in huge') = big
      BY <1>2, <2>1
    <2> QED BY <1>2, <2>1, <2>2 DEF FolioStep
  <1> QED BY <1>1, <1>2 DEF GetFolio

LEMMA GetFolioFailsStep ==
  ASSUME NEW g \in Gfn, GetFolioFails(g) PROVE FolioStep(g) /\ rmp' = rmp
PROOF
  BY DEF GetFolioFails, FolioStep

LEMMA PrepareFacts ==
  ASSUME CacheTypes, LargeEntries, NEW f \in Folio, NEW big \in BOOLEAN,
         NEW g \in Gfn
  PROVE  LET p == Prepare(f, big, g)
         IN /\ p \in [Folio -> [Gfn -> Levels \cup {"shared"}]]
            /\ \A e \in Folio : e # f => p[e] = rmp[e]
            /\ \A h \in Gfn : rmp[f][h] # "shared" => p[f][h] = rmp[f][h]
            /\ \A h \in Gfn : p[f][h] = "2M" => \A x \in Region(h) : p[f][x] = "2M"
            /\ \A h \in Gfn : \/ p[f][h] = rmp[f][h] \/ h = g
                              \/ (big /\ h \in Region(g))
PROOF
  <1> DEFINE p == Prepare(f, big, g)
             large == big /\ \A h \in Region(g) : rmp[f][h] = "shared"
             row == [h \in Gfn |-> CASE large /\ h \in Region(g) -> "2M"
                                     [] ~large /\ h = g          -> "4K"
                                     [] OTHER                    -> rmp[f][h]]
  <1>0. rmp \in [Folio -> [Gfn -> Levels \cup {"shared"}]]
    BY DEF CacheTypes
  <1>1. CASE rmp[f][g] # "shared"
    <2>1. p = rmp
      BY <1>1 DEF Prepare
    <2> QED BY <1>0, <2>1 DEF LargeEntries
  <1>2. CASE rmp[f][g] = "shared"
    <2>1. p = [rmp EXCEPT ![f] = row]
      BY <1>2 DEF Prepare
    <2>2. \A h \in Gfn : row[h] = IF large
                                  THEN IF h \in Region(g) THEN "2M" ELSE rmp[f][h]
                                  ELSE IF h = g THEN "4K" ELSE rmp[f][h]
      OBVIOUS
    <2>3. row \in [Gfn -> Levels \cup {"shared"}]
      BY <1>0 DEF Levels
    <2>4. \A h \in Gfn : rmp[f][h] # "shared" => row[h] = rmp[f][h]
      BY <1>2, <2>2
    <2>5. ASSUME NEW h \in Gfn, row[h] = "2M", NEW x \in Region(h)
          PROVE  row[x] = "2M"
      <3>1. x \in Gfn /\ Region(x) = Region(h) /\ x \in Region(x)
            /\ h \in Region(h) /\ g \in Region(g)
        BY RegionFacts
      <3>2. CASE large
        <4>1. CASE h \in Region(g)
          <5>1. x \in Region(g)
            BY <3>1, <4>1, RegionFacts
          <5> QED BY <2>2, <3>1, <3>2, <5>1
        <4>2. CASE h \notin Region(g)
          <5>1. rmp[f][h] = "2M"
            BY <2>2, <2>5, <3>2, <4>2
          <5>2. rmp[f][x] = "2M"
            BY <5>1 DEF LargeEntries
          <5> QED BY <2>4, <3>1, <5>2
        <4> QED BY <4>1, <4>2
      <3>3. CASE ~large
        <4>1. rmp[f][h] = "2M"
          BY <2>2, <2>5, <3>3
        <4>2. rmp[f][x] = "2M"
          BY <4>1 DEF LargeEntries
        <4> QED BY <2>4, <3>1, <4>2
      <3> QED BY <3>2, <3>3
    <2>8. \A h \in Gfn : \/ row[h] = rmp[f][h] \/ h = g
                        \/ (big /\ h \in Region(g))
      BY <2>2
    <2> HIDE DEF row, large
    <2>6. p[f] = row /\ \A e \in Folio : e # f => p[e] = rmp[e]
      BY <1>0, <2>1
    <2>7. p \in [Folio -> [Gfn -> Levels \cup {"shared"}]]
      BY <1>0, <2>1, <2>3
    <2> HIDE DEF p
    <2> QED BY <2>4, <2>5, <2>6, <2>7, <2>8 DEF p
  <1> QED BY <1>1, <1>2

(* What is in the page cache stays as it is.                               *)
LEMMA FolioKeeps ==
  ASSUME CacheTypes, LargeEntries, NEW g \in Gfn, FolioStep(g), NEW h \in Gfn,
         cache[h] \in Folio
  PROVE  /\ cache'[h] = cache[h]
         /\ cache[h] \in huge' <=> cache[h] \in huge
         /\ \A x \in Gfn : rmp[cache[h]][x] # "shared" =>
              rmp'[cache[h]][x] = rmp[cache[h]][x]
PROOF
  <1>1. cache'[h] = cache[h] /\ (cache[h] \in huge' <=> cache[h] \in huge)
    <2>1. CASE UNCHANGED <<cache, huge>>
      BY <2>1
    <2>2. ASSUME NEW f \in Folio, NEW big \in BOOLEAN, AddFolio(g, f, big)
          PROVE  cache'[h] = cache[h] /\ (cache[h] \in huge' <=> cache[h] \in huge)
      BY <2>2, AddFolioFacts, Facts
    <2> QED BY <2>1, <2>2 DEF FolioStep
  <1>2. CASE rmp' = rmp
    BY <1>1, <1>2
  <1>3. CASE /\ cache'[g] \in Folio
             /\ rmp' = Prepare(cache'[g], cache'[g] \in huge', g)
    <2> DEFINE c == cache'[g]
               b == cache'[g] \in huge'
    <2>1. b \in BOOLEAN
      OBVIOUS
    <2>2. c \in Folio /\ rmp' = Prepare(c, b, g)
      BY <1>3
    <2> HIDE DEF c, b
    <2>3. /\ \A e \in Folio : e # c => rmp'[e] = rmp[e]
          /\ \A x \in Gfn : rmp[c][x] # "shared" => rmp'[c][x] = rmp[c][x]
      BY <2>1, <2>2, PrepareFacts
    <2> QED BY <1>1, <2>3
  <1> QED BY <1>1, <1>2, <1>3 DEF FolioStep

(* A fault refers to a folio that was at its frame in the page cache.      *)
LEMMA FolioCache ==
  ASSUME CacheTypes, CacheInv, NEW g \in Gfn, FolioStep(g),
         fault' \in [VCpu -> FaultRec], fault \in [VCpu -> FaultRec],
         \A w \in VCpu : \/ fault'[w].folio = NoFolio
                         \/ /\ fault'[w].folio = fault[w].folio
                            /\ fault'[w].gfn = fault[w].gfn
                         \/ fault'[w].folio = cache'[fault'[w].gfn]
  PROVE  CacheTypes' /\ CacheInv'
PROOF
  <1> USE DEF CacheInv
  <1>1. /\ cache' \in [Gfn -> Folio \cup {NoFolio}] /\ huge' \subseteq Folio
        /\ \A x, y \in Gfn : cache'[x] = cache'[y] /\ cache'[x] # NoFolio => y \in Region(x)
        /\ \A w \in VCpu, x \in Gfn :
             cache'[x] = fault[w].folio /\ cache'[x] # NoFolio
               => x \in Region(fault[w].gfn)
        /\ HugeCovers'
    <2>1. CASE UNCHANGED <<cache, huge>>
      BY <2>1 DEF CacheTypes, OneRegion, HugeCovers
    <2>2. ASSUME NEW f \in Folio, NEW big \in BOOLEAN, AddFolio(g, f, big)
          PROVE  /\ cache' \in [Gfn -> Folio \cup {NoFolio}] /\ huge' \subseteq Folio
                 /\ \A x, y \in Gfn : cache'[x] = cache'[y] /\ cache'[x] # NoFolio => y \in Region(x)
                 /\ \A w \in VCpu, x \in Gfn :
                      cache'[x] = fault[w].folio /\ cache'[x] # NoFolio
                        => x \in Region(fault[w].gfn)
                 /\ HugeCovers'
      <3>1. /\ cache' \in [Gfn -> Folio \cup {NoFolio}] /\ huge' \subseteq Folio
            /\ f \in Free /\ cache'[g] = f
            /\ f \in huge' <=> big
            /\ \A e \in Folio : e # f => (e \in huge' <=> e \in huge)
            /\ \A h \in Gfn : \/ cache'[h] = cache[h] /\ cache[h] # f
                              \/ cache'[h] = f /\ cache[h] = NoFolio /\ h \in Region(g)
            /\ big => \A h \in Region(g) : cache'[h] = f
        BY <2>2, AddFolioFacts
      <3>2. /\ \A w \in VCpu : fault[w].folio # f
        BY <3>1 DEF Free
      <3>3. ASSUME NEW x \in Gfn, NEW y \in Gfn, cache'[x] = cache'[y], cache'[x] # NoFolio
            PROVE  y \in Region(x)
        <4>1. CASE cache'[x] = f
          <5>1. x \in Region(g) /\ y \in Region(g)
            BY <3>1, <3>3, <4>1
          <5> QED BY <5>1, RegionFacts
        <4>2. CASE cache'[x] # f
          BY <3>1, <3>3, <4>2 DEF OneRegion
        <4> QED BY <4>1, <4>2
      <3>4. ASSUME NEW w \in VCpu, NEW x \in Gfn, cache'[x] = fault[w].folio,
                   cache'[x] # NoFolio
            PROVE  x \in Region(fault[w].gfn)
        BY <3>1, <3>2, <3>4 DEF OneRegion
      <3>5. ASSUME NEW x \in Gfn, cache'[x] \in huge', NEW y \in Region(x)
            PROVE  cache'[y] = cache'[x]
        <4>0. y \in Gfn
          BY RegionFacts
        <4>1. CASE cache'[x] = f
          <5>1. x \in Region(g) /\ big
            BY <3>1, <3>5, <4>1
          <5>2. y \in Region(g)
            BY <5>1, RegionFacts
          <5> QED BY <3>1, <4>1, <5>1, <5>2
        <4>2. CASE cache'[x] # f
          <5>1. cache'[x] = cache[x] /\ cache[x] \in Folio /\ cache[x] \in huge
            BY <3>1, <3>5, <4>2
          <5>2. cache[y] = cache[x]
            BY <5>1 DEF HugeCovers
          <5> QED BY <3>1, <4>0, <5>1, <5>2, Facts
        <4> QED BY <4>1, <4>2
      <3> QED BY <3>1, <3>3, <3>4, <3>5 DEF HugeCovers
    <2> QED BY <2>1, <2>2 DEF FolioStep
  <1>2. OneRegion'
    <2>1. ASSUME NEW w \in VCpu, NEW x \in Gfn, cache'[x] = fault'[w].folio,
                 cache'[x] # NoFolio
          PROVE  x \in Region(fault'[w].gfn)
      <3>1. fault'[w].gfn \in Gfn
        BY DEF FaultRec
      <3>2. CASE fault'[w].folio = fault[w].folio /\ fault'[w].gfn = fault[w].gfn
        BY <1>1, <2>1, <3>2
      <3>3. CASE fault'[w].folio = cache'[fault'[w].gfn]
        BY <1>1, <2>1, <3>1, <3>3
      <3> QED BY <2>1, <3>2, <3>3
    <2> QED BY <1>1, <2>1 DEF OneRegion
  <1>4. /\ rmp' \in [Folio -> [Gfn -> Levels \cup {"shared"}]]
        /\ LargeEntries'
    <2>1. CASE rmp' = rmp
      BY <2>1 DEF CacheTypes, LargeEntries
    <2>2. CASE /\ cache'[g] \in Folio
               /\ rmp' = Prepare(cache'[g], cache'[g] \in huge', g)
      <3> DEFINE c == cache'[g]
                 b == cache'[g] \in huge'
      <3>1. b \in BOOLEAN
        OBVIOUS
      <3>2. c \in Folio /\ rmp' = Prepare(c, b, g)
        BY <2>2
      <3> HIDE DEF c, b
      <3>4. /\ rmp' \in [Folio -> [Gfn -> Levels \cup {"shared"}]]
            /\ \A e \in Folio : e # c => rmp'[e] = rmp[e]
            /\ \A h \in Gfn : rmp'[c][h] = "2M" => \A x \in Region(h) : rmp'[c][x] = "2M"
        BY <3>1, <3>2, PrepareFacts
      <3>5. LargeEntries'
        BY <3>4 DEF LargeEntries
      <3> QED BY <3>4, <3>5
    <2> QED BY <2>1, <2>2 DEF FolioStep
  <1> QED BY <1>1, <1>2, <1>4 DEF CacheTypes

(* Memory is assigned only at its index in the page cache, and a folio     *)
(* that is being released does not come back.                              *)
LEMMA FolioRelease ==
  ASSUME CacheTypes, CacheInv, ReleaseInv, HugeCovers', NEW g \in Gfn, FolioStep(g),
         UNCHANGED <<punch, stuck>>
  PROVE  ReleaseInv'
PROOF
  <1>1. LargeEntries
    BY DEF CacheInv
  <1>2. ASSUME punch.folio # NoFolio, NEW h \in Gfn PROVE cache'[h] # punch.folio
    <2>1. CASE UNCHANGED <<cache, huge>>
      BY <1>2, <2>1 DEF ReleaseInv
    <2>2. ASSUME NEW f \in Folio, NEW big \in BOOLEAN, AddFolio(g, f, big)
          PROVE  cache'[h] # punch.folio
      <3>1. f \in Free /\ (cache'[h] = cache[h] \/ cache'[h] = f)
        BY <2>2, AddFolioFacts
      <3>2. punch.folio # f
        BY <3>1 DEF Free
      <3> QED BY <1>2, <3>1, <3>2 DEF ReleaseInv
    <2> QED BY <2>1, <2>2 DEF FolioStep
  <1>3. ASSUME NEW f \in Folio, NEW h \in Gfn, rmp'[f][h] # "shared"
        PROVE  \/ cache'[h] = f \/ (f = punch.folio /\ h \in punch.left)
               \/ <<f, h>> \in stuck
    <2>1. CASE rmp'[f][h] = rmp[f][h]
      <3>1. \/ cache[h] = f \/ (f = punch.folio /\ h \in punch.left)
            \/ <<f, h>> \in stuck
        BY <1>3, <2>1 DEF ReleaseInv
      <3>2. cache[h] = f => cache'[h] = f
        BY <1>1, FolioKeeps
      <3> QED BY <3>1, <3>2
    <2>2. CASE rmp'[f][h] # rmp[f][h]
      <3> DEFINE c == cache'[g]
                 b == cache'[g] \in huge'
      <3>1. b \in BOOLEAN
        OBVIOUS
      <3>2. c \in Folio /\ rmp' = Prepare(c, b, g)
        BY <2>2 DEF FolioStep
      <3>3. b => \A x \in Region(g) : cache'[x] = c
        BY DEF HugeCovers
      <3>4. cache'[g] = c
        OBVIOUS
      <3> HIDE DEF c, b
      <3>5. /\ \A e \in Folio : e # c => rmp'[e] = rmp[e]
            /\ \A x \in Gfn : rmp'[c][x] = rmp[c][x] \/ x = g \/ (b /\ x \in Region(g))
        BY <1>1, <3>1, <3>2, PrepareFacts
      <3> QED BY <2>2, <3>3, <3>4, <3>5
    <2> QED BY <2>1, <2>2
  <1> QED BY <1>2, <1>3 DEF ReleaseInv

-----------------------------------------------------------------------------
(* Every step keeps MemInv                                                 *)

CallRec == (0 .. MaxSet) \X (0 .. MaxFile) \X (0 .. MaxFault)
SetterRec == [pc : {"idle", "store"}, range : SUBSET Gfn, to : Kinds,
              todo : SUBSET Gfn]
PunchRec == [pc : {"idle", "truncate", "release", "end"}, range : SUBSET Gfn,
             folio : Folio \cup {NoFolio}, left : SUBSET Gfn]

(* The type invariant in terms of the records above.                       *)
Types == /\ attr \in [Gfn -> Kinds] /\ mixed \subseteq Gfn /\ bound \in BOOLEAN
         /\ CacheTypes /\ npt \in [Gfn -> EntryRec] /\ inv \in InvRec
         /\ fault \in [VCpu -> FaultRec] /\ setter \in SetterRec
         /\ punch \in PunchRec /\ stuck \subseteq Folio \X Gfn
         /\ calls \in CallRec

LEMMA TypesOK == TypeOK <=> Types
PROOF
  BY DEF TypeOK, Types, CacheTypes, EntryRec, InvRec, FaultRec, SetterRec,
         PunchRec, CallRec

LEMMA TypesOKPrime == TypeOK' <=> Types'
PROOF
  BY TypesOK, PTL

LEMMA CallsFacts ==
  ASSUME calls \in CallRec
  PROVE  /\ calls[1] < MaxSet => [calls EXCEPT ![1] = @ + 1] \in CallRec
         /\ calls[2] < MaxFile => [calls EXCEPT ![2] = @ + 1] \in CallRec
         /\ calls[3] < MaxFault => [calls EXCEPT ![3] = @ + 1] \in CallRec
PROOF
  BY GuestMemAssumption DEF CallRec

(* What a vCPU may do to its own fault.                                    *)
FaultChange(w) ==
  /\ fault[w].pc # "zap"
  /\ \/ fault'[w].folio = NoFolio
     \/ fault'[w].folio = fault[w].folio /\ fault'[w].gfn = fault[w].gfn
     \/ fault'[w].folio = cache'[fault'[w].gfn]
  /\ (Retry(fault[w]) \/ FaultOK(fault[w]))'

(* Steps of a vCPU that only allocate or prepare memory, and allocations   *)
(* by the VMM: no other fault and no mapping is disturbed.                 *)
LEMMA CpuStep ==
  ASSUME MemInv, NEW g \in Gfn, FolioStep(g),
         UNCHANGED <<attr, mixed, bound, npt, inv, setter, punch, stuck>>,
         calls' \in CallRec, fault' \in [VCpu -> FaultRec],
         \A w \in VCpu : fault'[w] = fault[w] \/ FaultChange(w)
  PROVE  MemInv'
PROOF
  <1>1. Types /\ CacheInv /\ CountInv /\ SetterInv /\ PunchInv /\ FaultInv /\ MapInv
        /\ ReleaseInv
    BY TypesOK DEF MemInv
  <1>2. CacheTypes /\ fault \in [VCpu -> FaultRec] /\ LargeEntries
    BY <1>1 DEF Types, CacheInv
  <1>3. CacheTypes' /\ CacheInv'
    <2>1. \A w \in VCpu : \/ fault'[w].folio = NoFolio
                         \/ /\ fault'[w].folio = fault[w].folio
                            /\ fault'[w].gfn = fault[w].gfn
                         \/ fault'[w].folio = cache'[fault'[w].gfn]
      BY DEF FaultChange
    <2> QED BY <1>1, <1>2, <2>1, FolioCache
  <1>10. ReleaseInv'
    BY <1>1, <1>2, <1>3, FolioRelease DEF CacheInv
  <1>4. TypeOK'
    <2>1. Types'
      BY <1>1, <1>3 DEF Types
    <2> QED BY <2>1, TypesOKPrime
  <1>5. CountInv' /\ SetterInv' /\ PunchInv'
    BY <1>1 DEF CountInv, SetterInv, PunchInv
  <1>6. \A f : Splitting(f) => Splitting(f)'
    BY DEF Splitting, FaultChange
  <1>7. \A h \in Gfn : cache[h] \in Folio =>
           /\ cache'[h] = cache[h]
           /\ cache[h] \in huge' <=> cache[h] \in huge
           /\ \A x \in Gfn : rmp[cache[h]][x] # "shared" =>
                rmp'[cache[h]][x] = rmp[cache[h]][x]
    BY <1>2, FolioKeeps
  <1>8. FaultInv'
    <2>1. ASSUME NEW w \in VCpu, fault'[w] = fault[w] PROVE (Retry(fault[w]) \/ FaultOK(fault[w]))'
      <3>0. fault[w].gfn \in Gfn
        BY <1>2 DEF FaultRec
      <3>1. CASE Retry(fault[w])
        BY <2>1, <3>1 DEF Retry
      <3>2. CASE FaultOK(fault[w])
        <4>1. FaultOK(fault[w])'
          BY <1>6, <1>7, <2>1, <3>0, <3>2, RegionFacts DEF FaultOK
        <4> QED BY <4>1
      <3> QED BY <1>1, <3>1, <3>2 DEF FaultInv
    <2> QED BY <2>1 DEF FaultInv, FaultChange
  <1>9. MapInv'
    <2>1. ASSUME NEW h \in Gfn, npt[h].kind = "private" PROVE EntryOK(h)'
      <3>1. EntryOK(h)
        BY <1>1, <2>1 DEF MapInv
      <3> QED BY <1>6, <1>7, <3>1 DEF EntryOK
    <2> QED BY <2>1 DEF MapInv
  <1> QED BY <1>3, <1>4, <1>5, <1>8, <1>9, <1>10 DEF MemInv

(* The same for the fault of one vCPU.                                     *)
LEMMA OneCpuStep ==
  ASSUME MemInv, NEW g \in Gfn, FolioStep(g),
         UNCHANGED <<attr, mixed, bound, npt, inv, setter, punch, stuck>>,
         calls' \in CallRec, NEW v \in VCpu, NEW n \in FaultRec,
         fault' = [fault EXCEPT ![v] = n], fault[v].pc # "zap",
         \/ n.folio = NoFolio
         \/ n.folio = fault[v].folio /\ n.gfn = fault[v].gfn
         \/ n.folio = cache'[n.gfn],
         (Retry(fault[v]) \/ FaultOK(fault[v]))'
  PROVE  MemInv'
PROOF
  <1>1. fault \in [VCpu -> FaultRec]
    BY TypesOK DEF MemInv, Types
  <1>2. fault' \in [VCpu -> FaultRec] /\ fault'[v] = n
        /\ \A w \in VCpu : w # v => fault'[w] = fault[w]
    BY <1>1
  <1>3. FaultChange(v)
    BY <1>2 DEF FaultChange
  <1> QED BY <1>2, <1>3, CpuStep

LEMMA KeepsFolios ==
  ASSUME NEW g, UNCHANGED <<cache, huge, rmp>> PROVE FolioStep(g)
PROOF BY DEF FolioStep

(* A record that is not on its way to a mapping asks for nothing.          *)
LEMMA EarlyFault ==
  ASSUME NEW f, f.pc \notin {"pfn", "level", "map"} PROVE FaultOK(f)
PROOF BY DEF FaultOK

LEMMA EarlyFaultPrime ==
  ASSUME NEW v, fault'[v].pc \notin {"pfn", "level", "map"} PROVE FaultOK(fault[v])'
PROOF BY DEF FaultOK

LEMMA ReturnStep ==
  ASSUME MemInv, NEW g \in Gfn, FolioStep(g),
         UNCHANGED <<attr, mixed, bound, npt, inv, setter, punch, stuck>>,
         calls' = calls, NEW v \in VCpu, Return(v), fault[v].pc # "zap"
  PROVE  MemInv'
PROOF
  <1>1. fault \in [VCpu -> FaultRec] /\ calls \in CallRec
    BY TypesOK DEF MemInv, Types
  <1>2. fault' = [fault EXCEPT ![v] = NoFault] /\ fault'[v] = NoFault
    BY <1>1 DEF Return
  <1>3. FaultOK(fault[v])'
    <2>1. NoFault.pc = "guest"
      BY DEF NoFault
    <2> HIDE DEF NoFault
    <2> QED BY <1>2, <2>1, EarlyFaultPrime
  <1>4. NoFault.folio = NoFolio /\ NoFault \in FaultRec
    BY Facts DEF NoFault
  <1> HIDE DEF NoFault
  <1> QED BY <1>1, <1>2, <1>3, <1>4, OneCpuStep

LEMMA FaultMem ==
  ASSUME MemInv, NEW v \in VCpu, NEW g \in Gfn, NEW k \in Kinds, Fault(v, g, k)
  PROVE  MemInv'
PROOF
  <1> DEFINE n == [NoFault EXCEPT !.pc = "seq", !.gfn = g, !.kind = k]
  <1>1. Types
    BY TypesOK DEF MemInv
  <1>2. n \in FaultRec /\ n.folio = NoFolio /\ n.pc = "seq"
    BY Facts DEF FaultRec, NoFault, FaultSteps
  <1> HIDE DEF n
  <1>3. calls' \in CallRec
    BY <1>1, CallsFacts DEF Fault, Types
  <1>4. fault' = [fault EXCEPT ![v] = n] /\ fault'[v] = n
    BY <1>1 DEF Fault, n, Types
  <1>5. FaultOK(fault[v])'
    BY <1>2, <1>4, EarlyFaultPrime
  <1>6. FolioStep(g) /\ fault[v].pc # "zap"
        /\ UNCHANGED <<attr, mixed, bound, npt, inv, setter, punch, stuck>>
    BY KeepsFolios DEF Fault
  <1> QED BY <1>2, <1>3, <1>4, <1>5, <1>6, OneCpuStep

LEMMA RmpFaultMem ==
  ASSUME MemInv, NEW v \in VCpu, NEW g \in Gfn, RmpFault(v, g)
  PROVE  MemInv'
PROOF
  <1> DEFINE n == [NoFault EXCEPT !.pc = "rmp", !.gfn = g]
  <1>1. Types
    BY TypesOK DEF MemInv
  <1>2. n \in FaultRec /\ n.folio = NoFolio /\ n.pc = "rmp"
    BY Facts DEF FaultRec, NoFault, FaultSteps
  <1> HIDE DEF n
  <1>4. fault' = [fault EXCEPT ![v] = n] /\ fault'[v] = n
    BY <1>1 DEF RmpFault, n, Types
  <1>5. FaultOK(fault[v])'
    BY <1>2, <1>4, EarlyFaultPrime
  <1>6. FolioStep(g) /\ fault[v].pc # "zap" /\ calls' \in CallRec
        /\ UNCHANGED <<attr, mixed, bound, npt, inv, setter, punch, stuck>>
    BY <1>1, KeepsFolios DEF RmpFault, OnlyFault, Types
  <1> QED BY <1>2, <1>4, <1>5, <1>6, OneCpuStep

LEMMA ReadSeqMem ==
  ASSUME MemInv, NEW v \in VCpu, ReadSeq(v) PROVE MemInv'
PROOF
  <1> DEFINE n == [fault[v] EXCEPT !.pc = "attr"]
  <1>1. Types
    BY TypesOK DEF MemInv
  <1>2. n \in FaultRec /\ n.folio = fault[v].folio /\ n.gfn = fault[v].gfn
        /\ n.pc = "attr"
    BY <1>1 DEF FaultRec, FaultSteps, Types
  <1>4. fault' = [fault EXCEPT ![v] = n]
    BY <1>1 DEF ReadSeq, Types
  <1> HIDE DEF n
  <1>5. fault'[v] = n
    BY <1>1, <1>4 DEF Types
  <1>6. FaultOK(fault[v])'
    BY <1>2, <1>5, EarlyFaultPrime
  <1>7. FolioStep(0) /\ fault[v].pc # "zap" /\ calls' \in CallRec
        /\ UNCHANGED <<attr, mixed, bound, npt, inv, setter, punch, stuck>>
    BY <1>1, KeepsFolios DEF ReadSeq, OnlyFault, Types
  <1> QED BY <1>2, <1>4, <1>6, <1>7, OneCpuStep, Facts

LEMMA CheckAttributesMem ==
  ASSUME MemInv, NEW v \in VCpu, CheckAttributes(v) PROVE MemInv'
PROOF
  <1> DEFINE pc == IF fault[v].kind = "private" THEN "pfn" ELSE "map"
             n == [fault[v] EXCEPT !.pc = pc]
  <1>1. Types
    BY TypesOK DEF MemInv
  <1>2. FolioStep(0) /\ fault[v].pc = "attr" /\ calls' = calls /\ calls' \in CallRec
        /\ UNCHANGED <<attr, mixed, bound, npt, inv, setter, punch, stuck>>
    BY <1>1, KeepsFolios DEF CheckAttributes, OnlyFault, Types
  <1>3. CASE Return(v)
    BY <1>2, <1>3, ReturnStep, Facts
  <1>4. CASE fault[v].kind = attr[fault[v].gfn] /\ Goto(v, pc)
    <2>1. n \in FaultRec /\ n.folio = fault[v].folio /\ n.gfn = fault[v].gfn
          /\ n.kind = fault[v].kind /\ n.pc = pc
      BY <1>1 DEF FaultRec, FaultSteps, Types
    <2>2. fault' = [fault EXCEPT ![v] = n]
      BY <1>1, <1>4 DEF Goto, Types
    <2> HIDE DEF n
    <2>3. fault'[v] = n
      BY <1>1, <2>2 DEF Types
    <2>4. FaultOK(fault[v])'
      BY <1>2, <1>4, <2>1, <2>3 DEF FaultOK
    <2> QED BY <1>2, <2>1, <2>2, <2>4, OneCpuStep, Facts
  <1> QED BY <1>3, <1>4 DEF CheckAttributes

LEMMA RetrySame ==
  ASSUME inv' = inv, NEW v, fault'[v].gfn = fault[v].gfn,
         fault'[v].moved = fault[v].moved
  PROVE  Retry(fault[v])' <=> Retry(fault[v])
PROOF BY DEF Retry

LEMMA GetPfnMem ==
  ASSUME MemInv, NEW v \in VCpu, GetPfn(v) PROVE MemInv'
PROOF
  <1>1. Types /\ CacheTypes /\ FaultInv
    BY TypesOK DEF MemInv, Types
  <1>2. /\ fault[v].pc = "pfn" /\ fault[v].gfn \in Gfn
        /\ calls' = calls /\ calls' \in CallRec
        /\ UNCHANGED <<attr, mixed, bound, npt, inv, setter, punch, stuck>>
    BY <1>1 DEF GetPfn, Types, FaultRec
  <1>3. CASE /\ bound /\ GetFolio(fault[v].gfn)
             /\ fault' = [fault EXCEPT ![v].pc = "level",
                                       ![v].folio = cache'[fault[v].gfn]]
    <2> DEFINE c == cache'[fault[v].gfn]
               n == [fault[v] EXCEPT !.pc = "level", !.folio = c]
    <2>1. FolioStep(fault[v].gfn) /\ c \in Folio
      BY <1>1, <1>2, <1>3, GetFolioStep
    <2>2. fault' = [fault EXCEPT ![v].pc = "level", ![v].folio = c]
      BY <1>3
    <2> HIDE DEF c
    <2>3. /\ n \in FaultRec /\ n.pc = "level" /\ n.folio = c
          /\ n.gfn = fault[v].gfn /\ n.kind = fault[v].kind
          /\ n.moved = fault[v].moved
      BY <1>1, <2>1 DEF FaultRec, FaultSteps, Types
    <2>9. fault' = [fault EXCEPT ![v] = n]
      BY <1>1, <2>2 DEF Types
    <2> HIDE DEF n
    <2>4. fault'[v] = n
      BY <1>1, <2>9 DEF Types
    <2>7. (Retry(fault[v]) \/ FaultOK(fault[v]))'
      <3>1. CASE Retry(fault[v])
        BY <1>2, <2>3, <2>4, <3>1, RetrySame
      <3>2. CASE FaultOK(fault[v])
        <4>1. fault[v].kind = attr[fault[v].gfn]
          BY <1>2, <3>2 DEF FaultOK
        <4>2. FaultOK(fault[v])'
          BY <1>2, <1>3, <2>1, <2>3, <2>4, <4>1 DEF FaultOK, c
        <4> QED BY <4>2
      <3> QED BY <1>1, <3>1, <3>2 DEF FaultInv
    <2>8. n.folio = cache'[n.gfn]
      BY <2>3 DEF c
    <2> QED BY <1>2, <2>1, <2>3, <2>7, <2>8, <2>9, OneCpuStep
  <1>4. CASE /\ IF bound THEN GetFolioFails(fault[v].gfn)
                ELSE UNCHANGED <<cache, huge, rmp>>
             /\ Return(v)
    <2>1. FolioStep(fault[v].gfn)
      BY <1>2, <1>4, GetFolioFailsStep, KeepsFolios
    <2> QED BY <1>2, <1>4, <2>1, ReturnStep
  <1> QED BY <1>3, <1>4 DEF GetPfn

LEMMA RmpGetPfnMem ==
  ASSUME MemInv, NEW v \in VCpu, RmpGetPfn(v) PROVE MemInv'
PROOF
  <1>1. Types /\ CacheTypes
    BY TypesOK DEF MemInv, Types
  <1>2. /\ fault[v].pc = "rmp" /\ fault[v].gfn \in Gfn
        /\ calls' = calls /\ calls' \in CallRec
        /\ UNCHANGED <<attr, mixed, bound, npt, inv, setter, punch, stuck>>
    BY <1>1 DEF RmpGetPfn, Types, FaultRec
  <1>3. CASE /\ GetFolio(fault[v].gfn)
             /\ fault' = [fault EXCEPT ![v].pc = "psmash",
                                       ![v].folio = cache'[fault[v].gfn]]
    <2> DEFINE c == cache'[fault[v].gfn]
               n == [fault[v] EXCEPT !.pc = "psmash", !.folio = c]
    <2>1. FolioStep(fault[v].gfn) /\ c \in Folio
      BY <1>1, <1>2, <1>3, GetFolioStep
    <2>2. fault' = [fault EXCEPT ![v].pc = "psmash", ![v].folio = c]
      BY <1>3
    <2> HIDE DEF c
    <2>3. /\ n \in FaultRec /\ n.pc = "psmash" /\ n.folio = c
          /\ n.gfn = fault[v].gfn
      BY <1>1, <2>1 DEF FaultRec, FaultSteps, Types
    <2>9. fault' = [fault EXCEPT ![v] = n]
      BY <1>1, <2>2 DEF Types
    <2> HIDE DEF n
    <2>4. fault'[v] = n
      BY <1>1, <2>9 DEF Types
    <2>5. FaultOK(fault[v])'
      BY <2>3, <2>4, EarlyFaultPrime
    <2>8. n.folio = cache'[n.gfn]
      BY <2>3 DEF c
    <2> QED BY <1>2, <2>1, <2>3, <2>5, <2>8, <2>9, OneCpuStep
  <1>4. CASE /\ GetFolioFails(fault[v].gfn) \/ UNCHANGED <<cache, huge, rmp>>
             /\ Return(v)
    <2>1. FolioStep(fault[v].gfn)
      BY <1>2, <1>4, GetFolioFailsStep, KeepsFolios
    <2> QED BY <1>2, <1>4, <2>1, ReturnStep
  <1> QED BY <1>3, <1>4 DEF RmpGetPfn

LEMMA AllocateMem ==
  ASSUME MemInv, NEW g \in Gfn, Allocate(g) PROVE MemInv'
PROOF
  <1>1. Types /\ CacheTypes
    BY TypesOK DEF MemInv, Types
  <1>2. calls' \in CallRec /\ fault' \in [VCpu -> FaultRec]
    BY <1>1, CallsFacts DEF Allocate, Types
  <1>3. FolioStep(g)
    BY <1>1, GetFolioStep, GetFolioFailsStep DEF Allocate
  <1> QED BY <1>2, <1>3, CpuStep DEF Allocate

LEMMA MaxLevelMem ==
  ASSUME MemInv, NEW v \in VCpu, MaxLevel(v) PROVE MemInv'
PROOF
  <1> DEFINE f == fault[v]
             large == /\ f.folio \in huge /\ WithinSlot(f.gfn)
                      /\ rmp[f.folio][f.gfn] = "2M"
             l == IF large THEN "2M" ELSE "4K"
             n == [fault[v] EXCEPT !.pc = "map", !.level = l]
  <1>1. Types /\ CacheTypes /\ FaultInv /\ LargeEntries
    BY TypesOK DEF MemInv, Types, CacheInv
  <1>2. FolioStep(0) /\ f.pc = "level" /\ calls' = calls /\ calls' \in CallRec
        /\ UNCHANGED <<attr, mixed, bound, npt, inv, setter, punch, stuck>>
        /\ UNCHANGED <<cache, huge, rmp>>
    BY <1>1, KeepsFolios DEF MaxLevel, OnlyFault, Types
  <1>3. CASE Return(v)
    BY <1>2, <1>3, ReturnStep, Facts
  <1>4. CASE /\ rmp[f.folio][f.gfn] # "shared"
             /\ fault' = [fault EXCEPT ![v].pc = "map", ![v].level = l]
    <2>0. l \in Levels /\ (l = "2M" => f.folio \in huge /\ rmp[f.folio][f.gfn] = "2M")
      BY DEF Levels
    <2> HIDE DEF l, large
    <2>1. /\ n \in FaultRec /\ n.folio = fault[v].folio /\ n.gfn = fault[v].gfn
          /\ n.kind = fault[v].kind /\ n.pc = "map" /\ n.level = l
          /\ n.moved = fault[v].moved
      BY <1>1, <2>0 DEF FaultRec, FaultSteps, Types
    <2>2. fault' = [fault EXCEPT ![v] = n]
      BY <1>1, <1>4 DEF Types
    <2> HIDE DEF n
    <2>3. fault'[v] = n
      BY <1>1, <2>2 DEF Types
    <2>6. (Retry(fault[v]) \/ FaultOK(fault[v]))'
      <3>1. CASE Retry(fault[v])
        BY <1>2, <2>1, <2>3, <3>1, RetrySame
      <3>2. CASE FaultOK(fault[v])
        <4>1. fault[v].kind = attr[fault[v].gfn]
              /\ (fault[v].kind = "private" =>
                    bound /\ fault[v].folio \in Folio /\ fault[v].folio = cache[fault[v].gfn])
          BY <1>2, <3>2 DEF FaultOK
        <4>2. fault[v].kind = "private" /\ l = "2M" =>
                \A h \in Region(fault[v].gfn) : rmp[fault[v].folio][h] # "shared"
          BY <1>1, <2>0, <4>1 DEF LargeEntries, Types, FaultRec
        <4>4. /\ fault'[v].pc = "map" /\ fault'[v].folio = fault[v].folio
              /\ fault'[v].gfn = fault[v].gfn /\ fault'[v].kind = fault[v].kind
              /\ fault'[v].level = l
          BY <2>1, <2>3
        <4>5. fault[v].kind = "private" =>
                /\ rmp[fault[v].folio][fault[v].gfn] # "shared"
                /\ l = "2M" =>
                     /\ fault[v].folio \in huge
                     /\ \A h \in Region(fault[v].gfn) : rmp[fault[v].folio][h] # "shared"
                     /\ rmp[fault[v].folio][fault[v].gfn] = "2M"
          BY <1>4, <2>0, <4>2
        <4>3. FaultOK(fault[v])'
          BY <1>2, <4>1, <4>4, <4>5 DEF FaultOK
        <4> QED BY <4>3
      <3> QED BY <1>1, <3>1, <3>2 DEF FaultInv
    <2> QED BY <1>2, <2>1, <2>2, <2>6, OneCpuStep, Facts
  <1> QED BY <1>3, <1>4 DEF MaxLevel

-----------------------------------------------------------------------------
(* What the remaining steps have in common                                 *)

(* An invalidation in progress goes on and its range only grows.           *)
InvGrows == inv.count > 0 => inv'.count > 0 /\ inv.range \subseteq inv'.range

LEMMA RetryGrows ==
  ASSUME InvGrows, NEW v, fault' = fault
  PROVE  Retry(fault[v]) => Retry(fault[v])'
PROOF BY DEF InvGrows, Retry

LEMMA CacheSame ==
  ASSUME CacheInv, UNCHANGED <<cache, huge, rmp>>,
         \A w \in VCpu : \/ fault'[w].folio = NoFolio
                         \/ /\ fault'[w].folio = fault[w].folio
                            /\ fault'[w].gfn = fault[w].gfn
  PROVE  CacheInv'
PROOF
  <1>1. OneRegion'
    BY DEF CacheInv, OneRegion
  <1> QED BY <1>1 DEF CacheInv, HugeCovers, LargeEntries

LEMMA ReleaseSame ==
  ASSUME ReleaseInv, UNCHANGED <<cache, stuck>>,
         punch'.folio = punch.folio, punch'.left = punch.left,
         punch'.pc = "release" <=> punch.pc = "release",
         \A f \in Folio, g \in Gfn : rmp[f][g] = "shared" => rmp'[f][g] = "shared"
  PROVE  ReleaseInv'
PROOF BY DEF ReleaseInv

(* After the end of an invalidation no fault on its way passes.            *)
LEMMA MovedFaults ==
  ASSUME NEW fs \in [VCpu -> FaultRec], fault' = SeqMoves(fs)
  PROVE  FaultInv'
PROOF
  <1>1. ASSUME NEW w \in VCpu PROVE (Retry(fault[w]) \/ FaultOK(fault[w]))'
    <2>1. CASE fs[w].pc \in HasReadSeq
      BY <2>1, SeqMovesFacts DEF Retry
    <2>2. CASE fs[w].pc \notin HasReadSeq
      <3>1. fault'[w].pc \notin {"pfn", "level", "map"}
        BY <2>2, SeqMovesFacts DEF HasReadSeq
      <3> QED BY <3>1, EarlyFaultPrime
    <2> QED BY <2>1, <2>2
  <1> QED BY <1>1 DEF FaultInv

(* A zap only removes mappings.                                            *)
LEMMA ZapPrivate ==
  ASSUME npt \in [Gfn -> EntryRec], NEW range, npt' = Zap(range),
         NEW g \in Gfn, npt'[g].kind = "private"
  PROVE  npt'[g] = npt[g] /\ g \notin range
         /\ ~(npt[g].level = "2M" /\ Region(g) \cap range # {})
PROOF
  <1>1. Unmapped.kind # "private"
    BY DEF Unmapped
  <1> HIDE DEF Unmapped
  <1> QED BY <1>1, ZapFacts

LEMMA ZapMaps ==
  ASSUME Types, MapInv, NEW range, npt' = Zap(range),
         UNCHANGED <<bound, cache, rmp>>,
         \A f : Splitting(f) => Splitting(f)'
  PROVE  MapInv'
PROOF
  <1>1. ASSUME NEW g \in Gfn, npt'[g].kind = "private" PROVE EntryOK(g)'
    <2>1. npt'[g] = npt[g]
      BY <1>1, ZapPrivate DEF Types
    <2>2. EntryOK(g)
      BY <1>1, <2>1 DEF MapInv
    <2> QED BY <2>1, <2>2 DEF EntryOK
  <1> QED BY <1>1 DEF MapInv

(* The hole stays empty.                                                   *)
LEMMA HoleStays ==
  ASSUME Types, PunchInv, CountInv, InvGrows, UNCHANGED punch,
         npt' = npt \/ \E range : npt' = Zap(range)
  PROVE  PunchInv'
PROOF
  <1>1. punch.pc = "idle" \/ inv.count > 0
    BY DEF Types, CountInv, SetterRec, PunchRec
  <1>2. \A g \in Gfn : npt'[g].kind = "private" => npt[g].kind = "private"
    BY ZapPrivate DEF Types
  <1>3. punch.range \subseteq Gfn
    BY DEF Types, PunchRec
  <1> QED BY <1>1, <1>2, <1>3 DEF PunchInv, InvGrows

-----------------------------------------------------------------------------
LEMMA MapMem ==
  ASSUME MemInv, NEW v \in VCpu, Map(v) PROVE MemInv'
PROOF
  <1> DEFINE f == fault[v]
  <1>1. Types /\ CacheInv /\ CountInv /\ SetterInv /\ PunchInv /\ FaultInv /\ MapInv
        /\ ReleaseInv
    BY TypesOK DEF MemInv
  <1>2. /\ f.pc = "map" /\ f \in FaultRec /\ f.gfn \in Gfn /\ f.kind \in Kinds
        /\ UNCHANGED <<attr, mixed, bound, cache, huge, rmp, inv, setter, punch, stuck, calls>>
    BY <1>1 DEF Map, Types, FaultRec
  <1>3. CASE /\ UNCHANGED npt
             /\ fault' = [fault EXCEPT ![v] = [NoFault EXCEPT !.pc = "seq",
                             !.gfn = f.gfn, !.kind = f.kind]]
    <2> DEFINE n == [NoFault EXCEPT !.pc = "seq", !.gfn = f.gfn, !.kind = f.kind]
    <2>1. n \in FaultRec /\ n.folio = NoFolio /\ n.pc = "seq"
      BY <1>2, Facts DEF FaultRec, NoFault, FaultSteps
    <2>2. fault' = [fault EXCEPT ![v] = n]
      BY <1>3
    <2> HIDE DEF n
    <2>3. fault'[v] = n
      BY <1>1, <2>2 DEF Types
    <2>4. FaultOK(fault[v])'
      BY <2>1, <2>3, EarlyFaultPrime
    <2>5. FolioStep(0) /\ calls' \in CallRec
      BY <1>1, <1>2, KeepsFolios DEF Types
    <2> QED BY <1>2, <1>3, <2>1, <2>2, <2>4, <2>5, OneCpuStep, Facts
  <1>4. ASSUME ~Retry(f), Return(v), NEW l \in MappingLevels(f),
               npt' = MapEntry(f.gfn, [kind |-> f.kind, folio |-> f.folio,
                                       level |-> l])
        PROVE  MemInv'
    <2> DEFINE e == [kind |-> f.kind, folio |-> f.folio, level |-> l]
    <2>1. /\ fault'[v] = NoFault /\ NoFault.folio = NoFolio /\ NoFault.pc = "guest"
          /\ fault' \in [VCpu -> FaultRec]
          /\ \A w \in VCpu : w # v => fault'[w] = fault[w]
      BY <1>1, <1>4, Facts DEF Return, Types, NoFault
    <2> HIDE DEF NoFault
    <2>2. l \in Levels /\ (f.kind = "private" /\ l = "2M" => f.level = "2M")
      BY <1>2 DEF MappingLevels, FaultRec, Levels
    <2>3. e \in EntryRec /\ e.kind = f.kind /\ e.folio = f.folio /\ e.level = l
      BY <1>2, <2>2 DEF EntryRec, FaultRec
    <2>4. npt' = MapEntry(f.gfn, e)
      BY <1>4
    <2> HIDE DEF e
    <2>5. /\ npt' \in [Gfn -> EntryRec]
          /\ \A h \in Gfn : \/ npt'[h] = e /\ (h = f.gfn \/ (l = "2M" /\ h \in Region(f.gfn)))
                            \/ npt'[h] = npt[h]
                            \/ npt'[h] = [npt[h] EXCEPT !.level = "4K"]
      BY <1>1, <1>2, <2>3, <2>4, MapEntryFacts DEF Types
    <2>6. \A h \in Gfn : LET s == [npt[h] EXCEPT !.level = "4K"]
            IN s.kind = npt[h].kind /\ s.folio = npt[h].folio /\ s.level = "4K"
      BY <1>1 DEF Types, EntryRec
    <2>7. FaultOK(f)
      BY <1>1, <1>4 DEF FaultInv
    <2>8. TypeOK'
      <3>1. Types'
        BY <1>1, <1>2, <2>1, <2>5 DEF Types, CacheTypes
      <3> QED BY <3>1, TypesOKPrime
    <2>9. CountInv' /\ SetterInv'
      BY <1>1, <1>2 DEF CountInv, SetterInv
    <2>10. CacheInv'
      BY <1>1, <1>2, <2>1, CacheSame
    <2>15. ReleaseInv'
      BY <1>1, <1>2, ReleaseSame
    <2>11. \A d : Splitting(d) => Splitting(d)'
      BY <1>2, <2>1 DEF Splitting
    <2>12. PunchInv'
      <3>1. ASSUME NEW h \in punch.range PROVE npt'[h].kind # "private"
        <4>1. h \in Gfn /\ npt[h].kind # "private" /\ Region(h) \subseteq punch.range
              /\ punch.pc # "idle" /\ punch.range \subseteq inv.range
          BY <1>1 DEF PunchInv, Types, PunchRec
        <4>2. inv.count > 0
          BY <1>1, <4>1 DEF CountInv, Types, SetterRec
        <4>3. h \notin Region(f.gfn)
          <5> SUFFICES ASSUME h \in Region(f.gfn) PROVE FALSE
            OBVIOUS
          <5>1. f.gfn \in Region(h)
            BY <1>2, <4>1, RegionFacts
          <5> QED BY <1>4, <4>1, <4>2, <5>1 DEF Retry
        <4>4. h # f.gfn
          BY <1>2, <4>3, RegionFacts
        <4> QED BY <2>5, <2>6, <4>1, <4>3, <4>4
      <3> QED BY <1>1, <1>2, <3>1 DEF PunchInv
    <2>13. FaultInv'
      <3>1. ASSUME NEW w \in VCpu, w # v PROVE (Retry(fault[w]) \/ FaultOK(fault[w]))'
        <4>1. fault'[w] = fault[w]
          BY <2>1, <3>1
        <4>2. CASE Retry(fault[w])
          BY <1>2, <4>1, <4>2 DEF Retry
        <4>3. CASE FaultOK(fault[w])
          <5>1. FaultOK(fault[w])'
            BY <1>2, <2>11, <4>1, <4>3 DEF FaultOK
          <5> QED BY <5>1
        <4> QED BY <1>1, <4>2, <4>3 DEF FaultInv
      <3>2. FaultOK(fault[v])'
        BY <2>1, EarlyFaultPrime
      <3> QED BY <3>1, <3>2 DEF FaultInv
    <2>14. MapInv'
      <3>1. ASSUME NEW h \in Gfn, npt'[h].kind = "private" PROVE EntryOK(h)'
        <4>1. CASE npt'[h].kind = npt[h].kind /\ npt'[h].folio = npt[h].folio
                   /\ (npt'[h].level = "2M" => npt[h].level = "2M")
          <5>1. EntryOK(h)
            BY <1>1, <3>1, <4>1 DEF MapInv
          <5> QED BY <1>2, <2>11, <4>1, <5>1 DEF EntryOK
        <4>2. CASE npt'[h] = e /\ (h = f.gfn \/ (l = "2M" /\ h \in Region(f.gfn)))
          <5>1. f.kind = "private" /\ npt'[h].folio = f.folio /\ npt'[h].level = l
            BY <2>3, <3>1, <4>2
          <5>2. /\ bound /\ f.folio \in Folio /\ f.folio = cache[f.gfn]
                /\ rmp[f.folio][f.gfn] # "shared"
                /\ l = "2M" => /\ f.folio \in huge
                               /\ \A x \in Region(f.gfn) : rmp[f.folio][x] # "shared"
                               /\ rmp[f.folio][f.gfn] = "2M" \/ Splitting(f.folio)
            BY <1>2, <2>2, <2>7, <5>1 DEF FaultOK
          <5>3. CASE h = f.gfn
            BY <1>2, <2>11, <5>1, <5>2, <5>3 DEF EntryOK
          <5>4. CASE l = "2M" /\ h \in Region(f.gfn)
            <6>1. cache[h] = f.folio
              BY <1>1, <1>2, <5>2, <5>4 DEF CacheInv, HugeCovers
            <6>2. rmp[f.folio][f.gfn] = "2M" => rmp[f.folio][h] = "2M"
              BY <1>1, <1>2, <5>2, <5>4 DEF CacheInv, LargeEntries
            <6> QED BY <1>2, <2>11, <5>1, <5>2, <5>4, <6>1, <6>2 DEF EntryOK
          <5> QED BY <4>2, <5>3, <5>4
        <4> QED BY <2>5, <2>6, <4>1, <4>2
      <3> QED BY <3>1 DEF MapInv
    <2> QED BY <2>8, <2>9, <2>10, <2>12, <2>13, <2>14, <2>15 DEF MemInv
  <1> QED BY <1>3, <1>4 DEF Map, IsStale

LEMMA PsmashMem ==
  ASSUME MemInv, NEW v \in VCpu, Psmash(v) PROVE MemInv'
PROOF
  <1> DEFINE f == fault[v]
  <1>1. Types /\ CacheInv /\ CountInv /\ SetterInv /\ PunchInv /\ FaultInv /\ MapInv
        /\ ReleaseInv
    BY TypesOK DEF MemInv
  <1>2. /\ f.pc = "psmash" /\ f \in FaultRec
        /\ UNCHANGED <<attr, mixed, bound, cache, huge, npt, inv, setter, punch, stuck, calls>>
    BY <1>1 DEF Psmash, Types
  <1>3. CASE Return(v) /\ UNCHANGED rmp
    <2>1. FolioStep(0)
      BY <1>2, <1>3, KeepsFolios
    <2> QED BY <1>2, <1>3, <2>1, ReturnStep, Facts
  <1>4. CASE Goto(v, "zap") /\ \/ UNCHANGED rmp
                               \/ rmp' = [rmp EXCEPT ![f.folio] = Smashed(f.folio)]
    <2>1. /\ fault' \in [VCpu -> FaultRec] /\ fault'[v].pc = "zap"
          /\ fault'[v].folio = f.folio /\ fault'[v].gfn = f.gfn
          /\ \A w \in VCpu : w # v => fault'[w] = fault[w]
      <3> DEFINE n == [fault[v] EXCEPT !.pc = "zap"]
      <3>1. n \in FaultRec /\ n.pc = "zap" /\ n.folio = f.folio /\ n.gfn = f.gfn
        BY <1>2 DEF FaultRec, FaultSteps
      <3>2. fault' = [fault EXCEPT ![v] = n]
        BY <1>1, <1>4 DEF Goto, Types
      <3> HIDE DEF n
      <3> QED BY <1>1, <3>1, <3>2 DEF Types
    <2>2. /\ rmp' \in [Folio -> [Gfn -> Levels \cup {"shared"}]]
          /\ \A e \in Folio, g \in Gfn :
               /\ rmp'[e][g] = "shared" <=> rmp[e][g] = "shared"
               /\ rmp'[e][g] = "2M" => rmp[e] = rmp'[e]
               /\ rmp'[e][g] = rmp[e][g] \/ e = f.folio
      <3>1. rmp \in [Folio -> [Gfn -> Levels \cup {"shared"}]]
        BY <1>1 DEF Types, CacheTypes
      <3>2. CASE UNCHANGED rmp
        BY <3>1, <3>2
      <3>3. CASE rmp' = [rmp EXCEPT ![f.folio] = Smashed(f.folio)]
        BY <3>1, <3>3 DEF Levels, Smashed
      <3> QED BY <1>4, <3>2, <3>3
    <2>3. TypeOK'
      <3>1. Types'
        BY <1>1, <1>2, <2>1, <2>2 DEF Types, CacheTypes
      <3> QED BY <3>1, TypesOKPrime
    <2>4. CountInv' /\ SetterInv' /\ PunchInv'
      BY <1>1, <1>2 DEF CountInv, SetterInv, PunchInv
    <2>5. CacheInv'
      <3>1. OneRegion' /\ HugeCovers'
        BY <1>1, <1>2, <2>1 DEF CacheInv, OneRegion, HugeCovers
      <3>2. LargeEntries'
        BY <1>1, <2>2 DEF CacheInv, LargeEntries
      <3> QED BY <3>1, <3>2 DEF CacheInv
    <2>9. ReleaseInv'
      BY <1>1, <1>2, <2>2, ReleaseSame
    <2>6. \A d : Splitting(d) \/ d = f.folio => Splitting(d)'
      BY <1>2, <2>1 DEF Splitting
    <2>7. FaultInv'
      <3>1. ASSUME NEW w \in VCpu, w # v PROVE (Retry(fault[w]) \/ FaultOK(fault[w]))'
        <4>1. fault'[w] = fault[w] /\ fault[w].gfn \in Gfn
          BY <1>1, <2>1, <3>1 DEF Types, FaultRec
        <4>2. CASE Retry(fault[w])
          BY <1>2, <4>1, <4>2 DEF Retry
        <4>3. CASE FaultOK(fault[w])
          <5> DEFINE r == fault[w]
          <5>1. \A d \in Folio :
                   /\ \A x \in Gfn : rmp'[d][x] = "shared" <=> rmp[d][x] = "shared"
                   /\ \A x \in Gfn : rmp[d][x] = "2M" \/ Splitting(d) =>
                                     rmp'[d][x] = "2M" \/ Splitting(d)'
            BY <2>2, <2>6
          <5>2. Region(r.gfn) \subseteq Gfn
            BY <4>1, RegionFacts
          <5>3. FaultOK(fault[w])'
            BY <1>2, <4>1, <4>3, <5>1, <5>2 DEF FaultOK
          <5> QED BY <5>3
        <4> QED BY <1>1, <4>2, <4>3 DEF FaultInv
      <3>2. FaultOK(fault[v])'
        BY <2>1, EarlyFaultPrime
      <3> QED BY <3>1, <3>2 DEF FaultInv
    <2>8. MapInv'
      <3>1. ASSUME NEW h \in Gfn, npt'[h].kind = "private" PROVE EntryOK(h)'
        <4>1. EntryOK(h)
          BY <1>1, <1>2, <3>1 DEF MapInv
        <4>2. \A d \in Folio :
                 /\ rmp'[d][h] = "shared" <=> rmp[d][h] = "shared"
                 /\ rmp[d][h] = "2M" \/ Splitting(d) => rmp'[d][h] = "2M" \/ Splitting(d)'
          BY <2>2, <2>6
        <4> QED BY <1>2, <4>1, <4>2 DEF EntryOK
      <3> QED BY <3>1 DEF MapInv
    <2> QED BY <2>3, <2>4, <2>5, <2>7, <2>8, <2>9 DEF MemInv
  <1> QED BY <1>3, <1>4 DEF Psmash

LEMMA ZapRangeMem ==
  ASSUME MemInv, NEW v \in VCpu, ZapRange(v) PROVE MemInv'
PROOF
  <1> DEFINE range == {g \in Gfn : fault[v].gfn <= g /\ g < fault[v].gfn + HPage}
             fs == [fault EXCEPT ![v] = NoFault]
  <1>1. Types /\ CacheInv /\ CountInv /\ SetterInv /\ PunchInv /\ FaultInv /\ MapInv
        /\ ReleaseInv
    BY TypesOK DEF MemInv
  <1>2. /\ npt' = Zap(range) /\ inv' = InvalidateEnd(InvalidateBegin(inv, range))
        /\ fault' = SeqMoves(fs)
        /\ UNCHANGED <<attr, mixed, bound, cache, huge, rmp, setter, punch, stuck, calls>>
    BY DEF ZapRange
  <1>3. range \in SUBSET Gfn /\ fault[v].gfn \in range
    BY <1>1, Facts DEF Types, FaultRec, Gfn
  <1> HIDE DEF range
  <1>4. inv' \in InvRec /\ inv'.count = inv.count /\ InvGrows
    BY <1>1, <1>2, <1>3, BeginEndFacts DEF Types, InvGrows
  <1>5. /\ fs \in [VCpu -> FaultRec] /\ fs[v].folio = NoFolio
        /\ \A w \in VCpu : w # v => fs[w] = fault[w]
    BY <1>1, Facts DEF Types, NoFault
  <1> HIDE DEF fs
  <1>6. /\ fault' \in [VCpu -> FaultRec] /\ fault'[v].folio = NoFolio
        /\ \A w \in VCpu : w # v => /\ fault'[w].pc = fault[w].pc
                                    /\ fault'[w].folio = fault[w].folio
                                    /\ fault'[w].gfn = fault[w].gfn
    BY <1>2, <1>5, SeqMovesFacts
  <1>7. TypeOK'
    <2>1. npt' \in [Gfn -> EntryRec]
      BY <1>1, <1>2, ZapFacts DEF Types
    <2>2. Types'
      BY <1>1, <1>2, <1>4, <1>6, <2>1 DEF Types, CacheTypes
    <2> QED BY <2>2, TypesOKPrime
  <1>8. CountInv'
    BY <1>1, <1>2, <1>4 DEF CountInv
  <1>9. SetterInv'
    <2>1. setter.pc = "idle" \/ inv.count > 0
      BY <1>1 DEF Types, CountInv, SetterRec
    <2> QED BY <1>1, <1>2, <1>4, <2>1 DEF SetterInv, InvGrows
  <1>10. PunchInv'
    BY <1>1, <1>2, <1>4, HoleStays
  <1>11. CacheInv'
    BY <1>1, <1>2, <1>6, CacheSame
  <1>12. FaultInv'
    BY <1>2, <1>5, MovedFaults
  <1>13. MapInv'
    <2>1. ASSUME NEW g \in Gfn, npt'[g].kind = "private" PROVE EntryOK(g)'
      <3>1. npt'[g] = npt[g] /\ ~(npt[g].level = "2M" /\ Region(g) \cap range # {})
        BY <1>1, <1>2, <2>1, ZapPrivate DEF Types
      <3>2. EntryOK(g)
        BY <1>1, <2>1, <3>1 DEF MapInv
      <3>3. ASSUME npt[g].level = "2M", NEW w \in VCpu, fault[w].pc = "zap",
                   fault[w].folio = npt[g].folio
            PROVE  w # v
        <4> SUFFICES ASSUME w = v PROVE FALSE
          OBVIOUS
        <4>1. g \in Region(fault[v].gfn)
          BY <1>1, <3>2, <3>3, Facts DEF EntryOK, CacheInv, OneRegion
        <4>2. fault[v].gfn \in Region(g)
          BY <1>3, <4>1, RegionFacts
        <4> QED BY <1>3, <3>1, <3>3, <4>2
      <3>4. npt[g].level = "2M" => \A d : d = npt[g].folio /\ Splitting(d) => Splitting(d)'
        BY <1>6, <3>3 DEF Splitting
      <3> QED BY <1>2, <3>1, <3>2, <3>4 DEF EntryOK
    <2> QED BY <2>1 DEF MapInv
  <1>14. ReleaseInv'
    BY <1>1, <1>2, ReleaseSame
  <1> QED BY <1>7, <1>8, <1>9, <1>10, <1>11, <1>12, <1>13, <1>14 DEF MemInv

LEMMA PreSetMem ==
  ASSUME MemInv, NEW range \in SUBSET Gfn, NEW k \in Kinds, PreSet(range, k)
  PROVE  MemInv'
PROOF
  <1>1. Types /\ CacheInv /\ CountInv /\ SetterInv /\ PunchInv /\ FaultInv /\ MapInv
        /\ ReleaseInv
    BY TypesOK DEF MemInv
  <1>2. /\ setter.pc = "idle" /\ inv' = InvalidateBegin(inv, range) /\ npt' = Zap(range)
        /\ setter' = [pc |-> "store", range |-> range, to |-> k, todo |-> range]
        /\ UNCHANGED <<attr, mixed, bound, cache, huge, rmp, fault, punch, stuck>>
    BY DEF PreSet
  <1>3. inv.count < 2
    BY <1>1, <1>2 DEF CountInv
  <1>4. /\ inv' \in InvRec /\ inv'.count = inv.count + 1 /\ range \subseteq inv'.range
        /\ inv.count > 0 => inv.range \subseteq inv'.range
    BY <1>1, <1>2, <1>3, BeginFacts DEF Types
  <1>5. InvGrows
    BY <1>1, <1>4 DEF InvGrows, Types, InvRec
  <1>6. /\ setter' \in SetterRec /\ setter'.pc = "store" /\ setter'.range = range
        /\ setter'.todo = range /\ setter'.to = k
    BY <1>2 DEF SetterRec
  <1>7. TypeOK'
    <2>1. npt' \in [Gfn -> EntryRec]
      BY <1>1, <1>2, ZapFacts DEF Types
    <2>2. calls' \in CallRec
      BY <1>1, CallsFacts DEF Types, PreSet
    <2>3. Types'
      BY <1>1, <1>2, <1>4, <1>6, <2>1, <2>2 DEF Types, CacheTypes
    <2> QED BY <2>3, TypesOKPrime
  <1>8. CountInv'
    BY <1>1, <1>2, <1>4, <1>6 DEF CountInv
  <1>9. SetterInv'
    <2>1. \A g \in Gfn : g \in mixed <=> \E h \in Region(g) : attr[h] # attr[g]
      BY <1>1, <1>2 DEF SetterInv, IdleSetter
    <2> QED BY <1>2, <1>4, <1>6, <2>1 DEF SetterInv
  <1>10. PunchInv'
    BY <1>1, <1>2, <1>5, HoleStays
  <1>11. CacheInv'
    BY <1>1, <1>2, CacheSame
  <1>12. \A d : Splitting(d) => Splitting(d)'
    BY <1>2 DEF Splitting
  <1>13. FaultInv'
    <2>1. ASSUME NEW w \in VCpu PROVE (Retry(fault[w]) \/ FaultOK(fault[w]))'
      <3>1. CASE Retry(fault[w])
        BY <1>2, <1>5, <3>1, RetryGrows
      <3>2. CASE FaultOK(fault[w])
        <4>1. FaultOK(fault[w])'
          BY <1>2, <1>12, <3>2 DEF FaultOK
        <4> QED BY <4>1
      <3> QED BY <1>1, <3>1, <3>2 DEF FaultInv
    <2> QED BY <2>1 DEF FaultInv
  <1>14. MapInv'
    BY <1>1, <1>2, <1>12, ZapMaps
  <1>15. ReleaseInv'
    BY <1>1, <1>2, ReleaseSame
  <1> QED BY <1>7, <1>8, <1>9, <1>10, <1>11, <1>13, <1>14, <1>15 DEF MemInv

LEMMA StoreAttributeMem ==
  ASSUME MemInv, StoreAttribute PROVE MemInv'
PROOF
  <1>1. Types /\ CacheInv /\ CountInv /\ SetterInv /\ PunchInv /\ FaultInv /\ MapInv
        /\ ReleaseInv
    BY TypesOK DEF MemInv
  <1>2. PICK g0 \in setter.todo : /\ attr' = [attr EXCEPT ![g0] = setter.to]
                                  /\ setter' = [setter EXCEPT !.todo = @ \ {g0}]
    BY DEF StoreAttribute
  <1>3. /\ setter.pc = "store"
        /\ UNCHANGED <<mixed, bound, cache, huge, rmp, npt, inv, fault, punch,
                       stuck, calls>>
    BY DEF StoreAttribute
  <1>4. /\ g0 \in Gfn /\ g0 \in setter.range /\ g0 \in inv.range /\ inv.count > 0
        /\ setter.to \in Kinds
    BY <1>1, <1>3 DEF SetterInv, CountInv, Types, SetterRec
  <1>5. /\ attr' \in [Gfn -> Kinds] /\ attr'[g0] = setter.to
        /\ \A g \in Gfn : g # g0 => attr'[g] = attr[g]
    BY <1>1, <1>2, <1>4 DEF Types
  <1>6. /\ setter' \in SetterRec /\ setter'.pc = "store" /\ setter'.range = setter.range
        /\ setter'.to = setter.to /\ setter'.todo = setter.todo \ {g0}
    BY <1>1, <1>2, <1>3 DEF Types, SetterRec
  <1>7. TypeOK'
    <2>1. Types'
      BY <1>1, <1>3, <1>5, <1>6 DEF Types, CacheTypes
    <2> QED BY <2>1, TypesOKPrime
  <1>8. CountInv' /\ PunchInv'
    BY <1>1, <1>3, <1>6 DEF CountInv, PunchInv
  <1>9. SetterInv'
    <2>1. setter.range \subseteq Gfn
      BY <1>1 DEF Types, SetterRec
    <2>2. \A g \in setter'.range \ setter'.todo : attr'[g] = setter'.to
      BY <1>1, <1>5, <1>6, <2>1 DEF SetterInv
    <2>3. ASSUME NEW g \in Gfn, Region(g) \cap setter.range = {}
          PROVE  g \in mixed <=> \E h \in Region(g) : attr'[h] # attr'[g]
      <3>1. \A h \in Region(g) : h \in Gfn /\ h # g0 /\ attr'[h] = attr[h]
        BY <1>4, <1>5, <2>3, RegionFacts
      <3>2. attr'[g] = attr[g]
        BY <3>1, RegionFacts
      <3>3. g \in mixed <=> \E h \in Region(g) : attr[h] # attr[g]
        BY <1>1, <2>3 DEF SetterInv
      <3> QED BY <3>1, <3>2, <3>3
    <2> QED BY <1>1, <1>3, <1>6, <2>2, <2>3 DEF SetterInv
  <1>10. CacheInv'
    BY <1>1, <1>3, CacheSame
  <1>11. \A d : Splitting(d) => Splitting(d)'
    BY <1>3 DEF Splitting
  <1>12. FaultInv'
    <2>1. ASSUME NEW w \in VCpu PROVE (Retry(fault[w]) \/ FaultOK(fault[w]))'
      <3>0. fault[w].gfn \in Gfn
        BY <1>1 DEF Types, FaultRec
      <3>1. CASE Retry(fault[w])
        BY <1>3, <3>1 DEF Retry
      <3>2. CASE FaultOK(fault[w]) /\ fault[w].gfn # g0
        <4>1. FaultOK(fault[w])'
          BY <1>3, <1>5, <1>11, <3>0, <3>2 DEF FaultOK
        <4> QED BY <4>1
      <3>3. CASE fault[w].gfn = g0
        BY <1>3, <1>4, <3>3 DEF Retry
      <3> QED BY <1>1, <3>1, <3>2, <3>3 DEF FaultInv
    <2> QED BY <2>1 DEF FaultInv
  <1>13. MapInv'
    BY <1>1, <1>3, <1>11 DEF MapInv, EntryOK
  <1>14. ReleaseInv'
    BY <1>1, <1>3, ReleaseSame
  <1> QED BY <1>7, <1>8, <1>9, <1>10, <1>12, <1>13, <1>14 DEF MemInv

LEMMA PostSetMem ==
  ASSUME MemInv, PostSet PROVE MemInv'
PROOF
  <1>1. Types /\ CacheInv /\ CountInv /\ SetterInv /\ PunchInv /\ FaultInv /\ MapInv
        /\ ReleaseInv
    BY TypesOK DEF MemInv
  <1>2. /\ setter.pc = "store" /\ setter.todo = {} /\ inv' = InvalidateEnd(inv)
        /\ fault' = SeqMoves(fault) /\ mixed' = PostMixed(setter.range, setter.to)
        /\ setter' = IdleSetter
        /\ UNCHANGED <<attr, bound, cache, huge, rmp, npt, punch, stuck, calls>>
    BY DEF PostSet
  <1>3. inv \in BegunRec /\ inv.count = 1 + (IF punch.pc = "idle" THEN 0 ELSE 1)
    <2>1. inv.count = 1 + (IF punch.pc = "idle" THEN 0 ELSE 1)
      BY <1>1, <1>2 DEF CountInv
    <2>2. inv.count \in 1 .. 3
      BY <2>1
    <2> QED BY <1>1, <2>1, <2>2 DEF Types, InvRec, BegunRec
  <1>4. inv' \in InvRec /\ inv'.count = inv.count - 1 /\ inv'.range = inv.range
    BY <1>2, <1>3, EndFacts
  <1>5. /\ fault' \in [VCpu -> FaultRec]
        /\ \A w \in VCpu : /\ fault'[w].pc = fault[w].pc
                           /\ fault'[w].folio = fault[w].folio
                           /\ fault'[w].gfn = fault[w].gfn
    BY <1>1, <1>2, SeqMovesFacts DEF Types
  <1>6. mixed' \subseteq Gfn
    BY <1>1, <1>2 DEF PostMixed, Types
  <1>7. /\ setter' \in SetterRec /\ setter'.pc = "idle" /\ setter'.range = {}
        /\ setter'.todo = {}
    BY <1>2 DEF IdleSetter, SetterRec, Kinds
  <1>8. TypeOK'
    <2>1. Types'
      BY <1>1, <1>2, <1>4, <1>5, <1>6, <1>7 DEF Types, CacheTypes
    <2> QED BY <2>1, TypesOKPrime
  <1>9. CountInv'
    BY <1>1, <1>2, <1>3, <1>4, <1>7 DEF CountInv
  <1>10. PunchInv'
    BY <1>1, <1>2, <1>4 DEF PunchInv
  <1>11. SetterInv'
    <2>1. ASSUME NEW g \in Gfn
          PROVE  g \in mixed' <=> \E h \in Region(g) : attr[h] # attr[g]
      <3> DEFINE touched == {x \in Gfn : Region(x) \cap setter.range # {}}
      <3>1. mixed' = (mixed \ touched) \cup
                     {x \in touched : \E h \in Region(x) : attr[h] # setter.to}
        BY <1>2 DEF PostMixed
      <3>2. CASE Region(g) \cap setter.range = {}
        <4>1. g \in mixed <=> \E h \in Region(g) : attr[h] # attr[g]
          BY <1>1, <3>2 DEF SetterInv
        <4> QED BY <3>1, <3>2, <4>1
      <3>3. CASE Region(g) \cap setter.range # {}
        <4>1. PICK h0 \in Region(g) : h0 \in setter.range
          BY <3>3
        <4>2. attr[h0] = setter.to
          BY <1>1, <1>2, <4>1 DEF SetterInv
        <4>3. g \in mixed' <=> \E h \in Region(g) : attr[h] # setter.to
          BY <3>1, <3>3
        <4>4. g \in Region(g)
          BY RegionFacts
        <4> QED BY <4>2, <4>3, <4>4
      <3> QED BY <3>2, <3>3
    <2> QED BY <1>2, <1>7, <2>1 DEF SetterInv
  <1>12. CacheInv'
    BY <1>1, <1>2, <1>5, CacheSame
  <1>13. FaultInv'
    BY <1>1, <1>2, MovedFaults DEF Types
  <1>14. \A d : Splitting(d) => Splitting(d)'
    BY <1>5 DEF Splitting
  <1>15. MapInv'
    BY <1>1, <1>2, <1>14 DEF MapInv, EntryOK
  <1>16. ReleaseInv'
    BY <1>1, <1>2, ReleaseSame
  <1> QED BY <1>8, <1>9, <1>10, <1>11, <1>12, <1>13, <1>15, <1>16 DEF MemInv

LEMMA PunchBeginMem ==
  ASSUME MemInv, NEW range \in SUBSET Gfn, PunchBegin(range) PROVE MemInv'
PROOF
  <1>1. Types /\ CacheInv /\ CountInv /\ SetterInv /\ PunchInv /\ FaultInv /\ MapInv
        /\ ReleaseInv
    BY TypesOK DEF MemInv
  <1>2. /\ punch.pc = "idle" /\ \A g \in range : Region(g) \subseteq range
        /\ inv' = InvalidateBegin(inv, range) /\ npt' = Zap(range)
        /\ punch' = [IdlePunch EXCEPT !.pc = "truncate", !.range = range]
        /\ UNCHANGED <<attr, mixed, bound, cache, huge, rmp, fault, setter, stuck>>
    BY DEF PunchBegin
  <1>3. inv.count < 2
    BY <1>1, <1>2 DEF CountInv
  <1>4. /\ inv' \in InvRec /\ inv'.count = inv.count + 1 /\ range \subseteq inv'.range
        /\ inv.count > 0 => inv.range \subseteq inv'.range
    BY <1>1, <1>2, <1>3, BeginFacts DEF Types
  <1>5. InvGrows
    BY <1>1, <1>4 DEF InvGrows, Types, InvRec
  <1>6. /\ punch' \in PunchRec /\ punch'.pc = "truncate" /\ punch'.range = range
        /\ punch'.folio = NoFolio /\ punch'.left = {}
    BY <1>2 DEF PunchRec, IdlePunch
  <1>7. TypeOK'
    <2>1. npt' \in [Gfn -> EntryRec]
      BY <1>1, <1>2, ZapFacts DEF Types
    <2>2. calls' \in CallRec
      BY <1>1, CallsFacts DEF Types, PunchBegin
    <2>3. Types'
      BY <1>1, <1>2, <1>4, <1>6, <2>1, <2>2 DEF Types, CacheTypes
    <2> QED BY <2>3, TypesOKPrime
  <1>8. CountInv'
    BY <1>1, <1>2, <1>4, <1>6 DEF CountInv
  <1>9. SetterInv'
    <2>1. setter.pc = "idle" \/ inv.count > 0
      BY <1>1 DEF Types, CountInv, SetterRec, PunchRec
    <2> QED BY <1>1, <1>2, <1>4, <2>1 DEF SetterInv
  <1>10. PunchInv'
    <2>1. \A g \in range : npt'[g].kind # "private"
      BY <1>1, <1>2, ZapPrivate DEF Types
    <2> QED BY <1>2, <1>4, <1>6, <2>1 DEF PunchInv
  <1>11. CacheInv'
    BY <1>1, <1>2, CacheSame
  <1>12. \A d : Splitting(d) => Splitting(d)'
    BY <1>2 DEF Splitting
  <1>13. FaultInv'
    <2>1. ASSUME NEW w \in VCpu PROVE (Retry(fault[w]) \/ FaultOK(fault[w]))'
      <3>1. CASE Retry(fault[w])
        BY <1>2, <1>5, <3>1, RetryGrows
      <3>2. CASE FaultOK(fault[w])
        <4>1. FaultOK(fault[w])'
          BY <1>2, <1>12, <3>2 DEF FaultOK
        <4> QED BY <4>1
      <3> QED BY <1>1, <3>1, <3>2 DEF FaultInv
    <2> QED BY <2>1 DEF FaultInv
  <1>14. MapInv'
    BY <1>1, <1>2, <1>12, ZapMaps
  <1>15. ReleaseInv'
    BY <1>1, <1>2, <1>6, ReleaseSame DEF ReleaseInv
  <1> QED BY <1>7, <1>8, <1>9, <1>10, <1>11, <1>13, <1>14, <1>15 DEF MemInv

LEMMA TruncateMem ==
  ASSUME MemInv, NEW f \in Folio, Truncate(f) PROVE MemInv'
PROOF
  <1>1. Types /\ CacheInv /\ CountInv /\ SetterInv /\ PunchInv /\ FaultInv /\ MapInv
        /\ ReleaseInv
    BY TypesOK DEF MemInv
  <1>2. /\ punch.pc = "truncate"
        /\ cache' = [g \in Gfn |-> IF cache[g] = f THEN NoFolio ELSE cache[g]]
        /\ punch' = [punch EXCEPT !.pc = "release", !.folio = f,
                                  !.left = {g \in Gfn : cache[g] = f}]
        /\ UNCHANGED <<attr, mixed, bound, huge, rmp, npt, inv, fault, setter, stuck, calls>>
    BY DEF Truncate
  <1>3. PICK g1 \in punch.range : cache[g1] = f
    BY DEF Truncate
  <1>4. /\ punch.range \subseteq Gfn /\ punch.range \subseteq inv.range
        /\ Region(g1) \subseteq punch.range /\ inv.count > 0
    BY <1>1, <1>2 DEF PunchInv, CountInv, Types, PunchRec, SetterRec
  (* Whatever this folio backs lies in the hole.                           *)
  <1>5. \A g \in Gfn : cache[g] = f => g \in punch.range
    BY <1>1, <1>3, <1>4, Facts DEF CacheInv, OneRegion
  <1>6. /\ cache' \in [Gfn -> Folio \cup {NoFolio}]
        /\ \A g \in Gfn : cache'[g] = cache[g] \/ (cache'[g] = NoFolio /\ cache[g] = f)
        /\ \A g \in Gfn : cache'[g] # f
        /\ \A g \in Gfn : cache[g] # f => cache'[g] = cache[g]
    BY <1>1, <1>2, Facts DEF Types, CacheTypes
  <1>7. /\ punch' \in PunchRec /\ punch'.pc = "release" /\ punch'.range = punch.range
        /\ punch'.folio = f /\ punch'.left = {g \in Gfn : cache[g] = f}
    BY <1>1, <1>2 DEF Types, PunchRec
  <1>8. TypeOK'
    <2>1. Types'
      BY <1>1, <1>2, <1>6, <1>7 DEF Types, CacheTypes
    <2> QED BY <2>1, TypesOKPrime
  <1>9. CountInv' /\ SetterInv' /\ PunchInv'
    BY <1>1, <1>2, <1>7 DEF CountInv, SetterInv, PunchInv
  <1>10. CacheInv'
    <2>1. OneRegion'
      BY <1>1, <1>2, <1>6 DEF CacheInv, OneRegion
    <2>2. HugeCovers'
      <3>1. ASSUME NEW g \in Gfn, cache'[g] \in huge, NEW h \in Region(g)
            PROVE  cache'[h] = cache'[g]
        <4>1. huge \subseteq Folio
          BY <1>1 DEF Types, CacheTypes
        <4>2. cache'[g] = cache[g] /\ cache[g] # f
          BY <1>6, <3>1, <4>1, Facts
        <4>3. cache[h] = cache[g] /\ h \in Gfn
          BY <1>1, <3>1, <4>2, RegionFacts DEF CacheInv, HugeCovers
        <4> QED BY <1>6, <4>2, <4>3
      <3> QED BY <1>2, <3>1 DEF HugeCovers
    <2>3. LargeEntries'
      BY <1>1, <1>2 DEF CacheInv, LargeEntries
    <2> QED BY <2>1, <2>2, <2>3 DEF CacheInv
  <1>14. ReleaseInv'
    <2>1. punch.folio = NoFolio /\ punch.left = {}
      BY <1>1, <1>2 DEF ReleaseInv
    <2>2. ASSUME NEW e \in Folio, NEW g \in Gfn, rmp[e][g] # "shared"
          PROVE  \/ cache'[g] = e \/ (e = f /\ g \in punch'.left) \/ <<e, g>> \in stuck
      <3>1. cache[g] = e \/ <<e, g>> \in stuck
        BY <1>1, <2>1, <2>2 DEF ReleaseInv
      <3> QED BY <1>6, <1>7, <3>1
    <2>3. punch'.pc = "release" /\ punch'.folio = f /\ f # NoFolio
      BY <1>7, Facts
    <2> QED BY <1>2, <1>6, <2>2, <2>3 DEF ReleaseInv
  <1>11. \A d : Splitting(d) => Splitting(d)'
    BY <1>2 DEF Splitting
  <1>12. FaultInv'
    <2>1. ASSUME NEW w \in VCpu PROVE (Retry(fault[w]) \/ FaultOK(fault[w]))'
      <3>0. fault[w].gfn \in Gfn
        BY <1>1 DEF Types, FaultRec
      <3>1. CASE Retry(fault[w])
        BY <1>2, <3>1 DEF Retry
      <3>2. CASE fault[w].gfn \in punch.range
        BY <1>2, <1>4, <3>2 DEF Retry
      <3>3. CASE FaultOK(fault[w]) /\ fault[w].gfn \notin punch.range
        <4>1. cache[fault[w].gfn] # f /\ cache'[fault[w].gfn] = cache[fault[w].gfn]
          BY <1>5, <1>6, <3>0, <3>3
        <4>2. FaultOK(fault[w])'
          BY <1>2, <1>11, <3>3, <4>1 DEF FaultOK
        <4> QED BY <4>2
      <3> QED BY <1>1, <3>1, <3>2, <3>3 DEF FaultInv
    <2> QED BY <2>1 DEF FaultInv
  <1>13. MapInv'
    <2>1. ASSUME NEW g \in Gfn, npt[g].kind = "private" PROVE EntryOK(g)'
      <3>1. EntryOK(g) /\ g \notin punch.range
        BY <1>1, <2>1 DEF MapInv, PunchInv
      <3>2. cache[g] # f /\ cache'[g] = cache[g]
        BY <1>5, <1>6, <3>1
      <3> QED BY <1>2, <1>11, <3>1, <3>2 DEF EntryOK
    <2> QED BY <1>2, <2>1 DEF MapInv
  <1> QED BY <1>8, <1>9, <1>10, <1>12, <1>13, <1>14 DEF MemInv

(* One round of the loop of sev_gmem_invalidate: the frames it passes.     *)
LEMMA LoopFacts ==
  ASSUME punch \in PunchRec, punch.pc = "release", punch.folio # NoFolio,
         NEW done, LoopPasses(done)
  PROVE  /\ punch' \in PunchRec /\ punch'.range = punch.range
         /\ \/ /\ punch'.pc = "release" /\ punch'.folio = punch.folio
               /\ punch'.left = punch.left \ done
            \/ /\ punch'.pc = "truncate" /\ punch'.folio = NoFolio
               /\ punch'.left = {} /\ punch.left \subseteq done
PROOF
  <1> DEFINE left == punch.left \ done
  <1>1. left \subseteq Gfn
    BY DEF PunchRec
  <1>2. CASE left # {}
    <2>1. punch' = [punch EXCEPT !.left = left]
      BY <1>2 DEF LoopPasses
    <2> HIDE DEF left
    <2>2. /\ punch' \in PunchRec /\ punch'.range = punch.range
          /\ punch'.pc = punch.pc /\ punch'.folio = punch.folio /\ punch'.left = left
      BY <1>1, <2>1 DEF PunchRec
    <2> QED BY <2>2 DEF left
  <1>3. CASE left = {}
    <2>1. punch' = [punch EXCEPT !.pc = "truncate", !.folio = NoFolio, !.left = {}]
      BY <1>3 DEF LoopPasses
    <2>2. /\ punch' \in PunchRec /\ punch'.range = punch.range
          /\ punch'.pc = "truncate" /\ punch'.folio = NoFolio /\ punch'.left = {}
      BY <2>1 DEF PunchRec
    <2> QED BY <1>3, <2>2
  <1> QED BY <1>2, <1>3

(* What a round does to the entries of its folio.                          *)
RoundOK(f, done) ==
  /\ rmp' \in [Folio -> [Gfn -> Levels \cup {"shared"}]]
  /\ \A e \in Folio : e # f => rmp'[e] = rmp[e]
  /\ \A h \in Gfn : rmp[f][h] = "shared" => rmp'[f][h] = "shared"
  /\ \A h \in Gfn : rmp'[f][h] = "2M" => \A x \in Region(h) : rmp'[f][x] = "2M"
  /\ stuck \subseteq stuck' /\ stuck' \subseteq Folio \X Gfn
  /\ \A h \in done : rmp'[f][h] = "shared" \/ <<f, h>> \in stuck'

LEMMA RoundFacts ==
  ASSUME CacheTypes, LargeEntries, stuck \subseteq Folio \X Gfn,
         punch.folio \in Folio, NEW g \in Gfn,
         ReleaseSkips(g) \/ ReleaseFrames(g) \/ ReleaseFails(g)
  PROVE  \E done \in SUBSET Gfn : LoopPasses(done) /\ RoundOK(punch.folio, done)
PROOF
  <1> DEFINE f == punch.folio
  <1>1. rmp \in [Folio -> [Gfn -> Levels \cup {"shared"}]] /\ f \in Folio
    BY DEF CacheTypes
  <1>2. \A h \in Gfn : rmp[f][h] = "2M" => \A x \in Region(h) : rmp[f][x] = "2M"
    BY <1>1 DEF LargeEntries
  <1>3. Region(g) \subseteq Gfn /\ NextPfn(g) \subseteq Gfn /\ g \in Region(g)
    BY RegionFacts DEF NextPfn
  <1>4. /\ Smashed(f) \in [Gfn -> {"4K", "shared"}]
        /\ \A h \in Gfn : rmp[f][h] = "shared" => Smashed(f)[h] = "shared"
    BY <1>1 DEF Smashed, Levels
  <1>5. CASE ReleaseSkips(g)
    <2>1. LoopPasses({g}) /\ rmp' = rmp
          /\ stuck' = IF rmp[f][g] = "shared" THEN stuck ELSE stuck \cup {<<f, g>>}
      BY <1>5 DEF ReleaseSkips
    <2>2. RoundOK(f, {g})
      BY <1>1, <1>2, <2>1 DEF RoundOK
    <2> QED BY <2>1, <2>2
  <1>6. CASE ReleaseFrames(g)
    <2> DEFINE row == [h \in Gfn |-> IF h = g \/ (Use2m(g) /\ h \in Region(g))
                                     THEN "shared" ELSE Smashed(f)[h]]
    <2>1. LoopPasses(NextPfn(g)) /\ rmp' = [rmp EXCEPT ![f] = row] /\ stuck' = stuck
      BY <1>6 DEF ReleaseFrames
    <2>2. /\ row \in [Gfn -> {"4K", "shared"}]
          /\ \A h \in Gfn : rmp[f][h] = "shared" => row[h] = "shared"
          /\ \A h \in NextPfn(g) : row[h] = "shared"
      BY <1>3, <1>4 DEF NextPfn
    <2> HIDE DEF row
    <2>3. rmp' \in [Folio -> [Gfn -> Levels \cup {"shared"}]] /\ rmp'[f] = row
          /\ \A e \in Folio : e # f => rmp'[e] = rmp[e]
      BY <1>1, <2>1, <2>2 DEF Levels
    <2>4. RoundOK(f, NextPfn(g))
      BY <1>3, <2>1, <2>2, <2>3 DEF RoundOK
    <2> QED BY <1>3, <2>1, <2>4
  <1>7. CASE ReleaseFails(g)
    <2>1. /\ LoopPasses(NextPfn(g)) /\ stuck' = stuck \cup ({f} \X NextPfn(g))
          /\ rmp' = rmp \/ rmp' = [rmp EXCEPT ![f] = Smashed(f)]
      BY <1>7 DEF ReleaseFails
    <2>2. /\ stuck \subseteq stuck' /\ stuck' \subseteq Folio \X Gfn
          /\ \A h \in NextPfn(g) : <<f, h>> \in stuck'
      BY <1>1, <1>3, <2>1
    <2>3. CASE rmp' = rmp
      <3>1. RoundOK(f, NextPfn(g))
        BY <1>1, <1>2, <2>2, <2>3 DEF RoundOK
      <3> QED BY <1>3, <2>1, <3>1
    <2>4. CASE rmp' = [rmp EXCEPT ![f] = Smashed(f)]
      <3> DEFINE row == Smashed(f)
      <3>1. /\ row \in [Gfn -> {"4K", "shared"}]
            /\ \A h \in Gfn : rmp[f][h] = "shared" => row[h] = "shared"
            /\ rmp' = [rmp EXCEPT ![f] = row]
        BY <1>4, <2>4
      <3> HIDE DEF row
      <3>2. rmp' \in [Folio -> [Gfn -> Levels \cup {"shared"}]] /\ rmp'[f] = row
            /\ \A e \in Folio : e # f => rmp'[e] = rmp[e]
        BY <1>1, <3>1 DEF Levels
      <3>3. RoundOK(f, NextPfn(g))
        BY <2>2, <3>1, <3>2 DEF RoundOK
      <3> QED BY <1>3, <2>1, <3>3
    <2> QED BY <2>1, <2>3, <2>4
  <1> QED BY <1>5, <1>6, <1>7

LEMMA ReleaseFrameMem ==
  ASSUME MemInv, ReleaseFrame PROVE MemInv'
PROOF
  <1>1. Types /\ CacheInv /\ CountInv /\ SetterInv /\ PunchInv /\ FaultInv /\ MapInv
        /\ ReleaseInv
    BY TypesOK DEF MemInv
  <1>2. /\ punch.pc = "release"
        /\ UNCHANGED <<attr, mixed, bound, cache, huge, npt, inv, fault, setter, calls>>
    BY DEF ReleaseFrame
  <1> DEFINE f == punch.folio
  <1>3. /\ f \in Folio /\ f # NoFolio /\ punch.left \subseteq Gfn
        /\ punch \in PunchRec /\ \A g \in Gfn : cache[g] # f
    BY <1>1, <1>2 DEF ReleaseInv, Types, PunchRec
  <1>4. PICK done \in SUBSET Gfn : LoopPasses(done) /\ RoundOK(f, done)
    <2>1. PICK g \in punch.left : ReleaseSkips(g) \/ ReleaseFrames(g) \/ ReleaseFails(g)
      BY DEF ReleaseFrame
    <2>2. CacheTypes /\ LargeEntries /\ stuck \subseteq Folio \X Gfn
      BY <1>1 DEF Types, CacheInv
    <2> QED BY <1>3, <2>1, <2>2, RoundFacts
  <1>5. /\ punch' \in PunchRec /\ punch'.range = punch.range
        /\ \/ /\ punch'.pc = "release" /\ punch'.folio = f
              /\ punch'.left = punch.left \ done
           \/ /\ punch'.pc = "truncate" /\ punch'.folio = NoFolio
              /\ punch'.left = {} /\ punch.left \subseteq done
    BY <1>2, <1>3, <1>4, LoopFacts
  <1> HIDE DEF f
  <1>6. TypeOK'
    <2>1. Types'
      BY <1>1, <1>2, <1>4, <1>5 DEF Types, CacheTypes, RoundOK
    <2> QED BY <2>1, TypesOKPrime
  <1>7. CountInv' /\ SetterInv' /\ PunchInv'
    BY <1>1, <1>2, <1>5 DEF CountInv, SetterInv, PunchInv
  <1>8. CacheInv'
    <2>1. OneRegion' /\ HugeCovers'
      BY <1>1, <1>2 DEF CacheInv, OneRegion, HugeCovers
    <2>2. LargeEntries'
      BY <1>1, <1>4 DEF CacheInv, LargeEntries, RoundOK
    <2> QED BY <2>1, <2>2 DEF CacheInv
  <1>9. \A d : Splitting(d) => Splitting(d)'
    BY <1>2 DEF Splitting
  (* No fault that passes and no mapping is about this folio.              *)
  <1>10. \A g \in Gfn : cache[g] \in Folio => rmp'[cache[g]] = rmp[cache[g]]
    BY <1>3, <1>4 DEF RoundOK
  <1>11. FaultInv'
    <2>1. ASSUME NEW w \in VCpu PROVE (Retry(fault[w]) \/ FaultOK(fault[w]))'
      <3>0. fault[w].gfn \in Gfn
        BY <1>1 DEF Types, FaultRec
      <3>1. CASE Retry(fault[w])
        BY <1>2, <3>1 DEF Retry
      <3>2. CASE FaultOK(fault[w])
        <4>1. FaultOK(fault[w])'
          BY <1>2, <1>9, <1>10, <3>0, <3>2 DEF FaultOK
        <4> QED BY <4>1
      <3> QED BY <1>1, <3>1, <3>2 DEF FaultInv
    <2> QED BY <2>1 DEF FaultInv
  <1>12. MapInv'
    <2>1. ASSUME NEW g \in Gfn, npt[g].kind = "private" PROVE EntryOK(g)'
      <3>1. EntryOK(g)
        BY <1>1, <2>1 DEF MapInv
      <3> QED BY <1>2, <1>9, <1>10, <3>1 DEF EntryOK
    <2> QED BY <1>2, <2>1 DEF MapInv
  <1>13. ReleaseInv'
    <2>1. ASSUME NEW e \in Folio, NEW g \in Gfn, rmp'[e][g] # "shared"
          PROVE  \/ cache[g] = e \/ (e = punch'.folio /\ g \in punch'.left)
                 \/ <<e, g>> \in stuck'
      <3>1. rmp[e][g] # "shared"
        BY <1>4, <2>1 DEF RoundOK
      <3>2. cache[g] = e \/ (e = f /\ g \in punch.left) \/ <<e, g>> \in stuck
        BY <1>1, <3>1 DEF ReleaseInv, f
      <3>3. CASE e = f /\ g \in punch.left
        BY <1>4, <1>5, <2>1, <3>3 DEF RoundOK
      <3>4. stuck \subseteq stuck'
        BY <1>4 DEF RoundOK
      <3> QED BY <3>2, <3>3, <3>4
    <2> QED BY <1>2, <1>3, <1>5, <2>1 DEF ReleaseInv
  <1> QED BY <1>6, <1>7, <1>8, <1>11, <1>12, <1>13 DEF MemInv

LEMMA TruncateDoneMem ==
  ASSUME MemInv, TruncateDone PROVE MemInv'
PROOF
  <1>1. Types /\ CacheInv /\ CountInv /\ SetterInv /\ PunchInv /\ FaultInv /\ MapInv
        /\ ReleaseInv
    BY TypesOK DEF MemInv
  <1>2. /\ punch.pc = "truncate" /\ punch' = [punch EXCEPT !.pc = "end"]
        /\ UNCHANGED <<attr, mixed, bound, cache, huge, rmp, npt, inv, fault, setter, stuck, calls>>
    BY DEF TruncateDone
  <1>3. /\ punch' \in PunchRec /\ punch'.pc = "end" /\ punch'.range = punch.range
        /\ punch'.folio = punch.folio /\ punch'.left = punch.left
    BY <1>1, <1>2 DEF Types, PunchRec
  <1>4. TypeOK'
    <2>1. Types'
      BY <1>1, <1>2, <1>3 DEF Types, CacheTypes
    <2> QED BY <2>1, TypesOKPrime
  <1>5. CountInv' /\ SetterInv' /\ PunchInv'
    BY <1>1, <1>2, <1>3 DEF CountInv, SetterInv, PunchInv
  <1>6. CacheInv'
    BY <1>1, <1>2, CacheSame
  <1>7. \A d : Splitting(d) => Splitting(d)'
    BY <1>2 DEF Splitting
  <1>8. FaultInv'
    <2>1. ASSUME NEW w \in VCpu PROVE (Retry(fault[w]) \/ FaultOK(fault[w]))'
      <3>1. CASE Retry(fault[w])
        BY <1>2, <3>1 DEF Retry
      <3>2. CASE FaultOK(fault[w])
        <4>1. FaultOK(fault[w])'
          BY <1>2, <1>7, <3>2 DEF FaultOK
        <4> QED BY <4>1
      <3> QED BY <1>1, <3>1, <3>2 DEF FaultInv
    <2> QED BY <2>1 DEF FaultInv
  <1>9. MapInv'
    BY <1>1, <1>2, <1>7 DEF MapInv, EntryOK
  <1>10. ReleaseInv'
    BY <1>1, <1>2, <1>3, ReleaseSame
  <1> QED BY <1>4, <1>5, <1>6, <1>8, <1>9, <1>10 DEF MemInv

LEMMA PunchEndMem ==
  ASSUME MemInv, PunchEnd PROVE MemInv'
PROOF
  <1>1. Types /\ CacheInv /\ CountInv /\ SetterInv /\ PunchInv /\ FaultInv /\ MapInv
        /\ ReleaseInv
    BY TypesOK DEF MemInv
  <1>2. /\ punch.pc = "end" /\ inv' = InvalidateEnd(inv)
        /\ fault' = SeqMoves(fault) /\ punch' = IdlePunch
        /\ UNCHANGED <<attr, mixed, bound, cache, huge, rmp, npt, setter, stuck, calls>>
    BY DEF PunchEnd
  <1>3. inv \in BegunRec /\ inv.count = 1 + (IF setter.pc = "store" THEN 1 ELSE 0)
    <2>1. inv.count = 1 + (IF setter.pc = "store" THEN 1 ELSE 0)
      BY <1>1, <1>2 DEF CountInv
    <2>2. inv.count \in 1 .. 3
      BY <2>1
    <2> QED BY <1>1, <2>1, <2>2 DEF Types, InvRec, BegunRec
  <1>4. inv' \in InvRec /\ inv'.count = inv.count - 1 /\ inv'.range = inv.range
    BY <1>2, <1>3, EndFacts
  <1>5. /\ fault' \in [VCpu -> FaultRec]
        /\ \A w \in VCpu : /\ fault'[w].pc = fault[w].pc
                           /\ fault'[w].folio = fault[w].folio
                           /\ fault'[w].gfn = fault[w].gfn
    BY <1>1, <1>2, SeqMovesFacts DEF Types
  <1>6. /\ punch' \in PunchRec /\ punch'.pc = "idle" /\ punch'.range = {}
        /\ punch'.folio = NoFolio /\ punch'.left = {}
    BY <1>2 DEF IdlePunch, PunchRec
  <1>7. TypeOK'
    <2>1. Types'
      BY <1>1, <1>2, <1>4, <1>5, <1>6 DEF Types, CacheTypes
    <2> QED BY <2>1, TypesOKPrime
  <1>8. CountInv'
    BY <1>1, <1>2, <1>3, <1>4, <1>6 DEF CountInv
  <1>9. PunchInv'
    BY <1>6 DEF PunchInv
  <1>10. SetterInv'
    BY <1>1, <1>2, <1>4 DEF SetterInv
  <1>11. CacheInv'
    BY <1>1, <1>2, <1>5, CacheSame
  <1>12. FaultInv'
    BY <1>1, <1>2, MovedFaults DEF Types
  <1>13. \A d : Splitting(d) => Splitting(d)'
    BY <1>5 DEF Splitting
  <1>14. MapInv'
    BY <1>1, <1>2, <1>13 DEF MapInv, EntryOK
  <1>15. ReleaseInv'
    BY <1>1, <1>2, <1>6, ReleaseSame DEF ReleaseInv
  <1> QED BY <1>7, <1>8, <1>9, <1>10, <1>11, <1>12, <1>14, <1>15 DEF MemInv

LEMMA ReleaseMem ==
  ASSUME MemInv, Release PROVE MemInv'
PROOF
  <1>1. Types /\ CacheInv /\ CountInv /\ SetterInv /\ PunchInv /\ FaultInv /\ MapInv
        /\ ReleaseInv
    BY TypesOK DEF MemInv
  <1>2. /\ punch.pc = "idle" /\ setter.pc = "idle" /\ bound' = FALSE
        /\ npt' = Zap(Gfn) /\ inv' = InvalidateEnd(InvalidateBegin(inv, Gfn))
        /\ fault' = SeqMoves(fault)
        /\ UNCHANGED <<attr, mixed, cache, huge, rmp, setter, punch, stuck>>
    BY DEF Release
  <1>3. inv' \in InvRec /\ inv'.count = inv.count /\ InvGrows
    BY <1>1, <1>2, BeginEndFacts DEF Types, InvGrows
  <1>5. /\ fault' \in [VCpu -> FaultRec]
        /\ \A w \in VCpu : /\ fault'[w].folio = fault[w].folio
                           /\ fault'[w].gfn = fault[w].gfn
    BY <1>1, <1>2, SeqMovesFacts DEF Types
  <1>7. TypeOK'
    <2>1. npt' \in [Gfn -> EntryRec]
      BY <1>1, <1>2, ZapFacts DEF Types
    <2>2. calls' \in CallRec
      BY <1>1, CallsFacts DEF Types, Release
    <2>3. bound' \in BOOLEAN
      BY <1>2
    <2>4. Types'
      BY <1>1, <1>2, <1>3, <1>5, <2>1, <2>2, <2>3 DEF Types, CacheTypes
    <2> QED BY <2>4, TypesOKPrime
  <1>8. CountInv'
    BY <1>1, <1>2, <1>3 DEF CountInv
  <1>9. SetterInv'
    BY <1>1, <1>2 DEF SetterInv
  <1>10. PunchInv'
    BY <1>1, <1>2, <1>3, HoleStays
  <1>11. CacheInv'
    BY <1>1, <1>2, <1>5, CacheSame
  <1>12. FaultInv'
    BY <1>1, <1>2, MovedFaults DEF Types
  <1>13. MapInv'
    BY <1>1, <1>2, ZapPrivate DEF MapInv, Types
  <1>14. ReleaseInv'
    BY <1>1, <1>2, ReleaseSame
  <1> QED BY <1>7, <1>8, <1>9, <1>10, <1>11, <1>12, <1>13, <1>14 DEF MemInv

-----------------------------------------------------------------------------
(* The theorems                                                            *)

LEMMA MemInit == Init => MemInv
PROOF
  <1> SUFFICES ASSUME Init PROVE MemInv
    OBVIOUS
  <1>1. PICK k \in Kinds : attr = [g \in Gfn |-> k]
    BY DEF Init
  <1>2. /\ mixed = {} /\ bound = TRUE /\ cache = [g \in Gfn |-> NoFolio] /\ huge = {}
        /\ rmp = [f \in Folio |-> [g \in Gfn |-> "shared"]]
        /\ npt = [g \in Gfn |-> Unmapped] /\ inv = [count |-> 0, range |-> {}]
        /\ fault = [v \in VCpu |-> NoFault] /\ setter = IdleSetter
        /\ punch = IdlePunch /\ stuck = {} /\ calls = <<0, 0, 0>>
    BY DEF Init
  <1>3. /\ setter \in SetterRec /\ setter.pc = "idle" /\ setter.range = {}
        /\ setter.todo = {}
    BY <1>2 DEF IdleSetter, SetterRec, Kinds
  <1>4. /\ punch \in PunchRec /\ punch.pc = "idle" /\ punch.range = {}
        /\ punch.folio = NoFolio /\ punch.left = {}
    BY <1>2 DEF IdlePunch, PunchRec
  <1>5. inv \in InvRec /\ inv.count = 0
    BY <1>2 DEF InvRec
  <1>6. NoFault.pc = "guest" /\ NoFault.folio = NoFolio /\ Unmapped.kind = "none"
    BY DEF NoFault, Unmapped
  <1>7. calls \in CallRec
    BY <1>2, GuestMemAssumption DEF CallRec
  <1> HIDE DEF NoFault, Unmapped
  <1>8. Types
    <2>1. CacheTypes
      BY <1>2 DEF CacheTypes
    <2> QED BY <1>1, <1>2, <1>3, <1>4, <1>5, <1>7, <2>1, Facts DEF Types
  <1>9. CountInv
    BY <1>3, <1>4, <1>5 DEF CountInv
  <1>10. SetterInv
    <2>1. \A g \in Gfn : \A h \in Region(g) : attr[h] = attr[g]
      BY <1>1, RegionFacts
    <2> QED BY <1>2, <1>3, <2>1 DEF SetterInv
  <1>11. PunchInv
    BY <1>4 DEF PunchInv
  <1>12. CacheInv
    <2>1. OneRegion
      BY <1>2 DEF OneRegion
    <2>2. HugeCovers
      BY <1>2 DEF HugeCovers
    <2>3. LargeEntries
      BY <1>2 DEF LargeEntries
    <2> QED BY <2>1, <2>2, <2>3 DEF CacheInv
  <1>13. FaultInv
    BY <1>2, <1>6, EarlyFault DEF FaultInv
  <1>14. MapInv
    BY <1>2, <1>6 DEF MapInv
  <1>15. ReleaseInv
    BY <1>2, <1>4 DEF ReleaseInv
  <1> QED BY <1>8, <1>9, <1>10, <1>11, <1>12, <1>13, <1>14, <1>15, TypesOK DEF MemInv

LEMMA MemStutter == ASSUME MemInv, UNCHANGED vars PROVE MemInv'
PROOF
  <1>1. UNCHANGED <<attr, mixed, bound, npt, inv, setter, punch, stuck>>
        /\ UNCHANGED <<cache, huge, rmp>> /\ fault' = fault /\ calls' = calls
    BY DEF vars
  <1>2. FolioStep(0)
    BY <1>1, KeepsFolios
  <1>3. calls' \in CallRec /\ fault' \in [VCpu -> FaultRec]
    BY <1>1, TypesOK DEF MemInv, Types
  <1> QED BY <1>1, <1>2, <1>3, CpuStep, Facts

LEMMA MemStep == MemInv /\ [Next]_vars => MemInv'
PROOF
  <1> SUFFICES ASSUME MemInv, [Next]_vars PROVE MemInv'
    OBVIOUS
  <1>1. ASSUME NEW v \in VCpu, NEW g \in Gfn, RmpFault(v, g) PROVE MemInv'
    BY <1>1, RmpFaultMem
  <1>2. ASSUME NEW v \in VCpu, NEW g \in Gfn, NEW k \in Kinds, Fault(v, g, k) PROVE MemInv'
    BY <1>2, FaultMem
  <1>3. ASSUME NEW v \in VCpu, FaultStep(v) PROVE MemInv'
    BY <1>3, ReadSeqMem, CheckAttributesMem, GetPfnMem, MaxLevelMem, MapMem,
       RmpGetPfnMem, PsmashMem, ZapRangeMem DEF FaultStep
  <1>4. ASSUME NEW range \in Interval, PunchBegin(range) PROVE MemInv'
    BY <1>4, PunchBeginMem DEF Interval
  <1>5. ASSUME NEW range \in Interval, NEW k \in Kinds, PreSet(range, k) PROVE MemInv'
    BY <1>5, PreSetMem DEF Interval
  <1>6. ASSUME NEW g \in Gfn, Allocate(g) PROVE MemInv'
    BY <1>6, AllocateMem
  <1>7. CASE SetterStep
    BY <1>7, StoreAttributeMem, PostSetMem DEF SetterStep
  <1>8. CASE PunchStep
    BY <1>8, TruncateMem, ReleaseFrameMem, TruncateDoneMem, PunchEndMem DEF PunchStep
  <1>9. CASE Release
    BY <1>9, ReleaseMem
  <1>10. CASE UNCHANGED vars
    BY <1>10, MemStutter
  <1> QED BY <1>1, <1>2, <1>3, <1>4, <1>5, <1>6, <1>7, <1>8, <1>9, <1>10 DEF Next

LEMMA MemInvariant == Spec => []MemInv
PROOF
  BY MemInit, MemStep, PTL DEF Spec

(* Type correctness; with it, mmu_invalidate_in_progress never exceeds the *)
(* two threads that invalidate and never goes below zero.                  *)
THEOREM MemTypeCorrect == Spec => []TypeOK
PROOF
  <1>1. MemInv => TypeOK
    BY DEF MemInv
  <1> QED BY <1>1, MemInvariant, PTL

(* kvm_gmem_punch_hole against kvm_tdp_mmu_page_fault: a private mapping   *)
(* never outlives its place in the page cache.                             *)
THEOREM MappingsFollowCache == Spec => []NoStaleMapping
PROOF
  <1>1. MemInv => NoStaleMapping
    BY DEF MemInv, MapInv, EntryOK, NoStaleMapping
  <1> QED BY <1>1, MemInvariant, PTL

(* sev_gmem_invalidate: a folio that leaves the page cache keeps no frame  *)
(* assigned except those whose own lookup or update failed, however its    *)
(* loop interleaves with vCPUs that split large entries.                   *)
THEOREM HostGetsSharedMemory == Spec => []FreedIsShared
PROOF
  <1>1. MemInv => FreedIsShared
    BY DEF MemInv, ReleaseInv, FreedIsShared
  <1> QED BY <1>1, MemInvariant, PTL

(* sev_gmem_prepare and sev_gmem_max_level: what is mapped as private is   *)
(* assigned in the reverse map, with the size of the mapping unless a      *)
(* split is about to zap it.                                               *)
THEOREM MappingsAreAssigned == Spec => []MappedIsAssigned
PROOF
  <1>1. MemInv => MappedIsAssigned
    <2> SUFFICES ASSUME MemInv, NEW g \in Gfn, npt[g].kind = "private"
                 PROVE  \/ /\ rmp[npt[g].folio][g] # "shared"
                           /\ npt[g].level = "2M" => rmp[npt[g].folio][g] = "2M"
                        \/ \E v \in VCpu : /\ fault[v].pc = "zap"
                                           /\ fault[v].folio = npt[g].folio
      BY DEF MappedIsAssigned
    <2>1. EntryOK(g)
      BY DEF MemInv, MapInv
    <2> QED BY <2>1 DEF EntryOK, Splitting
  <1> QED BY <1>1, MemInvariant, PTL

(* kvm_arch_post_set_memory_attributes: KVM_LPAGE_MIXED_FLAG is exact      *)
(* whenever slots_lock is free, whatever ranges were set before.           *)
THEOREM MixedFlagExact == Spec => []MixedExact
PROOF
  <1>1. MemInv => MixedExact
    <2> SUFFICES ASSUME MemInv, setter.pc = "idle"
                 PROVE  mixed = {g \in Gfn : \E h \in Region(g) : attr[h] # attr[g]}
      BY DEF MixedExact
    <2>1. SetterInv /\ mixed \subseteq Gfn /\ setter.range = {}
      BY DEF MemInv, TypeOK, SetterInv, IdleSetter
    <2> QED BY <2>1 DEF SetterInv
  <1> QED BY <1>1, MemInvariant, PTL

(* Only a mapping ends a fault that is about to map.                       *)
LEMMA OnlyMapReturns ==
  ASSUME MemInv, Next, NEW v \in VCpu, fault[v].pc = "map", fault'[v].pc = "guest"
  PROVE  Map(v)
PROOF
  <1>1. fault \in [VCpu -> FaultRec] /\ fault[v] \in FaultRec
    BY TypesOK DEF MemInv, Types
  <1> SUFFICES ASSUME ~Map(v) PROVE FALSE
    OBVIOUS
  <1>2. ASSUME fault'[v] = fault[v] PROVE FALSE
    BY <1>2
  <1>3. ASSUME NEW w \in VCpu, FaultStep(w) PROVE FALSE
    <2>1. CASE w = v
      BY <1>3, <2>1 DEF FaultStep, ReadSeq, CheckAttributes, GetPfn, MaxLevel,
                        RmpGetPfn, Psmash, ZapRange
    <2>2. CASE w # v /\ ~ZapRange(w)
      <3>1. \E n : fault' = [fault EXCEPT ![w] = n]
        BY <1>3, <2>2 DEF FaultStep, ReadSeq, CheckAttributes, GetPfn, MaxLevel,
                          RmpGetPfn, Psmash, Map, Return, Goto
      <3> QED BY <1>1, <1>2, <2>2, <3>1
    <2>3. CASE w # v /\ ZapRange(w)
      <3> DEFINE fs == [fault EXCEPT ![w] = NoFault]
      <3>1. fs \in [VCpu -> FaultRec] /\ fs[v] = fault[v]
        BY <1>1, <2>3, Facts
      <3>2. fault' = SeqMoves(fs)
        BY <2>3 DEF ZapRange
      <3> HIDE DEF fs
      <3>3. fault'[v].pc = fs[v].pc
        BY <3>1, <3>2, SeqMovesFacts
      <3> QED BY <3>1, <3>3
    <2> QED BY <2>1, <2>2, <2>3
  <1>4. ASSUME fault' = SeqMoves(fault) PROVE FALSE
    <2>1. fault'[v].pc = fault[v].pc
      BY <1>1, <1>4, SeqMovesFacts
    <2> QED BY <2>1
  <1>5. ASSUME NEW w \in VCpu, NEW g \in Gfn,
               RmpFault(w, g) \/ \E k \in Kinds : Fault(w, g, k)
        PROVE  FALSE
    <2>1. fault[w].pc = "guest" /\ \E n : fault' = [fault EXCEPT ![w] = n]
      BY <1>5 DEF RmpFault, Fault
    <2> QED BY <1>1, <1>2, <2>1
  <1>6. ASSUME NEW range \in Interval,
               PunchBegin(range) \/ \E k \in Kinds : PreSet(range, k)
        PROVE  FALSE
    BY <1>2, <1>6 DEF PunchBegin, PreSet
  <1>7. ASSUME NEW g \in Gfn, Allocate(g) PROVE FALSE
    BY <1>2, <1>7 DEF Allocate
  <1>8. ASSUME SetterStep \/ PunchStep \/ Release PROVE FALSE
    BY <1>2, <1>4, <1>8 DEF SetterStep, PunchStep, Release, StoreAttribute, PostSet,
                            Truncate, ReleaseFrame, TruncateDone, PunchEnd
  <1> QED BY <1>3, <1>5, <1>6, <1>7, <1>8 DEF Next

(* is_page_fault_stale: what a fault maps for its own frame agrees with    *)
(* mem_attr_array at that moment, although the attributes were read        *)
(* without a lock.                                                         *)
THEOREM MappedAsAttribute == Spec => FaultMapsAttribute
PROOF
  <1> DEFINE A == \A v \in VCpu : fault[v].pc = "map" /\ fault'[v].pc = "guest"
                    => npt'[fault[v].gfn].kind = attr[fault[v].gfn]
  <1>1. MemInv /\ [Next]_vars => [A]_vars
    <2> SUFFICES ASSUME MemInv, Next, NEW v \in VCpu,
                        fault[v].pc = "map", fault'[v].pc = "guest"
                 PROVE  npt'[fault[v].gfn].kind = attr[fault[v].gfn]
      OBVIOUS
    <2> DEFINE f == fault[v]
    <2>1. Map(v)
      BY OnlyMapReturns
    <2>2. Types /\ FaultInv
      BY TypesOK DEF MemInv
    <2>3. f \in FaultRec /\ f.gfn \in Gfn
      BY <2>2 DEF Types, FaultRec
    <2>4. CASE fault' = [fault EXCEPT ![v] = [NoFault EXCEPT !.pc = "seq",
                             !.gfn = f.gfn, !.kind = f.kind]]
      <3>1. fault'[v].pc = "seq"
        BY <2>2, <2>4 DEF Types, NoFault
      <3> QED BY <3>1
    <2>5. ASSUME ~Retry(f), NEW l \in MappingLevels(f),
                 npt' = MapEntry(f.gfn, [kind |-> f.kind, folio |-> f.folio,
                                         level |-> l])
          PROVE  npt'[f.gfn].kind = attr[f.gfn]
      <3> DEFINE e == [kind |-> f.kind, folio |-> f.folio, level |-> l]
      <3>1. l \in Levels
        BY <2>3, <2>5 DEF MappingLevels, FaultRec, Levels
      <3>2. e \in EntryRec /\ e.kind = f.kind
        BY <2>3, <3>1 DEF EntryRec, FaultRec
      <3>3. npt' = MapEntry(f.gfn, e)
        BY <2>5
      <3> HIDE DEF e
      <3>4. npt'[f.gfn] = e
        BY <2>2, <2>3, <3>2, <3>3, MapEntryFacts DEF Types
      <3>5. FaultOK(f)
        BY <2>2, <2>5 DEF FaultInv
      <3> QED BY <3>2, <3>4, <3>5 DEF FaultOK
    <2> QED BY <2>1, <2>4, <2>5 DEF Map, IsStale
  <1> QED BY <1>1, MemInvariant, PTL DEF Spec, FaultMapsAttribute

=============================================================================
