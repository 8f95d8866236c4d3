--------------------------- MODULE DirReadProofs ---------------------------
(***************************************************************************)
(* Proofs about DirRead, for directories of any size and layout that grow  *)
(* while they are read, any positions a file system may give the entries,  *)
(* and every buffer and request size.                                      *)
(***************************************************************************)
EXTENDS DirRead, SequenceTheorems, TLAPS

Entry == [len : Nat, end : Nat, off : Nat]

(* Records lie one behind the other, and their positions grow. *)
DirInv ==
  /\ dir \in Seq(Entry)
  /\ \A i, j \in 0 .. Len(dir) : i < j => Off(i) < Off(j) /\ End(i) < End(j)

(* What has been written and the room that is left make up the request.    *)
CountInv ==
  /\ count \in Nat /\ readBytes \in Nat /\ asked \in Nat
  /\ readBytes + count = asked

DeliveredInv ==
  /\ delivered \in Seq(Nat)
  /\ \A k \in DOMAIN delivered : delivered[k] \in 1 .. Len(dir)
  /\ InOrderOnce

PosInv ==
  /\ pc \in {"idle", "loop"} /\ start \in Nat /\ sought \in BOOLEAN
  /\ fdPos \in Nat /\ fdPos <= Off(Len(dir))

(* The batch under way ends with entry last, and the position lies there.  *)
BatchEnds(last) ==
  /\ cur - 1 <= last /\ remaining = End(last) - End(cur - 1)
  /\ Off(last) <= fdPos /\ (cur - 1 < last => fdPos = Off(last))
  /\ last < Len(dir) => fdPos < Off(last + 1)

(* In the loop, ptr is as far before the end of the batch as remaining     *)
(* says, and the entries before it are done with.                          *)
LoopInv ==
  pc = "loop" =>
    /\ cur \in 1 .. Len(dir) + 1
    /\ \E last \in 0 .. Len(dir) : BatchEnds(last)
    /\ \A k \in DOMAIN delivered : delivered[k] < cur
    /\ \A i \in 1 .. Len(dir) : i < cur /\ Named(i) /\ start < Off(i) => Received(i)

(* Between requests everything delivered lies before the position, unless  *)
(* a seek has moved it where positions are no bytes.                       *)
IdleInv ==
  /\ pc = "idle" /\ (ByteOffsets \/ ~sought) =>
       \A k \in DOMAIN delivered : Off(delivered[k]) <= fdPos
  /\ CompleteUnlessFull

ReadInv == DirInv /\ CountInv /\ DeliveredInv /\ PosInv /\ LoopInv /\ IdleInv
-----------------------------------------------------------------------------
(* Where entries end. *)
LEMMA OffFacts ==
  ASSUME DirInv
  PROVE  /\ Len(dir) \in Nat
         /\ Off(0) = 0 /\ End(0) = 0
         /\ \A i \in 0 .. Len(dir) : Off(i) \in Nat /\ End(i) \in Nat
         /\ \A i \in 1 .. Len(dir) : dir[i].len \in Nat
         /\ \A i, j \in 0 .. Len(dir) : i <= j <=> Off(i) <= Off(j)
         /\ \A i, j \in 0 .. Len(dir) : i <= j <=> End(i) <= End(j)
<1>1. Len(dir) \in Nat /\ \A i \in 1 .. Len(dir) : dir[i] \in Entry
  BY DEF DirInv
<1>2. ASSUME NEW i \in 1 .. Len(dir)
      PROVE  dir[i].len \in Nat /\ Off(i) \in Nat /\ End(i) \in Nat
  <2>1. dir[i] \in Entry /\ i # 0
    BY <1>1
  <2>2. dir[i].len \in Nat /\ dir[i].off \in Nat /\ dir[i].end \in Nat
    BY <2>1 DEF Entry
  <2>3. Off(i) = dir[i].off /\ End(i) = dir[i].end
    BY <2>1 DEF Off, End
  <2> QED
    BY <2>2, <2>3
<1>3. Off(0) = 0 /\ End(0) = 0
  BY DEF Off, End
<1>4. \A i \in 0 .. Len(dir) : Off(i) \in Nat /\ End(i) \in Nat
  BY <1>1, <1>2, <1>3
<1>5. ASSUME NEW i \in 0 .. Len(dir), NEW j \in 0 .. Len(dir)
      PROVE  (i <= j <=> Off(i) <= Off(j)) /\ (i <= j <=> End(i) <= End(j))
  <2>1. i < j => Off(i) < Off(j) /\ End(i) < End(j)
    BY DEF DirInv
  <2>2. j < i => Off(j) < Off(i) /\ End(j) < End(i)
    BY DEF DirInv
  <2>3. /\ Off(i) \in Nat /\ Off(j) \in Nat /\ End(i) \in Nat /\ End(j) \in Nat
    BY <1>4
  <2>4. i = j => Off(i) = Off(j) /\ End(i) = End(j)
    OBVIOUS
  <2> HIDE DEF Off, End
  <2> QED
    BY <2>1, <2>2, <2>3, <2>4, <1>1
<1> QED
  BY <1>1, <1>2, <1>3, <1>4, <1>5

LEMMA ReadInit == Init => ReadInv
<1> SUFFICES ASSUME Init PROVE ReadInv
  OBVIOUS
<1>1. DirInv /\ PosInv
  <2>1. Len(dir) = 0 /\ dir \in Seq(Entry)
    BY DEF Init
  <2>2. Off(Len(dir)) = 0
    BY <2>1 DEF Off
  <2>3. 0 .. Len(dir) = {0}
    BY <2>1
  <2>4. DirInv
    <3>1. ~(0 < 0)
      OBVIOUS
    <3> HIDE DEF Off, End
    <3> QED
      BY <3>1, <2>1, <2>3 DEF DirInv
  <2>5. pc \in {"idle", "loop"} /\ sought \in BOOLEAN
    BY DEF Init
  <2>6. start \in Nat /\ fdPos \in Nat /\ fdPos <= 0
    BY DEF Init
  <2> QED
    BY <2>2, <2>4, <2>5, <2>6 DEF PosInv
<1>2. CountInv /\ LoopInv
  BY DEF Init, CountInv, LoopInv
<1>3. DeliveredInv
  BY DEF Init, DeliveredInv, InOrderOnce
<1>4. IdleInv
  <2>1. Len(dir) = 0
    BY DEF Init
  <2> QED
    BY <2>1 DEF Init, IdleInv, CompleteUnlessFull, Complete
<1> QED
  BY <1>1, <1>2, <1>3, <1>4 DEF ReadInv

(* An entry at the end leaves the others where they are.                   *)
LEMMA CreateFacts ==
  ASSUME DirInv, NEW len \in Nat, NEW rec \in Nat \ {0}, NEW gap \in Nat \ {0},
         CreateEntry(len, rec, gap)
  PROVE  /\ DirInv' /\ Len(dir') = Len(dir) + 1
         /\ \A i \in 1 .. Len(dir) : dir'[i] = dir[i]
         /\ \A i \in 0 .. Len(dir) : Off(i)' = Off(i) /\ End(i)' = End(i)
         /\ \A n : n = Len(dir) + 1 => Off(n)' = Off(Len(dir)) + gap
         /\ ByteOffsets' => ByteOffsets
<1> DEFINE e == [len |-> len, end |-> End(Len(dir)) + rec,
                 off |-> Off(Len(dir)) + gap]
<1>1. /\ Len(dir) \in Nat
      /\ \A i \in 0 .. Len(dir) : Off(i) \in Nat /\ End(i) \in Nat
      /\ \A i, j \in 0 .. Len(dir) : i <= j <=> Off(i) <= Off(j)
      /\ \A i, j \in 0 .. Len(dir) : i <= j <=> End(i) <= End(j)
  BY OffFacts
<1>2. dir' = Append(dir, e) /\ dir \in Seq(Entry)
  BY DEF CreateEntry, DirInv
<1>3. e \in Entry
  BY <1>1 DEF Entry
<1>4. e.off = Off(Len(dir)) + gap /\ e.end = End(Len(dir)) + rec
  OBVIOUS
<1> HIDE DEF e
<1>5. /\ dir' \in Seq(Entry) /\ Len(dir') = Len(dir) + 1
      /\ \A i \in 1 .. Len(dir) : dir'[i] = dir[i]
      /\ dir'[Len(dir) + 1] = e
  BY <1>2, <1>3, AppendProperties
<1>6. ASSUME NEW i \in 0 .. Len(dir) PROVE Off(i)' = Off(i) /\ End(i)' = End(i)
  BY <1>1, <1>5 DEF Off, End
<1>7. ASSUME NEW n, n = Len(dir) + 1
      PROVE  Off(n)' = Off(Len(dir)) + gap /\ End(n)' = End(Len(dir)) + rec
  BY <1>1, <1>4, <1>5, <1>7 DEF Off, End
<1>8. ASSUME NEW i \in 0 .. Len(dir) + 1, NEW j \in 0 .. Len(dir) + 1, i < j
      PROVE  Off(i)' < Off(j)' /\ End(i)' < End(j)'
  <2>1. /\ i \in 0 .. Len(dir) /\ Off(i)' = Off(i) /\ Off(i) \in Nat
        /\ End(i)' = End(i) /\ End(i) \in Nat
    BY <1>1, <1>6, <1>8
  <2>2. CASE j \in 0 .. Len(dir)
    BY <2>1, <2>2, <1>6, <1>8 DEF DirInv
  <2>3. CASE j = Len(dir) + 1
    <3>1. /\ Off(i) <= Off(Len(dir)) /\ Off(Len(dir)) \in Nat
          /\ End(i) <= End(Len(dir)) /\ End(Len(dir)) \in Nat
      BY <1>1, <2>1
    <3> QED
      BY <2>1, <2>3, <3>1, <1>7
  <2> QED
    BY <1>1, <2>2, <2>3
<1>9. DirInv'
  BY <1>5, <1>8 DEF DirInv
<1>10. ByteOffsets' => ByteOffsets
  BY <1>1, <1>5, <1>6 DEF ByteOffsets
<1> QED
  BY <1>5, <1>6, <1>7, <1>9, <1>10

LEMMA CreateStep ==
  ASSUME ReadInv, NEW len \in Nat, NEW rec \in Nat \ {0}, NEW gap \in Nat \ {0},
         CreateEntry(len, rec, gap)
  PROVE  ReadInv'
<1> USE DEF ReadInv
<1>1. /\ fdPos' = fdPos /\ pc' = pc /\ cur' = cur /\ remaining' = remaining
      /\ count' = count /\ readBytes' = readBytes /\ delivered' = delivered
      /\ asked' = asked /\ start' = start /\ sought' = sought
  BY DEF CreateEntry, answerVars, callVars
<1>2. /\ DirInv' /\ Len(dir') = Len(dir) + 1
      /\ \A i \in 1 .. Len(dir) : dir'[i] = dir[i]
      /\ \A i \in 0 .. Len(dir) : Off(i)' = Off(i) /\ End(i)' = End(i)
      /\ \A n : n = Len(dir) + 1 => Off(n)' = Off(Len(dir)) + gap
      /\ ByteOffsets' => ByteOffsets
  BY CreateFacts
<1>3. /\ Len(dir) \in Nat
      /\ \A i \in 0 .. Len(dir) : Off(i) \in Nat /\ End(i) \in Nat
  BY OffFacts
<1>4. CountInv'
  BY <1>1 DEF CountInv
<1>5. DeliveredInv'
  BY <1>1, <1>2, <1>3 DEF DeliveredInv, InOrderOnce
<1>6. ASSUME NEW n, n = Len(dir) + 1 PROVE fdPos < Off(n)'
  <2>1. Off(n)' = Off(Len(dir)) + gap /\ Off(Len(dir)) \in Nat
    BY <1>2, <1>3, <1>6
  <2> QED
    BY <2>1 DEF PosInv
<1>7. PosInv'
  <2>1. PICK n \in Nat : n = Len(dir) + 1
    BY <1>3
  <2>2. fdPos <= Off(n)'
    <3>1. Off(n)' = Off(Len(dir)) + gap /\ Off(Len(dir)) \in Nat
      BY <1>2, <1>3, <2>1
    <3> QED
      BY <3>1 DEF PosInv
  <2>3. Off(Len(dir))' = Off(n)'
    BY <2>1, <1>2 DEF Off
  <2> QED
    BY <2>2, <2>3, <1>1 DEF PosInv
<1>8. ASSUME NEW i \in 1 .. Len(dir'), Off(i)' <= fdPos
      PROVE  i \in 1 .. Len(dir) /\ Off(i)' = Off(i) /\ Named(i)' = Named(i)
  <2>1. i # Len(dir) + 1
    <3>1. ASSUME i = Len(dir) + 1 PROVE FALSE
      <4>1. Off(i)' = Off(Len(dir)) + gap /\ Off(Len(dir)) \in Nat
        BY <3>1, <1>2, <1>3
      <4> QED
        BY <4>1, <1>8 DEF PosInv
    <3> QED
      BY <3>1
  <2>2. i \in 1 .. Len(dir)
    BY <2>1, <1>2, <1>3
  <2> QED
    BY <2>2, <1>2, <1>3 DEF Named
<1>9. LoopInv'
  <2> SUFFICES ASSUME pc = "loop" PROVE LoopInv'
    BY <1>1 DEF LoopInv
  <2>1. PICK c \in Int : c = cur - 1
    BY <1>3 DEF LoopInv
  <2>2. PICK last \in 0 .. Len(dir) : BatchEnds(last)
    BY DEF LoopInv
  <2>3. /\ cur \in 1 .. Len(dir) + 1 /\ c \in 0 .. Len(dir)
        /\ c <= last /\ remaining = End(last) - End(c)
        /\ Off(last) <= fdPos /\ (c < last => fdPos = Off(last))
        /\ last < Len(dir) => fdPos < Off(last + 1)
    BY <1>3, <2>1, <2>2 DEF LoopInv, BatchEnds
  <2>4. /\ Off(last)' = Off(last) /\ End(last)' = End(last) /\ End(c)' = End(c)
        /\ cur' - 1 = c
    BY <1>1, <1>2, <2>1, <2>3
  <2>5. End(cur - 1)' = End(c)
    BY <2>4 DEF End
  <2>6. last < Len(dir') => fdPos' < Off(last + 1)'
    <3>1. CASE last < Len(dir)
      <4>1. last + 1 \in 0 .. Len(dir)
        BY <3>1, <1>3
      <4> QED
        BY <4>1, <3>1, <2>3, <1>1, <1>2
    <3>2. CASE last = Len(dir)
      <4>1. PICK n \in Nat : n = last + 1
        BY <1>3
      <4>2. fdPos < Off(n)'
        BY <3>2, <4>1, <1>6
      <4> QED
        BY <4>1, <4>2, <1>1
    <3> QED
      BY <3>1, <3>2, <1>3
  <2>7. BatchEnds(last)' /\ last \in 0 .. Len(dir')
    BY <2>3, <2>4, <2>5, <2>6, <1>1, <1>2, <1>3 DEF BatchEnds
  <2>8. ASSUME NEW i \in 1 .. Len(dir'), i < cur', Named(i)', start' < Off(i)'
        PROVE  Received(i)'
    <3>1. i \in 1 .. Len(dir)
      BY <2>8, <2>3, <1>1, <1>3
    <3>2. Named(i) /\ start < Off(i) /\ i < cur
      BY <2>8, <3>1, <1>1, <1>2 DEF Named
    <3>3. Received(i)
      BY <3>1, <3>2 DEF LoopInv
    <3> QED
      BY <3>3, <1>1 DEF Received
  <2>9. (\A k \in DOMAIN delivered' : delivered'[k] < cur') /\ cur' \in 1 .. Len(dir') + 1
    BY <1>1, <1>2, <1>3, <2>3 DEF LoopInv
  <2> QED
    BY <2>7, <2>8, <2>9 DEF LoopInv
<1>10. IdleInv'
  <2>1. ASSUME pc = "idle", ByteOffsets' \/ ~sought,
               NEW k \in DOMAIN delivered, NEW d, d = delivered[k]
        PROVE  Off(d)' <= fdPos
    BY <2>1, <1>2 DEF IdleInv, DeliveredInv
  <2>2. ASSUME pc = "idle", ByteOffsets' \/ ~sought, readBytes # asked \/ asked = 0,
               NEW i \in 1 .. Len(dir'), Named(i)', start < Off(i)', Off(i)' <= fdPos
        PROVE  Received(i)
    BY <2>2, <1>2, <1>8 DEF IdleInv, CompleteUnlessFull, Complete
  <2>3. CompleteUnlessFull'
    BY <2>2, <1>1 DEF CompleteUnlessFull, Complete, Received
  <2>4. (pc = "idle" /\ (ByteOffsets \/ ~sought) =>
           \A k \in DOMAIN delivered : Off(delivered[k]) <= fdPos)'
    BY <2>1, <1>1 DEF Off
  <2> QED
    BY <2>3, <2>4 DEF IdleInv
<1> QED
  BY <1>2, <1>4, <1>5, <1>7, <1>9, <1>10

(* What the steps of a request have in common. *)
LEMMA SameDir ==
  ASSUME ReadInv, dir' = dir
  PROVE  /\ DirInv' /\ ByteOffsets' = ByteOffsets
         /\ \A i : Off(i)' = Off(i) /\ End(i)' = End(i) /\ Named(i)' = Named(i)
BY DEF ReadInv, DirInv, Off, End, Named, ByteOffsets

(* A new request keeps what was delivered, or starts anew.                 *)
LEMMA StartFacts ==
  ASSUME ReadInv, NEW n \in Nat, StartRequest(n)
  PROVE  /\ dir' = dir /\ pc = "idle" /\ sought' = FALSE
         /\ count' = n /\ asked' = n /\ readBytes' = 0 /\ start' = fdPos
         /\ CountInv' /\ DeliveredInv'
         /\ \A k \in DOMAIN delivered' :
              delivered'[k] \in 1 .. Len(dir) /\ Off(delivered'[k]) <= fdPos
<1>1. /\ dir' = dir /\ pc = "idle" /\ sought' = FALSE
      /\ count' = n /\ asked' = n /\ readBytes' = 0 /\ start' = fdPos
      /\ delivered' = IF sought /\ ~ByteOffsets THEN <<>> ELSE delivered
  BY DEF StartRequest
<1>2. CountInv'
  BY <1>1 DEF CountInv
<1>3. CASE sought /\ ~ByteOffsets
  <2>1. delivered' = <<>>
    BY <1>1, <1>3
  <2>2. DOMAIN delivered' = {} /\ delivered' \in Seq(Nat)
    BY <2>1
  <2>3. DeliveredInv'
    BY <2>2 DEF DeliveredInv, InOrderOnce
  <2> QED
    BY <1>1, <1>2, <2>2, <2>3
<1>4. CASE ByteOffsets \/ ~sought
  <2>1. delivered' = delivered
    BY <1>1, <1>4 DEF ReadInv, PosInv
  <2>2. DeliveredInv'
    BY <1>1, <2>1 DEF ReadInv, DeliveredInv, InOrderOnce
  <2>3. \A k \in DOMAIN delivered :
          delivered[k] \in 1 .. Len(dir) /\ Off(delivered[k]) <= fdPos
    BY <1>1, <1>4 DEF ReadInv, IdleInv, DeliveredInv
  <2> QED
    BY <1>1, <1>2, <2>1, <2>2, <2>3
<1> QED
  BY <1>3, <1>4 DEF ReadInv, PosInv

LEMMA GetdentsStep ==
  ASSUME ReadInv, NEW n \in Nat, Getdents(n)
  PROVE  ReadInv'
<1> USE DEF ReadInv
<1>1. /\ dir' = dir /\ pc = "idle" /\ pc' = "loop" /\ sought' = FALSE
      /\ start' = fdPos /\ CountInv' /\ DeliveredInv'
      /\ \A m \in DOMAIN delivered' :
           delivered'[m] \in 1 .. Len(dir) /\ Off(delivered'[m]) <= fdPos
  BY StartFacts DEF Getdents
<1>2. PICK k \in 0 .. Len(dir), last \in 0 .. Len(dir) :
        /\ Off(k) <= fdPos /\ (k < Len(dir) => fdPos < Off(k + 1))
        /\ k <= last
        /\ fdPos' = IF last = k THEN fdPos ELSE Off(last)
        /\ remaining' = End(last) - End(k) /\ cur' = k + 1
  BY DEF Getdents, Batch
<1>3. /\ DirInv'
      /\ \A i : Off(i)' = Off(i) /\ End(i)' = End(i) /\ Named(i)' = Named(i)
  BY <1>1, SameDir
<1>4. /\ Len(dir) \in Nat /\ \A i \in 0 .. Len(dir) : Off(i) \in Nat /\ End(i) \in Nat
      /\ \A i, j \in 0 .. Len(dir) : i <= j <=> Off(i) <= Off(j)
  BY OffFacts
<1>5. PosInv'
  <2>1. fdPos' \in Nat /\ fdPos' <= Off(Len(dir))
    BY <1>2, <1>4 DEF PosInv
  <2>2. Off(Len(dir))' = Off(Len(dir))
    BY <1>1 DEF Off
  <2> QED
    BY <2>1, <2>2, <1>1 DEF PosInv
<1>6. cur' - 1 = k /\ cur' \in 1 .. Len(dir') + 1
  BY <1>1, <1>2, <1>4
<1>7. BatchEnds(last)'
  <2>1. End(cur - 1)' = End(k)
    BY <1>1, <1>6 DEF End
  <2>2. Off(last) <= fdPos' /\ (k < last => fdPos' = Off(last))
    BY <1>2, <1>4
  <2>3. last < Len(dir) => fdPos' < Off(last + 1)
    <3>1. CASE last = k
      BY <3>1, <1>2
    <3>2. CASE last # k /\ last < Len(dir)
      <4>1. last + 1 \in 0 .. Len(dir) /\ last < last + 1
        BY <3>2, <1>4
      <4>2. Off(last) < Off(last + 1)
        BY <4>1 DEF DirInv
      <4> QED
        BY <3>2, <4>2, <1>2
    <3> QED
      BY <3>1, <3>2
  <2>4. Off(last)' = Off(last) /\ End(last)' = End(last) /\ Off(last + 1)' = Off(last + 1)
    BY <1>3
  <2> QED
    BY <1>1, <1>2, <1>6, <2>1, <2>2, <2>3, <2>4 DEF BatchEnds
<1>8. ASSUME NEW m \in DOMAIN delivered' PROVE delivered'[m] < k + 1
  <2>1. PICK d \in 1 .. Len(dir) : d = delivered'[m] /\ Off(d) <= fdPos
    BY <1>1
  <2>2. CASE k = Len(dir)
    BY <2>1, <2>2, <1>4
  <2>3. CASE k < Len(dir)
    <3>1. k + 1 \in 0 .. Len(dir) /\ d \in 0 .. Len(dir)
      BY <2>3, <1>4
    <3>2. ~(Off(k + 1) <= Off(d))
      <4>1. Off(k + 1) \in Nat /\ Off(d) \in Nat /\ fdPos \in Nat
        BY <3>1, <1>4 DEF PosInv
      <4> QED
        BY <4>1, <2>1, <2>3, <1>2
    <3>3. ~(k + 1 <= d)
      BY <3>1, <3>2, <1>4
    <3> QED
      BY <3>1, <3>3, <2>1, <1>4
  <2> QED
    BY <2>2, <2>3, <1>2, <1>4
<1>9. ASSUME NEW i \in 1 .. Len(dir), i < k + 1, fdPos < Off(i) PROVE FALSE
  <2>1. i \in 0 .. Len(dir) /\ i <= k
    BY <1>9, <1>4
  <2>2. Off(i) <= Off(k) /\ Off(i) \in Nat /\ Off(k) \in Nat /\ fdPos \in Nat
    BY <2>1, <1>4 DEF PosInv
  <2> QED
    BY <2>2, <1>9, <1>2
<1>10. LoopInv'
  <2>1. \A i \in 1 .. Len(dir') : i < cur' /\ Named(i)' /\ start' < Off(i)' => Received(i)'
    BY <1>1, <1>2, <1>3, <1>9
  <2>2. last \in 0 .. Len(dir')
    BY <1>1
  <2>3. \A m \in DOMAIN delivered' : delivered'[m] < cur'
    BY <1>2, <1>8
  <2> QED
    BY <2>1, <2>2, <2>3, <1>6, <1>7 DEF LoopInv
<1>11. IdleInv'
  BY <1>1 DEF IdleInv, CompleteUnlessFull
<1> QED
  BY <1>1, <1>3, <1>5, <1>10, <1>11

LEMMA GetdentsFailsStep ==
  ASSUME ReadInv, NEW n \in Nat, GetdentsFails(n)
  PROVE  ReadInv'
<1>1. /\ dir' = dir /\ pc = "idle" /\ pc' = "idle" /\ sought' = FALSE
      /\ start' = fdPos /\ fdPos' = fdPos /\ CountInv' /\ DeliveredInv'
      /\ \A m \in DOMAIN delivered' :
           delivered'[m] \in 1 .. Len(dir) /\ Off(delivered'[m]) <= fdPos
  BY StartFacts DEF GetdentsFails
<1>2. /\ DirInv'
      /\ \A i : Off(i)' = Off(i) /\ End(i)' = End(i) /\ Named(i)' = Named(i)
  BY <1>1, SameDir
<1>3. LoopInv'
  BY <1>1 DEF LoopInv
<1>4. PosInv'
  BY <1>1, <1>2 DEF ReadInv, PosInv, Off
<1>5. CompleteUnlessFull'
  <2>1. \A i \in 0 .. Len(dir) : Off(i) \in Nat
    BY OffFacts DEF ReadInv
  <2>2. Len(dir) \in Nat /\ fdPos \in Nat
    BY OffFacts DEF ReadInv, PosInv
  <2> QED
    BY <1>1, <1>2, <2>1, <2>2 DEF CompleteUnlessFull, Complete
<1>6. (pc = "idle" /\ (ByteOffsets \/ ~sought) =>
         \A k \in DOMAIN delivered : Off(delivered[k]) <= fdPos)'
  BY <1>1 DEF Off
<1> QED
  BY <1>1, <1>2, <1>3, <1>4, <1>5, <1>6 DEF ReadInv, IdleInv
-----------------------------------------------------------------------------
(* The record under ptr belongs to the batch, which ends at the position.  *)
LEMMA EntryFacts ==
  ASSUME ReadInv, AtEntry
  PROVE  /\ cur \in 1 .. Len(dir) /\ Len(dir) \in Nat /\ dir[cur].len \in Nat
         /\ Off(cur) \in Nat /\ fdPos \in Nat /\ Off(cur) <= fdPos
         /\ \E last \in 0 .. Len(dir) :
              /\ BatchEnds(last) /\ cur <= last /\ fdPos = Off(last)
              /\ End(last) \in Nat /\ End(cur) \in Nat /\ End(cur - 1) \in Nat
              /\ remaining = End(last) - End(cur - 1)
<1> USE DEF ReadInv
<1>1. /\ Len(dir) \in Nat
      /\ \A i \in 0 .. Len(dir) : Off(i) \in Nat /\ End(i) \in Nat
      /\ \A i \in 1 .. Len(dir) : dir[i].len \in Nat
      /\ \A i, j \in 0 .. Len(dir) : i <= j <=> Off(i) <= Off(j)
  BY OffFacts
<1>2. PICK last \in 0 .. Len(dir) : BatchEnds(last)
  BY DEF LoopInv, AtEntry
<1>3. PICK c \in Int : c = cur - 1
  BY <1>1 DEF LoopInv, AtEntry
<1>4. /\ cur \in 1 .. Len(dir) + 1 /\ remaining > 0 /\ c <= last
      /\ remaining = End(last) - End(c) /\ (c < last => fdPos = Off(last))
  BY <1>2, <1>3 DEF LoopInv, AtEntry, BatchEnds
<1>5. c \in 0 .. Len(dir) /\ End(c) \in Nat /\ End(last) \in Nat
  BY <1>1, <1>3, <1>4
<1>6. c # last
  <2>1. c = last => End(c) = End(last)
    OBVIOUS
  <2> HIDE DEF End
  <2> QED
    BY <2>1, <1>4, <1>5
<1>7. /\ cur \in 1 .. Len(dir) /\ cur \in 0 .. Len(dir) /\ cur <= last
      /\ fdPos = Off(last)
  BY <1>1, <1>3, <1>4, <1>5, <1>6
<1>8. /\ Off(cur) <= Off(last) /\ Off(cur) \in Nat /\ Off(last) \in Nat
      /\ End(cur) \in Nat /\ dir[cur].len \in Nat
  BY <1>1, <1>7
<1>9. /\ End(cur - 1) \in Nat /\ remaining = End(last) - End(cur - 1)
  BY <1>3, <1>4, <1>5
<1> QED
  BY <1>1, <1>2, <1>5, <1>7, <1>8, <1>9

(* On to the next record, with this one left out or delivered.             *)
LEMMA AdvanceStep ==
  ASSUME ReadInv, AtEntry, Advance, dir' = dir, fdPos' = fdPos, start' = start,
         pc' = "loop", sought' = sought,
         Named(cur) => \E k \in DOMAIN delivered' : delivered'[k] = cur,
         \A i : Received(i) => Received(i)',
         \A k \in DOMAIN delivered' : delivered'[k] \in Int /\ delivered'[k] <= cur
  PROVE  PosInv' /\ LoopInv' /\ IdleInv'
<1>1. /\ DirInv'
      /\ \A i : Off(i)' = Off(i) /\ End(i)' = End(i) /\ Named(i)' = Named(i)
  BY SameDir
<1>2. cur \in 1 .. Len(dir) /\ Len(dir) \in Nat
  BY EntryFacts
<1>3. PICK last \in 0 .. Len(dir) :
        /\ BatchEnds(last) /\ cur <= last /\ fdPos = Off(last)
        /\ End(last) \in Nat /\ End(cur) \in Nat /\ End(cur - 1) \in Nat
        /\ remaining = End(last) - End(cur - 1)
  BY EntryFacts
<1>4. PosInv'
  BY <1>1 DEF ReadInv, PosInv, Off
<1>5. cur' = cur + 1 /\ remaining' = End(last) - End(cur)
  BY <1>2, <1>3 DEF Advance, RecLen
<1>6. cur' - 1 = cur /\ cur' \in 1 .. Len(dir') + 1
  BY <1>2, <1>5
<1>7. End(cur - 1)' = End(cur)
  BY <1>6 DEF End
<1>8. BatchEnds(last)'
  <2>1. /\ Off(last) <= fdPos /\ (last < Len(dir) => fdPos < Off(last + 1))
    BY <1>3 DEF BatchEnds
  <2>2. Off(last)' = Off(last) /\ End(last)' = End(last) /\ Off(last + 1)' = Off(last + 1)
    BY <1>1
  <2> QED
    BY <2>1, <2>2, <1>3, <1>5, <1>6, <1>7 DEF BatchEnds
<1>9. ASSUME NEW k \in DOMAIN delivered' PROVE delivered'[k] < cur'
  <2>1. delivered'[k] <= cur /\ delivered'[k] \in Int
    OBVIOUS
  <2> QED
    BY <2>1, <1>2, <1>5
<1>10. ASSUME NEW i \in 1 .. Len(dir'), i < cur', Named(i)', start' < Off(i)'
       PROVE  Received(i)'
  <2>1. Named(i) /\ start < Off(i) /\ i \in 1 .. Len(dir)
    BY <1>1, <1>10
  <2>2. CASE i = cur
    BY <2>1, <2>2 DEF Received
  <2>3. CASE i < cur
    BY <2>1, <2>3 DEF ReadInv, LoopInv, AtEntry
  <2> QED
    BY <1>2, <1>5, <1>10, <2>2, <2>3
<1>11. LoopInv'
  <2>1. last \in 0 .. Len(dir')
    OBVIOUS
  <2> QED
    BY <2>1, <1>6, <1>8, <1>9, <1>10 DEF LoopInv
<1>12. IdleInv'
  BY DEF IdleInv, CompleteUnlessFull
<1> QED
  BY <1>4, <1>11, <1>12

LEMMA SkipDotsStep ==
  ASSUME ReadInv, SkipDots
  PROVE  ReadInv'
<1>1. /\ AtEntry /\ ~Named(cur) /\ Advance /\ dir' = dir /\ fdPos' = fdPos
      /\ pc' = pc /\ count' = count /\ readBytes' = readBytes
      /\ delivered' = delivered /\ asked' = asked /\ start' = start
      /\ sought' = sought
  BY DEF SkipDots, answerVars, callVars
<1>2. DirInv'
  BY <1>1, SameDir
<1>3. CountInv' /\ DeliveredInv'
  BY <1>1 DEF ReadInv, CountInv, DeliveredInv, InOrderOnce
<1>4. \A i : Received(i) => Received(i)'
  BY <1>1 DEF Received
<1>5. ASSUME NEW k \in DOMAIN delivered'
      PROVE  delivered'[k] \in Int /\ delivered'[k] <= cur
  <2>1. delivered[k] < cur /\ delivered[k] \in 1 .. Len(dir)
    BY <1>1 DEF ReadInv, LoopInv, AtEntry, DeliveredInv
  <2>2. cur \in Int /\ delivered[k] \in Int
    BY <1>1, <2>1, EntryFacts
  <2> QED
    BY <2>1, <2>2, <1>1
<1>6. pc' = "loop"
  BY <1>1 DEF AtEntry
<1>7. PosInv' /\ LoopInv' /\ IdleInv'
  BY <1>1, <1>4, <1>5, <1>6, AdvanceStep
<1> QED
  BY <1>2, <1>3, <1>7 DEF ReadInv

(* The seek never moves forward; where positions are bytes, it leads to    *)
(* the start of the record under ptr.                                      *)
LEMMA SeekFacts ==
  ASSUME ReadInv, AtEntry
  PROVE  /\ SeekBack \in Nat /\ SeekBack <= fdPos
         /\ \A c \in Int : c = cur - 1 =>
              c \in 0 .. Len(dir) /\ (ByteOffsets => SeekBack = Off(c))
<1>1. /\ cur \in 1 .. Len(dir) /\ Len(dir) \in Nat /\ fdPos \in Nat
  BY EntryFacts
<1>2. PICK last \in 0 .. Len(dir) :
        /\ cur <= last /\ fdPos = Off(last)
        /\ End(last) \in Nat /\ End(cur - 1) \in Nat
        /\ remaining = End(last) - End(cur - 1)
  BY EntryFacts
<1>3. remaining \in Nat
  BY <1>2 DEF AtEntry
<1>4. SeekBack \in Nat /\ SeekBack <= fdPos
  BY <1>1, <1>3 DEF SeekBack
<1>5. ASSUME NEW c \in Int, c = cur - 1
      PROVE  c \in 0 .. Len(dir) /\ (ByteOffsets => SeekBack = Off(c))
  <2>1. c \in 0 .. Len(dir) /\ last \in 1 .. Len(dir)
    BY <1>1, <1>2, <1>5
  <2>2. ASSUME ByteOffsets PROVE SeekBack = Off(c)
    <3>1. Off(last) = End(last)
      BY <2>1, <2>2 DEF ByteOffsets
    <3>2. CASE c = 0
      <4>1. Off(c) = 0 /\ End(c) = 0
        BY <3>2 DEF Off, End
      <4> QED
        BY <4>1, <3>1, <1>2, <1>5 DEF SeekBack
    <3>3. CASE c # 0
      <4>1. c \in 1 .. Len(dir)
        BY <3>3, <2>1, <1>1
      <4>2. Off(c) = End(c)
        BY <4>1, <2>2 DEF ByteOffsets
      <4> QED
        BY <4>2, <3>1, <1>2, <1>5 DEF SeekBack
    <3> QED
      BY <3>2, <3>3
  <2> QED
    BY <2>1, <2>2
<1> QED
  BY <1>4, <1>5

LEMMA OverflowStep ==
  ASSUME ReadInv, Overflow
  PROVE  ReadInv'
<1>1. /\ AtEntry /\ dir' = dir /\ fdPos' = SeekBack /\ pc' = "idle"
      /\ count' = count /\ readBytes' = readBytes /\ sought' = TRUE
      /\ delivered' = delivered /\ asked' = asked /\ start' = start
  BY DEF Overflow, answerVars, callVars
<1>2. /\ DirInv' /\ ByteOffsets' = ByteOffsets
      /\ \A i : Off(i)' = Off(i) /\ Named(i)' = Named(i)
  BY <1>1, SameDir
<1>3. CountInv' /\ DeliveredInv' /\ LoopInv'
  BY <1>1 DEF ReadInv, CountInv, DeliveredInv, InOrderOnce, LoopInv
<1>4. /\ cur \in 1 .. Len(dir) /\ Len(dir) \in Nat /\ fdPos \in Nat
  BY <1>1, EntryFacts
<1>5. PICK c \in Int : c = cur - 1
  BY <1>4
<1>6. /\ fdPos' \in Nat /\ fdPos' <= fdPos /\ c \in 0 .. Len(dir)
      /\ ByteOffsets => fdPos' = Off(c)
  BY <1>1, <1>5, SeekFacts
<1>7. /\ \A i \in 0 .. Len(dir) : Off(i) \in Nat
      /\ \A i, j \in 0 .. Len(dir) : i <= j <=> Off(i) <= Off(j)
  BY OffFacts DEF ReadInv
<1>8. PosInv'
  <2>1. fdPos <= Off(Len(dir)) /\ Off(Len(dir)) \in Nat /\ start \in Nat
    BY <1>4, <1>7 DEF ReadInv, PosInv
  <2>2. fdPos' <= Off(Len(dir))
    BY <2>1, <1>4, <1>6
  <2>3. Off(Len(dir))' = Off(Len(dir))
    BY <1>1 DEF Off
  <2> QED
    BY <2>1, <2>2, <2>3, <1>1, <1>6 DEF PosInv
<1>9. ASSUME NEW k \in DOMAIN delivered PROVE Off(delivered[k]) <= Off(c)
  <2>1. delivered[k] < cur /\ delivered[k] \in 1 .. Len(dir)
    BY <1>1 DEF ReadInv, LoopInv, AtEntry, DeliveredInv
  <2>2. delivered[k] \in 0 .. Len(dir) /\ delivered[k] <= c
    BY <2>1, <1>4, <1>5
  <2> QED
    BY <2>2, <1>6, <1>7
<1>10. ASSUME NEW i \in 1 .. Len(dir), Named(i), start < Off(i), Off(i) <= Off(c)
       PROVE  Received(i)
  <2>1. i \in 0 .. Len(dir) /\ i <= c
    BY <1>4, <1>6, <1>7, <1>10
  <2>2. i < cur
    BY <2>1, <1>4, <1>5
  <2> QED
    BY <2>2, <1>1, <1>10 DEF ReadInv, LoopInv, AtEntry
<1>11. CompleteUnlessFull'
  <2> SUFFICES ASSUME ByteOffsets PROVE Complete'
    BY <1>1, <1>2 DEF CompleteUnlessFull
  <2> QED
    BY <1>1, <1>2, <1>6, <1>10 DEF Complete, Received
<1>12. (pc = "idle" /\ (ByteOffsets \/ ~sought) =>
          \A k \in DOMAIN delivered : Off(delivered[k]) <= fdPos)'
  <2> SUFFICES ASSUME ByteOffsets
               PROVE  (\A k \in DOMAIN delivered : Off(delivered[k]) <= fdPos)'
    BY <1>1, <1>2
  <2> QED
    BY <1>1, <1>6, <1>9 DEF Off
<1> QED
  BY <1>2, <1>3, <1>8, <1>11, <1>12 DEF ReadInv, IdleInv

(* A name is added behind the smaller ones. *)
LEMMA DeliverFacts ==
  ASSUME ReadInv, AtEntry, delivered' = Append(delivered, cur), dir' = dir
  PROVE  /\ DeliveredInv'
         /\ \E k \in DOMAIN delivered' : delivered'[k] = cur
         /\ \A i : Received(i) => Received(i)'
         /\ \A k \in DOMAIN delivered' : delivered'[k] \in Int /\ delivered'[k] <= cur
<1>1. /\ delivered \in Seq(Nat) /\ InOrderOnce
      /\ \A k \in DOMAIN delivered :
           delivered[k] \in 1 .. Len(dir) /\ delivered[k] < cur
  BY DEF ReadInv, DeliveredInv, LoopInv, AtEntry
<1>2. cur \in 1 .. Len(dir) /\ Len(dir) \in Nat /\ cur \in Nat
  BY EntryFacts
<1>3. /\ delivered' \in Seq(Nat) /\ Len(delivered') = Len(delivered) + 1
      /\ \A k \in 1 .. Len(delivered) : delivered'[k] = delivered[k]
      /\ delivered'[Len(delivered) + 1] = cur
  BY <1>1, <1>2, AppendProperties
<1>4. /\ DOMAIN delivered = 1 .. Len(delivered) /\ Len(delivered) \in Nat
      /\ DOMAIN delivered' = 1 .. Len(delivered) + 1
  BY <1>1, <1>3
<1>5. \E k \in DOMAIN delivered' : delivered'[k] = cur
  BY <1>3, <1>4
<1>6. \A i : Received(i) => Received(i)'
  BY <1>3, <1>4 DEF Received
<1>7. ASSUME NEW k \in DOMAIN delivered'
      PROVE  delivered'[k] \in 1 .. Len(dir) /\ delivered'[k] <= cur
  <2>1. CASE k \in 1 .. Len(delivered)
    <3>1. delivered'[k] = delivered[k] /\ delivered[k] < cur /\ delivered[k] \in 1 .. Len(dir)
      BY <2>1, <1>1, <1>3, <1>4
    <3> QED
      BY <3>1, <1>2
  <2>2. CASE k = Len(delivered) + 1
    BY <2>2, <1>2, <1>3
  <2> QED
    BY <2>1, <2>2, <1>4
<1>8. ASSUME NEW i \in DOMAIN delivered', NEW j \in DOMAIN delivered', i < j
      PROVE  delivered'[i] < delivered'[j]
  <2>1. i \in 1 .. Len(delivered) /\ delivered'[i] = delivered[i]
    BY <1>3, <1>4, <1>8
  <2>2. CASE j \in 1 .. Len(delivered)
    BY <2>1, <2>2, <1>1, <1>3, <1>4, <1>8 DEF InOrderOnce
  <2>3. CASE j = Len(delivered) + 1
    BY <2>1, <2>3, <1>1, <1>3, <1>4
  <2> QED
    BY <2>2, <2>3, <1>4
<1>9. DeliveredInv'
  BY <1>3, <1>7, <1>8 DEF DeliveredInv, InOrderOnce
<1> QED
  BY <1>5, <1>6, <1>7, <1>9, <1>2

LEMMA CopyStep ==
  ASSUME ReadInv, Copy
  PROVE  ReadInv'
<1>1. /\ AtEntry /\ Named(cur) /\ Fits(cur) /\ dir' = dir /\ fdPos' = fdPos
      /\ delivered' = Append(delivered, cur)
      /\ readBytes' = readBytes + dir[cur].len
      /\ count' = count - dir[cur].len
      /\ asked' = asked /\ start' = start /\ sought' = sought
  BY DEF Copy, callVars
<1>2. DirInv' /\ \A i : Off(i)' = Off(i) /\ Named(i)' = Named(i)
  BY <1>1, SameDir
<1>3. /\ cur \in 1 .. Len(dir) /\ Len(dir) \in Nat
      /\ Off(cur) \in Nat /\ fdPos \in Nat /\ Off(cur) <= fdPos
      /\ dir[cur].len \in Nat
  BY <1>1, EntryFacts
<1>4. /\ DeliveredInv'
      /\ \E k \in DOMAIN delivered' : delivered'[k] = cur
      /\ \A i : Received(i) => Received(i)'
      /\ \A k \in DOMAIN delivered' : delivered'[k] \in Int /\ delivered'[k] <= cur
  BY <1>1, DeliverFacts
<1>5. CountInv' /\ dir[cur].len > 0
  <2> DEFINE l == dir[cur].len
  <2>1. /\ l \in Nat /\ l # 0 /\ l <= count
        /\ count \in Nat /\ readBytes \in Nat /\ asked \in Nat
        /\ readBytes + count = asked
    BY <1>1, <1>3 DEF ReadInv, CountInv, Fits, Named
  <2>2. readBytes' = readBytes + l /\ count' = count - l /\ asked' = asked
    BY <1>1
  <2> HIDE DEF l
  <2>3. CountInv' /\ l > 0
    BY <2>1, <2>2 DEF CountInv
  <2> QED
    BY <2>3 DEF l
<1>6. CASE count' # 0
  <2>1. Advance /\ pc' = "loop"
    BY <1>1, <1>6 DEF Copy, AtEntry
  <2>2. PosInv' /\ LoopInv' /\ IdleInv'
    BY <2>1, <1>1, <1>4, AdvanceStep
  <2> QED
    BY <1>2, <1>4, <1>5, <2>2 DEF ReadInv
<1>7. CASE count' = 0
  <2>1. pc' = "idle"
    BY <1>7 DEF Copy
  <2>2. PosInv' /\ LoopInv'
    BY <2>1, <1>1, <1>2 DEF ReadInv, PosInv, Off, LoopInv
  <2>3. readBytes' = asked' /\ asked' # 0
    BY <1>1, <1>3, <1>5, <1>7 DEF ReadInv, CountInv
  <2>4. CompleteUnlessFull'
    BY <2>3 DEF CompleteUnlessFull
  <2>5. ASSUME NEW k \in DOMAIN delivered', NEW d, d = delivered'[k]
        PROVE  Off(d) <= fdPos
    <3>1. d \in 1 .. Len(dir) /\ d <= cur
      BY <2>5, <1>1, <1>4 DEF DeliveredInv
    <3>2. d \in 0 .. Len(dir) /\ cur \in 0 .. Len(dir)
      BY <3>1, <1>3
    <3>3. Off(d) <= Off(cur) /\ Off(d) \in Nat
      BY <3>1, <3>2, OffFacts DEF ReadInv
    <3> QED
      BY <3>3, <1>3
  <2>6. (pc = "idle" /\ (ByteOffsets \/ ~sought) =>
           \A k \in DOMAIN delivered : Off(delivered[k]) <= fdPos)'
    BY <2>5, <1>1 DEF Off
  <2> QED
    BY <1>2, <1>4, <1>5, <2>2, <2>4, <2>6 DEF ReadInv, IdleInv
<1> QED
  BY <1>6, <1>7

LEMMA EndStep ==
  ASSUME ReadInv, EndOfBatch
  PROVE  ReadInv'
<1>1. /\ pc = "loop" /\ ~(remaining > 0) /\ pc' = "idle"
      /\ dir' = dir /\ fdPos' = fdPos /\ count' = count /\ readBytes' = readBytes
      /\ delivered' = delivered /\ asked' = asked /\ start' = start
      /\ sought' = sought
  BY DEF EndOfBatch, answerVars, callVars
<1>2. DirInv' /\ \A i : Off(i)' = Off(i) /\ Named(i)' = Named(i)
  BY <1>1, SameDir
<1>3. CountInv' /\ DeliveredInv' /\ PosInv' /\ LoopInv'
  BY <1>1, <1>2 DEF ReadInv, CountInv, DeliveredInv, InOrderOnce, PosInv, Off, LoopInv
<1>4. /\ Len(dir) \in Nat
      /\ \A i \in 0 .. Len(dir) : Off(i) \in Nat /\ End(i) \in Nat
      /\ \A i, j \in 0 .. Len(dir) : i <= j <=> Off(i) <= Off(j)
      /\ \A i, j \in 0 .. Len(dir) : i <= j <=> End(i) <= End(j)
  BY OffFacts DEF ReadInv
<1>5. PICK last \in 0 .. Len(dir) : BatchEnds(last)
  BY <1>1 DEF ReadInv, LoopInv
<1>6. PICK c \in Int : c = cur - 1
  BY <1>1, <1>4 DEF ReadInv, LoopInv
<1>7. /\ cur \in 1 .. Len(dir) + 1 /\ c \in 0 .. Len(dir) /\ c <= last
      /\ remaining = End(last) - End(c) /\ Off(last) <= fdPos
      /\ last < Len(dir) => fdPos < Off(last + 1)
  BY <1>1, <1>4, <1>5, <1>6 DEF ReadInv, LoopInv, BatchEnds
<1>8. c = last
  <2>1. End(last) <= End(c)
    <3>1. End(last) \in Nat /\ End(c) \in Nat
      BY <1>4, <1>7
    <3> QED
      BY <3>1, <1>1, <1>7
  <2>2. last <= c
    BY <2>1, <1>4, <1>7
  <2> QED
    BY <2>2, <1>4, <1>7
<1>9. ASSUME NEW k \in DOMAIN delivered PROVE Off(delivered[k]) <= fdPos
  <2>1. PICK d \in 1 .. Len(dir) : d = delivered[k] /\ d < cur
    BY <1>1 DEF ReadInv, LoopInv, DeliveredInv
  <2>2. d \in 0 .. Len(dir) /\ d <= last
    BY <2>1, <1>4, <1>6, <1>7, <1>8
  <2>3. /\ Off(d) <= Off(last) /\ Off(d) \in Nat /\ Off(last) \in Nat
        /\ fdPos \in Nat
    BY <2>2, <1>4 DEF ReadInv, PosInv
  <2> QED
    BY <2>1, <2>3, <1>7
<1>10. ASSUME NEW i \in 1 .. Len(dir), Named(i), start < Off(i), Off(i) <= fdPos
       PROVE  Received(i)
  <2>1. i < cur
    <3>1. ASSUME ~(i < cur) PROVE FALSE
      <4>1. /\ last < Len(dir) /\ last + 1 \in 0 .. Len(dir) /\ i \in 0 .. Len(dir)
            /\ last + 1 <= i
        BY <3>1, <1>4, <1>6, <1>7, <1>8
      <4>2. /\ Off(last + 1) <= Off(i) /\ Off(last + 1) \in Nat /\ Off(i) \in Nat
            /\ fdPos \in Nat /\ fdPos < Off(last + 1)
        BY <4>1, <1>4, <1>7 DEF ReadInv, PosInv
      <4> QED
        BY <4>2, <1>10
    <3> QED
      BY <3>1
  <2> QED
    BY <2>1, <1>1, <1>10 DEF ReadInv, LoopInv
<1>11. CompleteUnlessFull'
  BY <1>1, <1>2, <1>10 DEF CompleteUnlessFull, Complete, Received
<1>12. (pc = "idle" /\ (ByteOffsets \/ ~sought) =>
          \A k \in DOMAIN delivered : Off(delivered[k]) <= fdPos)'
  BY <1>1, <1>9 DEF Off
<1> QED
  BY <1>2, <1>3, <1>11, <1>12 DEF ReadInv, IdleInv

LEMMA ReadStep ==
  ASSUME ReadInv, [Next]_vars
  PROVE  ReadInv'
<1>1. ASSUME NEW len \in Lens \cup {0}, NEW rec \in RecLens, NEW gap \in Gaps,
             CreateEntry(len, rec, gap)
      PROVE  ReadInv'
  <2>1. len \in Nat /\ rec \in Nat \ {0} /\ gap \in Nat \ {0}
    BY DirAssumption
  <2> QED
    BY <1>1, <2>1, CreateStep
<1>2. ASSUME NEW n \in Counts, Getdents(n) \/ GetdentsFails(n)
      PROVE  ReadInv'
  <2>1. n \in Nat
    BY DirAssumption
  <2> QED
    BY <1>2, <2>1, GetdentsStep, GetdentsFailsStep
<1>3. CASE SkipDots
  BY <1>3, SkipDotsStep
<1>4. CASE Overflow
  BY <1>4, OverflowStep
<1>5. CASE Copy
  BY <1>5, CopyStep
<1>6. CASE EndOfBatch
  BY <1>6, EndStep
<1>7. CASE UNCHANGED vars
  <2>1. /\ dir' = dir /\ fdPos' = fdPos /\ pc' = pc /\ cur' = cur
        /\ remaining' = remaining /\ count' = count /\ readBytes' = readBytes
        /\ delivered' = delivered /\ asked' = asked /\ start' = start
        /\ sought' = sought
    BY <1>7 DEF vars, answerVars, callVars
  <2>2. DirInv' /\ CountInv' /\ DeliveredInv' /\ PosInv'
    BY <2>1, SameDir DEF ReadInv, CountInv, DeliveredInv, InOrderOnce, PosInv, Off
  <2>3. LoopInv'
    BY <2>1 DEF ReadInv, LoopInv, BatchEnds, Off, End, Named, Received
  <2>4. IdleInv'
    BY <2>1 DEF ReadInv, IdleInv, CompleteUnlessFull, Complete, ByteOffsets, Off,
       End, Named, Received
  <2> QED
    BY <2>2, <2>3, <2>4 DEF ReadInv
<1> QED
  BY <1>1, <1>2, <1>3, <1>4, <1>5, <1>6, <1>7 DEF Next

LEMMA ReadInvariant == Spec => []ReadInv
BY ReadInit, ReadStep, PTL DEF Spec
-----------------------------------------------------------------------------
(* The trustlet never gets an entry twice or out of order, however its     *)
(* requests cut the directory up and whatever is created meanwhile: from   *)
(* one seek back to the next with any positions, and through all of them   *)
(* where the file system's positions are bytes, as the lseek takes them.   *)
THEOREM DeliversInOrder == Spec => []InOrderOnce
<1>1. ReadInv => InOrderOnce
  BY DEF ReadInv, DeliveredInv
<1> QED
  BY <1>1, ReadInvariant, PTL

(* The names never run over the room the request has in read.buf.          *)
THEOREM AnswerFits == Spec => []WithinCount
<1>1. ReadInv => WithinCount
  BY DEF ReadInv, CountInv, WithinCount
<1> QED
  BY <1>1, ReadInvariant, PTL

(* An entry is lost only behind a name that fills the answer exactly, or   *)
(* by a seek back where positions are no bytes.                            *)
THEOREM LosesOnlyWhenFull == Spec => []CompleteUnlessFull
<1>1. ReadInv => CompleteUnlessFull
  BY DEF ReadInv, IdleInv
<1> QED
  BY <1>1, ReadInvariant, PTL
=============================================================================
