------------------------- MODULE InputChannelProofs -------------------------
(***************************************************************************)
(* A request that respects the limits of the decoder is decoded as it was  *)
(* packed, for every limit, name, number of arguments, module and whatever *)
(* the channel held before.                                                *)
(***************************************************************************)
EXTENDS InputChannel, TLAPS

Byte == [of : {"name", "arg", "wasm", "zero"}, at : Nat]
Sizes == [name : Nat, argc : Nat, wasm : Nat]

(* The channel starts with the payload of the last request. *)
ChannelInv ==
  /\ sent \in Sizes
  /\ header = [wasm |-> sent.wasm, name |-> sent.name, argc |-> sent.argc]
  /\ body \in Seq(Byte)
  /\ Len(Payload(sent)) <= Len(body)
  /\ \A i \in 1 .. Len(Payload(sent)) : body[i] = Payload(sent)[i]

(* The sender pads the name alone, the decoder aligns the offset from the  *)
(* start of the channel: both put the arguments at the same place, because *)
(* the header is a multiple of 4.                                          *)
LEMMA SameArgOffset ==
  ASSUME NEW n \in Nat
  PROVE  /\ ArgOffset(n) = HeaderSize + PaddedLen(n)
         /\ PaddedLen(n) \in Nat
         /\ n <= PaddedLen(n)
BY Z3 DEF ArgOffset, Align4, HeaderSize, PaddedLen

(* A function on 1 .. n is a sequence of length n. *)
LEMMA SeqOfLength ==
  ASSUME NEW S, NEW n \in Nat, NEW f \in [1 .. n -> S]
  PROVE  f \in Seq(S) /\ Len(f) = n
OBVIOUS

(* What stands where in a payload. *)
LEMMA PayloadParts ==
  ASSUME NEW r \in Sizes
  PROVE  LET p == Payload(r)
             pad == PaddedLen(r.name)
         IN /\ p \in Seq(Byte)
            /\ Len(p) = pad + 4 * r.argc + r.wasm
            /\ \A i \in 1 .. r.name : p[i] = NameBytes(r)[i]
            /\ \A i \in 1 .. 4 * r.argc : p[pad + i] = ArgBytes(r)[i]
            /\ \A i \in 1 .. r.wasm : p[pad + 4 * r.argc + i] = WasmBytes(r)[i]
<1> DEFINE pad == PaddedLen(r.name)
           z == Zeros(pad - r.name)
<1>1. r.name \in Nat /\ r.argc \in Nat /\ r.wasm \in Nat
  BY DEF Sizes
<1>2. pad \in Nat /\ r.name <= pad
  BY <1>1, SameArgOffset
<1> HIDE DEF pad
<1>3. /\ NameBytes(r) \in Seq(Byte) /\ Len(NameBytes(r)) = r.name
      /\ WasmBytes(r) \in Seq(Byte) /\ Len(WasmBytes(r)) = r.wasm
  <2>1. NameBytes(r) \in [1 .. r.name -> Byte]
    BY <1>1 DEF NameBytes, Byte
  <2>2. WasmBytes(r) \in [1 .. r.wasm -> Byte]
    BY <1>1 DEF WasmBytes, Byte
  <2>. QED BY <1>1, <2>1, <2>2, SeqOfLength
<1>4. ArgBytes(r) \in Seq(Byte) /\ Len(ArgBytes(r)) = 4 * r.argc
  <2>1. 4 * r.argc \in Nat
    BY <1>1
  <2>2. ArgBytes(r) \in [1 .. 4 * r.argc -> Byte]
    BY <2>1 DEF ArgBytes, Byte
  <2>. QED BY <2>1, <2>2, SeqOfLength
<1>5. z \in Seq(Byte) /\ Len(z) = pad - r.name
  <2>1. pad - r.name \in Nat
    BY <1>1, <1>2
  <2>2. z \in [1 .. pad - r.name -> Byte]
    BY <2>1 DEF Zeros, ZeroByte, Byte
  <2> HIDE DEF z
  <2>. QED BY <2>1, <2>2, SeqOfLength
<1>6. Payload(r) = ((NameBytes(r) \o z) \o ArgBytes(r)) \o WasmBytes(r)
  BY DEF Payload, pad
<1>7. r.name + (pad - r.name) = pad
  BY <1>1, <1>2
<1> HIDE DEF z
<1> DEFINE N == NameBytes(r)
           A == ArgBytes(r)
           W == WasmBytes(r)
           p == ((N \o z) \o A) \o W
<1>8. /\ p \in Seq(Byte)
      /\ Len(p) = (Len(N) + Len(z)) + Len(A) + Len(W)
      /\ \A i \in 1 .. Len(N) : p[i] = N[i]
      /\ \A i \in 1 .. Len(A) : p[(Len(N) + Len(z)) + i] = A[i]
      /\ \A i \in 1 .. Len(W) : p[(Len(N) + Len(z)) + Len(A) + i] = W[i]
  <2> HIDE DEF N, A, W
  <2>1. N \in Seq(Byte) /\ z \in Seq(Byte) /\ A \in Seq(Byte) /\ W \in Seq(Byte)
    BY <1>3, <1>4, <1>5 DEF N, A, W
  <2> DEFINE nz == N \o z
             nza == nz \o A
  <2>2. /\ nz \in Seq(Byte) /\ Len(nz) = Len(N) + Len(z)
        /\ Len(N) \in Nat /\ Len(z) \in Nat
        /\ \A i \in 1 .. Len(N) : nz[i] = N[i]
    BY <2>1
  <2> HIDE DEF nz
  <2>3. /\ nza \in Seq(Byte) /\ Len(nza) = Len(nz) + Len(A) /\ Len(A) \in Nat
        /\ \A i \in 1 .. Len(nz) : nza[i] = nz[i]
        /\ \A i \in 1 .. Len(A) : nza[Len(nz) + i] = A[i]
    <3>1. nz \in Seq(Byte)
      BY <2>2
    <3>. QED BY <2>1, <3>1
  <2> HIDE DEF nza
  <2>4. /\ p \in Seq(Byte) /\ Len(p) = Len(nza) + Len(W) /\ Len(W) \in Nat
        /\ \A i \in 1 .. Len(nza) : p[i] = nza[i]
        /\ \A i \in 1 .. Len(W) : p[Len(nza) + i] = W[i]
    <3> DEFINE q == nza \o W
    <3>1. nza \in Seq(Byte)
      BY <2>3
    <3>2. /\ q \in Seq(Byte) /\ Len(q) = Len(nza) + Len(W) /\ Len(W) \in Nat
          /\ \A i \in 1 .. Len(nza) : q[i] = nza[i]
          /\ \A i \in 1 .. Len(W) : q[Len(nza) + i] = W[i]
      BY <2>1, <3>1
    <3>3. p = q
      BY DEF p, nza, nz
    <3>. QED BY <3>2, <3>3
  <2> HIDE DEF p
  <2>5. ASSUME NEW i \in 1 .. Len(N) PROVE p[i] = N[i]
    <3>1. /\ Len(N) \in Nat /\ Len(z) \in Nat /\ Len(A) \in Nat
          /\ Len(nz) = Len(N) + Len(z) /\ Len(nza) = Len(nz) + Len(A)
      BY <2>2, <2>3
    <3>2. i \in 1 .. Len(nz) /\ i \in 1 .. Len(nza)
      BY <3>1
    <3>3. nz[i] = N[i]
      BY <2>2
    <3>4. nza[i] = nz[i]
      BY <3>2, <2>3
    <3>5. p[i] = nza[i]
      BY <3>2, <2>4
    <3>. QED BY <3>3, <3>4, <3>5
  <2>6. ASSUME NEW i \in 1 .. Len(A) PROVE p[Len(nz) + i] = A[i]
    <3>1. Len(nz) \in Nat /\ Len(nz) + i \in 1 .. Len(nza)
      BY <2>2, <2>3
    <3>. QED BY <3>1, <2>3, <2>4
  <2>. QED BY <2>2, <2>3, <2>4, <2>5, <2>6
<1> HIDE DEF p
<1>9. /\ Len(N) = r.name /\ Len(A) = 4 * r.argc /\ Len(W) = r.wasm
      /\ Len(N) + Len(z) = pad
  BY <1>3, <1>4, <1>5, <1>7
<1>10. Payload(r) = p
  BY <1>6 DEF p
<1> HIDE DEF N, A, W
<1>11. /\ p \in Seq(Byte)
       /\ Len(p) = pad + 4 * r.argc + r.wasm
       /\ \A i \in 1 .. r.name : p[i] = N[i]
       /\ \A i \in 1 .. 4 * r.argc : p[pad + i] = A[i]
       /\ \A i \in 1 .. r.wasm : p[pad + 4 * r.argc + i] = W[i]
  BY <1>8, <1>9, Zenon
<1>. QED BY <1>10, <1>11 DEF pad, N, A, W

(* n bytes of the channel, from m bytes behind the header on. *)
LEMMA BytesAre ==
  ASSUME NEW m \in Nat, NEW n \in Nat, NEW g,
         g = [i \in 1 .. n |-> g[i]],
         \A i \in 1 .. n : m + i \in 1 .. Len(body) /\ body[m + i] = g[i]
  PROVE  BytesAt(HeaderSize + m, n) = g
<1> DEFINE b == BytesAt(HeaderSize + m, n)
<1>2. b = [i \in 1 .. n |-> b[i]]
  BY DEF BytesAt
<1>3. ASSUME NEW i \in 1 .. n PROVE b[i] = g[i]
  BY DEF BytesAt, HeaderSize
<1> HIDE DEF b
<1>4. b = g
  BY <1>2, <1>3
<1>. QED BY <1>4 DEF b

(* Packing a request establishes the invariant, whatever stood there. *)
LEMMA PackKeeps ==
  ASSUME ChannelInv, NEW r \in Request, Pack(r)
  PROVE  ChannelInv'
<1> DEFINE p == Payload(r)
           n == IF Len(p) > Len(body) THEN Len(p) ELSE Len(body)
<1>1. r \in Sizes
  BY ChannelAssumption DEF Request, Sizes
<1>2. p \in Seq(Byte)
  BY <1>1, PayloadParts
<1>3. body \in Seq(Byte)
  BY DEF ChannelInv
<1>4. sent' = r /\ header' = [wasm |-> r.wasm, name |-> r.name, argc |-> r.argc]
  BY DEF Pack
<1>5. body' = [i \in 1 .. n |-> IF i <= Len(p) THEN p[i] ELSE body[i]]
  BY DEF Pack, Written
<1> HIDE DEF p
<1>6. n \in Nat /\ Len(p) \in Nat /\ Len(p) <= n /\ Len(body) \in Nat
      /\ (n > Len(p) => n = Len(body))
  BY <1>2, <1>3
<1> HIDE DEF n
<1>7. body' \in [1 .. n -> Byte]
  <2>1. \A i \in 1 .. n : i <= Len(p) => p[i] \in Byte
    BY <1>2, <1>6
  <2>2. \A i \in 1 .. n : ~ (i <= Len(p)) => body[i] \in Byte
    BY <1>3, <1>6
  <2>. QED BY <1>5, <2>1, <2>2
<1>8. body' \in Seq(Byte) /\ Len(body') = n
  BY <1>6, <1>7, SeqOfLength
<1>9. \A i \in 1 .. Len(p) : body'[i] = p[i]
  BY <1>5, <1>6
<1>10. Payload(sent') = p
  BY <1>4 DEF p
<1>11. /\ Len(Payload(sent')) <= Len(body')
       /\ \A i \in 1 .. Len(Payload(sent')) : body'[i] = Payload(sent')[i]
  BY <1>6, <1>8, <1>9, <1>10
<1>12. Payload(sent)' = Payload(sent')
  BY DEF Payload, NameBytes, ArgBytes, WasmBytes, Zeros, ZeroByte, PaddedLen
<1>. QED BY <1>1, <1>4, <1>8, <1>11, <1>12 DEF ChannelInv

(* ChannelInv holds in every state. *)
THEOREM ChannelInductive == Spec => []ChannelInv
<1>1. Init => ChannelInv
  <2> SUFFICES ASSUME Init PROVE ChannelInv
    OBVIOUS
  <2>1. sent \in Sizes /\ sent.name = 0 /\ sent.argc = 0 /\ sent.wasm = 0
    BY DEF Init, Sizes
  <2>2. PaddedLen(0) = 0
    BY DEF PaddedLen
  <2>3. Len(Payload(sent)) = 0
    BY <2>1, <2>2, PayloadParts
  <2>. QED BY <2>1, <2>3 DEF Init, ChannelInv
<1>2. ChannelInv /\ [Next]_vars => ChannelInv'
  <2>1. ASSUME ChannelInv, Next PROVE ChannelInv'
    BY <2>1, PackKeeps DEF Next
  <2>2. ASSUME ChannelInv, UNCHANGED vars PROVE ChannelInv'
    BY <2>2 DEF ChannelInv, vars, Payload, NameBytes, ArgBytes, WasmBytes,
                Zeros, ZeroByte, PaddedLen
  <2>. QED BY <2>1, <2>2
<1>. QED BY <1>1, <1>2, PTL DEF Spec

(* Every request of test_wamr.py within the limits of the decoder reaches  *)
(* the loop of wamr_pal_main.c with its own name, arguments and module.    *)
THEOREM DecodesAsSent == Spec => []DecodedAsSent
<1>1. ChannelInv => DecodedAsSent
  <2> SUFFICES ASSUME ChannelInv, sent.name \in 1 .. MaxName,
                      sent.argc <= MaxArgs
               PROVE  Decoded = [mode |-> IF sent.wasm > 0 THEN "load" ELSE "call",
                                 name |-> NameBytes(sent),
                                 argv |-> ArgBytes(sent),
                                 wasm |-> WasmBytes(sent)]
    BY DEF DecodedAsSent
  <2> DEFINE pad == PaddedLen(sent.name)
             k == 4 * sent.argc
  <2>1. /\ sent \in Sizes
        /\ sent.name \in Nat /\ sent.argc \in Nat /\ sent.wasm \in Nat
        /\ header.name = sent.name /\ header.argc = sent.argc
        /\ header.wasm = sent.wasm
    BY DEF ChannelInv, Sizes
  <2>2. Mode(header) = IF sent.wasm > 0 THEN "load" ELSE "call"
    BY <2>1, ChannelAssumption DEF Mode
  <2>3. /\ ArgOffset(sent.name) = HeaderSize + pad
        /\ pad \in Nat /\ sent.name <= pad
    BY <2>1, SameArgOffset
  <2>4. ArgsRead(sent.argc) = sent.argc
    BY <2>1, ChannelAssumption DEF ArgsRead
  <2>5. k \in Nat
    BY <2>1
  <2>6. /\ Len(Payload(sent)) = pad + k + sent.wasm
        /\ \A i \in 1 .. sent.name : Payload(sent)[i] = NameBytes(sent)[i]
        /\ \A i \in 1 .. k : Payload(sent)[pad + i] = ArgBytes(sent)[i]
        /\ \A i \in 1 .. sent.wasm : Payload(sent)[pad + k + i] = WasmBytes(sent)[i]
    BY <2>1, PayloadParts
  <2>7. /\ pad + k + sent.wasm <= Len(body) /\ Len(body) \in Nat
        /\ \A i \in 1 .. pad + k + sent.wasm : body[i] = Payload(sent)[i]
    BY <2>6 DEF ChannelInv
  <2>8. WasmOffset(sent.name, sent.argc) = HeaderSize + (pad + k)
    BY <2>1, <2>3, <2>4 DEF WasmOffset, HeaderSize
  <2> HIDE DEF pad, k
  <2>9. BytesAt(HeaderSize, sent.name) = NameBytes(sent)
    <3>1. \A i \in 1 .. sent.name :
             0 + i \in 1 .. Len(body) /\ body[0 + i] = NameBytes(sent)[i]
      BY <2>1, <2>3, <2>5, <2>6, <2>7
    <3>2. NameBytes(sent) = [i \in 1 .. sent.name |-> NameBytes(sent)[i]]
      BY DEF NameBytes
    <3>3. 0 \in Nat /\ sent.name \in Nat
      BY <2>1
    <3> DEFINE g == NameBytes(sent)
               n == sent.name
    <3> HIDE DEF g, n
    <3>4. BytesAt(HeaderSize + 0, n) = g
      <4>1. /\ 0 \in Nat /\ n \in Nat /\ g = [i \in 1 .. n |-> g[i]]
            /\ \A i \in 1 .. n : 0 + i \in 1 .. Len(body) /\ body[0 + i] = g[i]
        BY <3>1, <3>2, <3>3 DEF g, n
      <4>. QED BY <4>1, BytesAre
    <3>. QED BY <3>4 DEF HeaderSize, g, n
  <2>10. BytesAt(HeaderSize + pad, k) = ArgBytes(sent)
    <3>1. ASSUME NEW i \in 1 .. k
          PROVE  pad + i \in 1 .. Len(body) /\ body[pad + i] = ArgBytes(sent)[i]
      <4>1. pad + i \in 1 .. pad + k + sent.wasm
        BY <2>1, <2>3, <2>5
      <4>. QED BY <4>1, <2>1, <2>3, <2>5, <2>6, <2>7
    <3>2. ArgBytes(sent) = [i \in 1 .. k |-> ArgBytes(sent)[i]]
      BY DEF ArgBytes, k
    <3>. QED BY <2>3, <2>5, <3>1, <3>2, BytesAre
  <2>11. BytesAt(HeaderSize + (pad + k), sent.wasm) = WasmBytes(sent)
    <3>1. ASSUME NEW i \in 1 .. sent.wasm
          PROVE  /\ (pad + k) + i \in 1 .. Len(body)
                 /\ body[(pad + k) + i] = WasmBytes(sent)[i]
      <4>1. (pad + k) + i \in 1 .. pad + k + sent.wasm
        BY <2>1, <2>3, <2>5
      <4>. QED BY <4>1, <2>1, <2>3, <2>5, <2>6, <2>7
    <3>2. WasmBytes(sent) = [i \in 1 .. sent.wasm |-> WasmBytes(sent)[i]]
      BY DEF WasmBytes
    <3>3. pad + k \in Nat /\ sent.wasm \in Nat
      BY <2>1, <2>3, <2>5
    <3> DEFINE g == WasmBytes(sent)
               q == pad + k
               n == sent.wasm
    <3> HIDE DEF g, q, n
    <3>4. BytesAt(HeaderSize + q, n) = g
      <4>1. /\ q \in Nat /\ n \in Nat /\ g = [i \in 1 .. n |-> g[i]]
            /\ \A i \in 1 .. n : q + i \in 1 .. Len(body) /\ body[q + i] = g[i]
        BY <3>1, <3>2, <3>3 DEF g, q, n
      <4>. QED BY <4>1, BytesAre
    <3>. QED BY <3>4 DEF g, q, n
  <2>12. sent.wasm = 0 => WasmBytes(sent) = <<>>
    BY DEF WasmBytes
  <2>13. CASE sent.wasm > 0
    BY <2>1, <2>2, <2>3, <2>4, <2>8, <2>9, <2>10, <2>11, <2>13 DEF Decoded, k
  <2>14. CASE sent.wasm = 0
    BY <2>1, <2>2, <2>3, <2>4, <2>9, <2>10, <2>12, <2>14 DEF Decoded, k
  <2>. QED BY <2>1, <2>13, <2>14
<1>. QED BY <1>1, ChannelInductive, PTL

(* The name is found where it was put, whatever the number of arguments.   *)
LEMMA NameDecoded ==
  ASSUME ChannelInv
  PROVE  BytesAt(HeaderSize, sent.name) = NameBytes(sent)
<1> DEFINE g == NameBytes(sent)
           n == sent.name
<1>1. sent \in Sizes /\ sent.name \in Nat /\ sent.argc \in Nat /\ sent.wasm \in Nat
  BY DEF ChannelInv, Sizes
<1>2. /\ PaddedLen(sent.name) \in Nat /\ sent.name <= PaddedLen(sent.name)
      /\ Len(Payload(sent)) = PaddedLen(sent.name) + 4 * sent.argc + sent.wasm
      /\ \A i \in 1 .. sent.name : Payload(sent)[i] = NameBytes(sent)[i]
  BY <1>1, SameArgOffset, PayloadParts
<1>3. sent.name <= Len(Payload(sent)) /\ Len(Payload(sent)) \in Nat
  BY <1>1, <1>2
<1>4. /\ Len(body) \in Nat /\ Len(Payload(sent)) <= Len(body)
      /\ \A i \in 1 .. Len(Payload(sent)) : body[i] = Payload(sent)[i]
  BY DEF ChannelInv
<1>5. g = [i \in 1 .. n |-> g[i]]
  BY DEF NameBytes
<1>6. n \in Nat /\ n <= Len(Payload(sent)) /\ \A i \in 1 .. n : Payload(sent)[i] = g[i]
  BY <1>1, <1>2, <1>3
<1> HIDE DEF g, n
<1>7. \A i \in 1 .. n : 0 + i \in 1 .. Len(body) /\ body[0 + i] = g[i]
  BY <1>3, <1>4, <1>6
<1>8. BytesAt(HeaderSize + 0, n) = g
  BY <1>5, <1>6, <1>7, BytesAre
<1> QED
  BY <1>8 DEF HeaderSize, g, n

(* The first m bytes of the arguments, too. *)
LEMMA ArgsDecoded ==
  ASSUME ChannelInv, NEW m \in Nat, m <= 4 * sent.argc
  PROVE  BytesAt(ArgOffset(sent.name), m) = [i \in 1 .. m |-> ArgBytes(sent)[i]]
<1> DEFINE pad == PaddedLen(sent.name)
           g == [i \in 1 .. m |-> ArgBytes(sent)[i]]
           len == Len(Payload(sent))
<1>1. sent \in Sizes /\ sent.name \in Nat /\ sent.argc \in Nat /\ sent.wasm \in Nat
  BY DEF ChannelInv, Sizes
<1>2. /\ pad \in Nat /\ ArgOffset(sent.name) = HeaderSize + pad
      /\ len = pad + 4 * sent.argc + sent.wasm
      /\ \A i \in 1 .. 4 * sent.argc : Payload(sent)[pad + i] = ArgBytes(sent)[i]
  BY <1>1, SameArgOffset, PayloadParts
<1>3. /\ Len(body) \in Nat /\ len <= Len(body)
      /\ \A i \in 1 .. len : body[i] = Payload(sent)[i]
  BY DEF ChannelInv
<1> HIDE DEF pad, len
<1>4. g = [i \in 1 .. m |-> g[i]]
  OBVIOUS
<1>5. ASSUME NEW i \in 1 .. m
      PROVE  pad + i \in 1 .. Len(body) /\ body[pad + i] = g[i]
  <2>1. i \in 1 .. 4 * sent.argc /\ pad + i \in 1 .. len
    BY <1>1, <1>2
  <2>2. body[pad + i] = ArgBytes(sent)[i]
    BY <2>1, <1>2, <1>3
  <2>3. pad + i \in 1 .. Len(body)
    BY <2>1, <1>1, <1>2, <1>3
  <2> QED
    BY <2>2, <2>3
<1> HIDE DEF g
<1>6. BytesAt(HeaderSize + pad, m) = g
  <2>1. /\ pad \in Nat /\ m \in Nat /\ g = [i \in 1 .. m |-> g[i]]
        /\ \A i \in 1 .. m : pad + i \in 1 .. Len(body) /\ body[pad + i] = g[i]
    BY <1>2, <1>4, <1>5
  <2> QED
    BY <2>1, BytesAre
<1> QED
  BY <1>2, <1>6 DEF g

(* A request with more arguments than argv[16] has room for neither writes *)
(* beyond the array nor loses or changes one of those that fit.            *)
THEOREM ArgsStayInArgv == Spec => []ArgsFitArgv
<1>1. ChannelInv => ArgsFitArgv
  <2> SUFFICES ASSUME ChannelInv, sent.name \in 1 .. MaxName
               PROVE  /\ Decoded.name = NameBytes(sent)
                      /\ Decoded.argv =
                           [i \in 1 .. 4 * (IF sent.argc < MaxArgs
                                            THEN sent.argc ELSE MaxArgs) |->
                              ArgBytes(sent)[i]]
    BY DEF ArgsFitArgv
  <2>1. /\ sent.name \in Nat /\ sent.argc \in Nat /\ sent.wasm \in Nat
        /\ header.name = sent.name /\ header.argc = sent.argc
        /\ header.wasm = sent.wasm
    BY DEF ChannelInv, Sizes
  <2>2. Mode(header) \in {"load", "call"}
    BY <2>1, ChannelAssumption DEF Mode
  <2> DEFINE k == IF sent.argc < MaxArgs THEN sent.argc ELSE MaxArgs
  <2>3. ArgsRead(sent.argc) = k /\ k \in Nat /\ k <= sent.argc
    BY <2>1, ChannelAssumption DEF ArgsRead
  <2> HIDE DEF k
  <2>4. 4 * k \in Nat /\ 4 * k <= 4 * sent.argc
    BY <2>1, <2>3
  <2>5. BytesAt(ArgOffset(sent.name), 4 * k) = [i \in 1 .. 4 * k |-> ArgBytes(sent)[i]]
    BY <2>4, ArgsDecoded
  <2>6. BytesAt(HeaderSize, sent.name) = NameBytes(sent)
    BY NameDecoded
  <2>7. /\ Decoded.name = BytesAt(HeaderSize, header.name)
        /\ Decoded.argv = BytesAt(ArgOffset(header.name), 4 * ArgsRead(header.argc))
    BY <2>2 DEF Decoded
  <2>8. /\ Decoded.name = NameBytes(sent)
        /\ Decoded.argv = [i \in 1 .. 4 * k |-> ArgBytes(sent)[i]]
    BY <2>1, <2>3, <2>5, <2>6, <2>7
  <2> QED
    BY <2>8 DEF k
<1> QED
  BY <1>1, ChannelInductive, PTL
=============================================================================
