---------------------------- MODULE InputChannel ----------------------------
(***************************************************************************)
(* The requests of the guest on their way through the input channel: the   *)
(* packing functions of module/example/test_wamr.py and the decoder in the *)
(* loop of wamr_pal_main.c.  The channel is memory that keeps what a       *)
(* longer request left behind.  A byte is written as what it is a byte of. *)
(***************************************************************************)
EXTENDS Integers, Sequences

CONSTANTS
  MaxName,   \* MAX_FUNC_NAME_LEN, 128
  MaxArgs,   \* length of argv[], 16
  NameLens,  \* lengths of the function names that are sent
  ArgCounts, \* numbers of arguments that are sent
  WasmLens   \* sizes of the modules that are sent

ASSUME ChannelAssumption ==
  /\ MaxName \in Nat /\ MaxArgs \in Nat
  /\ NameLens \subseteq Nat /\ ArgCounts \subseteq Nat /\ WasmLens \subseteq Nat

VARIABLES
  sent,    \* the request packed last
  header,  \* wasm_size, func_name_len and argc in the channel
  body     \* the channel behind the header

vars == <<sent, header, body>>

Request == [name : NameLens, argc : ArgCounts, wasm : WasmLens]
HeaderSize == 12

(* The kinds of byte a request consists of. *)
NameBytes(r) == [i \in 1 .. r.name |-> [of |-> "name", at |-> i]]
ArgBytes(r) == [i \in 1 .. 4 * r.argc |-> [of |-> "arg", at |-> i]]
WasmBytes(r) == [i \in 1 .. r.wasm |-> [of |-> "wasm", at |-> i]]
ZeroByte == [of |-> "zero", at |-> 0]
Zeros(n) == [i \in 1 .. n |-> ZeroByte]

-----------------------------------------------------------------------------
(* The sender: the name is padded by itself, the arguments follow.         *)
PaddedLen(name) == ((name + 3) \div 4) * 4

Payload(r) ==
  NameBytes(r) \o Zeros(PaddedLen(r.name) - r.name) \o ArgBytes(r) \o WasmBytes(r)

(* A payload overwrites the front of the channel. *)
Written(payload) ==
  [i \in 1 .. (IF Len(payload) > Len(body) THEN Len(payload) ELSE Len(body)) |->
     IF i <= Len(payload) THEN payload[i] ELSE body[i]]

Init ==
  /\ sent = [name |-> 0, argc |-> 0, wasm |-> 0]
  /\ header = [wasm |-> 0, name |-> 0, argc |-> 0]
  /\ body = <<>>

Pack(r) ==
  /\ sent' = r
  /\ header' = [wasm |-> r.wasm, name |-> r.name, argc |-> r.argc]
  /\ body' = Written(Payload(r))

Next == \E r \in Request : Pack(r)

Spec == Init /\ [][Next]_vars
-----------------------------------------------------------------------------
(* The decoder: offsets count from the start of the channel.               *)

(* Mutant: the offset is rounded down. *)
MutantAlign4(v) == (v \div 4) * 4

Align4(v) == ((v + 3) \div 4) * 4

(* n bytes from an offset on; beyond everything ever written is zero. *)
BytesAt(offset, n) ==
  [i \in 1 .. n |-> IF offset - HeaderSize + i \in 1 .. Len(body)
                    THEN body[offset - HeaderSize + i] ELSE ZeroByte]

ArgOffset(name) == Align4(HeaderSize + name)

(* Mutant: the clamp lets one argument too many through. *)
MutantArgsRead(argc) == IF argc > MaxArgs + 1 THEN MaxArgs + 1 ELSE argc

ArgsRead(argc) == IF argc > MaxArgs THEN MaxArgs ELSE argc
WasmOffset(name, argc) == ArgOffset(name) + 4 * ArgsRead(argc)

Mode(h) ==
  IF h.wasm = 0 /\ h.name = 0 THEN "shutdown"
  ELSE IF h.name = 0 \/ h.name > MaxName THEN "reject"
  ELSE IF h.wasm > 0 THEN "load" ELSE "call"

Decoded ==
  LET called == Mode(header) \in {"load", "call"}
  IN [mode |-> Mode(header),
      name |-> IF called THEN BytesAt(HeaderSize, header.name) ELSE <<>>,
      argv |-> IF called
               THEN BytesAt(ArgOffset(header.name), 4 * ArgsRead(header.argc))
               ELSE <<>>,
      wasm |-> IF Mode(header) = "load"
               THEN BytesAt(WasmOffset(header.name, header.argc), header.wasm)
               ELSE <<>>]
-----------------------------------------------------------------------------
(* A request within the decoder's limits arrives as it was packed,         *)
(* whatever longer requests have left in the channel: its name, each of    *)
(* its arguments and its module, from the byte offsets the sender used.    *)
DecodedAsSent ==
  /\ sent.name \in 1 .. MaxName
  /\ sent.argc <= MaxArgs
  => Decoded = [mode |-> IF sent.wasm > 0 THEN "load" ELSE "call",
                name |-> NameBytes(sent),
                argv |-> ArgBytes(sent),
                wasm |-> WasmBytes(sent)]

(* However many arguments are sent, the decoder keeps to argv[16]: the     *)
(* name and as many of the first arguments as fit arrive as they were      *)
(* packed, and nothing is stored beyond them.                              *)
ArgsFitArgv ==
  sent.name \in 1 .. MaxName =>
    /\ Decoded.name = NameBytes(sent)
    /\ Decoded.argv = [i \in 1 .. 4 * (IF sent.argc < MaxArgs THEN sent.argc
                                                            ELSE MaxArgs) |->
                         ArgBytes(sent)[i]]
=============================================================================
