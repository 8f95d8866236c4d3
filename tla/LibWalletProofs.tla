-------------------------- MODULE LibWalletProofs --------------------------
(***************************************************************************)
(* Proofs about LibWallet, for every number of processes, every set of     *)
(* files, and every page, buffer and request size.                         *)
(***************************************************************************)
EXTENDS LibWallet, SequenceTheorems, TLAPS

(* The monitor's tables: each live trustlet has an entry, and no entry     *)
(* belongs to an id that is still to be given out.                         *)
TableInv ==
  /\ nextId \in Nat /\ nextId >= FirstId
  /\ DOMAIN held = DOMAIN waiting
  /\ trustlets \subseteq DOMAIN waiting
  /\ \A t \in DOMAIN waiting : t \in Nat /\ t < nextId

(* Between invocations no trustlet waits; during one, at most its target.  *)
WaitInv ==
  \A t \in trustlets : pc = "idle" \/ t # target => waiting[t] = Blank

(* Descriptors are never closed, so what a trustlet has opened stays what  *)
(* it was.                                                                 *)
FdInv ==
  /\ fds \in Seq(DOMAIN File)
  /\ \A t \in trustlets : \A h \in held[t] :
       h.fd \in DOMAIN fds /\ fds[h.fd] = h.path

(* A request a trustlet can make in the present state.                     *)
Asked(r) ==
  \/ r.code \in {guestRequestFileattr, guestRequestOpen}
  \/ /\ r.code \in {guestRequestRead, guestRequestMmap}
     /\ r.fd \in DOMAIN fds /\ fds[r.fd] = r.path
     /\ r.offset \in Nat /\ r.count \in Nat

(* At the switch, a live trustlet whose run has ended in a request code    *)
(* waits for just what lies in the request page.                           *)
SwitchInv ==
  /\ pc \in {"idle", "ioctl", "switch"}
  /\ pc = "switch" /\ target \in trustlets =>
       IF ret \in RequestCodes
       THEN waiting[target] = args /\ args.code = ret /\ Asked(args)
       ELSE waiting[target] = Blank

(* Before the ioctl the answer fits, and a descriptor in it is open.       *)
AnswerInv ==
  /\ AnswerExact
  /\ /\ pc = "ioctl" /\ target \in trustlets
     /\ waiting[target].code = guestRequestOpen /\ answer.fd # -1
     => answer.fd \in DOMAIN fds

LibInv == TableInv /\ WaitInv /\ FdInv /\ SwitchInv /\ AnswerInv

(* An invocation of a process that is gone works on an empty page.         *)
PhantomInv == pc # "idle" /\ target \notin trustlets => args = Blank
-----------------------------------------------------------------------------
(* The initial state. *)
LEMMA InitInv == Init => LibInv
<1> SUFFICES ASSUME Init PROVE LibInv
  OBVIOUS
<1>1. TableInv
  BY LibAssumption DEF Init, TableInv
<1>2. WaitInv /\ AnswerInv /\ SwitchInv
  BY DEF Init, WaitInv, AnswerInv, AnswerExact, SwitchInv
<1>3. FdInv
  BY DEF Init, FdInv
<1> QED
  BY <1>1, <1>2, <1>3 DEF LibInv

(* What pread gives for a descriptor of file path: as many bytes as there  *)
(* are, at most n, and the bytes of the file from the offset on.           *)
LEMMA PreadExact ==
  ASSUME NEW bytes \in Seq(Nat), NEW o \in Nat, NEW n \in Nat
  PROVE  LET m == IF o + n < Len(bytes) THEN o + n ELSE Len(bytes)
             d == SubSeq(bytes, o + 1, m)
         IN /\ d \in Seq(Nat)
            /\ Len(d) = IF o < m THEN m - o ELSE 0
            /\ \A i \in 1 .. Len(d) : d[i] = bytes[o + i]
<1> DEFINE m == IF o + n < Len(bytes) THEN o + n ELSE Len(bytes)
<1>1. Len(bytes) \in Nat /\ m \in Nat /\ m <= Len(bytes)
  OBVIOUS
<1>2. \A i \in o + 1 .. m : bytes[i] \in Nat
  BY <1>1
<1> HIDE DEF m
<1>3. /\ SubSeq(bytes, o + 1, m) \in Seq(Nat)
      /\ Len(SubSeq(bytes, o + 1, m)) = IF o + 1 <= m THEN m - (o + 1) + 1 ELSE 0
      /\ \A i \in 1 .. m - (o + 1) + 1 : SubSeq(bytes, o + 1, m)[i] = bytes[o + 1 + i - 1]
  BY <1>1, <1>2, SubSeqProperties
<1>4. Len(SubSeq(bytes, o + 1, m)) = IF o < m THEN m - o ELSE 0
  BY <1>1, <1>3
<1>5. ASSUME NEW i \in 1 .. Len(SubSeq(bytes, o + 1, m))
      PROVE  SubSeq(bytes, o + 1, m)[i] = bytes[o + i]
  <2>1. i \in 1 .. m - (o + 1) + 1 /\ o + 1 + i - 1 = o + i
    BY <1>1, <1>4
  <2> QED
    BY <2>1, <1>3
<1> QED
  BY <1>3, <1>4, <1>5 DEF m

(* The properties of an invocation under way do not concern a step that    *)
(* stays outside one and leaves descriptors and live entries alone.        *)
LEMMA IdleKeeps ==
  ASSUME LibInv, pc = "idle", UNCHANGED libVars,
         \A t \in trustlets' :
           \/ t \in trustlets /\ waiting'[t] = waiting[t] /\ held'[t] = held[t]
           \/ waiting'[t] = Blank /\ held'[t] = {}
  PROVE  WaitInv' /\ FdInv' /\ SwitchInv' /\ AnswerInv'
<1>1. pc' = "idle" /\ fds' = fds
  BY DEF libVars
<1>2. WaitInv'
  BY <1>1 DEF LibInv, WaitInv
<1>3. FdInv'
  BY <1>1 DEF LibInv, FdInv
<1>4. SwitchInv' /\ AnswerInv'
  BY <1>1 DEF SwitchInv, AnswerInv, AnswerExact
<1> QED
  BY <1>2, <1>3, <1>4

LEMMA CreateZygoteStep ==
  ASSUME LibInv, CreateZygote
  PROVE  LibInv'
<1> USE DEF CreateZygote, LibInv
<1>1. WaitInv' /\ FdInv' /\ SwitchInv' /\ AnswerInv'
  <2>1. pc = "idle" /\ UNCHANGED libVars
    OBVIOUS
  <2>2. trustlets' = trustlets /\ waiting' = waiting /\ held' = held
    BY DEF trustletVars
  <2> QED
    BY <2>1, <2>2, IdleKeeps
<1>2. TableInv'
  <2>1. nextId' \in {nextId, nextId + 1}
    BY DEF NewId
  <2>2. trustlets' = trustlets /\ waiting' = waiting /\ held' = held
    BY DEF trustletVars
  <2> QED
    BY <2>1, <2>2, LibAssumption DEF TableInv
<1> QED
  BY <1>1, <1>2

LEMMA CreateTrustletStep ==
  ASSUME LibInv, NEW z, NEW size \in FuncSizes, CreateTrustlet(z, size)
  PROVE  LibInv'
<1> USE DEF CreateTrustlet, LibInv
<1>0. pc = "idle" /\ UNCHANGED libVars /\ pc' = "idle"
  BY DEF libVars
<1>1. CASE UNCHANGED <<nextId, trustlets, trustletVars>>
  <2>1. /\ nextId' = nextId /\ trustlets' = trustlets
        /\ waiting' = waiting /\ held' = held
    BY <1>1 DEF trustletVars
  <2>2. TableInv'
    BY <2>1 DEF TableInv
  <2>3. WaitInv' /\ FdInv' /\ SwitchInv' /\ AnswerInv'
    BY <2>1, <1>0, IdleKeeps
  <2> QED
    BY <2>2, <2>3
<1>2. CASE /\ NewId
           /\ trustlets' = trustlets \cup {nextId}
           /\ waiting' = WithEntry(waiting, nextId, Blank)
           /\ held' = WithEntry(held, nextId, {})
  <2>1. nextId' = nextId + 1 /\ nextId \notin DOMAIN waiting /\ nextId \in Nat
    BY <1>2 DEF NewId, TableInv
  <2>2. /\ DOMAIN waiting' = DOMAIN waiting \cup {nextId}
        /\ waiting'[nextId] = Blank
        /\ \A t \in DOMAIN waiting : waiting'[t] = waiting[t]
    BY <1>2, <2>1 DEF WithEntry
  <2>3. /\ DOMAIN held' = DOMAIN held \cup {nextId}
        /\ held'[nextId] = {}
        /\ \A t \in DOMAIN held : held'[t] = held[t]
    BY <1>2, <2>1 DEF WithEntry, TableInv
  <2>4. TableInv'
    BY <1>2, <2>1, <2>2, <2>3, LibAssumption DEF TableInv
  <2>5. \A t \in trustlets' :
           \/ t \in trustlets /\ waiting'[t] = waiting[t] /\ held'[t] = held[t]
           \/ waiting'[t] = Blank /\ held'[t] = {}
    BY <1>2, <2>2, <2>3 DEF TableInv
  <2>6. WaitInv' /\ FdInv' /\ SwitchInv' /\ AnswerInv'
    BY <2>5, <1>0, IdleKeeps
  <2> QED
    BY <2>4, <2>6
<1> QED
  BY <1>1, <1>2

LEMMA DeleteStep ==
  ASSUME LibInv, NEW p, DeleteTrustlet(p) \/ DeleteZygote(p)
  PROVE  LibInv'
<1> USE DEF LibInv
<1>1. /\ pc = "idle" /\ UNCHANGED libVars /\ pc' = "idle"
      /\ trustlets' \subseteq trustlets
      /\ nextId' = nextId /\ waiting' = waiting /\ held' = held
      /\ objects' = objects
  BY DEF DeleteTrustlet, DeleteZygote, trustletVars, libVars
<1>2. TableInv'
  BY <1>1 DEF TableInv
<1>3. WaitInv' /\ FdInv' /\ SwitchInv' /\ AnswerInv'
  BY <1>1, IdleKeeps
<1> QED
  BY <1>2, <1>3

LEMMA InvokeStep ==
  ASSUME LibInv, NEW o \in objects, InvokeTrustlet(o.id)
  PROVE  LibInv'
<1> USE DEF LibInv
<1>1. /\ pc = "idle" /\ pc' = "ioctl" /\ target' = o.id
      /\ invType' = invocationExit /\ answer' = Blank
      /\ trustlets' = trustlets /\ nextId' = nextId /\ objects' = objects
      /\ waiting' = waiting /\ held' = held /\ fds' = fds
  BY DEF InvokeTrustlet, monitorVars, trustletVars
<1>2. TableInv' /\ FdInv'
  BY <1>1 DEF TableInv, FdInv
<1>3. \A t \in trustlets : waiting[t] = Blank
  BY <1>1 DEF WaitInv
<1>4. WaitInv' /\ SwitchInv'
  BY <1>1, <1>3 DEF WaitInv, SwitchInv
<1>5. AnswerInv'
  BY <1>1, <1>3 DEF AnswerInv, AnswerExact, Blank, invocationExit,
     guestRequestFileattr, guestRequestOpen, guestRequestRead, guestRequestMmap
<1> QED
  BY <1>2, <1>4, <1>5
-----------------------------------------------------------------------------
(* What a trustlet asks for with the descriptors it has opened.            *)
LEMMA RequestsAsked ==
  ASSUME NEW opened, NEW r \in Requests(opened),
         \A h \in opened : h.fd \in DOMAIN fds /\ fds[h.fd] = h.path
  PROVE  r.code \in RequestCodes /\ Asked(r)
<1>1. CASE r \in [code : {guestRequestFileattr, guestRequestOpen},
                  path : DOMAIN File \cup {Missing}, fd : {0}, offset : {0},
                  count : {0}]
  <2>1. r.code \in {guestRequestFileattr, guestRequestOpen}
    BY <1>1
  <2> QED
    BY <2>1 DEF Asked, RequestCodes, guestRequestFileattr, guestRequestOpen,
       guestRequestMmap
<1>2. CASE r \in {[code |-> guestRequestRead, path |-> h.path, fd |-> h.fd,
                   offset |-> o, count |-> n] :
                    h \in opened, o \in Offsets, n \in Counts}
  <2>1. PICK h \in opened, o \in Offsets, n \in Counts :
               r = [code |-> guestRequestRead, path |-> h.path, fd |-> h.fd,
                    offset |-> o, count |-> n]
    BY <1>2
  <2>2. /\ r.code = guestRequestRead /\ r.path = h.path /\ r.fd = h.fd
        /\ r.offset = o /\ r.count = n
    BY <2>1
  <2>3. o \in Nat /\ n \in Nat
    BY LibAssumption
  <2> QED
    BY <2>2, <2>3 DEF Asked, RequestCodes, guestRequestFileattr,
       guestRequestRead, guestRequestMmap
<1>3. CASE r \in {[code |-> guestRequestMmap, path |-> h.path, fd |-> h.fd,
                   offset |-> o, count |-> PageLen] :
                    h \in opened, o \in Offsets}
  <2>1. PICK h \in opened, o \in Offsets :
               r = [code |-> guestRequestMmap, path |-> h.path, fd |-> h.fd,
                    offset |-> o, count |-> PageLen]
    BY <1>3
  <2>2. /\ r.code = guestRequestMmap /\ r.path = h.path /\ r.fd = h.fd
        /\ r.offset = o /\ r.count = PageLen
    BY <2>1
  <2>3. o \in Nat /\ PageLen \in Nat
    BY LibAssumption
  <2> QED
    BY <2>2, <2>3 DEF Asked, RequestCodes, guestRequestFileattr,
       guestRequestRead, guestRequestMmap
<1> QED
  BY <1>1, <1>2, <1>3 DEF Requests

LEMMA RunStep ==
  ASSUME LibInv, TrustletEnds \/ TrustletAsks
  PROVE  LibInv'
<1> USE DEF LibInv
<1> DEFINE last == waiting[target]
           opened == Opened
<1>1. /\ pc = "ioctl" /\ target \in trustlets /\ pc' = "switch"
      /\ target' = target /\ fds' = fds /\ objects' = objects
      /\ nextId' = nextId /\ trustlets' = trustlets
      /\ held' = [held EXCEPT ![target] = opened]
  BY DEF TrustletEnds, TrustletAsks, Run, monitorVars
<1>2. \A h \in opened : h.fd \in DOMAIN fds /\ fds[h.fd] = h.path
  <2>1. \A h \in held[target] : h.fd \in DOMAIN fds /\ fds[h.fd] = h.path
    BY <1>1 DEF FdInv
  <2>2. ASSUME last.code = guestRequestOpen, answer.fd # -1
        PROVE  answer.fd \in DOMAIN fds /\ fds[answer.fd] = last.path
    BY <1>1, <2>2 DEF AnswerInv, AnswerExact
  <2> QED
    BY <2>1, <2>2 DEF Opened
<1>3. \/ /\ \E code \in EndCodes : ret' = code
         /\ waiting' = [waiting EXCEPT ![target] = Blank]
      \/ \E r \in Requests(opened) :
           /\ ret' = r.code
           /\ waiting' = [waiting EXCEPT ![target] = r]
           /\ args' = r
  BY DEF TrustletEnds, TrustletAsks, Run
<1> HIDE DEF opened, last
<1>4. /\ DOMAIN waiting' = DOMAIN waiting
      /\ \A t \in DOMAIN waiting : t # target => waiting'[t] = waiting[t]
  BY <1>3
<1>5. /\ DOMAIN held' = DOMAIN held /\ target \in DOMAIN held
      /\ held'[target] = opened
      /\ \A t \in DOMAIN held : t # target => held'[t] = held[t]
  BY <1>1 DEF TableInv
<1>6. TableInv'
  BY <1>1, <1>4, <1>5 DEF TableInv
<1>7. WaitInv'
  BY <1>1, <1>4 DEF WaitInv, TableInv
<1>8. FdInv'
  <2>1. ASSUME NEW t \in trustlets, NEW h \in held'[t]
        PROVE  h.fd \in DOMAIN fds /\ fds[h.fd] = h.path
    <3>1. CASE t = target
      BY <3>1, <1>5, <1>2, <2>1
    <3>2. CASE t # target
      BY <3>2, <1>5, <2>1 DEF FdInv, TableInv
    <3> QED
      BY <3>1, <3>2
  <2> QED
    BY <2>1, <1>1 DEF FdInv
<1>9. SwitchInv'
  <2>0. target \in DOMAIN waiting
    BY <1>1 DEF TableInv
  <2>1. CASE /\ \E code \in EndCodes : ret' = code
             /\ waiting' = [waiting EXCEPT ![target] = Blank]
    <3>1. ret' \notin RequestCodes
      BY <2>1 DEF EndCodes, RequestCodes, invocationExit, invocationGetValue,
         invocationError, guestRequestFileattr, guestRequestMmap
    <3>2. waiting'[target] = Blank
      BY <2>0, <2>1
    <3> QED
      BY <3>1, <3>2, <1>1 DEF SwitchInv
  <2>2. CASE \E r \in Requests(opened) :
               /\ ret' = r.code
               /\ waiting' = [waiting EXCEPT ![target] = r]
               /\ args' = r
    <3>1. PICK r \in Requests(opened) :
               /\ ret' = r.code
               /\ waiting' = [waiting EXCEPT ![target] = r]
               /\ args' = r
      BY <2>2
    <3>2. r.code \in RequestCodes /\ Asked(r)
      BY <1>2, RequestsAsked
    <3>3. waiting'[target] = r
      BY <2>0, <3>1
    <3>4. Asked(args)'
      BY <3>1, <3>2, <1>1 DEF Asked
    <3> QED
      BY <3>1, <3>2, <3>3, <3>4, <1>1 DEF SwitchInv
  <2> QED
    BY <1>3, <2>1, <2>2
<1>10. AnswerInv'
  BY <1>1 DEF AnswerInv, AnswerExact
<1> QED
  BY <1>6, <1>7, <1>8, <1>9, <1>10

LEMMA RefuseStep ==
  ASSUME LibInv, RefuseInvocation
  PROVE  LibInv'
<1> USE DEF LibInv
<1>1. /\ pc = "ioctl" /\ target \notin trustlets /\ pc' = "switch"
      /\ ret' = target /\ target' = target /\ fds' = fds /\ objects' = objects
      /\ nextId' = nextId /\ trustlets' = trustlets
      /\ held' = held /\ waiting' = waiting
  BY DEF RefuseInvocation, monitorVars, trustletVars
<1>2. TableInv' /\ WaitInv' /\ FdInv' /\ SwitchInv' /\ AnswerInv'
  BY <1>1 DEF TableInv, WaitInv, FdInv, SwitchInv, AnswerInv, AnswerExact
<1> QED
  BY <1>2

LEMMA ReturnStep ==
  ASSUME LibInv, Return
  PROVE  LibInv'
<1> USE DEF LibInv
<1>1. /\ pc = "switch" /\ pc' = "idle" /\ ret \notin RequestCodes
      /\ target' = target /\ fds' = fds /\ objects' = objects
      /\ nextId' = nextId /\ trustlets' = trustlets
      /\ held' = held /\ waiting' = waiting
  BY DEF Return, monitorVars, trustletVars
<1>2. TableInv' /\ FdInv' /\ AnswerInv' /\ SwitchInv'
  BY <1>1 DEF TableInv, FdInv, AnswerInv, AnswerExact, SwitchInv
<1>3. WaitInv'
  BY <1>1 DEF WaitInv, SwitchInv
<1> QED
  BY <1>2, <1>3
-----------------------------------------------------------------------------
(* What the four handlers have in common.  Descriptors are only added.     *)
LEMMA ServeKeeps ==
  ASSUME LibInv, NEW code \in RequestCodes, Serve(code),
         fds' = fds \/ \E p \in DOMAIN File : fds' = Append(fds, p)
  PROVE  /\ TableInv' /\ WaitInv' /\ FdInv' /\ SwitchInv'
         /\ pc' = "ioctl" /\ target' = target /\ trustlets' = trustlets
         /\ invType' = code
         /\ target \in trustlets =>
              waiting'[target] = args /\ args.code = code /\ Asked(args)
<1> USE DEF LibInv
<1>1. /\ pc = "switch" /\ ret = code /\ pc' = "ioctl" /\ invType' = code
      /\ target' = target /\ objects' = objects
      /\ nextId' = nextId /\ trustlets' = trustlets
      /\ held' = held /\ waiting' = waiting
  BY DEF Serve, monitorVars, trustletVars
<1>2. target \in trustlets =>
        waiting[target] = args /\ args.code = code /\ Asked(args)
  BY <1>1 DEF SwitchInv
<1>3. TableInv' /\ WaitInv' /\ SwitchInv'
  BY <1>1 DEF TableInv, WaitInv, SwitchInv
<1>4. /\ fds' \in Seq(DOMAIN File)
      /\ \A i \in DOMAIN fds : i \in DOMAIN fds' /\ fds'[i] = fds[i]
  <2>1. CASE fds' = fds
    BY <2>1 DEF FdInv
  <2>2. ASSUME NEW p \in DOMAIN File, fds' = Append(fds, p)
        PROVE  /\ fds' \in Seq(DOMAIN File)
               /\ \A i \in DOMAIN fds : i \in DOMAIN fds' /\ fds'[i] = fds[i]
    <3>1. fds \in Seq(DOMAIN File)
      BY DEF FdInv
    <3>2. /\ fds' \in Seq(DOMAIN File) /\ Len(fds') = Len(fds) + 1
          /\ \A i \in 1 .. Len(fds) : fds'[i] = fds[i]
      BY <2>2, <3>1, AppendProperties
    <3>3. /\ DOMAIN fds = 1 .. Len(fds) /\ DOMAIN fds' = 1 .. Len(fds')
          /\ Len(fds) \in Nat
      BY <3>1, <3>2
    <3> QED
      BY <3>2, <3>3
  <2> QED
    BY <2>1, <2>2
<1>5. FdInv'
  BY <1>1, <1>4 DEF FdInv
<1> QED
  BY <1>1, <1>2, <1>3, <1>5

(* A handler that runs for a process that is gone answers nobody.          *)
LEMMA ServeNobody ==
  ASSUME LibInv, target \notin trustlets,
         ServeFileattr \/ ServeOpen \/ ServeRead \/ ServeMmap
  PROVE  LibInv'
<1>1. \E code \in RequestCodes : Serve(code)
  BY DEF ServeFileattr, ServeOpen, ServeRead, ServeMmap, RequestCodes,
     guestRequestFileattr, guestRequestOpen, guestRequestRead, guestRequestMmap
<1>2. fds' = fds \/ \E p \in DOMAIN File : fds' = Append(fds, p)
  BY DEF ServeFileattr, ServeOpen, ServeRead, ServeMmap, Exists
<1>3. /\ TableInv' /\ WaitInv' /\ FdInv' /\ SwitchInv'
      /\ target' = target /\ trustlets' = trustlets
  BY <1>1, <1>2, ServeKeeps
<1>4. AnswerInv'
  BY <1>3 DEF AnswerInv, AnswerExact
<1> QED
  BY <1>3, <1>4 DEF LibInv

LEMMA FileattrStep ==
  ASSUME LibInv, target \in trustlets, ServeFileattr
  PROVE  LibInv'
<1>1. /\ Serve(guestRequestFileattr) /\ fds' = fds
      /\ guestRequestFileattr \in RequestCodes
  BY DEF ServeFileattr, RequestCodes, guestRequestFileattr, guestRequestMmap
<1>2. /\ TableInv' /\ WaitInv' /\ FdInv' /\ SwitchInv'
      /\ pc' = "ioctl" /\ target' = target /\ trustlets' = trustlets
      /\ invType' = guestRequestFileattr
      /\ waiting'[target] = args /\ args.code = guestRequestFileattr
  BY <1>1, ServeKeeps
<1>3. PICK size \in {0, 1} :
        answer' = IF Exists(args.path)
                  THEN [ret |-> 0, size |-> Len(File[args.path])]
                  ELSE [ret |-> -1, size |-> size]
  BY DEF ServeFileattr
<1>4. answer'.ret = 0 <=> Exists(args.path)
  BY <1>3
<1>5. Exists(args.path) => answer'.size = Len(File[args.path])
  BY <1>3
<1>6. AnswerInv'
  BY <1>2, <1>4, <1>5 DEF AnswerInv, AnswerExact, Exists, guestRequestFileattr,
     guestRequestOpen, guestRequestRead, guestRequestMmap
<1> QED
  BY <1>2, <1>6 DEF LibInv

LEMMA OpenStep ==
  ASSUME LibInv, target \in trustlets, ServeOpen
  PROVE  LibInv'
<1>1. /\ Serve(guestRequestOpen)
      /\ guestRequestOpen \in RequestCodes
  BY DEF ServeOpen, RequestCodes, guestRequestFileattr, guestRequestOpen,
     guestRequestMmap
<1>2. \/ /\ Exists(args.path) /\ fds' = Append(fds, args.path)
         /\ answer' = [fd |-> Len(fds) + 1]
      \/ answer' = [fd |-> -1] /\ fds' = fds
  BY DEF ServeOpen
<1>3. /\ TableInv' /\ WaitInv' /\ FdInv' /\ SwitchInv'
      /\ pc' = "ioctl" /\ target' = target /\ trustlets' = trustlets
      /\ invType' = guestRequestOpen
      /\ waiting'[target] = args /\ args.code = guestRequestOpen
  BY <1>1, <1>2, ServeKeeps DEF Exists
<1>4. answer'.fd # -1 => answer'.fd \in DOMAIN fds' /\ fds'[answer'.fd] = args.path
  <2>1. CASE answer' = [fd |-> -1]
    BY <2>1
  <2>2. CASE /\ Exists(args.path) /\ fds' = Append(fds, args.path)
             /\ answer' = [fd |-> Len(fds) + 1]
    <3>1. fds \in Seq(DOMAIN File) /\ args.path \in DOMAIN File
      BY <2>2 DEF LibInv, FdInv, Exists
    <3>2. /\ fds' \in Seq(DOMAIN File) /\ Len(fds') = Len(fds) + 1
          /\ fds'[Len(fds) + 1] = args.path
      BY <2>2, <3>1, AppendProperties
    <3>3. DOMAIN fds' = 1 .. Len(fds) + 1 /\ Len(fds) \in Nat
      BY <3>1, <3>2
    <3> QED
      BY <2>2, <3>2, <3>3
  <2> QED
    BY <1>2, <2>1, <2>2
<1>5. AnswerInv'
  BY <1>3, <1>4 DEF AnswerInv, AnswerExact, guestRequestFileattr,
     guestRequestOpen, guestRequestRead, guestRequestMmap
<1> QED
  BY <1>3, <1>5 DEF LibInv

(* A descriptor of a request gives the bytes of the file it names.         *)
LEMMA FileOfRequest ==
  ASSUME FdInv, NEW r, r.fd \in DOMAIN fds, fds[r.fd] = r.path
  PROVE  Exists(r.path) /\ File[r.path] \in Seq(Nat)
<1>1. r.path \in DOMAIN File
  BY DEF FdInv
<1> QED
  BY <1>1, LibAssumption DEF Exists

LEMMA ReadStep ==
  ASSUME LibInv, target \in trustlets, ServeRead
  PROVE  LibInv'
<1>1. /\ Serve(guestRequestRead) /\ fds' = fds
      /\ guestRequestRead \in RequestCodes
  BY DEF ServeRead, RequestCodes, guestRequestFileattr, guestRequestRead,
     guestRequestMmap
<1>2. /\ TableInv' /\ WaitInv' /\ FdInv' /\ SwitchInv'
      /\ pc' = "ioctl" /\ target' = target /\ trustlets' = trustlets
      /\ invType' = guestRequestRead
      /\ waiting'[target] = args /\ args.code = guestRequestRead
      /\ Asked(args)
  BY <1>1, ServeKeeps
<1>3. /\ args.fd \in DOMAIN fds /\ fds[args.fd] = args.path
      /\ args.offset \in Nat /\ args.count \in Nat
  BY <1>2 DEF Asked, guestRequestFileattr, guestRequestOpen, guestRequestRead
<1>4. Exists(args.path) /\ File[args.path] \in Seq(Nat)
  BY <1>3, FileOfRequest DEF LibInv
<1> DEFINE bytes == File[args.path]
           o == args.offset
           n == Clamp(args.count)
           m == IF o + n < Len(bytes) THEN o + n ELSE Len(bytes)
           d == SubSeq(bytes, o + 1, m)
<1>5. /\ n \in Nat /\ n <= args.count /\ (n = 0 => args.count = 0)
      /\ Len(bytes) \in Nat
  BY <1>3, <1>4, LibAssumption DEF Clamp
<1>6. \/ answer' = [count |-> Len(d), data |-> d]
      \/ answer' = [count |-> -1, data |-> <<>>]
  BY <1>3 DEF ServeRead, Pread
<1>7. /\ d \in Seq(Nat)
      /\ Len(d) = IF o < m THEN m - o ELSE 0
      /\ \A i \in 1 .. Len(d) : d[i] = bytes[o + i]
  BY <1>3, <1>4, <1>5, PreadExact
<1> HIDE DEF d, n
<1>8. \/ answer'.data = d /\ answer'.count = Len(d)
      \/ answer'.data = <<>> /\ answer'.count = -1
  BY <1>6
<1>9. m \in Nat /\ m <= o + n /\ (m <= o => n = 0 \/ o >= Len(bytes))
  BY <1>3, <1>5
<1> HIDE DEF m, o
<1>10. o \in Nat
  BY <1>3 DEF o
<1>11. Len(d) <= args.count
  BY <1>3, <1>5, <1>7, <1>9, <1>10
<1>12. answer'.count = 0 => args.count = 0 \/ o >= Len(bytes)
  BY <1>5, <1>7, <1>8, <1>9, <1>10
<1>13. /\ \A i \in DOMAIN answer'.data : answer'.data[i] = bytes[o + i]
       /\ Len(answer'.data) <= args.count
  <2>1. CASE answer'.data = d
    BY <1>7, <1>11, <2>1
  <2>2. CASE answer'.data = <<>>
    <3>1. Len(answer'.data) = 0 /\ DOMAIN answer'.data = {}
      BY <2>2
    <3> QED
      BY <1>3, <3>1
  <2> QED
    BY <1>8, <2>1, <2>2
<1> USE DEF o
<1>14. AnswerInv'
  BY <1>2, <1>4, <1>12, <1>13 DEF AnswerInv, AnswerExact, Exists,
     guestRequestFileattr, guestRequestOpen, guestRequestRead, guestRequestMmap
<1> QED
  BY <1>2, <1>14 DEF LibInv

(* A mapped page holds the bytes of the file, and zeroes behind them: the  *)
(* buffer is cleared before it is filled.                                  *)
LEMMA MmapStep ==
  ASSUME LibInv, target \in trustlets, ServeMmap
  PROVE  LibInv'
<1>1. /\ Serve(guestRequestMmap) /\ fds' = fds
      /\ guestRequestMmap \in RequestCodes
  BY DEF ServeMmap, RequestCodes, guestRequestFileattr, guestRequestMmap
<1>2. /\ TableInv' /\ WaitInv' /\ FdInv' /\ SwitchInv'
      /\ pc' = "ioctl" /\ target' = target /\ trustlets' = trustlets
      /\ invType' = guestRequestMmap
      /\ waiting'[target] = args /\ args.code = guestRequestMmap
      /\ Asked(args)
  BY <1>1, ServeKeeps
<1>3. /\ args.fd \in DOMAIN fds /\ fds[args.fd] = args.path
      /\ args.offset \in Nat
  BY <1>2 DEF Asked, guestRequestFileattr, guestRequestOpen, guestRequestMmap
<1>4. Exists(args.path) /\ File[args.path] \in Seq(Nat)
  BY <1>3, FileOfRequest DEF LibInv
<1> DEFINE bytes == File[args.path]
           o == args.offset
           m == IF o + PageLen < Len(bytes) THEN o + PageLen ELSE Len(bytes)
           d == SubSeq(bytes, o + 1, m)
<1>5. Len(bytes) \in Nat /\ PageLen \in Nat
  BY <1>4, LibAssumption
<1>6. \/ answer'.page = Overlay(Zeros, d) /\ answer'.count = Len(d)
      \/ answer'.page = Overlay(Zeros, <<>>) /\ answer'.count = -1
  <2>1. PICK p \in Pread(args.fd, args.offset, PageLen) :
          answer' = [count |-> p.count, page |-> Overlay(Zeros, p.data)]
    BY DEF ServeMmap
  <2>2. p = [count |-> Len(d), data |-> d] \/ p = [count |-> -1, data |-> <<>>]
    BY <1>3 DEF Pread
  <2> HIDE DEF d
  <2>3. answer'.page = Overlay(Zeros, p.data) /\ answer'.count = p.count
    BY <2>1
  <2>4. \/ p.data = d /\ p.count = Len(d)
        \/ p.data = <<>> /\ p.count = -1
    BY <2>2
  <2> QED
    BY <2>3, <2>4
<1>7. /\ Len(d) = IF o < m THEN m - o ELSE 0
      /\ \A i \in 1 .. Len(d) : d[i] = bytes[o + i]
  BY <1>3, <1>4, <1>5, PreadExact
<1> HIDE DEF d
<1>8. ASSUME NEW i \in 1 .. PageLen
      PROVE  answer'.page[i] = IF answer'.count # -1 /\ o + i <= Len(bytes)
                               THEN bytes[o + i] ELSE 0
  <2>0. Len(d) \in Nat /\ Len(<<>>) = 0 /\ i >= 1
    BY <1>3, <1>5, <1>7
  <2>1. answer'.page[i] = IF answer'.count # -1 /\ i <= Len(d) THEN d[i] ELSE 0
    <3>1. \A data : Overlay(Zeros, data)[i] = IF i <= Len(data) THEN data[i] ELSE 0
      BY DEF Overlay, Zeros
    <3>2. Overlay(Zeros, <<>>)[i] = 0
      BY <2>0, <3>1
    <3>3. Overlay(Zeros, d)[i] = IF i <= Len(d) THEN d[i] ELSE 0
      BY <3>1
    <3> QED
      BY <1>6, <2>0, <3>2, <3>3
  <2>2. i <= Len(d) <=> o + i <= Len(bytes)
    BY <1>3, <1>5, <1>7
  <2>3. i <= Len(d) => d[i] = bytes[o + i]
    BY <1>3, <1>5, <1>7
  <2> QED
    BY <2>1, <2>2, <2>3
<1> HIDE DEF m
<1>9. AnswerInv'
  BY <1>2, <1>4, <1>8 DEF AnswerInv, AnswerExact, Exists,
     guestRequestFileattr, guestRequestOpen, guestRequestRead, guestRequestMmap
<1> QED
  BY <1>2, <1>9 DEF LibInv
-----------------------------------------------------------------------------
(* Every step keeps the invariant, a stuttering one too.                   *)
LEMMA LibStep ==
  ASSUME LibInv, [Next]_vars
  PROVE  LibInv'
<1>1. CASE CreateZygote
  BY <1>1, CreateZygoteStep
<1>2. ASSUME NEW o \in objects, NEW size \in FuncSizes, CreateTrustlet(o.id, size)
      PROVE  LibInv'
  BY <1>2, CreateTrustletStep
<1>3. ASSUME NEW o \in objects, DeleteZygote(o.id) \/ DeleteTrustlet(o.id)
      PROVE  LibInv'
  BY <1>3, DeleteStep
<1>4. ASSUME NEW o \in objects, InvokeTrustlet(o.id)
      PROVE  LibInv'
  BY <1>4, InvokeStep
<1>5. CASE InvocationStep
  BY <1>5, RunStep, RefuseStep, FileattrStep, OpenStep, ReadStep, MmapStep,
     ServeNobody, ReturnStep DEF InvocationStep
<1>6. CASE UNCHANGED vars
  <2>1. /\ nextId' = nextId /\ trustlets' = trustlets /\ waiting' = waiting
        /\ held' = held /\ objects' = objects /\ pc' = pc /\ target' = target
        /\ ret' = ret /\ invType' = invType /\ args' = args
        /\ answer' = answer /\ fds' = fds
    BY <1>6 DEF vars, monitorVars, trustletVars, libVars
  <2>2. TableInv' /\ WaitInv' /\ FdInv'
    BY <2>1 DEF LibInv, TableInv, WaitInv, FdInv
  <2>3. SwitchInv'
    BY <2>1 DEF LibInv, SwitchInv, Asked
  <2>4. AnswerInv'
    BY <2>1 DEF LibInv, AnswerInv, AnswerExact
  <2> QED
    BY <2>2, <2>3, <2>4 DEF LibInv
<1> QED
  BY <1>1, <1>2, <1>3, <1>4, <1>5, <1>6 DEF Next

(* The invariant of the library holds whatever ids the monitor gives out.  *)
THEOREM LibInvariance == Spec => []LibInv
<1>1. LibInv /\ [Next]_vars => LibInv'
  BY LibStep
<1> QED
  BY <1>1, InitInv, PTL DEF Spec

(* Whenever a trustlet is resumed, the library has left it the answer to   *)
(* its own request: the right type, the right bytes of the right file and  *)
(* zeroes behind them in a mapped page (invoke_trustlet and its handlers). *)
(* This needs no assumption on the ids: a process that is gone may be      *)
(* served by mistake, but then nobody reads the answer.                    *)
THEOREM AnswersAreExact == Spec => []AnswerExact
<1>1. LibInv => AnswerExact
  BY DEF LibInv, AnswerInv
<1> QED
  BY <1>1, LibInvariance, PTL
-----------------------------------------------------------------------------
(* A process leaves the monitor's table between invocations only, and an   *)
(* invocation starts with an empty page.                                   *)
LEMMA PhantomStep ==
  ASSUME PhantomInv, [Next]_vars
  PROVE  PhantomInv'
<1>1. CASE \/ CreateZygote
           \/ \E o \in objects, size \in FuncSizes : CreateTrustlet(o.id, size)
           \/ \E o \in objects : DeleteZygote(o.id) \/ DeleteTrustlet(o.id)
  <2>1. pc' = "idle"
    BY <1>1 DEF CreateZygote, CreateTrustlet, DeleteZygote, DeleteTrustlet, libVars
  <2> QED
    BY <2>1 DEF PhantomInv
<1>2. CASE \E o \in objects : InvokeTrustlet(o.id)
  <2>1. args' = Blank
    BY <1>2 DEF InvokeTrustlet
  <2> QED
    BY <2>1 DEF PhantomInv
<1>3. CASE TrustletEnds \/ TrustletAsks
  <2>1. target' \in trustlets'
    BY <1>3 DEF TrustletEnds, TrustletAsks, Run, monitorVars
  <2> QED
    BY <2>1 DEF PhantomInv
<1>4. CASE RefuseInvocation
  <2>1. pc # "idle" /\ target' = target /\ trustlets' = trustlets /\ args' = args
    BY <1>4 DEF RefuseInvocation, monitorVars
  <2> QED
    BY <2>1 DEF PhantomInv
<1>5. CASE ServeFileattr \/ ServeOpen \/ ServeRead \/ ServeMmap
  <2>1. \E code : Serve(code)
    BY <1>5 DEF ServeFileattr, ServeOpen, ServeRead, ServeMmap
  <2>2. pc # "idle" /\ target' = target /\ trustlets' = trustlets /\ args' = args
    BY <2>1 DEF Serve, monitorVars
  <2> QED
    BY <2>2 DEF PhantomInv
<1>6. CASE Return
  <2>1. pc' = "idle"
    BY <1>6 DEF Return
  <2> QED
    BY <2>1 DEF PhantomInv
<1>7. CASE UNCHANGED vars
  <2>1. pc' = pc /\ target' = target /\ trustlets' = trustlets /\ args' = args
    BY <1>7 DEF vars, monitorVars, libVars
  <2> QED
    BY <2>1 DEF PhantomInv
<1> QED
  BY <1>1, <1>2, <1>3, <1>4, <1>5, <1>6, <1>7 DEF Next, InvocationStep

(* Only the handler of an open request adds a descriptor, and it finds     *)
(* either the request of its live target or an empty path.                 *)
LEMMA OpenForAsker ==
  ASSUME LibInv, PhantomInv, [Next]_vars, fds' # fds
  PROVE  /\ target \in trustlets
         /\ waiting[target].code = guestRequestOpen
         /\ fds' = Append(fds, waiting[target].path)
<1>1. ServeOpen
  <2>1. CASE \/ CreateZygote
             \/ \E o \in objects, size \in FuncSizes : CreateTrustlet(o.id, size)
             \/ \E o \in objects : DeleteZygote(o.id) \/ DeleteTrustlet(o.id)
             \/ UNCHANGED vars
    BY <2>1 DEF CreateZygote, CreateTrustlet, DeleteZygote, DeleteTrustlet,
       libVars, vars
  <2>2. CASE \/ \E o \in objects : InvokeTrustlet(o.id)
             \/ TrustletEnds \/ TrustletAsks \/ RefuseInvocation \/ Return
    BY <2>2 DEF InvokeTrustlet, TrustletEnds, TrustletAsks, Run,
       RefuseInvocation, Return
  <2>3. CASE ServeFileattr \/ ServeRead \/ ServeMmap
    BY <2>3 DEF ServeFileattr, ServeRead, ServeMmap
  <2> QED
    BY <2>1, <2>2, <2>3 DEF Next, InvocationStep
<1>2. /\ pc = "switch" /\ ret = guestRequestOpen
      /\ Exists(args.path) /\ fds' = Append(fds, args.path)
  BY <1>1 DEF ServeOpen, Serve
<1>3. target \in trustlets
  <2>1. ASSUME target \notin trustlets PROVE FALSE
    <3>1. args = Blank
      BY <1>2, <2>1 DEF PhantomInv
    <3>2. args.path = Missing
      BY <3>1 DEF Blank
    <3> QED
      BY <1>2, <3>2, LibAssumption DEF Exists
  <2> QED
    BY <2>1
<1>4. waiting[target] = args /\ args.code = ret
  BY <1>2, <1>3 DEF LibInv, SwitchInv, RequestCodes, guestRequestFileattr,
     guestRequestOpen, guestRequestMmap
<1> QED
  BY <1>2, <1>3, <1>4

(* invoke_trustlet opens a file of the guest only for a live trustlet that *)
(* has asked for this file, whatever ids the monitor gives out: an ioctl   *)
(* refused for a process that is gone may be taken for an open request,    *)
(* but there is no path in its page.                                       *)
THEOREM OpensOnlyForAskers == Spec => NoPhantomOpen
<1>1. Init => PhantomInv
  BY DEF Init, PhantomInv
<1>2. PhantomInv /\ [Next]_vars => PhantomInv'
  BY PhantomStep
<1>3. LibInv /\ PhantomInv /\ [Next]_vars =>
        [fds' # fds => /\ target \in trustlets
                       /\ waiting[target].code = guestRequestOpen
                       /\ fds' = Append(fds, waiting[target].path)]_vars
  BY OpenForAsker
<1> QED
  BY <1>1, <1>2, <1>3, LibInvariance, PTL DEF Spec, NoPhantomOpen
=============================================================================
