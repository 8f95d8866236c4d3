------------------------------ MODULE LibWallet ------------------------------
(***************************************************************************)
(* The guest side of an invocation: module/libwallet/src (create, invoke,  *)
(* delete), the handlers of the kernel driver module/src/vmpl.c behind its *)
(* ioctl, and the Python objects that hold the process ids.  The monitor   *)
(* and the program in the trustlet are external: the monitor runs a live   *)
(* trustlet until it ends or asks the guest for a file operation, and      *)
(* refuses a process id it does not know, leaving rcx as it was.           *)
(***************************************************************************)
EXTENDS Integers, Sequences

CONSTANTS
  FirstId,      \* next process id of the monitor when the application starts
  MaxProcs,     \* bound: processes the application creates
  FuncSizes,    \* lengths of the function codes
  File,         \* File[path]: contents of the files of the guest
  Missing,      \* a path without a file
  PageLen,      \* 4096: size of the page that answers an mmap request
  BufLen,       \* 1024: size of read.buf
  Offsets,      \* offsets a trustlet reads from
  Counts,       \* numbers of bytes a trustlet asks for
  FdLimit,      \* file descriptors the guest process may have
  Refusable     \* creations the monitor may refuse for lack of resources

ASSUME LibAssumption ==
  /\ FirstId \in Nat /\ MaxProcs \in Nat
  /\ FuncSizes \subseteq Nat /\ Offsets \subseteq Nat /\ Counts \subseteq Nat
  /\ PageLen \in Nat \ {0} /\ BufLen \in Nat \ {0} /\ FdLimit \in Nat
  /\ Missing \notin DOMAIN File
  /\ \A p \in DOMAIN File : File[p] \in Seq(Nat)
  /\ Refusable \subseteq {"createZygote", "createTrustlet"}

VARIABLES
  zygotes, trustlets, nextId,  \* processes of the monitor (external)
  waiting,   \* waiting[t]: the request trustlet t waits to be answered
  held,      \* held[t]: what trustlet t has opened: descriptor and path
  objects,   \* the Zygote and Trustlet objects of the application
  pc,        \* where invoke_trustlet is
  target,    \* trustlet_id of the invocation
  ret,       \* result of the ioctl
  invType,   \* invoke_data->invokation_type
  args,      \* guest_request_args as the trustlet filled it
  answer,    \* guest_request_args as the library filled it
  mmapBuf,   \* mmap_read_buffer
  fds        \* open files of the guest process

monitorVars == <<zygotes, trustlets, nextId>>
trustletVars == <<waiting, held>>
libVars == <<pc, target, ret, invType, args, answer, mmapBuf, fds>>
vars == <<monitorVars, trustletVars, objects, libVars>>

PAGE_SIZE == 4096
invocationExit == 0
invocationGetValue == 1
invocationError == 2
guestRequestFileattr == 3
guestRequestOpen == 4
guestRequestRead == 5
guestRequestMmap == 6
RequestCodes == guestRequestFileattr .. guestRequestMmap
EndCodes == {invocationExit, invocationGetValue, invocationError}

(* A page of zeroes, read as any variant of the union. *)
Blank == [code |-> 0, path |-> Missing, fd |-> 0, offset |-> 0, count |-> 0]
Zeros == [i \in 1 .. PageLen |-> 0]

Init ==
  /\ zygotes = {} /\ trustlets = {} /\ nextId = FirstId
  /\ waiting = <<>> /\ held = <<>> /\ objects = {}
  /\ pc = "idle" /\ target = 0 /\ ret = invocationExit
  /\ invType = invocationExit /\ args = Blank /\ answer = Blank
  /\ mmapBuf = Zeros /\ fds = <<>>
-----------------------------------------------------------------------------
(* The driver returns rcx for both creations, whatever the result of the   *)
(* call: a new id, or the size it has put there itself.                    *)
ZygoteRcx(id, refused) == IF refused THEN PAGE_SIZE ELSE id
TrustletRcx(id, size, refused) == IF refused THEN size ELSE id

(* The binding raises an exception for a negative value only. *)
NewObject(kind, rcx) ==
  objects' = IF rcx < 0 THEN objects
             ELSE objects \cup {[kind |-> kind, id |-> rcx]}

NewId == nextId < FirstId + MaxProcs /\ nextId' = nextId + 1

CreateZygote ==
  /\ pc = "idle"
  /\ \/ /\ NewId /\ zygotes' = zygotes \cup {nextId}
        /\ NewObject("zygote", ZygoteRcx(nextId, FALSE))
     \/ /\ "createZygote" \in Refusable
        /\ NewObject("zygote", ZygoteRcx(nextId, TRUE))
        /\ UNCHANGED <<nextId, zygotes>>
  /\ UNCHANGED <<trustlets, trustletVars, libVars>>

WithEntry(f, id, v) ==
  [t \in DOMAIN f \cup {id} |-> IF t = id THEN v ELSE f[t]]

(* The monitor refuses a zygote it does not know.                          *)
CreateTrustlet(z, size) ==
  /\ pc = "idle"
  /\ \/ /\ z \in zygotes /\ NewId
        /\ trustlets' = trustlets \cup {nextId}
        /\ waiting' = WithEntry(waiting, nextId, Blank)
        /\ held' = WithEntry(held, nextId, {})
        /\ NewObject("trustlet", TrustletRcx(nextId, size, FALSE))
     \/ /\ z \notin zygotes \/ "createTrustlet" \in Refusable
        /\ NewObject("trustlet", TrustletRcx(nextId, size, TRUE))
        /\ UNCHANGED <<nextId, trustlets, trustletVars>>
  /\ UNCHANGED <<zygotes, libVars>>

(* The Python object survives its delete(). *)
DeleteTrustlet(t) ==
  /\ pc = "idle"
  /\ trustlets' = trustlets \ {t}
  /\ UNCHANGED <<zygotes, nextId, trustletVars, objects, libVars>>

DeleteZygote(z) ==
  /\ pc = "idle"
  /\ zygotes' = zygotes \ {z}
  /\ UNCHANGED <<trustlets, nextId, trustletVars, objects, libVars>>
-----------------------------------------------------------------------------
(* Mutant: the page for the requests is used again as it is. *)
MutantInvokeTrustlet(t) ==
  /\ pc = "idle"
  /\ pc' = "ioctl"
  /\ target' = t
  /\ invType' = invocationExit
  /\ answer' = Blank
  /\ mmapBuf' = Zeros
  /\ UNCHANGED <<monitorVars, trustletVars, objects, ret, args, fds>>

(* invoke_trustlet and invoke_trustlet_bin up to the label retry: fresh    *)
(* pages for the arguments, the requests and the file data, all zeroes.    *)
InvokeTrustlet(t) ==
  /\ pc = "idle"
  /\ pc' = "ioctl"
  /\ target' = t
  /\ invType' = invocationExit
  /\ args' = Blank /\ answer' = Blank
  /\ mmapBuf' = Zeros
  /\ UNCHANGED <<monitorVars, trustletVars, objects, ret, fds>>

(* What a trustlet may ask for next; it uses descriptors it has opened.    *)
Requests(opened) ==
  [code : {guestRequestFileattr, guestRequestOpen},
   path : DOMAIN File \cup {Missing}, fd : {0}, offset : {0}, count : {0}]
  \cup
  {[code |-> guestRequestRead, path |-> h.path, fd |-> h.fd,
    offset |-> o, count |-> n] : h \in opened, o \in Offsets, n \in Counts}
  \cup
  {[code |-> guestRequestMmap, path |-> h.path, fd |-> h.fd,
    offset |-> o, count |-> PageLen] : h \in opened, o \in Offsets}

(* The ioctl of a live trustlet: it finds its answer and runs until rcx    *)
(* holds a code.                                                           *)
Run(code, opened) ==
  /\ pc = "ioctl" /\ target \in trustlets
  /\ ret' = code
  /\ held' = [held EXCEPT ![target] = opened]
  /\ pc' = "switch"
  /\ UNCHANGED <<monitorVars, objects, target, invType, answer, mmapBuf, fds>>

(* The descriptors the trustlet has, once it has found its answer. *)
Opened ==
  LET last == waiting[target]
  IN held[target] \cup
       IF last.code = guestRequestOpen /\ answer.fd # -1
       THEN {[fd |-> answer.fd, path |-> last.path]} ELSE {}

(* The trustlet ends this invocation, or asks the guest for a file         *)
(* operation.                                                              *)
TrustletEnds ==
  \E code \in EndCodes :
    /\ Run(code, Opened)
    /\ waiting' = [waiting EXCEPT ![target] = Blank]
    /\ UNCHANGED args

TrustletAsks ==
  /\ pc = "ioctl" /\ target \in trustlets
  /\ \E r \in Requests(Opened) :
       /\ Run(r.code, Opened)
       /\ waiting' = [waiting EXCEPT ![target] = r]
       /\ args' = r

(* The ioctl of a process the monitor does not know returns rcx, too.      *)
RefuseInvocation ==
  /\ pc = "ioctl" /\ target \notin trustlets
  /\ ret' = target
  /\ pc' = "switch"
  /\ UNCHANGED <<monitorVars, trustletVars, objects, target, invType, args,
                 answer, mmapBuf, fds>>
-----------------------------------------------------------------------------
(* The handlers of the retry loop.  Each fills the page, sets the type of  *)
(* the next invocation (named here by the request it answers) and goes to  *)
(* retry.                                                                  *)
Serve(code) ==
  /\ pc = "switch" /\ ret = code
  /\ pc' = "ioctl"
  /\ invType' = code
  /\ UNCHANGED <<monitorVars, trustletVars, objects, target, ret, args>>

Exists(path) == path \in DOMAIN File

(* stat; without a file the size is whatever was on the stack.             *)
ServeFileattr ==
  /\ Serve(guestRequestFileattr)
  /\ \E size \in {0, 1} :
       answer' = IF Exists(args.path)
                 THEN [ret |-> 0, size |-> Len(File[args.path])]
                 ELSE [ret |-> -1, size |-> size]
  /\ UNCHANGED <<mmapBuf, fds>>

(* open; nothing ever closes the descriptor.                               *)
ServeOpen ==
  /\ Serve(guestRequestOpen)
  /\ IF Exists(args.path) /\ Len(fds) < FdLimit
     THEN fds' = Append(fds, args.path) /\ answer' = [fd |-> Len(fds) + 1]
     ELSE answer' = [fd |-> -1] /\ UNCHANGED fds
  /\ UNCHANGED mmapBuf

(* What pread may return: at most n bytes of an open file, or -1 for a bad *)
(* descriptor or because it fails.                                         *)
Pread(fd, offset, n) ==
  {[count |-> -1, data |-> <<>>]} \cup
  IF fd \notin DOMAIN fds THEN {}
  ELSE LET bytes == File[fds[fd]]
           data == SubSeq(bytes, offset + 1,
                          IF offset + n < Len(bytes) THEN offset + n ELSE Len(bytes))
       IN {[count |-> Len(data), data |-> data]}

Clamp(n) == IF n > BufLen THEN BufLen ELSE n

(* A read request for a file; directories are the subject of DirRead.  The *)
(* result of pread, -1 too, is the count of the answer.                    *)
ServeRead ==
  /\ Serve(guestRequestRead)
  /\ answer' \in Pread(args.fd, args.offset, Clamp(args.count))
  /\ UNCHANGED <<mmapBuf, fds>>

Overlay(page, data) ==
  [i \in 1 .. PageLen |-> IF i <= Len(data) THEN data[i] ELSE page[i]]

(* Mutant: the buffer is not cleared. *)
MutantServeMmap ==
  /\ Serve(guestRequestMmap)
  /\ \E p \in Pread(args.fd, args.offset, PageLen) :
       /\ mmapBuf' = Overlay(mmapBuf, p.data)
       /\ answer' = [count |-> p.count, page |-> mmapBuf']
  /\ UNCHANGED fds

(* The trustlet gets the page; the result of pread is only printed, and    *)
(* kept here for the properties.                                           *)
ServeMmap ==
  /\ Serve(guestRequestMmap)
  /\ \E p \in Pread(args.fd, args.offset, PageLen) :
       /\ mmapBuf' = Overlay(Zeros, p.data)
       /\ answer' = [count |-> p.count, page |-> mmapBuf']
  /\ UNCHANGED fds

(* Mutant: a failed invocation is started again. *)
MutantReturn ==
  /\ pc = "switch" /\ ret \notin RequestCodes
  /\ pc' = IF ret = invocationError THEN "ioctl" ELSE "idle"
  /\ invType' = invocationExit
  /\ mmapBuf' = Zeros /\ answer' = Blank
  /\ UNCHANGED <<monitorVars, trustletVars, objects, target, ret, args, fds>>

(* Any other result ends the invocation; mmap_read_buffer is freed and the *)
(* page of the requests is not looked at again.                            *)
Return ==
  /\ pc = "switch" /\ ret \notin RequestCodes
  /\ pc' = "idle"
  /\ mmapBuf' = Zeros /\ answer' = Blank
  /\ UNCHANGED <<monitorVars, trustletVars, objects, target, ret, invType,
                 args, fds>>

InvocationStep ==
  \/ TrustletEnds \/ TrustletAsks \/ RefuseInvocation
  \/ ServeFileattr \/ ServeOpen \/ ServeRead \/ ServeMmap
  \/ Return

Next ==
  \/ CreateZygote
  \/ \E o \in objects, size \in FuncSizes :
       o.kind = "zygote" /\ CreateTrustlet(o.id, size)
  \/ \E o \in objects : o.kind = "zygote" /\ DeleteZygote(o.id)
  \/ \E o \in objects : o.kind = "trustlet" /\ DeleteTrustlet(o.id)
  \/ \E o \in objects : o.kind = "trustlet" /\ InvokeTrustlet(o.id)
  \/ InvocationStep

Spec == Init /\ [][Next]_vars

(* An ioctl returns, and the library runs on.  A trustlet may ask for      *)
(* files any number of times, but not for ever.                            *)
FairSpec ==
  Spec /\ WF_vars(InvocationStep) /\ SF_vars(TrustletEnds)
-----------------------------------------------------------------------------
(* A trustlet that is resumed finds the answer to what it asked: the type  *)
(* of its request, and for its own file, offset and count exactly the      *)
(* bytes of the file, with zeroes behind them in a mapped page and nothing *)
(* of an earlier request.  When pread fails, the count of a read is -1 and *)
(* a mapped page is all zeroes.                                            *)
AnswerExact ==
  pc = "ioctl" /\ target \in trustlets =>
    LET r == waiting[target]
        bytes == IF Exists(r.path) THEN File[r.path] ELSE <<>>
    IN /\ invType = r.code
       /\ r.code = guestRequestFileattr =>
            /\ answer.ret = 0 <=> Exists(r.path)
            /\ answer.ret = 0 => answer.size = Len(bytes)
       /\ r.code = guestRequestOpen /\ answer.fd # -1 => fds[answer.fd] = r.path
       /\ r.code = guestRequestRead =>
            /\ Len(answer.data) <= r.count
            /\ \A i \in DOMAIN answer.data : answer.data[i] = bytes[r.offset + i]
            /\ answer.count = 0 => r.count = 0 \/ r.offset >= Len(bytes)
       /\ r.code = guestRequestMmap =>
            \A i \in 1 .. PageLen :
              answer.page[i] = IF answer.count # -1 /\ r.offset + i <= Len(bytes)
                               THEN bytes[r.offset + i] ELSE 0

(* The ioctl for a process that is gone returns the id the library put     *)
(* into rcx: an id from 3 to 6 is taken for a request nobody made.         *)
Phantom == target \notin trustlets /\ target \in RequestCodes

(* The library opens a file of the guest only for a live trustlet that has *)
(* asked for this file: a request nobody made finds an empty page, and the *)
(* empty path in it opens nothing, whatever was served before.             *)
NoPhantomOpen ==
  [][fds' # fds =>
       /\ target \in trustlets
       /\ waiting[target].code = guestRequestOpen
       /\ fds' = Append(fds, waiting[target].path)]_vars

(* Every invocation returns to the application, except one of a process    *)
(* that is gone and whose id is a code of a request: that one goes to the  *)
(* label retry for ever.                                                   *)
EveryInvocationReturns == pc = "ioctl" /\ ~Phantom ~> pc = "idle"
=============================================================================
