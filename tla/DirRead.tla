------------------------------- MODULE DirRead -------------------------------
(***************************************************************************)
(* The read request of a trustlet for a directory: the loop of             *)
(* invoke_trustlet_bin over the records getdents64 returns, with its seek  *)
(* back when a name does not fit, one action per way through its body.     *)
(* The positions of a directory are the file system's own (d_off is "not   *)
(* an offset"): they grow from entry to entry by any amount, although the  *)
(* seek counts in bytes of records.  New entries may appear at the end of  *)
(* the directory at any time.                                              *)
(***************************************************************************)
EXTENDS Integers, Sequences

CONSTANTS
  Lens,     \* bytes a name takes in the answer: name, slash, end
  RecLens,  \* d_reclen
  Gaps,     \* distances between the positions of two entries
  MaxDir,   \* bound: number of entries of a directory
  DirBuf,   \* sizeof(dirbuf), 1024
  Counts    \* read.count of a request, after the clamp to read.buf

ASSUME DirAssumption ==
  /\ Lens \subseteq Nat \ {0} /\ RecLens \subseteq 1 .. DirBuf
  /\ Gaps \subseteq Nat \ {0}
  /\ MaxDir \in Nat /\ DirBuf \in Nat /\ Counts \subseteq Nat

VARIABLES
  dir,        \* entries of the directory: len (0 for . and ..), end, the
              \* bytes of the records up to this one, and off, the position
              \* behind it
  fdPos,      \* position of the descriptor
  pc,         \* "loop" while a request is served, otherwise "idle"
  cur,        \* number of the entry ptr points at
  remaining,  \* bytes of dirbuf from ptr on
  count,      \* room left in the answer
  readBytes,  \* read_bytes
  asked,      \* count at the start of the request
  start,      \* history: fdPos at the start of the request
  sought,     \* history: the last request has ended with the seek back
  delivered   \* history: numbers of the entries the trustlet has received,
              \* since the last seek by bytes where positions are no bytes

answerVars == <<count, readBytes, delivered>>
callVars == <<asked, start>>
vars == <<dir, fdPos, pc, cur, remaining, answerVars, callVars, sought>>

(* Where entry i ends, as a position and in bytes; both start at 0. *)
Off(i) == IF i = 0 THEN 0 ELSE dir[i].off
End(i) == IF i = 0 THEN 0 ELSE dir[i].end
RecLen(i) == End(i) - End(i - 1)

(* A file system whose positions count the bytes of the records.           *)
ByteOffsets == \A i \in 1 .. Len(dir) : Off(i) = End(i)

Init ==
  /\ dir = <<>> /\ fdPos = 0 /\ pc = "idle"
  /\ cur = 1 /\ remaining = 0
  /\ count = 0 /\ readBytes = 0 /\ delivered = <<>>
  /\ asked = 0 /\ start = 0 /\ sought = FALSE

(* Somebody creates a file. *)
CreateEntry(len, rec, gap) ==
  /\ Len(dir) < MaxDir
  /\ dir' = Append(dir, [len |-> len, end |-> End(Len(dir)) + rec,
                         off |-> Off(Len(dir)) + gap])
  /\ UNCHANGED <<fdPos, pc, cur, remaining, answerVars, callVars, sought>>
-----------------------------------------------------------------------------
(* getdents64 returns the entries behind the position, k+1 to last: as     *)
(* many as dirbuf can hold.                                                *)
Batch(k, last) ==
  /\ Off(k) <= fdPos /\ (k < Len(dir) => fdPos < Off(k + 1))
  /\ k <= last /\ End(last) - End(k) <= DirBuf
  /\ last < Len(dir) => End(last + 1) - End(k) > DirBuf

StartRequest(n) ==
  /\ pc = "idle"
  /\ count' = n /\ asked' = n /\ readBytes' = 0 /\ start' = fdPos
  /\ sought' = FALSE
  /\ delivered' = IF sought /\ ~ByteOffsets THEN <<>> ELSE delivered
  /\ UNCHANGED dir

(* The position moves behind the last entry that is returned.              *)
Getdents(n) ==
  /\ StartRequest(n)
  /\ \E k, last \in 0 .. Len(dir) :
       /\ Batch(k, last)
       /\ fdPos' = IF last = k THEN fdPos ELSE Off(last)
       /\ remaining' = End(last) - End(k)
       /\ cur' = k + 1
  /\ pc' = "loop"

(* The request is answered with no bytes. *)
GetdentsFails(n) ==
  /\ StartRequest(n)
  /\ UNCHANGED <<fdPos, pc, cur, remaining>>

AtEntry == pc = "loop" /\ remaining > 0
Named(i) == dir[i].len # 0

(* To the next record. *)
Advance ==
  /\ cur' = cur + 1
  /\ remaining' = remaining - RecLen(cur)

SkipDots ==
  /\ AtEntry /\ ~Named(cur)
  /\ Advance
  /\ UNCHANGED <<dir, fdPos, pc, answerVars, callVars, sought>>

(* Mutant: the byte at the end of a name is forgotten. *)
MutantFits(i) == dir[i].len - 1 <= count

Fits(i) == dir[i].len <= count

(* Mutant: the seek goes back over all records of the call. *)
MutantSeekBack == start

(* Mutant: there is no seek. *)
MutantNoSeek == fdPos

(* lseek by the bytes that remain; it fails before the start.              *)
SeekBack == IF remaining <= fdPos THEN fdPos - remaining ELSE fdPos

Overflow ==
  /\ AtEntry /\ Named(cur) /\ ~Fits(cur)
  /\ fdPos' = SeekBack
  /\ sought' = TRUE
  /\ pc' = "idle"
  /\ UNCHANGED <<dir, cur, remaining, answerVars, callVars>>

(* The name goes into the answer; the loop ends without a seek when it     *)
(* fills it up.                                                            *)
Copy ==
  /\ AtEntry /\ Named(cur) /\ Fits(cur)
  /\ delivered' = Append(delivered, cur)
  /\ readBytes' = readBytes + dir[cur].len
  /\ count' = count - dir[cur].len
  /\ IF count' = 0 THEN pc' = "idle" /\ UNCHANGED <<cur, remaining>>
                   ELSE Advance /\ UNCHANGED pc
  /\ UNCHANGED <<dir, fdPos, callVars, sought>>

EndOfBatch ==
  /\ pc = "loop" /\ ~(remaining > 0)
  /\ pc' = "idle"
  /\ UNCHANGED <<dir, fdPos, cur, remaining, answerVars, callVars, sought>>

Next ==
  \/ \E len \in Lens \cup {0}, rec \in RecLens, gap \in Gaps :
       CreateEntry(len, rec, gap)
  \/ \E n \in Counts : Getdents(n) \/ GetdentsFails(n)
  \/ SkipDots \/ Overflow \/ Copy \/ EndOfBatch

Spec == Init /\ [][Next]_vars
-----------------------------------------------------------------------------
Received(i) == \E k \in DOMAIN delivered : delivered[k] = i

(* No entry is delivered twice or out of order, whatever the sizes of the  *)
(* requests: from one seek back to the next with any positions, and        *)
(* through all seeks where positions are bytes.                            *)
InOrderOnce ==
  \A i, j \in DOMAIN delivered : i < j => delivered[i] < delivered[j]

(* The names written to read.buf never exceed the count of the request.    *)
WithinCount == readBytes <= asked

(* Every name between the positions before and after the request has been  *)
(* received.                                                               *)
Complete ==
  \A i \in 1 .. Len(dir) :
    Named(i) /\ start < Off(i) /\ Off(i) <= fdPos => Received(i)

(* A request passes over no name, unless it was filled to the last byte:   *)
(* with any positions when it has come to the end of its batch, and where  *)
(* positions are bytes when it has sought back, too.                       *)
CompleteUnlessFull ==
  pc = "idle" /\ (ByteOffsets \/ ~sought) /\ (readBytes # asked \/ asked = 0)
    => Complete

(* A request passes over no name: what did not fit is read by the next     *)
(* request, if the seek can lead there.                                    *)
NothingSkipped == pc = "idle" /\ (ByteOffsets \/ ~sought) => Complete
=============================================================================
