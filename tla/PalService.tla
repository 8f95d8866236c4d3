----------------------------- MODULE PalService -----------------------------
(***************************************************************************)
(* What the WAMR runtime promises its caller, without heaps, keys or       *)
(* domains.  One request is served at a time.  A load request replaces the *)
(* loaded module, whatever becomes of it; a call runs the module that is   *)
(* loaded; the status of the answer says which of these happened.  The     *)
(* statuses are those of the output channel protocol of wamr_pal_main.c.   *)
(***************************************************************************)
EXTENDS Integers

CONSTANTS Modules, NoModule

VARIABLES
  phase,     \* "booting", "serving" or "stopped"
  request,   \* the request being served, or NoRequest
  loaded,    \* the loaded module, or NoModule
  answer     \* status and module run of the last answer, or NoAnswer

serviceVars == <<phase, request, loaded, answer>>

Requests ==
  [kind : {"load"}, mod : Modules]
    \cup [kind : {"call", "bad", "shutdown"}, mod : {NoModule}]
NoRequest == [kind |-> "none", mod |-> NoModule]
NoAnswer == [status |-> -1, ran |-> NoModule]

Init ==
  /\ phase = "booting"
  /\ request = NoRequest
  /\ loaded = NoModule
  /\ answer = NoAnswer

(* The runtime comes up, or it does not. *)
Start ==
  /\ phase = "booting"
  /\ phase' \in {"serving", "stopped"}
  /\ UNCHANGED <<request, loaded, answer>>

(* A request arrives; a runtime that has stopped never answers it. *)
Ask(r) ==
  /\ phase # "booting"
  /\ request = NoRequest
  /\ request' = r
  /\ answer' = NoAnswer
  /\ UNCHANGED <<phase, loaded>>

Unload ==
  /\ phase = "serving"
  /\ request.kind \in {"load", "shutdown"}
  /\ loaded' = NoModule
  /\ UNCHANGED <<phase, request, answer>>

Load ==
  /\ phase = "serving"
  /\ request.kind = "load"
  /\ loaded = NoModule
  /\ loaded' = request.mod
  /\ UNCHANGED <<phase, request, answer>>

(* The module that serves the request is in place. *)
Ready ==
  \/ request.kind = "load" /\ loaded = request.mod
  \/ request.kind = "call" /\ loaded # NoModule

(* Which answers a request may get. *)
Allowed(status) ==
  CASE status = 0 -> Ready
    [] status = 1 -> request.kind = "bad"
    [] status \in {2, 3} -> request.kind = "load" /\ loaded = NoModule
    [] status = 4 -> Ready
    [] status = 5 -> request.kind = "call" /\ loaded = NoModule

Answer(status) ==
  /\ phase = "serving"
  /\ Allowed(status)
  /\ answer' = [status |-> status,
                ran |-> IF status = 0 THEN loaded ELSE NoModule]
  /\ request' = NoRequest
  /\ UNCHANGED <<phase, loaded>>

Stop ==
  /\ phase = "serving"
  /\ request.kind = "shutdown"
  /\ loaded = NoModule
  /\ phase' = "stopped"
  /\ request' = NoRequest
  /\ UNCHANGED <<loaded, answer>>

Next ==
  \/ Start
  \/ \E r \in Requests : Ask(r)
  \/ Unload
  \/ Load
  \/ \E status \in 0 .. 5 : Answer(status)
  \/ Stop

Spec == Init /\ [][Next]_serviceVars
=============================================================================
