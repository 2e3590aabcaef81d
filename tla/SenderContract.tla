--------------------------- MODULE SenderContract ---------------------------
(***************************************************************************)
(* What the senders of uring_exec promise whoever connects and starts one: *)
(* an operation that was started completes once, and reports "stopped"     *)
(* only if somebody asked it to stop.  An operation state may be destroyed *)
(* when it has completed, and another one constructed in its place.        *)
(* UringExec and ExecShutdown are shown to implement this.  A request to   *)
(* stop may reach several operations at once (the context's stop source),  *)
(* and several may complete in one step.                                   *)
(***************************************************************************)
CONSTANT Ops              \* addresses of operation states

VARIABLES state,          \* "connected", "started" or "completed"
          asked,          \* its stop source has been asked to stop
          result          \* "none", "value" (or an error) or "stopped"

vars == <<state, asked, result>>

Init == /\ state = [o \in Ops |-> "connected"]
        /\ asked = [o \in Ops |-> FALSE]
        /\ result = [o \in Ops |-> "none"]

\* Those of S start, those of D, which had been started, are done.
Move(S, D) ==
  /\ \A o \in S : state[o] = "connected"
  /\ \A o \in D : state[o] = "started"
  /\ state' = [o \in Ops |-> IF o \in S THEN "started"
                          ELSE IF o \in D THEN "completed" ELSE state[o]]

Start(S) == Move(S, {}) /\ UNCHANGED <<asked, result>>

Ask(S) == /\ asked' = [o \in Ops |-> asked[o] \/ o \in S]
          /\ UNCHANGED <<state, result>>

\* A receiver may start others when it is told the value.
Complete(D, r, S) == /\ Move(S, D)
                     /\ r = "stopped" => S = {} /\ \A o \in D : asked[o]
                     /\ result' = [o \in Ops |-> IF o \in D THEN r ELSE result[o]]
                     /\ UNCHANGED asked

\* Started by the completion of another operation and stopped at once.
StartStopped(o) == /\ state[o] = "connected" /\ asked[o]
                   /\ state' = [state EXCEPT ![o] = "completed"]
                   /\ result' = [result EXCEPT ![o] = "stopped"]
                   /\ UNCHANGED asked

Reconnect(o) == /\ state[o] = "completed"
                /\ state' = [state EXCEPT ![o] = "connected"]
                /\ asked' = [asked EXCEPT ![o] = FALSE]
                /\ result' = [result EXCEPT ![o] = "none"]

Next == \/ \E S \in SUBSET Ops : \/ Start(S) \/ Ask(S)
                                 \/ \E D \in SUBSET Ops, r \in {"value", "stopped"} :
                                      Complete(D, r, S)
        \/ \E o \in Ops : StartStopped(o) \/ Reconnect(o)

Spec == Init /\ [][Next]_vars
=============================================================================
