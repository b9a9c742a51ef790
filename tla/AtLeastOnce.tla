---------------------------- MODULE AtLeastOnce ----------------------------
(***************************************************************************)
(* What outbound webhooks promise: an event shown as delivered has reached *)
(* its target, and it is never shown as anything else again unless an      *)
(* operator asked for it to be sent once more                              *)
(* (apps/worker/src/jobs/webhook-delivery.ts, header comment).             *)
(***************************************************************************)
CONSTANTS Deliveries

VARIABLES
    outcome,    \* what is shown: "none", "open", "delivered", "abandoned"
    heard,      \* events the target has acknowledged
    asked       \* events an operator asked to be sent again

vars == <<outcome, heard, asked>>

Init ==
    /\ outcome = [d \in Deliveries |-> "none"]
    /\ heard = {}
    /\ asked = {}

Show(d, o) == outcome' = [outcome EXCEPT ![d] = o]

Emit(d) ==
    /\ outcome[d] = "none"
    /\ Show(d, "open")
    /\ UNCHANGED <<heard, asked>>

Hear(d) ==
    /\ heard' = heard \cup {d}
    /\ UNCHANGED <<outcome, asked>>

Succeed(d) ==
    /\ outcome[d] # "none" /\ d \in heard
    /\ Show(d, "delivered")
    /\ UNCHANGED <<heard, asked>>

\* Tried again, or given up, perhaps after having been given up.
Change(d, o) ==
    /\ outcome[d] # "none"
    /\ outcome[d] # "delivered" \/ d \in asked
    /\ Show(d, o)
    /\ UNCHANGED <<heard, asked>>

Ask(d) ==
    /\ outcome[d] # "none"
    /\ asked' = asked \cup {d}
    /\ Show(d, "open")
    /\ UNCHANGED heard

\* The endpoint is deleted, and the events with it.
Drop ==
    /\ outcome' = [d \in Deliveries |-> "none"]
    /\ UNCHANGED <<heard, asked>>

Next ==
    \/ \E d \in Deliveries : Emit(d) \/ Hear(d) \/ Succeed(d) \/ Ask(d)
    \/ \E d \in Deliveries, o \in {"open", "abandoned"} : Change(d, o)
    \/ Drop

Spec == Init /\ [][Next]_vars
=============================================================================
