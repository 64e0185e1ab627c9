---------------------------- MODULE LossyChannel ----------------------------
(***************************************************************************)
(* What the network layer promises the node: a message that was sent is    *)
(* delivered at most once, in any order, or lost; nothing is invented.     *)
(***************************************************************************)
CONSTANT Message

VARIABLES
    sent,        \* the messages handed over so far
    pending,     \* those that may still be delivered
    delivered

vars == <<sent, pending, delivered>>

Init == sent = {} /\ pending = {} /\ delivered = {}

\* The node hands a new message over.
Send(m) ==
    /\ m \notin sent
    /\ sent' = sent \cup {m}
    /\ pending' = pending \cup {m}
    /\ UNCHANGED delivered

\* A pending message arrives and is gone.
Deliver(m) ==
    /\ m \in pending
    /\ pending' = pending \ {m}
    /\ delivered' = delivered \cup {m}
    /\ UNCHANGED sent

\* Some pending messages will never arrive.
Lose ==
    /\ pending' \subseteq pending
    /\ UNCHANGED <<sent, delivered>>

Next == Lose \/ \E m \in Message : Send(m) \/ Deliver(m)

Spec == Init /\ [][Next]_vars
=============================================================================
