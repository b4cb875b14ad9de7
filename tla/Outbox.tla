------------------------------- MODULE Outbox --------------------------------
(***************************************************************************)
(* What the durable queue promises whoever presses send: a submitted       *)
(* message is kept until it has been delivered, and only then let go of.   *)
(* No process, file, task or reconnect appears here.                       *)
(***************************************************************************)
CONSTANT Msgs

VARIABLES queued, delivered

Init == queued = {} /\ delivered = {}

Submit(m) == /\ m \notin queued \cup delivered
             /\ queued' = queued \cup {m}
             /\ UNCHANGED delivered

Deliver(m) == /\ m \in queued
              /\ delivered' = delivered \cup {m}
              /\ UNCHANGED queued

Release(m) == /\ m \in queued \cap delivered
              /\ queued' = queued \ {m}
              /\ UNCHANGED delivered

Next == \E m \in Msgs : Submit(m) \/ Deliver(m) \/ Release(m)

Spec == Init /\ [][Next]_<<queued, delivered>>
=============================================================================
