---------------------------- MODULE RequestReply -----------------------------
(***************************************************************************)
(* What a client link promises its caller (spec sections 4.1, 4.2 and 8,   *)
(* properties 1 and 7): a request gets an id no earlier request on that    *)
(* channel had; the peer's handler runs for it once; only then can the     *)
(* request's Future resolve; and every request is eventually handled and   *)
(* answered.  One step may issue the same id on several channels: a        *)
(* broadcast.  The module serves as a property of an implementation (its  *)
(* Request constrains the next state rather than constructing it).        *)
(***************************************************************************)
CONSTANTS Chan, Id

VARIABLES
    requested,  \* k -> ids whose Future channel k holds
    delivered,  \* k -> ids a handler on the peer has run for
    answered    \* k -> ids whose Future is resolved

chanVars == <<requested, delivered, answered>>

Init ==
    /\ requested = [k \in Chan |-> {}]
    /\ delivered = [k \in Chan |-> {}]
    /\ answered  = [k \in Chan |-> {}]

\* Id i is issued on one channel, or at once on several (a broadcast): each
\* channel's set is left as it was or grows by i, which it did not hold.
Request(i) ==
    /\ requested' # requested
    /\ \A k \in Chan :
          \/ requested'[k] = requested[k]
          \/ i \notin requested[k] /\ requested'[k] = requested[k] \cup {i}
    /\ UNCHANGED <<delivered, answered>>

Deliver(k, i) ==
    /\ i \in requested[k] \ delivered[k]
    /\ delivered' = [delivered EXCEPT ![k] = @ \cup {i}]
    /\ UNCHANGED <<requested, answered>>

Answer(k, i) ==
    /\ i \in delivered[k] \ answered[k]
    /\ answered' = [answered EXCEPT ![k] = @ \cup {i}]
    /\ UNCHANGED <<requested, delivered>>

Next ==
    \/ \E i \in Id : Request(i)
    \/ \E k \in Chan, i \in Id : Deliver(k, i) \/ Answer(k, i)

Safety == Init /\ [][Next]_chanVars

Spec ==
    /\ Safety
    /\ \A k \in Chan, i \in Id : WF_chanVars(Deliver(k, i)) /\ WF_chanVars(Answer(k, i))
=============================================================================
