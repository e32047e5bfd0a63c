------------------------- MODULE VerificationPipeline -------------------------
(***************************************************************************)
(* The verification pipeline of a Network (network.py):                   *)
(*   inbound_queue -> SignatureVerifier -> outboud_queue -> dispatcher     *)
(* Two threads produce onto the inbound queue through                      *)
(* Network._put_on_inbound: the main thread (the constructor's loop of     *)
(* 20 GossipMessages) and the server thread (GossipMessageHandler, for     *)
(* every gossip/msg a peer sends).  _put_on_inbound puts without holding   *)
(* the lock and only then takes _signature_condition to notify_all.        *)
(* Network.stop stops the verifier and the dispatcher, notifies both       *)
(* conditions and joins the server thread.                                 *)
(*                                                                         *)
(* SignatureVerifier and the dispatcher are not part of network.py; they   *)
(* follow spec sections 4.7 and 5: each waits on its condition with the    *)
(* emptiness of its queue as the predicate (spurious wake-ups tolerated),  *)
(* takes items in FIFO order, and on stop drains its queue and exits.  A   *)
(* step that holds a condition's lock is one atomic action.                *)
(***************************************************************************)
EXTENDS Naturals, Sequences, SequencesExt

CONSTANTS
    MaxFeed,    \* iterations of the constructor's inbound loop (20 in the code)
    MaxGossip   \* gossip/msg handled by the server thread

Producer == {"main", "server"}
Item     == [id : Nat, valid : BOOLEAN]

ASSUME {MaxFeed, MaxGossip} \subseteq Nat

VARIABLES
    inbound,     \* Network.inbound_queue
    outbound,    \* Network.outboud_queue
    put,         \* p -> number of _put_on_inbound calls p has made
    notifyDue,   \* p -> BOOLEAN: p has put and not yet notified
    verifier,    \* "check" | "waiting" | "verifying" | "exited"
    current,     \* the item the verifier holds while verifying
    dispatcher,  \* "check" | "waiting" | "exited"
    stopFlag,    \* [verifier, dispatcher] -> BOOLEAN: stop() was called
    owner,       \* main thread: "feeding" | "running" | "stopping" | "joining"
    putLog,      \* history: every item put on the inbound queue, in order
    dispatched   \* history: every item the dispatcher has taken, in order

vars == <<inbound, outbound, put, notifyDue, verifier, current, dispatcher,
          stopFlag, owner, putLog, dispatched>>

NoItem == [id |-> 0, valid |-> FALSE]

Init ==
    /\ inbound    = <<>>
    /\ outbound   = <<>>
    /\ put        = [p \in Producer |-> 0]
    /\ notifyDue  = [p \in Producer |-> FALSE]
    /\ verifier   = "check"
    /\ current    = NoItem
    /\ dispatcher = "check"
    /\ stopFlag   = [w \in {"verifier", "dispatcher"} |-> FALSE]
    /\ owner      = "feeding"
    /\ putLog     = <<>>
    /\ dispatched = <<>>

Bound(p) == IF p = "main" THEN MaxFeed ELSE MaxGossip

\* A thread waiting on a condition is woken by notify_all (it then retakes
\* the lock and re-tests its predicate); a thread not waiting is unaffected.
Wake(state) == IF state = "waiting" THEN "check" ELSE state

-----------------------------------------------------------------------------
(* Network._put_on_inbound, called by the main thread (the constructor's   *)
(* inbound loop) and by the server thread (GossipMessageHandler.handle).   *)

\* Mutant of NotifyInbound: the notify_all is left out.
NotifyInboundSkipped(p) ==
    /\ notifyDue[p]
    /\ put' = [put EXCEPT ![p] = @ + 1]
    /\ notifyDue' = [notifyDue EXCEPT ![p] = FALSE]
    /\ UNCHANGED <<inbound, outbound, verifier, current, dispatcher, stopFlag,
                   owner, putLog, dispatched>>

\* Mutant of PutOnInbound: the loop bound is not tested.
PutOnInboundUnbounded(p) ==
    /\ ~notifyDue[p]
    /\ p = "main" => owner = "feeding"
    /\ \E v \in BOOLEAN :
          LET it == [id |-> Len(putLog) + 1, valid |-> v]
          IN  /\ inbound' = Append(inbound, it)
              /\ putLog' = Append(putLog, it)
    /\ notifyDue' = [notifyDue EXCEPT ![p] = TRUE]
    /\ UNCHANGED <<outbound, put, verifier, current, dispatcher, stopFlag,
                   owner, dispatched>>

\* inbound_queue.put_nowait(item), outside the lock.  The item's signature
\* is valid or not.
PutOnInbound(p) ==
    /\ ~notifyDue[p]
    /\ put[p] < Bound(p)
    /\ p = "main" => owner = "feeding"
    /\ \E v \in BOOLEAN :
          LET it == [id |-> Len(putLog) + 1, valid |-> v]
          IN  /\ inbound' = Append(inbound, it)
              /\ putLog' = Append(putLog, it)
    /\ notifyDue' = [notifyDue EXCEPT ![p] = TRUE]
    /\ UNCHANGED <<outbound, put, verifier, current, dispatcher, stopFlag,
                   owner, dispatched>>

\* with _signature_condition: notify_all().
NotifyInbound(p) ==
    /\ notifyDue[p]
    /\ verifier' = Wake(verifier)
    /\ put' = [put EXCEPT ![p] = @ + 1]
    /\ notifyDue' = [notifyDue EXCEPT ![p] = FALSE]
    /\ UNCHANGED <<inbound, outbound, current, dispatcher, stopFlag, owner,
                   putLog, dispatched>>

-----------------------------------------------------------------------------
(* The owner: the end of the constructor, then Network.stop.               *)

\* The constructor's inbound loop has run MaxFeed times; it returns.
Constructed ==
    /\ owner = "feeding"
    /\ put["main"] = MaxFeed
    /\ ~notifyDue["main"]
    /\ owner' = "running"
    /\ UNCHANGED <<inbound, outbound, put, notifyDue, verifier, current,
                   dispatcher, stopFlag, putLog, dispatched>>

\* Network.stop, lines 616-617: _signature_verifier.stop() and
\* _dispatcher.stop().
StopWorkers ==
    /\ owner = "running"
    /\ stopFlag' = [w \in DOMAIN stopFlag |-> TRUE]
    /\ owner' = "stopping"
    /\ UNCHANGED <<inbound, outbound, put, notifyDue, verifier, current,
                   dispatcher, putLog, dispatched>>

\* Mutant of NotifyWorkers: the dispatcher's condition is not notified.
NotifyWorkersVerifierOnly ==
    /\ owner = "stopping"
    /\ verifier' = Wake(verifier)
    /\ owner' = "joining"
    /\ UNCHANGED <<inbound, outbound, put, notifyDue, current, dispatcher,
                   stopFlag, putLog, dispatched>>

\* Network.stop, lines 618-622: notify_all on both conditions.  The owner
\* then joins the server thread (line 624), whose event loop nothing stops:
\* "joining" has no successor.
NotifyWorkers ==
    /\ owner = "stopping"
    /\ verifier' = Wake(verifier)
    /\ dispatcher' = Wake(dispatcher)
    /\ owner' = "joining"
    /\ UNCHANGED <<inbound, outbound, put, notifyDue, current, stopFlag,
                   putLog, dispatched>>

-----------------------------------------------------------------------------
(* SignatureVerifier and the dispatcher (spec sections 4.7 and 5).         *)

\* Under its condition's lock the verifier takes the head of the inbound
\* queue; with nothing queued it exits if stopped and waits otherwise.
VerifierCheck ==
    /\ verifier = "check"
    /\ \/ /\ inbound # <<>>
          /\ current' = Head(inbound)
          /\ inbound' = Tail(inbound)
          /\ verifier' = "verifying"
       \/ /\ inbound = <<>>
          /\ verifier' = IF stopFlag["verifier"] THEN "exited" ELSE "waiting"
          /\ UNCHANGED <<inbound, current>>
    /\ UNCHANGED <<outbound, put, notifyDue, dispatcher, stopFlag, owner,
                   putLog, dispatched>>

\* A valid item goes to the outbound queue and the dispatcher's condition is
\* notified; an invalid one is dropped.
Verify ==
    /\ verifier = "verifying"
    /\ \/ /\ current.valid
          /\ outbound' = Append(outbound, current)
          /\ dispatcher' = Wake(dispatcher)
       \/ /\ ~current.valid
          /\ UNCHANGED <<outbound, dispatcher>>
    /\ verifier' = "check"
    /\ current' = NoItem
    /\ UNCHANGED <<inbound, put, notifyDue, stopFlag, owner, putLog,
                   dispatched>>

\* The dispatcher takes the head of the outbound queue under its lock.
DispatcherCheck ==
    /\ dispatcher = "check"
    /\ \/ /\ outbound # <<>>
          /\ dispatched' = Append(dispatched, Head(outbound))
          /\ outbound' = Tail(outbound)
          /\ UNCHANGED dispatcher
       \/ /\ outbound = <<>>
          /\ dispatcher' = IF stopFlag["dispatcher"] THEN "exited" ELSE "waiting"
          /\ UNCHANGED <<outbound, dispatched>>
    /\ UNCHANGED <<inbound, put, notifyDue, verifier, current, stopFlag,
                   owner, putLog>>

\* A wait returns without a notify.
Spurious ==
    /\ \/ /\ verifier = "waiting"
          /\ verifier' = "check"
          /\ UNCHANGED dispatcher
       \/ /\ dispatcher = "waiting"
          /\ dispatcher' = "check"
          /\ UNCHANGED verifier
    /\ UNCHANGED <<inbound, outbound, put, notifyDue, current, stopFlag,
                   owner, putLog, dispatched>>

Next ==
    \/ \E p \in Producer : PutOnInbound(p) \/ NotifyInbound(p)
    \/ Constructed \/ StopWorkers \/ NotifyWorkers
    \/ VerifierCheck \/ Verify \/ DispatcherCheck \/ Spurious

\* Every thread that can run does so; the server thread's puts and the
\* owner's stop are driven by the outside and get no fairness, but a put
\* once made is followed by its notify (the same call, on the same thread).
Fairness ==
    /\ \A p \in Producer : WF_vars(NotifyInbound(p))
    /\ WF_vars(PutOnInbound("main")) /\ WF_vars(Constructed)
    /\ WF_vars(NotifyWorkers)
    /\ WF_vars(VerifierCheck) /\ WF_vars(Verify) /\ WF_vars(DispatcherCheck)

Spec == Init /\ [][Next]_vars /\ Fairness

-----------------------------------------------------------------------------
(* Properties.                                                             *)

TypeOK ==
    /\ inbound \in Seq(Item) /\ outbound \in Seq(Item)
    /\ \A p \in Producer : put[p] \in 0..Bound(p)
    /\ notifyDue \in [Producer -> BOOLEAN]
    /\ verifier \in {"check", "waiting", "verifying", "exited"}
    /\ current \in Item
    /\ dispatcher \in {"check", "waiting", "exited"}
    /\ stopFlag \in [{"verifier", "dispatcher"} -> BOOLEAN]
    /\ owner \in {"feeding", "running", "stopping", "joining"}
    /\ putLog \in Seq(Item) /\ dispatched \in Seq(Item)

Accepted(s) == SelectSeq(s, LAMBDA it : it.valid)

\* End-to-end scenario 5: every item _put_on_inbound puts, by the main
\* thread or by the server thread, and that passes verification eventually
\* reaches the dispatcher.  This needs the put-then-notify of
\* _put_on_inbound not to lose the verifier's wake-up.
EveryItemDispatched ==
    <>[](dispatched = Accepted(putLog))

\* The same for the runs in which the owner never calls Network.stop: what
\* stop() does to items still in the pipeline is left to the stop runs.
EveryItemDispatchedUnlessStopped ==
    [](owner \in {"feeding", "running"}) => EveryItemDispatched

\* Spec section 5, Cancellation & shutdown: once Network.stop has signalled
\* the workers, the verifier and the dispatcher both exit.
WorkersExitOnStop ==
    (owner = "joining") ~> (verifier = "exited" /\ dispatcher = "exited")

\* Spec section 5, Cancellation & shutdown: on stop the server listener
\* stops accepting and every worker drains before it exits.  So nothing is
\* left on the inbound queue once the verifier has drained it and exited:
\* no producer thread, the server thread's GossipMessageHandler included,
\* still puts on it.
InboundDrainedOnExit ==
    verifier = "exited" => inbound = <<>>

\* Spec sections 2 and 5: components are torn down in reverse dependency
\* order and the queues drain without loss, so the dispatcher, the last
\* stage, exits only when its producer, the verifier, can forward nothing
\* more: once the dispatcher has exited the outbound queue stays empty.
NothingForwardedAfterDispatcherExit ==
    dispatcher = "exited" => outbound = <<>>

=============================================================================
