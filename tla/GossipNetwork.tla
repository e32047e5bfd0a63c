--------------------------- MODULE GossipNetwork ----------------------------
(***************************************************************************)
(* The gossip transport of src/validator/sawtooth_validator/server/        *)
(* network.py: a set of validators, each running a Network object.  A      *)
(* Network owns                                                            *)
(*   - a server thread (_ServerSendReceiveThread) with a ZMQ ROUTER and    *)
(*     three coroutines: receive, send and broadcast;                      *)
(*   - one Connection per entry of its peer_list, each a Stream with its   *)
(*     own client thread (_ClientSendReceiveThread), DEALER socket and     *)
(*     FutureCollection;                                                   *)
(*   - the handler table, the peer registry (_peered_with_us) and the      *)
(*     inbound queue of the verification pipeline.                         *)
(* Foreign clients stand for remote programs that speak the wire protocol  *)
(* of spec section 6 without being Network objects; they may send any      *)
(* message type, and bytes that do not parse.  Foreign servers are such   *)
(* programs on the other end of a Connection: they answer its requests    *)
(* and may push initial messages down the link, which the client thread's *)
(* receive loop hands to the handler table of Stream.__init__.            *)
(*                                                                         *)
(* Abstractions.  A correlation id (_generate_id, a SHA-512 of a random    *)
(* string) is a fresh number from a counter.  A payload is reduced to      *)
(* whether it parses.  A GossipMessage put on the inbound queue is named   *)
(* by the correlation id of the envelope that carried it.  Posting to a    *)
(* worker through run_coroutine_threadsafe(_put_message) is an append to   *)
(* that worker's queue: the posts of one thread run in FIFO order, and the *)
(* readiness wait_for before them only delays them.  ZMQ links are         *)
(* reliable FIFO channels while both ends are up.                          *)
(***************************************************************************)
EXTENDS Naturals, Sequences, SequencesExt, FiniteSets, FutureCollection,
        PeerRegistry

CONSTANTS
    Node,            \* validators running network.py's Network
    Foreign,         \* remote clients that are not Network objects
    ForeignTargets,  \* the validators whose servers foreign clients reach
    ForeignServer,   \* remote servers that are not Network objects
    PeerList,        \* PeerList[n]: the peer_list Network(n) is built with
    MaxCid,          \* correlation ids are 1..MaxCid
    MaxBroadcast,    \* iterations of the constructor's broadcast loop
    MaxFeed,         \* iterations of the constructor's inbound loop
    ForeignTypes,    \* message types a foreign client sends
    ForeignFormats,  \* "ok", "badContent" or "badEnvelope"
    Crashable        \* validators whose process may die

Register   == "gossip/register"
Unregister == "gossip/unregister"
Gossip     == "gossip/msg"
Ping       == "gossip/ping"
Ack        == "gossip/ack"
Types      == {Register, Unregister, Gossip, Ping, Ack}
Formats    == {"ok", "badContent", "badEnvelope"}

\* Network.__init__ registers these besides 'default' (lines 525-531).
ServerHandlerTypes == {Register, Unregister, Gossip}

\* PeerRegisterRequest() and PeerUnregisterRequest() are sent empty.
NoIdentity == ""

Client == Node \cup Foreign
Server == Node \cup ForeignServer
\* <<client endpoint, server endpoint>>
Link   == (Client \X Node) \cup (Node \X ForeignServer)
Conn   == Node \X Server      \* <<n, p>>: the Connection of n that dials p
NodeConn    == Node \X Node
ForeignConn == Node \X ForeignServer
Cid    == 1..MaxCid
Msg    == [type : Types, cid : Cid, fmt : Formats]
Item   == [kind : {"gossip", "feed"}, id : Nat]

ASSUME /\ Node \cap Foreign = {} /\ ForeignServer \cap Client = {}
       /\ PeerList \in [Node -> Seq(Server)]
       /\ \A n \in Node : IsInjective(PeerList[n])
       /\ {MaxCid, MaxBroadcast, MaxFeed} \subseteq Nat
       /\ ForeignTargets \subseteq Node
       /\ ForeignTypes \subseteq Types /\ ForeignFormats \subseteq Formats
       /\ Crashable \subseteq Node

VARIABLES
    connections,     \* n -> Seq(Node): _ServerSendReceiveThread._connections
    broadcastQueue,  \* n -> Seq(Msg): the server's _broadcast_queue
    serverFutures,   \* n -> table: the FutureCollection shared by Network
                     \*   and its server thread
    serverSendQueue, \* n -> Seq([to, msg]): the server's _send_queue
    serverReceiving, \* n -> BOOLEAN: the server's _receive_message runs
    peeredWithUs,    \* n -> registry: Network._peered_with_us
    inboundQueue,    \* n -> Seq(Item): Network.inbound_queue
    streamFutures,   \* <<n,p>> -> table: the Stream's FutureCollection
    streamSendQueue, \* <<n,p>> -> Seq(Msg): the client thread's _send_queue
    toServer,        \* <<c,p>> -> Seq(Msg): DEALER of c to ROUTER of p
    toClient,        \* <<c,p>> -> Seq(Msg): ROUTER of p to DEALER of c
    bcastSent,       \* n -> Nat: broadcast loop iterations done
    bcastFuture,     \* n -> Cid \cup {0}: broadcast posted, Future not yet put
    fed,             \* n -> Nat: inbound loop iterations done
    owner,           \* n -> "running" | "closing": the owner thread
    up,              \* n -> BOOLEAN: the process is alive
    nextCid,         \* last correlation id handed out
    handled,         \* n -> Seq: history of handler invocations on n
    clientReceiving, \* <<n,p>> -> BOOLEAN: the client's _receive_message runs
    recvQueue,       \* <<n,p>> -> Seq(Msg): the client thread's _recv_queue
    pushed,          \* <<n,s>> -> set of Msg: initial messages s has sent n
    acked            \* <<n,s>> -> set of Cid: acks s has received from n

serverVars == <<broadcastQueue, serverFutures, serverSendQueue,
                serverReceiving, peeredWithUs, inboundQueue, handled>>
clientVars == <<streamFutures, streamSendQueue>>
loopVars   == <<clientReceiving, recvQueue>>
netVars    == <<toServer, toClient>>
mainVars   == <<connections, bcastSent, bcastFuture, fed, owner>>
foreignVars == <<pushed, acked>>
vars == <<serverVars, clientVars, loopVars, netVars, mainVars, foreignVars,
          up, nextCid>>

Envelope(t, c) == [type |-> t, cid |-> c, fmt |-> "ok"]

FreshCid == nextCid + 1
CanMint  == nextCid < MaxCid
Mint     == nextCid' = nextCid + 1

\* The ROUTER of a server drops a message for an identity with no link.
Reachable(c) == c \in Foreign \/ up[c]

\* The constructor Network.__init__ has returned.
Constructed(n) ==
    /\ Len(connections[n]) = Len(PeerList[n])
    /\ bcastSent[n] = MaxBroadcast
    /\ bcastFuture[n] = 0
    /\ fed[n] = MaxFeed

Init ==
    /\ connections     = [n \in Node |-> <<>>]
    /\ broadcastQueue  = [n \in Node |-> <<>>]
    /\ serverFutures   = [n \in Node |-> NoFutures]
    /\ serverSendQueue = [n \in Node |-> <<>>]
    /\ serverReceiving = [n \in Node |-> TRUE]
    /\ peeredWithUs    = [n \in Node |-> EmptyRegistry]
    /\ inboundQueue    = [n \in Node |-> <<>>]
    /\ streamFutures   = [k \in Conn |-> NoFutures]
    /\ streamSendQueue = [k \in Conn |-> <<>>]
    /\ toServer        = [l \in Link |-> <<>>]
    /\ toClient        = [l \in Link |-> <<>>]
    /\ bcastSent       = [n \in Node |-> 0]
    /\ bcastFuture     = [n \in Node |-> 0]
    /\ fed             = [n \in Node |-> 0]
    /\ owner           = [n \in Node |-> "running"]
    /\ up              = [n \in Node |-> TRUE]
    /\ nextCid         = 0
    /\ handled         = [n \in Node |-> <<>>]
    /\ clientReceiving = [k \in Conn |-> TRUE]
    /\ recvQueue       = [k \in Conn |-> <<>>]
    /\ pushed          = [k \in ForeignConn |-> {}]
    /\ acked           = [k \in ForeignConn |-> {}]

-----------------------------------------------------------------------------
(* The main thread of Network(n): the constructor's loops, then the owner. *)

\* Mutant of StreamSend: the message is posted without a Future for it.
StreamSendNoFuture(k, type) ==
    /\ CanMint
    /\ UNCHANGED streamFutures
    /\ streamSendQueue' = [streamSendQueue EXCEPT
                              ![k] = Append(@, Envelope(type, FreshCid))]
    /\ Mint

\* Stream.send: a message with a fresh correlation id; the Future for it is
\* put before the message is posted to the client thread.
StreamSend(k, type) ==
    /\ CanMint
    /\ streamFutures' = [streamFutures EXCEPT ![k] = PutFuture(@, FreshCid)]
    /\ streamSendQueue' = [streamSendQueue EXCEPT
                              ![k] = Append(@, Envelope(type, FreshCid))]
    /\ Mint

\* Network.__init__ line 537: add_connection(identity, peer) builds a
\* Connection, whose Stream starts a client thread and whose start() sends
\* gossip/register through Stream.send.
AddConnection(n) ==
    /\ up[n]
    /\ Len(connections[n]) < Len(PeerList[n])
    /\ StreamSend(<<n, PeerList[n][Len(connections[n]) + 1]>>, Register)
    /\ connections' = [connections EXCEPT
                          ![n] = Append(@, PeerList[n][Len(@) + 1])]
    /\ UNCHANGED <<loopVars, foreignVars, serverVars, netVars, bcastSent,
                   bcastFuture, fed, owner, up>>

\* _ServerSendReceiveThread.broadcast_message: a coroutine posted to the
\* server's event loop appends m to its _broadcast_queue.
PostBroadcast(n, m) ==
    broadcastQueue' = [broadcastQueue EXCEPT ![n] = Append(@, m)]

\* One iteration of the broadcast loop (lines 546-552), first half of
\* Network.broadcast_message: the message is posted to the server thread.
Broadcast(n) ==
    /\ up[n]
    /\ Len(connections[n]) = Len(PeerList[n])
    /\ bcastSent[n] < MaxBroadcast
    /\ bcastFuture[n] = 0
    /\ CanMint
    /\ PostBroadcast(n, Envelope(Gossip, FreshCid))
    /\ bcastFuture' = [bcastFuture EXCEPT ![n] = FreshCid]
    /\ bcastSent' = [bcastSent EXCEPT ![n] = @ + 1]
    /\ Mint
    /\ UNCHANGED <<loopVars, foreignVars, serverFutures, serverSendQueue,
                   serverReceiving, peeredWithUs, inboundQueue, handled,
                   clientVars, netVars, connections, fed, owner, up>>

\* Second half of Network.broadcast_message: only after the post does it
\* put a Future for the message's correlation id into the table that the
\* server's receive coroutine consults.
BroadcastFuture(n) ==
    /\ up[n]
    /\ bcastFuture[n] # 0
    /\ serverFutures' = [serverFutures EXCEPT
                            ![n] = PutFuture(@, bcastFuture[n])]
    /\ bcastFuture' = [bcastFuture EXCEPT ![n] = 0]
    /\ UNCHANGED <<loopVars, foreignVars, broadcastQueue, serverSendQueue,
                   serverReceiving, peeredWithUs, inboundQueue, handled,
                   clientVars, netVars, connections, bcastSent, fed, owner,
                   up, nextCid>>

\* Mutant of Feed: the loop bound is not tested.
FeedUnbounded(n) ==
    /\ up[n]
    /\ bcastSent[n] = MaxBroadcast
    /\ bcastFuture[n] = 0
    /\ inboundQueue' = [inboundQueue EXCEPT
                           ![n] = Append(@, [kind |-> "feed", id |-> fed[n] + 1])]
    /\ fed' = [fed EXCEPT ![n] = @ + 1]
    /\ UNCHANGED <<loopVars, foreignVars, broadcastQueue, serverFutures,
                   serverSendQueue, serverReceiving, peeredWithUs, handled,
                   clientVars, netVars, connections, bcastSent, bcastFuture,
                   owner, up, nextCid>>

\* One iteration of the inbound loop (lines 564-570): Network._put_on_inbound.
Feed(n) ==
    /\ up[n]
    /\ bcastSent[n] = MaxBroadcast
    /\ bcastFuture[n] = 0
    /\ fed[n] < MaxFeed
    /\ inboundQueue' = [inboundQueue EXCEPT
                           ![n] = Append(@, [kind |-> "feed", id |-> fed[n] + 1])]
    /\ fed' = [fed EXCEPT ![n] = @ + 1]
    /\ UNCHANGED <<loopVars, foreignVars, broadcastQueue, serverFutures,
                   serverSendQueue, serverReceiving, peeredWithUs, handled,
                   clientVars, netVars, connections, bcastSent, bcastFuture,
                   owner, up, nextCid>>

\* Connection.stop: gossip/unregister through Stream.send; the
\* Stream.close that follows joins the client thread.
ConnectionStop(k) == StreamSend(k, Unregister)

\* The owner calls _ServerSendReceiveThread.close_connections, which runs
\* Connection.stop on each Connection in turn.  The first one's
\* Stream.close joins a client thread whose event loop is never stopped:
\* the owner thread blocks there for good.
CloseConnections(n) ==
    /\ up[n]
    /\ Constructed(n)
    /\ owner[n] = "running"
    /\ connections[n] # <<>>
    /\ ConnectionStop(<<n, connections[n][1]>>)
    /\ owner' = [owner EXCEPT ![n] = "closing"]
    /\ UNCHANGED <<loopVars, foreignVars, serverVars, netVars, connections,
                   bcastSent, bcastFuture, fed, up>>

-----------------------------------------------------------------------------
(* The server thread of Network(n).                                        *)

\* Connection.send_message -> Stream.send_message for each Connection in
\* dests: put a Future for m's correlation id in the Stream's table, then
\* post m to its client thread.
PostToStreams(dests, m) ==
    /\ streamFutures' = [k \in Conn |->
          IF k \in dests THEN PutFuture(streamFutures[k], m.cid)
                         ELSE streamFutures[k]]
    /\ streamSendQueue' = [k \in Conn |->
          IF k \in dests THEN Append(streamSendQueue[k], m)
                         ELSE streamSendQueue[k]]

\* Mutant of BroadcastDrain: the broadcast is put at the front of each
\* Connection's send queue.
BroadcastDrainJumpsQueue(n) ==
    /\ up[n]
    /\ broadcastQueue[n] # <<>>
    /\ LET m     == Head(broadcastQueue[n])
           dests == {<<n, p>> : p \in ToSet(connections[n])}
       IN  /\ streamFutures' = [k \in Conn |->
                  IF k \in dests THEN PutFuture(streamFutures[k], m.cid)
                                 ELSE streamFutures[k]]
           /\ streamSendQueue' = [k \in Conn |->
                  IF k \in dests THEN <<m>> \o streamSendQueue[k]
                                 ELSE streamSendQueue[k]]
    /\ broadcastQueue' = [broadcastQueue EXCEPT ![n] = Tail(@)]
    /\ UNCHANGED <<loopVars, foreignVars, serverFutures, serverSendQueue,
                   serverReceiving, peeredWithUs, inboundQueue, handled,
                   netVars, mainVars, up, nextCid>>

\* Mutant of BroadcastDrain: the iteration stops one Connection short.
BroadcastDrainSkipsLast(n) ==
    /\ up[n]
    /\ broadcastQueue[n] # <<>>
    /\ PostToStreams({<<n, p>> : p \in ToSet(Front(connections[n]))},
                     Head(broadcastQueue[n]))
    /\ broadcastQueue' = [broadcastQueue EXCEPT ![n] = Tail(@)]
    /\ UNCHANGED <<loopVars, foreignVars, serverFutures, serverSendQueue,
                   serverReceiving, peeredWithUs, inboundQueue, handled,
                   netVars, mainVars, up, nextCid>>

\* _broadcast_message: take the next broadcast and, without yielding, hand
\* it to every Connection in the list; Connection.send_message ->
\* Stream.send_message puts a Future in that Stream's table and posts the
\* message to its client thread.
BroadcastDrain(n) ==
    /\ up[n]
    /\ broadcastQueue[n] # <<>>
    /\ PostToStreams({<<n, p>> : p \in ToSet(connections[n])},
                     Head(broadcastQueue[n]))
    /\ broadcastQueue' = [broadcastQueue EXCEPT ![n] = Tail(@)]
    /\ UNCHANGED <<loopVars, foreignVars, serverFutures, serverSendQueue,
                   serverReceiving, peeredWithUs, inboundQueue, handled,
                   netVars, mainVars, up, nextCid>>

\* Mutant of Acknowledge: the ack is addressed to the server's own identity.
AcknowledgeToSelf(p, c, m) ==
    serverSendQueue' = [serverSendQueue EXCEPT
                           ![p] = Append(@, [to |-> p, msg |-> Envelope(Ack, m.cid)])]

\* A handler's peer.send: _Responder -> send_message -> _put_message appends
\* to the server's send queue an ack that echoes the request's correlation
\* id, addressed to the request's sender.
Acknowledge(p, c, m) ==
    serverSendQueue' = [serverSendQueue EXCEPT
                           ![p] = Append(@, [to |-> c, msg |-> Envelope(Ack, m.cid)])]

\* handler.handle(message, _Responder(...)) for the handler the table gives
\* m.type: PeerRegisterHandler, PeerUnregisterHandler, GossipMessageHandler
\* or DefaultHandler.  Every handler of the table first parses the content;
\* a DecodeError escapes the receive coroutine and ends it.
Handle(p, c, m) ==
    \/ /\ m.type \in ServerHandlerTypes
       /\ m.fmt = "badContent"
       /\ serverReceiving' = [serverReceiving EXCEPT ![p] = FALSE]
       /\ UNCHANGED <<peeredWithUs, inboundQueue, serverSendQueue>>
    \/ /\ m.type = Register
       /\ m.fmt = "ok"
       /\ peeredWithUs' = [peeredWithUs EXCEPT
                              ![p] = RegisterPeer(@, c, NoIdentity)]
       /\ Acknowledge(p, c, m)
       /\ UNCHANGED <<inboundQueue, serverReceiving>>
    \/ /\ m.type = Unregister
       /\ m.fmt = "ok"
       /\ peeredWithUs' = [peeredWithUs EXCEPT
                              ![p] = UnregisterPeer(@, c, NoIdentity)]
       /\ Acknowledge(p, c, m)
       /\ UNCHANGED <<inboundQueue, serverReceiving>>
    \/ /\ m.type = Gossip
       /\ m.fmt = "ok"
       /\ inboundQueue' = [inboundQueue EXCEPT
                              ![p] = Append(@, [kind |-> "gossip", id |-> m.cid])]
       /\ Acknowledge(p, c, m)
       /\ UNCHANGED <<peeredWithUs, serverReceiving>>
    \/ /\ m.type \notin ServerHandlerTypes
       /\ UNCHANGED <<peeredWithUs, inboundQueue, serverSendQueue,
                      serverReceiving>>

\* One iteration of _ServerSendReceiveThread._receive_message: the ROUTER
\* yields the next message of some client c; parsing it may raise and end
\* the coroutine; a correlation id known to the FutureCollection makes it
\* a reply; any other message goes to its handler.
ServerReceive(p, c) ==
    LET l == <<c, p>>
        m == Head(toServer[l])
    IN
    /\ up[p]
    /\ serverReceiving[p]
    /\ toServer[l] # <<>>
    /\ toServer' = [toServer EXCEPT ![l] = Tail(@)]
    /\ \/ /\ m.fmt = "badEnvelope"
          /\ serverReceiving' = [serverReceiving EXCEPT ![p] = FALSE]
          /\ UNCHANGED <<serverFutures, serverSendQueue, peeredWithUs,
                         inboundQueue, handled>>
       \/ /\ m.fmt # "badEnvelope"
          /\ HasFuture(serverFutures[p], m.cid)
          /\ serverFutures' = [serverFutures EXCEPT ![p] = SetResult(@, m.cid)]
          /\ UNCHANGED <<serverSendQueue, serverReceiving, peeredWithUs,
                         inboundQueue, handled>>
       \/ /\ m.fmt # "badEnvelope"
          /\ ~HasFuture(serverFutures[p], m.cid)
          /\ handled' = [handled EXCEPT ![p] = Append(@,
                            [type |-> m.type, from |-> c, cid |-> m.cid])]
          /\ Handle(p, c, m)
          /\ UNCHANGED serverFutures
    /\ UNCHANGED <<loopVars, foreignVars, broadcastQueue, clientVars,
                   toClient, mainVars, up, nextCid>>

\* Mutant of ServerSend: a reply for an identity with no link waits for one
\* instead of being dropped.
ServerSendWaitsForLink(p) ==
    LET e == Head(serverSendQueue[p])
    IN
    /\ up[p]
    /\ serverSendQueue[p] # <<>>
    /\ Reachable(e.to)
    /\ toClient' = [toClient EXCEPT ![<<e.to, p>>] = Append(@, e.msg)]
    /\ serverSendQueue' = [serverSendQueue EXCEPT ![p] = Tail(@)]
    /\ UNCHANGED <<loopVars, foreignVars, broadcastQueue, serverFutures,
                   serverReceiving, peeredWithUs, inboundQueue, handled,
                   clientVars, toServer, mainVars, up, nextCid>>

\* One iteration of _ServerSendReceiveThread._send_message: send_multipart
\* routes by the sender identity; the ROUTER drops what it cannot route.
\* This coroutine keeps running when the receive coroutine has ended.
ServerSend(p) ==
    LET e == Head(serverSendQueue[p])
    IN
    /\ up[p]
    /\ serverSendQueue[p] # <<>>
    /\ toClient' = IF Reachable(e.to)
                   THEN [toClient EXCEPT ![<<e.to, p>>] = Append(@, e.msg)]
                   ELSE toClient
    /\ serverSendQueue' = [serverSendQueue EXCEPT ![p] = Tail(@)]
    /\ UNCHANGED <<loopVars, foreignVars, broadcastQueue, serverFutures,
                   serverReceiving, peeredWithUs, inboundQueue, handled,
                   clientVars, toServer, mainVars, up, nextCid>>

-----------------------------------------------------------------------------
(* The client thread of the Connection <<n, p>>.                           *)

\* One iteration of _ClientSendReceiveThread._send_message.
ClientSend(k) ==
    /\ up[k[1]]
    /\ streamSendQueue[k] # <<>>
    /\ toServer' = [toServer EXCEPT ![k] = Append(@, Head(streamSendQueue[k]))]
    /\ streamSendQueue' = [streamSendQueue EXCEPT ![k] = Tail(@)]
    /\ UNCHANGED <<loopVars, foreignVars, serverVars, streamFutures, toClient,
                   mainVars, up, nextCid>>

\* Stream.__init__ registers these besides 'default' (lines 113-117).
ClientHandlerTypes == {Gossip, Ping}

\* Mutant of ClientRespond: the handler sends the message back instead of
\* an ack.
ClientRespondEcho(k, m) ==
    streamSendQueue' = [streamSendQueue EXCEPT ![k] = Append(@, m)]

\* _Responder(self.send_message).send: a handler's reply is posted to the
\* client thread's own send queue.
ClientRespond(k, m) ==
    streamSendQueue' = [streamSendQueue EXCEPT
                           ![k] = Append(@, Envelope(Ack, m.cid))]

\* PingHandler.handle on a client, then the loop's _recv_queue.put_nowait:
\* content that does not parse raises out of the loop and ends it; a
\* parsed ping is acked through _Responder(self.send_message), the client
\* thread's own send queue.
PingHandle(k, m) ==
    \/ /\ m.fmt = "badContent"
       /\ clientReceiving' = [clientReceiving EXCEPT ![k] = FALSE]
       /\ UNCHANGED <<streamSendQueue, recvQueue>>
    \/ /\ m.fmt = "ok"
       /\ ClientRespond(k, m)
       /\ recvQueue' = [recvQueue EXCEPT ![k] = Append(@, m)]
       /\ UNCHANGED clientReceiving

\* The initial-message branch of the client's _receive_message: the
\* handler of Stream's table, then _recv_queue.put_nowait.  An exception
\* of the handler escapes the loop and ends it: GossipMessageHandler(Stream)
\* calls self._service._put_on_inbound, which Stream lacks (line 467).
\* DefaultHandler prints.
ClientHandle(k, m) ==
    \/ /\ m.type = Gossip
       /\ clientReceiving' = [clientReceiving EXCEPT ![k] = FALSE]
       /\ UNCHANGED <<streamSendQueue, recvQueue>>
    \/ /\ m.type = Ping
       /\ PingHandle(k, m)
    \/ /\ m.type \notin ClientHandlerTypes
       /\ recvQueue' = [recvQueue EXCEPT ![k] = Append(@, m)]
       /\ UNCHANGED <<streamSendQueue, clientReceiving>>

\* One iteration of _ClientSendReceiveThread._receive_message: the DEALER
\* yields the next message; a MessageList that does not parse raises and
\* ends the loop; a correlation id known to the Stream's FutureCollection
\* makes it a reply (set_result); any other message is an initial one.
ClientReceive(k) ==
    LET m == Head(toClient[k])
    IN
    /\ up[k[1]]
    /\ clientReceiving[k]
    /\ toClient[k] # <<>>
    /\ toClient' = [toClient EXCEPT ![k] = Tail(@)]
    /\ \/ /\ m.fmt = "badEnvelope"
          /\ clientReceiving' = [clientReceiving EXCEPT ![k] = FALSE]
          /\ UNCHANGED <<clientVars, recvQueue>>
       \/ /\ m.fmt # "badEnvelope"
          /\ HasFuture(streamFutures[k], m.cid)
          /\ streamFutures' = [streamFutures EXCEPT ![k] = SetResult(@, m.cid)]
          /\ UNCHANGED <<streamSendQueue, loopVars>>
       \/ /\ m.fmt # "badEnvelope"
          /\ ~HasFuture(streamFutures[k], m.cid)
          /\ ClientHandle(k, m)
          /\ UNCHANGED streamFutures
    /\ UNCHANGED <<serverVars, toServer, mainVars, foreignVars, up, nextCid>>

-----------------------------------------------------------------------------
(* The environment: foreign clients and process crashes.                   *)

\* A foreign client sends p any message type with a fresh correlation id,
\* and reads what p sends back.
ForeignSend(f, p) ==
    /\ p \in ForeignTargets
    /\ CanMint
    /\ \E t \in ForeignTypes, fmt \in ForeignFormats :
          toServer' = [toServer EXCEPT ![<<f, p>>] = Append(@,
                             [type |-> t, cid |-> FreshCid, fmt |-> fmt])]
    /\ Mint
    /\ UNCHANGED <<loopVars, foreignVars, serverVars, clientVars, toClient,
                   mainVars, up>>

ForeignReceive(f, p) ==
    /\ toClient[<<f, p>>] # <<>>
    /\ toClient' = [toClient EXCEPT ![<<f, p>>] = Tail(@)]
    /\ UNCHANGED <<loopVars, foreignVars, serverVars, clientVars, toServer,
                   mainVars, up, nextCid>>

\* A foreign server takes the next message of a Connection's link; it
\* answers a request with an ack echoing the correlation id, and records
\* an ack.
ForeignServe(k) ==
    LET m == Head(toServer[k])
    IN
    /\ toServer[k] # <<>>
    /\ toServer' = [toServer EXCEPT ![k] = Tail(@)]
    /\ IF m.type = Ack
       THEN /\ acked' = [acked EXCEPT ![k] = @ \cup {m.cid}]
            /\ UNCHANGED toClient
       ELSE /\ toClient' = [toClient EXCEPT
                                 ![k] = Append(@, Envelope(Ack, m.cid))]
            /\ UNCHANGED acked
    /\ UNCHANGED <<serverVars, clientVars, loopVars, mainVars, pushed, up,
                   nextCid>>

\* A foreign server sends a Connection that has dialled it an initial
\* message of any type, with a fresh correlation id.
ForeignPush(k) ==
    /\ up[k[1]]
    /\ k[2] \in ToSet(connections[k[1]])
    /\ CanMint
    /\ \E t \in ForeignTypes, fmt \in ForeignFormats :
          LET m == [type |-> t, cid |-> FreshCid, fmt |-> fmt]
          IN  /\ toClient' = [toClient EXCEPT ![k] = Append(@, m)]
              /\ pushed' = [pushed EXCEPT ![k] = @ \cup {m}]
    /\ Mint
    /\ UNCHANGED <<serverVars, clientVars, loopVars, toServer, mainVars,
                   acked, up>>

\* The validator process dies; nothing of it runs any more, and nothing in
\* the code tells its peers (there is no unregister on this path).
Crash(n) ==
    /\ n \in Crashable
    /\ up[n]
    /\ up' = [up EXCEPT ![n] = FALSE]
    /\ UNCHANGED <<loopVars, foreignVars, serverVars, clientVars, netVars,
                   mainVars, nextCid>>

-----------------------------------------------------------------------------
Next ==
    \/ \E n \in Node :
          \/ AddConnection(n) \/ Broadcast(n) \/ BroadcastFuture(n)
          \/ Feed(n) \/ CloseConnections(n) \/ BroadcastDrain(n)
          \/ ServerSend(n) \/ Crash(n)
    \/ \E p \in Node, c \in Client : ServerReceive(p, c)
    \/ \E k \in Conn : ClientSend(k) \/ ClientReceive(k)
    \/ \E f \in Foreign, p \in Node : ForeignSend(f, p) \/ ForeignReceive(f, p)
    \/ \E k \in ForeignConn : ForeignServe(k) \/ ForeignPush(k)

\* The constructor runs to its end on the main thread, and every coroutine
\* of an event loop runs whenever what it awaits is there.  The owner's
\* calls, the foreign clients, the foreign servers' pushes and crashes get no
\* fairness; a foreign server does answer what it is sent.
Fairness ==
    /\ \A n \in Node :
          /\ WF_vars(AddConnection(n)) /\ WF_vars(Broadcast(n))
          /\ WF_vars(BroadcastFuture(n)) /\ WF_vars(Feed(n))
          /\ WF_vars(BroadcastDrain(n)) /\ WF_vars(ServerSend(n))
    /\ \A p \in Node, c \in Client : WF_vars(ServerReceive(p, c))
    /\ \A k \in Conn : WF_vars(ClientSend(k)) /\ WF_vars(ClientReceive(k))
    /\ \A f \in Foreign, p \in Node : WF_vars(ForeignReceive(f, p))
    /\ \A k \in ForeignConn : WF_vars(ForeignServe(k))

Spec == Init /\ [][Next]_vars /\ Fairness

-----------------------------------------------------------------------------
(* Properties.                                                             *)

Table == UNION {[D -> {Pending, Resolved}] : D \in SUBSET Cid}

TypeOK ==
    /\ \A n \in Node :
          /\ connections[n] \in Seq(Server)
          /\ broadcastQueue[n] \in Seq(Msg)
          /\ serverFutures[n] \in Table
          /\ serverSendQueue[n] \in Seq([to : Client, msg : Msg])
          /\ serverReceiving[n] \in BOOLEAN
          /\ DOMAIN peeredWithUs[n] \subseteq Client
          /\ \A s \in DOMAIN peeredWithUs[n] : peeredWithUs[n][s] \in Seq(Client)
          /\ inboundQueue[n] \in Seq(Item)
          /\ bcastSent[n] \in 0..MaxBroadcast
          /\ bcastFuture[n] \in Cid \cup {0}
          /\ fed[n] \in 0..MaxFeed
          /\ owner[n] \in {"running", "closing"}
          /\ up[n] \in BOOLEAN
    /\ \A k \in Conn :
          /\ streamFutures[k] \in Table /\ streamSendQueue[k] \in Seq(Msg)
          /\ clientReceiving[k] \in BOOLEAN /\ recvQueue[k] \in Seq(Msg)
    /\ \A k \in ForeignConn : pushed[k] \subseteq Msg /\ acked[k] \subseteq Cid
    /\ \A l \in Link : toServer[l] \in Seq(Msg) /\ toClient[l] \in Seq(Msg)
    /\ nextCid \in 0..MaxCid

\* The handler invocations on p for messages that came from client c.
HandledFrom(p, c) == SelectSeq(handled[p], LAMBDA e : e.from = c)

\* Every message a Network server sends down a Connection is an ack whose
\* correlation id the Connection's Stream holds a Future for.  This is what
\* keeps a validator's client receive loop on its reply branch: the other
\* branch hands gossip/msg to GossipMessageHandler(Stream), which calls a
\* method Stream does not have and ends the loop.  It needs the server to
\* echo the correlation id, to route by the sender identity, and each
\* Stream to put its Future before posting.
RepliesMatchPendingFutures ==
    \A k \in NodeConn : \A i \in 1..Len(toClient[k]) :
        /\ toClient[k][i].type = Ack
        /\ HasFuture(streamFutures[k], toClient[k][i].cid)

\* The first handler a server runs for a validator's messages is the one
\* for gossip/register: Connection.start posts the register before any
\* broadcast reaches the Connection, and the client thread, the link and
\* the ROUTER keep that order.
RegisterFirst ==
    \A p, n \in Node :
        HandledFrom(p, n) # <<>> => HandledFrom(p, n)[1].type = Register

\* Spec section 3, Lifecycles: a Connection sends gossip/unregister and then
\* closes.  No handler runs for a validator's message after its unregister.
UnregisterIsLast ==
    \A p, n \in Node :
        LET h == HandledFrom(p, n)
        IN  \A i \in 1..Len(h) : h[i].type = Unregister => i = Len(h)

\* Spec section 3: a registry entry exists only until the unregister or the
\* teardown of the peer's link.  Once a validator registered with a live
\* server has died, the server eventually drops its entry in
\* _peered_with_us (or dies itself): the teardown of the dead peer's link
\* must lead to the entry's removal.
DeadPeersUnregistered ==
    \A p, s \in Node :
        (up[p] /\ ~up[s] /\ s \in DOMAIN peeredWithUs[p])
            ~> (~up[p] \/ s \notin DOMAIN peeredWithUs[p])

\* An endpoint whose process runs: foreign endpoints do not crash.
Alive(x) == x \notin Node \/ up[x]

\* Spec section 8, property 1: every request a Connection sends (register,
\* unregister, each broadcast) is eventually answered, its Future resolved.
\* No Future of network.py times out, so this is promised only for the
\* Connections whose two ends stay alive; a dead peer must not hold up the
\* acks of anyone else.  With finitely many requests this is: eventually
\* no such Future is pending.
EveryRequestAcked ==
    <>[](\A k \in Conn : Alive(k[1]) /\ Alive(k[2]) =>
            PendingIds(streamFutures[k]) = {})

\* Spec section 8, property 4: a message broadcast by n reaches the inbound
\* queue of every validator in n's peer list (for the finitely many
\* broadcasts of a run: eventually all of them have), as long as both stay
\* alive.
BroadcastDelivered ==
    <>[](\A n \in Node : \A c \in DOMAIN serverFutures[n] :
            \A p \in ToSet(PeerList[n]) \cap Node : up[n] /\ up[p] =>
                [kind |-> "gossip", id |-> c] \in ToSet(inboundQueue[p]))

\* Spec section 5, Cancellation & shutdown: when the owner closes the
\* connections, every outbound Connection emits its unregister, so that
\* eventually no peer of n still lists n as registered.
ClosedPeersForgotten ==
    <>[](\A n \in Node : owner[n] = "closing" =>
            \A p \in ToSet(connections[n]) : n \notin DOMAIN peeredWithUs[p])

\* Spec section 6, the message table: gossip/msg and gossip/ping go both
\* ways and are answered with gossip/ack.  Every well-formed gossip/msg or
\* gossip/ping a server pushes down a validator's Connection is eventually
\* acked back to it by the client thread.
PushedMessagesAcked ==
    <>[](\A k \in ForeignConn : \A m \in pushed[k] :
            m.type \in ClientHandlerTypes /\ m.fmt = "ok" => m.cid \in acked[k])

\* The client half of the same table for gossip/ping: once a Connection's
\* receive loop has taken a well-formed ping a server pushed, the ack
\* echoing its correlation id is on its way back: in the client thread's
\* send queue (PingHandler via _Responder(self.send_message)), on the link,
\* or with the server.
PushedPingsAnswered ==
    \A k \in ForeignConn : \A m \in pushed[k] :
        m.type = Ping /\ m.fmt = "ok" /\ m \notin ToSet(toClient[k]) =>
            \/ Envelope(Ack, m.cid) \in ToSet(streamSendQueue[k])
                                          \cup ToSet(toServer[k])
            \/ m.cid \in acked[k]

\* Refinement of the link contract RequestReply for the Connections: a
\* Connection's requests are the ids its Stream holds Futures for, the
\* delivered ones those a handler on the peer has run for with the
\* Connection's node as sender, and the answered ones the resolved Futures.
Channel == INSTANCE RequestReply WITH
    Chan      <- NodeConn,
    Id        <- Cid,
    requested <- [k \in NodeConn |-> DOMAIN streamFutures[k]],
    delivered <- [k \in NodeConn |-> {e.cid : e \in ToSet(HandledFrom(k[2], k[1]))}],
    answered  <- [k \in NodeConn |-> DOMAIN streamFutures[k] \ PendingIds(streamFutures[k])]

\* Spec sections 4.1 and 8, property 7: a Connection's Future resolves only
\* for a request of that Connection that the peer's handler has run for,
\* and a handler runs only for what the Connection has sent (Stream.send
\* and Stream.send_message put the Future before posting), under crashes,
\* closes and interleaved broadcasts.
ChannelSafety == Channel!Safety

=============================================================================
