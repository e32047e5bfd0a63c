# TLA+ models of the sawtooth gossip transport

This project models `src/validator/sawtooth_validator/server/network.py`. That file is the
peer-to-peer transport of a validator. The models are TLA+ modules checked with TLC.

## 1. Inventory

### Components and their state

| Component (spec name) | Code | State it keeps | Operations that change state |
|---|---|---|---|
| FutureRegistry | `future.FutureCollection` (not under `src/`, modelled from spec 4.1) | correlation id -> Future | `put`, `set_result` (raises `FutureCollectionKeyError` for an unknown id), `get` |
| FramedLink, client side | `Stream`, `_ClientSendReceiveThread` | the DEALER socket (identity `hostname-pid`), `_send_queue`, `_recv_queue`, the event loop, a `Condition`, the Stream's own FutureCollection and handler table | `send`, `send_message`, `_send_message` loop, `_receive_message` loop, `get_message`, `stop`, `close` |
| ServerEndpoint | `_ServerSendReceiveThread` | the ROUTER socket, `_send_queue`, `_broadcast_queue`, `_connections`, the event loop, a `Condition` | `_receive_message`, `_send_message`, `_broadcast_message` loops, `send_message`, `broadcast_message`, `add_connection`, `close_connections` |
| HandlerTable | `_handlers` dicts plus the `*Handler` classes | message type -> handler | `add_handler`, lookup with fallback to `'default'` |
| PeerConnection | `Connection` | its Stream | constructor plus `start` (sends `gossip/register`), `send_message`, `stop` (sends `gossip/unregister`, then `close`) |
| PeerRegistry | `Network._peered_with_us` | sender -> list of records | `register_peer`, `unregister_peer` |
| VerificationStage | `SignatureVerifier` (not under `src/`), `inbound_queue`, `outboud_queue`, two `Condition`s | two queues | `_put_on_inbound` (put, then notify), the verifier and dispatcher threads |
| NetworkService | `Network` | all of the above | constructor (starts threads, dials peers, sleeps, broadcasts 1000 messages, feeds 20 inbound items), `broadcast_message`, `stop` |
| (none) | `FauxNetwork` | none | forwards messages to the dispatcher |

### How the components interact

* Threads. Each Network has a main thread (the constructor, then the owner). It has one server
  thread, which runs an asyncio loop with three coroutines. Each Connection has one client
  thread, which runs two coroutines. The verifier and the dispatcher have threads too. Other
  threads post to an event loop with `run_coroutine_threadsafe(_put_message(...))`. A `Condition`
  with `wait_for(resource is not None)` makes a post wait until the loop exists.
* The wire. A Connection's DEALER sends single `Message`s to a peer's ROUTER. The ROUTER tags
  each one with the DEALER identity, which becomes `sender`. Replies go back as a
  `MessageList`, routed by `sender`.
* Dispatch. A receive loop calls `set_result`. If the correlation id is unknown, it looks up
  a handler. Handlers reply through `_Responder`, which posts to the server's send queue.
  `GossipMessageHandler` also puts the payload on the inbound queue.
* Shared state. The server's FutureCollection is shared by `Network.broadcast_message` (main
  thread) and the server's receive coroutine. `_connections` is shared by the main thread and
  the broadcast coroutine.

### What makes it hard

* Messages from many threads and sockets interleave. Replies are matched by correlation id,
  and every endpoint has its own future table.
* Parse errors end a coroutine silently. Its sibling coroutines keep running.
* Shutdown joins threads whose loops are never stopped.
* Processes die without telling their peers.
* Many queues are unbounded, and some tables only grow.

### Properties that make each component correct

* FutureRegistry and FramedLink. Every request is eventually answered. A reply reaches only the
  Stream that awaits it. An initial message never takes the reply path, and a reply never goes
  to a handler.
* ServerEndpoint. A broadcast reaches every connected peer once. The register comes first, and
  nothing follows the unregister. A malformed message costs only itself.
* PeerRegistry. Registering twice leaves one record. An entry lives from register until
  unregister or link teardown.
* VerificationStage. Every item put on the inbound queue is checked once. Valid items reach the
  dispatcher in FIFO order. A wake-up is never lost.
* NetworkService. `stop` returns. Every built-in message type (including ping) is acked.

## 2. Plan

Modules, in the order they are (to be) written:

1. `FutureCollection` and `PeerRegistry`. These are operator modules for the two tables
   (**done**).
2. `GossipNetwork`. It composes several validators, each with a server, its Connections,
   registry and inbound queue. It also has foreign clients and crashes (**done**, core of this
   project).
3. `VerificationPipeline`. It covers `_put_on_inbound` from two threads, the verifier and
   dispatcher threads with their Conditions, and `Network.stop` (**done**).
4. `RequestReply`. This is the abstract contract of a client link. `GossipNetwork` refines it
   through `INSTANCE ... WITH`, checked as a PROPERTY (**done**).
5. `GossipNetwork`, continued. Add foreign *servers* that a validator dials. They may send
   initial `gossip/msg`, `gossip/ping`, stray acks and garbage down a Connection. That brings
   in the client handler table, `_recv_queue` and the client receive loop's death in
   `GossipMessageHandler(Stream)` (**done**).
6. `GossipNetwork`, restarts. A crashed validator restarts with the same `hostname-pid`
   identity, for example in a container. This shows ROUTER routing to a new link.
7. Wiring `GossipNetwork`'s inbound queue to `VerificationPipeline` in one composed module.
   Today the two meet only in `_put_on_inbound`. The pipeline's "server" producer stands for
   the gossip handler, at any time and in any number up to `MaxGossip`.

## 3. The modules

### `FutureCollection.tla`

A table is a function from correlation id to `"pending"` or `"resolved"`. `PutFuture`,
`HasFuture` (the test behind `FutureCollectionKeyError`), `SetResult` and `PendingIds` are
modelled from spec 4.1. A resolved entry is kept, because `network.py:202` calls `get` right
after `set_result`.

### `PeerRegistry.tla`

`RegisterPeer` and `UnregisterPeer` are `Network.register_peer` and `Network.unregister_peer`.
Both ignore the identity argument and store `data = sender`, as the code does.

### `GossipNetwork.tla`

| Variable | Code |
|---|---|
| `connections[n]` | `_ServerSendReceiveThread._connections` |
| `broadcastQueue[n]`, `serverSendQueue[n]` | the server's `_broadcast_queue`, `_send_queue` |
| `serverFutures[n]` | the FutureCollection shared by `Network` and its server thread |
| `serverReceiving[n]` | the server's `_receive_message` coroutine has not died |
| `peeredWithUs[n]`, `inboundQueue[n]` | `Network._peered_with_us`, `Network.inbound_queue` |
| `streamFutures[<<n,p>>]`, `streamSendQueue[<<n,p>>]` | the FutureCollection and `_send_queue` of n's Connection to p |
| `toServer[<<c,p>>]`, `toClient[<<c,p>>]` | DEALER->ROUTER and ROUTER->DEALER links |
| `bcastSent`, `bcastFuture`, `fed`, `owner` | where the main thread is: broadcast loop, between the post and the Future in `broadcast_message`, inbound loop, after the constructor |
| `up[n]` | the process is alive |
| `handled[n]` | history of handler invocations on n (type, sender, correlation id) |
| `clientReceiving[<<n,p>>]`, `recvQueue[<<n,p>>]` | the client `_receive_message` coroutine has not died; the client thread's `_recv_queue` |
| `pushed[<<n,s>>]`, `acked[<<n,s>>]` | history of a foreign server s: the initial messages it sent n's Connection, the acks it got back |

| Action | Code |
|---|---|
| `AddConnection` | `add_connection`, `Connection.__init__`/`start`, `Stream.send` (`StreamSend`) |
| `Broadcast`, `BroadcastFuture` | one iteration of the constructor's broadcast loop: the post in `broadcast_message` (`PostBroadcast`, the server thread's `broadcast_message`), then its `Future` put |
| `Feed` | one iteration of the inbound loop (its `_put_on_inbound` is an append to the inbound queue here; `VerificationPipeline` models the put and the notify) |
| `CloseConnections` / `ConnectionStop` | `close_connections` -> first `Connection.stop`: unregister, then a join that never returns |
| `BroadcastDrain` / `PostToStreams` | one pass of `_broadcast_message` over `_connections`; `PostToStreams` is `Connection.send_message` -> `Stream.send_message` for each. It has no await, so it is one step. |
| `ServerReceive` / `Handle` / `Acknowledge` | one pass of the server `_receive_message`: parse error, reply, or handler (`PeerRegisterHandler`, `PeerUnregisterHandler`, `GossipMessageHandler`, `DefaultHandler`), reply via `_Responder` |
| `ServerSend` | one pass of the server `_send_message`; the ROUTER drops unroutable replies |
| `ClientSend` | one pass of the client `_send_message` |
| `ClientReceive` / `ClientHandle` / `PingHandle` / `ClientRespond` | one pass of the client `_receive_message`: a `MessageList` that does not parse ends the loop; a known correlation id resolves the Future; any other message goes to the handler of `Stream.__init__`'s table and then onto `_recv_queue`. `GossipMessageHandler(Stream)` raises `AttributeError` (line 467) and ends the loop, as does a `PingHandler` parse error; `PingHandler` acks through `_Responder(self.send_message)`, the client's own send queue; `DefaultHandler` prints. |
| `ForeignSend`, `ForeignReceive` | environment: a foreign client sends anything and reads its replies |
| `ForeignServe`, `ForeignPush` | environment: a foreign server acks each request of a Connection that dials it and records the acks it gets; it may push any initial message down the link |
| `Crash` | environment: a process death |

Abstractions:

* A correlation id is a fresh number, bounded by `MaxCid`. The real id is a SHA-512 of a random
  string. Only its uniqueness matters.
* A payload is reduced to whether it parses (`fmt`).
* Posting through `run_coroutine_threadsafe` is an append to the target queue. The posts of
  one thread run in order. The readiness `wait_for` only delays a post and never fails it.
* ZMQ links are FIFO and reliable between live processes.
* `_put_message` and `_put_broadcast_message` end in `yield from queue.put_nowait(...)`:
  the item is queued, and then `yield from None` raises `TypeError` into a Future nobody
  reads. The model keeps the put and drops the lost exception.
* A `MessageList` carries one message.

**Fairness.** Every coroutine action and every constructor step is weakly fair: an asyncio
loop runs a ready coroutine, and the constructor runs straight through. The owner's calls,
foreign clients, a foreign server's pushes and crashes get no fairness, because they may
never happen. `ForeignReceive` and `ForeignServe` are weakly fair: a remote program that
follows the protocol reads its socket and answers requests.

### `VerificationPipeline.tla`

| Variable / action | Code |
|---|---|
| `inbound`, `outbound` | `Network.inbound_queue`, `Network.outboud_queue` |
| `PutOnInbound(p)`, `NotifyInbound(p)` | `_put_on_inbound` (lines 577-580): `put_nowait` outside the lock, then `notify_all` under `_signature_condition`. `p` is `"main"` (the constructor's loop) or `"server"` (`GossipMessageHandler` on the server thread). |
| `Constructed` | the constructor's inbound loop ends |
| `StopWorkers`, `NotifyWorkers` | `Network.stop`: the two `stop()` calls, the two `notify_all`, then `join()` on the server thread. The join never returns (owner `"joining"`). |
| `VerifierCheck`, `Verify`, `DispatcherCheck`, `Spurious` | `SignatureVerifier` and the dispatcher, modelled from spec 4.7 and 5 (they are not under `src/`) |
| `putLog`, `dispatched` | history variables: every item put, and every item the dispatcher took |

Each worker waits on its condition with "queue empty and not stopped" as the predicate, and
re-tests it on every wake-up, spurious ones included. A step that holds a condition's lock is
one action. So a `notify_all` can fall between a producer's put and a worker's test, but not
inside a worker's test-and-wait. On stop, a worker drains its own queue and then exits.
Fairness: weak fairness on every worker step, on the main thread's feed, and on the notify
that follows a put (the rest of the same call). The server thread's puts and the owner's
`stop` are environment choices, with no fairness.

### `RequestReply.tla` and the refinement

`RequestReply` is the abstract contract of a client link. For each channel it keeps three
sets: requested ids, delivered ids (the peer's handler has run) and answered ids (the Future
is resolved). A request carries an id new to its channel, and one step may issue it on
several channels (a broadcast). Deliver needs a requested id, and Answer needs a delivered
one. Weak fairness makes every request eventually delivered and answered.

`GossipNetwork` defines `Channel == INSTANCE RequestReply WITH ...`, with this mapping:

| Abstract | Mapped from `GossipNetwork` |
|---|---|
| `requested[<<n,p>>]` | the ids the Stream holds Futures for |
| `delivered[<<n,p>>]` | the ids of p's handler invocations whose sender is n |
| `answered[<<n,p>>]` | the resolved Futures |

`ChannelSafety` (`Channel!Safety`) is checked as a PROPERTY of the peers run. The liveness
half of `Channel!Spec` (weak fairness of every Deliver and Answer) is not checked as such:
TLC has to evaluate `ENABLED` of each substituted abstract action in every state, and the live
run took three minutes that way. The live run checks `EveryRequestAcked` instead. With
finitely many requests, and with `ChannelSafety` giving answered within delivered within
requested, it states the same thing: every request is eventually delivered and answered.

## 4. Runs

`CHECK_DEADLOCK FALSE` in every cfg is deliberate. Every thread here ends blocked on an empty
queue or socket, so a quiescent network is a normal final state. Liveness runs check progress
instead.

| Run | Cfg | Expect | What it shows |
|---|---|---|---|
| peers | `MCGossipNetwork_peers.cfg` | pass (413k states) | Two validators dial each other, one may crash, and an owner may close. Every ack on a link to a Connection carries an id that Connection awaits (`RepliesMatchPendingFutures`), so the client loop never takes the branch that would kill it. The first handler run for a validator is the register (`RegisterFirst`). The Connections refine the safety part of `RequestReply` (`ChannelSafety`). |
| foreign | `MCGossipNetwork_foreign.cfg` | pass (793k states) | A foreign client sends n1's server, and a foreign server that n1 dials pushes n1's Connection, a gossip/msg, ping or ack, parseable or not. `RepliesMatchPendingFutures` holds with a second client (f1) on n1's ROUTER, where an ack meant for n2's Connection could be misrouted. Every well-formed ping the client loop takes is acked back to the server (`PushedPingsAnswered`). This run drives every branch of the client receive loop: death on a bad `MessageList`, on `gossip/msg` or on a bad ping, the ping's ack, the default handler, `_recv_queue`. |
| live | `MCGossipNetwork_live.cfg` | pass (123k states) | n1 dials n2 and n3, n2 dials n3, and n2 may crash at any point. Every request of a Connection whose two ends stay alive is eventually acked (`EveryRequestAcked`): the ROUTER drops the acks owed to the dead n2, so they never hold up n1's behind them in n3's send queue. Every broadcast reaches every live peer of a live sender (`BroadcastDelivered`): n1's broadcast fans out to two Connections and reaches n3 whether or not n2, first in the list, is dead. |
| pipeline | `VerificationPipeline_pipeline.cfg` | pass (84k states) | Three items from each producer thread; the owner may call `stop` at any point, or never. When `stop` is never called it eventually gets all of them (`EveryItemDispatchedUnlessStopped`): put-then-notify loses no wake-up. After `stop`, both workers exit (`WorkersExitOnStop`). |
| unregister_race | `MCGossipNetwork_unregister_race.cfg` | violation | A broadcast queued before `close_connections` is handled after the unregister. |
| stale_registry | `MCGossipNetwork_stale_registry.cfg` | violation | n2 registers with n1 and dies. The spec has link teardown lead to the entry's removal (`DeadPeersUnregistered`, a leads-to, so an implementation that cleans up a step later passes); TLC ends in a state where no fair step is enabled and n1 still lists n2. |
| malformed | `MCGossipNetwork_malformed.cfg` | violation | One unparseable message ends the server's receive loop. After that, another validator's register is never acked. |
| self_peer | `MCGossipNetwork_self_peer.cfg` | violation | A validator in its own peer list takes its own broadcast as a reply to the `broadcast_message` Future. The broadcast is swallowed and never acked. |
| close_fanout | `MCGossipNetwork_close_fanout.cfg` | violation | `close_connections` only ever unregisters from the first peer. |
| pushed_gossip | `MCGossipNetwork_pushed_gossip.cfg` | violation | A server pushes a well-formed `gossip/msg` down n1's Connection. The spec's message table says it is acked (`PushedMessagesAcked`). The client loop dies in `GossipMessageHandler(Stream)` instead, and the acks of n1's register and unregister behind it are never read. With the handler made to ack, the run passes. |
| stop_inbound | `VerificationPipeline_stop_inbound.cfg` | violation | After `stop` the verifier drains and exits, and the server thread still acks a gossip/msg and puts it on the inbound queue (`InboundDrainedOnExit`), where it is never verified or dispatched. |
| stop_order | `VerificationPipeline_stop_order.cfg` | violation | `stop` releases the verifier and the dispatcher together: the dispatcher exits on an empty queue while the verifier still holds an item, which it then forwards to nobody (`NothingForwardedAfterDispatcherExit`). No server item is involved (`MaxGossip` 0). |

The findings in `PROJECT.json` say what each violation means for the code.

**Bounds.** Runs use two validators, or three in `close_fanout` and `live`, and at most one
foreign client or server. `MaxCid` is 2 to 5, `MaxBroadcast` is 1 and `MaxFeed` is 0 or 1.
Every interesting case
needs only one message of each kind on a link:

* a register overtaken by a broadcast;
* an unregister racing a queued broadcast;
* a broadcast racing its own Future;
* a crash after registration;
* an ack to a dead client ahead of an ack to a live one in the same send queue;
* a broadcast fanned out to two Connections, the first to a dead peer;
* an item the verifier holds when `stop` releases the dispatcher;
* garbage before a peer's request;
* a pushed message ahead of the ack to a Connection's request.

More messages of the same kind only repeat the interleavings. The pipeline runs put three
items per producer, each valid or not. That covers a put landing at every point of the
verifier's check, wait and verify, and of the dispatcher's, and it covers an invalid item
between two valid ones. The stop runs put one item, which is all a stop racing a put or a
forward needs. In the foreign run, the foreign client
and the foreign server together send up to two messages (the ids left after two registers and
the broadcasts). Each message is one of 3 types x 3 formats. Register and unregister are left
out there because the peers run has them, and they route the same way on the client as an
ack does. In the live run, `MaxCid` 4 leaves one id after the three registers, for a broadcast of
any one validator or an unregister (n1's broadcast is the one that fans out); with more
ids a three-validator liveness run takes over ten minutes, because
liveness checking is far slower than safety. The run that lets the foreign client reach both servers with two messages had over
100M states, so the foreign client targets one server.

**Observed in the code, without a run.** A unit test shows these directly, so no run is
spent on them:

* `Network.stop` ends with `join()` on the server thread (line 624), whose event loop no
  code stops, so `stop()` never returns. The model encodes the join as the owner state
  `"joining"` with no successor; a property that `stop` returns would fail by that encoding
  alone.
* `Network.__init__` registers no handler for `gossip/ping` (line 525), so a ping to a
  server is never acked.
* `register_peer` appends on every register (line 596), so a sender that registers twice
  is recorded twice. Spec scenario 2 says it is recorded once.
* The Future returned by `broadcast_message` (line 584) is never resolved. Acks go to each
  Connection's own table, so the server's table only grows.

## 5. Not modelled (yet)

* Restarts and identity reuse (plan step 6). Every Connection of a process has the DEALER
  identity `hostname-pid`. A restarted process normally has a new pid, so to its peers it is a
  new client, and the ROUTER drops the replies meant for the old one (`Reachable`). Only a
  restart that keeps its pid, as in a container, would route the old acks to the new process.
* Reading `_recv_queue`: `Stream.receive` and `get_message` are never called, so the queue only
  grows. Its growth is bounded in the model only by `MaxCid`.
* `SignatureVerifier` and the dispatcher beyond what spec 4.7 and 5 say. Their code is not
  in the repository.
* `FauxNetwork`: it is stateless.
* `_generate_id`: only its uniqueness matters.
* `_ClientSendReceiveThread.stop`: nothing in the file calls it.
* Logging, and the `time.sleep` calls. The sleeps are timing only, and every interleaving they
  make likely is still one the model explores.
