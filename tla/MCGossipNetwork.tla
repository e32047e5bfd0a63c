-------------------------- MODULE MCGossipNetwork ---------------------------
(* Instantiates GossipNetwork for TLC: two validators that list each       *)
(* other as peers, one foreign client, one foreign server.                  *)
EXTENDS GossipNetwork

CONSTANTS n1, n2, n3, f1, s1

\* Each validator dials the other.
MCPeerList == (n1 :> <<n2>>) @@ (n2 :> <<n1>>)

\* n1's peer list names n1 itself as well as n2.
MCSelfPeerList == (n1 :> <<n1, n2>>) @@ (n2 :> <<>>)

\* n1 dials two validators that dial nobody.
MCFanOutPeerList == (n1 :> <<n2, n3>>) @@ (n2 :> <<>>) @@ (n3 :> <<>>)

\* n2 dials n1; n1 dials nobody.
MCOneWayPeerList == (n1 :> <<>>) @@ (n2 :> <<n1>>)

\* n2 dials n1; n1 dials the foreign server s1.
MCForeignServerPeerList == (n1 :> <<s1>>) @@ (n2 :> <<n1>>)

\* n1 dials the foreign server s1 only.
MCOnlyForeignPeerList == n1 :> <<s1>>

\* n1 dials n2 and n3, n2 dials n3: n1 broadcasts to two peers, and n3's
\* server answers two validators.
MCChainPeerList == (n1 :> <<n2, n3>>) @@ (n2 :> <<n3>>) @@ (n3 :> <<>>)

MCGossipOnly == {Gossip}

\* The types either table routes somewhere other than to the registry.
MCGossipPingAck == {Gossip, Ping, Ack}

MCAllTypes == {Register, Unregister, Gossip, Ping, Ack}
=============================================================================
