---------------------------- MODULE PeerRegistry ----------------------------
(***************************************************************************)
(* Network._peered_with_us: the peers that registered with this node's     *)
(* server, a dict from the sender routing identity to a list of records.   *)
(* Both operations ignore the identity carried in the request and record   *)
(* the sender itself (data = sender).                                      *)
(***************************************************************************)
LOCAL INSTANCE Sequences
LOCAL INSTANCE TLC

EmptyRegistry == [s \in {} |-> <<>>]

\* Network.register_peer: create the list on first sight, then append.
RegisterPeer(reg, sender, identity) ==
    LET data == sender
    IN  IF sender \in DOMAIN reg
        THEN [reg EXCEPT ![sender] = Append(@, data)]
        ELSE (sender :> <<data>>) @@ reg

\* Network.unregister_peer: drop the whole entry of the sender, if any.
UnregisterPeer(reg, sender, identity) ==
    [s \in DOMAIN reg \ {sender} |-> reg[s]]
=============================================================================
