---------------------------- MODULE PeerIdentify ----------------------------
(***************************************************************************)
(* The peers of the peer-to-peer client: whom it dials and is connected    *)
(* with, what it does when a peer identifies itself, and the peers with an *)
(* address in Kademlia's routing table (p2p/src/client.rs). Connections    *)
(* themselves are libp2p's.                                                *)
(***************************************************************************)
EXTENDS KnownNodes

VARIABLES
    dialling,    \* dials under way
    connected,
    blacklist,   \* gossipsub's: nothing is taken from these peers any more
    routing      \* peers with an address in the routing table

peerVars == <<dialling, connected, blacklist, routing>>

\* DriaP2PClient::new dials the bootstrap nodes that name a peer, which enter the
\* routing table, and the RPC nodes; an empty table cannot be bootstrapped from,
\* which is an error of new()
PeersInit ==
    /\ known.bootstrap \ {NoPeer} # {}
    /\ dialling = (known.bootstrap \cup known.rpc) \ {NoPeer}
    /\ connected = {}
    /\ blacklist = {}
    /\ routing = known.bootstrap \ {NoPeer}

\* identify: the identify protocol; kad: the first of the peer's protocols that
\* has the name of our Kademlia protocol; public: it listens on a public IPv4 address
Infos == [identify : {"ours", "other"}, kad : {"ours", "other", "none"}, public : BOOLEAN]

Differs(info) == info.identify = "other" \/ info.kad = "other"

Blacklist(p) ==
    /\ blacklist' = blacklist \cup {p}
    /\ connected' = connected \ {p}
    /\ UNCHANGED <<dialling, routing>>

\* handle_identify_event
Identified(p, info) ==
    /\ p \in connected
    /\ IF Differs(info)
       THEN Blacklist(p)
       ELSE /\ routing' = IF info.kad = "ours" /\ info.public THEN routing \cup {p} ELSE routing
            /\ UNCHANGED <<dialling, connected, blacklist>>

\* NewExternalAddrOfPeer: added for whatever peer it is
Announced(p) ==
    /\ routing' = routing \cup {p}
    /\ UNCHANGED <<dialling, connected, blacklist>>

\* the Dial commands of a refresh: connected or blacklisted, every address is dialled
Dial(peers) ==
    /\ dialling' = dialling \cup (peers \ {NoPeer})
    /\ UNCHANGED <<connected, blacklist, routing>>

\* external: a dial succeeds or fails
DialEnds(p) ==
    /\ p \in dialling
    /\ dialling' = dialling \ {p}
    /\ connected' \in {connected, connected \cup {p}}
    /\ UNCHANGED <<blacklist, routing>>

\* external: a peer dials us
PeerConnects(p) ==
    /\ p \notin connected
    /\ connected' = connected \cup {p}
    /\ UNCHANGED <<dialling, blacklist, routing>>

\* external: a connection is lost
PeerLeaves(p) ==
    /\ p \in connected
    /\ connected' = connected \ {p}
    /\ UNCHANGED <<dialling, blacklist, routing>>

PeersTypeOK ==
    /\ dialling \subseteq Peer
    /\ connected \subseteq Peer
    /\ blacklist \subseteq Peer
    /\ routing \subseteq Peer

=============================================================================
