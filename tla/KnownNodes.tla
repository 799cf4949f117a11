----------------------------- MODULE KnownNodes -----------------------------
(***************************************************************************)
(* The nodes of the network a compute node knows (DriaNodes of             *)
(* p2p/src/nodes.rs) and their refresh from the API                        *)
(* (compute/src/utils/nodes.rs). Only RPC nodes whose peer id is known may *)
(* give tasks. An address is represented by the peer it names, or NoPeer.  *)
(***************************************************************************)
EXTENDS FiniteSets

CONSTANTS
    Peer,
    NoPeer,      \* an address without a peer id; a message without a source
    Garbage,     \* an entry of a list that does not parse
    Bootstrap,   \* bootstrap nodes: static ones and DKN_BOOTSTRAP_NODES
    Relay,       \* relay nodes: static ones and DKN_RELAY_NODES
    Responses    \* what the API may answer

Lists == {"bootstrap", "relay", "rpc", "ids"}

ASSUME PeerAssumption == NoPeer \notin Peer /\ Garbage \notin Peer \cup {NoPeer}
ASSUME StartAssumption == Bootstrap \cup Relay \subseteq Peer \cup {NoPeer}
ASSUME ResponseAssumption ==
    /\ Responses \subseteq [Lists -> SUBSET (Peer \cup {NoPeer, Garbage})] /\ Responses # {}
    /\ \A response \in Responses : NoPeer \notin response["ids"]   \* no addresses in that list

VARIABLES
    known,      \* the DriaNodes of the node
    api,        \* external: what the API answers now
    announced   \* history: the peer ids the node was ever told, in a readable list

knownVars == <<known, api, announced>>

\* parse_vec: one entry that does not parse, and the whole list is left out
Parsed(list) == IF Garbage \in list THEN {} ELSE list

\* no RPC node is static, and none is read from the environment
Statics == [bootstrap |-> Bootstrap, relay |-> Relay, rpc |-> {}, ids |-> {}]

\* each list is extended on its own, and nothing is ever taken out
Extended(nodes, response) == [l \in Lists |-> nodes[l] \cup Parsed(response[l])]

\* DriaComputeNode::new refreshes once and goes on whether that worked or not
KnownInit ==
    /\ api \in Responses
    /\ \/ known = Statics /\ announced = {}
       \/ known = Extended(Statics, api) /\ announced = Parsed(api.ids)

\* refresh_dria_nodes once the API has answered with a response that is JSON
Refresh ==
    /\ known' = Extended(known, api)
    /\ announced' = announced \cup Parsed(api.ids)
    /\ UNCHANGED api

ApiChanges ==
    /\ api' \in Responses \ {api}
    /\ UNCHANGED <<known, announced>>

KnownTypeOK ==
    /\ known \in [Lists -> SUBSET (Peer \cup {NoPeer})]
    /\ api \in Responses
    /\ known.ids \cup announced \subseteq Peer

=============================================================================
