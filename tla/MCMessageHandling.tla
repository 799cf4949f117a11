-------------------------- MODULE MCMessageHandling --------------------------
(***************************************************************************)
(* An RPC node that the API names, and names no more when its lists change *)
(* to one that is not readable; and a peer that is not known as an RPC     *)
(* node, although its address is. Each message is a sound task or ping, or *)
(* one with a single thing amiss, or with two whose order decides.         *)
(***************************************************************************)
EXTENDS MessageHandling

MCProviderOf == [llama |-> "ollama", gpt |-> "openai"]
MCModels == <<"llama", "gpt">>

MCResponses ==
    {[bootstrap |-> {"garbage"}, relay |-> {}, rpc |-> {"rpc"}, ids |-> {"rpc"}],
     [bootstrap |-> {}, relay |-> {"peer"}, rpc |-> {"peer"}, ids |-> {"peer", "garbage"}]}

Task(d, names) ==
    [gossip |-> "task", source |-> "rpc", form |-> "signed", topic |-> "task",
     deadline |-> d, body |-> "ours", names |-> names]

Ping(d) == [Task(d, {}) EXCEPT !.gossip = "ping", !.topic = "ping"]

MCMessages ==
    {Task(1, {"*"}), Task(2, {"openai", "gemini"}), Task(2, {"gemini"}), Ping(1), Ping(2)}
    \cup {[Task(2, {"!"}) EXCEPT !.body = b] : b \in Bodies \ {"ours"}}
    \cup {[Ping(2) EXCEPT !.form = f] : f \in Forms \ {"short"}}
    \cup {[Task(2, {"!"}) EXCEPT !.source = p] : p \in {"none", "peer"}}
    \cup {[Ping(2) EXCEPT !.source = "peer", !.form = "wrong"],
          [Ping(2) EXCEPT !.body = "unparsable"],
          [Ping(2) EXCEPT !.gossip = "results"],
          [Ping(2) EXCEPT !.gossip = "elsewhere"],
          [Task(2, {"!"}) EXCEPT !.gossip = "ping"],
          [Task(2, {"!"}) EXCEPT !.form = "short"],
          [Task(2, {"!"}) EXCEPT !.topic = "results"]}

\* signed messages only, of any topic
MCTopicMessages == {Task(2, {"*"}), Ping(2), [Task(2, {"!"}) EXCEPT !.topic = "results"]}

MCRequests ==
    {[peer |-> "rpc", kind |-> "specs"], [peer |-> "rpc", kind |-> "task"],
     [peer |-> "peer", kind |-> "specs"]}

=============================================================================
