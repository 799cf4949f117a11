------------------------------ MODULE MCP2PLink ------------------------------
(* Instances of P2PLink: several messages and requests, two topics.        *)
EXTENDS P2PLink

MCTopics == <<"ping", "task">>

=============================================================================
