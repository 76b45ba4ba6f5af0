------------------------------ MODULE MCClients ------------------------------
(***************************************************************************)
(* The coordinator's clients, one kind at a time, while the others rest in  *)
(* their initial states: receivers that read their mail through the JSON-RPC *)
(* binding, with the SDK or by pulling; the local workspace, with two       *)
(* sessions and two processes that crash and come back, one of them an MCP  *)
(* server; the bridge of a proactive turn, with more tool calls than its    *)
(* budgets allow.                                                          *)
(***************************************************************************)
EXTENDS RpcMailbox, Workspace, ProactiveBridge, TLC

CONSTANT Parts  \* those of "mailbox", "workspace" and "bridge" that may move
VARIABLE part   \* the one that does

\* Nobody is open to suggestions at a bridge that rests.
MCInit ==
  /\ part \in Parts
  /\ RpcInit /\ WsInit /\ BridgeInit
  /\ part # "bridge" => open = {}

MCNext ==
  /\ UNCHANGED part
  /\ \/ part = "mailbox" /\ RpcNext /\ UNCHANGED <<ws_vars, bridge_vars>>
     \/ part = "workspace" /\ WsNext /\ UNCHANGED <<rpc_vars, bridge_vars>>
     \/ part = "bridge" /\ BridgeNext /\ UNCHANGED <<rpc_vars, ws_vars>>

MCSpec == MCInit /\ [][MCNext]_<<part, rpc_vars, ws_vars, bridge_vars>>

\* Only one part moves, and at rest the others look the same to each of a kind: the
\* permutation that swaps the two of every kind at once serves all parts.
Swapped == Sdk \cup Pull \cup Name
Kind(x) == CHOOSE S \in {Sdk, Pull, Name} : x \in S

Symmetric ==
  {p \in Permutations(Swapped) :
     /\ \A x \in Swapped : p[x] \in Kind(x)
     /\ (\A x \in Swapped : p[x] = x) \/ (\A x \in Swapped : p[x] # x \/ Kind(x) = {x})}
=============================================================================
