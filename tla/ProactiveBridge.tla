--------------------------- MODULE ProactiveBridge ---------------------------
(***************************************************************************)
(* createProactiveToolBridge (src/sdk/index.mjs): what one model turn may do  *)
(* with the two tools it is given.                                          *)
(*                                                                         *)
(* The host runs the tool calls of a turn at once if it likes.  A discovery   *)
(* waits for one summary after the other, a suggestion for the answer to its  *)
(* send; any of these may fail or never come.  All calls share the counters   *)
(* and the set of targets found suggestable.  Whether a target's summary      *)
(* invites suggestions changes meanwhile, and the coordinator may refuse.     *)
(***************************************************************************)
EXTENDS Naturals, FiniteSets

CONSTANTS
  Target,          \* the related tasks the host configured
  Call,            \* tool calls of the turn
  DiscoveryBudget, \* discoveryBudget, 1 if the host does not say
  SendBudget       \* sendBudget

ASSUME BridgeAssumption == {DiscoveryBudget, SendBudget} \subseteq Nat \ {0}

VARIABLES
  open,               \* targets whose summary invites suggestions now
  call,               \* the tool calls
  discoveryCalls, sendCalls, discoveryCompleted, discoveredSuggestTargets,
  sentTaskIds,        \* how often usage() names each target
  stored              \* what the coordinator took: the calls, with their target

bridge_vars ==
  <<open, call, discoveryCalls, sendCalls, discoveryCompleted, discoveredSuggestTargets,
    sentTaskIds, stored>>

Unset == [none |-> TRUE]
NoTarget == [unknown |-> TRUE]

DiscoveryResult(read, saw, state) == [tool |-> "discover", read |-> read, saw |-> saw, state |-> state]
Suggestion(t, state) == [tool |-> "suggest", target |-> t, state |-> state]

BridgeTypeOK ==
  /\ open \subseteq Target
  /\ call \in [Call -> {Unset}
       \cup {DiscoveryResult(r, s, st) : r \in SUBSET Target, s \in SUBSET Target,
                                   st \in {"waiting", "returned", "failed"}}
       \cup {Suggestion(t, st) : t \in Target \cup {NoTarget},
                                 st \in {"waiting", "arrived", "refused", "returned", "failed"}}]
  /\ discoveryCalls \in 0..DiscoveryBudget /\ sendCalls \in 0..SendBudget
  /\ discoveryCompleted \in BOOLEAN
  /\ discoveredSuggestTargets \subseteq Target
  /\ sentTaskIds \in [Target -> 0..SendBudget]
  /\ stored \subseteq Call

Is(c, tool, state) ==
  IF call[c] = Unset THEN FALSE ELSE call[c].tool = tool /\ call[c].state = state

\* Mutant: the calls that returned are counted.
Counted_Returned(c, tool, n) ==
  Cardinality({d \in Call : Is(d, tool, "returned")})

\* The counter of a budget, for a call c.
Counted(c, tool, n) == n

(***************************************************************************)
(* threadmesh_related_tasks.                                                *)
(***************************************************************************)
Discover(c) ==
  /\ call[c] = Unset
  /\ Counted(c, "discover", discoveryCalls) < DiscoveryBudget
  /\ discoveryCalls' = discoveryCalls + 1
  /\ call' = [call EXCEPT ![c] = DiscoveryResult({}, {}, "waiting")]
  /\ UNCHANGED <<open, sendCalls, discoveryCompleted, discoveredSuggestTargets, sentTaskIds, stored>>

\* The answer of one summary; the target is suggestable from here on.
ReadSummary(c, t) ==
  LET saw == open \cap {t} IN
  /\ Is(c, "discover", "waiting") /\ t \notin call[c].read
  /\ call' = [call EXCEPT ![c].read = @ \cup {t}, ![c].saw = @ \cup saw]
  /\ discoveredSuggestTargets' = discoveredSuggestTargets \cup saw
  /\ UNCHANGED <<open, discoveryCalls, sendCalls, discoveryCompleted, sentTaskIds, stored>>

Complete(c) == call[c].read = Target

ReturnDiscovery(c) ==
  /\ Is(c, "discover", "waiting") /\ Complete(c)
  /\ discoveryCompleted' = TRUE
  /\ call' = [call EXCEPT ![c].state = "returned"]
  /\ UNCHANGED <<open, discoveryCalls, sendCalls, discoveredSuggestTargets, sentTaskIds, stored>>

(***************************************************************************)
(* threadmesh_send_suggestion.                                              *)
(***************************************************************************)
\* The budget is taken before the arguments are looked at.
Suggest(c, t) ==
  /\ call[c] = Unset
  /\ discoveryCompleted
  /\ Counted(c, "suggest", sendCalls) < SendBudget
  /\ sendCalls' = sendCalls + 1
  /\ call' = [call EXCEPT ![c] =
       Suggestion(t, IF t \in discoveredSuggestTargets THEN "waiting" ELSE "failed")]
  /\ UNCHANGED <<open, discoveryCalls, discoveryCompleted, discoveredSuggestTargets, sentTaskIds, stored>>

\* The request arrives; the coordinator takes the message or refuses it.
Arrive(c) ==
  /\ Is(c, "suggest", "waiting")
  /\ \/ call' = [call EXCEPT ![c].state = "arrived"] /\ stored' = stored \cup {c}
     \/ call' = [call EXCEPT ![c].state = "refused"] /\ stored' = stored
  /\ UNCHANGED <<open, discoveryCalls, sendCalls, discoveryCompleted, discoveredSuggestTargets, sentTaskIds>>

GivesAnswer(c) == Is(c, "suggest", "arrived")

ReturnSuggestion(c) ==
  /\ GivesAnswer(c)
  /\ sentTaskIds' = [sentTaskIds EXCEPT ![call[c].target] = @ + 1]
  /\ call' = [call EXCEPT ![c].state = "returned"]
  /\ UNCHANGED <<open, discoveryCalls, sendCalls, discoveryCompleted, discoveredSuggestTargets, stored>>

\* A refusal, an error of the transport, or a summary of another task: the call throws.
Throw(c) ==
  /\ Is(c, "discover", "waiting")
     \/ \E state \in {"waiting", "arrived", "refused"} : Is(c, "suggest", state)
  /\ call' = [call EXCEPT ![c].state = "failed"]
  /\ UNCHANGED <<open, discoveryCalls, sendCalls, discoveryCompleted, discoveredSuggestTargets,
                 sentTaskIds, stored>>

\* A target publishes another summary.
Publish(t) ==
  /\ open' = IF t \in open THEN open \ {t} ELSE open \cup {t}
  /\ UNCHANGED <<call, discoveryCalls, sendCalls, discoveryCompleted, discoveredSuggestTargets,
                 sentTaskIds, stored>>

BridgeInit ==
  /\ open \in SUBSET Target
  /\ call = [c \in Call |-> Unset]
  /\ discoveryCalls = 0 /\ sendCalls = 0
  /\ discoveryCompleted = FALSE
  /\ discoveredSuggestTargets = {}
  /\ sentTaskIds = [t \in Target |-> 0]
  /\ stored = {}

BridgeNext ==
  \/ \E t \in Target : Publish(t)
  \/ \E c \in Call :
       \/ Discover(c) \/ ReturnDiscovery(c)
       \/ Arrive(c) \/ ReturnSuggestion(c) \/ Throw(c)
       \/ \E t \in Target : ReadSummary(c, t)
       \/ \E t \in Target \cup {NoTarget} : Suggest(c, t)

BridgeSpec == BridgeInit /\ [][BridgeNext]_bridge_vars

(***************************************************************************)
(* Properties.                                                              *)
(***************************************************************************)
Discoveries == {c \in Call : IF call[c] = Unset THEN FALSE ELSE call[c].tool = "discover"}
Reads(t) == {c \in Discoveries : t \in call[c].read}

\* However many calls a host runs at once, and however many fail or never return, no
\* summary is read more often than the discovery budget says and no more messages reach
\* the coordinator than the send budget does.
WithinBudgets ==
  /\ \A t \in Target : Cardinality(Reads(t)) <= DiscoveryBudget
  /\ Cardinality(stored) <= SendBudget

\* Nothing is sent before a discovery has read every summary, nor to a target that no
\* summary of this turn showed suggestable, whichever calls overlap or fail.
DiscoveredFirst ==
  \A c \in stored :
    /\ \E d \in Discoveries : call[d].read = Target
    /\ \E d \in Discoveries : call[c].target \in call[d].saw

\* usage() never names a target more often than the coordinator took a message to it; it
\* may name it less often, when an answer was lost.
UsageIsTrue ==
  \A t \in Target : sentTaskIds[t] <= Cardinality({c \in stored : call[c].target = t})

\* A turn stays within what its bridge allows and tells of it: all of the above.
TurnKeepsBudget == BridgeTypeOK /\ WithinBudgets /\ DiscoveredFirst /\ UsageIsTrue

(***************************************************************************)
(* What the repository says, and the code does not do.                      *)
(***************************************************************************)

\* The description of the tool: a suggestion is sent only when a returned summary needs
\* it.  A discovery that failed half way has returned none, yet what it saw counts.
ReturnedFirst ==
  \A c \in stored :
    \E d \in Discoveries : call[d].state = "returned" /\ call[c].target \in call[d].saw
=============================================================================
