---------------------------- MODULE ClientsProofs ----------------------------
(***************************************************************************)
(* Theorems about the coordinator's clients, for every number of tasks,     *)
(* tool calls, sessions and receivers, and for every budget.                *)
(*                                                                         *)
(* The bridge of a turn keeps counters, the tool calls keep rows: the       *)
(* inductive invariant says that the counters count the rows, whatever      *)
(* became of each call, and where what a suggestion relies on comes from.   *)
(***************************************************************************)
EXTENDS RpcMailbox, Workspace, ProactiveBridge, SequenceTheorems, FiniteSetTheorems, TLAPS

(***************************************************************************)
(* The bridge: its inductive invariant.                                    *)
(***************************************************************************)
DiscoveryRow ==
  [tool : {"discover"}, read : SUBSET Target, saw : SUBSET Target,
   state : {"waiting", "returned", "failed"}]

SuggestionRow ==
  [tool : {"suggest"}, target : Target \cup {NoTarget},
   state : {"waiting", "arrived", "refused", "returned", "failed"}]

BridgeRows ==
  /\ open \subseteq Target
  /\ call \in [Call -> {Unset} \cup DiscoveryRow \cup SuggestionRow]
  /\ discoveryCalls \in 0..DiscoveryBudget /\ sendCalls \in 0..SendBudget
  /\ discoveryCompleted \in BOOLEAN
  /\ discoveredSuggestTargets \subseteq Target
  /\ sentTaskIds \in [Target -> 0..SendBudget]
  /\ stored \subseteq Call

Finders == {c \in Call : call[c] \in DiscoveryRow}
Askers == {c \in Call : call[c] \in SuggestionRow}
ReturnedTo(t) == {c \in Askers : call[c].state = "returned" /\ call[c].target = t}

\* A counter tells how many calls took from its budget, and usage() how many returned.
CallsCounted ==
  /\ IsFiniteSet(Finders) /\ Cardinality(Finders) = discoveryCalls
  /\ IsFiniteSet(Askers) /\ Cardinality(Askers) = sendCalls
  /\ \A t \in Target : sentTaskIds[t] = Cardinality(ReturnedTo(t))

\* What the turn holds for discovered was read by one of its calls.
DiscoveriesShow ==
  /\ discoveryCompleted => \E d \in Finders : call[d].read = Target
  /\ \A t \in discoveredSuggestTargets : \E d \in Finders : t \in call[d].saw

\* A suggestion under way was let through, and one the coordinator took has arrived.
SuggestionsSound ==
  /\ Askers # {} => discoveryCompleted
  /\ \A c \in Askers :
       /\ call[c].state \in {"waiting", "arrived", "returned"} =>
            call[c].target \in discoveredSuggestTargets
       /\ call[c].state \in {"arrived", "returned"} => c \in stored
       /\ call[c].state = "waiting" => c \notin stored
  /\ \A c \in stored : c \in Askers /\ call[c].target \in discoveredSuggestTargets

BridgeInv == BridgeRows /\ CallsCounted /\ DiscoveriesShow /\ SuggestionsSound

(***************************************************************************)
(* What a change of one call does to the sets of calls.                     *)
(***************************************************************************)
LEMMA RowsApart ==
  /\ \A r \in DiscoveryRow : r # Unset /\ r \notin SuggestionRow /\ r.tool = "discover"
  /\ \A r \in SuggestionRow : r # Unset /\ r \notin DiscoveryRow /\ r.tool = "suggest"
<1>1. "tool" \notin DOMAIN Unset
  BY DEF Unset
<1>2. \A r \in DiscoveryRow : "tool" \in DOMAIN r /\ r.tool = "discover"
  BY DEF DiscoveryRow
<1>3. \A r \in SuggestionRow : "tool" \in DOMAIN r /\ r.tool = "suggest"
  BY DEF SuggestionRow
<1> QED
  BY <1>1, <1>2, <1>3

LEMMA BridgeSets ==
  ASSUME BridgeRows
  PROVE  /\ Discoveries = Finders
         /\ \A c \in Call, state \in {"waiting", "returned", "failed", "arrived", "refused"} :
              /\ Is(c, "discover", state) <=> c \in Finders /\ call[c].state = state
              /\ Is(c, "suggest", state) <=> c \in Askers /\ call[c].state = state
<1>1. \A c \in Call : call[c] \in {Unset} \cup DiscoveryRow \cup SuggestionRow
  BY DEF BridgeRows
<1> QED
  BY <1>1, RowsApart DEF Discoveries, Finders, Askers, Is

LEMMA DiscoveryReplaced ==
  ASSUME BridgeRows, NEW c \in Call, NEW r \in DiscoveryRow, c \notin Askers,
         call' = [call EXCEPT ![c] = r]
  PROVE  /\ call' \in [Call -> {Unset} \cup DiscoveryRow \cup SuggestionRow]
         /\ call'[c] = r /\ \A d \in Call \ {c} : call'[d] = call[d]
         /\ Finders' = Finders \cup {c} /\ Askers' = Askers
         /\ \A t \in Target : ReturnedTo(t)' = ReturnedTo(t)
<1>1. call' \in [Call -> {Unset} \cup DiscoveryRow \cup SuggestionRow]
  BY DEF BridgeRows
<1>2. call'[c] = r /\ \A d \in Call \ {c} : call'[d] = call[d]
  BY DEF BridgeRows
<1>3. Finders' = Finders \cup {c}
  BY <1>2 DEF Finders
<1>4. Askers' = Askers
  BY <1>2, RowsApart DEF Askers
<1>5. ASSUME NEW t \in Target PROVE ReturnedTo(t)' = ReturnedTo(t)
  BY <1>2, <1>4 DEF ReturnedTo, Askers
<1> QED
  BY <1>1, <1>2, <1>3, <1>4, <1>5

LEMMA SuggestionReplaced ==
  ASSUME BridgeRows, NEW c \in Call, NEW r \in SuggestionRow, c \notin Finders,
         c \in Askers => call[c].state # "returned",
         call' = [call EXCEPT ![c] = r]
  PROVE  /\ call' \in [Call -> {Unset} \cup DiscoveryRow \cup SuggestionRow]
         /\ call'[c] = r /\ \A d \in Call \ {c} : call'[d] = call[d]
         /\ Finders' = Finders /\ Askers' = Askers \cup {c}
         /\ \A t \in Target :
              ReturnedTo(t)' = ReturnedTo(t)
                \cup {d \in {c} : r.state = "returned" /\ r.target = t}
         /\ \A t \in Target : c \notin ReturnedTo(t)
<1>1. call' \in [Call -> {Unset} \cup DiscoveryRow \cup SuggestionRow]
  BY DEF BridgeRows
<1>2. call'[c] = r /\ \A d \in Call \ {c} : call'[d] = call[d]
  BY DEF BridgeRows
<1>3. Finders' = Finders
  BY <1>2, RowsApart DEF Finders
<1>4. Askers' = Askers \cup {c}
  BY <1>2 DEF Askers
<1>5. ASSUME NEW t \in Target
      PROVE  /\ ReturnedTo(t)' = ReturnedTo(t)
                  \cup {d \in {c} : r.state = "returned" /\ r.target = t}
             /\ c \notin ReturnedTo(t)
  <2>1. ReturnedTo(t)' = {d \in Askers \cup {c} : call'[d].state = "returned" /\ call'[d].target = t}
    BY <1>4 DEF ReturnedTo
  <2>2. \A d \in Askers \ {c} : call'[d] = call[d]
    BY <1>2 DEF Askers
  <2>3. c \notin ReturnedTo(t)
    BY DEF ReturnedTo
  <2> QED
    BY <1>2, <2>1, <2>2, <2>3 DEF ReturnedTo
<1> QED
  BY <1>1, <1>2, <1>3, <1>4, <1>5

\* One more call of a kind.
LEMMA OneMore ==
  ASSUME NEW S, NEW x, IsFiniteSet(S), x \notin S
  PROVE  IsFiniteSet(S \cup {x}) /\ Cardinality(S \cup {x}) = Cardinality(S) + 1
BY FS_AddElement

(***************************************************************************)
(* The invariant holds at the start and after every step.                  *)
(***************************************************************************)
LEMMA BridgeStarts == BridgeInit => BridgeInv
<1> SUFFICES ASSUME BridgeInit PROVE BridgeInv
  OBVIOUS
<1>0. {DiscoveryBudget, SendBudget} \subseteq Nat \ {0}
  BY BridgeAssumption
<1>1. BridgeRows
  <2>1. sentTaskIds \in [Target -> 0..SendBudget]
    BY <1>0 DEF BridgeInit
  <2>2. open \subseteq Target
    BY DEF BridgeInit
  <2>3. call \in [Call -> {Unset} \cup DiscoveryRow \cup SuggestionRow]
    BY DEF BridgeInit
  <2>4. discoveryCalls \in 0..DiscoveryBudget /\ sendCalls \in 0..SendBudget
    BY <1>0 DEF BridgeInit
  <2>5. discoveryCompleted \in BOOLEAN /\ discoveredSuggestTargets \subseteq Target /\ stored \subseteq Call
    BY DEF BridgeInit
  <2> QED
    BY <2>1, <2>2, <2>3, <2>4, <2>5 DEF BridgeRows
<1>2. Finders = {} /\ Askers = {}
  BY RowsApart DEF BridgeInit, Finders, Askers
<1>3. \A t \in Target : ReturnedTo(t) = {}
  BY <1>2 DEF ReturnedTo
<1> QED
  BY <1>1, <1>2, <1>3, FS_EmptySet
     DEF BridgeInit, BridgeInv, CallsCounted, DiscoveriesShow, SuggestionsSound

LEMMA PublishKeeps ==
  ASSUME BridgeInv, NEW t \in Target, Publish(t)
  PROVE  BridgeInv'
<1>1. Finders' = Finders /\ Askers' = Askers /\ \A u \in Target : ReturnedTo(u)' = ReturnedTo(u)
  BY DEF Publish, Finders, Askers, ReturnedTo
<1>2. open' \subseteq Target
  BY DEF Publish, BridgeInv, BridgeRows
<1>3. BridgeRows'
  BY <1>2 DEF Publish, BridgeInv, BridgeRows
<1>4. CallsCounted' /\ DiscoveriesShow' /\ SuggestionsSound'
  BY <1>1 DEF Publish, BridgeInv, CallsCounted, DiscoveriesShow, SuggestionsSound
<1> QED
  BY <1>3, <1>4 DEF BridgeInv

LEMMA DiscoverKeeps ==
  ASSUME BridgeInv, NEW c \in Call, Discover(c)
  PROVE  BridgeInv'
<1> DEFINE r == DiscoveryResult({}, {}, "waiting")
<1>0. BridgeRows /\ CallsCounted /\ DiscoveriesShow /\ SuggestionsSound
  BY DEF BridgeInv
<1>1. r \in DiscoveryRow
  BY DEF DiscoveryResult, DiscoveryRow
<1>2. c \notin Finders /\ c \notin Askers
  BY RowsApart DEF Discover, Finders, Askers
<1>3. call' = [call EXCEPT ![c] = r]
  BY DEF Discover
<1> HIDE DEF r
<1>4. /\ call' \in [Call -> {Unset} \cup DiscoveryRow \cup SuggestionRow]
      /\ call'[c] = r /\ \A d \in Call \ {c} : call'[d] = call[d]
      /\ Finders' = Finders \cup {c} /\ Askers' = Askers
      /\ \A t \in Target : ReturnedTo(t)' = ReturnedTo(t)
  BY <1>0, <1>1, <1>2, <1>3, DiscoveryReplaced
<1>5. discoveryCalls' = discoveryCalls + 1 /\ discoveryCalls < DiscoveryBudget
  BY DEF Discover, Counted
<1>6. UNCHANGED <<open, sendCalls, discoveryCompleted, discoveredSuggestTargets, sentTaskIds, stored>>
  BY DEF Discover
<1>7. BridgeRows'
  <2>1. discoveryCalls' \in 0..DiscoveryBudget
    BY <1>0, <1>5, BridgeAssumption DEF BridgeRows
  <2> QED
    BY <2>1, <1>0, <1>4, <1>6 DEF BridgeRows
<1>8. CallsCounted'
  <2>1. IsFiniteSet(Finders') /\ Cardinality(Finders') = discoveryCalls'
    BY <1>0, <1>2, <1>4, <1>5, OneMore DEF CallsCounted
  <2> QED
    BY <2>1, <1>0, <1>4, <1>6 DEF CallsCounted
<1>9. \A d \in Finders : d # c /\ call'[d] = call[d]
  BY <1>2, <1>4 DEF Finders
<1>10. \A d \in Askers : d # c /\ call'[d] = call[d]
  BY <1>2, <1>4 DEF Askers
<1>11. DiscoveriesShow'
  BY <1>0, <1>4, <1>6, <1>9 DEF DiscoveriesShow
<1>12. SuggestionsSound'
  BY <1>0, <1>4, <1>6, <1>10 DEF SuggestionsSound
<1> QED
  BY <1>7, <1>8, <1>11, <1>12 DEF BridgeInv

\* A discovery under way that has read and seen no less than before.
LEMMA DiscoveryGoesOn ==
  ASSUME BridgeInv, NEW c \in Finders, NEW r \in DiscoveryRow,
         call[c].read \subseteq r.read, call[c].saw \subseteq r.saw,
         call' = [call EXCEPT ![c] = r],
         UNCHANGED <<open, discoveryCalls, sendCalls, sentTaskIds, stored>>,
         discoveryCompleted' \in BOOLEAN, discoveryCompleted => discoveryCompleted',
         discoveryCompleted' => discoveryCompleted \/ r.read = Target,
         discoveredSuggestTargets \subseteq discoveredSuggestTargets',
         discoveredSuggestTargets' \subseteq discoveredSuggestTargets \cup (r.saw \cap Target)
  PROVE  BridgeInv'
<1>0. BridgeRows /\ CallsCounted /\ DiscoveriesShow /\ SuggestionsSound
  BY DEF BridgeInv
<1>1. c \in Call /\ c \notin Askers
  BY RowsApart DEF Finders, Askers
<1>2. /\ call' \in [Call -> {Unset} \cup DiscoveryRow \cup SuggestionRow]
      /\ call'[c] = r /\ \A d \in Call \ {c} : call'[d] = call[d]
      /\ Finders' = Finders \cup {c} /\ Askers' = Askers
      /\ \A t \in Target : ReturnedTo(t)' = ReturnedTo(t)
  BY <1>0, <1>1, DiscoveryReplaced
<1>3. Finders' = Finders
  BY <1>2
<1>4. discoveredSuggestTargets' \subseteq Target
  BY <1>0 DEF BridgeRows
<1>5. call[c].read \in SUBSET Target /\ r.read \in SUBSET Target
  BY DEF Finders, DiscoveryRow
<1>6. \A d \in Finders : call[d].read \subseteq call'[d].read /\ call[d].saw \subseteq call'[d].saw
  BY <1>2 DEF Finders
<1>7. DiscoveriesShow'
  <2>1. ASSUME discoveryCompleted' PROVE \E d \in Finders : call'[d].read = Target
    <3>1. CASE r.read = Target
      BY <3>1, <1>2
    <3>2. CASE r.read # Target
      <4>1. PICK d \in Finders : call[d].read = Target
        BY <2>1, <3>2, <1>0 DEF DiscoveriesShow
      <4>2. call'[d].read \in SUBSET Target
        BY <1>2 DEF Finders, DiscoveryRow
      <4> QED
        BY <4>1, <4>2, <1>6
    <3> QED
      BY <3>1, <3>2
  <2>2. ASSUME NEW t \in discoveredSuggestTargets' PROVE \E d \in Finders : t \in call'[d].saw
    BY <1>0, <1>2, <1>6 DEF DiscoveriesShow
  <2> QED
    BY <2>1, <2>2, <1>3 DEF DiscoveriesShow
<1>8. \A d \in Askers : call'[d] = call[d]
  BY <1>1, <1>2 DEF Askers
<1>9. SuggestionsSound'
  BY <1>0, <1>2, <1>8 DEF SuggestionsSound
<1>10. CallsCounted'
  BY <1>0, <1>2, <1>3 DEF CallsCounted
<1>11. BridgeRows'
  BY <1>0, <1>2, <1>4 DEF BridgeRows
<1> QED
  BY <1>7, <1>9, <1>10, <1>11 DEF BridgeInv

LEMMA ReadSummaryKeeps ==
  ASSUME BridgeInv, NEW c \in Call, NEW t \in Target, ReadSummary(c, t)
  PROVE  BridgeInv'
<1> DEFINE r == DiscoveryResult(call[c].read \cup {t}, call[c].saw \cup (open \cap {t}), "waiting")
<1>0. BridgeRows
  BY DEF BridgeInv
<1>1. c \in Finders /\ call[c].state = "waiting"
  <2>1. Is(c, "discover", "waiting")
    BY DEF ReadSummary
  <2>2. Is(c, "discover", "waiting") <=> c \in Finders /\ call[c].state = "waiting"
    BY <1>0, BridgeSets
  <2> QED
    BY <2>1, <2>2
<1>2. call[c] \in DiscoveryRow
  BY <1>1 DEF Finders
<1>3. call[c] = DiscoveryResult(call[c].read, call[c].saw, "waiting")
  BY <1>1, <1>2 DEF DiscoveryResult, DiscoveryRow
<1>4. call[c].read \in SUBSET Target /\ call[c].saw \in SUBSET Target
  BY <1>2 DEF DiscoveryRow
<1>5. r \in DiscoveryRow
  BY <1>4, <1>0 DEF DiscoveryResult, DiscoveryRow, BridgeRows
<1>6. call' = [call EXCEPT ![c] = r]
  <2>1. call' = [call EXCEPT ![c] = [call[c] EXCEPT !.read = @ \cup {t}, !.saw = @ \cup (open \cap {t})]]
    BY DEF ReadSummary
  <2>2. [call[c] EXCEPT !.read = @ \cup {t}, !.saw = @ \cup (open \cap {t})] = r
    <3>1. \A d \in DiscoveryRow : \A x, y \in SUBSET Target :
            [d EXCEPT !.read = x, !.saw = y] = DiscoveryResult(x, y, d.state)
      <4> SUFFICES ASSUME NEW d \in DiscoveryRow, NEW x \in SUBSET Target, NEW y \in SUBSET Target
                   PROVE  [d EXCEPT !.read = x, !.saw = y] = DiscoveryResult(x, y, d.state)
        OBVIOUS
      <4>1. PICK e \in DiscoveryRow : e = [d EXCEPT !.read = x]
        BY DEF DiscoveryRow
      <4>2. e = DiscoveryResult(x, d.saw, d.state)
        BY <4>1 DEF DiscoveryRow, DiscoveryResult
      <4>3. e.read = x /\ e.saw = d.saw /\ e.state = d.state
        BY <4>2 DEF DiscoveryResult
      <4>4. [e EXCEPT !.saw = y] = DiscoveryResult(e.read, y, e.state)
        BY DEF DiscoveryRow, DiscoveryResult
      <4>5. [d EXCEPT !.read = x, !.saw = y] = [e EXCEPT !.saw = y]
        BY <4>1
      <4> QED
        BY <4>3, <4>4, <4>5
    <3>2. call[c].read \cup {t} \in SUBSET Target /\ call[c].saw \cup (open \cap {t}) \in SUBSET Target
      BY <1>4
    <3> QED
      BY <3>1, <3>2, <1>1, <1>2
  <2> QED
    BY <2>1, <2>2
<1>7. r.read = call[c].read \cup {t} /\ r.saw = call[c].saw \cup (open \cap {t})
  BY DEF DiscoveryResult
<1>8. discoveredSuggestTargets' = discoveredSuggestTargets \cup (open \cap {t})
  BY DEF ReadSummary
<1>9. PICK new \in DiscoveryRow : new = r
  BY <1>5
<1> HIDE DEF r
<1>10. UNCHANGED <<open, discoveryCalls, sendCalls, sentTaskIds, stored>>
       /\ discoveryCompleted' = discoveryCompleted
  BY DEF ReadSummary
<1>11. discoveryCompleted \in BOOLEAN
  BY <1>0 DEF BridgeRows
<1> QED
  BY <1>1, <1>6, <1>7, <1>8, <1>9, <1>10, <1>11, DiscoveryGoesOn

\* A call moves to another state.
LEMMA StateReplaced ==
  /\ \A r \in DiscoveryRow : \A state \in {"waiting", "returned", "failed"} :
       [r EXCEPT !.state = state] = DiscoveryResult(r.read, r.saw, state)
       /\ [r EXCEPT !.state = state] \in DiscoveryRow
  /\ \A r \in SuggestionRow : \A state \in {"waiting", "arrived", "refused", "returned", "failed"} :
       [r EXCEPT !.state = state] = Suggestion(r.target, state)
       /\ [r EXCEPT !.state = state] \in SuggestionRow
BY DEF DiscoveryRow, SuggestionRow, DiscoveryResult, Suggestion

LEMMA DiscoveryEnds ==
  ASSUME BridgeInv, NEW c \in Finders, NEW state \in {"returned", "failed"},
         call' = [call EXCEPT ![c].state = state],
         UNCHANGED <<open, discoveryCalls, sendCalls, discoveredSuggestTargets, sentTaskIds, stored>>,
         \/ discoveryCompleted' = discoveryCompleted
         \/ discoveryCompleted' = TRUE /\ call[c].read = Target
  PROVE  BridgeInv'
<1>1. call[c] \in DiscoveryRow
  BY DEF Finders
<1>2. PICK new \in DiscoveryRow : new = [call[c] EXCEPT !.state = state]
  BY <1>1, StateReplaced
<1>3. new = DiscoveryResult(call[c].read, call[c].saw, state)
  BY <1>1, <1>2, StateReplaced
<1>4. new.read = call[c].read /\ new.saw = call[c].saw
  BY <1>3 DEF DiscoveryResult
<1>5. call' = [call EXCEPT ![c] = new]
  BY <1>2
<1>6. discoveryCompleted \in BOOLEAN
  BY DEF BridgeInv, BridgeRows
<1>7. /\ discoveryCompleted' \in BOOLEAN
      /\ discoveryCompleted => discoveryCompleted'
      /\ discoveryCompleted' => discoveryCompleted \/ new.read = Target
  <2>1. CASE discoveryCompleted' = discoveryCompleted
    BY <2>1, <1>6
  <2>2. CASE discoveryCompleted' = TRUE /\ call[c].read = Target
    BY <2>2, <1>4
  <2> QED
    BY <2>1, <2>2
<1> QED
  BY <1>4, <1>5, <1>7, DiscoveryGoesOn

\* A suggestion under way changes its state: sent, refused, answered or lost.
LEMMA SuggestionGoesOn ==
  ASSUME BridgeInv, NEW c \in Askers, call[c].state # "returned",
         NEW state \in {"arrived", "refused", "returned", "failed"},
         call' = [call EXCEPT ![c].state = state],
         UNCHANGED <<open, discoveryCalls, sendCalls, discoveryCompleted, discoveredSuggestTargets>>,
         state = "arrived" => call[c].state = "waiting" /\ stored' = stored \cup {c},
         state # "arrived" => stored' = stored,
         state = "returned" =>
           call[c].state = "arrived" /\ sentTaskIds' = [sentTaskIds EXCEPT ![call[c].target] = @ + 1],
         state # "returned" => sentTaskIds' = sentTaskIds
  PROVE  BridgeInv'
<1>0. BridgeRows /\ CallsCounted /\ DiscoveriesShow /\ SuggestionsSound
  BY DEF BridgeInv
<1>1. c \in Call /\ call[c] \in SuggestionRow /\ c \notin Finders
  BY RowsApart DEF Finders, Askers
<1>2. PICK new \in SuggestionRow : new = [call[c] EXCEPT !.state = state]
  BY <1>1, StateReplaced
<1>3. new.state = state /\ new.target = call[c].target
  BY <1>1, <1>2, StateReplaced DEF Suggestion
<1>4. call' = [call EXCEPT ![c] = new]
  BY <1>2
<1>5. /\ call' \in [Call -> {Unset} \cup DiscoveryRow \cup SuggestionRow]
      /\ call'[c] = new /\ \A d \in Call \ {c} : call'[d] = call[d]
      /\ Finders' = Finders /\ Askers' = Askers \cup {c}
      /\ \A t \in Target :
           ReturnedTo(t)' = ReturnedTo(t)
             \cup {d \in {c} : new.state = "returned" /\ new.target = t}
      /\ \A t \in Target : c \notin ReturnedTo(t)
  BY <1>0, <1>1, <1>4, SuggestionReplaced
<1>6. Askers' = Askers
  BY <1>5
<1>7. \A d \in Finders : call'[d] = call[d]
  BY <1>1, <1>5 DEF Finders
<1>8. DiscoveriesShow'
  BY <1>0, <1>5, <1>7 DEF DiscoveriesShow
<1>9. SuggestionsSound'
  <2>1. \A d \in Askers : call'[d].target = call[d].target
    BY <1>3, <1>5 DEF Askers
  <2>2. \/ stored' = stored
        \/ state = "arrived" /\ stored' = stored \cup {c}
    OBVIOUS
  <2>3. state \in {"arrived", "returned"} => call[c].target \in discoveredSuggestTargets /\ c \in stored'
    BY <1>0, <2>2 DEF SuggestionsSound
  <2>4. \A d \in stored' : d \in Askers /\ call[d].target \in discoveredSuggestTargets
    BY <2>3, <1>0 DEF SuggestionsSound
  <2>5. ASSUME NEW d \in Askers
        PROVE /\ call'[d].state \in {"waiting", "arrived", "returned"} =>
                   call[d].target \in discoveredSuggestTargets
              /\ call'[d].state \in {"arrived", "returned"} => d \in stored'
              /\ call'[d].state = "waiting" => d \notin stored'
    <3>1. CASE d = c
      BY <3>1, <1>3, <1>5, <2>3
    <3>2. CASE d # c
      BY <3>2, <1>0, <1>5, <2>2 DEF SuggestionsSound, Askers
    <3> QED
      BY <3>1, <3>2
  <2> QED
    BY <2>1, <2>4, <2>5, <1>0, <1>6 DEF SuggestionsSound
<1>10. \A t \in Target : sentTaskIds'[t] = Cardinality(ReturnedTo(t)')
  <2>1. CASE state # "returned"
    BY <2>1, <1>0, <1>3, <1>5 DEF CallsCounted
  <2>2. CASE state = "returned"
    <3>1. call[c].target \in Target
      BY <2>2, <1>0 DEF SuggestionsSound, BridgeRows
    <3>2. ASSUME NEW t \in Target PROVE sentTaskIds'[t] = Cardinality(ReturnedTo(t)')
      <4>1. IsFiniteSet(ReturnedTo(t))
        BY <1>0, FS_Subset DEF CallsCounted, ReturnedTo
      <4>2. CASE t = call[c].target
        <5>1. ReturnedTo(t)' = ReturnedTo(t) \cup {c}
          BY <4>2, <2>2, <1>3, <1>5
        <5>2. Cardinality(ReturnedTo(t)') = Cardinality(ReturnedTo(t)) + 1
          BY <5>1, <4>1, <1>5, OneMore
        <5>3. sentTaskIds'[t] = sentTaskIds[t] + 1
          BY <4>2, <2>2, <1>0 DEF BridgeRows
        <5> QED
          BY <5>2, <5>3, <1>0 DEF CallsCounted
      <4>3. CASE t # call[c].target
        <5>1. ReturnedTo(t)' = ReturnedTo(t)
          BY <4>3, <1>3, <1>5
        <5>2. sentTaskIds'[t] = sentTaskIds[t]
          BY <4>3, <2>2, <1>0, <3>1 DEF BridgeRows
        <5> QED
          BY <5>1, <5>2, <1>0 DEF CallsCounted
      <4> QED
        BY <4>2, <4>3
    <3> QED
      BY <3>2
  <2> QED
    BY <2>1, <2>2
<1>11. CallsCounted'
  BY <1>0, <1>5, <1>6, <1>10 DEF CallsCounted
<1>12. sentTaskIds' \in [Target -> 0..SendBudget]
  <2>1. \A t \in Target : sentTaskIds'[t] \in 0..SendBudget
    <3>1. ASSUME NEW t \in Target PROVE sentTaskIds'[t] \in 0..SendBudget
      <4>1. ReturnedTo(t)' \subseteq Askers
        BY <1>6 DEF ReturnedTo
      <4>2. Cardinality(ReturnedTo(t)') <= Cardinality(Askers) /\ Cardinality(ReturnedTo(t)') \in Nat
        BY <4>1, <1>0, FS_Subset, FS_CardinalityType DEF CallsCounted
      <4> QED
        BY <4>2, <1>0, <1>10, BridgeAssumption DEF CallsCounted, BridgeRows
    <3> QED
      BY <3>1
  <2>2. sentTaskIds' = [t \in Target |-> sentTaskIds'[t]]
    BY <1>0 DEF BridgeRows
  <2> QED
    BY <2>1, <2>2
<1>13. BridgeRows'
  BY <1>0, <1>1, <1>5, <1>12 DEF BridgeRows
<1> QED
  BY <1>8, <1>9, <1>11, <1>13 DEF BridgeInv

LEMMA SuggestKeeps ==
  ASSUME BridgeInv, NEW c \in Call, NEW t \in Target \cup {NoTarget}, Suggest(c, t)
  PROVE  BridgeInv'
<1> DEFINE known == t \in discoveredSuggestTargets
           r == Suggestion(t, IF known THEN "waiting" ELSE "failed")
<1>0. BridgeRows /\ CallsCounted /\ DiscoveriesShow /\ SuggestionsSound
  BY DEF BridgeInv
<1>1. c \notin Finders /\ c \notin Askers
  BY RowsApart DEF Suggest, Finders, Askers
<1>2. r \in SuggestionRow
  BY DEF Suggestion, SuggestionRow
<1>3. call' = [call EXCEPT ![c] = r]
  BY DEF Suggest
<1>4. /\ r.state \in {"waiting", "failed"} /\ r.target = t
      /\ r.state = "waiting" => t \in discoveredSuggestTargets
  BY DEF Suggestion
<1>5. PICK new \in SuggestionRow : new = r
  BY <1>2
<1>5a. call' = [call EXCEPT ![c] = new]
  BY <1>3, <1>5
<1> HIDE DEF r
<1>6. /\ call' \in [Call -> {Unset} \cup DiscoveryRow \cup SuggestionRow]
      /\ call'[c] = new /\ \A d \in Call \ {c} : call'[d] = call[d]
      /\ Finders' = Finders /\ Askers' = Askers \cup {c}
      /\ \A u \in Target :
           ReturnedTo(u)' = ReturnedTo(u)
             \cup {d \in {c} : new.state = "returned" /\ new.target = u}
      /\ \A u \in Target : c \notin ReturnedTo(u)
  BY <1>0, <1>1, <1>5a, SuggestionReplaced
<1>7. \A u \in Target : ReturnedTo(u)' = ReturnedTo(u)
  BY <1>4, <1>5, <1>6
<1>8. sendCalls' = sendCalls + 1 /\ sendCalls < SendBudget /\ discoveryCompleted
  BY DEF Suggest, Counted
<1>9. UNCHANGED <<open, discoveryCalls, discoveryCompleted, discoveredSuggestTargets, sentTaskIds, stored>>
  BY DEF Suggest
<1>10. BridgeRows'
  <2>1. sendCalls' \in 0..SendBudget
    BY <1>0, <1>8, BridgeAssumption DEF BridgeRows
  <2> QED
    BY <2>1, <1>0, <1>6, <1>9 DEF BridgeRows
<1>11. CallsCounted'
  <2>1. IsFiniteSet(Askers') /\ Cardinality(Askers') = sendCalls'
    BY <1>0, <1>1, <1>6, <1>8, OneMore DEF CallsCounted
  <2> QED
    BY <2>1, <1>0, <1>6, <1>7, <1>9 DEF CallsCounted
<1>12. \A d \in Finders : call'[d] = call[d]
  BY <1>1, <1>6 DEF Finders
<1>13. \A d \in Askers : d # c /\ call'[d] = call[d]
  BY <1>1, <1>6 DEF Askers
<1>14. DiscoveriesShow'
  BY <1>0, <1>6, <1>9, <1>12 DEF DiscoveriesShow
<1>15. SuggestionsSound'
  <2>1. c \notin stored
    BY <1>0, <1>1 DEF SuggestionsSound
  <2>2. \A d \in stored : d \in Askers' /\ call'[d].target \in discoveredSuggestTargets
    BY <1>0, <1>6, <1>13 DEF SuggestionsSound
  <2>3. ASSUME NEW d \in Askers'
        PROVE /\ call'[d].state \in {"waiting", "arrived", "returned"} =>
                   call'[d].target \in discoveredSuggestTargets
              /\ call'[d].state \in {"arrived", "returned"} => d \in stored
              /\ call'[d].state = "waiting" => d \notin stored
    <3>1. CASE d = c
      BY <3>1, <2>1, <1>4, <1>5, <1>6
    <3>2. CASE d # c
      BY <3>2, <1>0, <1>6, <1>13 DEF SuggestionsSound
    <3> QED
      BY <3>1, <3>2
  <2> QED
    BY <2>2, <2>3, <1>8, <1>9 DEF SuggestionsSound
<1> QED
  BY <1>10, <1>11, <1>14, <1>15 DEF BridgeInv

LEMMA BridgeMoves == BridgeInv /\ [BridgeNext]_bridge_vars => BridgeInv'
<1> SUFFICES ASSUME BridgeInv, [BridgeNext]_bridge_vars PROVE BridgeInv'
  OBVIOUS
<1>0. BridgeRows
  BY DEF BridgeInv
<1>1. ASSUME NEW t \in Target, Publish(t) PROVE BridgeInv'
  BY <1>1, PublishKeeps
<1>2. ASSUME NEW c \in Call, Discover(c) PROVE BridgeInv'
  BY <1>2, DiscoverKeeps
<1>3. ASSUME NEW c \in Call, ReturnDiscovery(c) PROVE BridgeInv'
  <2>1. Is(c, "discover", "waiting") /\ call[c].read = Target
    BY <1>3 DEF ReturnDiscovery, Complete
  <2>2. c \in Finders
    BY <1>0, <2>1, BridgeSets
  <2>3. /\ call' = [call EXCEPT ![c].state = "returned"] /\ discoveryCompleted' = TRUE
        /\ UNCHANGED <<open, discoveryCalls, sendCalls, discoveredSuggestTargets, sentTaskIds, stored>>
    BY <1>3 DEF ReturnDiscovery
  <2> QED
    BY <2>1, <2>2, <2>3, DiscoveryEnds
<1>4. ASSUME NEW c \in Call, Arrive(c) PROVE BridgeInv'
  <2>1. c \in Askers /\ call[c].state = "waiting"
    <3>1. Is(c, "suggest", "waiting")
      BY <1>4 DEF Arrive
    <3> QED
      BY <1>0, <3>1, BridgeSets
  <2>2. UNCHANGED <<open, discoveryCalls, sendCalls, discoveryCompleted, discoveredSuggestTargets, sentTaskIds>>
    BY <1>4 DEF Arrive
  <2>3. CASE call' = [call EXCEPT ![c].state = "arrived"] /\ stored' = stored \cup {c}
    BY <2>1, <2>2, <2>3, SuggestionGoesOn
  <2>4. CASE call' = [call EXCEPT ![c].state = "refused"] /\ stored' = stored
    BY <2>1, <2>2, <2>4, SuggestionGoesOn
  <2> QED
    BY <1>4, <2>3, <2>4 DEF Arrive
<1>5. ASSUME NEW c \in Call, ReturnSuggestion(c) PROVE BridgeInv'
  <2>1. c \in Askers /\ call[c].state = "arrived"
    <3>1. Is(c, "suggest", "arrived")
      BY <1>5 DEF ReturnSuggestion, GivesAnswer
    <3> QED
      BY <1>0, <3>1, BridgeSets
  <2>2. /\ call' = [call EXCEPT ![c].state = "returned"]
        /\ sentTaskIds' = [sentTaskIds EXCEPT ![call[c].target] = @ + 1]
        /\ UNCHANGED <<open, discoveryCalls, sendCalls, discoveryCompleted, discoveredSuggestTargets, stored>>
    BY <1>5 DEF ReturnSuggestion
  <2> QED
    BY <2>1, <2>2, SuggestionGoesOn
<1>6. ASSUME NEW c \in Call, Throw(c) PROVE BridgeInv'
  <2>1. /\ call' = [call EXCEPT ![c].state = "failed"]
        /\ UNCHANGED <<open, discoveryCalls, sendCalls, discoveryCompleted, discoveredSuggestTargets,
                       sentTaskIds, stored>>
    BY <1>6 DEF Throw
  <2>2. CASE Is(c, "discover", "waiting")
    <3>1. c \in Finders
      BY <1>0, <2>2, BridgeSets
    <3> QED
      BY <2>1, <3>1, DiscoveryEnds
  <2>3. CASE \E state \in {"waiting", "arrived", "refused"} : Is(c, "suggest", state)
    <3>1. c \in Askers /\ call[c].state # "returned"
      BY <1>0, <2>3, BridgeSets
    <3> QED
      BY <2>1, <3>1, SuggestionGoesOn
  <2> QED
    BY <1>6, <2>2, <2>3 DEF Throw
<1>7. ASSUME NEW c \in Call, NEW t \in Target, ReadSummary(c, t) PROVE BridgeInv'
  BY <1>7, ReadSummaryKeeps
<1>8. ASSUME NEW c \in Call, NEW t \in Target \cup {NoTarget}, Suggest(c, t) PROVE BridgeInv'
  BY <1>8, SuggestKeeps
<1>9. ASSUME UNCHANGED bridge_vars PROVE BridgeInv'
  <2>1. Finders' = Finders /\ Askers' = Askers /\ \A u \in Target : ReturnedTo(u)' = ReturnedTo(u)
    BY <1>9 DEF bridge_vars, Finders, Askers, ReturnedTo
  <2> QED
    BY <2>1, <1>9
       DEF bridge_vars, BridgeInv, BridgeRows, CallsCounted, DiscoveriesShow, SuggestionsSound
<1> QED
  BY <1>1, <1>2, <1>3, <1>4, <1>5, <1>6, <1>7, <1>8, <1>9 DEF BridgeNext

(***************************************************************************)
(* What the invariant says of the budgets.                                 *)
(***************************************************************************)

\* The counters of a turn's bridge count its calls, and what it holds for discovered was
\* read, after every step and however many calls overlap, fail or never return.
THEOREM BridgeInductive == BridgeSpec => []BridgeInv
BY BridgeStarts, BridgeMoves, PTL DEF BridgeSpec

LEMMA BridgeBounds == BridgeInv => TurnKeepsBudget
<1> SUFFICES ASSUME BridgeInv PROVE TurnKeepsBudget
  OBVIOUS
<1>0. BridgeRows /\ CallsCounted /\ DiscoveriesShow /\ SuggestionsSound
  BY DEF BridgeInv
<1>1. Discoveries = Finders
  BY <1>0, BridgeSets
<1>2. BridgeTypeOK
  <2>1. \A r \in DiscoveryRow : r = DiscoveryResult(r.read, r.saw, r.state)
          /\ r.read \in SUBSET Target /\ r.saw \in SUBSET Target
          /\ r.state \in {"waiting", "returned", "failed"}
    BY DEF DiscoveryRow, DiscoveryResult
  <2>2. \A r \in SuggestionRow : r = Suggestion(r.target, r.state)
          /\ r.target \in Target \cup {NoTarget}
          /\ r.state \in {"waiting", "arrived", "refused", "returned", "failed"}
    BY DEF SuggestionRow, Suggestion
  <2>3. DiscoveryRow \subseteq
          {DiscoveryResult(r, s, st) : r \in SUBSET Target, s \in SUBSET Target,
                                 st \in {"waiting", "returned", "failed"}}
    BY <2>1
  <2>4. SuggestionRow \subseteq
          {Suggestion(t, st) : t \in Target \cup {NoTarget},
                               st \in {"waiting", "arrived", "refused", "returned", "failed"}}
    BY <2>2
  <2>5. call \in [Call -> {Unset}
          \cup {DiscoveryResult(r, s, st) : r \in SUBSET Target, s \in SUBSET Target,
                                      st \in {"waiting", "returned", "failed"}}
          \cup {Suggestion(t, st) : t \in Target \cup {NoTarget},
                                    st \in {"waiting", "arrived", "refused", "returned", "failed"}}]
    BY <2>3, <2>4, <1>0 DEF BridgeRows
  <2> QED
    BY <2>5, <1>0 DEF BridgeRows, BridgeTypeOK
<1>3. WithinBudgets
  <2>1. ASSUME NEW t \in Target PROVE Cardinality(Reads(t)) <= DiscoveryBudget
    <3>1. Reads(t) \subseteq Finders
      BY <1>1 DEF Reads
    <3>2. Cardinality(Reads(t)) <= Cardinality(Finders)
          /\ Cardinality(Reads(t)) \in Nat /\ Cardinality(Finders) \in Nat
      BY <3>1, <1>0, FS_Subset, FS_CardinalityType DEF CallsCounted
    <3> QED
      BY <3>2, <1>0, BridgeAssumption DEF CallsCounted, BridgeRows
  <2>2. stored \subseteq Askers
    BY <1>0 DEF SuggestionsSound
  <2>3. Cardinality(stored) <= Cardinality(Askers)
        /\ Cardinality(stored) \in Nat /\ Cardinality(Askers) \in Nat
    BY <2>2, <1>0, FS_Subset, FS_CardinalityType DEF CallsCounted
  <2>4. Cardinality(stored) <= SendBudget
    BY <2>3, <1>0, BridgeAssumption DEF CallsCounted, BridgeRows
  <2> QED
    BY <2>1, <2>4 DEF WithinBudgets
<1>4. DiscoveredFirst
  BY <1>0, <1>1 DEF DiscoveredFirst, SuggestionsSound, DiscoveriesShow
<1>5. UsageIsTrue
  <2>1. ASSUME NEW t \in Target PROVE sentTaskIds[t] <= Cardinality({c \in stored : call[c].target = t})
    <3> DEFINE taken == {c \in stored : call[c].target = t}
    <3>1. ReturnedTo(t) \subseteq taken
      BY <1>0 DEF ReturnedTo, SuggestionsSound
    <3>2. taken \subseteq Askers
      BY <1>0 DEF SuggestionsSound
    <3>3. IsFiniteSet(taken)
      BY <3>2, <1>0, FS_Subset DEF CallsCounted
    <3>4. Cardinality(ReturnedTo(t)) <= Cardinality(taken)
      BY <3>1, <3>3, FS_Subset
    <3> QED
      BY <3>4, <1>0 DEF CallsCounted
  <2> QED
    BY <2>1 DEF UsageIsTrue
<1> QED
  BY <1>2, <1>3, <1>4, <1>5 DEF TurnKeepsBudget

\* However many tool calls a turn runs at once, of however many tasks, its discoveries and
\* suggestions stay within the two budgets, nothing is sent to a task that was not found
\* open, and usage() claims no more than the coordinator took (createProactiveToolBridge).
THEOREM TurnsKeepTheirBudget == BridgeSpec => []TurnKeepsBudget
BY BridgeInductive, BridgeBounds, PTL

(***************************************************************************)
(* The workspace: its inductive invariant.                                 *)
(***************************************************************************)
Pair == Name \X Name
MemberRow == [goal : 1..MaxGoal, muted : BOOLEAN]
RouteRow == [version : Nat \ {0}, expires : Nat]
BookRow == [source : Name, target : Name, at : Time]
MailRow ==
  [id : Id, source : Name, target : Name, version : Nat, expires : Nat,
   decision : {"pending", "deferred", "decided"}]
ProcRow ==
  [name : Name, discovered : {Nothing} \cup Discovery, id : 0..MaxId,
   calls : SUBSET Discovering, sending : {Nothing} \cup [id : Id, target : Name]]

WsTypes ==
  /\ now \in Time /\ nextId \in 1..(MaxId + 1)
  /\ member \in [Name -> {Nothing} \cup MemberRow]
  /\ route \in [Pair -> {Nothing} \cup RouteRow]
  /\ summary \in [Pair -> 0..MaxGoal]
  /\ book \in [Id -> {Nothing} \cup BookRow]
  /\ mail \in Seq(MailRow)
  /\ conn \in [Name -> {Nothing} \cup Proc]
  /\ proc \in [Proc -> {Nothing} \cup ProcRow]

\* A summary tells a goal the member has, or had.
SummariesSound ==
  \A r \in Pair :
    /\ route[r] # Nothing => summary[r] # 0
    /\ summary[r] # 0 => r[2] \in Joined /\ summary[r] <= member[r[2]].goal

\* What a discovery has read, or has yet to read, is no older than it is.
GoalsSound(since, goals) == \A t \in DOMAIN goals : t \in DOMAIN since /\ since[t] <= goals[t]
CallSound(n, d) ==
  /\ GoalsSound(d.since, d.goals)
  /\ \A t \in d.left : t \in DOMAIN d.since /\ d.since[t] <= summary[<<n, t>>]

DiscoveriesSound ==
  \A p \in Proc : Alive(p) =>
    /\ \A d \in proc[p].calls : CallSound(proc[p].name, d)
    /\ proc[p].discovered # Nothing => GoalsSound(proc[p].discovered.since, proc[p].discovered.goals)

\* The row of a name has the pid of the process that lives under it.
Connected == \A p \in Proc : Alive(p) => conn[proc[p].name] = p

\* The ids that are drawn, and who holds them.
Draws(row) == row.calls # {} \/ row.discovered # Nothing
IdsDrawn ==
  /\ \A i \in Id : book[i] # Nothing => i < nextId /\ book[i].at <= now
  /\ \A p \in Proc : Alive(p) =>
       /\ proc[p].id < nextId
       /\ Draws(proc[p]) => proc[p].id # 0
       /\ p \in Mcp /\ Draws(proc[p]) => book[proc[p].id] = Nothing
  /\ \A p, q \in Proc : Alive(p) /\ Alive(q) /\ proc[p].id = proc[q].id /\ proc[p].id # 0 => p = q

\* A send under way is in the book, under the id the bridge will ask for, and not sent.
SendsBooked ==
  /\ \A p \in Proc : Alive(p) /\ proc[p].sending # Nothing =>
       /\ proc[p].id = proc[p].sending.id /\ book[proc[p].id] # Nothing
       /\ book[proc[p].id].source = proc[p].name
       /\ book[proc[p].id].target = proc[p].sending.target
       /\ \A k \in DOMAIN mail : mail[k].id # proc[p].id
  /\ \A k \in DOMAIN mail :
       /\ book[mail[k].id] # Nothing
       /\ book[mail[k].id].source = mail[k].source
       /\ book[mail[k].id].target = mail[k].target
  /\ \A k, l \in DOMAIN mail : mail[k].id = mail[l].id => k = l

\* What a source had booked in the window that ended at some time.
Booked(n, at) ==
  {i \in Id : book[i] # Nothing /\ book[i].source = n /\ book[i].at <= at /\ book[i].at + Window > at}
WindowsKept == \A n \in Name, at \in 0..now : Cardinality(Booked(n, at)) <= Budget

WsInv ==
  /\ WsTypes /\ SummariesSound /\ DiscoveriesSound /\ Connected
  /\ IdsDrawn /\ SendsBooked /\ WindowsKept

(***************************************************************************)
(* What is common to the steps of a process.                               *)
(***************************************************************************)
LEMMA WsConstants ==
  /\ Mcp \subseteq Proc /\ Nothing \notin Proc
  /\ Budget \in Nat /\ MaxId \in Nat /\ MaxTime \in Nat
  /\ MaxGoal \in Nat \ {0} /\ Window \in Nat \ {0} /\ Ttl \in Nat \ {0}
  /\ Margin \in Nat \ {0} /\ GrantLife \in Nat \ {0}
BY WorkspaceAssumption

LEMMA RowsAreSome ==
  /\ Nothing \notin ProcRow /\ Nothing \notin BookRow
  /\ Nothing \notin MemberRow /\ Nothing \notin RouteRow
  /\ Nothing \notin Discovery /\ Nothing \notin [id : Id, target : Name]
<1>1. DOMAIN Nothing = {"none"}
  BY DEF Nothing
<1>2. /\ \A r \in ProcRow : "name" \in DOMAIN r
      /\ \A r \in BookRow : "source" \in DOMAIN r
      /\ \A r \in MemberRow : "goal" \in DOMAIN r
      /\ \A r \in RouteRow : "version" \in DOMAIN r
      /\ \A r \in Discovery : "goals" \in DOMAIN r
      /\ \A r \in [id : Id, target : Name] : "id" \in DOMAIN r
  BY DEF ProcRow, BookRow, MemberRow, RouteRow, Discovery
<1> QED
  BY <1>1, <1>2

LEMMA ProcReplaced ==
  ASSUME WsTypes, NEW p \in Proc, NEW new \in {Nothing} \cup ProcRow,
         proc' = [proc EXCEPT ![p] = new]
  PROVE  /\ proc' \in [Proc -> {Nothing} \cup ProcRow]
         /\ proc'[p] = new /\ \A q \in Proc \ {p} : proc'[q] = proc[q]
BY DEF WsTypes

LEMMA LiveRow ==
  ASSUME WsTypes, NEW p \in Proc, Alive(p)
  PROVE  /\ proc[p] \in ProcRow /\ proc[p].name \in Name /\ proc[p].id \in 0..MaxId
         /\ proc[p].discovered \in {Nothing} \cup Discovery
         /\ proc[p].calls \in SUBSET Discovering
         /\ proc[p].sending \in {Nothing} \cup [id : Id, target : Name]
<1>1. proc[p] \in ProcRow
  BY DEF WsTypes, Alive
<1> QED
  BY <1>1 DEF ProcRow

\* A step of a process that touches neither the book nor what was sent.
LEMMA SendsUntouched ==
  ASSUME WsInv, NEW p \in Proc, NEW new \in {Nothing} \cup ProcRow,
         proc' = [proc EXCEPT ![p] = new],
         UNCHANGED <<now, book, mail, nextId>>,
         new # Nothing => new.sending = Nothing,
         new # Nothing =>
           \/ new.id = 0 /\ ~Draws(new)
           \/ Alive(p) /\ new.id = proc[p].id /\ (Draws(new) => Draws(proc[p]))
  PROVE  IdsDrawn' /\ SendsBooked' /\ WindowsKept'
<1>0. WsTypes /\ IdsDrawn /\ SendsBooked /\ WindowsKept
  BY DEF WsInv
<1>1. proc'[p] = new /\ \A q \in Proc \ {p} : proc'[q] = proc[q]
  BY <1>0, ProcReplaced
<1>2. nextId \in Nat \ {0}
  BY <1>0, WsConstants DEF WsTypes
<1>3. IdsDrawn'
  <2>1. \A q \in Proc : proc'[q] # Nothing /\ proc'[q].id # 0 =>
          Alive(q) /\ proc'[q].id = proc[q].id
    BY <1>1 DEF Alive
  <2>2. \A q \in Proc : proc'[q] # Nothing /\ Draws(proc'[q]) => Draws(proc[q]) /\ proc'[q].id = proc[q].id
    BY <1>1
  <2>3. ASSUME NEW q \in Proc, proc'[q] # Nothing
        PROVE /\ proc'[q].id < nextId
              /\ Draws(proc'[q]) => proc'[q].id # 0
              /\ q \in Mcp /\ Draws(proc'[q]) => book[proc'[q].id] = Nothing
    <3>1. CASE Alive(q) /\ proc'[q].id = proc[q].id
      BY <3>1, <2>2, <2>3, <1>0 DEF IdsDrawn
    <3>2. CASE q = p /\ new.id = 0 /\ ~Draws(new)
      BY <3>2, <1>1, <1>2
    <3> QED
      BY <3>1, <3>2, <2>3, <1>1 DEF Alive
  <2>4. \A q, o \in Proc : proc'[q] # Nothing /\ proc'[o] # Nothing
          /\ proc'[q].id = proc'[o].id /\ proc'[q].id # 0 => q = o
    BY <2>1, <1>0 DEF IdsDrawn
  <2> QED
    BY <2>3, <2>4, <1>0 DEF IdsDrawn, Alive
<1>4. SendsBooked'
  <2>1. \A q \in Proc : proc'[q] # Nothing /\ proc'[q].sending # Nothing => Alive(q) /\ proc'[q] = proc[q]
    BY <1>1 DEF Alive
  <2> QED
    BY <2>1, <1>0 DEF SendsBooked, Alive
<1>5. WindowsKept'
  BY <1>0 DEF WindowsKept, Booked
<1> QED
  BY <1>3, <1>4, <1>5

\* A step that changes what one process has discovered.
LEMMA SessionMoves ==
  ASSUME WsInv, NEW p \in Proc, NEW new \in {Nothing} \cup ProcRow,
         proc' = [proc EXCEPT ![p] = new],
         UNCHANGED <<member, route, summary>>,
         new # Nothing =>
           /\ \A d \in new.calls : CallSound(new.name, d)
           /\ new.discovered # Nothing => GoalsSound(new.discovered.since, new.discovered.goals)
  PROVE  SummariesSound' /\ DiscoveriesSound'
<1>0. WsTypes /\ SummariesSound /\ DiscoveriesSound
  BY DEF WsInv
<1>1. proc'[p] = new /\ \A q \in Proc \ {p} : proc'[q] = proc[q]
  BY <1>0, ProcReplaced
<1>2. SummariesSound'
  BY <1>0 DEF SummariesSound, Joined
<1>3. DiscoveriesSound'
  <2>1. ASSUME NEW q \in Proc, proc'[q] # Nothing
        PROVE /\ \A d \in proc'[q].calls : CallSound(proc'[q].name, d)
              /\ proc'[q].discovered # Nothing =>
                   GoalsSound(proc'[q].discovered.since, proc'[q].discovered.goals)
    BY <1>0, <1>1, <2>1 DEF DiscoveriesSound, Alive
  <2> QED
    BY <2>1 DEF DiscoveriesSound, Alive, CallSound
<1> QED
  BY <1>2, <1>3

\* A process that keeps its name keeps its row.
LEMMA NameKept ==
  ASSUME WsInv, NEW p \in Proc, NEW new \in {Nothing} \cup ProcRow,
         proc' = [proc EXCEPT ![p] = new], conn' = conn,
         new # Nothing => Alive(p) /\ new.name = proc[p].name
  PROVE  Connected'
<1>1. proc'[p] = new /\ \A q \in Proc \ {p} : proc'[q] = proc[q]
  BY ProcReplaced DEF WsInv
<1> QED
  BY <1>1 DEF WsInv, Connected, Alive

(***************************************************************************)
(* The workspace's invariant holds at the start and after every step.      *)
(***************************************************************************)
LEMMA WorkspaceStarts == WsInit => WsInv
<1> SUFFICES ASSUME WsInit PROVE WsInv
  OBVIOUS
<1>1. WsTypes
  <2>1. now \in Time /\ nextId \in 1..(MaxId + 1)
    BY WsConstants DEF WsInit, Time
  <2>2. mail \in Seq(MailRow)
    BY DEF WsInit
  <2>3. summary \in [Pair -> 0..MaxGoal]
    BY WsConstants DEF WsInit, Pair
  <2>4. route \in [Pair -> {Nothing} \cup RouteRow]
    BY DEF WsInit, Pair
  <2>5. /\ member \in [Name -> {Nothing} \cup MemberRow]
        /\ book \in [Id -> {Nothing} \cup BookRow]
        /\ conn \in [Name -> {Nothing} \cup Proc]
        /\ proc \in [Proc -> {Nothing} \cup ProcRow]
    BY DEF WsInit
  <2> QED
    BY <2>1, <2>2, <2>3, <2>4, <2>5 DEF WsTypes
<1>2. \A p \in Proc : ~Alive(p)
  BY DEF WsInit, Alive
<1>3. \A r \in Pair : route[r] = Nothing /\ summary[r] = 0
  BY DEF WsInit, Pair
<1>4. \A i \in Id : book[i] = Nothing
  BY DEF WsInit
<1>5. DOMAIN mail = {}
  BY DEF WsInit
<1>6. \A n \in Name, at \in 0..now : Cardinality(Booked(n, at)) <= Budget
  <2>1. \A n \in Name, at \in 0..now : Booked(n, at) = {}
    BY <1>4 DEF Booked
  <2> QED
    BY <2>1, FS_EmptySet, WsConstants
<1> QED
  BY <1>1, <1>2, <1>3, <1>4, <1>5, <1>6
     DEF WsInv, SummariesSound, DiscoveriesSound, Connected, IdsDrawn, SendsBooked, WindowsKept

\* The members change and nothing else: nobody leaves, and no goal goes back.
LEMMA MembersMove ==
  ASSUME WsInv, member' \in [Name -> {Nothing} \cup MemberRow],
         \A n \in Joined : n \in Joined' /\ member[n].goal <= member'[n].goal,
         UNCHANGED <<now, route, summary, book, mail, conn, proc, nextId>>
  PROVE  WsInv'
<1>0. WsTypes /\ SummariesSound /\ DiscoveriesSound /\ Connected /\ IdsDrawn /\ SendsBooked /\ WindowsKept
  BY DEF WsInv
<1>1. WsTypes'
  BY <1>0 DEF WsTypes
<1>2. SummariesSound'
  <2>1. ASSUME NEW r \in Pair, summary[r] # 0
        PROVE r[2] \in Joined' /\ summary[r] <= member'[r[2]].goal
    <3>1. r[2] \in Joined /\ summary[r] <= member[r[2]].goal
      BY <1>0, <2>1 DEF SummariesSound
    <3>2. r[2] \in Joined' /\ member[r[2]].goal <= member'[r[2]].goal
      BY <3>1
    <3>3. r[2] \in Name
      BY DEF Pair
    <3>4. member[r[2]] \in MemberRow /\ member'[r[2]] \in MemberRow
      BY <3>1, <3>2, <3>3, <1>0 DEF WsTypes, Joined
    <3>5. member[r[2]].goal \in Int /\ member'[r[2]].goal \in Int
      BY <3>4 DEF MemberRow
    <3>6. summary[r] \in Int
      BY <1>0 DEF WsTypes
    <3> QED
      BY <3>1, <3>2, <3>5, <3>6
  <2> QED
    BY <2>1, <1>0 DEF SummariesSound
<1>3. DiscoveriesSound'
  BY <1>0 DEF DiscoveriesSound, CallSound, Alive
<1>4. Connected' /\ IdsDrawn' /\ SendsBooked' /\ WindowsKept'
  BY <1>0 DEF Connected, IdsDrawn, SendsBooked, WindowsKept, Booked, Alive
<1> QED
  BY <1>1, <1>2, <1>3, <1>4 DEF WsInv

LEMMA MemberStepsKeep ==
  ASSUME WsInv, NEW n \in Name,
         \/ Join(n)
         \/ Checkpoint(n)
         \/ \E muted \in BOOLEAN : Mute(n, muted)
  PROVE  WsInv'
<1>0. member \in [Name -> {Nothing} \cup MemberRow]
  BY DEF WsInv, WsTypes
<1>1. \A m \in Joined :
        /\ m \in Name /\ member[m] \in MemberRow
        /\ member[m].goal \in 1..MaxGoal /\ member[m].goal \in Int
  <2>1. \A m \in Joined : m \in Name /\ member[m] \in MemberRow
    BY <1>0 DEF Joined
  <2>2. \A r \in MemberRow : r.goal \in 1..MaxGoal /\ r.goal \in Int
    BY WsConstants DEF MemberRow
  <2> QED
    BY <2>1, <2>2
<1>a. \A m \in Name : member'[m] \in MemberRow => m \in Joined'
  BY RowsAreSome DEF Joined
<1>2. CASE Join(n)
  <2>1. [goal |-> 1, muted |-> FALSE] \in MemberRow
    BY WsConstants DEF MemberRow
  <2>2. member' \in [Name -> {Nothing} \cup MemberRow]
    BY <2>1, <1>0, <1>2 DEF Join
  <2>3. \A m \in Joined : member'[m] = member[m]
    BY <1>0, <1>2 DEF Join, Joined
  <2>4. \A m \in Joined : m \in Joined' /\ member[m].goal <= member'[m].goal
    BY <2>3, <1>1, <1>a
  <2> QED
    BY <2>2, <2>4, <1>2, MembersMove DEF Join
<1>3. CASE Checkpoint(n)
  <2>0. n \in Joined /\ member[n].goal < MaxGoal /\ member' = [member EXCEPT ![n].goal = @ + 1]
    BY <1>3 DEF Checkpoint
  <2>1. PICK new \in MemberRow : new = [member[n] EXCEPT !.goal = @ + 1]
    <3>1. member[n].goal + 1 \in 1..MaxGoal
      BY <2>0, <1>1, WsConstants
    <3>2. [goal |-> member[n].goal + 1, muted |-> member[n].muted] \in MemberRow
      BY <2>0, <3>1, <1>1 DEF MemberRow
    <3>3. [member[n] EXCEPT !.goal = @ + 1] = [goal |-> member[n].goal + 1, muted |-> member[n].muted]
      BY <2>0, <1>1 DEF MemberRow
    <3> QED
      BY <3>2, <3>3
  <2>2. new.goal = member[n].goal + 1
    BY <2>1, <2>0, <1>1 DEF MemberRow
  <2>3. member' = [member EXCEPT ![n] = new]
    BY <2>0, <2>1
  <2>4. member' \in [Name -> {Nothing} \cup MemberRow]
    BY <2>3, <1>0
  <2>5. \A m \in Joined : member'[m] = IF m = n THEN new ELSE member[m]
    BY <2>3, <1>0, <1>1
  <2>6. \A m \in Joined : m \in Joined' /\ member[m].goal <= member'[m].goal
    BY <2>2, <2>5, <1>1, <1>a
  <2> QED
    BY <2>4, <2>6, <1>3, MembersMove DEF Checkpoint
<1>4. ASSUME NEW muted \in BOOLEAN, Mute(n, muted) PROVE WsInv'
  <2>0. n \in Joined /\ member' = [member EXCEPT ![n].muted = muted]
    BY <1>4 DEF Mute
  <2>1. PICK new \in MemberRow : new = [member[n] EXCEPT !.muted = muted]
    BY <2>0, <1>1 DEF MemberRow
  <2>2. new.goal = member[n].goal
    BY <2>1, <2>0, <1>1 DEF MemberRow
  <2>3. member' = [member EXCEPT ![n] = new]
    BY <2>0, <2>1
  <2>4. member' \in [Name -> {Nothing} \cup MemberRow]
    BY <2>3, <1>0
  <2>5. \A m \in Joined : member'[m] = IF m = n THEN new ELSE member[m]
    BY <2>3, <1>0, <1>1
  <2>6. \A m \in Joined : m \in Joined' /\ member[m].goal <= member'[m].goal
    BY <2>2, <2>5, <1>1, <1>a
  <2> QED
    BY <2>4, <2>6, <1>4, MembersMove DEF Mute
<1> QED
  BY <1>2, <1>3, <1>4

\* A process that begins or ends.
LEMMA ClosureIsARow ==
  \A n \in Name :
    /\ Closure(n) \in ProcRow /\ Closure(n).name = n /\ Closure(n).sending = Nothing
    /\ Closure(n).id = 0 /\ ~Draws(Closure(n))
    /\ Closure(n).calls = {} /\ Closure(n).discovered = Nothing
BY WsConstants DEF Closure, ProcRow, Draws

LEMMA LifeStepsKeep ==
  ASSUME WsInv, NEW p \in Proc,
         \/ \E n \in Name : Connect(p, n)
         \/ Disconnect(p)
         \/ Crash(p)
         \/ NewTurn(p)
  PROVE  WsInv'
<1>0. WsTypes /\ Connected
  BY DEF WsInv
<1>1. \A new \in {Nothing} \cup ProcRow :
        /\ proc' = [proc EXCEPT ![p] = new]
        /\ new = Nothing \/ \E n \in Name : new = Closure(n)
        /\ UNCHANGED <<now, member, route, summary, book, mail, nextId>>
        /\ conn' \in [Name -> {Nothing} \cup Proc]
        /\ Connected'
        => WsInv'
  <2> SUFFICES ASSUME NEW new \in {Nothing} \cup ProcRow,
                      proc' = [proc EXCEPT ![p] = new],
                      \/ new = Nothing
                      \/ \E n \in Name : new = Closure(n),
                      UNCHANGED <<now, member, route, summary, book, mail, nextId>>,
                      conn' \in [Name -> {Nothing} \cup Proc], Connected'
               PROVE  WsInv'
    OBVIOUS
  <2>1. new # Nothing => new.sending = Nothing /\ new.id = 0 /\ ~Draws(new)
          /\ new.calls = {} /\ new.discovered = Nothing
    BY ClosureIsARow
  <2>2. IdsDrawn' /\ SendsBooked' /\ WindowsKept'
    BY <2>1, SendsUntouched
  <2>3. SummariesSound' /\ DiscoveriesSound'
    BY <2>1, SessionMoves
  <2>4. WsTypes'
    BY <1>0, ProcReplaced DEF WsTypes
  <2> QED
    BY <2>2, <2>3, <2>4 DEF WsInv
<1>2. ASSUME NEW n \in Name, Connect(p, n) PROVE WsInv'
  <2>1. proc' = [proc EXCEPT ![p] = Closure(n)] /\ conn' = [conn EXCEPT ![n] = p]
    BY <1>2 DEF Connect
  <2>2. Closure(n) \in ProcRow
    BY ClosureIsARow
  <2>3. PICK new \in {Nothing} \cup ProcRow : new = Closure(n)
    BY <2>2
  <2>4. proc' = [proc EXCEPT ![p] = new]
    BY <2>1, <2>3
  <2>5. proc'[p] = new /\ \A q \in Proc \ {p} : proc'[q] = proc[q]
    BY <1>0, <2>4, ProcReplaced
  <2>6. conn' \in [Name -> {Nothing} \cup Proc]
    BY <1>0, <2>1 DEF WsTypes
  <2>7. ASSUME NEW q \in Proc, proc'[q] # Nothing PROVE conn'[proc'[q].name] = q
    <3>1. CASE q = p
      BY <3>1, <2>1, <2>3, <2>5, ClosureIsARow, <1>0 DEF WsTypes
    <3>2. CASE q # p
      <4>1. Alive(q) /\ proc'[q] = proc[q] /\ conn[proc[q].name] = q
        BY <3>2, <2>5, <2>7, <1>0 DEF Alive, Connected
      <4>2. proc[q].name # n
        <5>1. SUFFICES ASSUME proc[q].name = n PROVE FALSE
          OBVIOUS
        <5>2. conn[n] = q
          BY <4>1, <5>1
        <5>3. conn[n] # Nothing
          BY <5>2, WsConstants
        <5>4. ~Alive(conn[n])
          BY <5>3, <1>2 DEF Connect, Connectable
        <5> QED
          BY <4>1, <5>2, <5>4
      <4>3. proc[q].name \in Name
        BY <4>1, <1>0, LiveRow
      <4> QED
        BY <4>1, <4>2, <4>3, <2>1, <1>0 DEF WsTypes
    <3> QED
      BY <3>1, <3>2
  <2>8. Connected'
    BY <2>7 DEF Connected, Alive
  <2>9. UNCHANGED <<now, member, route, summary, book, mail, nextId>>
    BY <1>2 DEF Connect
  <2> QED
    BY <1>1, <2>3, <2>4, <2>6, <2>8, <2>9
<1>3. CASE Disconnect(p)
  <2> DEFINE n == proc[p].name
  <2>0. Alive(p)
    BY <1>3 DEF Disconnect, Runs
  <2>1. proc' = [proc EXCEPT ![p] = Nothing]
        /\ conn' = [conn EXCEPT ![n] = IF @ = p THEN Nothing ELSE @]
        /\ UNCHANGED <<now, member, route, summary, book, mail, nextId>>
    BY <1>3 DEF Disconnect
  <2>2. n \in Name
    BY <1>0, <2>0, LiveRow
  <2>3. conn' \in [Name -> {Nothing} \cup Proc]
    BY <1>0, <2>1, <2>2 DEF WsTypes
  <2>4. proc'[p] = Nothing /\ \A q \in Proc \ {p} : proc'[q] = proc[q]
    BY <1>0, <2>1, ProcReplaced
  <2>5. ASSUME NEW q \in Proc, proc'[q] # Nothing PROVE conn'[proc'[q].name] = q
    <3>1. q # p /\ Alive(q) /\ proc'[q] = proc[q] /\ conn[proc[q].name] = q
      BY <2>4, <2>5, <1>0 DEF Alive, Connected
    <3>2. conn[n] = p
      BY <2>0, <1>0 DEF Connected
    <3>3. proc[q].name # n
      BY <3>1, <3>2
    <3>4. proc[q].name \in Name
      BY <3>1, <1>0, LiveRow
    <3>5. conn'[proc[q].name] = conn[proc[q].name]
      BY <3>3, <3>4, <2>1, <1>0 DEF WsTypes
    <3> QED
      BY <3>1, <3>5
  <2>6. Connected'
    BY <2>5 DEF Connected, Alive
  <2> QED
    BY <1>1, <2>1, <2>3, <2>6
<1>4. CASE Crash(p)
  <2>1. proc' = [proc EXCEPT ![p] = Nothing] /\ conn' = conn
        /\ UNCHANGED <<now, member, route, summary, book, mail, nextId>>
    BY <1>4 DEF Crash
  <2>2. Connected' /\ conn' \in [Name -> {Nothing} \cup Proc]
    BY <2>1, <1>0, NameKept DEF WsTypes
  <2> QED
    BY <1>1, <2>1, <2>2
<1>5. CASE NewTurn(p)
  <2>1. Alive(p) /\ proc' = [proc EXCEPT ![p] = Closure(proc[p].name)] /\ conn' = conn
        /\ UNCHANGED <<now, member, route, summary, book, mail, nextId>>
    BY <1>5 DEF NewTurn, Runs
  <2>2. proc[p].name \in Name
    BY <2>1, <1>0, LiveRow
  <2>3. PICK n \in Name : n = proc[p].name
    BY <2>2
  <2>4. PICK new \in {Nothing} \cup ProcRow : new = Closure(n)
    BY ClosureIsARow
  <2>5. proc' = [proc EXCEPT ![p] = new] /\ new.name = proc[p].name
    BY <2>1, <2>3, <2>4, ClosureIsARow
  <2>6. Connected' /\ conn' \in [Name -> {Nothing} \cup Proc]
    BY <2>1, <2>5, <1>0, NameKept DEF WsTypes
  <2> QED
    BY <1>1, <2>1, <2>4, <2>5, <2>6
<1> QED
  BY <1>2, <1>3, <1>4, <1>5

LEMMA TickKeepsWorkspace ==
  ASSUME WsInv, Tick
  PROVE  WsInv'
<1>0. WsTypes /\ SummariesSound /\ DiscoveriesSound /\ Connected /\ IdsDrawn /\ SendsBooked /\ WindowsKept
  BY DEF WsInv
<1>1. now' = now + 1 /\ now < MaxTime
      /\ UNCHANGED <<member, route, summary, book, mail, conn, proc, nextId>>
  BY DEF Tick
<1>2. now \in Nat /\ now' \in Time
  BY <1>0, <1>1, WsConstants DEF WsTypes, Time
<1>3. WsTypes'
  BY <1>0, <1>1, <1>2 DEF WsTypes
<1>4. SummariesSound' /\ Connected' /\ SendsBooked'
  BY <1>0, <1>1 DEF SummariesSound, Connected, SendsBooked, Joined, Alive
<1>5. DiscoveriesSound'
  BY <1>0, <1>1 DEF DiscoveriesSound, CallSound, Alive
<1>6. \A i \in Id : book[i] # Nothing =>
        book[i].at <= now /\ book[i].at \in Nat
  <2>1. \A r \in BookRow : r.at \in Nat
    BY WsConstants DEF BookRow, Time
  <2>2. \A i \in Id : book[i] # Nothing => book[i] \in BookRow
    BY <1>0 DEF WsTypes
  <2> QED
    BY <2>1, <2>2, <1>0 DEF IdsDrawn
<1>7. IdsDrawn'
  <2>1. \A i \in Id : book[i] # Nothing => book[i].at <= now'
    BY <1>1, <1>2, <1>6
  <2> QED
    BY <2>1, <1>0, <1>1 DEF IdsDrawn, Alive
<1>8. WindowsKept'
  <2>1. ASSUME NEW n \in Name, NEW at \in 0..now' PROVE Cardinality(Booked(n, at)') <= Budget
    <3>1. Booked(n, at)' = Booked(n, at)
      BY <1>1 DEF Booked
    <3>2. CASE at <= now
      BY <3>1, <3>2, <1>0, <1>2 DEF WindowsKept
    <3>3. CASE at = now + 1
      <4>1. Booked(n, at) \subseteq Booked(n, now)
        BY <3>3, <1>2, <1>6, WsConstants DEF Booked
      <4>2. IsFiniteSet(Booked(n, now))
        <5>1. IsFiniteSet(Id)
          BY FS_Interval, WsConstants DEF Id
        <5>2. Booked(n, now) \subseteq Id
          BY DEF Booked
        <5> QED
          BY <5>1, <5>2, FS_Subset
      <4>3. Cardinality(Booked(n, now)) <= Budget
        BY <1>0, <1>2 DEF WindowsKept
      <4>4. Cardinality(Booked(n, at)) <= Cardinality(Booked(n, now))
            /\ Cardinality(Booked(n, at)) \in Nat /\ Cardinality(Booked(n, now)) \in Nat
        BY <4>1, <4>2, FS_Subset, FS_CardinalityType
      <4> QED
        BY <3>1, <4>3, <4>4, WsConstants
    <3> QED
      BY <3>2, <3>3, <1>1, <1>2
  <2> QED
    BY <2>1 DEF WindowsKept
<1> QED
  BY <1>3, <1>4, <1>5, <1>7, <1>8 DEF WsInv

(***************************************************************************)
(* The steps of a discovery.                                               *)
(***************************************************************************)
LEMMA GoalsAreGoals ==
  /\ \A g \in Goals : DOMAIN g \subseteq Name /\ \A t \in DOMAIN g : g[t] \in 1..MaxGoal /\ g[t] \in Int
  /\ \A S \in SUBSET Name : \A g \in [S -> 1..MaxGoal] : g \in Goals
  /\ << >> \in Goals
<1>1. \A g \in Goals : DOMAIN g \subseteq Name /\ \A t \in DOMAIN g : g[t] \in 1..MaxGoal /\ g[t] \in Int
  BY DEF Goals
<1>2. \A S \in SUBSET Name : \A g \in [S -> 1..MaxGoal] : g \in Goals
  BY DEF Goals
<1>3. << >> \in [{} -> 1..MaxGoal]
  <2>1. << >> \in [1..0 -> 1..MaxGoal]
    OBVIOUS
  <2>2. 1..0 = {}
    OBVIOUS
  <2> QED
    BY <2>1, <2>2, Zenon
<1> QED
  BY <1>1, <1>2, <1>3

LEMMA CallRows ==
  \A d \in Discovering :
    /\ d.id \in Id /\ d.left \in SUBSET Name /\ d.goals \in Goals /\ d.since \in Goals
BY DEF Discovering

\* A discovery goes on in its process, which does nothing else.
LEMMA DiscoveryMoves ==
  ASSUME WsInv, NEW p \in Proc, Runs(p), NEW new \in ProcRow,
         proc' = [proc EXCEPT ![p] = new],
         new.name = proc[p].name, new.id = proc[p].id, new.sending = Nothing,
         Draws(new) => Draws(proc[p]),
         \A d \in new.calls : CallSound(new.name, d),
         new.discovered # Nothing => GoalsSound(new.discovered.since, new.discovered.goals),
         UNCHANGED <<now, member, route, summary, book, mail, conn, nextId>>
  PROVE  WsInv'
<1>0. WsTypes
  BY DEF WsInv
<1>1. Alive(p)
  BY DEF Runs
<1>2. IdsDrawn' /\ SendsBooked' /\ WindowsKept'
  BY <1>1, SendsUntouched
<1>3. SummariesSound' /\ DiscoveriesSound'
  BY SessionMoves
<1>4. Connected'
  BY <1>1, NameKept
<1>5. WsTypes'
  BY <1>0, ProcReplaced DEF WsTypes
<1> QED
  BY <1>2, <1>3, <1>4, <1>5 DEF WsInv

\* The fields of a process row that is changed.
LEMMA ProcRowFields ==
  ASSUME NEW row \in ProcRow
  PROVE  /\ \A calls \in SUBSET Discovering :
              LET new == [row EXCEPT !.calls = calls] IN
              /\ new \in ProcRow /\ new.calls = calls
              /\ new.name = row.name /\ new.discovered = row.discovered
              /\ new.id = row.id /\ new.sending = row.sending
         /\ \A id \in 0..MaxId :
              LET new == [row EXCEPT !.id = id] IN
              /\ new \in ProcRow /\ new.id = id
              /\ new.name = row.name /\ new.discovered = row.discovered
              /\ new.calls = row.calls /\ new.sending = row.sending
         /\ \A discovered \in {Nothing} \cup Discovery :
              LET new == [row EXCEPT !.discovered = discovered] IN
              /\ new \in ProcRow /\ new.discovered = discovered
              /\ new.name = row.name /\ new.id = row.id
              /\ new.calls = row.calls /\ new.sending = row.sending
         /\ \A sending \in {Nothing} \cup [id : Id, target : Name] :
              LET new == [row EXCEPT !.sending = sending] IN
              /\ new \in ProcRow /\ new.sending = sending
              /\ new.name = row.name /\ new.id = row.id
              /\ new.calls = row.calls /\ new.discovered = row.discovered
<1>1. /\ row.name \in Name /\ row.discovered \in {Nothing} \cup Discovery /\ row.id \in 0..MaxId
      /\ row.calls \in SUBSET Discovering /\ row.sending \in {Nothing} \cup [id : Id, target : Name]
  BY DEF ProcRow
<1> QED
  BY <1>1 DEF ProcRow

LEMMA ReadPeerKeeps ==
  ASSUME WsInv, NEW p \in Proc, Alive(p), NEW d \in proc[p].calls, NEW t \in d.left,
         ReadPeer(p, d, t)
  PROVE  WsInv'
<1>0. WsTypes /\ SummariesSound /\ DiscoveriesSound
  BY DEF WsInv
<1>1. Runs(p) /\ UNCHANGED <<now, member, route, summary, book, mail, conn, nextId>>
  BY DEF ReadPeer
<1>2. proc[p] \in ProcRow /\ proc[p].name \in Name /\ proc[p].calls \in SUBSET Discovering
  BY <1>0, LiveRow
<1>3. PICK n \in Name : n = proc[p].name
  BY <1>2
<1>4. d \in Discovering /\ t \in Name
  BY <1>2, CallRows
<1> DEFINE goals == [m \in DOMAIN d.goals \cup {t} |-> IF m = t THEN summary[<<n, t>>] ELSE d.goals[m]]
           read == [d EXCEPT !.left = @ \ {t},
                             !.goals = [m \in DOMAIN @ \cup {t} |->
                               IF m = t THEN summary[<<n, t>>] ELSE d.goals[m]]]
           calls == IF Granted(n, t) THEN (proc[p].calls \ {d}) \cup {read} ELSE proc[p].calls \ {d}
<1>5. proc' = [proc EXCEPT ![p].calls = calls]
  BY <1>3 DEF ReadPeer
<1>6. \A e \in proc[p].calls : CallSound(n, e)
  BY <1>0, <1>3 DEF DiscoveriesSound
<1>7. Granted(n, t) => read \in Discovering /\ CallSound(n, read)
  <2> SUFFICES ASSUME Granted(n, t) PROVE read \in Discovering /\ CallSound(n, read)
    OBVIOUS
  <2>1. <<n, t>> \in Pair
    BY <1>4 DEF Pair
  <2>2. summary[<<n, t>>] \in 1..MaxGoal
    BY <2>1, <1>0, WsConstants DEF Granted, SummariesSound, WsTypes
  <2>3. goals \in [DOMAIN d.goals \cup {t} -> 1..MaxGoal]
    BY <2>2, <1>4, CallRows, GoalsAreGoals
  <2>4. goals \in Goals
    BY <2>3, <1>4, CallRows, GoalsAreGoals
  <2>5. read = [id |-> d.id, left |-> d.left \ {t}, goals |-> goals, since |-> d.since]
    <3>1. PICK mid \in Discovering : mid = [d EXCEPT !.left = @ \ {t}]
      BY <1>4 DEF Discovering
    <3>2. mid.id = d.id /\ mid.left = d.left \ {t} /\ mid.goals = d.goals /\ mid.since = d.since
      BY <1>4, <3>1 DEF Discovering
    <3>3. read = [mid EXCEPT !.goals = goals]
      BY <3>1
    <3> HIDE DEF read, goals
    <3>4. [mid EXCEPT !.goals = goals] =
            [id |-> mid.id, left |-> mid.left, goals |-> goals, since |-> mid.since]
      BY DEF Discovering
    <3> QED
      BY <3>2, <3>3, <3>4
  <2>6. read \in Discovering
    <3>1. [id |-> d.id, left |-> d.left \ {t}, goals |-> goals, since |-> d.since] \in Discovering
      BY <2>4, <1>4, CallRows DEF Discovering
    <3> QED
      BY <2>5, <3>1
  <2>7. CallSound(n, d)
    BY <1>6
  <2>8. GoalsSound(d.since, goals)
    BY <2>7 DEF CallSound, GoalsSound
  <2>9. read.since = d.since /\ read.goals = goals /\ read.left = d.left \ {t}
    BY <2>5
  <2> HIDE DEF read, goals
  <2>10. CallSound(n, read)
    BY <2>7, <2>8, <2>9 DEF CallSound
  <2> QED
    BY <2>6, <2>10
<1>8. calls \in SUBSET Discovering /\ \A e \in calls : CallSound(n, e)
  <2> HIDE DEF read
  <2> QED
    BY <1>2, <1>6, <1>7
<1>9. PICK now_calls \in SUBSET Discovering : now_calls = calls
  BY <1>8
<1> HIDE DEF calls
<1>10. PICK new \in ProcRow : new = [proc[p] EXCEPT !.calls = now_calls]
  BY <1>2, ProcRowFields
<1>11. proc' = [proc EXCEPT ![p] = new]
  BY <1>5, <1>9, <1>10
<1>12. /\ new.calls = now_calls /\ new.name = proc[p].name /\ new.discovered = proc[p].discovered
       /\ new.id = proc[p].id /\ new.sending = proc[p].sending
  BY <1>2, <1>10, ProcRowFields
<1>13. Draws(proc[p])
  BY DEF Draws
<1>14. new.sending = Nothing
  BY <1>1, <1>12 DEF Runs
<1>15. new.discovered # Nothing => GoalsSound(new.discovered.since, new.discovered.goals)
  BY <1>0, <1>12 DEF DiscoveriesSound
<1> QED
  BY <1>1, <1>3, <1>8, <1>9, <1>11, <1>12, <1>13, <1>14, <1>15, DiscoveryMoves

LEMMA DiscoveredKeeps ==
  ASSUME WsInv, NEW p \in Proc, Alive(p), NEW d \in proc[p].calls, Discovered(p, d)
  PROVE  WsInv'
<1>0. WsTypes /\ SummariesSound /\ DiscoveriesSound
  BY DEF WsInv
<1>1. Runs(p) /\ UNCHANGED <<now, member, route, summary, book, mail, conn, nextId>>
  BY DEF Discovered
<1>2. proc[p] \in ProcRow /\ proc[p].name \in Name /\ proc[p].calls \in SUBSET Discovering
  BY <1>0, LiveRow
<1>3. d \in Discovering
  BY <1>2
<1> DEFINE bridge == IF d.goals = << >> THEN Nothing ELSE [goals |-> d.goals, since |-> d.since]
<1>4. PICK discovered \in {Nothing} \cup Discovery : discovered = bridge
  BY <1>3, CallRows DEF Discovery
<1>5. discovered # Nothing => discovered.goals = d.goals /\ discovered.since = d.since
  BY <1>4
<1>6. PICK calls \in SUBSET Discovering : calls = proc[p].calls \ {d}
  BY <1>2
<1>7. proc' = [proc EXCEPT ![p].calls = calls, ![p].discovered = discovered]
  BY <1>4, <1>6 DEF Discovered
<1>8. PICK mid \in ProcRow : mid = [proc[p] EXCEPT !.calls = calls]
  BY <1>2, ProcRowFields
<1>9. PICK new \in ProcRow : new = [mid EXCEPT !.discovered = discovered]
  BY ProcRowFields
<1>10. proc' = [proc EXCEPT ![p] = new]
  BY <1>7, <1>8, <1>9, <1>0 DEF WsTypes
<1>11. /\ mid.calls = calls /\ mid.name = proc[p].name
       /\ mid.id = proc[p].id /\ mid.sending = proc[p].sending
  BY <1>2, <1>8, ProcRowFields
<1>12. /\ new.calls = calls /\ new.name = proc[p].name /\ new.discovered = discovered
       /\ new.id = proc[p].id /\ new.sending = proc[p].sending
  BY <1>9, <1>11, ProcRowFields
<1>13. Draws(proc[p])
  BY DEF Draws
<1>14. new.sending = Nothing
  BY <1>1, <1>12 DEF Runs
<1>15. \A e \in proc[p].calls : CallSound(new.name, e)
  BY <1>0, <1>12 DEF DiscoveriesSound
<1>16. new.discovered # Nothing => GoalsSound(new.discovered.since, new.discovered.goals)
  BY <1>5, <1>12, <1>15 DEF CallSound
<1> QED
  BY <1>1, <1>6, <1>10, <1>12, <1>13, <1>14, <1>15, <1>16, DiscoveryMoves

\* The id a discovery draws is not in the book and no other process holds it.
LEMMA IdIsFresh ==
  ASSUME WsInv, NEW p \in Proc, Runs(p), NEW new \in ProcRow,
         proc' = [proc EXCEPT ![p] = new],
         nextId <= MaxId, nextId' = nextId + 1, new.id = nextId, new.sending = Nothing,
         UNCHANGED <<now, book, mail>>
  PROVE  IdsDrawn' /\ SendsBooked' /\ WindowsKept'
<1>0. WsTypes /\ IdsDrawn /\ SendsBooked /\ WindowsKept
  BY DEF WsInv
<1>1. proc'[p] = new /\ \A q \in Proc \ {p} : proc'[q] = proc[q]
  BY <1>0, ProcReplaced
<1>2. nextId \in Id /\ nextId \in Nat \ {0}
  BY <1>0, WsConstants DEF WsTypes, Id
<1>3. \A q \in Proc : Alive(q) => proc[q].id < nextId /\ proc[q].id \in Int
  BY <1>0, LiveRow DEF IdsDrawn
<1>4. book[nextId] = Nothing
  BY <1>0, <1>2 DEF IdsDrawn
<1>5. IdsDrawn'
  <2>1. \A i \in Id : book[i] # Nothing => i < nextId + 1 /\ book[i].at <= now
    BY <1>0, <1>2 DEF IdsDrawn, Id
  <2>2. ASSUME NEW q \in Proc, proc'[q] # Nothing
        PROVE /\ proc'[q].id < nextId + 1
              /\ Draws(proc'[q]) => proc'[q].id # 0
              /\ q \in Mcp /\ Draws(proc'[q]) => book[proc'[q].id] = Nothing
    <3>1. CASE q = p
      BY <3>1, <1>1, <1>2, <1>4
    <3>2. CASE q # p
      BY <3>2, <2>2, <1>0, <1>1, <1>2, <1>3 DEF IdsDrawn, Alive
    <3> QED
      BY <3>1, <3>2
  <2>3. ASSUME NEW q \in Proc, NEW o \in Proc, proc'[q] # Nothing, proc'[o] # Nothing,
               proc'[q].id = proc'[o].id, proc'[q].id # 0
        PROVE q = o
    BY <2>3, <1>0, <1>1, <1>2, <1>3 DEF IdsDrawn, Alive
  <2> QED
    BY <2>1, <2>2, <2>3 DEF IdsDrawn, Alive
<1>6. SendsBooked'
  <2>1. \A q \in Proc : proc'[q] # Nothing /\ proc'[q].sending # Nothing => Alive(q) /\ proc'[q] = proc[q]
    BY <1>1 DEF Alive
  <2> QED
    BY <2>1, <1>0 DEF SendsBooked, Alive
<1>7. WindowsKept'
  BY <1>0 DEF WindowsKept, Booked
<1> QED
  BY <1>5, <1>6, <1>7

LEMMA StartDiscoverKeeps ==
  ASSUME WsInv, NEW p \in Proc, StartDiscover(p)
  PROVE  WsInv'
<1>0. WsTypes /\ SummariesSound /\ DiscoveriesSound /\ Connected
  BY DEF WsInv
<1>1. Runs(p) /\ nextId <= MaxId /\ nextId' = nextId + 1 /\ UNCHANGED <<now, member, book, mail, conn>>
  BY DEF StartDiscover
<1>2. Alive(p) /\ proc[p].sending = Nothing
  BY <1>1 DEF Runs
<1>3. proc[p] \in ProcRow /\ proc[p].name \in Name /\ proc[p].calls \in SUBSET Discovering
  BY <1>0, <1>2, LiveRow
<1>4. nextId \in Id /\ nextId \in 0..MaxId /\ nextId' \in 1..(MaxId + 1)
  BY <1>0, <1>1, WsConstants DEF WsTypes, Id
<1>5. PICK drawn \in Id : drawn = nextId
  BY <1>4
<1>6. PICK mid \in ProcRow : mid = [proc[p] EXCEPT !.id = drawn]
  BY <1>3, <1>4, <1>5, ProcRowFields
<1>7. /\ mid.id = drawn /\ mid.name = proc[p].name /\ mid.discovered = proc[p].discovered
      /\ mid.calls = proc[p].calls /\ mid.sending = Nothing
  BY <1>2, <1>3, <1>4, <1>5, <1>6, ProcRowFields
<1>8. /\ \A d \in proc[p].calls : CallSound(proc[p].name, d)
      /\ proc[p].discovered # Nothing => GoalsSound(proc[p].discovered.since, proc[p].discovered.goals)
  BY <1>0, <1>2 DEF DiscoveriesSound
<1>9. CASE Muted(proc[p].name)
  <2>1. proc' = [proc EXCEPT ![p].id = nextId] /\ UNCHANGED <<route, summary>>
    BY <1>9 DEF StartDiscover
  <2>2. proc' = [proc EXCEPT ![p] = mid]
    BY <2>1, <1>5, <1>6
  <2>3. IdsDrawn' /\ SendsBooked' /\ WindowsKept'
    BY <2>2, <1>1, <1>5, <1>7, IdIsFresh
  <2>4. SummariesSound' /\ DiscoveriesSound'
    BY <2>1, <2>2, <1>1, <1>7, <1>8, SessionMoves
  <2>5. Connected'
    BY <2>2, <1>1, <1>2, <1>7, NameKept
  <2>6. WsTypes'
    BY <2>1, <2>2, <1>0, <1>1, <1>4, ProcReplaced DEF WsTypes
  <2> QED
    BY <2>3, <2>4, <2>5, <2>6 DEF WsInv
<1>10. CASE ~Muted(proc[p].name)
  <2>1. PICK n \in Name : n = proc[p].name
    BY <1>3
  <2>2. Peers(n) \in SUBSET Name /\ Peers(n) \subseteq Joined
    BY DEF Peers, Joined
  <2>3. PICK peers \in SUBSET Name : peers = Peers(n)
    BY <2>2
  <2>4. \A t \in peers : t \in Joined /\ member[t] \in MemberRow
    BY <2>2, <2>3, <1>0 DEF WsTypes, Joined
  <2>5. \A t \in peers : t \in Joined /\ member[t].goal \in 1..MaxGoal
    BY <2>4 DEF MemberRow
  <2>6. [t \in peers |-> member[t].goal] \in [peers -> 1..MaxGoal]
    BY <2>5
  <2>7. PICK since \in Goals : since = [t \in peers |-> member[t].goal]
    BY <2>6, GoalsAreGoals
  <2>8. PICK d \in Discovering : d = [id |-> drawn, left |-> peers, goals |-> << >>, since |-> since]
    BY <2>7, GoalsAreGoals DEF Discovering
  <2>9. d.left = peers /\ d.goals = << >> /\ d.since = since
    BY <2>8
  <2>10. /\ proc' = [proc EXCEPT ![p].id = nextId, ![p].calls = @ \cup {d}]
         /\ route' = [r \in Pair |-> IF r[1] = n /\ r[2] \in peers THEN Renewed(r) ELSE route[r]]
         /\ summary' = [r \in Pair |-> IF r[1] = n /\ r[2] \in peers THEN member[r[2]].goal ELSE summary[r]]
    BY <1>5, <1>10, <2>1, <2>3, <2>7, <2>8 DEF StartDiscover, Published, Pair
  <2>11. PICK calls \in SUBSET Discovering : calls = proc[p].calls \cup {d}
    BY <1>3
  <2>12. PICK new \in ProcRow : new = [mid EXCEPT !.calls = calls]
    BY ProcRowFields
  <2>13. proc' = [proc EXCEPT ![p] = new]
    <3>1. proc' = [proc EXCEPT ![p].id = drawn, ![p].calls = calls]
      BY <2>10, <2>11, <1>5
    <3> QED
      BY <3>1, <2>12, <1>6, <1>0 DEF WsTypes
  <2>14. /\ new.calls = calls /\ new.name = n /\ new.id = drawn
         /\ new.discovered = proc[p].discovered /\ new.sending = Nothing
    BY <2>1, <2>12, <1>7, ProcRowFields
  <2>15. IdsDrawn' /\ SendsBooked' /\ WindowsKept'
    BY <2>13, <2>14, <1>1, <1>5, IdIsFresh
  <2>16. Connected'
    BY <2>1, <2>13, <2>14, <1>1, <1>2, NameKept
  <2>17. \A r \in Pair : r[2] \in Name /\ summary[r] \in 0..MaxGoal /\ route[r] \in {Nothing} \cup RouteRow
    BY <1>0 DEF WsTypes, Pair
  <2>18. \A r \in Pair : Renewed(r) \in RouteRow
    <3> SUFFICES ASSUME NEW r \in Pair PROVE Renewed(r) \in RouteRow
      OBVIOUS
    <3>1. now \in Nat /\ now + GrantLife \in Nat
      BY <1>0, WsConstants DEF WsTypes, Time
    <3>2. route[r] # Nothing => route[r] \in RouteRow /\ route[r].version + 1 \in Nat \ {0}
      BY <2>17 DEF RouteRow
    <3> QED
      BY <3>1, <3>2 DEF Renewed, RouteRow
  <2>19. route' \in [Pair -> {Nothing} \cup RouteRow] /\ summary' \in [Pair -> 0..MaxGoal]
    <3>1. \A r \in Pair : (IF r[1] = n /\ r[2] \in peers THEN Renewed(r) ELSE route[r])
                            \in {Nothing} \cup RouteRow
      BY <2>17, <2>18
    <3>2. \A r \in Pair : (IF r[1] = n /\ r[2] \in peers THEN member[r[2]].goal ELSE summary[r])
                            \in 0..MaxGoal
      BY <2>5, <2>17, WsConstants
    <3> QED
      BY <3>1, <3>2, <2>10
  <2>20. WsTypes'
    BY <2>13, <2>19, <1>0, <1>1, <1>4, ProcReplaced DEF WsTypes
  <2>21. SummariesSound'
    <3>1. ASSUME NEW r \in Pair
          PROVE /\ route'[r] # Nothing => summary'[r] # 0
                /\ summary'[r] # 0 => r[2] \in Joined /\ summary'[r] <= member[r[2]].goal
      <4>1. CASE r[1] = n /\ r[2] \in peers
        BY <4>1, <2>5, <2>10
      <4>2. CASE ~(r[1] = n /\ r[2] \in peers)
        BY <4>2, <2>10, <1>0 DEF SummariesSound
      <4> QED
        BY <4>1, <4>2
    <3> QED
      BY <3>1, <1>1 DEF SummariesSound, Joined
  <2>22. \A r \in Pair : summary[r] <= summary'[r] /\ summary[r] \in Int /\ summary'[r] \in Int
    <3>1. ASSUME NEW r \in Pair
          PROVE summary[r] <= summary'[r] /\ summary[r] \in Int /\ summary'[r] \in Int
      <4>1. CASE r[1] = n /\ r[2] \in peers
        BY <4>1, <2>5, <2>10, <2>17, <1>0, WsConstants DEF SummariesSound
      <4>2. CASE ~(r[1] = n /\ r[2] \in peers)
        BY <4>2, <2>10, <2>17
      <4> QED
        BY <4>1, <4>2
    <3> QED
      BY <3>1
  <2>23. ASSUME NEW m \in Name, NEW e \in Discovering, CallSound(m, e) PROVE CallSound(m, e)'
    <3>1. \A t \in e.left : <<m, t>> \in Pair /\ t \in DOMAIN e.since /\ e.since[t] \in Int
                             /\ e.since[t] <= summary[<<m, t>>]
      BY <2>23, CallRows, GoalsAreGoals DEF CallSound, Pair
    <3>2. \A t \in e.left : e.since[t] <= summary'[<<m, t>>]
      BY <3>1, <2>22
    <3> QED
      BY <2>23, <3>1, <3>2 DEF CallSound
  <2>24. CallSound(n, d)'
    <3>1. \A t \in peers : <<n, t>> \in Pair /\ summary'[<<n, t>>] = member[t].goal
      BY <2>10, <2>17 DEF Pair
    <3>2. GoalsSound(since, << >>)
      BY DEF GoalsSound
    <3>3. \A t \in peers : t \in DOMAIN since /\ since[t] = member[t].goal /\ member[t].goal \in Int
      BY <2>5, <2>7
    <3> QED
      BY <3>1, <3>2, <3>3, <2>9 DEF CallSound
  <2>25. DiscoveriesSound'
    <3>0. proc'[p] = new /\ \A q \in Proc \ {p} : proc'[q] = proc[q]
      BY <1>0, <2>13, ProcReplaced
    <3>1. ASSUME NEW q \in Proc, proc'[q] # Nothing
          PROVE /\ \E m \in Name : m = proc'[q].name /\ \A e \in proc'[q].calls : CallSound(m, e)'
                /\ proc'[q].discovered # Nothing =>
                     GoalsSound(proc'[q].discovered.since, proc'[q].discovered.goals)
      <4>1. CASE q = p
        <5>1. ASSUME NEW e \in new.calls PROVE CallSound(n, e)'
          <6>1. CASE e = d
            BY <6>1, <2>24
          <6>2. CASE e # d
            <7>1. e \in proc[p].calls /\ e \in Discovering
              BY <6>2, <2>11, <2>14, <1>3
            <7> QED
              BY <7>1, <2>1, <2>23, <1>8
          <6> QED
            BY <6>1, <6>2
        <5>2. new.name = n
          BY <2>14
        <5> QED
          BY <4>1, <3>0, <5>1, <5>2, <2>14, <1>8, <2>1
      <4>2. CASE q # p
        <5>1. proc'[q] = proc[q] /\ Alive(q)
          BY <3>0, <3>1, <4>2 DEF Alive
        <5>2. PICK m \in Name : m = proc[q].name
          BY <5>1, <1>0, LiveRow
        <5>3. \A e \in proc[q].calls : e \in Discovering /\ CallSound(m, e)
          BY <5>1, <5>2, <1>0, LiveRow DEF DiscoveriesSound
        <5>4. \A e \in proc[q].calls : CallSound(m, e)'
          BY <5>3, <2>23
        <5> QED
          BY <5>1, <5>2, <5>4, <1>0 DEF DiscoveriesSound
      <4> QED
        BY <4>1, <4>2
    <3> QED
      BY <3>1 DEF DiscoveriesSound, Alive, CallSound
  <2> QED
    BY <2>15, <2>16, <2>20, <2>21, <2>25 DEF WsInv
<1> QED
  BY <1>9, <1>10

(***************************************************************************)
(* The steps of a send.                                                    *)
(***************************************************************************)
LEMMA MailRows ==
  ASSUME WsTypes
  PROVE  \A k \in DOMAIN mail :
           /\ k \in 1..Len(mail) /\ mail[k] \in MailRow
           /\ mail[k].id \in Id /\ mail[k].source \in Name /\ mail[k].target \in Name
<1>1. \A k \in DOMAIN mail : k \in 1..Len(mail) /\ mail[k] \in MailRow
  BY DEF WsTypes
<1> QED
  BY <1>1 DEF MailRow

LEMMA RecentIsBooked ==
  ASSUME WsInv, NEW n \in Name
  PROVE  Recent(n) = Booked(n, now) /\ IsFiniteSet(Booked(n, now))
<1>1. \A i \in Id : book[i] # Nothing => book[i].at <= now
  BY DEF WsInv, IdsDrawn
<1>2. Recent(n) = Booked(n, now)
  BY <1>1 DEF Recent, Booked
<1>3. IsFiniteSet(Id)
  BY FS_Interval, WsConstants DEF Id
<1>4. Booked(n, now) \subseteq Id
  BY DEF Booked
<1> QED
  BY <1>2, <1>3, <1>4, FS_Subset

LEMMA BookKeeps ==
  ASSUME WsInv, NEW p \in Proc, NEW to \in Name, Book(p, to)
  PROVE  WsInv'
<1>0. WsTypes /\ DiscoveriesSound /\ Connected /\ IdsDrawn /\ SendsBooked /\ WindowsKept
  BY DEF WsInv
<1>1. Runs(p) /\ UNCHANGED <<now, member, route, summary, mail, conn, nextId>>
  BY DEF Book
<1>2. Alive(p) /\ proc[p].sending = Nothing
  BY <1>1 DEF Runs
<1>3. /\ proc[p] \in ProcRow /\ proc[p].name \in Name /\ proc[p].id \in 0..MaxId
      /\ proc[p].calls \in SUBSET Discovering
  BY <1>0, <1>2, LiveRow
<1>4. proc[p].discovered # Nothing
  BY DEF Book
<1>5. Draws(proc[p])
  BY <1>4 DEF Draws
<1>6. proc[p].id # 0 /\ proc[p].id < nextId
  BY <1>0, <1>2, <1>5 DEF IdsDrawn
<1>7. proc[p].id \in Id
  BY <1>3, <1>6, WsConstants DEF Id
<1>8. PICK i \in Id : i = proc[p].id
  BY <1>7
<1>9. PICK n \in Name : n = proc[p].name
  BY <1>3
<1>10. PICK entry \in BookRow : entry = [source |-> n, target |-> to, at |-> now]
  BY <1>0 DEF BookRow, WsTypes
<1>11. PICK going \in [id : Id, target : Name] : going = [id |-> i, target |-> to]
  OBVIOUS
<1>12. /\ book[i] = Nothing /\ book' = [book EXCEPT ![i] = entry]
       /\ proc' = [proc EXCEPT ![p].discovered = Nothing, ![p].sending = going]
       /\ Cardinality(Recent(n)) < Budget
       /\ p \in Mcp => proc[p].calls = {}
  BY <1>8, <1>9, <1>10, <1>11 DEF Book, BookedId, WithinBudget, MayStart
<1>13. PICK mid \in ProcRow : mid = [proc[p] EXCEPT !.discovered = Nothing]
  BY <1>3, ProcRowFields
<1>14. PICK new \in ProcRow : new = [mid EXCEPT !.sending = going]
  BY ProcRowFields
<1>15. proc' = [proc EXCEPT ![p] = new]
  BY <1>12, <1>13, <1>14, <1>0 DEF WsTypes
<1>16. mid.name = n /\ mid.id = i /\ mid.calls = proc[p].calls /\ mid.discovered = Nothing
  BY <1>3, <1>8, <1>9, <1>13, ProcRowFields
<1>17. /\ new.name = n /\ new.id = i /\ new.calls = proc[p].calls /\ new.discovered = Nothing
       /\ new.sending = going
  BY <1>14, <1>16, ProcRowFields
<1>18. going.id = i /\ going.target = to /\ entry.source = n /\ entry.target = to /\ entry.at = now
  BY <1>10, <1>11
<1>19. proc'[p] = new /\ \A q \in Proc \ {p} : proc'[q] = proc[q]
  BY <1>0, <1>15, ProcReplaced
<1>20. book'[i] = entry /\ (\A j \in Id \ {i} : book'[j] = book[j]) /\ entry # Nothing
  BY <1>0, <1>12, RowsAreSome DEF WsTypes
<1>21. book' \in [Id -> {Nothing} \cup BookRow]
  BY <1>0, <1>12 DEF WsTypes
<1>22. WsTypes'
  BY <1>0, <1>1, <1>15, <1>21, ProcReplaced DEF WsTypes
<1>23. SummariesSound' /\ DiscoveriesSound'
  <2>1. \A d \in new.calls : CallSound(new.name, d)
    BY <1>0, <1>2, <1>9, <1>17 DEF DiscoveriesSound
  <2> QED
    BY <2>1, <1>1, <1>15, <1>17, SessionMoves
<1>24. Connected'
  BY <1>1, <1>2, <1>9, <1>15, <1>17, NameKept
<1>25. now \in Int /\ nextId \in Int /\ i < nextId
  BY <1>0, <1>6, <1>8, WsConstants DEF WsTypes, Time
<1>26. IdsDrawn'
  <2>1. \A j \in Id : book'[j] # Nothing => j < nextId /\ book'[j].at <= now
    BY <1>0, <1>18, <1>20, <1>25 DEF IdsDrawn
  <2>2. ASSUME NEW q \in Proc, proc'[q] # Nothing
        PROVE /\ proc'[q].id < nextId
              /\ Draws(proc'[q]) => proc'[q].id # 0
              /\ q \in Mcp /\ Draws(proc'[q]) => book'[proc'[q].id] = Nothing
    <3>1. CASE q = p
      <4>1. proc'[q].id = i /\ proc'[q].id < nextId /\ i # 0
        BY <3>1, <1>17, <1>19, <1>25, <1>6, <1>8
      <4>2. q \in Mcp => ~Draws(proc'[q])
        BY <3>1, <1>12, <1>17, <1>19 DEF Draws
      <4> QED
        BY <4>1, <4>2
    <3>2. CASE q # p
      <4>1. Alive(q) /\ proc'[q] = proc[q]
        BY <3>2, <2>2, <1>19 DEF Alive
      <4>2. q \in Mcp /\ Draws(proc[q]) => book[proc[q].id] = Nothing /\ proc[q].id # 0
        BY <4>1, <1>0 DEF IdsDrawn
      <4>3. proc[q].id # 0 => proc[q].id # i
        BY <3>2, <4>1, <1>0, <1>2, <1>8 DEF IdsDrawn
      <4>4. proc[q].id # 0 => proc[q].id \in Id
        BY <4>1, <1>0, LiveRow, WsConstants DEF Id
      <4> QED
        BY <4>1, <4>2, <4>3, <4>4, <1>0, <1>20 DEF IdsDrawn
    <3> QED
      BY <3>1, <3>2
  <2>3. ASSUME NEW q \in Proc, NEW o \in Proc, proc'[q] # Nothing, proc'[o] # Nothing,
               proc'[q].id = proc'[o].id, proc'[q].id # 0
        PROVE q = o
    <3>1. Alive(q) /\ proc'[q].id = proc[q].id /\ Alive(o) /\ proc'[o].id = proc[o].id
      BY <2>3, <1>2, <1>8, <1>17, <1>19 DEF Alive
    <3> QED
      BY <3>1, <2>3, <1>0 DEF IdsDrawn
  <2> QED
    BY <2>1, <2>2, <2>3, <1>1 DEF IdsDrawn, Alive
<1>27. SendsBooked'
  <2>1. \A k \in DOMAIN mail : mail[k].id \in Id /\ mail[k].id # i /\ book'[mail[k].id] = book[mail[k].id]
    BY <1>0, <1>12, <1>20, MailRows DEF SendsBooked
  <2>2. ASSUME NEW q \in Proc, proc'[q] # Nothing, proc'[q].sending # Nothing
        PROVE /\ proc'[q].id = proc'[q].sending.id /\ book'[proc'[q].id] # Nothing
              /\ book'[proc'[q].id].source = proc'[q].name
              /\ book'[proc'[q].id].target = proc'[q].sending.target
              /\ \A k \in DOMAIN mail : mail[k].id # proc'[q].id
    <3>1. CASE q = p
      BY <3>1, <1>17, <1>18, <1>19, <1>20, <2>1
    <3>2. CASE q # p
      <4>1. Alive(q) /\ proc'[q] = proc[q]
        BY <3>2, <2>2, <1>19 DEF Alive
      <4>2. /\ proc[q].id = proc[q].sending.id /\ book[proc[q].id] # Nothing
            /\ book[proc[q].id].source = proc[q].name
            /\ book[proc[q].id].target = proc[q].sending.target
            /\ \A k \in DOMAIN mail : mail[k].id # proc[q].id
        BY <4>1, <2>2, <1>0 DEF SendsBooked
      <4>3. proc[q].sending \in [id : Id, target : Name]
        BY <4>1, <2>2, <1>0, LiveRow
      <4>4. proc[q].id \in Id /\ proc[q].id # i
        BY <4>2, <4>3, <1>12
      <4> QED
        BY <4>1, <4>2, <4>4, <1>20
    <3> QED
      BY <3>1, <3>2
  <2> QED
    BY <2>1, <2>2, <1>0, <1>1 DEF SendsBooked, Alive
<1>28. WindowsKept'
  <2>1. ASSUME NEW m \in Name, NEW at \in 0..now PROVE Cardinality(Booked(m, at)') <= Budget
    <3>1. Cardinality(Booked(m, at)) <= Budget
      BY <1>0 DEF WindowsKept
    <3>2. i \notin Booked(m, at)
      BY <1>12 DEF Booked
    <3>3. CASE m = n /\ at = now
      <4>1. Booked(n, now)' = Booked(n, now) \cup {i}
        BY <1>1, <1>12, <1>18, <1>20, <1>25, WsConstants DEF Booked
      <4>2. Cardinality(Booked(n, now)) < Budget /\ IsFiniteSet(Booked(n, now))
        BY <1>12, RecentIsBooked
      <4>3. Cardinality(Booked(n, now) \cup {i}) = Cardinality(Booked(n, now)) + 1
        BY <3>2, <3>3, <4>2, OneMore
      <4>4. Cardinality(Booked(n, now)) \in Nat
        BY <4>2, FS_CardinalityType
      <4>5. Booked(m, at)' = Booked(n, now) \cup {i}
        BY <3>3, <4>1, <1>1 DEF Booked
      <4> QED
        BY <4>2, <4>3, <4>4, <4>5, WsConstants
    <3>4. CASE ~(m = n /\ at = now)
      <4>1. m # n \/ at < now
        BY <3>4, <1>25
      <4>2. Booked(m, at)' = Booked(m, at)
        BY <4>1, <1>12, <1>18, <1>20, <1>25 DEF Booked
      <4> QED
        BY <3>1, <4>2
    <3> QED
      BY <3>3, <3>4
  <2> QED
    BY <2>1, <1>1 DEF WindowsKept
<1> QED
  BY <1>22, <1>23, <1>24, <1>26, <1>27, <1>28 DEF WsInv

LEMMA Appended ==
  ASSUME NEW S, NEW s \in Seq(S), NEW e \in S
  PROVE  /\ Append(s, e) \in Seq(S) /\ DOMAIN Append(s, e) = DOMAIN s \cup {Len(s) + 1}
         /\ Len(s) + 1 \notin DOMAIN s
         /\ Append(s, e)[Len(s) + 1] = e /\ \A k \in DOMAIN s : Append(s, e)[k] = s[k]
<1>1. /\ Append(s, e) \in Seq(S) /\ Len(Append(s, e)) = Len(s) + 1
      /\ \A k \in 1..Len(s) : Append(s, e)[k] = s[k]
      /\ Append(s, e)[Len(s) + 1] = e
  BY AppendProperties
<1>2. DOMAIN Append(s, e) = 1..(Len(s) + 1) /\ DOMAIN s = 1..Len(s) /\ Len(s) \in Nat
  BY <1>1
<1> QED
  BY <1>1, <1>2

LEMMA SubmitKeeps ==
  ASSUME WsInv, NEW p \in Proc, Submit(p)
  PROVE  WsInv'
<1>0. WsTypes /\ SummariesSound /\ DiscoveriesSound /\ Connected /\ IdsDrawn /\ SendsBooked /\ WindowsKept
  BY DEF WsInv
<1>1. Alive(p) /\ proc[p].sending # Nothing
      /\ UNCHANGED <<now, member, route, summary, book, conn, nextId>>
  BY DEF Submit
<1>2. /\ proc[p] \in ProcRow /\ proc[p].name \in Name /\ proc[p].calls \in SUBSET Discovering
      /\ proc[p].sending \in [id : Id, target : Name]
  BY <1>0, <1>1, LiveRow
<1>3. /\ proc[p].id = proc[p].sending.id /\ book[proc[p].id] # Nothing
      /\ book[proc[p].id].source = proc[p].name
      /\ book[proc[p].id].target = proc[p].sending.target
      /\ \A k \in DOMAIN mail : mail[k].id # proc[p].id
  BY <1>0, <1>1 DEF SendsBooked
<1>4. PICK i \in Id : i = proc[p].id
  BY <1>2, <1>3
<1>5. PICK n \in Name : n = proc[p].name
  BY <1>2
<1>6. PICK to \in Name : to = proc[p].sending.target
  BY <1>2
<1>7. PICK new \in ProcRow : new = [proc[p] EXCEPT !.sending = Nothing]
  BY <1>2, ProcRowFields
<1>8. /\ new.name = proc[p].name /\ new.id = proc[p].id /\ new.calls = proc[p].calls
      /\ new.discovered = proc[p].discovered /\ new.sending = Nothing
  BY <1>2, <1>7, ProcRowFields
<1>9. proc' = [proc EXCEPT ![p] = new]
  BY <1>7 DEF Submit
<1>10. proc'[p] = new /\ \A q \in Proc \ {p} : proc'[q] = proc[q]
  BY <1>0, <1>9, ProcReplaced
<1> DEFINE m == [id |-> i, source |-> n, target |-> to, version |-> route[<<n, to>>].version,
                 expires |-> now + Ttl, decision |-> "pending"]
<1>11. mail' = IF Granted(n, to) THEN Append(mail, m) ELSE mail
  BY <1>4, <1>5, <1>6 DEF Submit
<1>12. m.id = i /\ m.source = n /\ m.target = to
  OBVIOUS
<1>13. Granted(n, to) => m \in MailRow
  <2>1. now + Ttl \in Nat
    BY <1>0, WsConstants DEF WsTypes, Time
  <2>2. <<n, to>> \in Pair
    BY DEF Pair
  <2>3. Granted(n, to) => route[<<n, to>>] \in RouteRow
    BY <2>2, <1>0 DEF Granted, WsTypes
  <2>4. Granted(n, to) => route[<<n, to>>].version \in Nat
    BY <2>3 DEF RouteRow
  <2> QED
    BY <2>1, <2>4 DEF MailRow
<1> HIDE DEF m
<1>14. mail \in Seq(MailRow) /\ DOMAIN mail = 1..Len(mail) /\ Len(mail) \in Nat
  BY <1>0 DEF WsTypes
<1>15. \/ mail' = mail
       \/ /\ mail' \in Seq(MailRow) /\ DOMAIN mail' = DOMAIN mail \cup {Len(mail) + 1}
          /\ Len(mail) + 1 \notin DOMAIN mail
          /\ mail'[Len(mail) + 1] = m /\ \A k \in DOMAIN mail : mail'[k] = mail[k]
  <2>1. CASE Granted(n, to)
    <3>1. mail' = Append(mail, m) /\ m \in MailRow
      BY <2>1, <1>11, <1>13
    <3>2. /\ Append(mail, m) \in Seq(MailRow)
          /\ DOMAIN Append(mail, m) = DOMAIN mail \cup {Len(mail) + 1}
          /\ Len(mail) + 1 \notin DOMAIN mail
          /\ Append(mail, m)[Len(mail) + 1] = m
          /\ \A k \in DOMAIN mail : Append(mail, m)[k] = mail[k]
      BY <3>1, <1>14, Appended
    <3> QED
      BY <3>1, <3>2, Zenon
  <2>2. CASE ~Granted(n, to)
    BY <2>2, <1>11
  <2> QED
    BY <2>1, <2>2
<1>16. mail' \in Seq(MailRow)
  BY <1>14, <1>15
<1>17. WsTypes'
  BY <1>0, <1>1, <1>9, <1>16, ProcReplaced DEF WsTypes
<1>18. SummariesSound' /\ DiscoveriesSound'
  BY <1>0, <1>1, <1>8, <1>9, SessionMoves DEF DiscoveriesSound
<1>19. Connected'
  BY <1>1, <1>8, <1>9, NameKept
<1>20. \A q \in Proc : proc'[q] # Nothing <=> proc[q] # Nothing
  BY <1>1, <1>10, RowsAreSome DEF Alive
<1>21. \A q \in Proc : Alive(q) => proc'[q].id = proc[q].id /\ (Draws(proc'[q]) <=> Draws(proc[q]))
  BY <1>8, <1>10 DEF Draws
<1>22. IdsDrawn'
  BY <1>0, <1>1, <1>20, <1>21 DEF IdsDrawn, Alive
<1>23. SendsBooked'
  <2>1. ASSUME NEW q \in Proc, proc'[q] # Nothing, proc'[q].sending # Nothing
        PROVE /\ proc'[q].id = proc'[q].sending.id /\ book[proc'[q].id] # Nothing
              /\ book[proc'[q].id].source = proc'[q].name
              /\ book[proc'[q].id].target = proc'[q].sending.target
              /\ \A k \in DOMAIN mail' : mail'[k].id # proc'[q].id
    <3>1. q # p /\ Alive(q) /\ proc'[q] = proc[q]
      BY <2>1, <1>8, <1>10 DEF Alive
    <3>2. /\ proc[q].id = proc[q].sending.id /\ book[proc[q].id] # Nothing
          /\ book[proc[q].id].source = proc[q].name
          /\ book[proc[q].id].target = proc[q].sending.target
          /\ \A k \in DOMAIN mail : mail[k].id # proc[q].id
      BY <3>1, <2>1, <1>0 DEF SendsBooked
    <3>3. i # 0
      BY WsConstants DEF Id
    <3>4. proc[q].id # i
      BY <3>1, <3>3, <1>0, <1>1, <1>4 DEF IdsDrawn
    <3> QED
      BY <3>1, <3>2, <3>4, <1>12, <1>15
  <2>2. \A k \in DOMAIN mail' :
          /\ book[mail'[k].id] # Nothing
          /\ book[mail'[k].id].source = mail'[k].source
          /\ book[mail'[k].id].target = mail'[k].target
    BY <1>0, <1>3, <1>4, <1>5, <1>6, <1>12, <1>15 DEF SendsBooked
  <2>3. \A k, l \in DOMAIN mail' : mail'[k].id = mail'[l].id => k = l
    BY <1>0, <1>3, <1>4, <1>12, <1>15 DEF SendsBooked
  <2> QED
    BY <2>1, <2>2, <2>3, <1>1 DEF SendsBooked, Alive
<1>24. WindowsKept'
  BY <1>0, <1>1 DEF WindowsKept, Booked
<1> QED
  BY <1>17, <1>18, <1>19, <1>22, <1>23, <1>24 DEF WsInv

LEMMA DecideKeeps ==
  ASSUME WsInv, NEW p \in Proc, NEW k \in DOMAIN mail,
         NEW decision \in {"deferred", "decided"}, Decide(p, k, decision)
  PROVE  WsInv'
<1>0. WsTypes /\ SummariesSound /\ DiscoveriesSound /\ Connected /\ IdsDrawn /\ SendsBooked /\ WindowsKept
  BY DEF WsInv
<1>1. UNCHANGED <<now, member, route, summary, book, conn, proc, nextId>>
      /\ mail' = [mail EXCEPT ![k].decision = decision]
  BY DEF Decide
<1>2. k \in 1..Len(mail) /\ mail[k] \in MailRow /\ mail \in Seq(MailRow)
  BY <1>0, MailRows DEF WsTypes
<1>3. PICK new \in MailRow : new = [mail[k] EXCEPT !.decision = decision]
  BY <1>2 DEF MailRow
<1>4. new.id = mail[k].id /\ new.source = mail[k].source /\ new.target = mail[k].target
  BY <1>2, <1>3 DEF MailRow
<1>5. mail' = [mail EXCEPT ![k] = new]
  BY <1>1, <1>3
<1>6. mail' \in Seq(MailRow) /\ Len(mail') = Len(mail)
      /\ \A j \in 1..Len(mail) : mail'[j] = IF j = k THEN new ELSE mail[j]
  BY <1>2, <1>5, ExceptSeq
<1>7. DOMAIN mail' = DOMAIN mail /\ DOMAIN mail = 1..Len(mail)
  BY <1>2, <1>6
<1>8. \A j \in DOMAIN mail :
        mail'[j].id = mail[j].id /\ mail'[j].source = mail[j].source /\ mail'[j].target = mail[j].target
  BY <1>4, <1>6, <1>7
<1>9. WsTypes'
  BY <1>0, <1>1, <1>6 DEF WsTypes
<1>10. SendsBooked'
  <2>1. \A j \in DOMAIN mail' :
          /\ book[mail'[j].id] # Nothing
          /\ book[mail'[j].id].source = mail'[j].source
          /\ book[mail'[j].id].target = mail'[j].target
    BY <1>0, <1>7, <1>8 DEF SendsBooked
  <2>2. \A j, l \in DOMAIN mail' : mail'[j].id = mail'[l].id => j = l
    BY <1>0, <1>7, <1>8 DEF SendsBooked
  <2>3. ASSUME NEW q \in Proc, Alive(q), proc[q].sending # Nothing
        PROVE /\ proc[q].id = proc[q].sending.id /\ book[proc[q].id] # Nothing
              /\ book[proc[q].id].source = proc[q].name
              /\ book[proc[q].id].target = proc[q].sending.target
              /\ \A j \in DOMAIN mail' : mail'[j].id # proc[q].id
    BY <2>3, <1>0, <1>7, <1>8 DEF SendsBooked
  <2> QED
    BY <2>1, <2>2, <2>3, <1>1 DEF SendsBooked, Alive
<1>11. SummariesSound' /\ Connected' /\ IdsDrawn' /\ WindowsKept'
  BY <1>0, <1>1 DEF SummariesSound, Connected, IdsDrawn, WindowsKept, Booked, Joined, Alive
<1>12. DiscoveriesSound'
  BY <1>0, <1>1 DEF DiscoveriesSound, CallSound, Alive
<1> QED
  BY <1>9, <1>10, <1>11, <1>12 DEF WsInv

LEMMA WorkspaceMoves == WsInv /\ [WsNext]_ws_vars => WsInv'
<1> SUFFICES ASSUME WsInv, [WsNext]_ws_vars PROVE WsInv'
  OBVIOUS
<1>1. CASE Tick
  BY <1>1, TickKeepsWorkspace
<1>2. ASSUME NEW n \in Name, Join(n) \/ Checkpoint(n) \/ (\E muted \in BOOLEAN : Mute(n, muted))
      PROVE  WsInv'
  BY <1>2, MemberStepsKeep
<1>3. ASSUME NEW p \in Proc,
             (\E n \in Name : Connect(p, n)) \/ Disconnect(p) \/ Crash(p) \/ NewTurn(p)
      PROVE  WsInv'
  BY <1>3, LifeStepsKeep
<1>4. ASSUME NEW p \in Proc, StartDiscover(p) PROVE WsInv'
  BY <1>4, StartDiscoverKeeps
<1>5. ASSUME NEW p \in Proc, Submit(p) PROVE WsInv'
  BY <1>5, SubmitKeeps
<1>6. ASSUME NEW p \in Proc, Alive(p), NEW d \in proc[p].calls,
             Discovered(p, d) \/ (\E t \in d.left : ReadPeer(p, d, t))
      PROVE  WsInv'
  BY <1>6, DiscoveredKeeps, ReadPeerKeeps
<1>7. ASSUME NEW p \in Proc, NEW to \in Name, Book(p, to) PROVE WsInv'
  BY <1>7, BookKeeps
<1>8. ASSUME NEW p \in Proc, NEW k \in DOMAIN mail,
             NEW decision \in {"deferred", "decided"}, Decide(p, k, decision)
      PROVE  WsInv'
  BY <1>8, DecideKeeps
<1>9. ASSUME UNCHANGED ws_vars PROVE WsInv'
  <2>1. UNCHANGED <<now, member, route, summary, book, mail, conn, proc, nextId>>
    BY <1>9 DEF ws_vars
  <2>2. WsTypes' /\ SummariesSound' /\ Connected' /\ IdsDrawn' /\ SendsBooked' /\ WindowsKept'
    BY <2>1 DEF WsInv, WsTypes, SummariesSound, Connected, IdsDrawn, SendsBooked, WindowsKept,
                Booked, Joined, Alive
  <2>3. DiscoveriesSound'
    BY <2>1 DEF WsInv, DiscoveriesSound, CallSound, Alive
  <2> QED
    BY <2>2, <2>3 DEF WsInv
<1> QED
  BY <1>1, <1>2, <1>3, <1>4, <1>5, <1>6, <1>7, <1>8, <1>9 DEF WsNext

(***************************************************************************)
(* What the invariant says of sends and sessions.                          *)
(***************************************************************************)

\* What the workspace's tables and its processes have in common, after every step and
\* whichever process crashes between the two transactions of a send.
THEOREM WorkspaceInductive == WsSpec => []WsInv
BY WorkspaceStarts, WorkspaceMoves, PTL DEF WsSpec

LEMMA SendsFollow == WsInv => SendsAreSound
<1> SUFFICES ASSUME WsInv PROVE SendsAreSound
  OBVIOUS
<1>0. WsTypes /\ IdsDrawn /\ SendsBooked /\ WindowsKept
  BY DEF WsInv
<1>1. BookedFirst
  BY <1>0 DEF BookedFirst, SendsBooked
<1>2. SendsAreBounded
  <2>1. ASSUME NEW n \in Name, NEW at \in 0..now
        PROVE Cardinality({k \in DOMAIN mail : mail[k].source = n
                /\ book[mail[k].id].at <= at /\ book[mail[k].id].at + Window > at}) <= Budget
    <3> DEFINE K == {k \in DOMAIN mail : mail[k].source = n
                       /\ book[mail[k].id].at <= at /\ book[mail[k].id].at + Window > at}
               id == [k \in K |-> mail[k].id]
    <3>1. \A k \in K : mail[k].id \in Booked(n, at)
      BY <1>0, MailRows DEF Booked, SendsBooked
    <3>2. IsFiniteSet(Booked(n, at))
      <4>1. IsFiniteSet(Id)
        BY FS_Interval, WsConstants DEF Id
      <4>2. Booked(n, at) \subseteq Id
        BY DEF Booked
      <4> QED
        BY <4>1, <4>2, FS_Subset
    <3>3. id \in [K -> Booked(n, at)]
      BY <3>1
    <3>4. \A k, l \in K : id[k] = id[l] => k = l
      BY <1>0 DEF SendsBooked
    <3>5. id \in Injection(K, Booked(n, at))
      BY <3>3, <3>4 DEF Injection, IsInjective
    <3>6. Cardinality(K) <= Cardinality(Booked(n, at)) /\ IsFiniteSet(K)
      BY <3>2, <3>5, FS_Injection DEF ExistsInjection
    <3>7. Cardinality(Booked(n, at)) <= Budget
      BY <1>0 DEF WindowsKept
    <3>8. Cardinality(K) \in Nat /\ Cardinality(Booked(n, at)) \in Nat
      BY <3>2, <3>6, FS_CardinalityType
    <3> QED
      BY <3>6, <3>7, <3>8, WsConstants
  <2> QED
    BY <2>1 DEF SendsAreBounded
<1>3. FreshId
  BY <1>0, WsConstants DEF FreshId, IdsDrawn, Alive, Draws
<1> QED
  BY <1>1, <1>2, <1>3 DEF SendsAreSound

LEMMA SessionsFollow == WsInv => SessionsAreSound
<1> SUFFICES ASSUME WsInv PROVE SessionsAreSound
  OBVIOUS
<1>0. WsTypes /\ SummariesSound /\ DiscoveriesSound /\ Connected
  BY DEF WsInv
<1>1. OneConnection
  BY <1>0 DEF OneConnection, Connected
<1>2. FreshGoals
  BY <1>0 DEF FreshGoals, DiscoveriesSound, GoalsSound, Alive
<1>3. WsTypeOK
  <2>1. \A r \in Pair : route[r] # Nothing =>
          route[r].version \in Nat \ {0} /\ route[r].expires \in Nat /\ summary[r] # 0
    BY <1>0 DEF WsTypes, RouteRow, SummariesSound
  <2>2. \A k \in DOMAIN mail :
          mail[k].id \in Id /\ mail[k].decision \in {"pending", "deferred", "decided"}
    BY <1>0, MailRows DEF MailRow
  <2>3. ASSUME NEW p \in Proc, proc[p] # Nothing
        PROVE /\ proc[p].name \in Name
              /\ proc[p].discovered \in {Nothing} \cup Discovery
              /\ proc[p].id \in 0..MaxId
              /\ proc[p].calls \subseteq Discovering
              /\ proc[p].sending = Nothing \/ proc[p].sending.id \in Id
    BY <2>3, <1>0, LiveRow DEF Alive
  <2> QED
    BY <2>1, <2>2, <2>3, <1>0 DEF WsTypeOK, WsTypes, Pair, MemberRow, BookRow
<1> QED
  BY <1>1, <1>2, <1>3 DEF SessionsAreSound

\* For every number of sessions and processes: what reaches the coordinator is in the book
\* under its id, no source sends more in a window than its budget across crashes and
\* restarts, and an MCP server's completed discovery leaves it an id it can send under.
THEOREM WorkspaceSends == WsSpec => []SendsAreSound
BY WorkspaceInductive, SendsFollow, PTL

\* For every number of sessions and processes: a discovery returns no goal older than it
\* is, and no two live processes have one name, whatever crashed.
THEOREM WorkspaceSessions == WsSpec => []SessionsAreSound
BY WorkspaceInductive, SessionsFollow, PTL

(***************************************************************************)
(* The mailbox: its inductive invariant.                                   *)
(***************************************************************************)
Token == {<<>>} \cup (Client \X Nat)
SentRow == [created : 0..MaxClock, purged : BOOLEAN]
ClaimRow == [state : {"claimed", "acknowledged"}, token : Token, rev : Nat, expires : Nat]
ClientRow ==
  [at : {"idle", "send", "claim", "claimed", "ack", "respond"}, item : {NoRow} \cup Item,
   decision : Choice \cup {"none"}, token : Token, calls : Nat]

SendParams == [m : Message, created : 0..MaxClock]
ClaimParams == [m : Message, rev : 0..2]
RespondParams == [m : Message, rev : 0..2, decision : Choice]
AckParams == [m : Message, rev : 0..2, token : Token, decision : Choice]

\* A message is deferred at most once and decided at most once.
LogShape(s) ==
  /\ s \in Seq(DecisionStates) /\ Len(s) <= 2
  /\ Len(s) > 0 => s[1] # "pending"
  /\ Len(s) = 2 => s[1] = "deferred" /\ s[2] \notin UndecidedStates

RpcTypes ==
  /\ clock \in 0..MaxClock /\ granted \in BOOLEAN
  /\ sent \in [Message -> {NoRow} \cup SentRow]
  /\ log \in [Message -> Seq(DecisionStates)]
  /\ claim \in [Message -> {NoRow} \cup ClaimRow]
  /\ client \in [Client -> ClientRow]
  /\ \A m \in Message :
       /\ LogShape(log[m])
       /\ Len(log[m]) > 0 => sent[m] # NoRow
       /\ claim[m] # NoRow => claim[m].rev <= Len(log[m])
  /\ \A c \in Client : client[c].calls <= Bound(c)

\* What the records say of claims and acknowledgements.
ClaimedAt(m, rev, token) ==
  \E r \in replays : r.method = "claim" /\ r.key = <<"claim", m, rev>> /\ r.value.token = token
AckedBefore(m, rev) ==
  \E r \in replays : r.method = "ack" /\ r.params.m = m /\ r.params.rev < rev

\* A request tells in its key what it asks.
Asked(q) ==
  /\ q.by \in Client /\ q.id \in Nat /\ q.method \in {"send", "claim", "ack", "respond"}
  /\ q.method = "send" => q.by = Sender /\ q.params \in SendParams
  /\ q.method # "send" => q.by \in Receiver /\ sent[q.params.m] # NoRow
  /\ q.method = "claim" =>
       /\ q.params \in ClaimParams
       /\ q.by \in Sdk => q.key = <<"claim", q.params.m, q.params.rev>>
       /\ q.by \notin Sdk => q.key = <<"claim", q.params.m>>
  /\ q.method = "ack" =>
       /\ q.params \in AckParams /\ q.params.rev <= Len(log[q.params.m])
       /\ q.by \in Sdk => /\ q.key = <<"ack", q.params.m, q.params.decision>>
                          /\ ClaimedAt(q.params.m, q.params.rev, q.params.token)
                          /\ ~AckedBefore(q.params.m, q.params.rev)
       /\ q.by \notin Sdk => q.key = <<"ack", q.params.m>>
  /\ q.method = "respond" =>
       /\ q.params \in RespondParams
       /\ q.by \in Sdk => q.key = <<"respond", q.params.m, q.params.rev, q.params.decision>>
       /\ q.by \notin Sdk => q.key = <<"respond", q.params.m, q.params.decision>>

\* The client that waits for it, of which this is the row, asked it.
Awaited(q, row) ==
  /\ q.id <= row.calls
  /\ row.at = q.method /\ row.calls = q.id =>
       /\ q.method = "claim" => row.item.m = q.params.m /\ row.item.rev = q.params.rev
       /\ q.method \in {"ack", "respond"} => row.decision = q.params.decision

\* A record has the key of a request that was carried out, and its decision stands.
RecordSound(r) ==
  /\ r.method \in {"send", "claim", "ack", "respond"}
  /\ r.scope = IF r.method = "send" THEN "source" ELSE "receiver"
  /\ r.method = "claim" =>
       /\ r.params \in ClaimParams /\ r.value.token \in Token
       /\ \/ r.key = <<"claim", r.params.m, r.params.rev>>
          \/ r.key = <<"claim", r.params.m>>
  /\ r.method = "ack" =>
       /\ r.params \in AckParams /\ sent[r.params.m] # NoRow
       /\ \/ /\ r.key = <<"ack", r.params.m, r.params.decision>>
             /\ ClaimedAt(r.params.m, r.params.rev, r.params.token)
          \/ r.key = <<"ack", r.params.m>>
       /\ Unexpired(r.params.m) => ClaimState(r.params.m) = "acknowledged"
  /\ r.method = "respond" =>
       /\ r.params \in RespondParams
       /\ \/ r.key = <<"respond", r.params.m, r.params.rev, r.params.decision>>
          \/ r.key = <<"respond", r.params.m, r.params.decision>>
  /\ r.method \in {"ack", "respond"} =>
       /\ r.value.rev = r.params.rev + 1 /\ r.value.rev <= Len(log[r.params.m])
       /\ log[r.params.m][r.value.rev] = r.params.decision

ClaimsAgree ==
  \A r, s \in replays :
    r.method = "claim" /\ s.method = "claim" /\ r.key = s.key => r.value.token = s.value.token

\* What a client works on was listed for it, and an SDK that claims saw no acknowledgement.
RowSound(c, row) ==
  /\ row.item # NoRow => sent[row.item.m] # NoRow /\ row.item.rev <= Len(log[row.item.m])
  /\ row.at \in {"claim", "claimed", "ack", "respond"} =>
       c \in Receiver /\ row.item # NoRow /\ row.decision \in Choice
  /\ c \in Sdk /\ row.item # NoRow =>
       (~row.item.acked => ~AckedBefore(row.item.m, row.item.rev))
  /\ c \in Sdk /\ row.at \in {"claim", "claimed"} => ~row.item.acked
  /\ c \in Sdk /\ row.at = "claimed" => ClaimedAt(row.item.m, row.item.rev, row.token)

ToldSound(t) ==
  /\ t.m \in Message
  /\ Decides(t) => t.rev \in 1..Len(log[t.m]) /\ log[t.m][t.rev] = t.ask
  /\ t.by \in Sdk /\ t.code = "conflict" =>
       /\ t.method = "ack" /\ Len(log[t.m]) >= 2
       /\ log[t.m][1] = "deferred" /\ log[t.m][2] = t.ask

MailboxInv ==
  /\ RpcTypes
  /\ \A q \in wire : Asked(q) /\ Awaited(q, client[q.by])
  /\ \A r \in replays : RecordSound(r)
  /\ ClaimsAgree
  /\ \A c \in Client : RowSound(c, client[c])
  /\ \A t \in told : ToldSound(t)
  /\ AcceptedOnce

(***************************************************************************)
(* What every step of the mailbox leaves.                                  *)
(***************************************************************************)
LEMMA RpcConstants ==
  /\ Choice \subseteq {"accepted", "rejected", "deferred"} /\ Sender \notin Receiver
  /\ TTL \in Nat /\ ClaimWindow \in Nat /\ MaxClock \in Nat
  /\ \A c \in Client : Bound(c) \in Nat
BY MailboxAssumption DEF Bound

LEMMA NoRowIsNone ==
  NoRow \notin SentRow /\ NoRow \notin ClaimRow /\ NoRow \notin Item
<1>1. DOMAIN NoRow = {"none"}
  BY DEF NoRow
<1>2. /\ \A r \in SentRow : "created" \in DOMAIN r
      /\ \A r \in ClaimRow : "state" \in DOMAIN r
      /\ \A r \in Item : "m" \in DOMAIN r
  BY DEF SentRow, ClaimRow, Item
<1> QED
  BY <1>1, <1>2

\* A step keeps the messages, what was decided, the records of receivers and, for a
\* message that has not expired, its acknowledgement; a new acknowledgement is current.
Grows ==
  /\ \A m \in Message : sent[m] # NoRow => sent'[m] # NoRow /\ sent'[m].created = sent[m].created
  /\ clock <= clock'
  /\ \A m \in Message : Len(log[m]) <= Len(log'[m]) /\ \A k \in 1..Len(log[m]) : log'[m][k] = log[m][k]
  /\ \A r \in replays : r.method # "send" => r \in replays'
  /\ \A r \in replays' \ replays : r.method = "ack" =>
       r.params \in AckParams /\ r.params.rev >= Len(log[r.params.m])
  /\ \A m \in Message : ClaimState(m) = "acknowledged" /\ Unexpired(m)' => ClaimState(m)' = "acknowledged"

LEMMA LengthsAreNumbers ==
  ASSUME RpcTypes
  PROVE  \A m \in Message : log[m] \in Seq(DecisionStates) /\ Len(log[m]) \in Nat
BY DEF RpcTypes

LEMMA RecordsStay ==
  ASSUME RpcTypes, Grows
  PROVE  /\ \A m, rev, token : ClaimedAt(m, rev, token) => ClaimedAt(m, rev, token)'
         /\ \A m \in Message : \A rev \in Nat :
              rev <= Len(log[m]) /\ ~AckedBefore(m, rev) => ~AckedBefore(m, rev)'
<1>1. ASSUME NEW m, NEW rev, NEW token, ClaimedAt(m, rev, token) PROVE ClaimedAt(m, rev, token)'
  BY <1>1 DEF ClaimedAt, Grows
<1>2. ASSUME NEW m \in Message, NEW rev \in Nat, rev <= Len(log[m]), ~AckedBefore(m, rev)
      PROVE  ~AckedBefore(m, rev)'
  <2>1. SUFFICES ASSUME NEW r \in replays', r.method = "ack", r.params.m = m, r.params.rev < rev
                 PROVE  FALSE
    BY DEF AckedBefore
  <2>2. CASE r \in replays
    BY <1>2, <2>1, <2>2 DEF AckedBefore
  <2>3. CASE r \notin replays
    <3>1. r.params \in AckParams /\ r.params.rev >= Len(log[m])
      BY <2>1, <2>3 DEF Grows
    <3>2. r.params.rev \in Nat
      BY <3>1 DEF AckParams
    <3> QED
      BY <1>2, <2>1, <3>1, <3>2, LengthsAreNumbers
  <2> QED
    BY <2>2, <2>3
<1> QED
  BY <1>1, <1>2

LEMMA ExpiryStays ==
  ASSUME RpcTypes, RpcTypes', Grows, NEW m \in Message, sent[m] # NoRow, Unexpired(m)'
  PROVE  Unexpired(m)
<1>1. sent[m].created \in Nat /\ sent'[m].created = sent[m].created
  BY DEF RpcTypes, Grows, SentRow
<1>2. clock \in Nat /\ clock' \in Nat /\ clock <= clock'
  BY DEF RpcTypes, Grows
<1> QED
  BY <1>1, <1>2, RpcConstants DEF Unexpired, Expires

LEMMA TypedParams ==
  /\ \A p \in ClaimParams : p.m \in Message /\ p.rev \in Nat
  /\ \A p \in RespondParams : p.m \in Message /\ p.rev \in Nat /\ p.decision \in Choice
  /\ \A p \in AckParams : p.m \in Message /\ p.rev \in Nat /\ p.decision \in Choice /\ p.token \in Token
  /\ \A p \in SendParams : p.m \in Message /\ p.created \in Nat
  /\ \A i \in Item : i.m \in Message /\ i.rev \in Nat /\ i.acked \in BOOLEAN
BY DEF ClaimParams, RespondParams, AckParams, SendParams, Item

LEMMA AskedStays ==
  ASSUME RpcTypes, RpcTypes', Grows, NEW q, Asked(q)
  PROVE  Asked(q)'
<1>1. q.method # "send" => q.params.m \in Message
  BY TypedParams DEF Asked
<1>2. q.method # "send" => sent'[q.params.m] # NoRow
  BY <1>1 DEF Asked, Grows
<1>3. q.method = "ack" => q.params.m \in Message /\ q.params.rev \in Nat
  BY TypedParams DEF Asked
<1>4. q.method = "ack" => q.params.rev <= Len(log'[q.params.m])
  BY <1>3, LengthsAreNumbers DEF Asked, Grows, RpcTypes
<1>5. q.method = "ack" /\ q.by \in Sdk =>
        /\ ClaimedAt(q.params.m, q.params.rev, q.params.token)'
        /\ ~AckedBefore(q.params.m, q.params.rev)'
  BY <1>3, RecordsStay DEF Asked
<1> QED
  BY <1>2, <1>4, <1>5 DEF Asked

LEMMA RecordStays ==
  ASSUME RpcTypes, RpcTypes', Grows, NEW r, RecordSound(r)
  PROVE  RecordSound(r)'
<1>1. r.method = "ack" => r.params.m \in Message /\ sent'[r.params.m] # NoRow
  BY TypedParams DEF RecordSound, Grows
<1>2. r.method = "ack" /\ Unexpired(r.params.m)' => ClaimState(r.params.m)' = "acknowledged"
  BY <1>1, ExpiryStays DEF RecordSound, Grows
<1>3. r.method = "ack" /\ ClaimedAt(r.params.m, r.params.rev, r.params.token) =>
        ClaimedAt(r.params.m, r.params.rev, r.params.token)'
  BY RecordsStay
<1>4. ASSUME r.method \in {"ack", "respond"}
      PROVE  /\ r.value.rev = r.params.rev + 1 /\ r.value.rev <= Len(log'[r.params.m])
             /\ log'[r.params.m][r.value.rev] = r.params.decision
  <2>1. r.params.m \in Message /\ r.params.rev \in Nat
    BY <1>4, TypedParams DEF RecordSound
  <2>2. /\ r.value.rev = r.params.rev + 1 /\ r.value.rev <= Len(log[r.params.m])
        /\ log[r.params.m][r.value.rev] = r.params.decision
    BY <1>4 DEF RecordSound
  <2>3. r.value.rev \in 1..Len(log[r.params.m]) /\ Len(log'[r.params.m]) \in Nat
    BY <2>1, <2>2, LengthsAreNumbers DEF RpcTypes
  <2>4. Len(log[r.params.m]) <= Len(log'[r.params.m]) /\ Len(log[r.params.m]) \in Nat
    BY <2>1, LengthsAreNumbers DEF Grows
  <2>5. log'[r.params.m][r.value.rev] = log[r.params.m][r.value.rev]
    BY <2>1, <2>3 DEF Grows
  <2> QED
    BY <2>1, <2>2, <2>3, <2>4, <2>5
<1> QED
  BY <1>1, <1>2, <1>3, <1>4 DEF RecordSound

LEMMA RowStays ==
  ASSUME RpcTypes, RpcTypes', Grows, NEW c, NEW row \in ClientRow, RowSound(c, row)
  PROVE  RowSound(c, row)'
<1>1. row.item # NoRow => row.item.m \in Message /\ row.item.rev \in Nat
  BY TypedParams DEF ClientRow
<1>2. row.item # NoRow => sent'[row.item.m] # NoRow /\ row.item.rev <= Len(log'[row.item.m])
  BY <1>1, LengthsAreNumbers DEF RowSound, Grows, RpcTypes
<1>3. c \in Sdk /\ row.item # NoRow => (~row.item.acked => ~AckedBefore(row.item.m, row.item.rev)')
  BY <1>1, RecordsStay DEF RowSound
<1>4. c \in Sdk /\ row.at = "claimed" => ClaimedAt(row.item.m, row.item.rev, row.token)'
  BY RecordsStay DEF RowSound
<1> QED
  BY <1>2, <1>3, <1>4 DEF RowSound

LEMMA ToldStays ==
  ASSUME RpcTypes, RpcTypes', Grows, NEW t, ToldSound(t)
  PROVE  ToldSound(t)'
<1>1. t.m \in Message
  BY DEF ToldSound
<1>2. /\ Len(log[t.m]) \in Nat /\ Len(log'[t.m]) \in Nat /\ Len(log[t.m]) <= Len(log'[t.m])
      /\ \A k \in 1..Len(log[t.m]) : log'[t.m][k] = log[t.m][k]
  BY <1>1, LengthsAreNumbers DEF Grows, RpcTypes
<1>3. Decides(t) => t.rev \in 1..Len(log'[t.m]) /\ log'[t.m][t.rev] = t.ask
  BY <1>2 DEF ToldSound
<1>4. t.by \in Sdk /\ t.code = "conflict" =>
        /\ t.method = "ack" /\ Len(log'[t.m]) >= 2
        /\ log'[t.m][1] = "deferred" /\ log'[t.m][2] = t.ask
  BY <1>2 DEF ToldSound
<1> QED
  BY <1>1, <1>3, <1>4 DEF ToldSound, Decides

\* One more decision on a message that was not decided.
LEMMA OneMoreDecision ==
  ASSUME NEW s, LogShape(s), NEW d \in DecisionStates \ {"pending"},
         s # <<>> => Last(s) \in UndecidedStates /\ d \notin UndecidedStates
  PROVE  /\ LogShape(Append(s, d))
         /\ Len(Append(s, d)) = Len(s) + 1 /\ Append(s, d)[Len(s) + 1] = d
         /\ \A k \in 1..Len(s) : Append(s, d)[k] = s[k]
         /\ Len(s) <= 1 /\ Len(s) \in Nat
         /\ Len(s) = 1 => s[1] = "deferred"
<1>1. s \in Seq(DecisionStates) /\ Len(s) \in Nat /\ Len(s) <= 2
  BY DEF LogShape
<1>2. /\ Append(s, d) \in Seq(DecisionStates)
      /\ Len(Append(s, d)) = Len(s) + 1 /\ Append(s, d)[Len(s) + 1] = d
      /\ \A k \in 1..Len(s) : Append(s, d)[k] = s[k]
  BY <1>1, AppendProperties
<1>3. Len(s) = 0 \/ s # <<>>
  BY <1>1
<1>4. Len(s) = 0 => s = <<>>
  BY <1>1
<1>5. Last(s) = s[Len(s)]
  BY DEF Last
<1>6. Len(s) # 2
  BY <1>5, <1>1 DEF LogShape
<1>7. Len(s) = 1 => s[1] = "deferred" /\ d \notin UndecidedStates
  <2>1. Len(s) = 1 => s # <<>>
    OBVIOUS
  <2> QED
    BY <2>1, <1>5 DEF LogShape, UndecidedStates
<1>8. Len(s) = 0 \/ Len(s) = 1
  <2>1. PICK n \in Nat : n = Len(s)
    BY <1>1
  <2>2. n <= 2 /\ n # 2
    BY <1>1, <1>6, <2>1
  <2>3. n = 0 \/ n = 1
    BY <2>2
  <2> QED
    BY <2>1, <2>3
<1>9. LogShape(Append(s, d))
  <2>1. CASE Len(s) = 0
    BY <1>2, <2>1 DEF LogShape
  <2>2. CASE Len(s) = 1
    BY <1>2, <1>7, <2>2 DEF LogShape
  <2> QED
    BY <1>8, <2>1, <2>2
<1>10. Len(s) <= 1
  <2>1. PICK n \in Nat : n = Len(s)
    BY <1>1
  <2>2. n <= 1
    BY <1>8, <2>1
  <2> QED
    BY <2>1, <2>2
<1> QED
  BY <1>1, <1>2, <1>7, <1>9, <1>10

\* A step that leaves the requests, the clients and what they were told.
LEMMA ElsewhereKeeps ==
  ASSUME MailboxInv, RpcTypes', Grows, replays' \subseteq replays,
         UNCHANGED <<wire, client, told>>
  PROVE  MailboxInv'
<1>1. \A q \in wire' : Asked(q)' /\ Awaited(q, client'[q.by])
  BY AskedStays DEF MailboxInv
<1>2. \A r \in replays' : RecordSound(r)'
  BY RecordStays DEF MailboxInv
<1>3. ClaimsAgree'
  BY DEF MailboxInv, ClaimsAgree
<1>4. \A c \in Client : RowSound(c, client[c])'
  <2>1. SUFFICES ASSUME NEW c \in Client PROVE RowSound(c, client[c])'
    OBVIOUS
  <2>2. PICK row \in ClientRow : row = client[c]
    BY DEF MailboxInv, RpcTypes
  <2>3. RowSound(c, row)
    BY <2>2 DEF MailboxInv
  <2>4. RowSound(c, row)'
    BY <2>3, RowStays DEF MailboxInv
  <2> QED
    BY <2>2, <2>4
<1>5. \A t \in told' : ToldSound(t)'
  BY ToldStays DEF MailboxInv
<1>6. AcceptedOnce'
  BY DEF MailboxInv, AcceptedOnce, Decides
<1> QED
  BY <1>1, <1>2, <1>3, <1>4, <1>5, <1>6 DEF MailboxInv

LEMMA TimeKeeps == MailboxInv /\ (RpcTick \/ Revoke) => MailboxInv'
<1> SUFFICES ASSUME MailboxInv, RpcTick \/ Revoke PROVE MailboxInv'
  OBVIOUS
<1>1. /\ clock' \in 0..MaxClock /\ clock <= clock' /\ granted' \in BOOLEAN
      /\ UNCHANGED <<sent, log, claim, replays, wire, client, told>>
  <2>1. clock \in 0..MaxClock /\ clock \in Nat /\ MaxClock \in Nat /\ granted \in BOOLEAN
    BY RpcConstants DEF MailboxInv, RpcTypes
  <2>2. CASE RpcTick
    BY <2>1, <2>2 DEF RpcTick
  <2>3. CASE Revoke
    <3>1. granted' \in BOOLEAN
      BY <2>3 DEF Revoke
    <3>2. clock' = clock /\ UNCHANGED <<sent, log, claim, replays, wire, client, told>>
      BY <2>3 DEF Revoke
    <3> QED
      BY <2>1, <3>1, <3>2
  <2> QED
    BY <2>2, <2>3
<1>2. RpcTypes'
  BY <1>1 DEF MailboxInv, RpcTypes
<1>3. Grows
  BY <1>1 DEF Grows, ClaimState
<1> QED
  BY <1>1, <1>2, <1>3, ElsewhereKeeps

LEMMA ExpiryKeeps == MailboxInv /\ ExpireDue => MailboxInv'
<1> SUFFICES ASSUME MailboxInv, ExpireDue PROVE MailboxInv'
  OBVIOUS
<1>1. PICK due \in SUBSET Message :
        /\ \A m \in due : sent[m] # NoRow /\ StillOpen(m)
        /\ log' = [m \in Message |-> IF m \in due THEN Append(log[m], "expired") ELSE log[m]]
  BY DEF ExpireDue
<1>2. /\ UNCHANGED <<clock, granted, sent, claim, replays, wire, client, told>>
      /\ RpcTypes
  BY DEF ExpireDue, MailboxInv
<1>3. \A m \in due :
        /\ LogShape(Append(log[m], "expired")) /\ Len(Append(log[m], "expired")) = Len(log[m]) + 1
        /\ \A k \in 1..Len(log[m]) : Append(log[m], "expired")[k] = log[m][k]
        /\ Len(log[m]) \in Nat
  <2>1. SUFFICES ASSUME NEW m \in due
                 PROVE  /\ LogShape(Append(log[m], "expired"))
                        /\ Len(Append(log[m], "expired")) = Len(log[m]) + 1
                        /\ \A k \in 1..Len(log[m]) : Append(log[m], "expired")[k] = log[m][k]
                        /\ Len(log[m]) \in Nat
    OBVIOUS
  <2>2. LogShape(log[m]) /\ (log[m] # <<>> => Last(log[m]) \in UndecidedStates)
    BY <1>1, <1>2 DEF RpcTypes, StillOpen, Decision
  <2>3. "expired" \in DecisionStates \ {"pending"} /\ "expired" \notin UndecidedStates
    BY DEF DecisionStates, UndecidedStates
  <2> QED
    BY <2>2, <2>3, OneMoreDecision
<1>4. \A m \in Message :
        /\ LogShape(log'[m]) /\ log'[m] \in Seq(DecisionStates)
        /\ Len(log[m]) \in Nat /\ Len(log'[m]) \in Nat /\ Len(log[m]) <= Len(log'[m])
        /\ \A k \in 1..Len(log[m]) : log'[m][k] = log[m][k]
        /\ m \notin due => log'[m] = log[m]
  <2>1. SUFFICES ASSUME NEW m \in Message
                 PROVE  /\ LogShape(log'[m]) /\ log'[m] \in Seq(DecisionStates)
                        /\ Len(log[m]) \in Nat /\ Len(log'[m]) \in Nat /\ Len(log[m]) <= Len(log'[m])
                        /\ \A k \in 1..Len(log[m]) : log'[m][k] = log[m][k]
                        /\ m \notin due => log'[m] = log[m]
    OBVIOUS
  <2>2. log'[m] = IF m \in due THEN Append(log[m], "expired") ELSE log[m]
    BY <1>1
  <2>3. LogShape(log[m]) /\ Len(log[m]) \in Nat
    BY <1>2, LengthsAreNumbers DEF RpcTypes
  <2>4. LogShape(log'[m]) => log'[m] \in Seq(DecisionStates)
    BY DEF LogShape
  <2>5. CASE m \in due
    BY <1>3, <2>2, <2>3, <2>4, <2>5
  <2>6. CASE m \notin due
    BY <2>2, <2>3, <2>4, <2>6
  <2> QED
    BY <2>5, <2>6
<1>5. log' \in [Message -> Seq(DecisionStates)]
  BY <1>1, <1>4
<1>6. \A m \in Message : /\ Len(log'[m]) > 0 => sent[m] # NoRow
                         /\ claim[m] # NoRow => claim[m].rev \in Nat /\ claim[m].rev <= Len(log'[m])
  BY <1>1, <1>2, <1>4 DEF RpcTypes, ClaimRow
<1>7. RpcTypes'
  BY <1>2, <1>4, <1>5, <1>6 DEF RpcTypes
<1>8. Grows
  BY <1>2, <1>4 DEF Grows, ClaimState, RpcTypes
<1> QED
  BY <1>2, <1>7, <1>8, ElsewhereKeeps

LEMMA PurgeKeeps ==
  ASSUME MailboxInv, NEW cutoff \in 0..MaxClock, PurgeSensitiveContent(cutoff)
  PROVE  MailboxInv'
<1>1. PICK due \in SUBSET Message :
        /\ \A m \in due : sent[m] # NoRow /\ Expires(m) <= cutoff
        /\ sent' = [m \in Message |-> IF m \in due THEN [sent[m] EXCEPT !.purged = TRUE] ELSE sent[m]]
        /\ claim' = [m \in Message |-> IF m \in due THEN NoRow ELSE claim[m]]
  <2>1. PICK due \in SUBSET Message : due = {m \in Message : HasContent(m) /\ Expires(m) <= cutoff}
    OBVIOUS
  <2>2. \A m \in due : sent[m] # NoRow /\ Expires(m) <= cutoff
    BY <2>1 DEF HasContent
  <2> QED
    BY <2>1, <2>2 DEF PurgeSensitiveContent
<1>2. /\ UNCHANGED <<clock, granted, log, wire, client, told>>
      /\ replays' \subseteq replays /\ \A r \in replays : r.method # "send" => r \in replays'
      /\ RpcTypes /\ cutoff <= clock
  BY DEF PurgeSensitiveContent, MailboxInv
<1>3. \A m \in due : /\ sent[m] \in SentRow
                     /\ [sent[m] EXCEPT !.purged = TRUE] \in SentRow
                     /\ [sent[m] EXCEPT !.purged = TRUE].created = sent[m].created
  BY <1>1, <1>2 DEF RpcTypes, SentRow
<1>4. /\ sent' \in [Message -> {NoRow} \cup SentRow] /\ claim' \in [Message -> {NoRow} \cup ClaimRow]
  BY <1>1, <1>2, <1>3 DEF RpcTypes
<1>5. \A m \in Message : sent[m] # NoRow => sent'[m] # NoRow /\ sent'[m].created = sent[m].created
  BY <1>1, <1>3, NoRowIsNone
<1>6. \A m \in Message : claim'[m] # NoRow => claim'[m] = claim[m]
  BY <1>1
<1>7. RpcTypes'
  BY <1>2, <1>4, <1>5, <1>6 DEF RpcTypes
<1>8. ASSUME NEW m \in Message, ClaimState(m) = "acknowledged", Unexpired(m)'
      PROVE  ClaimState(m)' = "acknowledged"
  <2>1. m \notin due
    <3>1. SUFFICES ASSUME m \in due PROVE FALSE
      OBVIOUS
    <3>2. Expires(m) <= cutoff /\ Expires(m)' = Expires(m)
      BY <1>1, <1>5, <3>1 DEF Expires
    <3>3. sent[m].created \in Nat
      <4>1. sent[m] \in SentRow
        BY <1>3, <3>1
      <4> QED
        BY <4>1, RpcConstants DEF SentRow
    <3>4. Expires(m) \in Nat /\ clock \in Nat /\ clock' = clock
      BY <1>2, <3>3, RpcConstants DEF Expires, RpcTypes
    <3>5. clock < Expires(m)
      BY <1>8, <3>2, <3>4 DEF Unexpired
    <3> QED
      BY <1>2, <3>2, <3>4, <3>5, RpcConstants
  <2> QED
    BY <1>1, <1>8, <2>1 DEF ClaimState
<1>9. Grows
  BY <1>2, <1>5, <1>8, LengthsAreNumbers DEF Grows, RpcTypes
<1> QED
  BY <1>2, <1>7, <1>9, ElsewhereKeeps

(***************************************************************************)
(* A step in which one client moves.                                       *)
(***************************************************************************)
LEMMA ClientMoves ==
  ASSUME MailboxInv, RpcTypes', Grows, NEW c \in Client, NEW row \in ClientRow,
         client' = [client EXCEPT ![c] = row], RowSound(c, row)',
         \/ row = client[c]
         \/ row.calls = client[c].calls /\ row.at \in {"idle", "claimed"}
         \/ row.calls = client[c].calls + 1,
         \A q \in wire' : q \in wire \/ (q.by = c /\ Asked(q)' /\ Awaited(q, row)),
         \A r \in replays' : r \in replays \/ RecordSound(r)',
         \A t \in told' : t \in told \/ ToldSound(t)',
         ClaimsAgree', AcceptedOnce'
  PROVE  MailboxInv'
<1>1. /\ client \in [Client -> ClientRow] /\ client' \in [Client -> ClientRow]
      /\ client'[c] = row /\ \A d \in Client : d # c => client'[d] = client[d]
  BY DEF MailboxInv, RpcTypes
<1>2. ASSUME NEW q \in wire' PROVE Asked(q)' /\ Awaited(q, client'[q.by])
  <2>1. CASE q \in wire
    <3>1. Asked(q) /\ Awaited(q, client[q.by])
      BY <2>1 DEF MailboxInv
    <3>2. Asked(q)'
      BY <3>1, AskedStays DEF MailboxInv
    <3>3. CASE q.by # c
      BY <1>1, <3>1, <3>2, <3>3 DEF Asked
    <3>4. CASE q.by = c
      <4>1. /\ q.id <= client[c].calls /\ q.id \in Nat /\ client[c].calls \in Nat /\ row.calls \in Nat
            /\ q.method \in {"send", "claim", "ack", "respond"}
        BY <1>1, <3>1, <3>4 DEF Asked, Awaited, ClientRow
      <4>2. CASE row = client[c]
        BY <1>1, <3>1, <3>2, <3>4, <4>2
      <4>3. CASE row.calls = client[c].calls /\ row.at \in {"idle", "claimed"}
        <5>1. row.at # q.method /\ q.id <= row.calls
          BY <4>1, <4>3
        <5> QED
          BY <1>1, <3>2, <3>4, <5>1 DEF Awaited
      <4>4. CASE row.calls = client[c].calls + 1
        <5>1. row.calls # q.id /\ q.id <= row.calls
          BY <4>1, <4>4
        <5> QED
          BY <1>1, <3>2, <3>4, <5>1 DEF Awaited
      <4> QED
        BY <4>2, <4>3, <4>4
    <3> QED
      BY <3>3, <3>4
  <2>2. CASE q \notin wire
    BY <1>1, <2>2
  <2> QED
    BY <2>1, <2>2
<1>3. \A r \in replays' : RecordSound(r)'
  BY RecordStays DEF MailboxInv
<1>4. ASSUME NEW d \in Client PROVE RowSound(d, client[d])'
  <2>1. CASE d = c
    BY <1>1, <2>1
  <2>2. CASE d # c
    <3>1. PICK old \in ClientRow : old = client[d]
      BY <1>1
    <3>2. RowSound(d, old)
      BY <3>1 DEF MailboxInv
    <3>3. RowSound(d, old)'
      BY <3>2, RowStays DEF MailboxInv
    <3> QED
      BY <1>1, <2>2, <3>1, <3>3
  <2> QED
    BY <2>1, <2>2
<1>5. \A t \in told' : ToldSound(t)'
  BY ToldStays DEF MailboxInv
<1> QED
  BY <1>2, <1>3, <1>4, <1>5 DEF MailboxInv

\* A client's own step: a request, a poll, or giving up.
LEMMA ClientKeeps ==
  ASSUME MailboxInv, Elsewhere, NEW c \in Client, NEW row \in ClientRow,
         client' = [client EXCEPT ![c] = row], RowSound(c, row), row.calls <= Bound(c),
         \/ row.calls = client[c].calls /\ row.at \in {"idle", "claimed"}
         \/ row.calls = client[c].calls + 1,
         \A q \in wire' : q \in wire \/ (q.by = c /\ Asked(q) /\ Awaited(q, row))
  PROVE  MailboxInv'
<1>1. /\ UNCHANGED <<clock, granted, sent, log, claim, replays, told>>
      /\ RpcTypes /\ ClaimsAgree /\ AcceptedOnce
  BY DEF Elsewhere, MailboxInv
<1>2. client' \in [Client -> ClientRow] /\ \A d \in Client : client'[d].calls <= Bound(d)
  BY <1>1 DEF RpcTypes
<1>3. RpcTypes'
  BY <1>1, <1>2 DEF RpcTypes
<1>4. Grows
  <2>1. clock \in Nat /\ \A m \in Message : Len(log[m]) \in Nat
    BY <1>1, LengthsAreNumbers, RpcConstants DEF RpcTypes
  <2> QED
    BY <1>1, <2>1 DEF Grows, ClaimState
<1>5. RowSound(c, row)' /\ ClaimsAgree' /\ AcceptedOnce'
  <2>1. RowSound(c, row)'
    BY <1>1, <1>3, <1>4, RowStays
  <2>2. ClaimsAgree' /\ AcceptedOnce'
    BY <1>1 DEF ClaimsAgree, AcceptedOnce, Decides
  <2> QED
    BY <2>1, <2>2
<1>6. \A q \in wire' : q \in wire \/ (q.by = c /\ Asked(q)' /\ Awaited(q, row))
  BY <1>1, <1>3, <1>4, AskedStays
<1> QED
  BY <1>1, <1>3, <1>4, <1>5, <1>6, ClientMoves

LEMMA CallingRow ==
  ASSUME RpcTypes, NEW c \in Client, NEW method \in {"send", "claim", "ack", "respond"},
         NEW decision \in Choice \cup {"none"}, Waiting(c, method, decision)
  PROVE  \E row \in ClientRow :
           /\ client' = [client EXCEPT ![c] = row]
           /\ row.at = method /\ row.calls = client[c].calls + 1 /\ row.decision = decision
           /\ row.item = client[c].item /\ row.token = client[c].token
<1>1. PICK old \in ClientRow : old = client[c]
  BY DEF RpcTypes
<1>2. PICK row \in ClientRow :
        /\ row.at = method /\ row.calls = old.calls + 1 /\ row.decision = decision
        /\ row.item = old.item /\ row.token = old.token
        /\ row = [old EXCEPT !.at = method, !.calls = @ + 1, !.decision = decision]
  <2>1. PICK n \in Nat : n = old.calls + 1
    BY DEF ClientRow
  <2>2. PICK row \in ClientRow :
          /\ row.at = method /\ row.calls = n /\ row.decision = decision
          /\ row.item = old.item /\ row.token = old.token
          /\ row = [old EXCEPT !.at = method, !.calls = n, !.decision = decision]
    BY DEF ClientRow
  <2>3. row = [old EXCEPT !.at = method, !.calls = @ + 1, !.decision = decision]
    BY <2>1, <2>2
  <2> QED
    BY <2>1, <2>2, <2>3
<1>3. client' = [client EXCEPT ![c] = row]
  BY <1>1, <1>2 DEF Waiting, RpcTypes
<1> QED
  BY <1>1, <1>2, <1>3

LEMMA EndedRow ==
  ASSUME RpcTypes, NEW c \in Client, Ends(c)
  PROVE  \E row \in ClientRow :
           /\ client' = [client EXCEPT ![c] = row]
           /\ row.at = "idle" /\ row.calls = client[c].calls /\ row.item = client[c].item
<1>1. PICK old \in ClientRow : old = client[c]
  BY DEF RpcTypes
<1>2. PICK row \in ClientRow :
        /\ row.at = "idle" /\ row.calls = old.calls /\ row.item = old.item
        /\ row = [old EXCEPT !.at = "idle", !.token = <<>>, !.decision = "none"]
  BY DEF ClientRow, Token
<1>3. client' = [client EXCEPT ![c] = row]
  BY <1>1, <1>2 DEF Ends, RpcTypes
<1> QED
  BY <1>1, <1>2, <1>3

LEMMA RowSoundAtRest ==
  ASSUME MailboxInv, NEW c \in Client, NEW row \in ClientRow,
         row.at = "idle", row.item = client[c].item
  PROVE  RowSound(c, row)
BY DEF MailboxInv, RowSound

LEMMA AskKeeps ==
  ASSUME MailboxInv, Elsewhere, NEW c \in Client,
         NEW method \in {"send", "claim", "ack", "respond"},
         NEW decision \in Choice \cup {"none"}, NEW key, NEW params,
         Ask(c, method, key, params), Waiting(c, method, decision),
         \A q : (/\ q.by = c /\ q.id \in Nat /\ q.method = method
                 /\ q.key = key /\ q.params = params) => Asked(q),
         method # "send" => c \in Receiver /\ client[c].item # NoRow /\ decision \in Choice,
         method = "claim" => /\ params.m = client[c].item.m /\ params.rev = client[c].item.rev
                             /\ c \in Sdk => ~client[c].item.acked,
         method \in {"ack", "respond"} => params.decision = decision
  PROVE  MailboxInv'
<1>1. PICK row \in ClientRow :
        /\ client' = [client EXCEPT ![c] = row]
        /\ row.at = method /\ row.calls = client[c].calls + 1 /\ row.decision = decision
        /\ row.item = client[c].item /\ row.token = client[c].token
  BY CallingRow DEF MailboxInv
<1>2. RowSound(c, row)
  <2>1. RowSound(c, client[c])
    BY DEF MailboxInv
  <2> QED
    BY <1>1, <2>1 DEF RowSound
<1>3. client[c].calls \in Nat /\ client[c].calls < Bound(c) /\ Bound(c) \in Nat
  BY RpcConstants DEF MailboxInv, RpcTypes, ClientRow, Ask
<1>4. row.calls <= Bound(c)
  BY <1>1, <1>3
<1>5. ASSUME NEW q \in wire', q \notin wire
      PROVE  q.by = c /\ Asked(q) /\ Awaited(q, row)
  <2>1. q = [by |-> c, id |-> client[c].calls + 1, method |-> method, key |-> key, params |-> params]
    BY <1>5 DEF Ask
  <2>2. /\ q.by = c /\ q.id = client[c].calls + 1 /\ q.method = method
        /\ q.key = key /\ q.params = params
    BY <2>1
  <2>3. q.id \in Nat
    BY <1>3, <2>2
  <2>4. Asked(q)
    BY <2>2, <2>3
  <2>5. Awaited(q, row)
    BY <1>1, <2>2, <2>3 DEF Awaited
  <2> QED
    BY <2>2, <2>4, <2>5
<1>6. \/ row.calls = client[c].calls /\ row.at \in {"idle", "claimed"}
      \/ row.calls = client[c].calls + 1
  BY <1>1
<1> QED
  BY <1>1, <1>2, <1>4, <1>5, <1>6, ClientKeeps

\* The sender asks for a message created by now.
LEMMA SendAsked ==
  ASSUME RpcTypes, NEW m \in Message, NEW created \in 0..MaxClock, NEW key,
         NEW q, q.by = Sender, q.id \in Nat, q.method = "send", q.key = key,
         q.params = [m |-> m, created |-> created]
  PROVE  Asked(q)
BY DEF Asked, Client, SendParams

LEMMA SendsKeep ==
  ASSUME MailboxInv, NEW m \in Message, NEW created \in 0..MaxClock, NEW key,
         Ask(Sender, "send", key, [m |-> m, created |-> created]),
         Waiting(Sender, "send", "none"), Elsewhere
  PROVE  MailboxInv'
<1>1. Sender \in Client /\ RpcTypes
  BY DEF Client, MailboxInv
<1>2. PICK params : params = [m |-> m, created |-> created]
  OBVIOUS
<1>3. \A q : (/\ q.by = Sender /\ q.id \in Nat /\ q.method = "send"
              /\ q.key = key /\ q.params = params) => Asked(q)
  <2>1. ASSUME NEW q, q.by = Sender, q.id \in Nat, q.method = "send", q.key = key, q.params = params
        PROVE  Asked(q)
    BY <1>1, <1>2, <2>1, SendAsked
  <2> QED
    BY <2>1
<1>4. Ask(Sender, "send", key, params)
  BY <1>2
<1> QED
  BY <1>1, <1>3, <1>4, AskKeeps

LEMMA SenderKeeps ==
  ASSUME MailboxInv,
         \/ \E m \in Message : SendSuggestion(m)
         \/ \E m \in Message, key \in SendKey, created \in 0..MaxClock : SendEnvelope(m, key, created)
  PROVE  MailboxInv'
<1>1. CASE \E m \in Message : SendSuggestion(m)
  <2>1. PICK m \in Message : SendSuggestion(m)
    BY <1>1
  <2>2. PICK created \in 0..MaxClock : created = clock
    BY DEF MailboxInv, RpcTypes
  <2> QED
    BY <2>1, <2>2, SendsKeep DEF SendSuggestion
<1>2. CASE \E m \in Message, key \in SendKey, created \in 0..MaxClock : SendEnvelope(m, key, created)
  BY <1>2, SendsKeep DEF SendEnvelope
<1> QED
  BY <1>1, <1>2

\* What a receiver works on.
LEMMA ItemInHand ==
  ASSUME MailboxInv, NEW c \in Receiver, client[c].item # NoRow
  PROVE  /\ c \in Client /\ client[c].item \in Item /\ client[c].item.m \in Message
         /\ client[c].item.rev \in 0..2
         /\ sent[client[c].item.m] # NoRow /\ client[c].item.rev <= Len(log[client[c].item.m])
         /\ c \in Sdk /\ ~client[c].item.acked => ~AckedBefore(client[c].item.m, client[c].item.rev)
<1>1. c \in Client
  BY DEF Client
<1>2. client[c].item \in Item
  BY <1>1 DEF MailboxInv, RpcTypes, ClientRow
<1>3. RowSound(c, client[c])
  BY <1>1 DEF MailboxInv
<1> QED
  BY <1>1, <1>2, <1>3 DEF RowSound, Item

LEMMA RespondKeeps ==
  ASSUME MailboxInv, NEW c \in Receiver, NEW decision \in Choice,
         client[c].item # NoRow, AsksRespond(c, decision), Elsewhere
  PROVE  MailboxInv'
<1>1. PICK item \in Item : item = client[c].item
  BY ItemInHand
<1>2. PICK params : params = [m |-> item.m, rev |-> item.rev, decision |-> decision]
  OBVIOUS
<1>3. PICK key : key = RespondKey(c, item, decision)
  OBVIOUS
<1>4. params \in RespondParams /\ params.m = item.m /\ params.rev = item.rev /\ params.decision = decision
  BY <1>1, <1>2 DEF RespondParams, Item
<1>5. /\ c \in Sdk => key = <<"respond", item.m, item.rev, decision>>
      /\ c \notin Sdk => key = <<"respond", item.m, decision>>
  BY <1>3 DEF RespondKey
<1>6. \A q : (/\ q.by = c /\ q.id \in Nat /\ q.method = "respond"
              /\ q.key = key /\ q.params = params) => Asked(q)
  <2>1. /\ c \in Client /\ c # Sender /\ item.m \in Message /\ sent[item.m] # NoRow
        /\ item.rev \in 0..2 /\ item.rev <= Len(log[item.m])
    BY <1>1, ItemInHand, RpcConstants
  <2>2. SUFFICES ASSUME NEW q, q.by = c, q.id \in Nat, q.method = "respond", q.key = key, q.params = params
                 PROVE  Asked(q)
    OBVIOUS
  <2> QED
    BY <2>1, <2>2, <1>4, <1>5 DEF Asked
<1>7. Ask(c, "respond", key, params) /\ Waiting(c, "respond", decision)
  BY <1>1, <1>2, <1>3 DEF AsksRespond
<1> QED
  BY <1>1, <1>4, <1>6, <1>7, ItemInHand, AskKeeps

LEMMA DecidesKeeps ==
  ASSUME MailboxInv, NEW c \in Receiver, NEW decision \in Choice, ClientDecides(c, decision)
  PROVE  MailboxInv'
<1>1. client[c].item # NoRow /\ Elsewhere
  BY DEF ClientDecides
<1>2. PICK item \in Item : item = client[c].item
  BY <1>1, ItemInHand
<1>3. CASE c \in Sdk /\ item.acked
  BY <1>1, <1>2, <1>3, RespondKeeps DEF ClientDecides
<1>4. CASE ~(c \in Sdk /\ item.acked)
  <2>1. PICK params : params = [m |-> item.m, rev |-> item.rev]
    OBVIOUS
  <2>2. PICK key : key = ClaimKey(c, item)
    OBVIOUS
  <2>3. params \in ClaimParams /\ params.m = item.m /\ params.rev = item.rev
    BY <1>2, <2>1 DEF ClaimParams, Item
  <2>4. /\ c \in Sdk => key = <<"claim", item.m, item.rev>>
        /\ c \notin Sdk => key = <<"claim", item.m>>
    BY <2>2 DEF ClaimKey
  <2>5. \A q : (/\ q.by = c /\ q.id \in Nat /\ q.method = "claim"
                /\ q.key = key /\ q.params = params) => Asked(q)
    <3>1. /\ c \in Client /\ c # Sender /\ item.m \in Message /\ sent[item.m] # NoRow
          /\ item.rev \in 0..2 /\ item.rev <= Len(log[item.m])
      BY <1>1, <1>2, ItemInHand, RpcConstants
    <3>2. SUFFICES ASSUME NEW q, q.by = c, q.id \in Nat, q.method = "claim", q.key = key, q.params = params
                   PROVE  Asked(q)
      OBVIOUS
    <3> QED
      BY <3>1, <3>2, <2>3, <2>4 DEF Asked
  <2>6. Ask(c, "claim", key, params) /\ Waiting(c, "claim", decision)
    BY <1>2, <1>4, <2>1, <2>2 DEF ClientDecides
  <2> QED
    BY <1>1, <1>2, <1>4, <2>3, <2>5, <2>6, ItemInHand, AskKeeps
<1> QED
  BY <1>3, <1>4

LEMMA AcknowledgeKeeps ==
  ASSUME MailboxInv, NEW c \in Receiver, Acknowledge(c)
  PROVE  MailboxInv'
<1>1. /\ client[c].at = "claimed" /\ Elsewhere /\ c \in Client
      /\ RowSound(c, client[c]) /\ client[c] \in ClientRow
  BY DEF Acknowledge, Client, MailboxInv, RpcTypes
<1>2. client[c].item # NoRow /\ client[c].decision \in Choice
  BY <1>1 DEF RowSound
<1>3. PICK item \in Item : item = client[c].item
  BY <1>2, ItemInHand
<1>4. PICK decision \in Choice : decision = client[c].decision
  BY <1>2
<1>5. PICK token \in Token : token = client[c].token
  BY <1>1 DEF ClientRow
<1>6. c \in Sdk => ClaimedAt(item.m, item.rev, token) /\ ~AckedBefore(item.m, item.rev)
  BY <1>1, <1>2, <1>3, <1>5, ItemInHand DEF RowSound
<1>7. PICK params : params = [m |-> item.m, rev |-> item.rev, token |-> token, decision |-> decision]
  OBVIOUS
<1>8. PICK key : key = AckKey(c, item, decision)
  OBVIOUS
<1>9. /\ params \in AckParams /\ params.m = item.m /\ params.rev = item.rev
      /\ params.decision = decision /\ params.token = token
  BY <1>3, <1>7 DEF AckParams, Item
<1>10. /\ c \in Sdk => key = <<"ack", item.m, decision>>
       /\ c \notin Sdk => key = <<"ack", item.m>>
  BY <1>8 DEF AckKey
<1>11. \A q : (/\ q.by = c /\ q.id \in Nat /\ q.method = "ack"
               /\ q.key = key /\ q.params = params) => Asked(q)
  <2>1. /\ c \in Client /\ c # Sender /\ item.m \in Message /\ sent[item.m] # NoRow
        /\ item.rev \in 0..2 /\ item.rev <= Len(log[item.m])
    BY <1>2, <1>3, ItemInHand, RpcConstants
  <2>2. SUFFICES ASSUME NEW q, q.by = c, q.id \in Nat, q.method = "ack", q.key = key, q.params = params
                 PROVE  Asked(q)
    OBVIOUS
  <2> QED
    BY <2>1, <2>2, <1>6, <1>9, <1>10 DEF Asked
<1>12. Ask(c, "ack", key, params) /\ Waiting(c, "ack", decision)
  BY <1>3, <1>4, <1>5, <1>7, <1>8 DEF Acknowledge
<1> QED
  BY <1>1, <1>2, <1>9, <1>11, <1>12, AskKeeps

LEMMA GiveUpKeeps ==
  ASSUME MailboxInv, NEW c \in Client, GiveUp(c)
  PROVE  MailboxInv'
<1>1. Ends(c) /\ Elsewhere /\ wire' = wire /\ RpcTypes
  BY DEF GiveUp, MailboxInv
<1>2. PICK row \in ClientRow :
        /\ client' = [client EXCEPT ![c] = row]
        /\ row.at = "idle" /\ row.calls = client[c].calls /\ row.item = client[c].item
  BY <1>1, EndedRow
<1>3. RowSound(c, row) /\ row.calls <= Bound(c)
  BY <1>1, <1>2, RowSoundAtRest DEF RpcTypes
<1> QED
  BY <1>1, <1>2, <1>3, ClientKeeps

LEMMA PollKeeps ==
  ASSUME MailboxInv, NEW c \in Receiver, NEW m \in Message, Poll(c, m)
  PROVE  MailboxInv'
<1>1. /\ client[c].at = "idle" /\ Listed(m) /\ Elsewhere /\ wire' = wire
      /\ c \in Client /\ RpcTypes /\ RowSound(c, client[c])
  BY DEF Poll, MailboxInv, Client
<1>2. PICK old \in ClientRow : old = client[c]
  BY <1>1 DEF RpcTypes
<1>3. PICK acked \in BOOLEAN : acked = (ClaimState(m) = "acknowledged")
  OBVIOUS
<1>4. PICK rev \in 0..2 : rev = Len(log[m])
  <2>1. Len(log[m]) \in Nat /\ Len(log[m]) <= 2
    BY <1>1, LengthsAreNumbers DEF RpcTypes, LogShape
  <2>2. PICK n \in Nat : n = Len(log[m])
    BY <2>1
  <2>3. n <= 2
    BY <2>1, <2>2
  <2>4. n \in 0..2
    BY <2>3
  <2> QED
    BY <2>2, <2>4
<1>5. PICK item \in Item : item = [m |-> m, rev |-> rev, acked |-> acked]
  BY DEF Item
<1>6. item = ListedItem(m) /\ item # NoRow
  BY <1>3, <1>4, <1>5, NoRowIsNone DEF ListedItem, Revision
<1>7. PICK row \in ClientRow :
        /\ row = [old EXCEPT !.item = item]
        /\ row.item = item /\ row.at = old.at /\ row.calls = old.calls
  <2>1. item \in {NoRow} \cup Item
    OBVIOUS
  <2>2. [old EXCEPT !.item = item] \in ClientRow
    BY <2>1 DEF ClientRow
  <2> QED
    BY <2>2 DEF ClientRow
<1>8. client' = [client EXCEPT ![c] = row]
  BY <1>1, <1>2, <1>6, <1>7 DEF Poll, RpcTypes
<1>9. ~acked => ~AckedBefore(m, rev)
  <2>1. SUFFICES ASSUME ~acked, NEW r \in replays, r.method = "ack", r.params.m = m PROVE FALSE
    BY DEF AckedBefore
  <2>2. RecordSound(r)
    BY DEF MailboxInv
  <2>3. Unexpired(m)
    BY <1>1 DEF Listed
  <2> QED
    BY <1>3, <2>1, <2>2, <2>3 DEF RecordSound
<1>10. RowSound(c, row)
  <2>1. item.m = m /\ item.rev = rev /\ item.acked = acked
    BY <1>5
  <2>2. sent[m] # NoRow
    BY <1>1 DEF Listed
  <2>3. row.at = "idle" /\ row.item = item
    BY <1>1, <1>2, <1>7
  <2> QED
    BY <1>4, <1>9, <2>1, <2>2, <2>3 DEF RowSound
<1>11. row.calls = client[c].calls /\ row.at \in {"idle", "claimed"} /\ row.calls <= Bound(c)
  BY <1>1, <1>2, <1>7 DEF RpcTypes
<1> QED
  BY <1>1, <1>8, <1>10, <1>11, ClientKeeps

(***************************************************************************)
(* A request handled: what becomes of the client that asked.               *)
(***************************************************************************)
LEMMA AskersKnown ==
  ASSUME MailboxInv, NEW q, Asked(q)
  PROVE  q.by \in Client /\ q.params.m \in Message /\ client[q.by] \in ClientRow
<1>1. q.by \in Client /\ client[q.by] \in ClientRow
  BY DEF Asked, MailboxInv, RpcTypes
<1> QED
  BY <1>1, TypedParams DEF Asked

LEMMA AnsweredRow ==
  ASSUME MailboxInv, NEW q, Asked(q), NEW value, NEW replay, Answers(q, value, replay),
         q.method = "claim" => value.token \in Token
  PROVE  \E row \in ClientRow :
           /\ client' = [client EXCEPT ![q.by] = row]
           /\ row.item = client[q.by].item /\ row.calls = client[q.by].calls
           /\ \/ row = client[q.by] /\ told' = told
              \/ /\ row.at = "idle" /\ q.method # "claim" /\ Waits(q)
                 /\ Told(q, "ok", value.rev, value.content, replay)
              \/ /\ row.at = "claimed" /\ q.method = "claim" /\ Waits(q) /\ told' = told
                 /\ row.token = value.token /\ row.decision = client[q.by].decision
<1>1. /\ q.by \in Client /\ RpcTypes
  BY AskersKnown DEF MailboxInv
<1>2. PICK old \in ClientRow : old = client[q.by]
  BY AskersKnown
<1>3. CASE ~Waits(q)
  <2>1. client' = client /\ told' = told
    BY <1>3 DEF Answers, Lost
  <2>2. client' = [client EXCEPT ![q.by] = old]
    BY <1>1, <1>2, <2>1 DEF RpcTypes
  <2> QED
    BY <1>2, <2>1, <2>2
<1>4. CASE Waits(q) /\ q.method # "claim"
  <2>1. Ends(q.by) /\ Told(q, "ok", value.rev, value.content, replay)
    BY <1>4 DEF Answers, Resolve
  <2>2. PICK row \in ClientRow :
          /\ client' = [client EXCEPT ![q.by] = row]
          /\ row.at = "idle" /\ row.calls = client[q.by].calls /\ row.item = client[q.by].item
    BY <1>1, <2>1, EndedRow
  <2> QED
    BY <1>4, <2>1, <2>2
<1>5. CASE Waits(q) /\ q.method = "claim"
  <2>1. PICK token \in Token : token = value.token
    BY <1>5
  <2>2. /\ client' = [client EXCEPT ![q.by].at = "claimed", ![q.by].token = token]
        /\ told' = told
    BY <1>5, <2>1 DEF Answers, Resolve
  <2>3. PICK row \in ClientRow :
          /\ row = [old EXCEPT !.at = "claimed", !.token = token]
          /\ row.at = "claimed" /\ row.token = token /\ row.item = old.item
          /\ row.calls = old.calls /\ row.decision = old.decision
    <3>1. [old EXCEPT !.at = "claimed", !.token = token] \in ClientRow
      BY DEF ClientRow
    <3> QED
      BY <3>1 DEF ClientRow
  <2>4. client' = [client EXCEPT ![q.by] = row]
    BY <1>1, <1>2, <2>2, <2>3 DEF RpcTypes
  <2> QED
    BY <1>2, <1>5, <2>1, <2>2, <2>3, <2>4
<1> QED
  BY <1>3, <1>4, <1>5

LEMMA RejectedRow ==
  ASSUME MailboxInv, NEW q, Asked(q), NEW code, Rejects(q, code)
  PROVE  \E row \in ClientRow :
           /\ client' = [client EXCEPT ![q.by] = row]
           /\ row.item = client[q.by].item /\ row.calls = client[q.by].calls
           /\ \/ row = client[q.by] /\ told' = told
              \/ /\ row.at = "idle"
                 /\ \/ told' = told
                    \/ code = "conflict" /\ Waits(q) /\ Told(q, "conflict", 0, FALSE, FALSE)
<1>1. /\ q.by \in Client /\ RpcTypes
  BY AskersKnown DEF MailboxInv
<1>2. PICK old \in ClientRow : old = client[q.by]
  BY AskersKnown
<1>3. CASE ~Waits(q)
  <2>1. client' = client /\ told' = told
    BY <1>3 DEF Rejects, Lost
  <2>2. client' = [client EXCEPT ![q.by] = old]
    BY <1>1, <1>2, <2>1 DEF RpcTypes
  <2> QED
    BY <1>2, <2>1, <2>2
<1>4. CASE Waits(q)
  <2>1. /\ Ends(q.by)
        /\ told' = told \/ (code = "conflict" /\ Told(q, "conflict", 0, FALSE, FALSE))
    BY <1>4 DEF Rejects, Fails
  <2>2. PICK row \in ClientRow :
          /\ client' = [client EXCEPT ![q.by] = row]
          /\ row.at = "idle" /\ row.calls = client[q.by].calls /\ row.item = client[q.by].item
    BY <1>1, <2>1, EndedRow
  <2> QED
    BY <1>4, <2>1, <2>2
<1> QED
  BY <1>3, <1>4

\* The row of a client whose request was handled is sound again.
LEMMA HandledRow ==
  ASSUME MailboxInv, RpcTypes', Grows, NEW q, Asked(q), Awaited(q, client[q.by]),
         NEW row \in ClientRow,
         row.item = client[q.by].item,
         \/ row = client[q.by]
         \/ row.at = "idle"
         \/ /\ row.at = "claimed" /\ q.method = "claim" /\ Waits(q)
            /\ row.decision = client[q.by].decision
            /\ q.by \in Sdk => ClaimedAt(q.params.m, q.params.rev, row.token)'
  PROVE  RowSound(q.by, row)'
<1>1. q.by \in Client /\ RowSound(q.by, client[q.by]) /\ RpcTypes
  BY AskersKnown DEF MailboxInv
<1>2. CASE row = client[q.by]
  BY <1>1, <1>2, RowStays
<1>3. CASE row.at = "idle"
  BY <1>1, <1>3, RowSoundAtRest, RowStays
<1>4. CASE /\ row.at = "claimed" /\ q.method = "claim" /\ Waits(q)
           /\ row.decision = client[q.by].decision
           /\ q.by \in Sdk => ClaimedAt(q.params.m, q.params.rev, row.token)'
  <2>1. PICK old \in ClientRow : old = client[q.by]
    BY AskersKnown
  <2>2. old.at = "claim" /\ old.item.m = q.params.m /\ old.item.rev = q.params.rev
    BY <1>4, <2>1 DEF Waits, Awaited
  <2>3. RowSound(q.by, old)'
    BY <1>1, <2>1, RowStays
  <2>4. RowSound(q.by, old)
    BY <1>1, <2>1
  <2> QED
    BY <1>4, <2>1, <2>2, <2>3, <2>4 DEF RowSound
<1> QED
  BY <1>2, <1>3, <1>4

\* What an allowed decision does to the disposition.
LEMMA Responded ==
  ASSUME MailboxInv, NEW m \in Message, NEW decision \in Choice,
         DecisionMay(Decision(m), decision)
  PROVE  /\ LogShape(Append(log[m], decision))
         /\ Len(Append(log[m], decision)) = Len(log[m]) + 1
         /\ Append(log[m], decision)[Len(log[m]) + 1] = decision
         /\ \A k \in 1..Len(log[m]) : Append(log[m], decision)[k] = log[m][k]
         /\ Len(log[m]) <= 1 /\ Len(log[m]) \in Nat
         /\ Len(log[m]) = 1 => log[m][1] = "deferred"
<1>1. LogShape(log[m]) /\ Len(log[m]) \in Nat
  BY LengthsAreNumbers DEF MailboxInv, RpcTypes
<1>2. decision \in {"accepted", "rejected", "deferred"}
  BY RpcConstants
<1>3. decision \in DecisionStates \ {"pending"}
  BY <1>2 DEF DecisionStates, UndecidedStates
<1>4. log[m] # <<>> => Last(log[m]) \in UndecidedStates /\ decision \notin UndecidedStates
  <2>1. SUFFICES ASSUME log[m] # <<>>
                 PROVE  Last(log[m]) \in UndecidedStates /\ decision \notin UndecidedStates
    OBVIOUS
  <2>2. <<Last(log[m]), decision>> \in DecisionTable
    BY <2>1 DEF DecisionMay, Decision
  <2>3. Last(log[m]) # "pending"
    <3>1. PICK n \in Nat : n = Len(log[m])
      BY <1>1
    <3>2. n # 0 /\ n <= 2
      BY <1>1, <2>1, <3>1 DEF LogShape
    <3>3. n = 1 \/ n = 2
      BY <3>2
    <3>4. n = 1 => log[m][1] # "pending"
      BY <1>1, <3>1 DEF LogShape
    <3>5. n = 2 => log[m][2] # "pending"
      BY <1>1, <3>1 DEF LogShape, UndecidedStates
    <3>6. Last(log[m]) = log[m][n]
      BY <3>1 DEF Last
    <3> QED
      BY <3>3, <3>4, <3>5, <3>6
  <2> QED
    BY <1>2, <2>2, <2>3 DEF DecisionTable, UndecidedStates
<1> QED
  BY <1>1, <1>3, <1>4, OneMoreDecision

(***************************************************************************)
(* Requests whose key has a record.                                        *)
(***************************************************************************)
LEMMA TuplesApart ==
  /\ \A a, b, c, d, e : <<a, b>> # <<c, d, e>>
  /\ \A a, b, c, d, e, f, g : <<a, b, c>> # <<d, e, f, g>>
<1>1. /\ \A a, b : DOMAIN <<a, b>> = 1..2
      /\ \A a, b, c : DOMAIN <<a, b, c>> = 1..3
      /\ \A a, b, c, d : DOMAIN <<a, b, c, d>> = 1..4
  OBVIOUS
<1>2. 1..2 # 1..3 /\ 1..3 # 1..4
  <2>1. 3 \in 1..3 /\ 3 \notin 1..2 /\ 4 \in 1..4 /\ 4 \notin 1..3
    OBVIOUS
  <2> QED
    BY <2>1, Zenon
<1> QED
  BY <1>1, <1>2, Zenon

LEMMA ParamsAlike ==
  /\ \A p, q \in ClaimParams : p.m = q.m /\ p.rev = q.rev => p = q
  /\ \A p, q \in RespondParams : p.m = q.m /\ p.rev = q.rev /\ p.decision = q.decision => p = q
  /\ \A p, q \in AckParams :
       p.m = q.m /\ p.rev = q.rev /\ p.token = q.token /\ p.decision = q.decision => p = q
BY DEF ClaimParams, RespondParams, AckParams

LEMMA ConflictIsLate ==
  ASSUME MailboxInv, NEW q, Asked(q), q.by \in Sdk, NEW r \in Recorded(q), r.params # q.params
  PROVE  /\ q.method = "ack" /\ Len(log[q.params.m]) >= 2
         /\ log[q.params.m][1] = "deferred" /\ log[q.params.m][2] = q.params.decision
<1>1. /\ r \in replays /\ r.method = q.method /\ r.key = q.key /\ RecordSound(r)
  BY DEF Recorded, MailboxInv
<1>2. q.method # "send"
  BY RpcConstants DEF Asked, Receiver
<1>3. q.method # "claim"
  <2>1. SUFFICES ASSUME q.method = "claim" PROVE FALSE
    OBVIOUS
  <2>2. r.params \in ClaimParams /\ q.params \in ClaimParams /\ q.key = <<"claim", q.params.m, q.params.rev>>
    BY <1>1, <2>1 DEF RecordSound, Asked
  <2>3. r.key = <<"claim", r.params.m, r.params.rev>>
    BY <1>1, <2>1, <2>2, TuplesApart DEF RecordSound
  <2>4. r.params.m = q.params.m /\ r.params.rev = q.params.rev
    BY <1>1, <2>2, <2>3
  <2> QED
    BY <2>2, <2>4, ParamsAlike
<1>4. q.method # "respond"
  <2>1. SUFFICES ASSUME q.method = "respond" PROVE FALSE
    OBVIOUS
  <2>2. /\ r.params \in RespondParams /\ q.params \in RespondParams
        /\ q.key = <<"respond", q.params.m, q.params.rev, q.params.decision>>
    BY <1>1, <2>1 DEF RecordSound, Asked
  <2>3. r.key = <<"respond", r.params.m, r.params.rev, r.params.decision>>
    BY <1>1, <2>1, <2>2, TuplesApart DEF RecordSound
  <2>4. r.params.m = q.params.m /\ r.params.rev = q.params.rev /\ r.params.decision = q.params.decision
    BY <1>1, <2>2, <2>3
  <2> QED
    BY <2>2, <2>4, ParamsAlike
<1>5. q.method = "ack"
  BY <1>2, <1>3, <1>4 DEF Asked
<1>6. /\ r.params \in AckParams /\ q.params \in AckParams
      /\ q.key = <<"ack", q.params.m, q.params.decision>>
      /\ ClaimedAt(q.params.m, q.params.rev, q.params.token)
      /\ ~AckedBefore(q.params.m, q.params.rev)
  BY <1>1, <1>5 DEF RecordSound, Asked
<1>7. /\ r.key = <<"ack", r.params.m, r.params.decision>>
      /\ ClaimedAt(r.params.m, r.params.rev, r.params.token)
  BY <1>1, <1>5, <1>6, TuplesApart DEF RecordSound
<1>8. r.params.m = q.params.m /\ r.params.decision = q.params.decision
  BY <1>1, <1>6, <1>7
<1>9. /\ r.params.rev \in Nat /\ q.params.rev \in Nat /\ q.params.m \in Message
  BY <1>6, TypedParams
<1>10. r.params.rev # q.params.rev
  <2>1. SUFFICES ASSUME r.params.rev = q.params.rev PROVE FALSE
    OBVIOUS
  <2>2. r.params.token = q.params.token
    BY <1>6, <1>7, <1>8, <2>1 DEF ClaimedAt, MailboxInv, ClaimsAgree
  <2> QED
    BY <1>6, <1>8, <2>1, <2>2, ParamsAlike
<1>11. ~(r.params.rev < q.params.rev)
  BY <1>1, <1>5, <1>6, <1>8 DEF AckedBefore
<1>12. /\ r.value.rev = r.params.rev + 1 /\ r.value.rev <= Len(log[q.params.m])
       /\ log[q.params.m][r.value.rev] = q.params.decision
  BY <1>1, <1>5, <1>8 DEF RecordSound
<1>13. LogShape(log[q.params.m]) /\ Len(log[q.params.m]) \in Nat
  BY <1>9, LengthsAreNumbers DEF MailboxInv, RpcTypes
<1>14. r.params.rev >= 1
  BY <1>9, <1>10, <1>11
<1>15. PICK n \in Nat : n = Len(log[q.params.m]) /\ n <= 2
  BY <1>13 DEF LogShape
<1>16. n = 2 /\ r.value.rev = 2
  <2>1. PICK k \in Nat : k = r.params.rev
    BY <1>9
  <2>2. k >= 1 /\ r.value.rev = k + 1
    BY <1>12, <1>14, <2>1
  <2>3. k + 1 <= n
    BY <1>12, <1>15, <2>2
  <2>4. k >= 1 /\ n <= 2
    BY <1>15, <2>2
  <2>5. k = 1 /\ n = 2
    BY <2>3, <2>4
  <2> QED
    BY <2>2, <2>5
<1> QED
  BY <1>5, <1>12, <1>13, <1>15, <1>16 DEF LogShape

\* A request handled without effect on the mailbox.
LEMMA UnmovedGrows ==
  ASSUME MailboxInv, NEW c \in Client, NEW row \in ClientRow,
         client' = [client EXCEPT ![c] = row], row.calls = client[c].calls,
         UNCHANGED <<clock, granted, sent, log, claim, replays>>
  PROVE  RpcTypes' /\ Grows /\ ClaimsAgree'
<1>1. RpcTypes /\ ClaimsAgree
  BY DEF MailboxInv
<1>2. client' \in [Client -> ClientRow] /\ \A d \in Client : client'[d].calls <= Bound(d)
  BY <1>1 DEF RpcTypes
<1>3. RpcTypes'
  BY <1>1, <1>2 DEF RpcTypes
<1>4. Grows
  <2>1. clock \in Nat /\ \A m \in Message : Len(log[m]) \in Nat
    BY <1>1, LengthsAreNumbers, RpcConstants DEF RpcTypes
  <2> QED
    BY <2>1 DEF Grows, ClaimState
<1> QED
  BY <1>1, <1>3, <1>4 DEF ClaimsAgree

\* What is told of a request that changed nothing.
LEMMA ConflictTold ==
  ASSUME MailboxInv, RpcTypes', Grows, NEW q, Asked(q), Awaited(q, client[q.by]), Waits(q),
         Told(q, "conflict", 0, FALSE, FALSE),
         q.by \in Sdk => \E r \in Recorded(q) : r.params # q.params
  PROVE  (\A t \in told' : t \in told \/ ToldSound(t)') /\ AcceptedOnce'
<1>1. PICK t : /\ told' = told \cup {t}
               /\ t.by = q.by /\ t.m = q.params.m /\ t.method = q.method /\ t.code = "conflict"
               /\ t.ask = client[q.by].decision
  <2>1. PICK t : t = [by |-> q.by, m |-> q.params.m, ask |-> client[q.by].decision,
                      method |-> q.method, code |-> "conflict", rev |-> 0, content |-> FALSE,
                      replay |-> FALSE]
    OBVIOUS
  <2>2. told' = told \cup {t}
    BY <2>1 DEF Told
  <2>3. /\ t.by = q.by /\ t.m = q.params.m /\ t.method = q.method /\ t.code = "conflict"
        /\ t.ask = client[q.by].decision
    BY <2>1
  <2> QED
    BY <2>2, <2>3, Zenon
<1>2. ToldSound(t)
  <2>1. t.m \in Message
    BY <1>1, AskersKnown
  <2>2. ~Decides(t)
    BY <1>1 DEF Decides
  <2>3. ASSUME q.by \in Sdk
        PROVE  /\ q.method = "ack" /\ Len(log[t.m]) >= 2
               /\ log[t.m][1] = "deferred" /\ log[t.m][2] = t.ask
    <3>1. /\ q.method = "ack" /\ Len(log[q.params.m]) >= 2
          /\ log[q.params.m][1] = "deferred" /\ log[q.params.m][2] = q.params.decision
      BY <2>3, ConflictIsLate
    <3>2. client[q.by].decision = q.params.decision
      BY <3>1 DEF Waits, Awaited
    <3> QED
      BY <1>1, <3>1, <3>2
  <2> QED
    BY <1>1, <2>1, <2>2, <2>3 DEF ToldSound
<1>3. ToldSound(t)'
  BY <1>2, ToldStays DEF MailboxInv
<1>4. AcceptedOnce'
  BY <1>1 DEF AcceptedOnce, Decides, MailboxInv
<1> QED
  BY <1>1, <1>3, <1>4

LEMMA RejectKeeps ==
  ASSUME MailboxInv, NEW q \in wire, NEW code, Rejects(q, code),
         UNCHANGED <<clock, granted, sent, log, claim, replays>>, wire' = wire \ {q},
         code = "conflict" /\ q.by \in Sdk => \E r \in Recorded(q) : r.params # q.params
  PROVE  MailboxInv'
<1>1. Asked(q) /\ Awaited(q, client[q.by]) /\ q.by \in Client
  BY AskersKnown DEF MailboxInv
<1>2. PICK row \in ClientRow :
           /\ client' = [client EXCEPT ![q.by] = row]
           /\ row.item = client[q.by].item /\ row.calls = client[q.by].calls
           /\ \/ row = client[q.by] /\ told' = told
              \/ /\ row.at = "idle"
                 /\ \/ told' = told
                    \/ code = "conflict" /\ Waits(q) /\ Told(q, "conflict", 0, FALSE, FALSE)
  BY <1>1, RejectedRow
<1>3. RpcTypes' /\ Grows /\ ClaimsAgree'
  BY <1>1, <1>2, UnmovedGrows
<1>4. RowSound(q.by, row)'
  BY <1>1, <1>2, <1>3, HandledRow
<1>5. (\A t \in told' : t \in told \/ ToldSound(t)') /\ AcceptedOnce'
  <2>1. CASE told' = told
    BY <2>1 DEF AcceptedOnce, Decides, MailboxInv
  <2>2. CASE code = "conflict" /\ Waits(q) /\ Told(q, "conflict", 0, FALSE, FALSE)
    BY <1>1, <1>3, <2>2, ConflictTold
  <2> QED
    BY <1>2, <2>1, <2>2
<1>6. \/ row = client[q.by]
      \/ row.calls = client[q.by].calls /\ row.at \in {"idle", "claimed"}
  BY <1>2
<1> QED
  BY <1>1, <1>2, <1>3, <1>4, <1>5, <1>6, ClientMoves

LEMMA ConflictsKeep == ASSUME MailboxInv, NEW q \in wire, Handle(q), Conflicts(q) PROVE MailboxInv'
BY RejectKeeps DEF Handle, Conflicts

LEMMA RefusesKeep == ASSUME MailboxInv, NEW q \in wire, Handle(q), Refuses(q) PROVE MailboxInv'
<1>1. Asked(q)
  BY DEF MailboxInv
<1>2. Code(q) = "conflict" => q.by \notin Sdk
  BY <1>1, RpcConstants DEF Code, Asked, Receiver
<1> QED
  BY <1>2, RejectKeeps DEF Handle, Refuses

\* What is told of a request that succeeded, now or before.
LEMMA SuccessTold ==
  ASSUME MailboxInv, RpcTypes', Grows, NEW q, Asked(q), Awaited(q, client[q.by]), Waits(q),
         NEW value, NEW replay, Told(q, "ok", value.rev, value.content, replay),
         q.method \in {"ack", "respond"} =>
           /\ value.rev \in 1..Len(log'[q.params.m])
           /\ log'[q.params.m][value.rev] = q.params.decision
           /\ \/ replay
              \/ \A s \in told : ~(Decides(s) /\ s.m = q.params.m /\ s.ask = "accepted")
  PROVE  (\A t \in told' : t \in told \/ ToldSound(t)') /\ AcceptedOnce'
<1>1. PICK t : /\ told' = told \cup {t}
               /\ t.by = q.by /\ t.m = q.params.m /\ t.method = q.method /\ t.code = "ok"
               /\ t.ask = client[q.by].decision /\ t.rev = value.rev /\ t.replay = replay
  <2>1. PICK t : t = [by |-> q.by, m |-> q.params.m, ask |-> client[q.by].decision,
                      method |-> q.method, code |-> "ok", rev |-> value.rev,
                      content |-> value.content, replay |-> replay]
    OBVIOUS
  <2>2. told' = told \cup {t}
    BY <2>1 DEF Told
  <2>3. /\ t.by = q.by /\ t.m = q.params.m /\ t.method = q.method /\ t.code = "ok"
        /\ t.ask = client[q.by].decision /\ t.rev = value.rev /\ t.replay = replay
    BY <2>1
  <2> QED
    BY <2>2, <2>3, Zenon
<1>2. ToldSound(t)'
  <2>1. t.m \in Message /\ t.code # "conflict"
    BY <1>1, AskersKnown
  <2>2. ASSUME Decides(t) PROVE t.rev \in 1..Len(log'[t.m]) /\ log'[t.m][t.rev] = t.ask
    <3>1. q.method \in {"ack", "respond"}
      BY <1>1, <2>2 DEF Decides
    <3>2. client[q.by].decision = q.params.decision
      BY <3>1 DEF Waits, Awaited
    <3> QED
      BY <1>1, <3>1, <3>2
  <2> QED
    BY <2>1, <2>2 DEF ToldSound, Decides
<1>3. AcceptedOnce'
  <2>1. SUFFICES ASSUME NEW a \in told', NEW b \in told',
                        Decides(a), Decides(b), a.m = b.m, a.ask = "accepted", b.ask = "accepted",
                        ~a.replay, ~b.replay
                 PROVE  a.by = b.by
    BY DEF AcceptedOnce, Decides
  <2>2. CASE a \in told /\ b \in told
    BY <2>1, <2>2 DEF MailboxInv, AcceptedOnce
  <2>3. CASE a = t /\ b = t
    BY <2>3
  <2>4. CASE a = t /\ b \in told
    BY <1>1, <2>1, <2>4 DEF Decides
  <2>5. CASE a \in told /\ b = t
    BY <1>1, <2>1, <2>5 DEF Decides
  <2> QED
    BY <1>1, <2>2, <2>3, <2>4, <2>5
<1> QED
  BY <1>1, <1>2, <1>3

LEMMA AnswerKeeps ==
  ASSUME MailboxInv, NEW q \in wire, NEW value, NEW replay, Answers(q, value, replay),
         wire' = wire \ {q}, Grows, ClaimsAgree',
         /\ client' \in [Client -> ClientRow]
         /\ \A d \in Client : client'[d].calls <= Bound(d)
         => RpcTypes',
         \A r \in replays' : r \in replays \/ RecordSound(r)',
         q.method = "claim" =>
           /\ value.token \in Token
           /\ q.by \in Sdk => ClaimedAt(q.params.m, q.params.rev, value.token)',
         q.method \in {"ack", "respond"} =>
           /\ value.rev \in 1..Len(log'[q.params.m])
           /\ log'[q.params.m][value.rev] = q.params.decision
           /\ \/ replay
              \/ \A s \in told : ~(Decides(s) /\ s.m = q.params.m /\ s.ask = "accepted")
  PROVE  MailboxInv'
<1>1. Asked(q) /\ Awaited(q, client[q.by]) /\ q.by \in Client /\ RpcTypes
  BY AskersKnown DEF MailboxInv
<1>2. PICK row \in ClientRow :
           /\ client' = [client EXCEPT ![q.by] = row]
           /\ row.item = client[q.by].item /\ row.calls = client[q.by].calls
           /\ \/ row = client[q.by] /\ told' = told
              \/ /\ row.at = "idle" /\ q.method # "claim" /\ Waits(q)
                 /\ Told(q, "ok", value.rev, value.content, replay)
              \/ /\ row.at = "claimed" /\ q.method = "claim" /\ Waits(q) /\ told' = told
                 /\ row.token = value.token /\ row.decision = client[q.by].decision
  BY <1>1, AnsweredRow
<1>3. RpcTypes'
  <2>1. client' \in [Client -> ClientRow] /\ \A d \in Client : client'[d].calls <= Bound(d)
    BY <1>1, <1>2 DEF RpcTypes
  <2> QED
    BY <2>1
<1>4. RowSound(q.by, row)'
  BY <1>1, <1>2, <1>3, HandledRow
<1>5. (\A t \in told' : t \in told \/ ToldSound(t)') /\ AcceptedOnce'
  <2>1. CASE told' = told
    BY <2>1 DEF AcceptedOnce, Decides, MailboxInv
  <2>2. CASE Waits(q) /\ Told(q, "ok", value.rev, value.content, replay)
    BY <1>1, <1>3, <2>2, SuccessTold
  <2> QED
    BY <1>2, <2>1, <2>2
<1>6. \/ row = client[q.by]
      \/ row.calls = client[q.by].calls /\ row.at \in {"idle", "claimed"}
  BY <1>2
<1> QED
  BY <1>1, <1>2, <1>3, <1>4, <1>5, <1>6, ClientMoves

LEMMA ReplaysKeep == ASSUME MailboxInv, NEW q \in wire, Handle(q), Replays(q) PROVE MailboxInv'
<1>1. PICK r \in Recorded(q) : r.params = q.params /\ Answers(q, r.value, TRUE)
  BY DEF Replays
<1>2. /\ UNCHANGED <<clock, granted, sent, log, claim, replays>> /\ wire' = wire \ {q}
      /\ RpcTypes /\ Asked(q) /\ RecordSound(r)
      /\ r \in replays /\ r.method = q.method /\ r.key = q.key
  BY <1>1 DEF Replays, Handle, MailboxInv, Recorded
<1>3. PICK value : value = r.value
  OBVIOUS
<1>4. /\ client' \in [Client -> ClientRow]
      /\ \A d \in Client : client'[d].calls <= Bound(d)
      => RpcTypes'
  BY <1>2 DEF RpcTypes
<1>5. Grows /\ ClaimsAgree'
  <2>1. clock \in Nat /\ \A m \in Message : Len(log[m]) \in Nat
    BY <1>2, LengthsAreNumbers, RpcConstants DEF RpcTypes
  <2> QED
    BY <1>2, <2>1 DEF Grows, ClaimState, ClaimsAgree, MailboxInv
<1>6. q.method = "claim" =>
           /\ value.token \in Token
           /\ q.by \in Sdk => ClaimedAt(q.params.m, q.params.rev, value.token)'
  BY <1>1, <1>2, <1>3 DEF RecordSound, Asked, ClaimedAt
<1>7. ASSUME q.method \in {"ack", "respond"}
      PROVE  /\ value.rev \in 1..Len(log'[q.params.m])
             /\ log'[q.params.m][value.rev] = q.params.decision
  <2>1. q.params.m \in Message /\ q.params.rev \in Nat
    BY <1>2, <1>7, TypedParams DEF Asked
  <2>2. /\ value.rev = q.params.rev + 1 /\ value.rev <= Len(log[q.params.m])
        /\ log[q.params.m][value.rev] = q.params.decision
    BY <1>1, <1>2, <1>3, <1>7 DEF RecordSound
  <2>3. Len(log[q.params.m]) \in Nat
    BY <1>2, <2>1, LengthsAreNumbers
  <2> QED
    BY <1>2, <2>1, <2>2, <2>3
<1>8. \A s \in replays' : s \in replays \/ RecordSound(s)'
  BY <1>2
<1>9. Answers(q, value, TRUE)
  BY <1>1, <1>3
<1> QED
  BY <1>2, <1>4, <1>5, <1>6, <1>7, <1>8, <1>9, AnswerKeeps

(***************************************************************************)
(* Requests that are carried out.                                          *)
(***************************************************************************)
LEMMA NewRecord ==
  ASSUME NEW q, replays' = replays \cup {Record(q)}
  PROVE  \E r : /\ replays' = replays \cup {r}
                /\ r.scope = Scope(q.by) /\ r.method = q.method /\ r.key = q.key
                /\ r.params = q.params /\ r.value = Value(q)
<1>1. PICK r : r = Record(q)
  OBVIOUS
<1>2. /\ r.scope = Scope(q.by) /\ r.method = q.method /\ r.key = q.key
      /\ r.params = q.params /\ r.value = Value(q)
  BY <1>1 DEF Record
<1> QED
  BY <1>1, <1>2, Zenon

LEMMA SendCarriedOut ==
  ASSUME MailboxInv, NEW q \in wire, Handle(q), Executes(q), q.method = "send"
  PROVE  MailboxInv'
<1>1. /\ Submits(q.params) /\ UNCHANGED <<clock, granted>> /\ wire' = wire \ {q}
      /\ Answers(q, Value(q), FALSE) /\ replays' = replays \cup {Record(q)}
      /\ RpcTypes /\ Asked(q)
  BY DEF Handle, Executes, Operation, MailboxInv
<1>2. PICK p \in SendParams : p = q.params
  BY <1>1 DEF Asked
<1>3. p.m \in Message /\ p.created \in 0..MaxClock /\ q.by = Sender
  BY <1>1, <1>2 DEF SendParams, Asked
<1>4. claim' = claim
  BY <1>1 DEF Submits
<1>5. log' = log
  <2>1. CASE sent[p.m] # NoRow
    BY <1>1, <1>2, <2>1 DEF Submits
  <2>2. CASE sent[p.m] = NoRow
    <3>1. Len(log[p.m]) \in Nat /\ ~(Len(log[p.m]) > 0) /\ log[p.m] \in Seq(DecisionStates)
      BY <1>1, <1>3, <2>2, LengthsAreNumbers DEF RpcTypes
    <3>2. log[p.m] = <<>>
      BY <3>1
    <3>3. log' = [log EXCEPT ![p.m] = <<>>]
      BY <1>1, <1>2, <2>2 DEF Submits
    <3> QED
      BY <1>1, <1>3, <3>2, <3>3 DEF RpcTypes
  <2> QED
    BY <2>1, <2>2
<1>6. /\ sent' \in [Message -> {NoRow} \cup SentRow]
      /\ \A m \in Message : sent[m] # NoRow => sent'[m] = sent[m]
  <2>1. CASE sent[p.m] # NoRow
    BY <1>1, <1>2, <2>1 DEF Submits, RpcTypes
  <2>2. CASE sent[p.m] = NoRow
    <3>1. [created |-> p.created, purged |-> FALSE] \in SentRow
      BY <1>3 DEF SentRow
    <3>2. sent' = [sent EXCEPT ![p.m] = [created |-> p.created, purged |-> FALSE]]
      BY <1>1, <1>2, <2>2 DEF Submits
    <3> QED
      BY <1>1, <1>3, <2>2, <3>1, <3>2 DEF RpcTypes
  <2> QED
    BY <2>1, <2>2
<1>7. /\ client' \in [Client -> ClientRow]
      /\ \A d \in Client : client'[d].calls <= Bound(d)
      => RpcTypes'
  BY <1>1, <1>4, <1>5, <1>6 DEF RpcTypes
<1>8. PICK r : /\ replays' = replays \cup {r}
               /\ r.scope = Scope(q.by) /\ r.method = q.method /\ r.key = q.key
               /\ r.params = q.params /\ r.value = Value(q)
  BY <1>1, NewRecord
<1>9. Grows
  <2>1. clock \in Nat /\ \A m \in Message : Len(log[m]) \in Nat
    BY <1>1, LengthsAreNumbers, RpcConstants DEF RpcTypes
  <2>2. r.method # "ack"
    BY <1>8
  <2>3. \A m \in Message : ClaimState(m)' = ClaimState(m)
    BY <1>4 DEF ClaimState
  <2> QED
    BY <1>1, <1>5, <1>6, <1>8, <2>1, <2>2, <2>3 DEF Grows
<1>10. \A s \in replays' : s \in replays \/ RecordSound(s)'
  <2>1. RecordSound(r)'
    BY <1>3, <1>8 DEF RecordSound, Scope
  <2> QED
    BY <1>8, <2>1
<1>11. ClaimsAgree'
  BY <1>8 DEF ClaimsAgree, MailboxInv
<1>12. PICK value : value = Value(q)
  OBVIOUS
<1>13. Answers(q, value, FALSE)
  BY <1>1, <1>12
<1> QED
  BY <1>1, <1>7, <1>9, <1>10, <1>11, <1>13, AnswerKeeps

LEMMA ClaimCarriedOut ==
  ASSUME MailboxInv, NEW q \in wire, Handle(q), Executes(q), q.method = "claim"
  PROVE  MailboxInv'
<1>1. /\ ClaimPending(q) /\ ClaimAllowed(q.params) /\ Recorded(q) = {}
      /\ UNCHANGED <<clock, granted, sent, log>> /\ wire' = wire \ {q}
      /\ Answers(q, Value(q), FALSE) /\ replays' = replays \cup {Record(q)}
      /\ RpcTypes /\ Asked(q)
  BY DEF Handle, Executes, Operation, Allowed, MailboxInv, ClaimPending
<1>2. PICK p \in ClaimParams : p = q.params
  BY <1>1 DEF Asked
<1>3. /\ p.m \in Message /\ p.rev \in Nat /\ q.by \in Receiver /\ q.by \in Client /\ q.id \in Nat
      /\ sent[p.m] # NoRow /\ p.rev = Len(log[p.m]) /\ ClaimState(p.m) # "acknowledged"
  BY <1>1, <1>2, TypedParams DEF Asked, ClaimAllowed, Revision
<1>4. PICK value : value = Value(q)
  OBVIOUS
<1>5. value.token = IF LiveClaim(p.m) THEN claim[p.m].token ELSE <<q.by, q.id>>
  BY <1>2, <1>4 DEF Value
<1>6. <<q.by, q.id>> \in Token
  BY <1>3 DEF Token
<1>7. value.token \in Token
  <2>1. CASE LiveClaim(p.m)
    <3>1. claim[p.m] # NoRow
      BY <2>1 DEF LiveClaim, ClaimState
    <3>2. claim[p.m] \in ClaimRow
      BY <1>1, <1>3, <3>1 DEF RpcTypes
    <3> QED
      BY <1>5, <2>1, <3>2 DEF ClaimRow
  <2>2. CASE ~LiveClaim(p.m)
    BY <1>5, <1>6, <2>2
  <2> QED
    BY <2>1, <2>2
<1>8. /\ claim' \in [Message -> {NoRow} \cup ClaimRow]
      /\ \A m \in Message : m # p.m => claim'[m] = claim[m]
      /\ claim'[p.m] # NoRow => claim'[p.m].rev <= Len(log[p.m])
  <2>1. CASE LiveClaim(p.m)
    BY <1>1, <1>2, <1>3, <2>1 DEF ClaimPending, RpcTypes
  <2>2. CASE ~LiveClaim(p.m)
    <3>1. Sooner(Expires(p.m), clock + ClaimWindow) \in Nat
      <4>1. sent[p.m].created \in Nat /\ clock \in Nat
        BY <1>1, <1>3, RpcConstants DEF RpcTypes, SentRow
      <4>2. Expires(p.m) \in Nat /\ clock + ClaimWindow \in Nat
        BY <4>1, RpcConstants DEF Expires
      <4> QED
        BY <4>2 DEF Sooner
    <3>2. PICK expires \in Nat : expires = Sooner(Expires(p.m), clock + ClaimWindow)
      BY <3>1
    <3>3. PICK row \in ClaimRow :
            row = [state |-> "claimed", token |-> <<q.by, q.id>>, rev |-> p.rev, expires |-> expires]
      BY <1>3, <1>6 DEF ClaimRow
    <3>4. claim' = [claim EXCEPT ![p.m] = row]
      BY <1>1, <1>2, <2>2, <3>2, <3>3 DEF ClaimPending
    <3>5. row.rev <= Len(log[p.m])
      <4>1. row.rev = p.rev
        BY <3>3
      <4>2. p.rev <= p.rev
        BY <1>3
      <4> QED
        BY <1>3, <4>1, <4>2
    <3> QED
      BY <1>1, <1>3, <3>4, <3>5 DEF RpcTypes
  <2> QED
    BY <2>1, <2>2
<1>9. /\ client' \in [Client -> ClientRow]
      /\ \A d \in Client : client'[d].calls <= Bound(d)
      => RpcTypes'
  BY <1>1, <1>3, <1>8 DEF RpcTypes
<1>10. PICK r : /\ replays' = replays \cup {r}
                /\ r.scope = Scope(q.by) /\ r.method = q.method /\ r.key = q.key
                /\ r.params = q.params /\ r.value = Value(q)
  BY <1>1, NewRecord
<1>11. Grows
  <2>1. clock \in Nat /\ \A m \in Message : Len(log[m]) \in Nat
    BY <1>1, LengthsAreNumbers, RpcConstants DEF RpcTypes
  <2>2. r.method # "ack"
    BY <1>10
  <2>3. \A m \in Message : ClaimState(m) = "acknowledged" => ClaimState(m)' = "acknowledged"
    BY <1>3, <1>8 DEF ClaimState
  <2> QED
    BY <1>1, <1>10, <2>1, <2>2, <2>3 DEF Grows
<1>12. /\ q.by \in Sdk => r.key = <<"claim", p.m, p.rev>>
       /\ q.by \notin Sdk => r.key = <<"claim", p.m>>
  BY <1>1, <1>2, <1>10 DEF Asked
<1>13. Scope(q.by) = "receiver"
  BY <1>3, RpcConstants DEF Scope
<1>14. \A s \in replays' : s \in replays \/ RecordSound(s)'
  <2>1. RecordSound(r)'
    BY <1>2, <1>4, <1>7, <1>10, <1>12, <1>13 DEF RecordSound
  <2> QED
    BY <1>10, <2>1
<1>15. ClaimsAgree'
  <2>1. \A s \in replays : s.method = "claim" => s.key # r.key
    <3>1. \A s \in replays : RecordSound(s)
      BY DEF MailboxInv
    <3> QED
      BY <1>1, <1>10, <1>13, <3>1 DEF Recorded, RecordSound
  <2> QED
    BY <1>10, <2>1 DEF ClaimsAgree, MailboxInv
<1>16. q.by \in Sdk => ClaimedAt(q.params.m, q.params.rev, value.token)'
  BY <1>2, <1>4, <1>10, <1>12 DEF ClaimedAt
<1>17. Answers(q, value, FALSE)
  BY <1>1, <1>4
<1> QED
  BY <1>1, <1>7, <1>9, <1>11, <1>14, <1>15, <1>16, <1>17, AnswerKeeps

\* The decision of a message that can be decided, and what was told of it before.
LEMMA DecisionAdded ==
  ASSUME MailboxInv, NEW m \in Message, NEW decision \in Choice,
         DecisionMay(Decision(m), decision),
         log' = [log EXCEPT ![m] = Append(@, decision)]
  PROVE  /\ log' \in [Message -> Seq(DecisionStates)]
         /\ \A n \in Message : /\ LogShape(log'[n]) /\ Len(log[n]) <= Len(log'[n])
                               /\ \A k \in 1..Len(log[n]) : log'[n][k] = log[n][k]
                               /\ n # m => log'[n] = log[n]
         /\ Len(log[m]) \in Nat /\ Len(log'[m]) = Len(log[m]) + 1
         /\ log'[m][Len(log[m]) + 1] = decision
         /\ \A t \in told : ~(Decides(t) /\ t.m = m /\ t.ask = "accepted")
<1>1. RpcTypes /\ log \in [Message -> Seq(DecisionStates)]
  BY DEF MailboxInv, RpcTypes
<1>2. PICK s : s = Append(log[m], decision)
  OBVIOUS
<1>3. log' = [log EXCEPT ![m] = s]
  BY <1>1, <1>2
<1>4. log'[m] = s /\ \A n \in Message : n # m => log'[n] = log[n]
  BY <1>1, <1>3
<1>5. /\ LogShape(s) /\ Len(s) = Len(log[m]) + 1 /\ s[Len(log[m]) + 1] = decision
      /\ \A k \in 1..Len(log[m]) : s[k] = log[m][k]
      /\ Len(log[m]) <= 1 /\ Len(log[m]) \in Nat
      /\ Len(log[m]) = 1 => log[m][1] = "deferred"
  BY <1>2, Responded
<1>6. s \in Seq(DecisionStates)
  BY <1>5 DEF LogShape
<1>7. log' \in [Message -> Seq(DecisionStates)]
  BY <1>1, <1>3, <1>6
<1>8. ASSUME NEW n \in Message
      PROVE  /\ LogShape(log'[n]) /\ Len(log[n]) <= Len(log'[n])
             /\ \A k \in 1..Len(log[n]) : log'[n][k] = log[n][k]
             /\ n # m => log'[n] = log[n]
  <2>1. CASE n = m
    <3>1. Len(log[m]) <= Len(s)
      BY <1>5
    <3> QED
      BY <1>4, <1>5, <2>1, <3>1
  <2>2. CASE n # m
    <3>1. Len(log[n]) \in Nat /\ LogShape(log[n])
      BY <1>1, LengthsAreNumbers DEF RpcTypes
    <3>2. Len(log[n]) <= Len(log[n])
      BY <3>1
    <3> QED
      BY <1>4, <2>2, <3>1, <3>2
  <2> QED
    BY <2>1, <2>2
<1>9. ASSUME NEW t \in told, Decides(t), t.m = m PROVE t.ask # "accepted"
  <2>1. t.rev \in 1..Len(log[m]) /\ log[m][t.rev] = t.ask
    BY <1>9 DEF MailboxInv, ToldSound
  <2>2. PICK n \in Nat : n = Len(log[m])
    BY <1>5
  <2>3. n <= 1 /\ t.rev \in 1..n
    BY <1>5, <2>1, <2>2
  <2>4. t.rev = 1 /\ n = 1
    BY <2>3
  <2> QED
    BY <1>5, <2>1, <2>2, <2>4
<1> QED
  BY <1>4, <1>5, <1>7, <1>8, <1>9

LEMMA RespondCarriedOut ==
  ASSUME MailboxInv, NEW q \in wire, Handle(q), Executes(q), q.method = "respond"
  PROVE  MailboxInv'
<1>1. /\ Respond(q.params) /\ RespondAllowed(q.params) /\ Recorded(q) = {}
      /\ UNCHANGED <<clock, granted, sent, claim>> /\ wire' = wire \ {q}
      /\ Answers(q, Value(q), FALSE) /\ replays' = replays \cup {Record(q)}
      /\ RpcTypes /\ Asked(q)
  BY DEF Handle, Executes, Operation, Allowed, MailboxInv, Respond
<1>2. PICK p \in RespondParams : p = q.params
  BY <1>1 DEF Asked
<1>3. /\ p.m \in Message /\ p.rev \in Nat /\ p.decision \in Choice /\ q.by \in Receiver
      /\ sent[p.m] # NoRow /\ p.rev = Len(log[p.m]) /\ DecisionMay(Decision(p.m), p.decision)
  BY <1>1, <1>2, TypedParams DEF Asked, RespondAllowed, Revision
<1>4. PICK value : value = Value(q)
  OBVIOUS
<1>5. value.rev = Len(log[p.m]) + 1
  BY <1>2, <1>4 DEF Value, Revision
<1>6. log' = [log EXCEPT ![p.m] = Append(@, p.decision)]
  BY <1>1, <1>2 DEF Respond
<1>7. /\ log' \in [Message -> Seq(DecisionStates)]
      /\ \A n \in Message : /\ LogShape(log'[n]) /\ Len(log[n]) <= Len(log'[n])
                            /\ \A k \in 1..Len(log[n]) : log'[n][k] = log[n][k]
                            /\ n # p.m => log'[n] = log[n]
      /\ Len(log[p.m]) \in Nat /\ Len(log'[p.m]) = Len(log[p.m]) + 1
      /\ log'[p.m][Len(log[p.m]) + 1] = p.decision
      /\ \A t \in told : ~(Decides(t) /\ t.m = p.m /\ t.ask = "accepted")
  BY <1>3, <1>6, DecisionAdded
<1>8. /\ client' \in [Client -> ClientRow]
      /\ \A d \in Client : client'[d].calls <= Bound(d)
      => RpcTypes'
  <2>1. \A n \in Message : Len(log'[n]) > 0 => sent[n] # NoRow
    BY <1>1, <1>3, <1>7 DEF RpcTypes
  <2>2. \A n \in Message : claim[n] # NoRow => claim[n].rev <= Len(log'[n])
    <3>1. SUFFICES ASSUME NEW n \in Message, claim[n] # NoRow PROVE claim[n].rev <= Len(log'[n])
      OBVIOUS
    <3>2. claim[n].rev \in Nat /\ claim[n].rev <= Len(log[n]) /\ Len(log[n]) \in Nat
      BY <1>1, <3>1, LengthsAreNumbers DEF RpcTypes, ClaimRow
    <3>3. Len(log'[n]) \in Nat /\ Len(log[n]) <= Len(log'[n])
      BY <1>7 DEF LogShape
    <3> QED
      BY <3>2, <3>3
  <2> QED
    BY <1>1, <1>7, <2>1, <2>2 DEF RpcTypes
<1>9. PICK r : /\ replays' = replays \cup {r}
               /\ r.scope = Scope(q.by) /\ r.method = q.method /\ r.key = q.key
               /\ r.params = q.params /\ r.value = Value(q)
  BY <1>1, NewRecord
<1>10. Grows
  <2>1. clock \in Nat
    BY <1>1, RpcConstants DEF RpcTypes
  <2>2. r.method # "ack"
    BY <1>9
  <2>3. \A m \in Message : ClaimState(m)' = ClaimState(m)
    BY <1>1 DEF ClaimState
  <2> QED
    BY <1>1, <1>7, <1>9, <2>1, <2>2, <2>3 DEF Grows
<1>11. /\ value.rev \in 1..Len(log'[p.m]) /\ value.rev <= Len(log'[p.m])
       /\ log'[p.m][value.rev] = p.decision
  BY <1>5, <1>7
<1>12. \A s \in replays' : s \in replays \/ RecordSound(s)'
  <2>1. \/ r.key = <<"respond", p.m, p.rev, p.decision>>
        \/ r.key = <<"respond", p.m, p.decision>>
    BY <1>1, <1>2, <1>9 DEF Asked
  <2>2. Scope(q.by) = "receiver"
    BY <1>3, RpcConstants DEF Scope
  <2>3. r.value.rev = p.rev + 1
    BY <1>3, <1>4, <1>5, <1>9
  <2>4. r.params = p /\ r.value = value /\ r.method = "respond" /\ r.scope = "receiver"
    BY <1>2, <1>4, <1>9, <2>2
  <2>5. RecordSound(r)'
    BY <1>11, <2>1, <2>3, <2>4 DEF RecordSound
  <2> QED
    BY <1>9, <2>5
<1>13. ClaimsAgree'
  BY <1>9 DEF ClaimsAgree, MailboxInv
<1>14. Answers(q, value, FALSE)
  BY <1>1, <1>4
<1> QED
  BY <1>1, <1>2, <1>7, <1>8, <1>10, <1>11, <1>12, <1>13, <1>14, AnswerKeeps

LEMMA AckCarriedOut ==
  ASSUME MailboxInv, NEW q \in wire, Handle(q), Executes(q), q.method = "ack"
  PROVE  MailboxInv'
<1>1. /\ Respond(q.params) /\ AckAllowed(q.params) /\ RespondAllowed(q.params) /\ Recorded(q) = {}
      /\ claim' = [claim EXCEPT ![q.params.m].state = "acknowledged"]
      /\ UNCHANGED <<clock, granted, sent>> /\ wire' = wire \ {q}
      /\ Answers(q, Value(q), FALSE) /\ replays' = replays \cup {Record(q)}
      /\ RpcTypes /\ Asked(q)
  BY DEF Handle, Executes, Operation, Allowed, AckAllowed, MailboxInv, Respond
<1>2. PICK p \in AckParams : p = q.params
  BY <1>1 DEF Asked
<1>3. /\ p.m \in Message /\ p.rev \in Nat /\ p.decision \in Choice /\ q.by \in Receiver
      /\ sent[p.m] # NoRow /\ p.rev = Len(log[p.m]) /\ DecisionMay(Decision(p.m), p.decision)
  BY <1>1, <1>2, TypedParams DEF Asked, RespondAllowed, Revision
<1>4. PICK value : value = Value(q)
  OBVIOUS
<1>5. value.rev = Len(log[p.m]) + 1
  BY <1>2, <1>4 DEF Value, Revision
<1>6. log' = [log EXCEPT ![p.m] = Append(@, p.decision)]
  BY <1>1, <1>2 DEF Respond
<1>7. /\ log' \in [Message -> Seq(DecisionStates)]
      /\ \A n \in Message : /\ LogShape(log'[n]) /\ Len(log[n]) <= Len(log'[n])
                            /\ \A k \in 1..Len(log[n]) : log'[n][k] = log[n][k]
                            /\ n # p.m => log'[n] = log[n]
      /\ Len(log[p.m]) \in Nat /\ Len(log'[p.m]) = Len(log[p.m]) + 1
      /\ log'[p.m][Len(log[p.m]) + 1] = p.decision
      /\ \A t \in told : ~(Decides(t) /\ t.m = p.m /\ t.ask = "accepted")
  BY <1>3, <1>6, DecisionAdded
<1>8. PICK row \in ClaimRow : /\ claim' = [claim EXCEPT ![p.m] = row]
                              /\ row.state = "acknowledged" /\ row.rev = claim[p.m].rev
  <2>1. claim[p.m] # NoRow
    BY <1>1, <1>2 DEF AckAllowed, HoldsClaim, ClaimState
  <2>2. PICK old \in ClaimRow : old = claim[p.m]
    BY <1>1, <1>3, <2>1 DEF RpcTypes
  <2>3. PICK row \in ClaimRow : /\ row = [old EXCEPT !.state = "acknowledged"]
                                /\ row.state = "acknowledged" /\ row.rev = old.rev
    <3>1. [old EXCEPT !.state = "acknowledged"] \in ClaimRow
      BY DEF ClaimRow
    <3> QED
      BY <3>1 DEF ClaimRow
  <2>4. claim' = [claim EXCEPT ![p.m] = row]
    BY <1>1, <1>2, <1>3, <2>2, <2>3 DEF RpcTypes
  <2> QED
    BY <2>2, <2>3, <2>4
<1>9. claim[p.m] # NoRow
  BY <1>1, <1>2 DEF AckAllowed, HoldsClaim, ClaimState
<1>10. /\ claim' \in [Message -> {NoRow} \cup ClaimRow] /\ claim'[p.m] = row /\ row # NoRow
       /\ \A n \in Message : n # p.m => claim'[n] = claim[n]
  BY <1>1, <1>3, <1>8, NoRowIsNone DEF RpcTypes
<1>11. /\ client' \in [Client -> ClientRow]
       /\ \A d \in Client : client'[d].calls <= Bound(d)
       => RpcTypes'
  <2>1. \A n \in Message : Len(log'[n]) > 0 => sent[n] # NoRow
    BY <1>1, <1>3, <1>7 DEF RpcTypes
  <2>2. \A n \in Message : claim'[n] # NoRow => claim'[n].rev <= Len(log'[n])
    <3>1. SUFFICES ASSUME NEW n \in Message, claim'[n] # NoRow PROVE claim'[n].rev <= Len(log'[n])
      OBVIOUS
    <3>2. claim[n] # NoRow /\ claim'[n].rev = claim[n].rev
      BY <1>8, <1>9, <1>10, <3>1
    <3>3. claim[n].rev \in Nat /\ claim[n].rev <= Len(log[n]) /\ Len(log[n]) \in Nat
      BY <1>1, <3>2, LengthsAreNumbers DEF RpcTypes, ClaimRow
    <3>4. Len(log'[n]) \in Nat /\ Len(log[n]) <= Len(log'[n])
      BY <1>7 DEF LogShape
    <3> QED
      BY <3>2, <3>3, <3>4
  <2> QED
    BY <1>1, <1>7, <1>10, <2>1, <2>2 DEF RpcTypes
<1>12. PICK r : /\ replays' = replays \cup {r}
                /\ r.scope = Scope(q.by) /\ r.method = q.method /\ r.key = q.key
                /\ r.params = q.params /\ r.value = Value(q)
  BY <1>1, NewRecord
<1>13. ClaimState(p.m)' = "acknowledged"
  BY <1>8, <1>10 DEF ClaimState
<1>14. Grows
  <2>1. clock \in Nat
    BY <1>1, RpcConstants DEF RpcTypes
  <2>2. r.params \in AckParams /\ r.params.rev >= Len(log[r.params.m])
    <3>1. p.rev >= p.rev
      BY <1>3
    <3> QED
      BY <1>2, <1>3, <1>12, <3>1
  <2>3. \A m \in Message : ClaimState(m) = "acknowledged" => ClaimState(m)' = "acknowledged"
    BY <1>10, <1>13 DEF ClaimState
  <2> QED
    BY <1>1, <1>7, <1>12, <2>1, <2>2, <2>3 DEF Grows
<1>15. /\ value.rev \in 1..Len(log'[p.m]) /\ value.rev <= Len(log'[p.m])
       /\ log'[p.m][value.rev] = p.decision
  BY <1>5, <1>7
<1>16. \A s \in replays' : s \in replays \/ RecordSound(s)'
  <2>1. \/ /\ r.key = <<"ack", p.m, p.decision>>
           /\ ClaimedAt(p.m, p.rev, p.token)
        \/ r.key = <<"ack", p.m>>
    BY <1>1, <1>2, <1>12 DEF Asked
  <2>2. ClaimedAt(p.m, p.rev, p.token) => ClaimedAt(p.m, p.rev, p.token)'
    BY <1>12 DEF ClaimedAt
  <2>3. Scope(q.by) = "receiver"
    BY <1>3, RpcConstants DEF Scope
  <2>4. r.value.rev = p.rev + 1
    BY <1>3, <1>4, <1>5, <1>12
  <2>5. r.params = p /\ r.value = value /\ r.method = "ack" /\ r.scope = "receiver"
    BY <1>2, <1>4, <1>12, <2>3
  <2>6. sent'[p.m] # NoRow
    BY <1>1, <1>3
  <2>7. RecordSound(r)'
    BY <1>13, <1>15, <2>1, <2>2, <2>4, <2>5, <2>6 DEF RecordSound
  <2> QED
    BY <1>12, <2>7
<1>17. ClaimsAgree'
  BY <1>12 DEF ClaimsAgree, MailboxInv
<1>18. Answers(q, value, FALSE)
  BY <1>1, <1>4
<1> QED
  BY <1>1, <1>2, <1>7, <1>11, <1>14, <1>15, <1>16, <1>17, <1>18, AnswerKeeps

(***************************************************************************)
(* The mailbox: the induction, and what follows.                           *)
(***************************************************************************)
LEMMA MailboxStarts == RpcInit => MailboxInv
<1> SUFFICES ASSUME RpcInit PROVE MailboxInv
  OBVIOUS
<1>1. /\ clock = 0 /\ granted = TRUE
      /\ sent = [m \in Message |-> NoRow] /\ log = [m \in Message |-> <<>>]
      /\ claim = [m \in Message |-> NoRow]
      /\ replays = {} /\ wire = {} /\ told = {}
  BY DEF RpcInit
<1>2. PICK row \in ClientRow :
        /\ row = [at |-> "idle", item |-> NoRow, decision |-> "none", token |-> <<>>, calls |-> 0]
        /\ row.at = "idle" /\ row.item = NoRow /\ row.calls = 0
  <2>1. <<>> \in Token /\ 0 \in Nat /\ NoRow \in {NoRow} \cup Item /\ "none" \in Choice \cup {"none"}
    BY DEF Token
  <2>2. [at |-> "idle", item |-> NoRow, decision |-> "none", token |-> <<>>, calls |-> 0] \in ClientRow
    BY <2>1 DEF ClientRow
  <2> QED
    BY <2>2
<1>3. client \in [Client -> ClientRow] /\ \A c \in Client : client[c] = row
  BY <1>2 DEF RpcInit
<1>4. LogShape(<<>>) /\ <<>> \in Seq(DecisionStates) /\ Len(<<>>) = 0
  BY DEF LogShape
<1>5. RpcTypes
  <2>1. \A c \in Client : client[c].calls <= Bound(c)
    BY <1>2, <1>3, RpcConstants
  <2>2. 0 \in 0..MaxClock
    BY RpcConstants
  <2>3. \A m \in Message : LogShape(log[m]) /\ Len(log[m]) = 0 /\ claim[m] = NoRow
    BY <1>1, <1>4
  <2>4. log \in [Message -> Seq(DecisionStates)]
    BY <1>1, <1>4
  <2> QED
    BY <1>1, <1>3, <2>1, <2>2, <2>3, <2>4 DEF RpcTypes
<1>6. \A c \in Client : RowSound(c, row)
  BY <1>2 DEF RowSound
<1> QED
  BY <1>1, <1>3, <1>5, <1>6 DEF MailboxInv, ClaimsAgree, AcceptedOnce

LEMMA HandleKeeps == ASSUME MailboxInv, NEW q \in wire, Handle(q) PROVE MailboxInv'
<1>1. CASE Executes(q)
  <2>1. q.method \in {"send", "claim", "ack", "respond"}
    BY DEF MailboxInv, Asked
  <2> QED
    BY <1>1, <2>1, SendCarriedOut, ClaimCarriedOut, AckCarriedOut, RespondCarriedOut
<1> QED
  BY <1>1, ConflictsKeep, ReplaysKeep, RefusesKeep DEF Handle

LEMMA MailboxMoves == MailboxInv /\ [RpcNext]_rpc_vars => MailboxInv'
<1> SUFFICES ASSUME MailboxInv, [RpcNext]_rpc_vars PROVE MailboxInv'
  OBVIOUS
<1>1. ASSUME NEW q \in wire, Handle(q) PROVE MailboxInv'
  BY <1>1, HandleKeeps
<1>2. CASE \/ \E m \in Message : SendSuggestion(m)
           \/ \E m \in Message, key \in SendKey, created \in 0..MaxClock : SendEnvelope(m, key, created)
  BY <1>2, SenderKeeps
<1>3. ASSUME NEW c \in Receiver, NEW m \in Message, Poll(c, m) PROVE MailboxInv'
  BY <1>3, PollKeeps
<1>4. ASSUME NEW c \in Receiver, NEW decision \in Choice,
             ClientDecides(c, decision) \/ RespondDirectly(c, decision)
      PROVE  MailboxInv'
  <2>1. CASE ClientDecides(c, decision)
    BY <2>1, DecidesKeeps
  <2>2. CASE RespondDirectly(c, decision)
    BY <2>2, RespondKeeps DEF RespondDirectly
  <2> QED
    BY <1>4, <2>1, <2>2
<1>5. ASSUME NEW c \in Receiver, Acknowledge(c) PROVE MailboxInv'
  BY <1>5, AcknowledgeKeeps
<1>6. ASSUME NEW c \in Client, GiveUp(c) PROVE MailboxInv'
  BY <1>6, GiveUpKeeps
<1>7. CASE RpcTick \/ Revoke
  BY <1>7, TimeKeeps
<1>8. CASE ExpireDue
  BY <1>8, ExpiryKeeps
<1>9. ASSUME NEW cutoff \in 0..MaxClock, PurgeSensitiveContent(cutoff) PROVE MailboxInv'
  BY <1>9, PurgeKeeps
<1>10. CASE UNCHANGED rpc_vars
  <2>1. UNCHANGED <<clock, granted, sent, log, claim, replays, wire, client, told>>
    BY <1>10 DEF rpc_vars
  <2>2. RpcTypes'
    BY <2>1 DEF MailboxInv, RpcTypes
  <2>3. clock \in Nat /\ \A m \in Message : Len(log[m]) \in Nat
    BY LengthsAreNumbers, RpcConstants DEF MailboxInv, RpcTypes
  <2>4. Grows
    BY <2>1, <2>3 DEF Grows, ClaimState
  <2> QED
    BY <2>1, <2>2, <2>4, ElsewhereKeeps
<1> QED
  BY <1>1, <1>2, <1>3, <1>4, <1>5, <1>6, <1>7, <1>8, <1>9, <1>10 DEF RpcNext

\* The mailbox keeps, for every set of messages, receivers and keys and every bound: a key
\* tells what its request asks, a record's decision stands in the disposition, a claim's
\* token is the one of its record, and an SDK that claims has seen no acknowledgement.
THEOREM MailboxInductive == RpcSpec => []MailboxInv
BY MailboxStarts, MailboxMoves, PTL DEF RpcSpec

LEMMA AnswersFollow == MailboxInv => AnswersAreTrue
<1> SUFFICES ASSUME MailboxInv PROVE AnswersAreTrue
  OBVIOUS
<1>1. RpcTypes
  BY DEF MailboxInv
<1>2. RpcTypeOK
  <2>1. /\ clock \in 0..MaxClock /\ granted \in BOOLEAN
        /\ sent \in [Message -> {NoRow} \cup [created : 0..MaxClock, purged : BOOLEAN]]
        /\ \A m \in Message : log[m] \in Seq(DecisionStates) /\ (Len(log[m]) > 0 => sent[m] # NoRow)
    BY <1>1 DEF RpcTypes, SentRow
  <2>2. \A m \in Message : claim[m] # NoRow =>
           claim[m].state \in {"claimed", "acknowledged"} /\ claim[m].rev <= Len(log[m])
    BY <1>1 DEF RpcTypes, ClaimRow
  <2>3. \A c \in Client :
          /\ client[c].at \in {"idle", "send", "claim", "claimed", "ack", "respond"}
          /\ client[c].item \in {NoRow} \cup Item
          /\ client[c].calls \in 0..Bound(c)
    BY <1>1, RpcConstants DEF RpcTypes, ClientRow
  <2>4. \A q \in wire : q.by \in Client /\ q.id <= client[q.by].calls
    BY DEF MailboxInv, Asked, Awaited
  <2> QED
    BY <2>1, <2>2, <2>3, <2>4 DEF RpcTypeOK
<1>3. ToldIsTrue
  <2>1. SUFFICES ASSUME NEW t \in told, Decides(t)
                 PROVE  t.rev <= Len(log[t.m]) /\ log[t.m][t.rev] = t.ask
    BY DEF ToldIsTrue
  <2>2. t.rev \in 1..Len(log[t.m]) /\ log[t.m][t.rev] = t.ask /\ t.m \in Message
    BY <2>1 DEF MailboxInv, ToldSound
  <2>3. Len(log[t.m]) \in Nat
    BY <1>1, <2>2, LengthsAreNumbers
  <2> QED
    BY <2>2, <2>3
<1> QED
  BY <1>2, <1>3 DEF AnswersAreTrue, MailboxInv

\* What receivers are told can be relied on: however many SDKs and pull harnesses share
\* the credential, and whatever is lost, late, asked again, expired or purged, a success
\* is recorded as it is told, and at most one receiver is told of an acceptance first hand.
THEOREM MailboxAnswers == RpcSpec => []AnswersAreTrue
BY MailboxInductive, AnswersFollow, PTL

\* The SDK's keys for claims and responses fit what they ask; only its key for an
\* acknowledgement meets another's, and then what it asked has been decided already.
THEOREM SdkConflicts == RpcSpec => []SdkConflictsAreLate
<1>1. MailboxInv => SdkConflictsAreLate
  BY DEF MailboxInv, ToldSound, SdkConflictsAreLate
<1> QED
  BY <1>1, MailboxInductive, PTL
=============================================================================
