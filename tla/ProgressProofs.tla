---------------------------- MODULE ProgressProofs ----------------------------
(***************************************************************************)
(* Theorems about what runs beside the coordinator, or before it: the pump,*)
(* the native adapter, and the migration of the store.                     *)
(*                                                                         *)
(* The event pump, for every number of pumps, receivers and messages, for   *)
(* every way a route's callback may end, and for every bound on crashes and *)
(* leases.                                                                 *)
(* The rows of a dispatch say nothing of the handler and nothing of the     *)
(* pump that is at it, so the inductive invariant says what they have in    *)
(* common: a message is received once; what is claimed lies ahead of the    *)
(* cursor, alone for its receiver, and what is promoted lies behind it; a   *)
(* settled dispatch has a completed handler; and a pump at the end of its   *)
(* round is there because the handler it works on was promoted.            *)
(*                                                                         *)
(* Order is kept by more than that: a claim is on the next event, and what *)
(* the cursor has passed was promoted or skipped.  EventPump implements     *)
(* InOrder because a cursor then passes one received message at a time.     *)
(*                                                                         *)
(* The app-server adapter, for every operation, every number of tool calls  *)
(* and every fault.  Its invariant says what the lines on the wire, the     *)
(* gate, the numbers of the calls and the turn have in common.             *)
(*                                                                         *)
(* The migration of the store, for every number of processes and rows.  A   *)
(* process may go by a version that was overtaken since it was read; the    *)
(* invariant says what the store has by then.                              *)
(***************************************************************************)
EXTENDS EventPump, AppServer, SchemaMigration, SequenceTheorems, FiniteSetTheorems, TLAPS

(***************************************************************************)
(* The inductive invariant.                                                *)
(***************************************************************************)
HandlerState == {"none", "claimed", "completed-bound", "promoted"}
Done == {"completed-bound", "promoted"}
Settled == {"completed-bound", "publishing", "published"}

DispatchRow ==
  [state : {"none", "selected", "skipped"} \cup Settled,
   route : Outcome \cup {"none"}, by : Owner \cup {NoOwner}, epoch : 0..MaxEpoch, live : BOOLEAN,
   pubBy : Owner \cup {NoOwner}, pubEpoch : 0..MaxEpoch, pubLive : BOOLEAN]

\* A lease that ran out can be taken over.
LeasesSound(d) ==
  /\ d.route = "none" <=> d.state = "none"
  /\ d.state = "none" <=> d.by = NoOwner /\ d.epoch = 0
  /\ d.state \in {"publishing", "published"} <=> d.pubBy \in Owner
  /\ d.pubBy \in Owner <=> d.pubEpoch > 0
  /\ d.state = "selected" /\ ~d.live => d.epoch < MaxEpoch
  /\ d.state = "publishing" /\ ~d.pubLive => d.pubEpoch < MaxEpoch

RoundRow ==
  [at : Place, on : PumpMessage \cup {NoMessage}, epoch : 0..MaxEpoch,
   route : Outcome \cup {"none"}, seen : BOOLEAN \X {0, 1}]

PumpTypes ==
  /\ audit \in Seq(PumpMessage \X {"received", "handling"})
  /\ position \in [PumpReceiver -> Nat] /\ crashes \in 0..MaxCrash
  /\ handler \in [PumpMessage -> HandlerState]
  /\ turn \in [PumpMessage -> {"none", "running", "bound", "promoted"}]
  /\ withdrawn \subseteq Revocable /\ expired \subseteq Perishable
  /\ moves \in [PumpReceiver -> Nat] /\ \A r \in PumpReceiver : moves[r] <= MaxMove[r]
  /\ pump \in [Owner -> RoundRow]
  /\ row \in [PumpMessage -> DispatchRow]

\* A message is received once.
ReceivedOnce ==
  \A i, j \in DOMAIN audit : audit[i] = audit[j] /\ audit[i][2] = "received" => i = j

IsActive(m) == handler[m] \in {"claimed", "completed-bound"}

\* Where the cursor stands when the handler does.
HandlerMatchesCursor(m) ==
  /\ IsActive(m) => WasReceived(m) /\ ~Past(m)
  /\ handler[m] = "promoted" => Past(m)

OneActive ==
  \A m, o \in PumpMessage : IsActive(m) /\ IsActive(o) /\ ReceiverOf[m] = ReceiverOf[o] => m = o

\* What a settled and what a published dispatch say of the handler.
RowMatchesHandler(m) ==
  /\ row[m].state \in Settled => handler[m] \in Done
  /\ row[m].state = "published" /\ CallbackOf[m] # "defers" => handler[m] = "promoted"

\* What a pump's place says of the message it is at.
Publishes == {"settled", "recover", "recover-active", "recover-committed", "reread", "replay",
              "callback", "committed"}

RoundSound(p) ==
  /\ p.at # "idle" => p.on \in PumpMessage
  /\ p.at = "evaluated" => p.route \in Outcome
  /\ p.at \in Publishes => row[p.on].state \in Settled
  /\ p.at = "recover-committed" => handler[p.on] = "promoted"
  /\ p.at = "committed" /\ CallbackOf[p.on] # "defers" => handler[p.on] = "promoted"

PumpInv ==
  /\ PumpTypes
  /\ ReceivedOnce
  /\ \A m \in PumpMessage : LeasesSound(row[m])
  /\ \A m \in PumpMessage : HandlerMatchesCursor(m)
  /\ OneActive
  /\ \A m \in PumpMessage : RowMatchesHandler(m)
  /\ \A o \in Owner : RoundSound(pump[o])

LEMMA NewRound ==
  ASSUME NEW m \in PumpMessage \cup {NoMessage}, NEW place \in Place
  PROVE  [at |-> place, on |-> m, epoch |-> 0, route |-> "none", seen |-> <<FALSE, 0>>] \in RoundRow
<1>1. 0 \in 0..MaxEpoch
  BY PumpAssumption
<1>2. FALSE \in BOOLEAN /\ 0 \in {0, 1}
  BY Zenon
<1>3. <<FALSE, 0>> \in BOOLEAN \X {0, 1}
  BY <1>2, Zenon
<1> QED
  BY <1>1, <1>3 DEF RoundRow

LEMMA PumpInvInit == PumpInit => PumpInv
<1> SUFFICES ASSUME PumpInit PROVE PumpInv
  OBVIOUS
<1>1. Idle \in RoundRow
  BY NewRound DEF Idle, Place
<1>2. NoDispatch \in DispatchRow /\ LeasesSound(NoDispatch)
  BY PumpAssumption DEF NoDispatch, DispatchRow, LeasesSound
<1>3. PumpTypes
  BY <1>1, <1>2, PumpAssumption DEF PumpInit, PumpTypes, HandlerState
<1>4. ReceivedOnce /\ OneActive /\ \A m \in PumpMessage : HandlerMatchesCursor(m)
  BY DEF PumpInit, ReceivedOnce, OneActive, HandlerMatchesCursor, IsActive
<1>5. \A o \in Owner : RoundSound(pump[o])
  BY DEF PumpInit, RoundSound, Idle, Publishes
<1>6. \A m \in PumpMessage : LeasesSound(row[m]) /\ RowMatchesHandler(m)
  BY <1>2 DEF PumpInit, RowMatchesHandler, NoDispatch, Settled
<1> QED
  BY <1>3, <1>4, <1>5, <1>6 DEF PumpInv

(***************************************************************************)
(* The log of events.                                                      *)
(***************************************************************************)
\* A message's event is the entry that says it was received.
LEMMA EventOfReceived ==
  ASSUME NEW m \in PumpMessage, WasReceived(m)
  PROVE  EventOf(m) \in DOMAIN audit /\ audit[EventOf(m)] = <<m, "received">>
BY DEF WasReceived, EventOf

LEMMA EventOfUnique ==
  ASSUME ReceivedOnce, NEW m \in PumpMessage, NEW n \in DOMAIN audit, audit[n] = <<m, "received">>
  PROVE  WasReceived(m) /\ EventOf(m) = n
<1>1. WasReceived(m)
  BY DEF WasReceived
<1>2. audit[EventOf(m)] = audit[n] /\ EventOf(m) \in DOMAIN audit
  BY <1>1, EventOfReceived
<1>3. audit[EventOf(m)][2] = "received"
  BY <1>2
<1> QED
  BY <1>1, <1>2, <1>3 DEF ReceivedOnce

\* What a step writes into the log.
LogStep ==
  \/ audit' = audit
  \/ \E m \in PumpMessage :
       \/ audit' = Append(audit, <<m, "handling">>)
       \/ audit' = Append(audit, <<m, "received">>) /\ ~WasReceived(m)

LEMMA LogSteps ==
  ASSUME PumpInv, PumpNext
  PROVE  LogStep
<1> USE DEF PumpInv, LogStep, world_vars
<1>1. ASSUME NEW m \in PumpMessage,
             Receive(m) \/ Withdraw(m) \/ Expires(m) \/ Time(m) \/ PromoteLater(m)
      PROVE  LogStep
  BY <1>1 DEF Receive, Withdraw, Expires, Time, LeaseExpires, PublicationLeaseExpires, PromoteLater
<1>2. ASSUME NEW r \in PumpReceiver, RuntimeMoves(r) \/ DrainProcessed(r) PROVE LogStep
  BY <1>2 DEF RuntimeMoves, DrainProcessed
<1>3. ASSUME NEW o \in Owner, Drain(o) \/ Crash(o) PROVE LogStep
  <2>1. CASE FinishTurn(o)
    <3>1. pump[o].on \in PumpMessage
      BY <2>1 DEF FinishTurn, RoundSound
    <3> QED
      BY <2>1, <3>1 DEF FinishTurn
  <2>2. CASE ~FinishTurn(o)
    BY <1>3, <2>2
       DEF Drain, Crash, Pick, Evaluate, ClaimDispatch, SettleSkipped, AdvanceSkipped, Activate,
           StartTurn, Settle, Inspect, ClaimPublication, Reread, Replay, Callback, CompletesDispatch
  <2> QED
    BY <2>1, <2>2
<1> QED
  BY <1>1, <1>2, <1>3 DEF PumpNext

\* An event stays where it is, and a new one comes after all others.
LEMMA LogKept ==
  ASSUME PumpInv, LogStep
  PROVE  /\ audit' \in Seq(PumpMessage \X {"received", "handling"})
         /\ ReceivedOnce'
         /\ DOMAIN audit \subseteq DOMAIN audit'
         /\ \A n \in DOMAIN audit : audit'[n] = audit[n]
         /\ \A m \in PumpMessage :
              /\ WasReceived(m) => WasReceived(m)' /\ EventOf(m)' = EventOf(m)
              /\ WasReceived(m)' /\ ~WasReceived(m) => EventOf(m)' = Len(audit) + 1
<1>1. CASE audit' = audit
  BY <1>1 DEF PumpInv, PumpTypes, ReceivedOnce, WasReceived, EventOf
<1>2. ASSUME NEW x \in PumpMessage \X {"received", "handling"}, audit' = Append(audit, x),
             x[2] = "received" => ~WasReceived(x[1])
      PROVE  /\ audit' \in Seq(PumpMessage \X {"received", "handling"})
             /\ ReceivedOnce'
             /\ DOMAIN audit \subseteq DOMAIN audit'
             /\ \A n \in DOMAIN audit : audit'[n] = audit[n]
             /\ \A m \in PumpMessage :
                  /\ WasReceived(m) => WasReceived(m)' /\ EventOf(m)' = EventOf(m)
                  /\ WasReceived(m)' /\ ~WasReceived(m) => EventOf(m)' = Len(audit) + 1
  <2>1. /\ audit \in Seq(PumpMessage \X {"received", "handling"})
        /\ ReceivedOnce
    BY DEF PumpInv, PumpTypes
  <2>2. /\ audit' \in Seq(PumpMessage \X {"received", "handling"})
        /\ Len(audit') = Len(audit) + 1 /\ audit'[Len(audit) + 1] = x
        /\ DOMAIN audit \subseteq DOMAIN audit' /\ DOMAIN audit' = DOMAIN audit \cup {Len(audit) + 1}
        /\ \A n \in DOMAIN audit : audit'[n] = audit[n]
    BY <1>2, <2>1
  <2>3. x[2] = "received" => \A n \in DOMAIN audit : audit[n] # x
    <3> SUFFICES ASSUME x[2] = "received", NEW n \in DOMAIN audit, audit[n] = x PROVE FALSE
      OBVIOUS
    <3>1. x = <<x[1], "received">>
      OBVIOUS
    <3> QED
      BY <1>2, <3>1 DEF WasReceived
  <2>4. ReceivedOnce'
    BY <2>1, <2>2, <2>3 DEF ReceivedOnce
  <2>5. ASSUME NEW m \in PumpMessage, WasReceived(m)
        PROVE  WasReceived(m)' /\ EventOf(m)' = EventOf(m)
    <3>1. EventOf(m) \in DOMAIN audit' /\ audit'[EventOf(m)] = <<m, "received">>
      BY <2>2, <2>5, EventOfReceived
    <3>2. WasReceived(m)'
      BY <3>1 DEF WasReceived
    <3>3. EventOf(m)' \in DOMAIN audit' /\ audit'[EventOf(m)'] = <<m, "received">>
      BY <3>2 DEF WasReceived, EventOf
    <3>4. audit'[EventOf(m)'] = audit'[EventOf(m)] /\ audit'[EventOf(m)'][2] = "received"
      BY <3>1, <3>3
    <3> HIDE DEF EventOf
    <3> QED
      BY <2>4, <3>1, <3>2, <3>3, <3>4 DEF ReceivedOnce
  <2>6. ASSUME NEW m \in PumpMessage, WasReceived(m)', ~WasReceived(m)
        PROVE  EventOf(m)' = Len(audit) + 1
    <3>1. EventOf(m)' \in DOMAIN audit' /\ audit'[EventOf(m)'] = <<m, "received">>
      BY <2>6 DEF WasReceived, EventOf
    <3>2. EventOf(m)' \notin DOMAIN audit
      BY <2>2, <2>6, <3>1 DEF WasReceived
    <3> QED
      BY <2>2, <3>1, <3>2
  <2> QED
    BY <2>2, <2>4, <2>5, <2>6
<1>3. ASSUME NEW m \in PumpMessage, audit' = Append(audit, <<m, "handling">>)
      PROVE  \E x \in PumpMessage \X {"received", "handling"} :
               audit' = Append(audit, x) /\ (x[2] = "received" => ~WasReceived(x[1]))
  <2>1. <<m, "handling">> \in PumpMessage \X {"received", "handling"} /\ <<m, "handling">>[2] # "received"
    OBVIOUS
  <2> QED
    BY <1>3, <2>1
<1>4. ASSUME NEW m \in PumpMessage, audit' = Append(audit, <<m, "received">>), ~WasReceived(m)
      PROVE  \E x \in PumpMessage \X {"received", "handling"} :
               audit' = Append(audit, x) /\ (x[2] = "received" => ~WasReceived(x[1]))
  <2>1. <<m, "received">> \in PumpMessage \X {"received", "handling"} /\ <<m, "received">>[1] = m
    OBVIOUS
  <2> QED
    BY <1>4, <2>1
<1> QED
  BY <1>1, <1>2, <1>3, <1>4 DEF LogStep

(***************************************************************************)
(* Handlers and cursors.                                                   *)
(***************************************************************************)
\* What a step may do to them: a claim that follows the cursor, the end of a turn, a
\* commit, and a cursor that moves on where nothing is claimed.
HandlerStep ==
  \/ UNCHANGED <<handler, position>>
  \/ \E m \in PumpMessage :
       \/ /\ IsNext(m)
          /\ \/ Active(ReceiverOf[m]) = {}
             \/ handler[m] = "claimed"
          /\ \E o \in Owner : pump[o].at = "selected" /\ pump[o].on = m
          /\ handler' = [handler EXCEPT ![m] = "claimed"] /\ position' = position
       \/ /\ handler[m] = "claimed"
          /\ handler' = [handler EXCEPT ![m] = "completed-bound"] /\ position' = position
       \/ /\ handler[m] = "completed-bound"
          /\ handler' = [handler EXCEPT ![m] = "promoted"]
          /\ position' = [position EXCEPT ![ReceiverOf[m]] = EventOf(m)]
  \/ \E r \in PumpReceiver : \E n \in DOMAIN audit :
       /\ Active(r) = {} /\ n > position[r]
       /\ position' = [position EXCEPT ![r] = n] /\ handler' = handler

LEMMA HandlerSteps ==
  ASSUME PumpInv, PumpNext
  PROVE  HandlerStep
<1> USE DEF PumpInv, PumpTypes, HandlerStep
<1>1. ASSUME NEW m \in PumpMessage, Receive(m) \/ Withdraw(m) \/ Expires(m) \/ Time(m)
      PROVE  HandlerStep
  BY <1>1 DEF Receive, Withdraw, Expires, Time, LeaseExpires, PublicationLeaseExpires, handler_vars
<1>2. ASSUME NEW m \in PumpMessage, Commits(m) PROVE HandlerStep
  BY <1>2 DEF Commits
<1>3. ASSUME NEW m \in PumpMessage, PromoteLater(m) PROVE HandlerStep
  BY <1>2, <1>3 DEF PromoteLater
<1>4. ASSUME NEW r \in PumpReceiver, RuntimeMoves(r) \/ DrainProcessed(r) PROVE HandlerStep
  BY <1>4 DEF RuntimeMoves, DrainProcessed, Ahead, handler_vars
<1>5. ASSUME NEW o \in Owner, Drain(o) \/ Crash(o) PROVE HandlerStep
  <2>1. pump[o].at # "idle" => pump[o].on \in PumpMessage
    BY DEF RoundSound
  <2>2. CASE Activate(o)
    <3>1. pump[o].on \in PumpMessage
      BY <2>1, <2>2 DEF Activate
    <3> DEFINE m == pump[o].on
    <3>2. CASE handler' = handler
      BY <2>2, <3>2 DEF Activate
    <3>3. CASE handler' # handler
      <4>1. /\ Authority(m) /\ handler[m] \notin {"completed-bound"}
            /\ handler[m] = "none" => Active(ReceiverOf[m]) = {}
            /\ handler' = [handler EXCEPT ![m] = "claimed"] /\ position' = position
            /\ pump[o].at = "selected"
        BY <2>2, <3>3 DEF Activate, SameAuthority
      <4>2. IsNext(m) /\ handler[m] # "promoted"
        BY <3>1, <4>1 DEF Authority, IsNext, HandlerMatchesCursor
      <4>3. handler[m] \in {"none", "claimed"}
        BY <3>1, <4>1, <4>2 DEF HandlerState
      <4> QED
        BY <3>1, <4>1, <4>2, <4>3
    <3> QED
      BY <3>2, <3>3
  <2>3. CASE FinishTurn(o)
    BY <2>1, <2>3 DEF FinishTurn
  <2>4. CASE Callback(o)
    BY <1>2, <2>1, <2>4 DEF Callback, handler_vars
  <2>5. CASE AdvanceSkipped(o)
    <3>1. pump[o].on \in PumpMessage
      BY <2>1, <2>5 DEF AdvanceSkipped
    <3> DEFINE m == pump[o].on
    <3>2. CASE IsNext(m) /\ Active(ReceiverOf[m]) = {}
      <4>1. EventOf(m) \in DOMAIN audit /\ EventOf(m) > position[ReceiverOf[m]]
        BY <3>1, <3>2, EventOfReceived, PumpAssumption DEF IsNext, Past
      <4> QED
        BY <2>5, <3>1, <3>2, <4>1, PumpAssumption DEF AdvanceSkipped
    <3>3. CASE ~(IsNext(m) /\ Active(ReceiverOf[m]) = {})
      BY <2>5, <3>3 DEF AdvanceSkipped
    <3> QED
      BY <3>2, <3>3
  <2>6. CASE StartTurn(o) \/ Settle(o) \/ Crash(o)
    BY <2>6 DEF StartTurn, Settle, Crash, handler_vars
  <2>7. CASE Pick(o) \/ Evaluate(o) \/ ClaimDispatch(o) \/ SettleSkipped(o) \/ Inspect(o)
             \/ ClaimPublication(o) \/ Reread(o) \/ Replay(o) \/ CompletesDispatch(o)
    BY <2>7 DEF Pick, Evaluate, ClaimDispatch, SettleSkipped, Inspect, ClaimPublication, Reread,
                Replay, CompletesDispatch, handler_vars
  <2> QED
    BY <1>5, <2>2, <2>3, <2>4, <2>5, <2>6, <2>7 DEF Drain
<1> QED
  BY <1>1, <1>3, <1>4, <1>5 DEF PumpNext

\* The cursor never goes back, so what it has passed stays behind it.
LEMMA PastKept ==
  ASSUME PumpInv, LogStep, HandlerStep
  PROVE  /\ position' \in [PumpReceiver -> Nat]
         /\ \A r \in PumpReceiver : position[r] <= position'[r]
         /\ \A m \in PumpMessage : Past(m) => Past(m)'
<1> USE DEF PumpInv, PumpTypes
<1>1. ASSUME NEW m \in PumpMessage, handler[m] = "completed-bound",
             position' = [position EXCEPT ![ReceiverOf[m]] = EventOf(m)]
      PROVE  /\ position' \in [PumpReceiver -> Nat]
             /\ \A r \in PumpReceiver : position[r] <= position'[r]
  <2>1. WasReceived(m) /\ ~Past(m)
    BY <1>1 DEF HandlerMatchesCursor, IsActive
  <2>2. EventOf(m) \in Nat /\ EventOf(m) > position[ReceiverOf[m]]
    BY <2>1, EventOfReceived, PumpAssumption DEF Past
  <2> QED
    BY <1>1, <2>2, PumpAssumption
<1>2. /\ position' \in [PumpReceiver -> Nat]
      /\ \A r \in PumpReceiver : position[r] <= position'[r]
  <2>1. ASSUME NEW r \in PumpReceiver, NEW n \in DOMAIN audit, n > position[r],
               position' = [position EXCEPT ![r] = n]
        PROVE  /\ position' \in [PumpReceiver -> Nat]
               /\ \A s \in PumpReceiver : position[s] <= position'[s]
    BY <2>1
  <2>2. position' = position =>
          /\ position' \in [PumpReceiver -> Nat]
          /\ \A s \in PumpReceiver : position[s] <= position'[s]
    OBVIOUS
  <2> HIDE DEF PumpInv, PumpTypes
  <2> QED
    BY <1>1, <2>1, <2>2 DEF HandlerStep
<1>3. ASSUME NEW m \in PumpMessage, Past(m) PROVE Past(m)'
  <2>1. WasReceived(m)' /\ EventOf(m)' = EventOf(m) /\ EventOf(m) \in Nat
    BY <1>3, LogKept, EventOfReceived DEF Past
  <2>2. EventOf(m) <= position[ReceiverOf[m]] /\ ReceiverOf[m] \in PumpReceiver
    BY <1>3, PumpAssumption DEF Past
  <2> QED
    BY <1>2, <2>1, <2>2 DEF Past
<1> QED
  BY <1>2, <1>3

\* Handlers and cursors stay in step.
LEMMA HandlersKept ==
  ASSUME PumpInv, LogStep, HandlerStep
  PROVE  /\ handler' \in [PumpMessage -> HandlerState]
         /\ \A m \in PumpMessage : HandlerMatchesCursor(m)'
         /\ OneActive'
         /\ \A m \in PumpMessage : handler[m] \in Done => handler'[m] \in Done
         /\ \A m \in PumpMessage : handler[m] = "promoted" => handler'[m] = "promoted"
<1> USE DEF PumpInv, PumpTypes, HandlerState
<1> DEFINE AllMatch == \A x \in PumpMessage : HandlerMatchesCursor(x)'
<1>1. ASSUME NEW x \in PumpMessage, IsActive(x), position'[ReceiverOf[x]] = position[ReceiverOf[x]]
      PROVE  WasReceived(x)' /\ ~Past(x)'
  <2>1. WasReceived(x) /\ ~Past(x)
    BY <1>1 DEF HandlerMatchesCursor
  <2> QED
    BY <1>1, <2>1, LogKept DEF Past
<1>2. CASE UNCHANGED <<handler, position>>
  BY <1>1, <1>2, PastKept DEF HandlerMatchesCursor, OneActive, IsActive
<1>3. ASSUME NEW m \in PumpMessage, IsNext(m), Active(ReceiverOf[m]) = {} \/ handler[m] = "claimed",
             handler' = [handler EXCEPT ![m] = "claimed"], position' = position
      PROVE  AllMatch /\ OneActive' /\ handler[m] \in {"none", "claimed"}
  <2>1. \A x \in PumpMessage : IsActive(x) /\ ReceiverOf[x] = ReceiverOf[m] => x = m
    BY <1>3 DEF Active, OneActive, IsActive
  <2>2. handler[m] \in {"none", "claimed"}
    <3>1. handler[m] # "promoted"
      BY <1>3 DEF IsNext, HandlerMatchesCursor
    <3>2. Active(ReceiverOf[m]) = {} => handler[m] \notin {"claimed", "completed-bound"}
      BY DEF Active
    <3>3. handler[m] \in HandlerState
      OBVIOUS
    <3> HIDE DEF PumpInv, PumpTypes
    <3> QED
      BY <1>3, <3>1, <3>2, <3>3
  <2>3. WasReceived(m)' /\ ~Past(m)'
    BY <1>3, LogKept DEF IsNext, Past
  <2>4. \A x \in PumpMessage : IsActive(x)' <=> IsActive(x) \/ x = m
    BY <1>3 DEF IsActive
  <2>5. \A x \in PumpMessage : handler'[x] = "promoted" => handler[x] = "promoted"
    BY <1>3
  <2>6. AllMatch
    BY <1>1, <1>3, <2>3, <2>4, <2>5, PastKept DEF HandlerMatchesCursor
  <2>7. OneActive'
    BY <2>1, <2>4 DEF OneActive
  <2> QED
    BY <2>2, <2>6, <2>7
<1>4. ASSUME NEW m \in PumpMessage, handler[m] = "claimed",
             handler' = [handler EXCEPT ![m] = "completed-bound"], position' = position
      PROVE  AllMatch /\ OneActive'
  <2>1. \A x \in PumpMessage : IsActive(x)' <=> IsActive(x)
    BY <1>4 DEF IsActive
  <2>2. \A x \in PumpMessage : handler'[x] = "promoted" => handler[x] = "promoted"
    BY <1>4
  <2>3. OneActive'
    BY <2>1 DEF OneActive
  <2> QED
    BY <1>1, <1>4, <2>1, <2>2, <2>3, PastKept DEF HandlerMatchesCursor
<1>5. ASSUME NEW m \in PumpMessage, handler[m] = "completed-bound",
             handler' = [handler EXCEPT ![m] = "promoted"],
             position' = [position EXCEPT ![ReceiverOf[m]] = EventOf(m)]
      PROVE  AllMatch /\ OneActive'
  <2>1. WasReceived(m) /\ EventOf(m) \in Nat
    BY <1>5, EventOfReceived DEF HandlerMatchesCursor, IsActive
  <2>2. Past(m)'
    <3>1. WasReceived(m)' /\ EventOf(m)' = EventOf(m)
      BY <2>1, LogKept
    <3>2. position'[ReceiverOf[m]] = EventOf(m)
      BY <1>5, PumpAssumption
    <3> QED
      BY <2>1, <3>1, <3>2 DEF Past
  <2>3. \A x \in PumpMessage : IsActive(x)' <=> IsActive(x) /\ x # m
    BY <1>5 DEF IsActive
  <2>4. \A x \in PumpMessage : IsActive(x)' => position'[ReceiverOf[x]] = position[ReceiverOf[x]]
    BY <1>5, <2>3, PumpAssumption DEF OneActive, IsActive
  <2>5. \A x \in PumpMessage : handler'[x] = "promoted" => handler[x] = "promoted" \/ x = m
    BY <1>5
  <2>6. AllMatch
    BY <1>1, <2>2, <2>3, <2>4, <2>5, PastKept DEF HandlerMatchesCursor
  <2>7. OneActive'
    BY <2>3 DEF OneActive
  <2> QED
    BY <2>6, <2>7
<1>6. ASSUME NEW r \in PumpReceiver, NEW n \in DOMAIN audit, Active(r) = {},
             position' = [position EXCEPT ![r] = n], handler' = handler
      PROVE  AllMatch /\ OneActive'
  <2>1. \A x \in PumpMessage : IsActive(x) => position'[ReceiverOf[x]] = position[ReceiverOf[x]]
    BY <1>6, PumpAssumption DEF Active, IsActive
  <2> QED
    BY <1>1, <1>6, <2>1, PastKept DEF HandlerMatchesCursor, OneActive, IsActive
<1>7. AllMatch /\ OneActive'
  BY <1>2, <1>3, <1>4, <1>5, <1>6 DEF HandlerStep, HandlerMatchesCursor, OneActive
<1>8. /\ handler' \in [PumpMessage -> HandlerState]
      /\ \A x \in PumpMessage : handler[x] \in Done => handler'[x] \in Done
      /\ \A x \in PumpMessage : handler[x] = "promoted" => handler'[x] = "promoted"
  BY <1>3 DEF HandlerStep, Done
<1> QED
  BY <1>7, <1>8

(***************************************************************************)
(* Dispatches and rounds.                                                  *)
(***************************************************************************)
\* What a step may do to the dispatch of a message: a pump takes or renews a lease, a
\* lease runs out, and the holder of one settles, publishes or completes.
Leased(d, o, epoch, route) ==
  [d EXCEPT !.state = "selected", !.route = route, !.by = o, !.epoch = epoch, !.live = TRUE]

Licensed(d, o, epoch) ==
  [d EXCEPT !.state = "publishing", !.pubBy = o, !.pubEpoch = epoch, !.pubLive = TRUE]

Leases(d, e) ==
  /\ d.state \in {"none", "selected"}
  /\ \E o \in Owner, epoch \in 1..MaxEpoch, route \in Outcome :
       /\ d.state = "selected" => route = d.route
       /\ e = Leased(d, o, epoch, route)

RunsOut(d, e) ==
  \/ d.state = "selected" /\ d.epoch < MaxEpoch /\ e = [d EXCEPT !.live = FALSE]
  \/ d.state = "publishing" /\ d.pubEpoch < MaxEpoch /\ e = [d EXCEPT !.pubLive = FALSE]

Settles(d, e, how) == d.state = "selected" /\ e = [d EXCEPT !.state = how]

Licenses(d, e) ==
  /\ d.state \in {"completed-bound", "publishing"}
  /\ \E o \in Owner, epoch \in 1..MaxEpoch : e = Licensed(d, o, epoch)

EndsPublication(d, e) == d.state = "publishing" /\ e = [d EXCEPT !.state = "published"]

MaySettle(o, m) == pump[o].at \in {"bound", "skip"} /\ pump[o].on = m /\ HoldsLease(o, m)
MayComplete(o, m) == pump[o].at = "committed" /\ pump[o].on = m /\ HoldsPublication(o, m)

RowStep(m) ==
  \/ row'[m] = row[m]
  \/ Leases(row[m], row'[m]) \/ RunsOut(row[m], row'[m]) \/ Licenses(row[m], row'[m])
  \/ /\ Settles(row[m], row'[m], "skipped")
     /\ \E o \in Owner : MaySettle(o, m) /\ pump[o].at = "skip"
  \/ /\ Settles(row[m], row'[m], "completed-bound") /\ handler[m] = "completed-bound"
     /\ \E o \in Owner : MaySettle(o, m)
  \/ /\ EndsPublication(row[m], row'[m])
     /\ \E o \in Owner : MayComplete(o, m)

LEMMA RowForms ==
  ASSUME NEW d \in DispatchRow, LeasesSound(d), NEW e
  PROVE  /\ Leases(d, e) => /\ e \in DispatchRow /\ LeasesSound(e)
                            /\ e.state = "selected" /\ d.state \notin Settled
         /\ RunsOut(d, e) => e \in DispatchRow /\ LeasesSound(e) /\ e.state = d.state
         /\ Licenses(d, e) => /\ e \in DispatchRow /\ LeasesSound(e)
                              /\ d.state \in Settled /\ e.state = "publishing"
         /\ \A how \in {"skipped", "completed-bound"} : Settles(d, e, how) =>
              e \in DispatchRow /\ LeasesSound(e) /\ e.state = how /\ d.state \notin Settled
         /\ EndsPublication(d, e) => /\ e \in DispatchRow /\ LeasesSound(e)
                                     /\ d.state \in Settled /\ e.state = "published"
<1> USE DEF DispatchRow, LeasesSound, Settled
<1>1. ASSUME NEW o \in Owner, NEW epoch \in 1..MaxEpoch, NEW route \in Outcome,
             d.state \in {"none", "selected"}
      PROVE  LET f == Leased(d, o, epoch, route) IN
             f \in DispatchRow /\ LeasesSound(f) /\ f.state = "selected" /\ d.state \notin Settled
  <2> DEFINE f == Leased(d, o, epoch, route)
  <2>1. /\ f.state = "selected" /\ f.route = route /\ f.by = o /\ f.epoch = epoch /\ f.live = TRUE
        /\ f.pubBy = d.pubBy /\ f.pubEpoch = d.pubEpoch /\ f.pubLive = d.pubLive
    BY DEF Leased
  <2>2. f \in DispatchRow
    <3>1. \A d1 \in DispatchRow : [d1 EXCEPT !.state = "selected"] \in DispatchRow
      OBVIOUS
    <3>2. \A d1 \in DispatchRow : [d1 EXCEPT !.by = o] \in DispatchRow
      OBVIOUS
    <3>3. \A d1 \in DispatchRow : [d1 EXCEPT !.epoch = epoch] \in DispatchRow
      OBVIOUS
    <3>4. \A d1 \in DispatchRow : [d1 EXCEPT !.live = TRUE] \in DispatchRow
      OBVIOUS
    <3>5. \A d1 \in DispatchRow : [d1 EXCEPT !.route = route] \in DispatchRow
      OBVIOUS
    <3> HIDE DEF DispatchRow
    <3> QED
      BY <3>1, <3>2, <3>3, <3>4, <3>5 DEF Leased
  <2> HIDE DEF f
  <2>3. LeasesSound(f) /\ d.state \notin Settled
    BY <1>1, <2>1, PumpAssumption DEF Outcome
  <2> QED
    BY <2>1, <2>2, <2>3 DEF f
<1>2. RunsOut(d, e) => e \in DispatchRow /\ LeasesSound(e) /\ e.state = d.state
  <2>1. ASSUME d.state = "selected", d.epoch < MaxEpoch, e = [d EXCEPT !.live = FALSE]
        PROVE  e \in DispatchRow /\ LeasesSound(e) /\ e.state = d.state
    BY <2>1, PumpAssumption
  <2>2. ASSUME d.state = "publishing", d.pubEpoch < MaxEpoch, e = [d EXCEPT !.pubLive = FALSE]
        PROVE  e \in DispatchRow /\ LeasesSound(e) /\ e.state = d.state
    BY <2>2, PumpAssumption
  <2> HIDE DEF DispatchRow, LeasesSound
  <2> QED
    BY <2>1, <2>2 DEF RunsOut
<1>3. ASSUME NEW o \in Owner, NEW epoch \in 1..MaxEpoch, d.state \in {"completed-bound", "publishing"}
      PROVE  LET f == Licensed(d, o, epoch) IN
             f \in DispatchRow /\ LeasesSound(f) /\ d.state \in Settled /\ f.state = "publishing"
  <2> DEFINE f == Licensed(d, o, epoch)
  <2>1. /\ f.state = "publishing" /\ f.pubBy = o /\ f.pubEpoch = epoch /\ f.pubLive = TRUE
        /\ f.route = d.route /\ f.by = d.by /\ f.epoch = d.epoch /\ f.live = d.live
    BY DEF Licensed
  <2>2. f \in DispatchRow
    <3>1. \A d1 \in DispatchRow : [d1 EXCEPT !.state = "publishing"] \in DispatchRow
      OBVIOUS
    <3>2. \A d1 \in DispatchRow : [d1 EXCEPT !.pubBy = o] \in DispatchRow
      OBVIOUS
    <3>3. \A d1 \in DispatchRow : [d1 EXCEPT !.pubEpoch = epoch] \in DispatchRow
      OBVIOUS
    <3>4. \A d1 \in DispatchRow : [d1 EXCEPT !.pubLive = TRUE] \in DispatchRow
      OBVIOUS
    <3> HIDE DEF DispatchRow
    <3> QED
      BY <3>1, <3>2, <3>3, <3>4 DEF Licensed
  <2> HIDE DEF f
  <2>3. LeasesSound(f) /\ d.state \in Settled
    BY <1>3, <2>1, PumpAssumption
  <2> QED
    BY <2>1, <2>2, <2>3 DEF f
<1>4. ASSUME NEW how \in {"skipped", "completed-bound"}, Settles(d, e, how)
      PROVE  e \in DispatchRow /\ LeasesSound(e) /\ e.state = how /\ d.state \notin Settled
  <2>1. e = [d EXCEPT !.state = how] /\ d.state = "selected"
    BY <1>4 DEF Settles
  <2>2. CASE how = "skipped"
    BY <2>1, <2>2, PumpAssumption
  <2>3. CASE how = "completed-bound"
    BY <2>1, <2>3, PumpAssumption
  <2> QED
    BY <2>2, <2>3
<1>5. EndsPublication(d, e) =>
        e \in DispatchRow /\ LeasesSound(e) /\ d.state \in Settled /\ e.state = "published"
  BY PumpAssumption DEF EndsPublication
<1> HIDE DEF DispatchRow, LeasesSound, Settled
<1> QED
  BY <1>1, <1>2, <1>3, <1>4, <1>5 DEF Leases, Licenses

\* The epoch a pump claims at is within the bound, as a lease that ran out was below it.
LEMMA EpochsBounded ==
  ASSUME PumpInv, NEW o \in Owner, NEW m \in PumpMessage
  PROVE  /\ row[m].state = "selected" /\ ~row[m].live => row[m].epoch + 1 \in 1..MaxEpoch
         /\ m \in Pending /\ ~PublicationBusy(o, m) => PublicationEpoch(o, m) \in 1..MaxEpoch
<1>1. row[m] \in DispatchRow /\ LeasesSound(row[m])
  BY DEF PumpInv, PumpTypes
<1> QED
  BY <1>1, PumpAssumption
     DEF DispatchRow, LeasesSound, Pending, PublicationBusy, PublicationEpoch, Settled

LEMMA RowSteps ==
  ASSUME PumpInv, PumpNext
  PROVE  (\A m \in PumpMessage : RowStep(m)) /\ row' = [m \in PumpMessage |-> row'[m]]
<1> DEFINE AllStep == (\A x \in PumpMessage : RowStep(x)) /\ row' = [x \in PumpMessage |-> row'[x]]
<1>0. /\ row' = row => AllStep
      /\ row \in [PumpMessage -> DispatchRow]
      /\ \A o \in Owner : pump[o].at # "idle" => pump[o].on \in PumpMessage
  BY DEF PumpInv, PumpTypes, RowStep, RoundSound
\* One row changes.
<1>1. ASSUME NEW m \in PumpMessage, NEW e, row' = [row EXCEPT ![m] = e], row'[m] = e => RowStep(m)
      PROVE  AllStep
  <2>1. row'[m] = e /\ \A x \in PumpMessage \ {m} : row'[x] = row[x]
    BY <1>0, <1>1
  <2>2. row' = [x \in PumpMessage |-> row'[x]]
    BY <1>0, <1>1
  <2> QED
    BY <1>1, <2>1, <2>2 DEF RowStep
<1>2. ASSUME NEW m \in PumpMessage, Receive(m) \/ Withdraw(m) \/ Expires(m) \/ PromoteLater(m)
      PROVE  AllStep
  BY <1>0, <1>2 DEF Receive, Withdraw, Expires, PromoteLater
<1>3. ASSUME NEW m \in PumpMessage, Time(m) PROVE AllStep
  <2>1. CASE LeaseExpires(m)
    <3> DEFINE e == [row[m] EXCEPT !.live = FALSE]
    <3>1. row' = [row EXCEPT ![m] = e] /\ RunsOut(row[m], e)
      BY <2>1 DEF LeaseExpires, RunsOut
    <3> HIDE DEF e
    <3> QED
      BY <1>1, <3>1 DEF RowStep
  <2>2. CASE PublicationLeaseExpires(m)
    <3> DEFINE e == [row[m] EXCEPT !.pubLive = FALSE]
    <3>1. row' = [row EXCEPT ![m] = e] /\ RunsOut(row[m], e)
      BY <2>2 DEF PublicationLeaseExpires, RunsOut
    <3> HIDE DEF e
    <3> QED
      BY <1>1, <3>1 DEF RowStep
  <2> QED
    BY <1>3, <2>1, <2>2 DEF Time
<1>4. ASSUME NEW r \in PumpReceiver, RuntimeMoves(r) \/ DrainProcessed(r) PROVE AllStep
  BY <1>0, <1>4 DEF RuntimeMoves, DrainProcessed
<1>5. ASSUME NEW o \in Owner, Drain(o) \/ Crash(o) PROVE AllStep
  <2> DEFINE m == pump[o].on
  <2>2. CASE ClaimDispatch(o)
    <3> DEFINE rt == pump[o].route
    <3>1. m \in PumpMessage /\ rt \in Outcome
      BY <1>0, <2>2 DEF ClaimDispatch, PumpInv, RoundSound
    <3>2. ASSUME NEW epoch \in 1..MaxEpoch, row[m].state \in {"none", "selected"},
                 row[m].state = "selected" => row[m].route = rt,
                 row' = [row EXCEPT ![m].state = "selected", ![m].route = rt, ![m].by = o,
                                    ![m].epoch = epoch, ![m].live = TRUE]
          PROVE  AllStep
      <4> DEFINE e == Leased(row[m], o, epoch, rt)
      <4>1. row' = [row EXCEPT ![m] = e]
        BY <1>0, <3>1, <3>2 DEF Leased
      <4>2. Leases(row[m], e)
        BY <3>1, <3>2 DEF Leases
      <4> HIDE DEF e
      <4> QED
        BY <1>1, <3>1, <4>1, <4>2 DEF RowStep
    <3> DEFINE Lease(epoch) == row' = [row EXCEPT ![m].state = "selected", ![m].route = rt,
                                        ![m].by = o, ![m].epoch = epoch, ![m].live = TRUE]
    <3>3. CASE row[m].state = "none"
      <4>1. row' = row \/ Lease(1)
        BY <2>2, <3>3 DEF ClaimDispatch
      <4>2. 1 \in 1..MaxEpoch
        BY PumpAssumption
      <4> QED
        BY <1>0, <3>2, <3>3, <4>1, <4>2
    <3>4. CASE row[m].state = "selected" /\ ~row[m].live
      <4>1. row' = row \/ (Lease(row[m].epoch + 1) /\ row[m].route = rt)
        BY <2>2, <3>4 DEF ClaimDispatch
      <4>2. row[m].epoch + 1 \in 1..MaxEpoch
        BY <3>1, <3>4, EpochsBounded
      <4> QED
        BY <1>0, <3>2, <3>4, <4>1, <4>2
    <3>5. CASE row[m].state # "none" /\ (row[m].state = "selected" => row[m].live)
      BY <1>0, <2>2, <3>5 DEF ClaimDispatch
    <3> QED
      BY <3>3, <3>4, <3>5
  <2>3. CASE SettleSkipped(o)
    <3> DEFINE e == [row[m] EXCEPT !.state = "skipped"]
    <3>1. m \in PumpMessage
      BY <1>0, <2>3 DEF SettleSkipped
    <3>2. \/ row' = row
          \/ /\ row' = [row EXCEPT ![m] = e] /\ Settles(row[m], e, "skipped")
             /\ MaySettle(o, m) /\ pump[o].at = "skip"
      BY <2>3 DEF SettleSkipped, HoldsLease, Settles, MaySettle
    <3> HIDE DEF e
    <3> QED
      BY <1>0, <1>1, <3>1, <3>2 DEF RowStep
  <2>4. CASE Settle(o)
    <3> DEFINE e == [row[m] EXCEPT !.state = "completed-bound"]
    <3>1. m \in PumpMessage
      BY <1>0, <2>4 DEF Settle
    <3>2. \/ row' = row
          \/ /\ row' = [row EXCEPT ![m] = e] /\ Settles(row[m], e, "completed-bound")
             /\ handler[m] = "completed-bound" /\ MaySettle(o, m)
      BY <2>4 DEF Settle, HoldsLease, Settles, MaySettle
    <3> HIDE DEF e
    <3> QED
      BY <1>0, <1>1, <3>1, <3>2 DEF RowStep
  <2>5. CASE ClaimPublication(o)
    <3> DEFINE e == Licensed(row[m], o, PublicationEpoch(o, m))
    <3>1. m \in PumpMessage
      BY <1>0, <2>5 DEF ClaimPublication
    <3>2. CASE m \notin Pending \/ PublicationBusy(o, m)
      BY <1>0, <2>5, <3>2 DEF ClaimPublication
    <3>3. CASE m \in Pending /\ ~PublicationBusy(o, m)
      <4>1. row' = [row EXCEPT ![m] = e]
        BY <1>0, <2>5, <3>1, <3>3 DEF ClaimPublication, Licensed
      <4>2. Licenses(row[m], e)
        BY <3>1, <3>3, EpochsBounded DEF Licenses, Pending
      <4> HIDE DEF e
      <4> QED
        BY <1>1, <3>1, <4>1, <4>2 DEF RowStep
    <3> QED
      BY <3>2, <3>3
  <2>6. CASE CompletesDispatch(o)
    <3> DEFINE e == [row[m] EXCEPT !.state = "published"]
    <3>1. m \in PumpMessage
      BY <1>0, <2>6 DEF CompletesDispatch
    <3>2. \/ row' = row
          \/ row' = [row EXCEPT ![m] = e] /\ EndsPublication(row[m], e) /\ MayComplete(o, m)
      BY <2>6 DEF CompletesDispatch, HoldsPublication, EndsPublication, MayComplete
    <3> HIDE DEF e
    <3> QED
      BY <1>0, <1>1, <3>1, <3>2 DEF RowStep
  <2>7. CASE Pick(o) \/ Evaluate(o) \/ AdvanceSkipped(o) \/ Activate(o) \/ StartTurn(o)
             \/ FinishTurn(o) \/ Inspect(o) \/ Reread(o) \/ Replay(o) \/ Callback(o) \/ Crash(o)
    BY <1>0, <2>7 DEF Pick, Evaluate, AdvanceSkipped, Activate, StartTurn, FinishTurn, Inspect,
                      Reread, Replay, Callback, Crash
  <2> QED
    BY <1>5, <2>2, <2>3, <2>4, <2>5, <2>6, <2>7 DEF Drain
<1> QED
  BY <1>2, <1>3, <1>4, <1>5 DEF PumpNext

\* Rows keep their form, and what a settled one says of its handler stays true.
LEMMA RowsKept ==
  ASSUME PumpInv, LogStep, HandlerStep, NEW m \in PumpMessage, RowStep(m)
  PROVE  /\ row'[m] \in DispatchRow /\ LeasesSound(row'[m])
         /\ row[m].state \in Settled => row'[m].state \in Settled
         /\ RowMatchesHandler(m)'
<1>1. row[m] \in DispatchRow /\ LeasesSound(row[m]) /\ RowMatchesHandler(m)
  BY DEF PumpInv, PumpTypes
<1>2. row'[m] \in DispatchRow /\ LeasesSound(row'[m])
  BY <1>1, RowForms DEF RowStep
<1>3. row[m].state \in Settled => row'[m].state \in Settled
  BY <1>1, RowForms DEF RowStep, Settled
<1>4. /\ handler[m] \in Done => handler'[m] \in Done
      /\ handler[m] = "promoted" => handler'[m] = "promoted"
  BY HandlersKept
<1>5. row'[m].state \in Settled => row[m].state \in Settled \/ handler[m] = "completed-bound"
  BY <1>1, RowForms DEF RowStep, Settled
<1>6. row'[m].state = "published" =>
        \/ row[m].state = "published"
        \/ \E o \in Owner : pump[o].at = "committed" /\ pump[o].on = m
  BY <1>1, RowForms DEF RowStep, MayComplete
<1>7. \A o \in Owner : pump[o].at = "committed" /\ pump[o].on = m /\ CallbackOf[m] # "defers" =>
        handler[m] = "promoted"
  BY DEF PumpInv, RoundSound
<1>8. RowMatchesHandler(m)'
  BY <1>1, <1>4, <1>5, <1>6, <1>7 DEF RowMatchesHandler, Done
<1> QED
  BY <1>2, <1>3, <1>8

\* The next state allows a pump to be in this round.
RoundFits(q) ==
  /\ q.at # "idle" => q.on \in PumpMessage
  /\ q.at = "evaluated" => q.route \in Outcome
  /\ q.at \in Publishes => row'[q.on].state \in Settled
  /\ q.at = "recover-committed" => handler'[q.on] = "promoted"
  /\ q.at = "committed" /\ CallbackOf[q.on] # "defers" => handler'[q.on] = "promoted"

\* A pump that goes nowhere else stays sound, as what it relies on is never undone.
LEMMA RestingRound ==
  ASSUME PumpInv, PumpNext, NEW o \in Owner, pump'[o] = pump[o]
  PROVE  RoundFits(pump'[o])
<1>1. LogStep /\ HandlerStep /\ \A m \in PumpMessage : RowStep(m)
  BY LogSteps, HandlerSteps, RowSteps
<1>2. RoundSound(pump[o]) /\ pump[o] \in RoundRow
  BY DEF PumpInv, PumpTypes
<1>3. \A m \in PumpMessage : row[m].state \in Settled => row'[m].state \in Settled
  BY <1>1, RowsKept
<1>4. \A m \in PumpMessage : handler[m] = "promoted" => handler'[m] = "promoted"
  BY <1>1, HandlersKept
<1>5. pump[o].at \in Publishes \cup {"recover-committed", "committed"} => pump[o].at # "idle"
  BY DEF Publishes
<1> QED
  BY <1>2, <1>3, <1>4, <1>5 DEF RoundSound, RoundFits, Publishes

LEMMA IdleRound ==
  Idle \in RoundRow /\ RoundFits(Idle)
BY NewRound DEF Idle, Place, RoundFits, Publishes

\* Where a pump that moves goes, and what is so when it is there.
LEMMA MovingRound ==
  ASSUME PumpInv, NEW o \in Owner, NEW q \in RoundRow, pump' = [pump EXCEPT ![o] = q],
         RoundFits(q), \A p \in Owner : pump'[p] = pump[p] => RoundFits(pump'[p])
  PROVE  pump' \in [Owner -> RoundRow] /\ \A p \in Owner : RoundSound(pump[p])'
<1>1. pump \in [Owner -> RoundRow]
  BY DEF PumpInv, PumpTypes
<1>2. pump'[o] = q /\ \A p \in Owner \ {o} : pump'[p] = pump[p]
  BY <1>1
<1>3. \A p \in Owner : RoundFits(pump'[p])
  BY <1>2
<1> QED
  BY <1>1, <1>3 DEF RoundFits, RoundSound

LEMMA RoundsKept ==
  ASSUME PumpInv, PumpNext
  PROVE  pump' \in [Owner -> RoundRow] /\ \A p \in Owner : RoundSound(pump[p])'
<1> DEFINE Kept == pump' \in [Owner -> RoundRow] /\ \A p \in Owner : RoundSound(pump[p])'
<1>0. \A p \in Owner : pump'[p] = pump[p] => RoundFits(pump'[p])
  BY RestingRound
<1>1. pump' = pump => Kept
  BY <1>0 DEF PumpInv, PumpTypes, RoundFits, RoundSound
<1>2. ASSUME NEW o \in Owner, GivesUp(o) PROVE Kept
  BY <1>0, <1>2, IdleRound, MovingRound DEF GivesUp
<1>3. ASSUME NEW m \in PumpMessage,
             Receive(m) \/ Withdraw(m) \/ Expires(m) \/ Time(m) \/ PromoteLater(m)
      PROVE  Kept
  BY <1>1, <1>3
     DEF Receive, Withdraw, Expires, Time, LeaseExpires, PublicationLeaseExpires, PromoteLater
<1>4. ASSUME NEW r \in PumpReceiver, RuntimeMoves(r) \/ DrainProcessed(r) PROVE Kept
  BY <1>1, <1>4 DEF RuntimeMoves, DrainProcessed
<1>5. ASSUME NEW o \in Owner, Drain(o) \/ Crash(o) PROVE Kept
  <2> DEFINE m == pump[o].on
  <2>1. pump[o] \in RoundRow /\ RoundSound(pump[o])
    BY DEF PumpInv, PumpTypes
  <2>2. pump[o].at # "idle" => m \in PumpMessage /\ RowMatchesHandler(m) /\ handler[m] \in HandlerState
    BY <2>1 DEF RoundSound, PumpInv, PumpTypes
  \* A pump that goes on with the same message.
  <2>3. ASSUME NEW place \in Place \ {"evaluated"}, NEW epoch \in 0..MaxEpoch,
               pump' = [pump EXCEPT ![o].at = place, ![o].epoch = epoch],
               pump[o].at # "idle",
               place \in Publishes => row'[m].state \in Settled,
               place = "recover-committed" => handler'[m] = "promoted",
               place = "committed" /\ CallbackOf[m] # "defers" => handler'[m] = "promoted"
        PROVE  Kept
    <3> DEFINE q == [pump[o] EXCEPT !.at = place, !.epoch = epoch]
    <3>1. pump' = [pump EXCEPT ![o] = q]
      BY <2>3 DEF PumpInv, PumpTypes
    <3>2. q.at = place /\ q.on = m
      BY <2>1 DEF RoundRow
    <3>3. q \in RoundRow
      <4>1. \A d \in RoundRow : [d EXCEPT !.at = place] \in RoundRow
        BY DEF RoundRow
      <4>2. \A d \in RoundRow : [d EXCEPT !.epoch = epoch] \in RoundRow
        BY DEF RoundRow
      <4> QED
        BY <2>1, <4>1, <4>2
    <3>4. RoundFits(q)
      BY <2>2, <2>3, <3>2 DEF RoundFits
    <3> HIDE DEF q
    <3> QED
      BY <1>0, <3>1, <3>3, <3>4, MovingRound
  <2>4. ASSUME NEW place \in Place \ {"evaluated"}, Goes(o, place),
               pump[o].at # "idle",
               place \in Publishes => row'[m].state \in Settled,
               place = "recover-committed" => handler'[m] = "promoted",
               place = "committed" /\ CallbackOf[m] # "defers" => handler'[m] = "promoted"
        PROVE  Kept
    <3> DEFINE q == [pump[o] EXCEPT !.at = place]
    <3>1. pump' = [pump EXCEPT ![o] = q]
      BY <2>4 DEF Goes, PumpInv, PumpTypes
    <3>2. q.at = place /\ q.on = m
      BY <2>1 DEF RoundRow
    <3>3. q \in RoundRow
      BY <2>1 DEF RoundRow
    <3>4. RoundFits(q)
      BY <2>2, <2>4, <3>2 DEF RoundFits
    <3> HIDE DEF q
    <3> QED
      BY <1>0, <3>1, <3>3, <3>4, MovingRound
  \* A pump that reads the authority and the route.
  <2>14. ASSUME NEW place \in {"evaluated", "replay"}, Evaluates(o, m, place), pump[o].at # "idle",
                place = "replay" => row'[m].state \in Settled
         PROVE  Kept
    <3> DEFINE q == [pump[o] EXCEPT !.at = place, !.route = RouteOf(m), !.seen = Snapshot(m)]
    <3>1. pump' = [pump EXCEPT ![o] = q]
      BY <2>14 DEF Evaluates, PumpInv, PumpTypes
    <3>2. RouteOf(m) \in Outcome /\ Snapshot(m) \in BOOLEAN \X {0, 1}
      <4>1. ReceiverOf[m] \in PumpReceiver
        BY <2>2, <2>14, PumpAssumption
      <4>2. moves[ReceiverOf[m]] % 2 \in {0, 1}
        BY <4>1 DEF PumpInv, PumpTypes
      <4> QED
        BY <4>2 DEF RouteOf, Outcome, Snapshot, RuntimeOf
    <3>3. q \in RoundRow
      <4>1. place \in Place
        BY DEF Place
      <4>2. \A d \in RoundRow : [d EXCEPT !.at = place] \in RoundRow
        BY <4>1 DEF RoundRow
      <4>3. \A d \in RoundRow : [d EXCEPT !.route = RouteOf(m)] \in RoundRow
        BY <3>2 DEF RoundRow
      <4>4. \A d \in RoundRow : [d EXCEPT !.seen = Snapshot(m)] \in RoundRow
        BY <3>2 DEF RoundRow
      <4> QED
        BY <2>1, <4>2, <4>3, <4>4
    <3>4. q.at = place /\ q.on = m /\ q.route = RouteOf(m)
      BY <2>1 DEF RoundRow
    <3>5. RoundFits(q)
      BY <2>2, <2>14, <3>2, <3>4 DEF RoundFits, Publishes
    <3> HIDE DEF q
    <3> QED
      BY <1>0, <3>1, <3>3, <3>5, MovingRound
  <2>15. CASE Evaluate(o)
    BY <1>2, <2>14, <2>15 DEF Evaluate
  <2>5. CASE Pick(o)
    <3>1. PICK n \in PumpMessage :
            pump' = [pump EXCEPT ![o] =
              [at |-> IF n \in Pending THEN "recover"
                      ELSE IF row[n].state = "skipped" THEN "skipped" ELSE "picked",
               on |-> n, epoch |-> 0, route |-> "none", seen |-> <<FALSE, 0>>]]
      BY <2>5 DEF Pick
    <3> DEFINE q == [at |-> IF n \in Pending THEN "recover"
                            ELSE IF row[n].state = "skipped" THEN "skipped" ELSE "picked",
                     on |-> n, epoch |-> 0, route |-> "none", seen |-> <<FALSE, 0>>]
    <3>2. q \in RoundRow
      BY NewRound DEF Place
    <3>3. row' = row
      BY <2>5 DEF Pick
    <3>4. RoundFits(q)
      BY <3>3 DEF RoundFits, Publishes, Pending, Settled
    <3>5. pump' = [pump EXCEPT ![o] = q]
      BY <3>1
    <3> HIDE DEF q
    <3> QED
      BY <1>0, <3>2, <3>4, <3>5, MovingRound
  <2>6. CASE ClaimDispatch(o)
    <3>1. m \in PumpMessage /\ row[m].epoch \in 0..MaxEpoch
      BY <2>2, <2>6 DEF ClaimDispatch, PumpInv, PumpTypes, DispatchRow
    <3>2. row[m].state = "selected" /\ ~row[m].live => row[m].epoch + 1 \in 0..MaxEpoch
      BY <3>1, EpochsBounded
    <3>3. \/ GivesUp(o)
          \/ \E place \in {"selected", "skip"}, epoch \in 0..MaxEpoch :
               pump' = [pump EXCEPT ![o].at = place, ![o].epoch = epoch]
      <4> DEFINE place == IF pump[o].route = "offered" THEN "selected" ELSE "skip"
                 Claims(epoch) == pump' = [pump EXCEPT ![o].at = place, ![o].epoch = epoch]
                 refused == \/ ~IsNext(m) \/ row[m].state \notin {"none", "selected"}
                            \/ row[m].state = "selected" /\ row[m].route # pump[o].route
      <4>1. CASE refused
        BY <2>6, <4>1 DEF ClaimDispatch
      <4>2. CASE ~refused /\ row[m].state = "none"
        <5>1. Claims(1) /\ 1 \in 0..MaxEpoch
          BY <2>6, <4>2, PumpAssumption DEF ClaimDispatch
        <5> QED
          BY <5>1
      <4>3. CASE ~refused /\ row[m].state = "selected" /\ ~row[m].live
        <5>1. Claims(row[m].epoch + 1)
          BY <2>6, <4>3 DEF ClaimDispatch
        <5> QED
          BY <3>2, <4>3, <5>1
      <4>4. CASE ~refused /\ row[m].state = "selected" /\ row[m].live
        <5>1. GivesUp(o) \/ Claims(row[m].epoch)
          BY <2>6, <4>4 DEF ClaimDispatch
        <5> QED
          BY <3>1, <5>1
      <4> QED
        BY <4>1, <4>2, <4>3, <4>4
    <3>4. {"selected", "skip"} \subseteq Place \ (Publishes \cup {"evaluated", "recover-committed", "committed"})
      BY DEF Place, Publishes
    <3>5. pump[o].at # "idle"
      BY <2>6 DEF ClaimDispatch
    <3> QED
      BY <1>2, <2>3, <3>3, <3>4, <3>5
  <2>7. CASE SettleSkipped(o) \/ AdvanceSkipped(o) \/ Activate(o) \/ StartTurn(o) \/ FinishTurn(o)
    <3>1. pump[o].at # "idle"
      BY <2>7 DEF SettleSkipped, AdvanceSkipped, Activate, StartTurn, FinishTurn
    <3>2. GivesUp(o) \/ \E place \in {"skipped", "bound", "starting", "turn"} : Goes(o, place)
      BY <2>7 DEF SettleSkipped, AdvanceSkipped, Activate, StartTurn, FinishTurn
    <3>3. {"skipped", "bound", "starting", "turn"}
            \subseteq Place \ (Publishes \cup {"evaluated", "recover-committed", "committed"})
      BY DEF Place, Publishes
    <3> QED
      BY <1>2, <2>4, <3>1, <3>2, <3>3
  <2>8. CASE Settle(o)
    <3>1. m \in PumpMessage /\ pump[o].at # "idle"
      BY <2>2, <2>8 DEF Settle
    <3>2. GivesUp(o) \/ (Goes(o, "settled") /\ row'[m].state = "completed-bound")
      BY <2>8, <3>1 DEF Settle, PumpInv, PumpTypes, DispatchRow
    <3> QED
      BY <1>2, <2>4, <3>1, <3>2 DEF Place, Settled
  <2>9. CASE Inspect(o)
    <3>1. pump[o].at # "idle" /\ row[m].state \in Settled /\ row' = row /\ handler' = handler
      BY <2>1, <2>9 DEF Inspect, RoundSound, Publishes, handler_vars
    <3>2. \/ GivesUp(o) \/ Goes(o, "recover-active")
          \/ Goes(o, "recover-committed") /\ handler[m] = "promoted"
      BY <2>9 DEF Inspect, Committed
    <3> QED
      BY <1>2, <2>4, <3>1, <3>2 DEF Place
  <2>10. CASE ClaimPublication(o)
    <3>1. m \in PumpMessage /\ pump[o].at # "idle" /\ handler' = handler
      BY <2>2, <2>10 DEF ClaimPublication, handler_vars
    <3>2. CASE m \notin Pending \/ PublicationBusy(o, m)
      BY <1>2, <2>10, <3>2 DEF ClaimPublication
    <3>3. CASE m \in Pending /\ ~PublicationBusy(o, m)
      <4>1. PublicationEpoch(o, m) \in 0..MaxEpoch
        BY <3>1, <3>3, EpochsBounded
      <4>2. \E place \in {"committed", "reread", "callback"} :
              /\ pump' = [pump EXCEPT ![o].at = place, ![o].epoch = PublicationEpoch(o, m)]
              /\ place = "committed" => pump[o].at = "recover-committed"
        BY <2>10, <3>3 DEF ClaimPublication
      <4>3. row'[m].state \in Settled
        BY <2>10, <3>1, <3>3, RowSteps, RowsKept, LogSteps, HandlerSteps DEF Pending, Settled
      <4>4. pump[o].at = "recover-committed" => handler'[m] = "promoted"
        BY <2>1, <3>1 DEF RoundSound
      <4>5. {"committed", "reread", "callback"} \subseteq Place \ {"evaluated", "recover-committed"}
        BY DEF Place
      <4> QED
        BY <2>3, <3>1, <4>1, <4>2, <4>3, <4>4, <4>5
    <3> QED
      BY <3>2, <3>3
  <2>11. CASE Reread(o)
    <3>1. pump[o].at # "idle" /\ row[m].state \in Settled /\ row' = row
      BY <2>1, <2>11 DEF Reread, RoundSound, Publishes
    <3>2. GivesUp(o) \/ Evaluates(o, m, "replay")
      BY <2>11 DEF Reread
    <3> QED
      BY <1>2, <2>14, <3>1, <3>2
  <2>16. CASE Replay(o)
    <3>1. pump[o].at # "idle" /\ row[m].state \in Settled /\ row' = row
      BY <2>1, <2>16 DEF Replay, RoundSound, Publishes
    <3>2. GivesUp(o) \/ Goes(o, "callback")
      BY <2>16 DEF Replay
    <3> QED
      BY <1>2, <2>4, <3>1, <3>2 DEF Place
  <2>12. CASE Callback(o)
    <3>1. pump[o].at # "idle" /\ row[m].state \in Settled /\ row' = row /\ m \in PumpMessage
      BY <2>1, <2>2, <2>12 DEF Callback, RoundSound, Publishes
    <3>2. handler[m] \in {"completed-bound", "promoted"}
      BY <2>2, <3>1, <2>12 DEF RowMatchesHandler, Done, Callback
    <3>3. CASE GivesUp(o)
      BY <1>2, <3>3
    <3>4. CASE /\ IF CallbackOf[m] = "defers" THEN UNCHANGED handler_vars ELSE Commits(m)
               /\ Goes(o, "committed")
      <4>1. CallbackOf[m] # "defers" => handler'[m] = "promoted"
        BY <3>1, <3>2, <3>4 DEF Commits, PumpInv, PumpTypes
      <4> QED
        BY <2>4, <3>1, <3>4, <4>1 DEF Place
    <3> QED
      BY <2>12, <3>3, <3>4 DEF Callback
  <2>13. CASE CompletesDispatch(o) \/ Crash(o)
    BY <1>2, <2>13 DEF CompletesDispatch, Crash
  <2> QED
    BY <1>5, <2>5, <2>6, <2>7, <2>8, <2>9, <2>10, <2>11, <2>12, <2>13, <2>15, <2>16 DEF Drain
<1> QED
  BY <1>3, <1>4, <1>5 DEF PumpNext

\* The rest of the state keeps its type.
LEMMA OthersKept ==
  ASSUME PumpInv, PumpNext
  PROVE  /\ crashes' \in 0..MaxCrash /\ withdrawn' \subseteq Revocable /\ expired' \subseteq Perishable
         /\ moves' \in [PumpReceiver -> Nat] /\ \A r \in PumpReceiver : moves'[r] <= MaxMove[r]
         /\ turn' \in [PumpMessage -> {"none", "running", "bound", "promoted"}]
<1> DEFINE Typed(c, w, e, v, t) ==
             /\ c \in 0..MaxCrash /\ w \subseteq Revocable /\ e \subseteq Perishable
             /\ v \in [PumpReceiver -> Nat] /\ \A r \in PumpReceiver : v[r] <= MaxMove[r]
             /\ t \in [PumpMessage -> {"none", "running", "bound", "promoted"}]
           Kept == Typed(crashes', withdrawn', expired', moves', turn')
<1>0. /\ Typed(crashes, withdrawn, expired, moves, turn)
      /\ MaxCrash \in Nat /\ MaxMove \in [PumpReceiver -> Nat]
  BY PumpAssumption DEF PumpInv, PumpTypes
<1> USE DEF world_vars, route_vars, handler_vars
<1>1. ASSUME NEW m \in PumpMessage,
             Receive(m) \/ Withdraw(m) \/ Expires(m) \/ Time(m) \/ PromoteLater(m)
      PROVE  Kept
  BY <1>0, <1>1 DEF Receive, Withdraw, Expires, Time, LeaseExpires, PublicationLeaseExpires,
                    PromoteLater, Commits
<1>2. ASSUME NEW r \in PumpReceiver, DrainProcessed(r) PROVE Kept
  BY <1>0, <1>2 DEF DrainProcessed
<1>4. ASSUME NEW r \in PumpReceiver, RuntimeMoves(r) PROVE Kept
  <2>1. /\ moves' = [moves EXCEPT ![r] = moves[r] + 1] /\ moves[r] < MaxMove[r]
        /\ moves \in [PumpReceiver -> Nat] /\ \A x \in PumpReceiver : moves[x] <= MaxMove[x]
    BY <1>0, <1>4 DEF RuntimeMoves
  <2>2. MaxMove[r] \in Nat /\ moves[r] \in Nat
    BY <1>0, <2>1
  <2>3. moves' \in [PumpReceiver -> Nat] /\ \A x \in PumpReceiver : moves'[x] <= MaxMove[x]
    BY <2>1, <2>2
  <2> QED
    BY <1>0, <1>4, <2>3 DEF RuntimeMoves
<1>3. ASSUME NEW o \in Owner, Drain(o) \/ Crash(o) PROVE Kept
  <2>1. CASE Pick(o) \/ Evaluate(o) \/ ClaimDispatch(o) \/ SettleSkipped(o) \/ AdvanceSkipped(o)
             \/ Activate(o) \/ Settle(o) \/ Inspect(o) \/ ClaimPublication(o) \/ Reread(o)
             \/ Replay(o) \/ CompletesDispatch(o)
    BY <1>0, <2>1 DEF Pick, Evaluate, ClaimDispatch, SettleSkipped, AdvanceSkipped, Activate, Settle,
                      Inspect, ClaimPublication, Reread, Replay, CompletesDispatch
  <2>2. CASE StartTurn(o) \/ FinishTurn(o)
    BY <1>0, <2>2 DEF StartTurn, FinishTurn
  <2>3. CASE Callback(o)
    BY <1>0, <2>3 DEF Callback, Commits
  <2>4. CASE Crash(o)
    BY <1>0, <2>4 DEF Crash
  <2> QED
    BY <1>3, <2>1, <2>2, <2>3, <2>4 DEF Drain
<1> QED
  BY <1>1, <1>2, <1>3, <1>4 DEF PumpNext

LEMMA PumpInvNext ==
  ASSUME PumpInv, [PumpNext]_pump_vars
  PROVE  PumpInv'
<1>1. CASE PumpNext
  <2>1. LogStep /\ HandlerStep /\ (\A m \in PumpMessage : RowStep(m))
        /\ row' = [m \in PumpMessage |-> row'[m]]
    BY <1>1, LogSteps, HandlerSteps, RowSteps
  <2>2. \A m \in PumpMessage : row'[m] \in DispatchRow /\ LeasesSound(row'[m]) /\ RowMatchesHandler(m)'
    BY <2>1, RowsKept
  <2>3. row' \in [PumpMessage -> DispatchRow]
    BY <2>1, <2>2
  <2>4. PumpTypes'
    BY <1>1, <2>1, <2>3, LogKept, PastKept, HandlersKept, RoundsKept, OthersKept
       DEF PumpTypes
  <2> QED
    BY <1>1, <2>1, <2>2, <2>4, LogKept, HandlersKept, RoundsKept DEF PumpInv
<1>2. CASE UNCHANGED pump_vars
  <2>1. UNCHANGED <<audit, position, handler, turn, withdrawn, expired, moves, row, pump, crashes>>
    BY <1>2 DEF pump_vars
  <2>2. PumpTypes' /\ ReceivedOnce' /\ (\A m \in PumpMessage : LeasesSound(row[m]))'
    BY <2>1 DEF PumpInv, PumpTypes, ReceivedOnce
  <2>3. (\A m \in PumpMessage : HandlerMatchesCursor(m))' /\ OneActive'
    BY <2>1 DEF PumpInv, HandlerMatchesCursor, OneActive, IsActive, WasReceived, EventOf, Past
  <2>4. (\A m \in PumpMessage : RowMatchesHandler(m))' /\ (\A o \in Owner : RoundSound(pump[o]))'
    BY <2>1 DEF PumpInv, RowMatchesHandler, RoundSound
  <2> QED
    BY <2>2, <2>3, <2>4 DEF PumpInv
<1> QED
  BY <1>1, <1>2

THEOREM PumpInductive == PumpSpec => []PumpInv
BY PumpInvInit, PumpInvNext, PTL DEF PumpSpec

(***************************************************************************)
(* What follows.                                                           *)
(***************************************************************************)
\* Whatever pumps do at once, crash or are late, the tables have the form that opening
\* the database demands, and what is published was committed before.
THEOREM PublishedAfterCommit == PumpSpec => [](PumpTypeOK /\ PublishedIsCommitted)
<1>1. PumpInv => PumpTypeOK
  <2>1. ASSUME PumpInv, NEW m \in PumpMessage
        PROVE  LET d == row[m] IN
               /\ d.state \in {"none", "selected", "skipped", "completed-bound", "publishing",
                               "published"}
               /\ d.epoch \in 0..MaxEpoch /\ d.pubEpoch \in 0..MaxEpoch
               /\ d.live \in BOOLEAN /\ d.pubLive \in BOOLEAN
               /\ d.route \in Outcome \cup {"none"} /\ (d.route = "none" <=> d.state = "none")
               /\ d.state = "none" <=> d.by = NoOwner /\ d.epoch = 0
               /\ d.state \in {"publishing", "published"} <=> d.pubBy \in Owner
               /\ d.pubBy \in Owner <=> d.pubEpoch > 0
    BY <2>1 DEF PumpInv, PumpTypes, DispatchRow, LeasesSound, Settled
  <2>2. PumpInv =>
          /\ audit \in Seq(PumpMessage \X {"received", "handling"})
          /\ position \in [PumpReceiver -> Nat] /\ crashes \in 0..MaxCrash
          /\ handler \in [PumpMessage -> {"none", "claimed", "completed-bound", "promoted"}]
          /\ turn \in [PumpMessage -> {"none", "running", "bound", "promoted"}]
          /\ withdrawn \subseteq Revocable /\ expired \subseteq Perishable
          /\ \A r \in PumpReceiver : moves[r] \in 0..MaxMove[r]
    BY PumpAssumption DEF PumpInv, PumpTypes, HandlerState
  <2>3. PumpInv => pump \in [Owner ->
          [at : Place, on : PumpMessage \cup {NoMessage}, epoch : 0..MaxEpoch,
           route : Outcome \cup {"none"}, seen : BOOLEAN \X {0, 1}]]
    BY DEF PumpInv, PumpTypes, RoundRow
  <2> QED
    BY <2>1, <2>2, <2>3 DEF PumpTypeOK
<1>2. PumpInv => PublishedIsCommitted
  BY DEF PumpInv, PublishedIsCommitted, RowMatchesHandler, HandlerMatchesCursor
<1> QED
  BY <1>1, <1>2, PumpInductive, PTL

\* A publication is given to one pump at a time and follows the commit.
THEOREM PublicationIsSole == PumpSpec => PublishesAlone
<1>1. ASSUME PumpInv, NEW o \in Owner, ClaimPublication(o), pump'[o].at # "idle"
      PROVE  /\ row[pump[o].on].state # "published"
             /\ \A other \in Owner \ {o} : ~Publishing(other, pump[o].on)
  <2>1. pump'[o] = Idle => pump'[o].at = "idle"
    BY DEF Idle
  <2>2. ~GivesUp(o)
    BY <1>1, <2>1 DEF GivesUp, PumpInv, PumpTypes
  <2>3. pump[o].on \in Pending /\ ~PublicationBusy(o, pump[o].on)
    BY <1>1, <2>2 DEF ClaimPublication
  <2> QED
    BY <2>3 DEF Pending, PublicationBusy, Publishing, HoldsPublication
<1>2. PumpInv /\ [PumpNext]_pump_vars =>
        [\A o \in Owner : ClaimPublication(o) /\ pump'[o].at # "idle" =>
           /\ row[pump[o].on].state # "published"
           /\ \A other \in Owner \ {o} : ~Publishing(other, pump[o].on)]_pump_vars
  BY <1>1
<1>3. PumpSpec => SolePublisher
  BY <1>2, PumpInductive, PTL DEF PumpSpec, SolePublisher
<1> QED
  BY <1>3, PublishedAfterCommit DEF PublishesAlone

\* A dispatch is settled, skipped or published by the owner whose lease was the last,
\* at the end of the round in which it got it.
THEOREM StaleOwnersFenced == PumpSpec => StaleOwnerFenced
<1> DEFINE Fenced(m) ==
      /\ row[m].state = "selected" /\ row'[m].state \in {"completed-bound", "skipped"} =>
           LET p == pump[row[m].by]
           IN p.on = m /\ p.at \in {"bound", "skip"} /\ p.epoch = row[m].epoch
      /\ row[m].state = "publishing" /\ row'[m].state = "published" =>
           LET p == pump[row[m].pubBy] IN
           p.on = m /\ p.at = "committed" /\ p.epoch = row[m].pubEpoch
<1>1. ASSUME PumpInv, PumpNext, NEW m \in PumpMessage PROVE Fenced(m)
  <2>1. RowStep(m) /\ row[m] \in DispatchRow /\ LeasesSound(row[m])
    BY <1>1, RowSteps DEF PumpInv, PumpTypes
  <2>2. row[m].state = "selected" /\ row'[m].state \in {"completed-bound", "skipped"} =>
          \E o \in Owner : MaySettle(o, m)
    BY <2>1, RowForms DEF RowStep, Settled
  <2>3. row[m].state = "publishing" /\ row'[m].state = "published" =>
          \E o \in Owner : MayComplete(o, m)
    BY <2>1, RowForms DEF RowStep, Settled
  <2> QED
    BY <2>2, <2>3 DEF MaySettle, MayComplete, HoldsLease, HoldsPublication
<1>2. PumpInv /\ [PumpNext]_pump_vars => [\A m \in PumpMessage : Fenced(m)]_pump_vars
  BY <1>1
<1> QED
  BY <1>2, PumpInductive, PTL DEF PumpSpec, StaleOwnerFenced

(***************************************************************************)
(* Messages in order: numbers in order of size.                            *)
(***************************************************************************)
Rank(ns, n) == Cardinality({o \in ns : o <= n})
Nth(ns, i) == CHOOSE n \in ns : Rank(ns, n) = i

\* Each position up to the size of the set is taken.
Ranked(ns) == IsFiniteSet(ns) /\ \A i \in 1..Cardinality(ns) : \E n \in ns : Rank(ns, n) = i

\* A number larger than the others takes the next position and moves none.
LEMMA NthAdd ==
  ASSUME NEW ns \in SUBSET Nat, Ranked(ns), NEW k \in Nat, \A n \in ns : n < k
  PROVE  LET ms == ns \cup {k} IN
         /\ Ranked(ms) /\ Cardinality(ms) = Cardinality(ns) + 1
         /\ \A i \in 1..Cardinality(ns) : Nth(ms, i) = Nth(ns, i) /\ Nth(ns, i) \in ns
         /\ Nth(ms, Cardinality(ns) + 1) = k
<1> DEFINE ms == ns \cup {k}
<1>1. /\ k \notin ns /\ IsFiniteSet(ns) /\ Cardinality(ns) \in Nat
      /\ IsFiniteSet(ms) /\ Cardinality(ms) = Cardinality(ns) + 1
  <2>1. k \notin ns
    OBVIOUS
  <2> QED
    BY <2>1, FS_AddElement, FS_CardinalityType DEF Ranked
<1>2. \A n \in ns : Rank(ms, n) = Rank(ns, n)
  <2> SUFFICES ASSUME NEW n \in ns PROVE {o \in ms : o <= n} = {o \in ns : o <= n}
    BY DEF Rank
  <2>1. ~(k <= n)
    OBVIOUS
  <2> QED
    BY <2>1
<1>3. Rank(ms, k) = Cardinality(ns) + 1
  <2>0. \A o \in ms : o <= k
    OBVIOUS
  <2>1. {o \in ms : o <= k} = ms
    BY <2>0
  <2> QED
    BY <1>1, <2>1 DEF Rank
<1>4. \A n \in ns : Rank(ns, n) \in Nat /\ Rank(ns, n) <= Cardinality(ns)
  <2> SUFFICES ASSUME NEW n \in ns
               PROVE  Rank(ns, n) \in Nat /\ Rank(ns, n) <= Cardinality(ns)
    OBVIOUS
  <2>1. {o \in ns : o <= n} \in SUBSET ns
    OBVIOUS
  <2> QED
    BY <1>1, <2>1, FS_Subset, FS_CardinalityType DEF Rank
<1>5. Ranked(ms)
  <2> SUFFICES ASSUME NEW i \in 1..Cardinality(ms) PROVE \E n \in ms : Rank(ms, n) = i
    BY <1>1 DEF Ranked
  <2>1. CASE i \in 1..Cardinality(ns)
    BY <1>2, <2>1 DEF Ranked
  <2>2. CASE i = Cardinality(ns) + 1
    BY <1>3, <2>2
  <2> QED
    BY <1>1, <2>1, <2>2
<1>6. ASSUME NEW i \in 1..Cardinality(ns) PROVE Nth(ms, i) = Nth(ns, i) /\ Nth(ns, i) \in ns
  <2>1. i # Cardinality(ns) + 1
    BY <1>1
  <2>2. \A n : n \in ms /\ Rank(ms, n) = i <=> n \in ns /\ Rank(ns, n) = i
    BY <1>2, <1>3, <2>1
  <2>3. \E n \in ns : Rank(ns, n) = i
    BY DEF Ranked
  <2>4. Nth(ns, i) \in ns
    BY <2>3 DEF Nth
  <2> HIDE DEF ms
  <2> QED
    BY <2>2, <2>4 DEF Nth
<1>7. Nth(ms, Cardinality(ns) + 1) = k
  <2>1. Cardinality(ns) + 1 \in 1..Cardinality(ms)
    BY <1>1
  <2>2. \E n \in ms : Rank(ms, n) = Cardinality(ns) + 1
    BY <1>3
  <2>3. Nth(ms, Cardinality(ns) + 1) \in ms /\ Rank(ms, Nth(ms, Cardinality(ns) + 1)) = Cardinality(ns) + 1
    BY <2>2 DEF Nth
  <2>4. \A n \in ms : Rank(ms, n) = Cardinality(ns) + 1 => n = k
    <3> SUFFICES ASSUME NEW n \in ns, Rank(ms, n) = Cardinality(ns) + 1 PROVE FALSE
      OBVIOUS
    <3> QED
      BY <1>1, <1>2, <1>4
  <2> HIDE DEF ms
  <2> QED
    BY <2>3, <2>4
<1> QED
  BY <1>1, <1>5, <1>6, <1>7

LEMMA NthRanked ==
  ASSUME NEW ns, Ranked(ns), NEW i \in 1..Cardinality(ns)
  PROVE  Nth(ns, i) \in ns
BY DEF Ranked, Nth

LEMMA RankedEmpty == Ranked({}) /\ Cardinality({}) = 0
BY FS_EmptySet DEF Ranked

(***************************************************************************)
(* Messages in order: what a receiver's events, its cursor and its          *)
(* handlers have in common.  A claim is on the next event; a message is     *)
(* claimed if the route its dispatch has on record is offered, and skipped  *)
(* if it is not, and what is on record stays, whatever becomes of the route *)
(* itself, so a message that was handled is never skipped; and what the     *)
(* cursor has passed was promoted or skipped.                              *)
(***************************************************************************)
Working == {"selected", "starting", "turn", "bound"}

ClaimNext(m) == IsActive(m) => \A n \in Ahead(ReceiverOf[m]) : EventOf(m) <= n

OfferSound(m) ==
  /\ handler[m] # "none" => row[m].route = "offered"
  /\ row[m].state = "skipped" => row[m].route # "offered"

RoundOffered(p) ==
  /\ p.at \in Working => row[p.on].route = "offered"
  /\ p.at = "skip" => row[p.on].route \notin {"offered", "none"}
  /\ p.at = "skipped" => row[p.on].state = "skipped"

PassedDealt(m) == Past(m) => handler[m] = "promoted" \/ row[m].state = "skipped"

\* The received messages of a receiver that its cursor has passed.
Behind(r) == {n \in ReceivedFor(r) : n <= position[r]}

OrderInv ==
  /\ \A m \in PumpMessage : ClaimNext(m) /\ OfferSound(m) /\ PassedDealt(m)
  /\ \A o \in Owner : RoundOffered(pump[o])
  /\ \A r \in PumpReceiver : position[r] <= Len(audit)
  /\ \A r \in PumpReceiver : Ranked(ReceivedFor(r)) /\ Ranked(Behind(r))

LEMMA OrderInvInit == PumpInit => OrderInv
<1> SUFFICES ASSUME PumpInit PROVE OrderInv
  OBVIOUS
<1>1. DOMAIN audit = {} /\ Len(audit) = 0
  BY DEF PumpInit
<1>2. \A m \in PumpMessage : ~WasReceived(m) /\ ~IsActive(m)
  BY <1>1 DEF PumpInit, WasReceived, IsActive
<1>3. \A m \in PumpMessage : ClaimNext(m) /\ OfferSound(m) /\ PassedDealt(m)
  BY <1>2 DEF PumpInit, ClaimNext, OfferSound, PassedDealt, Past, NoDispatch
<1>4. \A o \in Owner : RoundOffered(pump[o])
  BY DEF PumpInit, RoundOffered, Idle, Working
<1>5. \A r \in PumpReceiver : ReceivedFor(r) = {} /\ Behind(r) = {}
  BY <1>1 DEF ReceivedFor, Behind
<1>6. \A r \in PumpReceiver : Ranked(ReceivedFor(r)) /\ Ranked(Behind(r))
  BY <1>5, RankedEmpty
<1>7. \A r \in PumpReceiver : position[r] <= Len(audit)
  BY <1>1 DEF PumpInit
<1> QED
  BY <1>3, <1>4, <1>6, <1>7 DEF OrderInv

\* The route that is on record stays.
LEMMA RoutesKept ==
  ASSUME PumpInv, PumpNext, NEW m \in PumpMessage, row[m].route # "none"
  PROVE  row'[m].route = row[m].route
<1>1. RowStep(m) /\ row[m] \in DispatchRow /\ LeasesSound(row[m])
  BY RowSteps DEF PumpInv, PumpTypes
<1>2. row[m].state # "none"
  BY <1>1 DEF LeasesSound
<1>3. CASE Leases(row[m], row'[m])
  BY <1>1, <1>2, <1>3 DEF Leases, Leased, DispatchRow
<1>4. CASE RunsOut(row[m], row'[m])
  BY <1>1, <1>4 DEF RunsOut, DispatchRow
<1>5. CASE Licenses(row[m], row'[m])
  BY <1>1, <1>5 DEF Licenses, Licensed, DispatchRow
<1>6. ASSUME NEW how, Settles(row[m], row'[m], how) PROVE row'[m].route = row[m].route
  BY <1>1, <1>6 DEF Settles, DispatchRow
<1>7. CASE EndsPublication(row[m], row'[m])
  BY <1>1, <1>7 DEF EndsPublication, DispatchRow
<1> QED
  BY <1>1, <1>3, <1>4, <1>5, <1>6, <1>7 DEF RowStep

\* A message is skipped for good, and only if its route is not offered.
LEMMA SkipsKept ==
  ASSUME PumpInv, OrderInv, PumpNext, NEW m \in PumpMessage
  PROVE  /\ row[m].state = "skipped" => row'[m].state = "skipped"
         /\ row'[m].state = "skipped" => row'[m].route # "offered"
<1>1. RowStep(m) /\ row[m] \in DispatchRow /\ LeasesSound(row[m]) /\ OfferSound(m)
  BY RowSteps DEF PumpInv, PumpTypes, OrderInv
<1>2. row[m].state = "skipped" => row'[m] = row[m]
  BY <1>1 DEF RowStep, Leases, RunsOut, Licenses, Settles, EndsPublication
<1>3. row'[m].state = "skipped" =>
        \/ row[m].state = "skipped"
        \/ \E o \in Owner : pump[o].at = "skip" /\ pump[o].on = m
  BY <1>1, RowForms DEF RowStep, MaySettle, Settled
<1>4. row'[m].state = "skipped" => row[m].route \notin {"offered", "none"}
  BY <1>1, <1>3 DEF OrderInv, OfferSound, RoundOffered, LeasesSound
<1> QED
  BY <1>2, <1>4, RoutesKept

LEMMA OffersKept ==
  ASSUME PumpInv, OrderInv, PumpNext, NEW m \in PumpMessage
  PROVE  OfferSound(m)'
<1>1. HandlerStep /\ handler \in [PumpMessage -> HandlerState] /\ OfferSound(m)
  BY HandlerSteps DEF PumpInv, PumpTypes, OrderInv
<1>2. \A o \in Owner : pump[o].at = "selected" => row[pump[o].on].route = "offered"
  BY DEF OrderInv, RoundOffered, Working
<1>3. handler'[m] # "none" => handler[m] # "none" \/ row[m].route = "offered"
  BY <1>1, <1>2 DEF HandlerStep, HandlerState
<1>4. handler'[m] # "none" => row'[m].route = "offered"
  BY <1>1, <1>3, RoutesKept DEF OfferSound
<1> QED
  BY <1>4, SkipsKept DEF OfferSound

\* Rounds.
RoundStill(q) ==
  /\ q.at \in Working => row'[q.on].route = "offered"
  /\ q.at = "skip" => row'[q.on].route \notin {"offered", "none"}
  /\ q.at = "skipped" => row'[q.on].state = "skipped"

LEMMA RoundsOffered ==
  ASSUME PumpInv, OrderInv, PumpNext
  PROVE  \A p \in Owner : RoundOffered(pump[p])'
<1> DEFINE Still == \A p \in Owner : RoundStill(pump'[p])
<1>0. ASSUME NEW p \in Owner, pump'[p] = pump[p] PROVE RoundStill(pump'[p])
  <2>1. RoundOffered(pump[p]) /\ (pump[p].at # "idle" => pump[p].on \in PumpMessage)
    BY DEF OrderInv, PumpInv, RoundSound
  <2>2. pump[p].at \in Working \cup {"skip", "skipped"} => pump[p].at # "idle"
    BY DEF Working
  <2> QED
    BY <1>0, <2>1, <2>2, SkipsKept, RoutesKept DEF RoundOffered, RoundStill
<1>1. pump' = pump => Still
  BY <1>0
\* One pump moves.
<1>2. ASSUME NEW o \in Owner, NEW q, pump' = [pump EXCEPT ![o] = q], RoundStill(q) PROVE Still
  BY <1>0, <1>2 DEF PumpInv, PumpTypes
<1>3. ASSUME NEW o \in Owner, GivesUp(o) PROVE Still
  <2>1. RoundStill(Idle)
    BY DEF Idle, RoundStill, Working
  <2> QED
    BY <1>2, <1>3, <2>1 DEF GivesUp
<1>4. ASSUME NEW o \in Owner, NEW place, Goes(o, place),
             place \in Working => row'[pump[o].on].route = "offered",
             place # "skip",
             place = "skipped" => row'[pump[o].on].state = "skipped"
      PROVE  Still
  <2> DEFINE q == [pump[o] EXCEPT !.at = place]
  <2>1. pump' = [pump EXCEPT ![o] = q] /\ q.at = place /\ q.on = pump[o].on
    BY <1>4 DEF Goes, PumpInv, PumpTypes, RoundRow
  <2>2. RoundStill(q)
    BY <1>4, <2>1 DEF RoundStill
  <2> HIDE DEF q
  <2> QED
    BY <1>2, <2>1, <2>2
<1>5. ASSUME NEW m \in PumpMessage,
             Receive(m) \/ Withdraw(m) \/ Expires(m) \/ Time(m) \/ PromoteLater(m)
      PROVE  Still
  BY <1>1, <1>5
     DEF Receive, Withdraw, Expires, Time, LeaseExpires, PublicationLeaseExpires, PromoteLater
<1>6. ASSUME NEW r \in PumpReceiver, RuntimeMoves(r) \/ DrainProcessed(r) PROVE Still
  BY <1>1, <1>6 DEF RuntimeMoves, DrainProcessed
<1>7. ASSUME NEW o \in Owner, Drain(o) \/ Crash(o) PROVE Still
  <2> DEFINE m == pump[o].on
  <2>1. RoundOffered(pump[o]) /\ pump[o] \in RoundRow /\ (pump[o].at # "idle" => m \in PumpMessage)
    BY DEF OrderInv, PumpInv, PumpTypes, RoundSound
  <2>2. CASE Pick(o)
    <3>1. PICK n \in PumpMessage :
            pump' = [pump EXCEPT ![o] =
              [at |-> IF n \in Pending THEN "recover"
                      ELSE IF row[n].state = "skipped" THEN "skipped" ELSE "picked",
               on |-> n, epoch |-> 0, route |-> "none", seen |-> <<FALSE, 0>>]]
      BY <2>2 DEF Pick
    <3> DEFINE q == [at |-> IF n \in Pending THEN "recover"
                            ELSE IF row[n].state = "skipped" THEN "skipped" ELSE "picked",
                     on |-> n, epoch |-> 0, route |-> "none", seen |-> <<FALSE, 0>>]
    <3>2. RoundStill(q)
      BY <2>2 DEF Pick, RoundStill, Working
    <3>3. pump' = [pump EXCEPT ![o] = q]
      BY <3>1
    <3> HIDE DEF q
    <3> QED
      BY <1>2, <3>2, <3>3
  \* A pump that goes on with another epoch.
  <2>3. ASSUME NEW place, NEW epoch, pump' = [pump EXCEPT ![o].at = place, ![o].epoch = epoch],
               place \in Working => row'[m].route = "offered",
               place = "skip" => row'[m].route \notin {"offered", "none"},
               place # "skipped"
        PROVE  Still
    <3> DEFINE q == [pump[o] EXCEPT !.at = place, !.epoch = epoch]
    <3>1. pump' = [pump EXCEPT ![o] = q] /\ q.at = place /\ q.on = m
      BY <2>1, <2>3 DEF PumpInv, PumpTypes, RoundRow
    <3>2. RoundStill(q)
      BY <2>3, <3>1 DEF RoundStill
    <3> HIDE DEF q
    <3> QED
      BY <1>2, <3>1, <3>2
  <2>4. CASE ClaimDispatch(o)
    <3> DEFINE place == IF pump[o].route = "offered" THEN "selected" ELSE "skip"
    <3>1. /\ m \in PumpMessage /\ pump[o].route \in Outcome
          /\ row \in [PumpMessage -> DispatchRow]
      BY <2>1, <2>4 DEF ClaimDispatch, PumpInv, PumpTypes, RoundSound
    <3>2. \/ GivesUp(o)
          \/ /\ \E epoch : pump' = [pump EXCEPT ![o].at = place, ![o].epoch = epoch]
             /\ \/ \E epoch : row' = [row EXCEPT ![m].state = "selected", ![m].route = pump[o].route,
                                                  ![m].by = o, ![m].epoch = epoch, ![m].live = TRUE]
                \/ row' = row /\ row[m].route = pump[o].route
      BY <2>4 DEF ClaimDispatch
    <3>3. ASSUME ~GivesUp(o) PROVE row'[m].route = pump[o].route
      <4>1. row[m] \in DispatchRow
        BY <3>1
      <4>2. ASSUME NEW epoch,
                   row' = [row EXCEPT ![m].state = "selected", ![m].route = pump[o].route,
                                      ![m].by = o, ![m].epoch = epoch, ![m].live = TRUE]
            PROVE  row'[m].route = pump[o].route
        <5>1. row'[m] = Leased(row[m], o, epoch, pump[o].route)
          BY <3>1, <4>2 DEF Leased
        <5> QED
          BY <4>1, <5>1 DEF Leased, DispatchRow
      <4> QED
        BY <3>2, <3>3, <4>2
    <3>4. ASSUME ~GivesUp(o)
          PROVE  /\ place \in Working => row'[m].route = "offered"
                 /\ place = "skip" => row'[m].route \notin {"offered", "none"}
                 /\ place # "skipped"
      BY <3>1, <3>3, <3>4 DEF Working, Outcome
    <3> HIDE DEF place
    <3> QED
      BY <1>3, <2>3, <3>2, <3>4
  <2>5. CASE SettleSkipped(o)
    <3>1. m \in PumpMessage
      BY <2>1, <2>5 DEF SettleSkipped
    <3>2. GivesUp(o) \/ (Goes(o, "skipped") /\ row'[m].state = "skipped")
      BY <2>5, <3>1 DEF SettleSkipped, PumpInv, PumpTypes, DispatchRow
    <3> QED
      BY <1>3, <1>4, <3>2 DEF Working
  <2>6. CASE Activate(o) \/ StartTurn(o) \/ FinishTurn(o)
    <3>1. row'[m].route = "offered"
      BY <2>1, <2>6 DEF Activate, StartTurn, FinishTurn, RoundOffered, Working
    <3>2. GivesUp(o) \/ \E place \in {"bound", "starting", "turn"} : Goes(o, place)
      BY <2>6 DEF Activate, StartTurn, FinishTurn
    <3> QED
      BY <1>3, <1>4, <3>1, <3>2
  \* A pump that reads the authority and the route.
  <2>10. CASE Evaluate(o) \/ Reread(o)
    <3>1. GivesUp(o) \/ \E place \in {"evaluated", "replay"} : Evaluates(o, m, place)
      BY <2>10 DEF Evaluate, Reread
    <3>2. ASSUME NEW place \in {"evaluated", "replay"}, Evaluates(o, m, place) PROVE Still
      <4> DEFINE q == [pump[o] EXCEPT !.at = place, !.route = RouteOf(m), !.seen = Snapshot(m)]
      <4>1. pump' = [pump EXCEPT ![o] = q] /\ q.at = place
        BY <2>1, <3>2 DEF Evaluates, PumpInv, PumpTypes, RoundRow
      <4>2. RoundStill(q)
        BY <4>1 DEF RoundStill, Working
      <4> HIDE DEF q
      <4> QED
        BY <1>2, <4>1, <4>2
    <3> QED
      BY <1>3, <3>1, <3>2
  <2>7. CASE Settle(o) \/ Inspect(o) \/ Replay(o) \/ Callback(o)
    <3>1. \/ GivesUp(o)
          \/ \E place \in {"settled", "recover-active", "recover-committed", "callback", "committed"} :
               Goes(o, place)
      BY <2>7 DEF Settle, Inspect, Replay, Callback
    <3> QED
      BY <1>3, <1>4, <3>1 DEF Working
  <2>8. CASE ClaimPublication(o)
    <3>1. \/ GivesUp(o)
          \/ \E place \in {"committed", "reread", "callback"} :
               pump' = [pump EXCEPT ![o].at = place, ![o].epoch = PublicationEpoch(o, m)]
      BY <2>8 DEF ClaimPublication
    <3> QED
      BY <1>3, <2>3, <3>1 DEF Working
  <2>9. CASE AdvanceSkipped(o) \/ CompletesDispatch(o) \/ Crash(o)
    BY <1>3, <2>9 DEF AdvanceSkipped, CompletesDispatch, Crash
  <2> QED
    BY <1>7, <2>2, <2>4, <2>5, <2>6, <2>7, <2>8, <2>9, <2>10 DEF Drain
<1>8. Still
  BY <1>5, <1>6, <1>7 DEF PumpNext
<1> QED
  BY <1>8 DEF RoundStill, RoundOffered

\* What a step may do to a cursor: it moves over the next entry, which is what handling
\* left, or received a message that was promoted or skipped.
Over(r, n) ==
  /\ \A o \in Ahead(r) : n <= o
  /\ position' = [position EXCEPT ![r] = n]
  /\ audit' = audit /\ row' = row
  /\ audit[n][2] = "received" =>
       handler'[audit[n][1]] = "promoted" \/ row[audit[n][1]].state = "skipped"

CursorStep == position' = position \/ \E r \in PumpReceiver : \E n \in Ahead(r) : Over(r, n)

LEMMA CursorSteps ==
  ASSUME PumpInv, OrderInv, PumpNext
  PROVE  CursorStep
<1> USE DEF CursorStep
<1>1. ASSUME NEW m \in PumpMessage, Receive(m) \/ Withdraw(m) \/ Expires(m) \/ Time(m)
      PROVE  CursorStep
  BY <1>1 DEF Receive, Withdraw, Expires, Time, LeaseExpires, PublicationLeaseExpires, handler_vars
<1>2. ASSUME NEW m \in PumpMessage, WasReceived(m), ~Past(m)
      PROVE  /\ EventOf(m) \in Ahead(ReceiverOf[m]) /\ ReceiverOf[m] \in PumpReceiver
             /\ audit[EventOf(m)][1] = m /\ audit[EventOf(m)][2] = "received"
  <2>1. EventOf(m) \in DOMAIN audit /\ audit[EventOf(m)] = <<m, "received">>
    BY <1>2, EventOfReceived
  <2>2. EventOf(m) > position[ReceiverOf[m]] /\ ReceiverOf[m] \in PumpReceiver
    <3>1. EventOf(m) \in Nat
      BY <2>1 DEF PumpInv, PumpTypes
    <3>2. ReceiverOf[m] \in PumpReceiver /\ position[ReceiverOf[m]] \in Nat
      BY PumpAssumption DEF PumpInv, PumpTypes
    <3> QED
      BY <1>2, <3>1, <3>2 DEF Past
  <2> QED
    BY <2>1, <2>2 DEF Ahead
<1>3. ASSUME NEW m \in PumpMessage, Commits(m), UNCHANGED <<audit, row>> PROVE CursorStep
  <2>1. CASE handler[m] # "completed-bound"
    BY <1>3, <2>1 DEF Commits
  <2>2. CASE handler[m] = "completed-bound"
    <3>1. WasReceived(m) /\ ~Past(m) /\ \A n \in Ahead(ReceiverOf[m]) : EventOf(m) <= n
      BY <2>2 DEF PumpInv, HandlerMatchesCursor, IsActive, OrderInv, ClaimNext
    <3>2. position' = [position EXCEPT ![ReceiverOf[m]] = EventOf(m)] /\ handler'[m] = "promoted"
      BY <1>3, <2>2 DEF Commits, PumpInv, PumpTypes
    <3>3. Over(ReceiverOf[m], EventOf(m))
      BY <1>2, <1>3, <3>1, <3>2 DEF Over
    <3> QED
      BY <1>2, <3>1, <3>3
  <2> QED
    BY <2>1, <2>2
<1>4. ASSUME NEW m \in PumpMessage, PromoteLater(m) PROVE CursorStep
  BY <1>3, <1>4 DEF PromoteLater, world_vars
<1>5. ASSUME NEW r \in PumpReceiver, DrainProcessed(r) PROVE CursorStep
  <2>1. PICK n \in Ahead(r) :
          /\ \A o \in Ahead(r) : n <= o
          /\ audit[n][2] = "handling"
          /\ position' = [position EXCEPT ![r] = n]
    BY <1>5 DEF DrainProcessed
  <2>2. Over(r, n)
    BY <1>5, <2>1 DEF DrainProcessed, Over, world_vars
  <2> QED
    BY <2>2
<1>7. ASSUME NEW r \in PumpReceiver, RuntimeMoves(r) PROVE CursorStep
  BY <1>7 DEF RuntimeMoves, handler_vars
<1>6. ASSUME NEW o \in Owner, Drain(o) \/ Crash(o) PROVE CursorStep
  <2> DEFINE m == pump[o].on
  <2>1. pump[o].at # "idle" => m \in PumpMessage
    BY DEF PumpInv, RoundSound
  <2>2. CASE Callback(o)
    BY <1>3, <2>1, <2>2 DEF Callback, world_vars, handler_vars
  <2>3. CASE AdvanceSkipped(o)
    <3>1. m \in PumpMessage /\ row[m].state = "skipped" /\ UNCHANGED <<audit, row>>
      BY <2>1, <2>3 DEF AdvanceSkipped, OrderInv, RoundOffered, world_vars
    <3>2. CASE IsNext(m) /\ Active(ReceiverOf[m]) = {}
      <4>1. Over(ReceiverOf[m], EventOf(m))
        BY <1>2, <2>3, <3>1, <3>2 DEF AdvanceSkipped, IsNext, Over
      <4> QED
        BY <1>2, <3>1, <3>2, <4>1 DEF IsNext
    <3>3. CASE ~(IsNext(m) /\ Active(ReceiverOf[m]) = {})
      BY <2>3, <3>3 DEF AdvanceSkipped
    <3> QED
      BY <3>2, <3>3
  <2>4. CASE ~Callback(o) /\ ~AdvanceSkipped(o)
    BY <1>6, <2>4
       DEF Drain, Crash, Pick, Evaluate, ClaimDispatch, SettleSkipped, Activate, StartTurn,
           FinishTurn, Settle, Inspect, ClaimPublication, Reread, Replay, CompletesDispatch,
           handler_vars
  <2> QED
    BY <2>2, <2>3, <2>4
<1> QED
  BY <1>1, <1>4, <1>5, <1>6, <1>7 DEF PumpNext

\* A new entry comes after all others.
LEMMA LogGrows ==
  ASSUME PumpInv, LogStep
  PROVE  /\ Len(audit) \in Nat /\ DOMAIN audit = 1..Len(audit)
         /\ Len(audit') \in Nat /\ Len(audit) <= Len(audit')
         /\ \A n \in DOMAIN audit' : n \in DOMAIN audit \/ n = Len(audit) + 1
<1> DEFINE S == PumpMessage \X {"received", "handling"}
<1>1. audit \in Seq(S)
  BY DEF PumpInv, PumpTypes
<1>2. audit' = audit \/ \E x \in S : audit' = Append(audit, x)
  BY DEF LogStep
<1> HIDE DEF S
<1>3. Len(audit) \in Nat /\ DOMAIN audit = 1..Len(audit)
  BY <1>1
<1>4. ASSUME NEW x \in S, audit' = Append(audit, x)
      PROVE  Len(audit') = Len(audit) + 1 /\ DOMAIN audit' = 1..(Len(audit) + 1)
  BY <1>1, <1>4
<1> QED
  BY <1>2, <1>3, <1>4

\* A claim is on the next event of its receiver.
LEMMA ClaimsKept ==
  ASSUME PumpInv, OrderInv, PumpNext, NEW m \in PumpMessage
  PROVE  ClaimNext(m)'
<1> SUFFICES ASSUME IsActive(m)', NEW n \in Ahead(ReceiverOf[m])' PROVE EventOf(m)' <= n
  BY DEF ClaimNext
<1>1. LogStep /\ HandlerStep
  BY LogSteps, HandlerSteps
<1> DEFINE Claimed == /\ WasReceived(m) /\ \A k \in Ahead(ReceiverOf[m]) : EventOf(m) <= k
                      /\ position'[ReceiverOf[m]] = position[ReceiverOf[m]]
<1>2. /\ handler \in [PumpMessage -> HandlerState] /\ position \in [PumpReceiver -> Nat]
      /\ \A o \in PumpMessage : ClaimNext(o) /\ HandlerMatchesCursor(o)
      /\ \A o \in PumpMessage : IsActive(m) /\ IsActive(o) /\ ReceiverOf[m] = ReceiverOf[o] => m = o
  BY DEF PumpInv, PumpTypes, OrderInv, OneActive
<1>3. IsActive(m) /\ position'[ReceiverOf[m]] = position[ReceiverOf[m]] => Claimed
  BY <1>2 DEF ClaimNext, HandlerMatchesCursor
<1> HIDE DEF Claimed
<1>4. ASSUME handler' = handler, position' = position PROVE Claimed
  <2>1. IsActive(m)
    BY <1>4 DEF IsActive
  <2> QED
    BY <1>3, <1>4, <2>1
<1>5. ASSUME NEW o \in PumpMessage, IsNext(o), handler' = [handler EXCEPT ![o] = "claimed"],
             position' = position
      PROVE  Claimed
  <2>1. CASE o = m
    BY <1>5, <2>1 DEF IsNext, Claimed
  <2>2. CASE o # m
    <3>1. IsActive(m)
      BY <1>2, <1>5, <2>2 DEF IsActive
    <3> QED
      BY <1>3, <1>5, <3>1
  <2> QED
    BY <2>1, <2>2
<1>6. ASSUME NEW o \in PumpMessage, handler[o] = "claimed",
             handler' = [handler EXCEPT ![o] = "completed-bound"], position' = position
      PROVE  Claimed
  <2>1. IsActive(m)
    BY <1>2, <1>6 DEF IsActive
  <2> QED
    BY <1>3, <1>6, <2>1
<1>7. ASSUME NEW o \in PumpMessage, handler[o] = "completed-bound",
             handler' = [handler EXCEPT ![o] = "promoted"],
             position' = [position EXCEPT ![ReceiverOf[o]] = EventOf(o)]
      PROVE  Claimed
  <2>1. IsActive(m) /\ m # o
    BY <1>2, <1>7 DEF IsActive
  <2>2. IsActive(o)
    BY <1>7 DEF IsActive
  <2>3. ReceiverOf[m] # ReceiverOf[o] /\ ReceiverOf[m] \in PumpReceiver
    BY <1>2, <2>1, <2>2, PumpAssumption
  <2>4. position'[ReceiverOf[m]] = position[ReceiverOf[m]]
    BY <1>2, <1>7, <2>3
  <2> QED
    BY <1>3, <2>1, <2>4
<1>8. ASSUME NEW r \in PumpReceiver, NEW k \in DOMAIN audit, Active(r) = {},
             position' = [position EXCEPT ![r] = k], handler' = handler
      PROVE  Claimed
  <2>1. IsActive(m)
    BY <1>8 DEF IsActive
  <2>2. ReceiverOf[m] # r /\ ReceiverOf[m] \in PumpReceiver
    BY <1>8, <2>1, PumpAssumption DEF Active, IsActive
  <2>3. position'[ReceiverOf[m]] = position[ReceiverOf[m]]
    BY <1>2, <1>8, <2>2
  <2> QED
    BY <1>3, <2>1, <2>3
<1>9. Claimed
  <2>1. CASE UNCHANGED <<handler, position>>
    <3>1. handler' = handler /\ position' = position
      BY <2>1
    <3> QED
      BY <1>4, <3>1
  <2>2. CASE ~UNCHANGED <<handler, position>>
    BY <1>1, <1>5, <1>6, <1>7, <1>8, <2>2 DEF HandlerStep
  <2> QED
    BY <2>1, <2>2
<1>10. EventOf(m)' = EventOf(m) /\ EventOf(m) \in DOMAIN audit
  BY <1>1, <1>9, LogKept, EventOfReceived DEF Claimed
<1>11. n \in DOMAIN audit => n \in Ahead(ReceiverOf[m])
  BY <1>1, <1>9, LogKept DEF Claimed, Ahead
<1>12. n \in DOMAIN audit \/ n = Len(audit) + 1
  BY <1>1, LogGrows DEF Ahead
<1>13. Len(audit) \in Nat /\ DOMAIN audit = 1..Len(audit)
  BY <1>1, LogGrows
<1>14. CASE n \in DOMAIN audit
  BY <1>9, <1>10, <1>11, <1>14 DEF Claimed
<1>15. CASE n = Len(audit) + 1
  BY <1>10, <1>13, <1>15
<1> QED
  BY <1>12, <1>14, <1>15

\* What the cursor passes was promoted or skipped.
LEMMA PassedKept ==
  ASSUME PumpInv, OrderInv, PumpNext, NEW m \in PumpMessage
  PROVE  PassedDealt(m)'
<1> SUFFICES ASSUME Past(m)' PROVE handler'[m] = "promoted" \/ row'[m].state = "skipped"
  BY DEF PassedDealt
<1> DEFINE r == ReceiverOf[m]
<1>1. LogStep /\ HandlerStep /\ CursorStep
  BY LogSteps, HandlerSteps, CursorSteps
<1>2. r \in PumpReceiver /\ position \in [PumpReceiver -> Nat] /\ position[r] <= Len(audit)
  BY PumpAssumption DEF PumpInv, PumpTypes, OrderInv
<1>3. Len(audit) \in Nat /\ DOMAIN audit = 1..Len(audit)
  BY <1>1, LogGrows
<1>4. Past(m) => handler'[m] = "promoted" \/ row'[m].state = "skipped"
  <2>1. PassedDealt(m)
    BY DEF OrderInv
  <2>2. handler[m] = "promoted" => handler'[m] = "promoted"
    BY <1>1, HandlersKept
  <2> QED
    BY <2>1, <2>2, SkipsKept DEF PassedDealt
<1>5. CASE position' = position
  <2>1. CASE WasReceived(m)
    <3>1. EventOf(m)' = EventOf(m)
      BY <1>1, <2>1, LogKept
    <3> QED
      BY <1>4, <1>5, <2>1, <3>1 DEF Past
  <2>2. CASE ~WasReceived(m)
    <3>1. EventOf(m)' = Len(audit) + 1
      BY <1>1, <2>2, LogKept DEF Past
    <3>2. Len(audit) + 1 <= position[r]
      BY <1>5, <3>1 DEF Past
    <3> HIDE DEF r
    <3> QED
      BY <1>2, <1>3, <3>2
  <2> QED
    BY <2>1, <2>2
<1>6. ASSUME NEW s \in PumpReceiver, NEW n \in Ahead(s), Over(s, n)
      PROVE  handler'[m] = "promoted" \/ row'[m].state = "skipped"
  <2>1. WasReceived(m) /\ EventOf(m)' = EventOf(m) /\ EventOf(m) <= position'[r]
    BY <1>6 DEF Over, Past, WasReceived, EventOf
  <2>2. EventOf(m) \in DOMAIN audit /\ audit[EventOf(m)] = <<m, "received">>
    BY <2>1, EventOfReceived
  <2>3. CASE EventOf(m) <= position[r]
    BY <1>4, <2>1, <2>3 DEF Past
  <2>4. CASE ~(EventOf(m) <= position[r])
    <3>1. s = r /\ position'[r] = n
      BY <1>2, <1>6, <2>1, <2>4 DEF Over
    <3>2. EventOf(m) > position[r]
      BY <1>2, <1>3, <2>2, <2>4
    <3>3. EventOf(m) \in Ahead(s)
      BY <2>2, <3>1, <3>2 DEF Ahead
    <3>4. n <= EventOf(m) /\ EventOf(m) <= n /\ n \in Nat /\ EventOf(m) \in Nat
      BY <1>3, <1>6, <2>1, <2>2, <3>1, <3>3 DEF Over, Ahead
    <3>5. n = EventOf(m)
      BY <3>4
    <3>6. audit[n][1] = m /\ audit[n][2] = "received"
      BY <2>2, <3>5
    <3>7. handler'[m] = "promoted" \/ row[m].state = "skipped"
      BY <1>6, <3>6 DEF Over
    <3> QED
      BY <1>6, <3>7 DEF Over
  <2> QED
    BY <2>3, <2>4
<1> QED
  BY <1>1, <1>5, <1>6 DEF CursorStep

LEMMA CursorsInLog ==
  ASSUME PumpInv, OrderInv, PumpNext, NEW r \in PumpReceiver
  PROVE  position'[r] <= Len(audit')
<1>1. LogStep /\ CursorStep
  BY LogSteps, CursorSteps
<1>2. position \in [PumpReceiver -> Nat] /\ position[r] <= Len(audit)
  BY DEF PumpInv, PumpTypes, OrderInv
<1>3. /\ Len(audit) \in Nat /\ DOMAIN audit = 1..Len(audit)
      /\ Len(audit') \in Nat /\ Len(audit) <= Len(audit')
  BY <1>1, LogGrows
<1>4. position'[r] \in Nat /\ position'[r] <= Len(audit)
  <2>1. CASE position' = position
    BY <1>2, <2>1
  <2>2. ASSUME NEW s \in PumpReceiver, NEW n \in Ahead(s), Over(s, n)
        PROVE  position'[r] \in Nat /\ position'[r] <= Len(audit)
    <3>1. n \in 1..Len(audit)
      BY <1>3 DEF Ahead
    <3>2. position'[r] = n \/ position'[r] = position[r]
      BY <1>2, <2>2 DEF Over
    <3> QED
      BY <1>2, <1>3, <3>1, <3>2
  <2> QED
    BY <1>1, <2>1, <2>2 DEF CursorStep
<1> QED
  BY <1>2, <1>3, <1>4

\* What a step may do to the received messages of a receiver: nothing, a message comes, or
\* the cursor passes the next one.
SameOrder(r) == ReceivedFor(r)' = ReceivedFor(r) /\ Behind(r)' = Behind(r)

Arrives(r, m) ==
  /\ r = ReceiverOf[m] /\ ~WasReceived(m)
  /\ audit' = Append(audit, <<m, "received">>)
  /\ ReceivedFor(r)' = ReceivedFor(r) \cup {Len(audit) + 1}
  /\ Behind(r)' = Behind(r)

Passes(r, k) ==
  /\ audit' = audit /\ row' = row
  /\ k \in ReceivedFor(r) \ Behind(r) /\ \A b \in Behind(r) : b < k
  /\ ReceivedFor(r)' = ReceivedFor(r)
  /\ Behind(r)' = Behind(r) \cup {k}

OrderStep ==
  \/ \A r \in PumpReceiver : SameOrder(r)
  \/ \E r \in PumpReceiver :
       /\ (\E m \in PumpMessage : Arrives(r, m)) \/ (\E k \in ReceivedFor(r) : Passes(r, k))
       /\ \A s \in PumpReceiver \ {r} : SameOrder(s)

LEMMA ReceivedInLog ==
  ASSUME PumpInv, NEW r \in PumpReceiver
  PROVE  /\ ReceivedFor(r) \in SUBSET Nat /\ Behind(r) \in SUBSET ReceivedFor(r)
         /\ Len(audit) \in Nat /\ position[r] \in Nat
         /\ \A n \in ReceivedFor(r) : n \in DOMAIN audit /\ n < Len(audit) + 1
<1>1. audit \in Seq(PumpMessage \X {"received", "handling"}) /\ position[r] \in Nat
  BY DEF PumpInv, PumpTypes
<1>2. Len(audit) \in Nat /\ DOMAIN audit = 1..Len(audit)
  BY <1>1
<1> QED
  BY <1>1, <1>2 DEF ReceivedFor, Behind

LEMMA OrderSteps ==
  ASSUME PumpInv, OrderInv, PumpNext
  PROVE  OrderStep
<1>1. LogStep /\ CursorStep
  BY LogSteps, CursorSteps
<1>2. ASSUME audit' = audit PROVE \A r \in PumpReceiver : ReceivedFor(r)' = ReceivedFor(r)
  BY <1>2 DEF ReceivedFor
<1>3. \A r \in PumpReceiver :
        ReceivedFor(r)' = ReceivedFor(r) /\ position'[r] = position[r] => SameOrder(r)
  BY DEF SameOrder, Behind
<1>4. ASSUME position' = position, NEW m \in PumpMessage, audit' = Append(audit, <<m, "handling">>)
      PROVE  \A r \in PumpReceiver : SameOrder(r)
  <2> SUFFICES ASSUME NEW r \in PumpReceiver PROVE ReceivedFor(r)' = ReceivedFor(r)
    BY <1>3, <1>4
  <2>1. audit \in Seq(PumpMessage \X {"received", "handling"})
    BY DEF PumpInv, PumpTypes
  <2>2. /\ DOMAIN audit' = DOMAIN audit \cup {Len(audit) + 1}
        /\ audit'[Len(audit) + 1] = <<m, "handling">>
        /\ \A n \in DOMAIN audit : audit'[n] = audit[n]
    BY <1>4, <2>1
  <2>3. audit'[Len(audit) + 1][2] # "received"
    BY <2>2
  <2> QED
    BY <2>2, <2>3 DEF ReceivedFor
<1>5. ASSUME position' = position, NEW m \in PumpMessage, ~WasReceived(m),
             audit' = Append(audit, <<m, "received">>)
      PROVE  /\ ReceiverOf[m] \in PumpReceiver /\ Arrives(ReceiverOf[m], m)
             /\ \A s \in PumpReceiver \ {ReceiverOf[m]} : SameOrder(s)
  <2>1. audit \in Seq(PumpMessage \X {"received", "handling"})
    BY DEF PumpInv, PumpTypes
  <2>2. /\ DOMAIN audit' = DOMAIN audit \cup {Len(audit) + 1}
        /\ audit'[Len(audit) + 1] = <<m, "received">>
        /\ \A n \in DOMAIN audit : audit'[n] = audit[n]
    BY <1>5, <2>1
  <2>3. audit'[Len(audit) + 1][2] = "received" /\ audit'[Len(audit) + 1][1] = m
    BY <2>2
  <2>4. ReceiverOf[m] \in PumpReceiver
    BY PumpAssumption
  <2>5. ReceivedFor(ReceiverOf[m])' = ReceivedFor(ReceiverOf[m]) \cup {Len(audit) + 1}
    BY <2>2, <2>3 DEF ReceivedFor
  <2>6. \A s \in PumpReceiver \ {ReceiverOf[m]} : ReceivedFor(s)' = ReceivedFor(s)
    BY <2>2, <2>3 DEF ReceivedFor
  <2>7. Behind(ReceiverOf[m])' = Behind(ReceiverOf[m])
    <3> DEFINE r == ReceiverOf[m]
    <3>1. position'[r] = position[r] /\ position[r] <= Len(audit) /\ Len(audit) \in Nat
          /\ position[r] \in Nat
      BY <1>5, <2>4, ReceivedInLog DEF OrderInv
    <3>2. ~(Len(audit) + 1 <= position'[r])
      BY <3>1
    <3> HIDE DEF r
    <3>3. ReceivedFor(r)' = ReceivedFor(r) \cup {Len(audit) + 1}
      BY <2>5 DEF r
    <3>4. Behind(r)' = Behind(r)
      BY <3>1, <3>2, <3>3 DEF Behind
    <3> QED
      BY <3>4 DEF r
  <2> QED
    BY <1>3, <1>5, <2>4, <2>5, <2>6, <2>7 DEF Arrives
<1>6. ASSUME NEW s \in PumpReceiver, NEW n \in Ahead(s), Over(s, n)
      PROVE  /\ \A r \in PumpReceiver \ {s} : SameOrder(r)
             /\ audit[n][2] = "received" => n \in ReceivedFor(s) /\ Passes(s, n)
             /\ audit[n][2] # "received" => SameOrder(s)
  <2>1. /\ \A r \in PumpReceiver : ReceivedFor(r)' = ReceivedFor(r)
        /\ position' = [position EXCEPT ![s] = n] /\ audit' = audit /\ row' = row
    BY <1>2, <1>6 DEF Over
  <2>2. position \in [PumpReceiver -> Nat] /\ position'[s] = n
    BY <2>1 DEF PumpInv, PumpTypes
  <2>3. \A r \in PumpReceiver \ {s} : SameOrder(r)
    BY <1>3, <2>1, <2>2
  <2>4. /\ n \in DOMAIN audit /\ ReceiverOf[audit[n][1]] = s /\ n > position[s]
        /\ \A o \in Ahead(s) : n <= o
    BY <1>6 DEF Over, Ahead
  <2>5. /\ ReceivedFor(s) \in SUBSET Nat /\ position[s] \in Nat
        /\ \A k \in ReceivedFor(s) : k \in DOMAIN audit
    BY ReceivedInLog
  <2>6. n \in Nat
    BY <2>4 DEF PumpInv, PumpTypes
  <2>7. \A k \in ReceivedFor(s) : k <= n <=> k <= position[s] \/ k = n
    <3> SUFFICES ASSUME NEW k \in ReceivedFor(s), k <= n, ~(k <= position[s]) PROVE k = n
      BY <2>4, <2>5, <2>6
    <3>1. k \in Ahead(s)
      BY <2>5 DEF Ahead, ReceivedFor
    <3> QED
      BY <2>4, <2>5, <2>6, <3>1
  <2>8. Behind(s)' = {k \in ReceivedFor(s) : k <= n}
    BY <2>1, <2>2 DEF Behind
  <2>9. CASE audit[n][2] = "received"
    <3>1. n \in ReceivedFor(s)
      BY <2>4, <2>9 DEF ReceivedFor
    <3>2. Behind(s)' = Behind(s) \cup {n}
      BY <2>7, <2>8, <3>1 DEF Behind
    <3>3. n \notin Behind(s) /\ \A b \in Behind(s) : b < n
      BY <2>4, <2>5, <2>6 DEF Behind
    <3> QED
      BY <2>1, <2>3, <2>9, <3>1, <3>2, <3>3 DEF Passes
  <2>10. CASE audit[n][2] # "received"
    <3>1. n \notin ReceivedFor(s)
      BY <2>10 DEF ReceivedFor
    <3>2. Behind(s)' = Behind(s)
      BY <2>7, <2>8, <3>1 DEF Behind
    <3> QED
      BY <2>1, <2>3, <2>10, <3>2 DEF SameOrder
  <2> QED
    BY <2>9, <2>10
<1>7. CASE position' = position
  <2>1. CASE audit' = audit
    BY <1>2, <1>3, <1>7, <2>1 DEF OrderStep
  <2>2. CASE audit' # audit
    <3>1. PICK m \in PumpMessage :
            \/ audit' = Append(audit, <<m, "handling">>)
            \/ audit' = Append(audit, <<m, "received">>) /\ ~WasReceived(m)
      BY <1>1, <2>2 DEF LogStep
    <3> QED
      BY <1>4, <1>5, <1>7, <3>1 DEF OrderStep
  <2> QED
    BY <2>1, <2>2
<1>8. ASSUME NEW s \in PumpReceiver, NEW n \in Ahead(s), Over(s, n) PROVE OrderStep
  BY <1>6, <1>8 DEF OrderStep
<1> QED
  BY <1>1, <1>7, <1>8 DEF CursorStep

LEMMA RanksKept ==
  ASSUME PumpInv, OrderInv, PumpNext, NEW r \in PumpReceiver
  PROVE  Ranked(ReceivedFor(r))' /\ Ranked(Behind(r))'
<1> DEFINE R == ReceivedFor(r)
           B == Behind(r)
<1>1. /\ R \in SUBSET Nat /\ B \in SUBSET Nat /\ Len(audit) + 1 \in Nat
      /\ \A n \in R : n < Len(audit) + 1
  BY ReceivedInLog
<1>2. Ranked(R) /\ Ranked(B)
  BY DEF OrderInv
<1>3. Ranked(R \cup {Len(audit) + 1})
  BY <1>1, <1>2, NthAdd
<1>4. ASSUME NEW k \in R, \A b \in B : b < k PROVE Ranked(B \cup {k})
  BY <1>1, <1>2, <1>4, NthAdd
<1>5. \/ R' = R /\ B' = B
      \/ R' = R \cup {Len(audit) + 1} /\ B' = B
      \/ \E k \in R : R' = R /\ B' = B \cup {k} /\ \A b \in B : b < k
  BY OrderSteps DEF OrderStep, SameOrder, Arrives, Passes
<1>6. Ranked(R') /\ Ranked(B')
  <2> HIDE DEF R, B
  <2> QED
    BY <1>2, <1>3, <1>4, <1>5
<1> QED
  BY <1>6

LEMMA OrderInvNext == PumpInv /\ OrderInv /\ [PumpNext]_pump_vars => OrderInv'
<1> SUFFICES ASSUME PumpInv, OrderInv, [PumpNext]_pump_vars PROVE OrderInv'
  OBVIOUS
<1>1. CASE PumpNext
  BY <1>1, ClaimsKept, OffersKept, PassedKept, RoundsOffered, CursorsInLog, RanksKept DEF OrderInv
<1>2. CASE UNCHANGED pump_vars
  <2>1. audit' = audit /\ position' = position /\ handler' = handler /\ row' = row /\ pump' = pump
    BY <1>2 DEF pump_vars
  <2>2. (\A m \in PumpMessage : ClaimNext(m) /\ OfferSound(m) /\ PassedDealt(m))'
    BY <2>1 DEF OrderInv, ClaimNext, OfferSound, PassedDealt, IsActive, Ahead, EventOf, Past, WasReceived
  <2>3. (\A o \in Owner : RoundOffered(pump[o]))'
    BY <2>1 DEF OrderInv, RoundOffered
  <2>4. (\A r \in PumpReceiver : position[r] <= Len(audit))'
    BY <2>1 DEF OrderInv
  <2>5. (\A r \in PumpReceiver : Ranked(ReceivedFor(r)) /\ Ranked(Behind(r)))'
    <3>1. \A r \in PumpReceiver : ReceivedFor(r)' = ReceivedFor(r) /\ Behind(r)' = Behind(r)
      BY <2>1 DEF ReceivedFor, Behind
    <3> QED
      BY <3>1 DEF OrderInv
  <2> QED
    BY <2>2, <2>3, <2>4, <2>5 DEF OrderInv
<1> QED
  BY <1>1, <1>2

\* The pumps keep the order of each receiver's messages.
THEOREM OrderInductive == PumpSpec => [](PumpInv /\ OrderInv)
<1>1. PumpInit => OrderInv
  BY OrderInvInit
<1>2. PumpInv /\ OrderInv /\ [PumpNext]_pump_vars => OrderInv'
  BY OrderInvNext
<1>3. PumpSpec => [][PumpNext]_pump_vars /\ PumpInit
  BY DEF PumpSpec
<1> QED
  BY <1>1, <1>2, <1>3, PumpInductive, PTL

(***************************************************************************)
(* Messages in order: the refinement.                                      *)
(***************************************************************************)
ArrivedFor(r) == [i \in 1..Cardinality(ReceivedFor(r)) |-> audit[Nth(ReceivedFor(r), i)][1]]

Way(m) == IF row[m].state = "skipped" THEN "skipped" ELSE "handled"
DealtFor(r) == [i \in 1..Cardinality(Behind(r)) |-> Way(audit[Nth(Behind(r), i)][1])]

ArrivedSeq(r) == InSequence(ReceivedFor(r), MessageAt)
DealtSeq(r) == InSequence({n \in ReceivedFor(r) : n <= position[r]}, HowDealt)

\* The same by rank, where an entry is found by its place.
SequencesRead == \A r \in PumpReceiver : ArrivedSeq(r) = ArrivedFor(r) /\ DealtSeq(r) = DealtFor(r)

LEMMA SequencesAre == PumpInv /\ OrderInv => SequencesRead
<1> SUFFICES ASSUME PumpInv, OrderInv, NEW r \in PumpReceiver
             PROVE  ArrivedSeq(r) = ArrivedFor(r) /\ DealtSeq(r) = DealtFor(r)
  BY DEF SequencesRead
<1>1. ArrivedSeq(r) = ArrivedFor(r)
  BY DEF ArrivedSeq, ArrivedFor, InSequence, MessageAt, Nth, Rank
<1>2. DealtSeq(r) = [i \in 1..Cardinality(Behind(r)) |-> HowDealt(Nth(Behind(r), i))]
  BY DEF DealtSeq, InSequence, Behind, Nth, Rank
<1>3. \A n : HowDealt(n) = Way(audit[n][1])
  BY DEF HowDealt, Way
<1>6. DealtSeq(r) = DealtFor(r)
  BY <1>2, <1>3 DEF DealtFor
<1> QED
  BY <1>1, <1>6

\* A message that the cursor has passed is not dealt with in another way afterwards.
LEMMA WaysKept ==
  ASSUME PumpInv, OrderInv, PumpNext, NEW r \in PumpReceiver, NEW n \in Behind(r)
  PROVE  Way(audit[n][1])' = Way(audit[n][1])
<1>1. /\ n \in DOMAIN audit /\ n <= position[r]
      /\ ReceiverOf[audit[n][1]] = r /\ audit[n][2] = "received"
  BY DEF Behind, ReceivedFor
<1>2. PICK m \in PumpMessage : audit[n] = <<m, "received">>
  BY <1>1 DEF PumpInv, PumpTypes
<1>3. WasReceived(m) /\ EventOf(m) = n /\ ReceiverOf[m] = r
  BY <1>1, <1>2, EventOfUnique DEF PumpInv
<1>4. Past(m)
  BY <1>1, <1>3 DEF Past
<1>5. LogStep /\ HandlerStep
  BY LogSteps, HandlerSteps
<1>6. row[m].state # "skipped" => handler'[m] = "promoted"
  BY <1>4, <1>5, HandlersKept DEF OrderInv, PassedDealt
<1>7. OfferSound(m)'
  BY OffersKept
<1>8. row'[m].state = "skipped" <=> row[m].state = "skipped"
  BY <1>6, <1>7, SkipsKept DEF OfferSound
<1>9. audit'[n] = audit[n]
  BY <1>1, <1>5, LogKept
<1> QED
  BY <1>2, <1>8, <1>9 DEF Way

LEMMA SequencesStay ==
  ASSUME PumpInv, OrderInv, PumpNext, NEW r \in PumpReceiver
  PROVE  /\ ReceivedFor(r)' = ReceivedFor(r) => ArrivedFor(r)' = ArrivedFor(r)
         /\ Behind(r)' = Behind(r) => DealtFor(r)' = DealtFor(r)
<1> DEFINE R == ReceivedFor(r)
           B == Behind(r)
           Later(m) == IF row'[m].state = "skipped" THEN "skipped" ELSE "handled"
<1>1. /\ \A i \in 1..Cardinality(R) : Nth(R, i) \in R
      /\ \A i \in 1..Cardinality(B) : Nth(B, i) \in B
  BY NthRanked DEF OrderInv
<1>2. \A n \in R : audit'[n] = audit[n]
  BY LogSteps, ReceivedInLog, LogKept
<1>3. B \subseteq R
  BY ReceivedInLog
<1>4. ASSUME R' = R
      PROVE  [i \in 1..Cardinality(R') |-> audit'[Nth(R', i)][1]]
               = [i \in 1..Cardinality(R) |-> audit[Nth(R, i)][1]]
  <2> HIDE DEF R
  <2>1. \A i \in 1..Cardinality(R) : audit'[Nth(R, i)][1] = audit[Nth(R, i)][1]
    BY <1>1, <1>2
  <2> QED
    BY <1>4, <2>1
<1>5. ASSUME B' = B
      PROVE  [i \in 1..Cardinality(B') |-> Later(audit'[Nth(B', i)][1])]
               = [i \in 1..Cardinality(B) |-> Way(audit[Nth(B, i)][1])]
  <2>1. \A n \in B : Later(audit'[n][1]) = Way(audit[n][1])
    BY WaysKept DEF Way
  <2> HIDE DEF R, B, Later
  <2>2. \A i \in 1..Cardinality(B) : Later(audit'[Nth(B, i)][1]) = Way(audit[Nth(B, i)][1])
    BY <1>1, <2>1
  <2> QED
    BY <1>5, <2>2
<1>6. Behind(r)' = Behind(r) => DealtFor(r)' = DealtFor(r)
  BY <1>5 DEF DealtFor, Way
<1> QED
  BY <1>4, <1>6 DEF ArrivedFor

\* A message that comes is the last one, and was not there before.
LEMMA ArrivalAppends ==
  ASSUME PumpInv, OrderInv, LogStep, NEW r \in PumpReceiver, NEW m \in PumpMessage, Arrives(r, m)
  PROVE  /\ ArrivedFor(r)' = Append(ArrivedFor(r), m)
         /\ \A s \in PumpReceiver : \A n \in DOMAIN ArrivedFor(s) : ArrivedFor(s)[n] # m
<1> DEFINE R == ReceivedFor(r)
           c == Cardinality(ReceivedFor(r))
           k == Len(audit) + 1
<1>1. /\ R \in SUBSET Nat /\ Len(audit) + 1 \in Nat /\ Ranked(R)
      /\ \A n \in R : n < k /\ n \in DOMAIN audit
  BY ReceivedInLog DEF OrderInv
<1>2. c \in Nat
  BY <1>1, FS_CardinalityType DEF Ranked
<1>3. /\ Cardinality(R \cup {k}) = c + 1
      /\ \A i \in 1..c : Nth(R \cup {k}, i) = Nth(R, i) /\ Nth(R, i) \in R
      /\ Nth(R \cup {k}, c + 1) = k
  BY <1>1, NthAdd
<1>4. /\ \A n \in R : audit'[n] = audit[n]
      /\ audit'[k][1] = m
  <2>1. audit'[k] = <<m, "received">>
    BY DEF Arrives, PumpInv, PumpTypes
  <2> QED
    BY <1>1, <2>1, LogKept
<1>5. ReceivedFor(r)' = R \cup {k}
  BY DEF Arrives
<1>6. ArrivedFor(r)' = [i \in 1..(c + 1) |-> IF i = c + 1 THEN m ELSE audit[Nth(R, i)][1]]
  <2> DEFINE S == R \cup {k}
  <2>1. ArrivedFor(r)' = [i \in 1..Cardinality(S) |-> audit'[Nth(S, i)][1]]
    BY <1>5 DEF ArrivedFor
  <2>2. ASSUME NEW i \in 1..(c + 1)
        PROVE  audit'[Nth(S, i)][1] = IF i = c + 1 THEN m ELSE audit[Nth(R, i)][1]
    <3>1. CASE i = c + 1
      BY <1>3, <1>4, <3>1
    <3>2. CASE i # c + 1
      <4>1. i \in 1..c
        BY <1>2, <3>2
      <4> HIDE DEF R, c, k
      <4> QED
        BY <1>3, <1>4, <3>2, <4>1
    <3> QED
      BY <3>1, <3>2
  <2> HIDE DEF S, R, c, k
  <2>3. Cardinality(S) = c + 1
    BY <1>3 DEF S
  <2> QED
    BY <2>1, <2>2, <2>3
<1>7. ArrivedFor(r) = [i \in 1..c |-> audit[Nth(R, i)][1]]
  BY DEF ArrivedFor
<1>8. Append(ArrivedFor(r), m) = [i \in 1..(c + 1) |-> IF i = c + 1 THEN m ELSE audit[Nth(R, i)][1]]
  <2> HIDE DEF R, c, k
  <2> DEFINE f(i) == audit[Nth(R, i)][1]
             a == [i \in 1..c |-> f(i)]
  <2> HIDE DEF f
  <2>1. Append(a, m) = [i \in 1..(c + 1) |-> IF i = c + 1 THEN m ELSE f(i)]
    BY <1>2
  <2> QED
    BY <1>7, <2>1 DEF f
<1>9. ASSUME NEW s \in PumpReceiver, NEW n \in DOMAIN ArrivedFor(s), ArrivedFor(s)[n] = m PROVE FALSE
  <2>1. /\ n \in 1..Cardinality(ReceivedFor(s))
        /\ audit[Nth(ReceivedFor(s), n)][1] = m
    BY <1>9 DEF ArrivedFor
  <2>2. Nth(ReceivedFor(s), n) \in ReceivedFor(s)
    BY <2>1, NthRanked DEF OrderInv
  <2>3. PICK k1 \in ReceivedFor(s) : audit[k1][1] = m
    BY <2>1, <2>2
  <2>4. k1 \in DOMAIN audit /\ audit[k1][2] = "received"
    BY <2>3 DEF ReceivedFor
  <2>5. audit[k1] = <<m, "received">>
    BY <2>3, <2>4 DEF PumpInv, PumpTypes
  <2> QED
    BY <2>4, <2>5 DEF Arrives, WasReceived
<1> QED
  BY <1>6, <1>8, <1>9

\* A message that the cursor passes is dealt with after those before it.
LEMMA PassingAppends ==
  ASSUME PumpInv, OrderInv, NEW r \in PumpReceiver, NEW k \in ReceivedFor(r), Passes(r, k)
  PROVE  /\ DealtFor(r)' = Append(DealtFor(r), Way(audit[k][1]))
         /\ Len(DealtFor(r)) < Len(ArrivedFor(r))
<1> DEFINE R == ReceivedFor(r)
           B == Behind(r)
           c == Cardinality(Behind(r))
<1>1. /\ B \in SUBSET Nat /\ k \in Nat /\ Ranked(B) /\ Ranked(R)
      /\ B \in SUBSET R /\ k \in R /\ k \notin B /\ \A n \in B : n < k
      /\ B' = B \cup {k} /\ audit' = audit /\ row' = row
  BY ReceivedInLog DEF OrderInv, Passes
<1>2. c \in Nat
  BY <1>1, FS_CardinalityType DEF Ranked
<1>3. /\ Cardinality(B \cup {k}) = c + 1
      /\ \A i \in 1..c : Nth(B \cup {k}, i) = Nth(B, i) /\ Nth(B, i) \in B
      /\ Nth(B \cup {k}, c + 1) = k
  BY <1>1, NthAdd
<1>4. DealtFor(r)' = [i \in 1..(c + 1) |-> IF i = c + 1 THEN Way(audit[k][1]) ELSE Way(audit[Nth(B, i)][1])]
  <2> DEFINE S == B \cup {k}
  <2>1. DealtFor(r)' = [i \in 1..Cardinality(S) |-> Way(audit[Nth(S, i)][1])]
    BY <1>1 DEF DealtFor, Way
  <2>2. ASSUME NEW i \in 1..(c + 1)
        PROVE  Way(audit[Nth(S, i)][1])
                 = IF i = c + 1 THEN Way(audit[k][1]) ELSE Way(audit[Nth(B, i)][1])
    <3>1. CASE i = c + 1
      BY <1>3, <3>1
    <3>2. CASE i # c + 1
      <4>1. i \in 1..c
        BY <1>2, <3>2
      <4> HIDE DEF B, c
      <4> QED
        BY <1>3, <3>2, <4>1
    <3> QED
      BY <3>1, <3>2
  <2> HIDE DEF S, B, c
  <2>3. Cardinality(S) = c + 1
    BY <1>3 DEF S
  <2> QED
    BY <2>1, <2>2, <2>3
<1>5. DealtFor(r) = [i \in 1..c |-> Way(audit[Nth(B, i)][1])]
  BY DEF DealtFor
<1>6. Append(DealtFor(r), Way(audit[k][1]))
        = [i \in 1..(c + 1) |-> IF i = c + 1 THEN Way(audit[k][1]) ELSE Way(audit[Nth(B, i)][1])]
  <2> HIDE DEF B, c
  <2> DEFINE f(i) == Way(audit[Nth(B, i)][1])
             x == Way(audit[k][1])
             a == [i \in 1..c |-> f(i)]
  <2> HIDE DEF f, x
  <2>1. Append(a, x) = [i \in 1..(c + 1) |-> IF i = c + 1 THEN x ELSE f(i)]
    BY <1>2
  <2> QED
    BY <1>5, <2>1 DEF f, x
<1>7. c < Cardinality(R) /\ Cardinality(R) \in Nat
  <2>1. c <= Cardinality(R) /\ (Cardinality(R) = c => R = B) /\ Cardinality(R) \in Nat
    BY <1>1, FS_Subset, FS_CardinalityType DEF Ranked
  <2> QED
    BY <1>1, <1>2, <2>1
<1>8. Len(DealtFor(r)) = c /\ Len(ArrivedFor(r)) = Cardinality(R)
  <2>1. Len(DealtFor(r)) = c
    BY <1>2, <1>5
  <2> DEFINE d == Cardinality(R)
  <2>2. ArrivedFor(r) = [i \in 1..d |-> audit[Nth(R, i)][1]] /\ d \in Nat
    BY <1>7 DEF ArrivedFor
  <2> HIDE DEF d, R
  <2>3. Len(ArrivedFor(r)) = d
    BY <2>2
  <2> QED
    BY <2>1, <2>3 DEF d
<1> QED
  BY <1>4, <1>6, <1>7, <1>8

Arrived == [r \in PumpReceiver |-> ArrivedSeq(r)]
DealtWith == [r \in PumpReceiver |-> DealtSeq(r)]

\* Every step is an arrival, a message dealt with, or nothing to the receiver.
LEMMA OrderMapped ==
  ASSUME PumpInv, OrderInv, PumpNext, SequencesRead, SequencesRead'
  PROVE  \/ UNCHANGED <<Arrived, DealtWith>>
         \/ \E r \in PumpReceiver : \E m \in PumpMessage :
              /\ \A o \in PumpReceiver : \A n \in DOMAIN Arrived[o] : Arrived[o][n] # m
              /\ Arrived' = [Arrived EXCEPT ![r] = Append(@, m)]
              /\ UNCHANGED DealtWith
         \/ \E r \in PumpReceiver : \E how \in {"handled", "skipped"} :
              /\ Len(DealtWith[r]) < Len(Arrived[r])
              /\ DealtWith' = [DealtWith EXCEPT ![r] = Append(@, how)]
              /\ UNCHANGED Arrived
<1>1. LogStep /\ OrderStep
  BY LogSteps, OrderSteps
<1>2. /\ Arrived = [r \in PumpReceiver |-> ArrivedFor(r)]
      /\ DealtWith = [r \in PumpReceiver |-> DealtFor(r)]
  BY DEF SequencesRead, Arrived, DealtWith
<1>3. /\ Arrived' = [r \in PumpReceiver |-> ArrivedFor(r)']
      /\ DealtWith' = [r \in PumpReceiver |-> DealtFor(r)']
  BY DEF SequencesRead, Arrived, DealtWith
<1>4. \A s \in PumpReceiver : SameOrder(s) => ArrivedFor(s)' = ArrivedFor(s) /\ DealtFor(s)' = DealtFor(s)
  BY SequencesStay DEF SameOrder
<1>5. CASE \A s \in PumpReceiver : SameOrder(s)
  BY <1>2, <1>3, <1>4, <1>5
<1>6. ASSUME NEW r \in PumpReceiver, NEW m \in PumpMessage, Arrives(r, m),
             \A s \in PumpReceiver \ {r} : SameOrder(s)
      PROVE  /\ \A o \in PumpReceiver : \A n \in DOMAIN Arrived[o] : Arrived[o][n] # m
             /\ Arrived' = [Arrived EXCEPT ![r] = Append(@, m)]
             /\ UNCHANGED DealtWith
  <2>1. /\ ArrivedFor(r)' = Append(ArrivedFor(r), m)
        /\ \A s \in PumpReceiver : \A n \in DOMAIN ArrivedFor(s) : ArrivedFor(s)[n] # m
    BY <1>1, <1>6, ArrivalAppends
  <2>2. DealtFor(r)' = DealtFor(r)
    BY <1>6, SequencesStay DEF Arrives
  <2>3. UNCHANGED DealtWith
    BY <1>2, <1>3, <1>4, <1>6, <2>2
  <2>4. Arrived' = [Arrived EXCEPT ![r] = Append(@, m)]
    BY <1>2, <1>3, <1>4, <1>6, <2>1
  <2> QED
    BY <1>2, <2>1, <2>3, <2>4
<1>7. ASSUME NEW r \in PumpReceiver, NEW k \in ReceivedFor(r), Passes(r, k),
             \A s \in PumpReceiver \ {r} : SameOrder(s)
      PROVE  \E how \in {"handled", "skipped"} :
               /\ Len(DealtWith[r]) < Len(Arrived[r])
               /\ DealtWith' = [DealtWith EXCEPT ![r] = Append(@, how)]
               /\ UNCHANGED Arrived
  <2> DEFINE how == Way(audit[k][1])
  <2>1. how \in {"handled", "skipped"}
    BY DEF Way
  <2>2. DealtFor(r)' = Append(DealtFor(r), how) /\ Len(DealtFor(r)) < Len(ArrivedFor(r))
    BY <1>7, PassingAppends
  <2>3. ArrivedFor(r)' = ArrivedFor(r)
    BY <1>7, SequencesStay DEF Passes
  <2> HIDE DEF how
  <2>4. UNCHANGED Arrived
    BY <1>2, <1>3, <1>4, <1>7, <2>3
  <2>5. DealtWith' = [DealtWith EXCEPT ![r] = Append(@, how)]
    BY <1>2, <1>3, <1>4, <1>7, <2>2
  <2>6. Len(DealtWith[r]) < Len(Arrived[r])
    BY <1>2, <2>2
  <2> QED
    BY <2>1, <2>4, <2>5, <2>6
<1> QED
  BY <1>1, <1>5, <1>6, <1>7 DEF OrderStep

\* A receiver's messages are dealt with in the order in which they were received, each
\* once, and how each was dealt with never changes, however many pumps are at it, crash or
\* lose their leases.
THEOREM PumpsKeepOrder == PumpSpec => ImplementsInOrder
<1> DEFINE Inv == PumpInv /\ OrderInv
<1>1. PumpInit => Order!OrderInit
  <2> SUFFICES ASSUME PumpInit PROVE Order!OrderInit
    OBVIOUS
  <2>1. PumpInv /\ OrderInv
    BY PumpInvInit, OrderInvInit
  <2>2. SequencesRead
    BY <2>1, SequencesAre
  <2>3. \A r \in PumpReceiver : ReceivedFor(r) = {} /\ Behind(r) = {}
    BY DEF PumpInit, ReceivedFor, Behind
  <2>4. \A r \in PumpReceiver : ArrivedFor(r) = <<>> /\ DealtFor(r) = <<>>
    <3>1. \A r \in PumpReceiver : Cardinality(ReceivedFor(r)) = 0 /\ Cardinality(Behind(r)) = 0
      BY <2>3, RankedEmpty
    <3> QED
      BY <3>1 DEF ArrivedFor, DealtFor
  <2>5. Arrived = [r \in PumpReceiver |-> <<>>] /\ DealtWith = [r \in PumpReceiver |-> <<>>]
    BY <2>2, <2>4 DEF SequencesRead, Arrived, DealtWith
  <2> QED
    BY <2>5 DEF Order!OrderInit, Arrived, DealtWith, ArrivedSeq, DealtSeq
<1>2. Inv => SequencesRead
  BY SequencesAre
<1>3. SequencesRead /\ SequencesRead' /\ Inv /\ [PumpNext]_pump_vars => [Order!OrderNext]_(Order!order_vars)
  <2> SUFFICES ASSUME SequencesRead, SequencesRead', Inv, [PumpNext]_pump_vars
               PROVE  [Order!OrderNext]_(Order!order_vars)
    OBVIOUS
  <2>1. CASE PumpNext
    BY <2>1, OrderMapped
       DEF Order!OrderNext, Order!order_vars, Order!Arrive, Order!DealWith, Arrived, DealtWith,
           ArrivedSeq, DealtSeq
  <2>2. CASE UNCHANGED pump_vars
    <3>1. audit' = audit /\ position' = position /\ row' = row
      BY <2>2 DEF pump_vars
    <3>2. UNCHANGED Order!order_vars
      BY <3>1 DEF Order!order_vars, InSequence, ReceivedFor, MessageAt, HowDealt
    <3> QED
      BY <3>2
  <2> QED
    BY <2>1, <2>2
<1> QED
  BY <1>1, <1>2, <1>3, OrderInductive, PTL DEF PumpSpec, ImplementsInOrder, Order!OrderSpec

(***************************************************************************)
(* The adapter: its inductive invariant.                                   *)
(***************************************************************************)
Line == [is : {"reply", "error", "note", "call"}, of : Request \cup {"completed", "failed"} \cup Call]
CallRow ==
  [at : {"none", "sent", "gated", "admitted", "acted", "over"}, ord : Nat,
   effect : BOOLEAN, listed : BOOLEAN, told : {"no", "ok", "error"}]

ServerRow ==
  [alive : BOOLEAN, asked : Request \cup {"none"}, turn : {"none", "running", "completed", "failed"}]
PeerRow ==
  [closed : BOOLEAN, failed : BOOLEAN, reading : BOOLEAN, noted : SUBSET {"completed", "failed"}]
OpRow == [at : Request \cup {"before", "bind", "look", "wait", "over"}, thread : BOOLEAN]
GateRow == [at : {"open", "bound", "rejected"}, queue : Seq(Call)]
CallerRow == [is : {"waiting", "returned", "failed"}, ref : BOOLEAN]

AppTypes ==
  /\ kind \in Kinds /\ server \in ServerRow /\ inbox \in Seq(Line) /\ peer \in PeerRow
  /\ op \in OpRow /\ gate \in GateRow /\ call \in [Call -> CallRow] /\ ordinal \in Nat
  /\ caller \in CallerRow /\ runner \in {"up", "crashed"}

\* A line says what it is about; a call is in one line, and was sent.
LinesSound ==
  /\ \A i \in 1..Len(inbox) :
       /\ inbox[i].is \in {"reply", "error"} => inbox[i].of \in Request
       /\ inbox[i].is = "note" =>
            inbox[i].of \in {"completed", "failed"}
            /\ (inbox[i].of = "completed" => server.turn = "completed")
       /\ inbox[i].is = "call" => inbox[i].of \in Call /\ call[inbox[i].of].at = "sent"
  /\ \A i, j \in 1..Len(inbox) :
       inbox[i].is = "call" /\ inbox[j].is = "call" /\ inbox[i].of = inbox[j].of => i = j

\* The calls that wait are at the gate, once; none is numbered before the turn is bound.
GateSound ==
  /\ \A c \in Call : call[c].at = "gated" <=> c \in Range(gate.queue)
  /\ \A i, j \in 1..Len(gate.queue) : gate.queue[i] = gate.queue[j] => i = j
  /\ gate.at # "bound" =>
       ordinal = 0 /\ \A c \in Call : call[c].at \notin {"admitted", "acted"} /\ ~call[c].effect
  /\ gate.at = "bound" => op.at \in {"look", "wait", "over"} /\ gate.queue = <<>>
  /\ gate.at = "rejected" => ~peer.reading

Numbered(c) == call[c].at \in {"admitted", "acted"} \/ call[c].effect

\* A call is answered when it is over and, with success, when it is listed; numbers are
\* given once, each to a call.
CallsSound ==
  /\ \A c \in Call :
       /\ call[c].told # "no" => call[c].at = "over"
       /\ call[c].told = "ok" => call[c].listed
       /\ call[c].listed => call[c].effect /\ call[c].at = "over"
       /\ call[c].effect => call[c].at \in {"acted", "over"}
       /\ Numbered(c) => call[c].ord < ordinal
  /\ \A c \in Call : call[c].at = "acted" => call[c].effect
  /\ \A c, d \in Call : Numbered(c) /\ Numbered(d) /\ call[c].ord = call[d].ord => c = d
  /\ \A n \in 0..(ordinal - 1) : \E c \in Call :
       call[c].ord = n /\ call[c].at \in {"admitted", "acted", "over"}

\* Calls are made by a turn, which completes when they are answered.
TurnSound ==
  /\ server.turn = "none" => \A c \in Call : call[c].at = "none"
  /\ server.turn = "completed" => \A c \in Call : call[c].at = "none" \/ call[c].told # "no"
  /\ "completed" \in peer.noted => server.turn = "completed"
  /\ kind \in OfRequest =>
       server.turn = "none" /\ server.asked # "turn" /\ op.at \in {"initialize", "thread", "over"}
  /\ kind = "probe" => op.at # "thread"

\* Who was told of the end has a closed connection and, of a turn, its calls.
CallerSound ==
  /\ caller.is # "waiting" => peer.closed /\ ~peer.reading
  /\ caller.is = "returned" =>
       \/ kind \in OfRequest
       \/ server.turn = "completed" /\ ReturnedListsCalls

AdapterInv ==
  AppTypes /\ LinesSound /\ GateSound /\ CallsSound /\ TurnSound /\ CallerSound

(***************************************************************************)
(* What the helpers do.                                                    *)
(***************************************************************************)
LEMMA LineRead ==
  ASSUME AppTypes, inbox # <<>>, inbox' = Tail(inbox)
  PROVE  /\ inbox' \in Seq(Line) /\ Len(inbox) \in Nat \ {0} /\ inbox[1] \in Line
         /\ Len(inbox') = Len(inbox) - 1
         /\ \A i \in 1..Len(inbox') : i + 1 \in 1..Len(inbox) /\ inbox'[i] = inbox[i + 1]
<1>1. inbox \in Seq(Line) /\ inbox # <<>>
  BY DEF AppTypes
<1>2. /\ Head(inbox) \in Line /\ Tail(inbox) \in Seq(Line) /\ Len(Tail(inbox)) = Len(inbox) - 1
      /\ \A i \in 1..Len(Tail(inbox)) : Tail(inbox)[i] = inbox[i + 1]
  BY <1>1, HeadTailProperties
<1>3. Len(inbox) \in Nat /\ Len(inbox) # 0
  BY <1>1
<1>4. inbox[1] \in Line
  BY <1>1, <1>3
<1> QED
  BY <1>2, <1>3, <1>4

LEMMA LineWritten ==
  ASSUME AppTypes, NEW line \in Line, inbox' = Append(inbox, line)
  PROVE  /\ inbox' \in Seq(Line) /\ Len(inbox) \in Nat /\ Len(inbox') = Len(inbox) + 1
         /\ \A i \in 1..Len(inbox) : inbox'[i] = inbox[i]
         /\ inbox'[Len(inbox) + 1] = line
BY AppendProperties DEF AppTypes

\* What becomes of the lines that are left when one is read.
LEMMA LinesLeft ==
  ASSUME AppTypes, LinesSound, inbox # <<>>, inbox' = Tail(inbox),
         server'.turn = server.turn,
         \A c \in Call : call'[c] # call[c] =>
           call[c].at # "sent" \/ (inbox[1].is = "call" /\ inbox[1].of = c)
  PROVE  LinesSound'
<1>1. /\ Len(inbox) \in Nat \ {0} /\ Len(inbox') = Len(inbox) - 1
      /\ \A i \in 1..Len(inbox') : i + 1 \in 1..Len(inbox) /\ inbox'[i] = inbox[i + 1]
  BY LineRead
<1>2. ASSUME NEW i \in 1..Len(inbox')
      PROVE  /\ inbox'[i].is \in {"reply", "error"} => inbox'[i].of \in Request
             /\ inbox'[i].is = "note" =>
                  inbox'[i].of \in {"completed", "failed"}
                  /\ (inbox'[i].of = "completed" => server'.turn = "completed")
             /\ inbox'[i].is = "call" => inbox'[i].of \in Call /\ call'[inbox'[i].of].at = "sent"
  <2>1. PICK k \in 1..Len(inbox) : k = i + 1 /\ inbox'[i] = inbox[k]
    BY <1>1
  <2>2. /\ inbox[k].is \in {"reply", "error"} => inbox[k].of \in Request
        /\ inbox[k].is = "note" =>
             inbox[k].of \in {"completed", "failed"}
             /\ (inbox[k].of = "completed" => server.turn = "completed")
        /\ inbox[k].is = "call" => inbox[k].of \in Call /\ call[inbox[k].of].at = "sent"
    BY DEF LinesSound
  <2>3. ASSUME inbox[k].is = "call" PROVE call'[inbox[k].of].at = "sent"
    <3>1. k # 1 /\ 1 \in 1..Len(inbox)
      BY <1>1, <2>1
    <3>2. ~(inbox[1].is = "call" /\ inbox[1].of = inbox[k].of)
      BY <2>3, <3>1 DEF LinesSound
    <3> QED
      BY <2>2, <2>3, <3>2
  <2> QED
    BY <2>1, <2>2, <2>3
<1>3. ASSUME NEW i \in 1..Len(inbox'), NEW j \in 1..Len(inbox'),
             inbox'[i].is = "call", inbox'[j].is = "call", inbox'[i].of = inbox'[j].of
      PROVE  i = j
  <2>1. i + 1 \in 1..Len(inbox) /\ j + 1 \in 1..Len(inbox) /\ inbox'[i] = inbox[i + 1] /\ inbox'[j] = inbox[j + 1]
    BY <1>1
  <2>2. i + 1 = j + 1
    BY <1>3, <2>1 DEF LinesSound
  <2> QED
    BY <1>1, <2>2
<1> QED
  BY <1>2, <1>3 DEF LinesSound

LEMMA LinesKept ==
  ASSUME LinesSound, inbox' = inbox,
         server.turn = "completed" => server'.turn = "completed",
         \A c \in Call : call[c].at = "sent" => call'[c].at = "sent"
  PROVE  LinesSound'
BY DEF LinesSound

LEMMA LineAdded ==
  ASSUME AppTypes, LinesSound, NEW line \in Line, inbox' = Append(inbox, line),
         server.turn = "completed" => server'.turn = "completed",
         \A c \in Call : call[c].at = "sent" => call'[c].at = "sent",
         line.is \in {"reply", "error"} => line.of \in Request,
         line.is = "note" =>
           line.of \in {"completed", "failed"} /\ (line.of = "completed" => server'.turn = "completed"),
         line.is = "call" => line.of \in Call /\ call[line.of].at # "sent" /\ call'[line.of].at = "sent"
  PROVE  LinesSound'
<1>1. /\ Len(inbox) \in Nat /\ Len(inbox') = Len(inbox) + 1
      /\ \A i \in 1..Len(inbox) : inbox'[i] = inbox[i]
      /\ inbox'[Len(inbox) + 1] = line
  BY LineWritten
<1>2. \A i \in 1..Len(inbox') : i \in 1..Len(inbox) \/ i = Len(inbox) + 1
  BY <1>1
<1>3. ASSUME NEW i \in 1..Len(inbox')
      PROVE  /\ inbox'[i].is \in {"reply", "error"} => inbox'[i].of \in Request
             /\ inbox'[i].is = "note" =>
                  inbox'[i].of \in {"completed", "failed"}
                  /\ (inbox'[i].of = "completed" => server'.turn = "completed")
             /\ inbox'[i].is = "call" => inbox'[i].of \in Call /\ call'[inbox'[i].of].at = "sent"
  <2>1. CASE i \in 1..Len(inbox)
    BY <1>1, <2>1 DEF LinesSound
  <2>2. CASE i = Len(inbox) + 1
    BY <1>1, <2>2
  <2> QED
    BY <1>2, <2>1, <2>2
<1>4. ASSUME NEW i \in 1..Len(inbox'), NEW j \in 1..Len(inbox'),
             inbox'[i].is = "call", inbox'[j].is = "call", inbox'[i].of = inbox'[j].of
      PROVE  i = j
  <2>1. CASE i \in 1..Len(inbox) /\ j \in 1..Len(inbox)
    BY <1>1, <1>4, <2>1 DEF LinesSound
  <2>2. \A k \in 1..Len(inbox) : inbox[k].is = "call" /\ line.is = "call" => inbox[k].of # line.of
    BY DEF LinesSound
  <2>3. CASE i \in 1..Len(inbox) /\ j = Len(inbox) + 1
    BY <1>1, <1>4, <2>2, <2>3
  <2>4. CASE i = Len(inbox) + 1 /\ j \in 1..Len(inbox)
    BY <1>1, <1>4, <2>2, <2>4
  <2> QED
    BY <1>2, <2>1, <2>3, <2>4
<1> QED
  BY <1>3, <1>4 DEF LinesSound

\* Calls that are refused are over, and keep the number they have.
LEMMA Refused ==
  ASSUME AppTypes, NEW cs \in SUBSET Call, NEW b \in BOOLEAN, Refuses(cs, b)
  PROVE  /\ call' \in [Call -> CallRow] /\ runner' \in {"up", "crashed"}
         /\ \A c \in Call \ cs : call'[c] = call[c]
         /\ \A c \in cs : /\ call'[c].at = "over" /\ call'[c].told \in {"no", "error"}
                          /\ call'[c].ord = call[c].ord /\ call'[c].effect = call[c].effect
                          /\ call'[c].listed = call[c].listed
<1>1. PICK answer \in {"no", "error"} : answer = IF b THEN "error" ELSE "no"
  OBVIOUS
<1>2. call' = [c \in Call |-> IF c \in cs THEN [call[c] EXCEPT !.at = "over", !.told = answer] ELSE call[c]]
  BY <1>1 DEF Refuses
<1>3. \A c \in Call : /\ [call[c] EXCEPT !.at = "over", !.told = answer] \in CallRow
                      /\ [call[c] EXCEPT !.at = "over", !.told = answer].at = "over"
                      /\ [call[c] EXCEPT !.at = "over", !.told = answer].told = answer
                      /\ [call[c] EXCEPT !.at = "over", !.told = answer].ord = call[c].ord
                      /\ [call[c] EXCEPT !.at = "over", !.told = answer].effect = call[c].effect
                      /\ [call[c] EXCEPT !.at = "over", !.told = answer].listed = call[c].listed
  <2>1. SUFFICES ASSUME NEW c \in Call
                 PROVE  LET new == [call[c] EXCEPT !.at = "over", !.told = answer]
                        IN  /\ new \in CallRow /\ new.at = "over" /\ new.told = answer
                            /\ new.ord = call[c].ord /\ new.effect = call[c].effect
                            /\ new.listed = call[c].listed
    BY Zenon
  <2>2. PICK entry \in CallRow : entry = call[c]
    BY DEF AppTypes
  <2>3. answer \in {"no", "ok", "error"}
    BY <1>1
  <2> QED
    BY <2>2, <2>3 DEF CallRow
<1>4. call' \in [Call -> CallRow]
  BY <1>2, <1>3 DEF AppTypes
<1>5. runner' \in {"up", "crashed"}
  BY DEF Refuses, AppTypes
<1> QED
  BY <1>1, <1>2, <1>3, <1>4, <1>5

LEMMA RefusedSound ==
  ASSUME AppTypes, CallsSound, NEW cs \in SUBSET Call, NEW b \in BOOLEAN, Refuses(cs, b),
         \A c \in cs : call[c].at \in {"sent", "gated", "admitted", "acted"},
         ordinal' = ordinal
  PROVE  CallsSound'
<1>1. /\ \A c \in Call \ cs : call'[c] = call[c]
      /\ \A c \in cs : /\ call'[c].at = "over" /\ call'[c].told \in {"no", "error"}
                       /\ call'[c].ord = call[c].ord /\ call'[c].effect = call[c].effect
                       /\ call'[c].listed = call[c].listed
  BY Refused
<1>2. \A c \in Call : /\ Numbered(c)' => Numbered(c)
                      /\ call'[c].ord = call[c].ord
                      /\ call'[c].effect = call[c].effect /\ call'[c].listed = call[c].listed
                      /\ c \notin cs => call'[c].at = call[c].at /\ call'[c].told = call[c].told
                      /\ c \in cs => ~call[c].listed
  <2>1. SUFFICES ASSUME NEW c \in Call
                 PROVE  /\ Numbered(c)' => Numbered(c)
                        /\ call'[c].ord = call[c].ord
                        /\ call'[c].effect = call[c].effect /\ call'[c].listed = call[c].listed
                        /\ c \notin cs => call'[c].at = call[c].at /\ call'[c].told = call[c].told
                        /\ c \in cs => ~call[c].listed
    OBVIOUS
  <2>2. CASE c \in cs
    BY <1>1, <2>2 DEF Numbered, CallsSound
  <2>3. CASE c \notin cs
    BY <1>1, <2>3 DEF Numbered
  <2> QED
    BY <2>2, <2>3
<1>3. ASSUME NEW c \in Call
      PROVE  /\ call'[c].told # "no" => call'[c].at = "over"
             /\ call'[c].told = "ok" => call'[c].listed
             /\ call'[c].listed => call'[c].effect /\ call'[c].at = "over"
             /\ call'[c].effect => call'[c].at \in {"acted", "over"}
             /\ Numbered(c)' => call'[c].ord < ordinal'
  <2>1. CASE c \in cs
    BY <1>1, <1>2, <2>1 DEF CallsSound
  <2>2. CASE c \notin cs
    BY <1>1, <1>2, <2>2 DEF CallsSound
  <2> QED
    BY <2>1, <2>2
<1>4. \A c, d \in Call : Numbered(c)' /\ Numbered(d)' /\ call'[c].ord = call'[d].ord => c = d
  BY <1>2 DEF CallsSound
<1>5. \A n \in 0..(ordinal' - 1) : \E c \in Call :
        call'[c].ord = n /\ call'[c].at \in {"admitted", "acted", "over"}
  BY <1>1 DEF CallsSound
<1>6. \A c \in Call : call'[c].at = "acted" => call'[c].effect
  BY <1>1 DEF CallsSound
<1> QED
  BY <1>3, <1>4, <1>5, <1>6 DEF CallsSound

\* What an operation returned with stays as it is.
LEMMA ReturnedStays ==
  ASSUME AdapterInv, kind' = kind, server.turn = "completed" => server'.turn = "completed",
         caller' = caller, caller.is = "returned" => \A c \in Call : call'[c] = call[c]
  PROVE  caller'.is = "returned" =>
           \/ kind' \in OfRequest
           \/ server'.turn = "completed" /\ ReturnedListsCalls'
<1>1. SUFFICES ASSUME caller'.is = "returned", kind' \notin OfRequest
               PROVE  server'.turn = "completed" /\ ReturnedListsCalls'
  OBVIOUS
<1>2. server.turn = "completed" /\ ReturnedListsCalls /\ caller.is = "returned"
  BY <1>1 DEF AdapterInv, CallerSound
<1> QED
  BY <1>2 DEF ReturnedListsCalls

LEMMA SettledCalls ==
  ASSUME AdapterInv, caller.is = "returned"
  PROVE  \A c \in Call : call[c].at \in {"none", "over"}
BY DEF AdapterInv, CallerSound, TurnSound, CallsSound

\* What the server's fields can be.
LEMMA ServerAsked ==
  ASSUME AppTypes, NEW asked \in Request \cup {"none"}, NEW alive \in BOOLEAN,
         server' = [server EXCEPT !.asked = asked] \/ server' = [server EXCEPT !.alive = alive, !.asked = asked]
  PROVE  server' \in ServerRow /\ server'.asked = asked /\ server'.turn = server.turn
<1>1. PICK entry \in ServerRow : entry = server
  BY DEF AppTypes
<1> QED
  BY <1>1 DEF ServerRow

LEMMA ServerTurned ==
  ASSUME AppTypes, NEW how \in {"none", "running", "completed", "failed"},
         server' = [server EXCEPT !.turn = how]
  PROVE  server' \in ServerRow /\ server'.asked = server.asked /\ server'.turn = how
<1>1. PICK entry \in ServerRow : entry = server
  BY DEF AppTypes
<1> QED
  BY <1>1 DEF ServerRow

LEMMA AnswersKeep == AdapterInv /\ (ServerAnswers \/ ServerRefuses) => AdapterInv'
<1> SUFFICES ASSUME AdapterInv, ServerAnswers \/ ServerRefuses PROVE AdapterInv'
  OBVIOUS
<1>1. /\ AppTypes /\ LinesSound /\ server.asked # "none"
      /\ server' = [server EXCEPT !.asked = "none"]
      /\ UNCHANGED <<kind, peer, op, gate, call, ordinal, caller, runner>>
  BY DEF ServerAnswers, ServerRefuses, AdapterInv
<1>2. server' \in ServerRow /\ server'.asked = "none" /\ server'.turn = server.turn
  BY <1>1, ServerAsked
<1>3. PICK request \in Request : request = server.asked
  BY <1>1 DEF AppTypes, ServerRow
<1>4. PICK line \in Line : /\ inbox' = Append(inbox, line)
                           /\ line.is \in {"reply", "error"} /\ line.of = request
  <2>1. PICK is \in {"reply", "error"} : inbox' = Append(inbox, [is |-> is, of |-> request])
    BY <1>3 DEF ServerAnswers, ServerRefuses, Writes
  <2>2. PICK line \in Line : line = [is |-> is, of |-> request]
    BY DEF Line
  <2> QED
    BY <2>1, <2>2
<1>5. AppTypes'
  BY <1>1, <1>2, <1>4, LineWritten DEF AppTypes
<1>6. LinesSound'
  BY <1>1, <1>2, <1>4, LineAdded
<1>7. GateSound' /\ CallsSound'
  BY <1>1 DEF AdapterInv, GateSound, CallsSound, Numbered
<1>8. TurnSound'
  BY <1>1, <1>2 DEF AdapterInv, TurnSound
<1>9. CallerSound'
  BY <1>1, <1>2, ReturnedStays DEF AdapterInv, CallerSound
<1> QED
  BY <1>5, <1>6, <1>7, <1>8, <1>9 DEF AdapterInv

LEMMA StartsTurnKeeps == AdapterInv /\ ServerStartsTurn => AdapterInv'
<1> SUFFICES ASSUME AdapterInv, ServerStartsTurn PROVE AdapterInv'
  OBVIOUS
<1>1. /\ AppTypes /\ LinesSound /\ server.asked = "turn" /\ server.turn = "none"
      /\ server' = [server EXCEPT !.turn = "running"]
      /\ UNCHANGED <<kind, inbox, peer, op, gate, call, ordinal, caller, runner>>
  BY DEF ServerStartsTurn, AdapterInv
<1>2. server' \in ServerRow /\ server'.turn = "running"
  BY <1>1, ServerTurned
<1>3. AppTypes'
  BY <1>1, <1>2 DEF AppTypes
<1>4. LinesSound'
  BY <1>1, LinesKept
<1>5. GateSound' /\ CallsSound'
  BY <1>1 DEF AdapterInv, GateSound, CallsSound, Numbered
<1>6. TurnSound'
  BY <1>1, <1>2 DEF AdapterInv, TurnSound
<1>7. CallerSound'
  BY <1>1, <1>2, ReturnedStays DEF AdapterInv, CallerSound
<1> QED
  BY <1>3, <1>4, <1>5, <1>6, <1>7 DEF AdapterInv

LEMMA EndsKeep ==
  ASSUME AdapterInv, NEW outcome \in {"completed", "failed"}, ServerEnds(outcome)
  PROVE  AdapterInv'
<1>1. /\ AppTypes /\ LinesSound /\ server.turn = "running"
      /\ server' = [server EXCEPT !.turn = outcome]
      /\ outcome = "completed" => \A c \in Call : call[c].at = "none" \/ call[c].told # "no"
      /\ UNCHANGED <<kind, peer, op, gate, call, ordinal, caller, runner>>
  BY DEF ServerEnds, AdapterInv
<1>2. server' \in ServerRow /\ server'.turn = outcome /\ server'.asked = server.asked
  BY <1>1, ServerTurned
<1>3. PICK line \in Line : /\ inbox' = Append(inbox, line)
                           /\ line.is = "note" /\ line.of = outcome
  <2>1. inbox' = Append(inbox, [is |-> "note", of |-> outcome])
    BY DEF ServerEnds, Writes
  <2>2. PICK line \in Line : line = [is |-> "note", of |-> outcome]
    BY DEF Line
  <2> QED
    BY <2>1, <2>2
<1>4. AppTypes'
  BY <1>1, <1>2, <1>3, LineWritten DEF AppTypes
<1>5. LinesSound'
  BY <1>1, <1>2, <1>3, LineAdded
<1>6. GateSound' /\ CallsSound'
  BY <1>1 DEF AdapterInv, GateSound, CallsSound, Numbered
<1>7. TurnSound'
  BY <1>1, <1>2 DEF AdapterInv, TurnSound
<1>8. CallerSound'
  BY <1>1, <1>2, ReturnedStays DEF AdapterInv, CallerSound
<1> QED
  BY <1>4, <1>5, <1>6, <1>7, <1>8 DEF AdapterInv

LEMMA ServerCallsKeep ==
  ASSUME AdapterInv, NEW c \in Call, ServerCalls(c)
  PROVE  AdapterInv'
<1>1. /\ AppTypes /\ LinesSound /\ server.turn = "running" /\ call[c].at = "none"
      /\ call' = [call EXCEPT ![c].at = "sent"]
      /\ UNCHANGED <<kind, server, peer, op, gate, ordinal, caller, runner>>
  BY DEF ServerCalls, AdapterInv
<1>2. PICK entry \in CallRow : /\ call' = [call EXCEPT ![c] = entry]
                             /\ entry.at = "sent" /\ entry.ord = call[c].ord
                             /\ entry.effect = call[c].effect /\ entry.listed = call[c].listed
                             /\ entry.told = call[c].told
  <2>1. PICK old \in CallRow : old = call[c]
    BY <1>1 DEF AppTypes
  <2>2. PICK entry \in CallRow : /\ entry = [old EXCEPT !.at = "sent"]
                               /\ entry.at = "sent" /\ entry.ord = old.ord
                               /\ entry.effect = old.effect /\ entry.listed = old.listed
                               /\ entry.told = old.told
    <3>1. [old EXCEPT !.at = "sent"] \in CallRow
      BY DEF CallRow
    <3> QED
      BY <3>1 DEF CallRow
  <2>3. call' = [call EXCEPT ![c] = entry]
    BY <1>1, <2>1, <2>2 DEF AppTypes
  <2> QED
    BY <2>1, <2>2, <2>3
<1>3. /\ call' \in [Call -> CallRow] /\ call'[c] = entry
      /\ \A d \in Call : d # c => call'[d] = call[d]
  BY <1>1, <1>2 DEF AppTypes
<1>4. PICK line \in Line : /\ inbox' = Append(inbox, line)
                           /\ line.is = "call" /\ line.of = c
  <2>1. inbox' = Append(inbox, [is |-> "call", of |-> c])
    BY DEF ServerCalls, Writes
  <2>2. PICK line \in Line : line = [is |-> "call", of |-> c]
    BY DEF Line
  <2> QED
    BY <2>1, <2>2
<1>5. AppTypes'
  BY <1>1, <1>3, <1>4, LineWritten DEF AppTypes
<1>6. LinesSound'
  BY <1>1, <1>2, <1>3, <1>4, LineAdded
<1>7. ~call[c].effect /\ ~call[c].listed /\ call[c].told = "no"
  BY <1>1 DEF AdapterInv, CallsSound
<1>8. GateSound'
  BY <1>1, <1>2, <1>3, <1>7 DEF AdapterInv, GateSound
<1>9. CallsSound'
  <2>1. \A d \in Call : /\ d # c => (Numbered(d)' <=> Numbered(d))
                        /\ ~Numbered(c)'
    BY <1>2, <1>3, <1>7 DEF Numbered
  <2>2. ASSUME NEW d \in Call
        PROVE  /\ call'[d].told # "no" => call'[d].at = "over"
               /\ call'[d].told = "ok" => call'[d].listed
               /\ call'[d].listed => call'[d].effect /\ call'[d].at = "over"
               /\ call'[d].effect => call'[d].at \in {"acted", "over"}
               /\ Numbered(d)' => call'[d].ord < ordinal'
    BY <1>1, <1>2, <1>3, <1>7, <2>1 DEF AdapterInv, CallsSound
  <2>3. \A d, e \in Call : Numbered(d)' /\ Numbered(e)' /\ call'[d].ord = call'[e].ord => d = e
    BY <1>3, <2>1 DEF AdapterInv, CallsSound
  <2>4. \A n \in 0..(ordinal' - 1) : \E d \in Call :
          call'[d].ord = n /\ call'[d].at \in {"admitted", "acted", "over"}
    BY <1>1, <1>3 DEF AdapterInv, CallsSound
  <2>5. \A d \in Call : call'[d].at = "acted" => call'[d].effect
    BY <1>2, <1>3 DEF AdapterInv, CallsSound
  <2> QED
    BY <2>2, <2>3, <2>4, <2>5 DEF CallsSound
<1>10. TurnSound'
  BY <1>1 DEF AdapterInv, TurnSound
<1>11. CallerSound'
  <2>1. caller.is # "returned"
    BY <1>1 DEF AdapterInv, CallerSound, TurnSound
  <2> QED
    BY <1>1, <2>1 DEF AdapterInv, CallerSound
<1> QED
  BY <1>5, <1>6, <1>8, <1>9, <1>10, <1>11 DEF AdapterInv

(***************************************************************************)
(* The operation ends with an error.                                       *)
(***************************************************************************)
LEMMA QueuedCalls ==
  ASSUME AdapterInv
  PROVE  /\ Range(gate.queue) \subseteq Call
         /\ \A c \in Range(gate.queue) : call[c].at = "gated"
         /\ Range(<<>>) = {}
<1>1. gate.queue \in Seq(Call)
  BY DEF AdapterInv, AppTypes, GateRow
<1>2. Range(gate.queue) \subseteq Call
  BY <1>1 DEF Range
<1> QED
  BY <1>2 DEF AdapterInv, GateSound, Range

LEMMA EndingKeeps ==
  ASSUME AdapterInv, NEW b \in BOOLEAN, Refuses(Range(gate.queue), b),
         op' = [op EXCEPT !.at = "over"],
         gate' = [at |-> IF gate.at = "open" THEN "rejected" ELSE gate.at, queue |-> <<>>],
         UNCHANGED <<kind, inbox, ordinal>>,
         server' \in ServerRow, server'.turn = server.turn,
         server'.asked = server.asked \/ server'.asked = "none",
         peer' \in PeerRow, peer'.closed, ~peer'.reading, peer'.noted = peer.noted,
         caller' \in CallerRow, caller' = caller \/ caller'.is = "failed"
  PROVE  AdapterInv'
<1>1. PICK cs \in SUBSET Call : cs = Range(gate.queue)
  BY QueuedCalls
<1>2. \A c \in cs : call[c].at = "gated"
  BY <1>1, QueuedCalls
<1>3. Refuses(cs, b)
  BY <1>1
<1>4. /\ call' \in [Call -> CallRow] /\ runner' \in {"up", "crashed"}
      /\ \A c \in Call \ cs : call'[c] = call[c]
      /\ \A c \in cs : /\ call'[c].at = "over" /\ call'[c].told \in {"no", "error"}
                       /\ call'[c].ord = call[c].ord /\ call'[c].effect = call[c].effect
                       /\ call'[c].listed = call[c].listed
  BY <1>3, Refused DEF AdapterInv
<1>5. op' \in OpRow /\ op'.at = "over"
  BY DEF AdapterInv, AppTypes, OpRow
<1>6. /\ gate' \in GateRow /\ gate'.queue = <<>> /\ gate'.at \in {"bound", "rejected"}
      /\ gate'.at = "bound" <=> gate.at = "bound"
  BY DEF AdapterInv, AppTypes, GateRow
<1>7. AppTypes'
  BY <1>4, <1>5, <1>6 DEF AdapterInv, AppTypes
<1>8. LinesSound'
  <2>1. \A c \in Call : call[c].at = "sent" => call'[c].at = "sent"
    BY <1>2, <1>4
  <2> QED
    BY <2>1, LinesKept DEF AdapterInv
<1>9. GateSound'
  <2>1. \A c \in Call : call'[c].at # "gated"
    BY <1>1, <1>2, <1>4 DEF AdapterInv, GateSound
  <2>2. Range(gate'.queue) = {}
    BY <1>6, QueuedCalls
  <2>3. \A i, j \in 1..Len(gate'.queue) : gate'.queue[i] = gate'.queue[j] => i = j
    BY <1>6
  <2>4. gate'.at # "bound" =>
          ordinal' = 0 /\ \A c \in Call : call'[c].at \notin {"admitted", "acted"} /\ ~call'[c].effect
    BY <1>4, <1>6 DEF AdapterInv, GateSound
  <2> QED
    BY <1>5, <1>6, <2>1, <2>2, <2>3, <2>4 DEF GateSound
<1>10. CallsSound'
  BY <1>2, <1>3, RefusedSound DEF AdapterInv
<1>11. TurnSound'
  <2>1. \A c \in cs : call'[c].at = "over" /\ call[c].at = "gated" /\ call[c].told = "no"
    BY <1>2, <1>4 DEF AdapterInv, CallsSound
  <2>2. server.turn = "completed" => \A c \in Call : call'[c] = call[c]
    BY <1>4, <2>1 DEF AdapterInv, TurnSound
  <2>3. server.turn = "none" => \A c \in Call : call'[c] = call[c]
    BY <1>4, <2>1 DEF AdapterInv, TurnSound
  <2> QED
    BY <1>5, <2>2, <2>3 DEF AdapterInv, TurnSound
<1>12. CallerSound'
  <2>1. CASE caller'.is = "failed"
    BY <2>1 DEF CallerSound
  <2>2. CASE caller' = caller
    <3>1. caller.is = "returned" => \A c \in Call : call'[c] = call[c]
      <4>1. caller.is = "returned" => \A c \in cs : FALSE
        BY <1>2, SettledCalls
      <4> QED
        BY <1>4, <4>1
    <3>2. caller'.is = "returned" =>
           \/ kind' \in OfRequest
           \/ server'.turn = "completed" /\ ReturnedListsCalls'
      BY <2>2, <3>1, ReturnedStays
    <3> QED
      BY <3>2 DEF CallerSound
  <2> QED
    BY <2>1, <2>2
<1> QED
  BY <1>7, <1>8, <1>9, <1>10, <1>11, <1>12 DEF AdapterInv

\* The connection after the end.
LEMMA GotRows ==
  ASSUME AppTypes, NEW outcome \in {"returned", "failed"}, NEW ref \in BOOLEAN, Gets(outcome, ref)
  PROVE  /\ peer' \in PeerRow /\ peer'.closed /\ ~peer'.reading /\ peer'.noted = peer.noted
         /\ caller' \in CallerRow
         /\ caller' = caller \/ (caller.is = "waiting" /\ caller'.is = outcome)
<1>1. PICK old \in PeerRow : old = peer
  BY DEF AppTypes
<1>2. peer' \in PeerRow /\ peer'.closed = TRUE /\ peer'.reading = FALSE /\ peer'.noted = old.noted
  <2>1. peer' = [old EXCEPT !.closed = TRUE, !.reading = FALSE]
    BY <1>1 DEF Gets
  <2> QED
    BY <2>1 DEF PeerRow
<1>3. [is |-> outcome, ref |-> ref] \in CallerRow /\ [is |-> outcome, ref |-> ref].is = outcome
  BY DEF CallerRow
<1>4. /\ caller' \in CallerRow
      /\ caller' = caller \/ (caller.is = "waiting" /\ caller'.is = outcome)
  BY <1>3 DEF Gets, AppTypes
<1> QED
  BY <1>1, <1>2, <1>4

LEMMA ThrowsKeep ==
  ASSUME AdapterInv, NEW b \in BOOLEAN, OpThrows(b), kind' = kind
  PROVE  AdapterInv'
<1>1. /\ AppTypes /\ op.thread \in BOOLEAN /\ server' = server /\ Gets("failed", op.thread)
      /\ UNCHANGED <<inbox, ordinal>>
  BY DEF AdapterInv, AppTypes, OpRow, OpThrows
<1>2. PICK ref \in BOOLEAN : ref = op.thread
  BY <1>1
<1>3. /\ peer' \in PeerRow /\ peer'.closed /\ ~peer'.reading /\ peer'.noted = peer.noted
      /\ caller' \in CallerRow
      /\ caller' = caller \/ (caller.is = "waiting" /\ caller'.is = "failed")
  BY <1>1, <1>2, GotRows
<1>4. server' \in ServerRow /\ server'.turn = server.turn /\ server'.asked = server.asked
  BY <1>1 DEF AppTypes
<1> QED
  BY <1>1, <1>3, <1>4, EndingKeeps DEF OpThrows

LEMMA ConnectionOpen == PeerOpen \in BOOLEAN
BY DEF PeerOpen

LEMMA BoundaryKeeps == AdapterInv /\ BoundaryFails => AdapterInv'
BY ThrowsKeep, ConnectionOpen DEF BoundaryFails

\* Steps that touch the child, the connection or the caller only.
LEMMA AroundKeeps ==
  ASSUME AdapterInv, UNCHANGED <<kind, inbox, op, gate, call, ordinal, runner>>,
         server' \in ServerRow, server'.turn = server.turn,
         server'.asked = server.asked \/ server'.asked = "none",
         peer' \in PeerRow, peer'.noted = peer.noted,
         peer'.reading => peer.reading, peer.closed => peer'.closed,
         \/ caller' = caller
         \/ caller' \in CallerRow /\ caller'.is = "failed" /\ peer'.closed /\ ~peer'.reading
  PROVE  AdapterInv'
<1>1. AppTypes'
  BY DEF AdapterInv, AppTypes
<1>2. LinesSound'
  BY LinesKept DEF AdapterInv
<1>3. GateSound' /\ CallsSound'
  BY DEF AdapterInv, GateSound, CallsSound, Numbered
<1>4. TurnSound'
  BY DEF AdapterInv, TurnSound
<1>5. CallerSound'
  <2>1. CASE caller' = caller
    <3>1. caller'.is = "returned" =>
           \/ kind' \in OfRequest
           \/ server'.turn = "completed" /\ ReturnedListsCalls'
      BY <2>1, ReturnedStays
    <3>2. caller'.is # "waiting" => peer'.closed /\ ~peer'.reading
      BY <2>1 DEF AdapterInv, CallerSound
    <3> QED
      BY <3>1, <3>2 DEF CallerSound
  <2>2. CASE caller'.is = "failed" /\ peer'.closed /\ ~peer'.reading
    BY <2>2 DEF CallerSound
  <2> QED
    BY <2>1, <2>2
<1> QED
  BY <1>1, <1>2, <1>3, <1>4, <1>5 DEF AdapterInv

LEMMA TimerKeeps == AdapterInv /\ Timer => AdapterInv'
<1> SUFFICES ASSUME AdapterInv, Timer PROVE AdapterInv'
  OBVIOUS
<1>1. /\ Gets("failed", KnowsThread(kind, op.thread)) /\ caller.is = "waiting" /\ AppTypes
      /\ UNCHANGED <<kind, server, inbox, op, gate, call, ordinal, runner>>
  BY DEF Timer, AdapterInv
<1>2. PICK ref \in BOOLEAN : ref = KnowsThread(kind, op.thread)
  <2>1. KnowsThread(kind, op.thread) \in BOOLEAN
    BY DEF KnowsThread
  <2> QED
    BY <2>1
<1>3. /\ peer' \in PeerRow /\ peer'.closed /\ ~peer'.reading /\ peer'.noted = peer.noted
      /\ caller' \in CallerRow
      /\ caller' = caller \/ (caller.is = "waiting" /\ caller'.is = "failed")
  BY <1>1, <1>2, GotRows
<1>4. server' \in ServerRow /\ server'.turn = server.turn /\ server'.asked = server.asked
  BY <1>1 DEF AppTypes
<1> QED
  BY <1>1, <1>3, <1>4, AroundKeeps

LEMMA ReapsKeep == AdapterInv /\ Reaps => AdapterInv'
<1> SUFFICES ASSUME AdapterInv, Reaps PROVE AdapterInv'
  OBVIOUS
<1>1. /\ server' = [server EXCEPT !.alive = FALSE, !.asked = "none"] /\ AppTypes
      /\ UNCHANGED <<kind, inbox, peer, op, gate, call, ordinal, caller, runner>>
  BY DEF Reaps, AdapterInv
<1>2. server' \in ServerRow /\ server'.asked = "none" /\ server'.turn = server.turn
  BY <1>1, ServerAsked
<1>3. peer' \in PeerRow /\ peer'.noted = peer.noted
  BY <1>1 DEF AppTypes
<1> QED
  BY <1>1, <1>2, <1>3, AroundKeeps

LEMMA ExitKeeps == AdapterInv /\ ServerExits => AdapterInv'
<1> SUFFICES ASSUME AdapterInv, ServerExits PROVE AdapterInv'
  OBVIOUS
<1>1. /\ server' = [server EXCEPT !.alive = FALSE, !.asked = "none"] /\ AppTypes
      /\ UNCHANGED <<kind, inbox, ordinal>>
  BY DEF ServerExits, AdapterInv
<1>2. server' \in ServerRow /\ server'.asked = "none" /\ server'.turn = server.turn
  BY <1>1, ServerAsked
<1>3. CASE Awaiting
  <2>1. PICK ref \in BOOLEAN : ref = op.thread
    BY <1>1 DEF AppTypes, OpRow
  <2>2. Gets("failed", ref) /\ Refuses(Range(gate.queue), FALSE)
    BY <1>3, <2>1 DEF ServerExits
  <2>3. /\ peer' \in PeerRow /\ peer'.closed /\ ~peer'.reading /\ peer'.noted = peer.noted
        /\ caller' \in CallerRow
        /\ caller' = caller \/ (caller.is = "waiting" /\ caller'.is = "failed")
    BY <1>1, <2>2, GotRows
  <2> QED
    BY <1>1, <1>2, <1>3, <2>2, <2>3, EndingKeeps DEF ServerExits
<1>4. CASE ~Awaiting
  <2>1. /\ peer' = [peer EXCEPT !.closed = TRUE] /\ UNCHANGED <<op, gate, call, caller, runner>>
    BY <1>4 DEF ServerExits
  <2>2. PICK old \in PeerRow : old = peer
    BY <1>1 DEF AppTypes
  <2>3. peer' \in PeerRow /\ peer'.closed = TRUE /\ peer'.reading = old.reading /\ peer'.noted = old.noted
    BY <2>1, <2>2 DEF PeerRow
  <2> QED
    BY <1>1, <1>2, <2>1, <2>2, <2>3, AroundKeeps
<1> QED
  BY <1>3, <1>4

LEMMA PeerFailsKeep == AdapterInv /\ PeerFails => AdapterInv'
<1> SUFFICES ASSUME AdapterInv, PeerFails PROVE AdapterInv'
  OBVIOUS
<1>1. /\ AppTypes /\ server' = server
      /\ UNCHANGED <<kind, inbox, ordinal>>
  BY DEF PeerFails, AdapterInv
<1>2. server' \in ServerRow /\ server'.asked = server.asked /\ server'.turn = server.turn
  BY <1>1 DEF AppTypes
<1>3. PICK old \in PeerRow : old = peer
  BY <1>1 DEF AppTypes
<1>4. CASE Awaiting
  <2>1. PICK ref \in BOOLEAN : ref = op.thread
    BY <1>1 DEF AppTypes, OpRow
  <2>2. /\ caller' = [is |-> "failed", ref |-> ref] /\ Refuses(Range(gate.queue), FALSE)
        /\ peer' = [old EXCEPT !.closed = TRUE, !.reading = FALSE, !.failed = TRUE]
    BY <1>3, <1>4, <2>1 DEF PeerFails
  <2>3. peer' \in PeerRow /\ peer'.closed = TRUE /\ peer'.reading = FALSE /\ peer'.noted = old.noted
    BY <2>2 DEF PeerRow
  <2>4. caller' \in CallerRow /\ caller'.is = "failed"
    BY <2>2 DEF CallerRow
  <2> QED
    BY <1>1, <1>2, <1>3, <1>4, <2>2, <2>3, <2>4, EndingKeeps DEF PeerFails
<1>5. CASE ~Awaiting
  <2>1. /\ peer' = [old EXCEPT !.failed = TRUE] /\ UNCHANGED <<op, gate, call, caller, runner>>
    BY <1>3, <1>5 DEF PeerFails
  <2>2. peer' \in PeerRow /\ peer'.closed = old.closed /\ peer'.reading = old.reading /\ peer'.noted = old.noted
    BY <2>1 DEF PeerRow
  <2> QED
    BY <1>1, <1>2, <1>3, <2>1, <2>2, AroundKeeps
<1> QED
  BY <1>4, <1>5

(***************************************************************************)
(* The lines that are read.                                                *)
(***************************************************************************)
LEMMA FirstLine ==
  ASSUME AdapterInv, inbox # <<>>
  PROVE  /\ 1 \in 1..Len(inbox)
         /\ inbox[1].is \in {"reply", "error"} => inbox[1].of \in Request
         /\ inbox[1].is = "note" =>
              inbox[1].of \in {"completed", "failed"}
              /\ (inbox[1].of = "completed" => server.turn = "completed")
         /\ inbox[1].is = "call" => inbox[1].of \in Call /\ call[inbox[1].of].at = "sent"
<1>1. 1 \in 1..Len(inbox)
  <2>1. inbox \in Seq(Line)
    BY DEF AdapterInv, AppTypes
  <2>2. Len(inbox) \in Nat /\ Len(inbox) # 0
    BY <2>1
  <2> QED
    BY <2>2
<1> QED
  BY <1>1 DEF AdapterInv, LinesSound

\* Steps that move the operation on.
LEMMA OperationMoves ==
  ASSUME AdapterInv, UNCHANGED <<kind, gate, call, ordinal, caller, runner>>,
         inbox' = inbox \/ (inbox # <<>> /\ inbox' = Tail(inbox)),
         server' \in ServerRow, server'.turn = server.turn,
         op' \in OpRow, gate.at = "bound" => op'.at \in {"look", "wait", "over"},
         peer' \in PeerRow, peer'.closed = peer.closed, peer'.reading = peer.reading,
         "completed" \in peer'.noted => server.turn = "completed",
         kind \in OfRequest => server'.asked # "turn" /\ op'.at \in {"initialize", "thread", "over"},
         kind = "probe" => op'.at # "thread"
  PROVE  AdapterInv'
<1>1. inbox' \in Seq(Line)
  BY LineRead DEF AdapterInv, AppTypes
<1>2. AppTypes'
  BY <1>1 DEF AdapterInv, AppTypes
<1>3. LinesSound'
  BY LinesKept, LinesLeft DEF AdapterInv
<1>4. GateSound' /\ CallsSound'
  BY DEF AdapterInv, GateSound, CallsSound, Numbered
<1>5. TurnSound'
  BY DEF AdapterInv, TurnSound
<1>6. CallerSound'
  BY ReturnedStays DEF AdapterInv, CallerSound
<1> QED
  BY <1>2, <1>3, <1>4, <1>5, <1>6 DEF AdapterInv

LEMMA OpenGate ==
  ASSUME AdapterInv, op.at \in Request \cup {"before", "bind"}
  PROVE  gate.at # "bound"
BY DEF AdapterInv, GateSound, Request

LEMMA RowsHere ==
  ASSUME AdapterInv
  PROVE  server \in ServerRow /\ peer \in PeerRow /\ op \in OpRow /\ gate \in GateRow
BY DEF AdapterInv, AppTypes

LEMMA AsksRows ==
  ASSUME AdapterInv, NEW request \in Request, NEW known \in BOOLEAN, Asks(request, known)
  PROVE  /\ op' \in OpRow /\ op'.at = request
         /\ server' \in ServerRow /\ server'.turn = server.turn
         /\ server'.asked \in {request, "none"}
<1>1. PICK asked \in Request \cup {"none"} :
        asked = (IF server.alive THEN request ELSE "none") /\ asked \in {request, "none"}
  OBVIOUS
<1>2. server' = [server EXCEPT !.asked = asked]
  BY <1>1 DEF Asks
<1>3. server' \in ServerRow /\ server'.turn = server.turn /\ server'.asked = asked
  BY <1>2, ServerAsked DEF AdapterInv
<1>4. op' \in OpRow /\ op'.at = request
  BY DEF Asks, OpRow
<1> QED
  BY <1>1, <1>3, <1>4

LEMMA ReplyKeeps == AdapterInv /\ ReadsReply => AdapterInv'
<1> SUFFICES ASSUME AdapterInv, ReadsReply PROVE AdapterInv'
  OBVIOUS
<1>1. /\ inbox # <<>> /\ inbox' = Tail(inbox) /\ inbox[1].is = "reply" /\ inbox[1].of = op.at
      /\ UNCHANGED <<kind, gate, call, ordinal, runner>> /\ peer.reading
  BY DEF ReadsReply, Reads
<1>2. op.at \in Request
  BY <1>1, FirstLine
<1>3. gate.at # "bound"
  BY <1>2, OpenGate
<1>4. server \in ServerRow /\ peer \in PeerRow /\ op \in OpRow
  BY RowsHere
<1>5. CASE op.at = LastRequest
  <2>1. Gets("returned", TRUE) /\ op' = [op EXCEPT !.at = "over"] /\ server' = server
    BY <1>5 DEF ReadsReply
  <2>2. kind \in OfRequest
    BY <1>2, <1>5 DEF LastRequest, OfRequest, Request
  <2>3. op' \in OpRow /\ op'.at = "over"
    BY <1>4, <2>1 DEF OpRow
  <2>4. /\ peer' \in PeerRow /\ peer'.closed /\ ~peer'.reading /\ peer'.noted = peer.noted
        /\ caller' \in CallerRow
    BY <2>1, GotRows DEF AdapterInv
  <2>5. AppTypes'
    BY <1>1, <2>1, <2>3, <2>4, LineRead DEF AdapterInv, AppTypes
  <2>6. LinesSound'
    BY <1>1, <2>1, LinesLeft DEF AdapterInv
  <2>7. GateSound' /\ CallsSound'
    BY <1>1, <1>3, <2>3, <2>4 DEF AdapterInv, GateSound, CallsSound, Numbered
  <2>8. TurnSound'
    BY <1>1, <2>1, <2>3, <2>4 DEF AdapterInv, TurnSound
  <2>9. CallerSound'
    BY <1>1, <2>2, <2>4 DEF CallerSound
  <2> QED
    BY <2>5, <2>6, <2>7, <2>8, <2>9 DEF AdapterInv
<1>6. CASE op.at # LastRequest
  <2>1. UNCHANGED <<peer, caller>>
    BY <1>6 DEF ReadsReply
  <2>2. CASE op.at = "initialize"
    <3>1. Asks("thread", FALSE)
      BY <1>6, <2>2 DEF ReadsReply
    <3>2. /\ op' \in OpRow /\ op'.at = "thread" /\ server' \in ServerRow /\ server'.turn = server.turn
          /\ server'.asked \in {"thread", "none"}
      BY <3>1, AsksRows DEF Request
    <3>3. kind # "probe"
      BY <1>6, <2>2 DEF LastRequest
    <3> QED
      BY <1>1, <1>3, <1>4, <2>1, <3>2, <3>3, OperationMoves DEF AdapterInv, TurnSound
  <2>3. CASE op.at = "thread"
    <3>1. kind \notin OfRequest
      BY <1>6, <2>3 DEF LastRequest, AdapterInv, TurnSound
    <3>2. kind # "probe"
      BY <3>1 DEF OfRequest
    <3>3. CASE kind \in WithBoundary
      <4>1. op' = [at |-> "before", thread |-> TRUE] /\ server' = server
        BY <1>6, <2>3, <3>3 DEF ReadsReply
      <4>2. op' \in OpRow
        BY <4>1 DEF OpRow
      <4> QED
        BY <1>1, <1>3, <1>4, <2>1, <3>1, <3>2, <4>1, <4>2, OperationMoves DEF AdapterInv, TurnSound
    <3>4. CASE kind \notin WithBoundary
      <4>1. Asks("turn", TRUE)
        BY <1>6, <2>3, <3>4 DEF ReadsReply
      <4>2. op' \in OpRow /\ server' \in ServerRow /\ server'.turn = server.turn
        BY <4>1, AsksRows DEF Request
      <4> QED
        BY <1>1, <1>3, <1>4, <2>1, <3>1, <3>2, <4>2, OperationMoves DEF AdapterInv, TurnSound
    <3> QED
      BY <3>3, <3>4
  <2>4. CASE op.at = "turn"
    <3>1. kind \notin OfRequest
      BY <2>4 DEF AdapterInv, TurnSound
    <3>2. kind # "probe"
      BY <3>1 DEF OfRequest
    <3>3. PICK at \in {"bind", "look", "wait"} : op' = [op EXCEPT !.at = at]
      <4>1. op' = [op EXCEPT !.at = IF kind \in WithBoundary THEN "bind"
                                    ELSE IF peer.noted # {} THEN "look" ELSE "wait"]
        BY <1>6, <2>4 DEF ReadsReply
      <4> QED
        BY <4>1
    <3>4. op' \in OpRow /\ server' = server
      BY <1>4, <1>6, <2>4, <3>3 DEF ReadsReply, OpRow
    <3> QED
      BY <1>1, <1>3, <1>4, <2>1, <3>1, <3>2, <3>4, OperationMoves DEF AdapterInv, TurnSound
  <2> QED
    BY <1>2, <2>2, <2>3, <2>4 DEF Request
<1> QED
  BY <1>5, <1>6

LEMMA ErrorKeeps == AdapterInv /\ ReadsError => AdapterInv'
<1> SUFFICES ASSUME AdapterInv, ReadsError PROVE AdapterInv'
  OBVIOUS
<1>1. /\ inbox # <<>> /\ inbox' = Tail(inbox) /\ inbox[1].is = "error" /\ inbox[1].of = op.at
      /\ op' = [op EXCEPT !.at = "over"] /\ gate' = [gate EXCEPT !.at = "rejected"]
      /\ UNCHANGED <<kind, server, call, ordinal, runner>>
  BY DEF ReadsError, Reads
<1>2. gate.at # "bound"
  BY <1>1, FirstLine, OpenGate
<1>3. op \in OpRow /\ gate \in GateRow
  BY RowsHere
<1>4. op' \in OpRow /\ op'.at = "over" /\ gate' \in GateRow /\ gate'.at = "rejected" /\ gate'.queue = gate.queue
  <2>1. op' \in OpRow /\ op'.at = "over"
    BY <1>1, <1>3 DEF OpRow
  <2>2. gate' \in GateRow /\ gate'.at = "rejected" /\ gate'.queue = gate.queue
    BY <1>1, <1>3 DEF GateRow
  <2> QED
    BY <2>1, <2>2
<1>5. /\ peer' \in PeerRow /\ peer'.closed /\ ~peer'.reading /\ peer'.noted = peer.noted
      /\ caller' \in CallerRow
      /\ kind \in OfRequest \/ caller' = caller \/ caller'.is = "failed"
  <2>1. PICK ref \in BOOLEAN : ref = op.thread
    BY <1>3 DEF OpRow
  <2>2. CASE Gets("failed", ref)
    BY <2>2, GotRows DEF AdapterInv
  <2>3. CASE AnswersByError /\ Gets("returned", TRUE)
    <3>1. kind \in OfRequest
      BY <2>3 DEF AnswersByError, OfRequest
    <3> QED
      BY <2>3, <3>1, GotRows DEF AdapterInv
  <2> QED
    BY <2>1, <2>2, <2>3 DEF ReadsError
<1>6. AppTypes'
  BY <1>1, <1>4, <1>5, LineRead DEF AdapterInv, AppTypes
<1>7. LinesSound'
  BY <1>1, LinesLeft DEF AdapterInv
<1>8. GateSound'
  BY <1>1, <1>2, <1>4, <1>5 DEF AdapterInv, GateSound
<1>9. CallsSound'
  BY <1>1 DEF AdapterInv, CallsSound, Numbered
<1>10. TurnSound'
  BY <1>1, <1>4, <1>5 DEF AdapterInv, TurnSound
<1>11. CallerSound'
  <2>1. CASE caller' = caller
    BY <1>1, <1>5, <2>1, ReturnedStays DEF CallerSound
  <2>2. CASE caller'.is = "failed" \/ kind \in OfRequest
    BY <1>1, <1>5, <2>2 DEF CallerSound
  <2> QED
    BY <1>5, <2>1, <2>2
<1> QED
  BY <1>6, <1>7, <1>8, <1>9, <1>10, <1>11 DEF AdapterInv

LEMMA NoteKeeps == AdapterInv /\ ReadsNote => AdapterInv'
<1> SUFFICES ASSUME AdapterInv, ReadsNote PROVE AdapterInv'
  OBVIOUS
<1>1. /\ inbox # <<>> /\ inbox' = Tail(inbox) /\ inbox[1].is = "note"
      /\ peer' = [peer EXCEPT !.noted = @ \cup {inbox[1].of}]
      /\ op' = IF op.at = "wait" THEN [op EXCEPT !.at = "look"] ELSE op
      /\ UNCHANGED <<kind, server, gate, call, ordinal, caller, runner>>
  BY DEF ReadsNote, Reads
<1>2. server \in ServerRow /\ peer \in PeerRow /\ op \in OpRow
  BY RowsHere
<1>3. PICK outcome \in {"completed", "failed"} :
        outcome = inbox[1].of /\ (outcome = "completed" => server.turn = "completed")
  BY <1>1, FirstLine
<1>4. /\ peer' \in PeerRow /\ peer'.closed = peer.closed /\ peer'.reading = peer.reading
      /\ peer'.noted = peer.noted \cup {outcome}
  <2>1. PICK noted \in SUBSET {"completed", "failed"} : noted = peer.noted \cup {outcome}
    BY <1>2 DEF PeerRow
  <2>2. peer' = [peer EXCEPT !.noted = noted]
    BY <1>1, <1>3, <2>1
  <2> QED
    BY <1>2, <2>1, <2>2 DEF PeerRow
<1>5. "completed" \in peer'.noted => server.turn = "completed"
  BY <1>3, <1>4 DEF AdapterInv, TurnSound
<1>6. /\ op' \in OpRow
      /\ gate.at = "bound" => op'.at \in {"look", "wait", "over"}
      /\ op.at \in {"initialize", "thread", "over"} => op'.at = op.at
  <2>1. CASE op.at = "wait"
    <3>1. op' \in OpRow /\ op'.at = "look"
      BY <1>1, <1>2, <2>1 DEF OpRow
    <3> QED
      BY <2>1, <3>1
  <2>2. CASE op.at # "wait"
    BY <1>1, <1>2, <2>2 DEF AdapterInv, GateSound
  <2> QED
    BY <2>1, <2>2
<1>7. kind = "probe" => op'.at # "thread"
  <2>1. kind = "probe" => op.at \in {"initialize", "over"}
    BY DEF AdapterInv, TurnSound, OfRequest
  <2> QED
    BY <1>6, <2>1
<1>8. kind \in OfRequest => server'.asked # "turn" /\ op'.at \in {"initialize", "thread", "over"}
  <2>1. kind \in OfRequest => server.asked # "turn" /\ op.at \in {"initialize", "thread", "over"}
    BY DEF AdapterInv, TurnSound
  <2> QED
    BY <1>1, <1>6, <2>1
<1> QED
  BY <1>1, <1>2, <1>4, <1>5, <1>6, <1>7, <1>8, OperationMoves

LEMMA BeforeKeeps == AdapterInv /\ BeforeTurnStart => AdapterInv'
<1> SUFFICES ASSUME AdapterInv, BeforeTurnStart PROVE AdapterInv'
  OBVIOUS
<1>1. op.at = "before" /\ kind' = kind /\ AsksIfOpen
  BY DEF BeforeTurnStart
<1>2. CASE ~PeerOpen
  <2>1. OpThrows(PeerOpen)
    BY <1>1, <1>2 DEF AsksIfOpen
  <2> QED
    BY <1>1, <2>1, ConnectionOpen, ThrowsKeep
<1>3. CASE PeerOpen
  <2>1. /\ Asks("turn", op.thread)
        /\ UNCHANGED <<inbox, peer, gate, call, ordinal, caller, runner>>
    BY <1>1, <1>3 DEF AsksIfOpen
  <2>2. PICK known \in BOOLEAN : known = op.thread
    BY RowsHere DEF OpRow
  <2>3. /\ op' \in OpRow /\ op'.at = "turn"
        /\ server' \in ServerRow /\ server'.turn = server.turn
    BY <2>1, <2>2, AsksRows DEF Request
  <2>4. gate.at # "bound" /\ kind \notin OfRequest /\ peer \in PeerRow
    BY <1>1, OpenGate, RowsHere DEF AdapterInv, TurnSound
  <2>5. "completed" \in peer.noted => server.turn = "completed"
    BY DEF AdapterInv, TurnSound
  <2>6. kind = "probe" => op'.at # "thread"
    BY <2>3
  <2> QED
    BY <1>1, <2>1, <2>3, <2>4, <2>5, <2>6, OperationMoves
<1> QED
  BY <1>2, <1>3

(***************************************************************************)
(* The calls.                                                              *)
(***************************************************************************)
\* A call that was let in is acted on, or answered.
LEMMA CallMoves ==
  ASSUME AdapterInv, NEW c \in Call, NEW entry \in CallRow, call' = [call EXCEPT ![c] = entry],
         call[c].at \in {"admitted", "acted"}, entry.at \in {"acted", "over"},
         entry.ord = call[c].ord, entry.at = "acted" => entry.effect,
         entry.told # "no" => entry.at = "over", entry.told = "ok" => entry.listed,
         entry.listed => entry.effect /\ entry.at = "over",
         UNCHANGED <<kind, server, inbox, peer, op, gate, ordinal, caller>>,
         runner' \in {"up", "crashed"}
  PROVE  AdapterInv'
<1>1. /\ call' \in [Call -> CallRow] /\ call'[c] = entry
      /\ \A d \in Call : d # c => call'[d] = call[d]
  BY DEF AdapterInv, AppTypes
<1>2. /\ gate.at = "bound" /\ call[c].told = "no" /\ ~call[c].listed
      /\ server.turn \notin {"none", "completed"}
  BY DEF AdapterInv, GateSound, CallsSound, TurnSound
<1>3. AppTypes'
  BY <1>1 DEF AdapterInv, AppTypes
<1>4. LinesSound'
  <2>1. \A d \in Call : call[d].at = "sent" => call'[d].at = "sent"
    BY <1>1
  <2> QED
    BY <2>1, LinesKept DEF AdapterInv
<1>5. GateSound'
  BY <1>1, <1>2 DEF AdapterInv, GateSound
<1>6. CallsSound'
  <2>1. /\ Numbered(c)
        /\ \A d \in Call : d # c => (Numbered(d)' <=> Numbered(d))
    BY <1>1 DEF Numbered
  <2>2. ASSUME NEW d \in Call
        PROVE  /\ call'[d].told # "no" => call'[d].at = "over"
               /\ call'[d].told = "ok" => call'[d].listed
               /\ call'[d].listed => call'[d].effect /\ call'[d].at = "over"
               /\ call'[d].effect => call'[d].at \in {"acted", "over"}
               /\ Numbered(d)' => call'[d].ord < ordinal'
    BY <1>1, <2>1 DEF AdapterInv, CallsSound
  <2>3. \A d, e \in Call : Numbered(d)' /\ Numbered(e)' /\ call'[d].ord = call'[e].ord => d = e
    <3>1. \A d \in Call : (Numbered(d)' => Numbered(d)) /\ call'[d].ord = call[d].ord
      BY <1>1, <2>1
    <3> QED
      BY <3>1 DEF AdapterInv, CallsSound
  <2>4. \A n \in 0..(ordinal' - 1) : \E d \in Call :
          call'[d].ord = n /\ call'[d].at \in {"admitted", "acted", "over"}
    BY <1>1 DEF AdapterInv, CallsSound
  <2>5. \A d \in Call : call'[d].at = "acted" => call'[d].effect
    BY <1>1 DEF AdapterInv, CallsSound
  <2> QED
    BY <2>2, <2>3, <2>4, <2>5 DEF CallsSound
<1>7. TurnSound'
  BY <1>2 DEF AdapterInv, TurnSound
<1>8. CallerSound'
  <2>1. caller.is # "returned"
    BY <1>2 DEF AdapterInv, CallerSound, TurnSound
  <2> QED
    BY <2>1 DEF AdapterInv, CallerSound
<1> QED
  BY <1>3, <1>4, <1>5, <1>6, <1>7, <1>8 DEF AdapterInv

LEMMA ToolKeeps ==
  ASSUME AdapterInv, NEW c \in Call, OnToolCall(c)
  PROVE  AdapterInv'
<1>1. /\ call[c].at = "admitted" /\ call' = [call EXCEPT ![c].at = "acted", ![c].effect = TRUE]
      /\ UNCHANGED <<kind, server, inbox, peer, op, gate, ordinal, caller, runner>>
  BY DEF OnToolCall
<1>2. PICK old \in CallRow : old = call[c]
  BY DEF AdapterInv, AppTypes
<1>3. PICK entry \in CallRow : /\ entry = [old EXCEPT !.at = "acted", !.effect = TRUE]
                             /\ entry.at = "acted" /\ entry.ord = old.ord /\ entry.effect
                             /\ entry.listed = old.listed /\ entry.told = old.told
  <2>1. [old EXCEPT !.at = "acted", !.effect = TRUE] \in CallRow
    BY DEF CallRow
  <2> QED
    BY <2>1 DEF CallRow
<1>4. call' = [call EXCEPT ![c] = entry]
  BY <1>1, <1>2, <1>3 DEF AdapterInv, AppTypes
<1>5. ~entry.listed /\ entry.told = "no"
  BY <1>1, <1>2, <1>3 DEF AdapterInv, CallsSound
<1>6. runner' \in {"up", "crashed"}
  BY <1>1 DEF AdapterInv, AppTypes
<1>7. /\ call[c].at \in {"admitted", "acted"} /\ entry.at \in {"acted", "over"}
      /\ entry.ord = call[c].ord /\ entry.effect
      /\ entry.told # "no" => entry.at = "over"
      /\ entry.told = "ok" => entry.listed
      /\ entry.listed => entry.effect /\ entry.at = "over"
  BY <1>1, <1>2, <1>3, <1>5
<1> QED
  BY <1>1, <1>4, <1>6, <1>7, CallMoves

LEMMA AfterToolKeeps ==
  ASSUME AdapterInv, NEW c \in Call, AfterToolCall(c)
  PROVE  AdapterInv'
<1>1. /\ call[c].at = "acted" /\ runner' \in {"up", "crashed"}
      /\ UNCHANGED <<kind, server, inbox, peer, op, gate, ordinal, caller>>
  BY DEF AfterToolCall, AdapterInv, AppTypes
<1>2. PICK answer \in {"ok", "no"} : answer = IF PeerOpen THEN "ok" ELSE "no"
  OBVIOUS
<1>3. call' = [call EXCEPT ![c].at = "over", ![c].listed = TRUE, ![c].told = answer]
  BY <1>2 DEF AfterToolCall
<1>4. PICK old \in CallRow : old = call[c]
  BY DEF AdapterInv, AppTypes
<1>5. PICK entry \in CallRow : /\ entry = [old EXCEPT !.at = "over", !.listed = TRUE, !.told = answer]
                             /\ entry.at = "over" /\ entry.ord = old.ord /\ entry.effect = old.effect
                             /\ entry.listed /\ entry.told = answer
  <2>1. [old EXCEPT !.at = "over", !.listed = TRUE, !.told = answer] \in CallRow
    BY DEF CallRow
  <2> QED
    BY <2>1 DEF CallRow
<1>6. call' = [call EXCEPT ![c] = entry]
  BY <1>3, <1>4, <1>5 DEF AdapterInv, AppTypes
<1>7. entry.effect
  BY <1>1, <1>4, <1>5 DEF AdapterInv, CallsSound
<1> QED
  BY <1>1, <1>4, <1>5, <1>6, <1>7, CallMoves

LEMMA ToolFailKeeps ==
  ASSUME AdapterInv, NEW c \in Call, ToolFails(c)
  PROVE  AdapterInv'
<1>1. /\ call[c].at \in {"admitted", "acted"} /\ Refuses({c}, PeerOpen)
      /\ UNCHANGED <<kind, server, inbox, peer, op, gate, ordinal, caller>>
  BY DEF ToolFails
<1>2. PICK cs \in SUBSET Call : cs = {c}
  OBVIOUS
<1>3. Refuses(cs, PeerOpen) /\ \A d \in cs : call[d].at \in {"sent", "gated", "admitted", "acted"}
  BY <1>1, <1>2
<1>4. /\ call' \in [Call -> CallRow] /\ runner' \in {"up", "crashed"}
      /\ \A d \in Call : d # c => call'[d] = call[d]
      /\ call'[c].at = "over" /\ call'[c].effect = call[c].effect
  BY <1>2, <1>3, ConnectionOpen, Refused DEF AdapterInv
<1>5. /\ gate.at = "bound" /\ server.turn \notin {"none", "completed"}
  BY <1>1 DEF AdapterInv, GateSound, CallsSound, TurnSound
<1>6. AppTypes'
  BY <1>1, <1>4 DEF AdapterInv, AppTypes
<1>7. LinesSound'
  <2>1. \A d \in Call : call[d].at = "sent" => call'[d].at = "sent"
    BY <1>1, <1>4
  <2> QED
    BY <1>1, <2>1, LinesKept DEF AdapterInv
<1>8. GateSound'
  BY <1>1, <1>4, <1>5 DEF AdapterInv, GateSound
<1>9. CallsSound'
  BY <1>1, <1>3, ConnectionOpen, RefusedSound DEF AdapterInv
<1>10. TurnSound'
  BY <1>1, <1>5 DEF AdapterInv, TurnSound
<1>11. CallerSound'
  <2>1. caller.is # "returned"
    BY <1>1, <1>5 DEF AdapterInv, CallerSound, TurnSound
  <2> QED
    BY <1>1, <2>1 DEF AdapterInv, CallerSound
<1> QED
  BY <1>6, <1>7, <1>8, <1>9, <1>10, <1>11 DEF AdapterInv

\* A call is read: the rest of the invariant, where its rows are sound.
LEMMA CallRead ==
  ASSUME AdapterInv, NEW c \in Call, peer.reading, inbox # <<>>, inbox[1].is = "call", inbox[1].of = c,
         inbox' = Tail(inbox), UNCHANGED <<kind, server, peer, op, caller>>,
         call' \in [Call -> CallRow], \A d \in Call : d # c => call'[d] = call[d],
         gate' \in GateRow, ordinal' \in Nat, runner' \in {"up", "crashed"},
         GateSound', CallsSound'
  PROVE  AdapterInv'
<1>1. call[c].at = "sent" /\ call[c].told = "no"
  BY FirstLine DEF AdapterInv, CallsSound
<1>2. server.turn \notin {"none", "completed"} /\ caller.is = "waiting"
  BY <1>1 DEF AdapterInv, TurnSound, CallerSound
<1>3. AppTypes'
  BY LineRead DEF AdapterInv, AppTypes
<1>4. LinesSound'
  BY LinesLeft DEF AdapterInv
<1>5. TurnSound'
  BY <1>2 DEF AdapterInv, TurnSound
<1>6. CallerSound'
  BY <1>2 DEF CallerSound
<1> QED
  BY <1>3, <1>4, <1>5, <1>6 DEF AdapterInv

\* A call that was sent is nowhere else.
LEMMA SentCall ==
  ASSUME AdapterInv, NEW c \in Call, call[c].at = "sent"
  PROVE  /\ c \notin Range(gate.queue) /\ ~Numbered(c)
         /\ ~call[c].effect /\ ~call[c].listed /\ call[c].told = "no"
BY DEF AdapterInv, GateSound, CallsSound, Numbered

\* The row of a call that was sent changes.
LEMMA SentMoves ==
  ASSUME AdapterInv, NEW c \in Call, call[c].at = "sent",
         NEW at \in {"gated", "admitted"}, NEW ord \in Nat,
         call' = [call EXCEPT ![c].at = at, ![c].ord = ord]
  PROVE  /\ call' \in [Call -> CallRow] /\ \A d \in Call : d # c => call'[d] = call[d]
         /\ call'[c].at = at /\ call'[c].ord = ord
         /\ ~call'[c].effect /\ ~call'[c].listed /\ call'[c].told = "no"
<1>1. PICK old \in CallRow : old = call[c]
  BY DEF AdapterInv, AppTypes
<1>2. PICK entry \in CallRow : /\ entry = [old EXCEPT !.at = at, !.ord = ord]
                             /\ entry.at = at /\ entry.ord = ord /\ entry.effect = old.effect
                             /\ entry.listed = old.listed /\ entry.told = old.told
  <2>1. [old EXCEPT !.at = at, !.ord = ord] \in CallRow
    BY DEF CallRow
  <2> QED
    BY <2>1 DEF CallRow
<1>3. call' = [call EXCEPT ![c] = entry]
  BY <1>1, <1>2 DEF AdapterInv, AppTypes
<1>4. call' \in [Call -> CallRow] /\ call'[c] = entry /\ \A d \in Call : d # c => call'[d] = call[d]
  BY <1>3 DEF AdapterInv, AppTypes
<1> QED
  BY <1>1, <1>2, <1>4, SentCall

LEMMA CallQueued ==
  ASSUME AdapterInv, NEW c \in Call, ReadsCall(c), kind \in WithTools, gate.at = "open"
  PROVE  AdapterInv'
<1>read. /\ inbox[1].of = c /\ inbox' = Tail(inbox)
       /\ gate' = [gate EXCEPT !.queue = Append(@, c)] /\ call' = [call EXCEPT ![c].at = "gated"]
       /\ UNCHANGED <<kind, server, peer, op, caller, ordinal, runner>>
  BY DEF ReadsCall
<1>1. call[c].at = "sent" /\ peer.reading /\ inbox # <<>> /\ inbox[1].is = "call"
  BY <1>read, FirstLine DEF ReadsCall, Reads
<1>2. PICK number \in Nat : number = call[c].ord
  BY DEF AdapterInv, AppTypes, CallRow
<1>where. PICK where \in {"gated", "admitted"} : where = "gated"
  OBVIOUS
<1>3. call' = [call EXCEPT ![c].at = where, ![c].ord = number]
  <2>1. PICK old \in CallRow : old = call[c]
    BY DEF AdapterInv, AppTypes
  <2>2. [old EXCEPT !.at = where, !.ord = number] = [old EXCEPT !.at = "gated"]
    BY <1>2, <1>where, <2>1 DEF CallRow
  <2> QED
    BY <1>2, <1>read, <2>1, <2>2 DEF AdapterInv, AppTypes
<1>4. /\ call' \in [Call -> CallRow] /\ \A d \in Call : d # c => call'[d] = call[d]
      /\ call'[c].at = "gated" /\ ~call'[c].effect /\ ~call'[c].listed /\ call'[c].told = "no"
  <2>1. /\ call' \in [Call -> CallRow] /\ \A d \in Call : d # c => call'[d] = call[d]
        /\ call'[c].at = where /\ call'[c].ord = number
        /\ ~call'[c].effect /\ ~call'[c].listed /\ call'[c].told = "no"
    BY <1>1, <1>2, <1>3, SentMoves
  <2> QED
    BY <1>where, <2>1
<1>5. PICK queue \in Seq(Call) : queue = gate.queue
  BY RowsHere DEF GateRow
<1>6. /\ gate' \in GateRow /\ gate'.at = "open" /\ gate'.queue = Append(queue, c)
  <2>1. PICK longer \in Seq(Call) : longer = Append(queue, c)
    BY AppendProperties
  <2>2. gate' = [gate EXCEPT !.queue = longer]
    BY <1>5, <1>read, <2>1
  <2> QED
    BY <2>1, <2>2, RowsHere DEF GateRow
<1>7. /\ Len(queue) \in Nat /\ Len(gate'.queue) = Len(queue) + 1
      /\ \A i \in 1..Len(queue) : gate'.queue[i] = queue[i]
      /\ gate'.queue[Len(queue) + 1] = c
  BY <1>6, AppendProperties
<1>8. \A i \in 1..Len(gate'.queue) : i \in 1..Len(queue) \/ i = Len(queue) + 1
  BY <1>7
<1>9. \A i \in 1..Len(queue) : queue[i] # c
  BY <1>1, <1>5, SentCall DEF Range
<1>10. \A d \in Call : d \in Range(gate'.queue) <=> d = c \/ d \in Range(queue)
  <2>1. DOMAIN queue = 1..Len(queue) /\ DOMAIN gate'.queue = 1..Len(gate'.queue)
    BY <1>6, AppendProperties
  <2>2. ASSUME NEW d \in Call, d \in Range(gate'.queue) PROVE d = c \/ d \in Range(queue)
    BY <1>7, <1>8, <2>1, <2>2 DEF Range
  <2>3. c \in Range(gate'.queue)
    <3>1. Len(queue) + 1 \in 1..Len(gate'.queue)
      BY <1>7
    <3> QED
      BY <1>7, <2>1, <3>1 DEF Range
  <2>4. ASSUME NEW d \in Call, d \in Range(queue) PROVE d \in Range(gate'.queue)
    <3>1. PICK i \in 1..Len(queue) : queue[i] = d
      BY <2>1, <2>4 DEF Range
    <3>2. i \in 1..Len(gate'.queue)
      BY <1>7
    <3> QED
      BY <1>7, <2>1, <3>1, <3>2 DEF Range
  <2> QED
    BY <2>2, <2>3, <2>4
<1>11. GateSound'
  <2>1. \A d \in Call : call'[d].at = "gated" <=> d \in Range(gate'.queue)
    BY <1>4, <1>5, <1>10, <1>read DEF AdapterInv, GateSound
  <2>2. ASSUME NEW i \in 1..Len(gate'.queue), NEW j \in 1..Len(gate'.queue),
               gate'.queue[i] = gate'.queue[j]
        PROVE  i = j
    <3>1. \A k, l \in 1..Len(queue) : queue[k] = queue[l] => k = l
      BY <1>5 DEF AdapterInv, GateSound
    <3> QED
      BY <1>7, <1>8, <1>9, <2>2, <3>1
  <2>3. ordinal' = 0 /\ \A d \in Call : call'[d].at \notin {"admitted", "acted"} /\ ~call'[d].effect
    BY <1>4, <1>read DEF AdapterInv, GateSound
  <2> QED
    BY <1>6, <2>1, <2>2, <2>3 DEF GateSound
<1>12. CallsSound'
  <2>1. \A d \in Call : ~Numbered(d)'
    BY <1>11, <1>6 DEF GateSound, Numbered
  <2>2. ASSUME NEW d \in Call
        PROVE  /\ call'[d].told # "no" => call'[d].at = "over"
               /\ call'[d].told = "ok" => call'[d].listed
               /\ call'[d].listed => call'[d].effect /\ call'[d].at = "over"
               /\ call'[d].effect => call'[d].at \in {"acted", "over"}
               /\ call'[d].at = "acted" => call'[d].effect
    BY <1>4 DEF AdapterInv, CallsSound
  <2>3. ordinal' = 0
    BY <1>11, <1>6 DEF GateSound
  <2>4. \A n \in 0..(ordinal' - 1) : FALSE
    BY <2>3
  <2> QED
    BY <2>1, <2>2, <2>4 DEF CallsSound
<1>13. ordinal' \in Nat /\ runner' \in {"up", "crashed"}
  BY <1>read DEF AdapterInv, AppTypes
<1> QED
  BY <1>1, <1>4, <1>6, <1>11, <1>12, <1>13, <1>read, CallRead

LEMMA CallRefused ==
  ASSUME AdapterInv, NEW c \in Call, ReadsCall(c), Refuses({c}, PeerOpen),
         UNCHANGED <<gate, ordinal>>
  PROVE  AdapterInv'
<1>1. /\ inbox[1].of = c /\ inbox' = Tail(inbox) /\ UNCHANGED <<kind, server, peer, op, caller>>
      /\ peer.reading /\ inbox # <<>> /\ inbox[1].is = "call"
  BY DEF ReadsCall, Reads
<1>2. call[c].at = "sent"
  BY <1>1, FirstLine
<1>3. PICK cs \in SUBSET Call : cs = {c}
  OBVIOUS
<1>4. Refuses(cs, PeerOpen) /\ \A d \in cs : call[d].at \in {"sent", "gated", "admitted", "acted"}
  BY <1>2, <1>3
<1>5. /\ call' \in [Call -> CallRow] /\ runner' \in {"up", "crashed"}
      /\ \A d \in Call : d # c => call'[d] = call[d]
      /\ call'[c].at = "over" /\ call'[c].effect = call[c].effect
  <2>1. /\ call' \in [Call -> CallRow] /\ runner' \in {"up", "crashed"}
        /\ \A d \in Call \ cs : call'[d] = call[d]
        /\ \A d \in cs : call'[d].at = "over" /\ call'[d].effect = call[d].effect
    BY <1>4, ConnectionOpen, Refused DEF AdapterInv
  <2> QED
    BY <1>3, <2>1
<1>6. GateSound'
  <2>1. c \notin Range(gate.queue) /\ ~call[c].effect
    BY <1>2, SentCall
  <2> QED
    BY <1>1, <1>5, <2>1 DEF AdapterInv, GateSound
<1>7. CallsSound'
  BY <1>4, ConnectionOpen, RefusedSound DEF AdapterInv
<1>8. gate' \in GateRow /\ ordinal' \in Nat
  BY DEF AdapterInv, AppTypes
<1> QED
  BY <1>1, <1>5, <1>6, <1>7, <1>8, CallRead

LEMMA CallAdmitted ==
  ASSUME AdapterInv, NEW c \in Call, ReadsCall(c), kind \in WithTools, gate.at # "open",
         ordinal' # ordinal
  PROVE  AdapterInv'
<1>1. /\ inbox[1].of = c /\ inbox' = Tail(inbox) /\ UNCHANGED <<kind, server, peer, op, caller>>
      /\ peer.reading /\ inbox # <<>> /\ inbox[1].is = "call"
      /\ gate' = gate /\ Admits(c)
  BY DEF ReadsCall, Reads
<1>2. call[c].at = "sent" /\ gate.at = "bound"
  BY <1>1, FirstLine DEF AdapterInv, GateSound, AppTypes, GateRow
<1>3. /\ call' = [call EXCEPT ![c].at = "admitted", ![c].ord = ordinal]
      /\ ordinal' = ordinal + 1 /\ runner' = runner
  BY <1>1 DEF Admits
<1>4. PICK where \in {"gated", "admitted"} : where = "admitted"
  OBVIOUS
<1>5. ordinal \in Nat /\ call' = [call EXCEPT ![c].at = where, ![c].ord = ordinal]
  BY <1>3, <1>4 DEF AdapterInv, AppTypes
<1>6. /\ call' \in [Call -> CallRow] /\ \A d \in Call : d # c => call'[d] = call[d]
      /\ call'[c].at = "admitted" /\ call'[c].ord = ordinal
      /\ ~call'[c].effect /\ ~call'[c].listed /\ call'[c].told = "no"
  <2>1. /\ call' \in [Call -> CallRow] /\ \A d \in Call : d # c => call'[d] = call[d]
        /\ call'[c].at = where /\ call'[c].ord = ordinal
        /\ ~call'[c].effect /\ ~call'[c].listed /\ call'[c].told = "no"
    BY <1>2, <1>5, SentMoves
  <2> QED
    BY <1>4, <2>1
<1>7. GateSound'
  <2>1. c \notin Range(gate.queue)
    BY <1>2, SentCall
  <2> QED
    BY <1>1, <1>2, <1>6, <2>1 DEF AdapterInv, GateSound
<1>8. CallsSound'
  <2>1. \A d \in Call : d # c => (Numbered(d)' <=> Numbered(d)) /\ (Numbered(d) => call[d].ord < ordinal)
    BY <1>6 DEF Numbered, AdapterInv, CallsSound
  <2>2. ASSUME NEW d \in Call
        PROVE  /\ call'[d].told # "no" => call'[d].at = "over"
               /\ call'[d].told = "ok" => call'[d].listed
               /\ call'[d].listed => call'[d].effect /\ call'[d].at = "over"
               /\ call'[d].effect => call'[d].at \in {"acted", "over"}
               /\ call'[d].at = "acted" => call'[d].effect
    BY <1>6 DEF AdapterInv, CallsSound
  <2>3. \A d \in Call : call'[d].ord \in Nat
    BY <1>6 DEF CallRow
  <2>4. ASSUME NEW d \in Call, Numbered(d)' PROVE call'[d].ord < ordinal'
    <3>1. CASE d = c
      BY <1>3, <1>5, <1>6, <3>1
    <3>2. CASE d # c
      <4>1. call[d].ord < ordinal /\ call'[d] = call[d] /\ call'[d].ord \in Nat
        BY <1>6, <2>1, <2>3, <2>4, <3>2
      <4> QED
        BY <1>3, <1>5, <4>1
    <3> QED
      BY <3>1, <3>2
  <2>5. ASSUME NEW d \in Call, NEW e \in Call, Numbered(d)', Numbered(e)', call'[d].ord = call'[e].ord
        PROVE  d = e
    <3>1. ASSUME NEW f \in Call, f # c, Numbered(f)' PROVE call'[f].ord # ordinal
      BY <1>5, <1>6, <2>1, <2>3, <3>1
    <3>2. CASE d # c /\ e # c
      BY <1>6, <2>1, <2>5, <3>2 DEF AdapterInv, CallsSound
    <3>3. CASE d = c \/ e = c
      BY <1>6, <2>5, <3>1, <3>3
    <3> QED
      BY <3>2, <3>3
  <2>6. ASSUME NEW n \in 0..(ordinal' - 1)
        PROVE  \E d \in Call : call'[d].ord = n /\ call'[d].at \in {"admitted", "acted", "over"}
    <3>1. n \in 0..(ordinal - 1) \/ n = ordinal
      BY <1>3, <1>5
    <3>2. CASE n \in 0..(ordinal - 1)
      <4>1. PICK d \in Call : call[d].ord = n /\ call[d].at \in {"admitted", "acted", "over"}
        BY <3>2 DEF AdapterInv, CallsSound
      <4> QED
        BY <1>2, <1>6, <4>1
    <3>3. CASE n = ordinal
      BY <1>6, <3>3
    <3> QED
      BY <3>1, <3>2, <3>3
  <2> QED
    BY <2>2, <2>4, <2>5, <2>6 DEF CallsSound
<1>9. gate' \in GateRow /\ ordinal' \in Nat /\ runner' \in {"up", "crashed"}
  BY <1>1, <1>3, <1>5 DEF AdapterInv, AppTypes
<1> QED
  BY <1>1, <1>6, <1>7, <1>8, <1>9, CallRead

LEMMA ReadsCallKeeps ==
  ASSUME AdapterInv, NEW c \in Call, ReadsCall(c)
  PROVE  AdapterInv'
<1>1. CASE Refuses({c}, PeerOpen) /\ UNCHANGED <<gate, ordinal>>
  BY <1>1, CallRefused
<1>2. CASE kind \in WithTools /\ gate.at = "open"
  BY <1>2, CallQueued
<1>3. CASE kind \in WithTools /\ gate.at # "open" /\ ordinal' # ordinal
  BY <1>3, CallAdmitted
<1>4. CASE kind \in WithTools /\ gate.at # "open" /\ ordinal' = ordinal
  <2>1. Admits(c) /\ gate' = gate
    BY <1>4 DEF ReadsCall
  <2>2. ordinal + 1 # ordinal
    BY DEF AdapterInv, AppTypes
  <2> QED
    BY <1>1, <1>4, <2>1, <2>2 DEF Admits
<1> QED
  BY <1>1, <1>2, <1>3, <1>4 DEF ReadsCall

(***************************************************************************)
(* The gate opens.                                                         *)
(***************************************************************************)
Seat(c) == CHOOSE n \in 0..(Len(gate.queue) - 1) : gate.queue[n + 1] = c

\* A call has one seat in the queue, and a seat one call.
LEMMA Seats ==
  ASSUME AdapterInv
  PROVE  /\ Len(gate.queue) \in Nat
         /\ \A c \in Range(gate.queue) :
              Seat(c) \in 0..(Len(gate.queue) - 1) /\ gate.queue[Seat(c) + 1] = c
         /\ \A n \in 0..(Len(gate.queue) - 1) :
              /\ gate.queue[n + 1] \in Range(gate.queue) /\ gate.queue[n + 1] \in Call
              /\ Seat(gate.queue[n + 1]) = n
<1>1. PICK queue \in Seq(Call) : queue = gate.queue
  BY RowsHere DEF GateRow
<1>2. PICK len \in Nat : len = Len(queue)
  OBVIOUS
<1>3. DOMAIN queue = 1..len /\ \A i \in 1..len : queue[i] \in Call
  BY <1>2
<1>4. \A i, j \in 1..len : queue[i] = queue[j] => i = j
  BY <1>1, <1>2 DEF AdapterInv, GateSound
<1>5. \A c \in Range(queue) : \E n \in 0..(len - 1) : queue[n + 1] = c
  <2>1. ASSUME NEW c \in Range(queue) PROVE \E n \in 0..(len - 1) : queue[n + 1] = c
    <3>1. PICK i \in 1..len : queue[i] = c
      BY <1>3, <2>1 DEF Range
    <3>2. i - 1 \in 0..(len - 1) /\ (i - 1) + 1 = i
      BY <1>2
    <3> QED
      BY <3>1, <3>2
  <2> QED
    BY <2>1
<1>6. \A c : Seat(c) = CHOOSE n \in 0..(len - 1) : queue[n + 1] = c
  BY <1>1, <1>2 DEF Seat
<1>7. \A c \in Range(queue) : Seat(c) \in 0..(len - 1) /\ queue[Seat(c) + 1] = c
  BY <1>5, <1>6
<1>8. \A n \in 0..(len - 1) : n + 1 \in 1..len
  BY <1>2
<1>9. \A n \in 0..(len - 1) : queue[n + 1] \in Range(queue) /\ queue[n + 1] \in Call
  BY <1>3, <1>8 DEF Range
<1>10. ASSUME NEW n \in 0..(len - 1) PROVE Seat(queue[n + 1]) = n
  <2>1. PICK m \in 0..(len - 1) : m = Seat(queue[n + 1]) /\ queue[m + 1] = queue[n + 1]
    BY <1>7, <1>9
  <2>2. m + 1 = n + 1
    BY <1>4, <1>8, <2>1
  <2> QED
    BY <1>2, <2>1, <2>2
<1> QED
  BY <1>1, <1>2, <1>7, <1>9, <1>10

LEMMA StartedKeeps == AdapterInv /\ OnTurnStarted => AdapterInv'
<1> SUFFICES ASSUME AdapterInv, OnTurnStarted PROVE AdapterInv'
  OBVIOUS
<1>1. /\ op.at = "bind" /\ gate' = [at |-> "bound", queue |-> <<>>]
      /\ ordinal' = Len(gate.queue)
      /\ op' = [op EXCEPT !.at = IF peer.noted # {} \/ peer.failed THEN "look" ELSE "wait"]
      /\ UNCHANGED <<kind, server, inbox, peer, caller, runner>>
  BY DEF OnTurnStarted
<1>2. call' = [c \in Call |-> IF c \in Range(gate.queue)
                              THEN [call[c] EXCEPT !.at = "admitted", !.ord = Seat(c)]
                              ELSE call[c]]
  BY DEF OnTurnStarted, Seat
<1>3. /\ gate.at # "bound" /\ kind \notin OfRequest /\ ordinal = 0
      /\ \A c \in Call : call[c].at \notin {"admitted", "acted"} /\ ~call[c].effect /\ ~call[c].listed
  <2>1. gate.at # "bound" /\ kind \notin OfRequest
    BY <1>1, OpenGate DEF AdapterInv, TurnSound
  <2> QED
    BY <2>1 DEF AdapterInv, GateSound, CallsSound
<1>4. /\ gate' \in GateRow /\ gate'.at = "bound" /\ gate'.queue = <<>>
      /\ op' \in OpRow /\ op'.at \in {"look", "wait"}
  <2>1. PICK next \in {"look", "wait"} : next = IF peer.noted # {} \/ peer.failed THEN "look" ELSE "wait"
    OBVIOUS
  <2>2. op' = [op EXCEPT !.at = next]
    BY <1>1, <2>1
  <2>3. op' \in OpRow /\ op'.at = next
    BY <2>2, RowsHere DEF OpRow
  <2>4. gate' \in GateRow /\ gate'.at = "bound" /\ gate'.queue = <<>>
    BY <1>1 DEF GateRow
  <2> QED
    BY <2>3, <2>4
<1>5. \A c \in Range(gate.queue) : Seat(c) \in Nat /\ c \in Call /\ call[c].at = "gated" /\ call[c].told = "no"
  <2>1. \A c \in Range(gate.queue) : Seat(c) \in Nat
    BY Seats
  <2>2. \A c \in Range(gate.queue) : c \in Call /\ call[c].at = "gated"
    BY QueuedCalls
  <2> QED
    BY <2>1, <2>2 DEF AdapterInv, CallsSound
<1>6. ASSUME NEW c \in Call
      PROVE  /\ call'[c] \in CallRow
             /\ call'[c].effect = call[c].effect /\ call'[c].listed = call[c].listed
             /\ call'[c].told = call[c].told
             /\ c \in Range(gate.queue) => call'[c].at = "admitted" /\ call'[c].ord = Seat(c)
             /\ c \notin Range(gate.queue) => call'[c] = call[c]
  <2>1. PICK old \in CallRow : old = call[c]
    BY DEF AdapterInv, AppTypes
  <2>2. CASE c \in Range(gate.queue)
    <3>1. PICK n \in Nat : n = Seat(c)
      BY <1>5, <2>2
    <3>2. call'[c] = [old EXCEPT !.at = "admitted", !.ord = n]
      BY <1>2, <2>1, <2>2, <3>1
    <3>3. [old EXCEPT !.at = "admitted", !.ord = n] \in CallRow
      BY DEF CallRow
    <3>4. PICK entry \in CallRow : /\ entry = [old EXCEPT !.at = "admitted", !.ord = n]
                                 /\ entry.at = "admitted" /\ entry.ord = n /\ entry.effect = old.effect
                                 /\ entry.listed = old.listed /\ entry.told = old.told
      BY <3>3 DEF CallRow
    <3> QED
      BY <2>1, <2>2, <3>1, <3>2, <3>4
  <2>3. CASE c \notin Range(gate.queue)
    BY <1>2, <2>1, <2>3
  <2> QED
    BY <2>2, <2>3
<1>7. AppTypes'
  <2>1. call' \in [Call -> CallRow]
    BY <1>2, <1>6
  <2>2. ordinal' \in Nat
    BY <1>1, Seats
  <2> QED
    BY <1>1, <1>4, <2>1, <2>2 DEF AdapterInv, AppTypes
<1>8. LinesSound'
  <2>1. \A c \in Call : call[c].at = "sent" => call'[c].at = "sent"
    BY <1>5, <1>6
  <2> QED
    BY <1>1, <2>1, LinesKept DEF AdapterInv
<1>9. GateSound'
  <2>1. \A c \in Call : call'[c].at # "gated"
    BY <1>6 DEF AdapterInv, GateSound
  <2>2. Range(gate'.queue) = {}
    BY <1>4, QueuedCalls
  <2>3. \A i, j \in 1..Len(gate'.queue) : gate'.queue[i] = gate'.queue[j] => i = j
    BY <1>4
  <2> QED
    BY <1>4, <2>1, <2>2, <2>3 DEF GateSound
<1>10. CallsSound'
  <2>1. \A c \in Call : Numbered(c)' => c \in Range(gate.queue)
    BY <1>3, <1>6 DEF Numbered
  <2>2. ASSUME NEW c \in Call
        PROVE  /\ call'[c].told # "no" => call'[c].at = "over"
               /\ call'[c].told = "ok" => call'[c].listed
               /\ call'[c].listed => call'[c].effect /\ call'[c].at = "over"
               /\ call'[c].effect => call'[c].at \in {"acted", "over"}
               /\ call'[c].at = "acted" => call'[c].effect
    BY <1>3, <1>5, <1>6 DEF AdapterInv, CallsSound
  <2>3. ASSUME NEW c \in Call, Numbered(c)' PROVE call'[c].ord < ordinal'
    <3>1. call'[c].ord = Seat(c) /\ Seat(c) \in 0..(Len(gate.queue) - 1) /\ Len(gate.queue) \in Nat
      BY <1>6, <2>1, <2>3, Seats
    <3> QED
      BY <1>1, <3>1
  <2>4. ASSUME NEW c \in Call, NEW d \in Call, Numbered(c)', Numbered(d)', call'[c].ord = call'[d].ord
        PROVE  c = d
    <3>1. Seat(c) = Seat(d)
      BY <1>6, <2>1, <2>4
    <3>2. gate.queue[Seat(c) + 1] = c /\ gate.queue[Seat(d) + 1] = d
      BY <2>1, <2>4, Seats
    <3> QED
      BY <3>1, <3>2
  <2>5. ASSUME NEW n \in 0..(ordinal' - 1)
        PROVE  \E c \in Call : call'[c].ord = n /\ call'[c].at \in {"admitted", "acted", "over"}
    <3>1. n \in 0..(Len(gate.queue) - 1)
      BY <1>1
    <3>2. PICK c \in Call : c = gate.queue[n + 1] /\ c \in Range(gate.queue) /\ Seat(c) = n
      BY <3>1, Seats
    <3> QED
      BY <1>6, <3>2
  <2> QED
    BY <2>2, <2>3, <2>4, <2>5 DEF CallsSound
<1>11. TurnSound'
  <2>1. server.turn \in {"none", "completed"} => \A c \in Call : c \notin Range(gate.queue)
    BY <1>5 DEF AdapterInv, TurnSound
  <2> QED
    BY <1>1, <1>3, <1>6, <2>1 DEF AdapterInv, TurnSound
<1>12. CallerSound'
  <2>1. caller.is = "returned" => \A c \in Call : c \notin Range(gate.queue)
    BY <1>5, SettledCalls
  <2>2. caller.is = "returned" => \A c \in Call : call'[c] = call[c]
    BY <1>6, <2>1
  <2> QED
    BY <1>1, <2>2, ReturnedStays DEF AdapterInv, CallerSound
<1> QED
  BY <1>7, <1>8, <1>9, <1>10, <1>11, <1>12 DEF AdapterInv

(***************************************************************************)
(* The operation returns.                                                  *)
(***************************************************************************)
\* Where the numbers of the calls that were completed have no gap, no call that acted
\* is missing among them.
LEMMA ListedInOrder ==
  ASSUME AdapterInv, CallsInOrder
  PROVE  \A c \in Call :
           /\ call[c].told = "ok" => call[c].listed
           /\ call[c].listed => \A d \in Call : call[d].at # "none" /\ call[d].ord < call[c].ord
                                                /\ call[d].effect => call[d].listed
<1>1. PICK listed \in SUBSET Call : listed = {c \in Call : call[c].listed}
  OBVIOUS
<1>2. Cardinality(listed) \in Nat
  BY FS_Subset, FS_CardinalityType, AppServerAssumption DEF AppServerAssumption
<1>3. {call[c].ord : c \in listed} = 0..(Cardinality(listed) - 1)
  BY <1>1 DEF CallsInOrder
<1>4. ASSUME NEW c \in Call, NEW d \in Call, call[c].listed, call[d].ord < call[c].ord, call[d].effect
      PROVE  call[d].listed
  <2>1. call[c].ord \in 0..(Cardinality(listed) - 1)
    BY <1>1, <1>3, <1>4
  <2>2. call[d].ord \in Nat
    BY DEF AdapterInv, AppTypes, CallRow
  <2>3. call[d].ord \in 0..(Cardinality(listed) - 1)
    BY <1>2, <1>4, <2>1, <2>2
  <2>4. PICK e \in listed : call[e].ord = call[d].ord
    BY <1>3, <2>3
  <2>5. e \in Call /\ call[e].listed
    BY <1>1, <2>4
  <2>6. Numbered(d) /\ Numbered(e)
    BY <1>4, <2>5 DEF AdapterInv, CallsSound, Numbered
  <2>7. d = e
    BY <2>4, <2>5, <2>6 DEF AdapterInv, CallsSound
  <2> QED
    BY <2>5, <2>7
<1> QED
  BY <1>4 DEF AdapterInv, CallsSound

LEMMA LooksKeep == AdapterInv /\ Looks => AdapterInv'
<1> SUFFICES ASSUME AdapterInv, Looks PROVE AdapterInv'
  OBVIOUS
<1>1. CASE \E b \in BOOLEAN : OpThrows(b)
  BY <1>1, ThrowsKeep DEF Looks
<1>2. CASE \A b \in BOOLEAN : ~OpThrows(b)
  <2>1. /\ Remembered = "completed" /\ CallsInOrder
        /\ op' = [op EXCEPT !.at = "over"] /\ Gets("returned", TRUE)
        /\ UNCHANGED <<kind, server, inbox, gate, call, ordinal, runner>>
    BY <1>2, ConnectionOpen DEF Looks, TurnEnds
  <2>2. server.turn = "completed"
    BY <2>1 DEF Remembered, AdapterInv, TurnSound
  <2>3. op' \in OpRow /\ op'.at = "over"
    BY <2>1, RowsHere DEF OpRow
  <2>4. /\ peer' \in PeerRow /\ peer'.closed /\ ~peer'.reading /\ peer'.noted = peer.noted
        /\ caller' \in CallerRow
    BY <2>1, GotRows DEF AdapterInv
  <2>5. AppTypes'
    BY <2>1, <2>3, <2>4 DEF AdapterInv, AppTypes
  <2>6. LinesSound'
    BY <2>1, LinesKept DEF AdapterInv
  <2>7. GateSound'
    BY <2>1, <2>3, <2>4 DEF AdapterInv, GateSound
  <2>8. CallsSound'
    BY <2>1 DEF AdapterInv, CallsSound, Numbered
  <2>9. TurnSound'
    BY <2>1, <2>3, <2>4 DEF AdapterInv, TurnSound
  <2>10. CallerSound'
    <3>1. server'.turn = "completed"
      BY <2>1, <2>2
    <3>2. ReturnedListsCalls'
      BY <2>1, ListedInOrder DEF ReturnedListsCalls
    <3> QED
      BY <2>4, <3>1, <3>2 DEF CallerSound
  <2> QED
    BY <2>5, <2>6, <2>7, <2>8, <2>9, <2>10 DEF AdapterInv
<1> QED
  BY <1>1, <1>2

(***************************************************************************)
(* The theorems about the adapter.                                         *)
(***************************************************************************)
LEMMA AdapterStarts == AppInit => AdapterInv
<1> SUFFICES ASSUME AppInit PROVE AdapterInv
  OBVIOUS
<1>1. Uncalled \in CallRow /\ \A c \in Call : call[c] = Uncalled
  BY DEF AppInit, Uncalled, CallRow
<1>2. call = [c \in Call |-> Uncalled]
  BY DEF AppInit
<1>3. AppTypes
  <2>1. server \in ServerRow
    BY DEF AppInit, ServerRow, Request
  <2>2. peer \in PeerRow
    BY DEF AppInit, PeerRow
  <2>3. op \in OpRow /\ caller \in CallerRow
    BY DEF AppInit, OpRow, CallerRow, Request
  <2>4. gate \in GateRow
    <3>1. <<>> \in Seq(Call)
      BY EmptySeq
    <3> QED
      BY <3>1, Zenon DEF AppInit, GateRow
  <2>5. inbox \in Seq(Line)
    BY DEF AppInit
  <2>6. call \in [Call -> CallRow]
    BY <1>1, <1>2
  <2> QED
    BY <2>1, <2>2, <2>3, <2>4, <2>5, <2>6 DEF AppInit, AppTypes
<1>4. LinesSound
  BY DEF AppInit, LinesSound
<1>5. /\ gate.at = "open" /\ gate.queue = <<>> /\ peer.reading /\ ordinal = 0
      /\ \A c \in Call : /\ call[c].at = "none" /\ ~call[c].effect /\ ~call[c].listed
                         /\ call[c].told = "no"
  BY <1>1 DEF AppInit, Uncalled
<1>6. GateSound
  <2>1. Range(<<>>) = {}
    BY DEF Range
  <2> QED
    BY <1>5, <2>1 DEF GateSound
<1>7. CallsSound
  BY <1>5 DEF CallsSound, Numbered
<1>8. TurnSound
  <2>1. server.turn = "none" /\ server.asked = "initialize" /\ peer.noted = {} /\ op.at = "initialize"
    BY DEF AppInit
  <2> QED
    BY <1>5, <2>1 DEF TurnSound
<1>9. CallerSound
  BY DEF AppInit, CallerSound
<1> QED
  BY <1>3, <1>4, <1>6, <1>7, <1>8, <1>9 DEF AdapterInv

LEMMA AdapterIdles == AdapterInv /\ UNCHANGED app_vars => AdapterInv'
<1> SUFFICES ASSUME AdapterInv, UNCHANGED app_vars PROVE AdapterInv'
  OBVIOUS
<1>1. UNCHANGED <<kind, server, inbox, peer, op, gate, call, ordinal, caller, runner>>
  BY DEF app_vars
<1>2. AppTypes' /\ LinesSound'
  BY <1>1 DEF AdapterInv, AppTypes, LinesSound
<1>3. GateSound' /\ CallsSound'
  BY <1>1 DEF AdapterInv, GateSound, CallsSound, Numbered
<1>4. TurnSound' /\ CallerSound'
  BY <1>1 DEF AdapterInv, TurnSound, CallerSound, ReturnedListsCalls
<1> QED
  BY <1>2, <1>3, <1>4 DEF AdapterInv

LEMMA AdapterMoves == AdapterInv /\ [AppNext]_app_vars => AdapterInv'
<1> SUFFICES ASSUME AdapterInv, [AppNext]_app_vars PROVE AdapterInv'
  OBVIOUS
<1>1. CASE Adapter
  <2>1. CASE ReadsReply \/ ReadsError \/ ReadsNote
    BY <2>1, ReplyKeeps, ErrorKeeps, NoteKeeps
  <2>2. CASE BeforeTurnStart \/ OnTurnStarted \/ Looks
    BY <2>2, BeforeKeeps, StartedKeeps, LooksKeep
  <2>3. CASE \E c \in Call : ReadsCall(c) \/ OnToolCall(c) \/ AfterToolCall(c)
    BY <2>3, ReadsCallKeeps, ToolKeeps, AfterToolKeeps
  <2> QED
    BY <1>1, <2>1, <2>2, <2>3 DEF Adapter
<1>2. CASE Child
  BY <1>2, AnswersKeep, StartsTurnKeeps, ServerCallsKeep, EndsKeep DEF Child
<1>3. CASE BoundaryFails \/ ServerExits \/ PeerFails \/ Timer \/ Reaps
  BY <1>3, BoundaryKeeps, ExitKeeps, PeerFailsKeep, TimerKeeps, ReapsKeep
<1>4. CASE \E c \in Call : ToolFails(c)
  BY <1>4, ToolFailKeeps
<1>5. CASE UNCHANGED app_vars
  BY <1>5, AdapterIdles
<1> QED
  BY <1>1, <1>2, <1>3, <1>4, <1>5 DEF AppNext

\* One operation of the adapter: a call waits at the gate once or is numbered once, a
\* turn completes when its calls are answered, and whoever was told of the end has a
\* connection that is closed.
THEOREM AdapterInductive == AppSpec => []AdapterInv
<1>1. AppInit => AdapterInv
  BY AdapterStarts
<1>2. AdapterInv /\ [AppNext]_app_vars => AdapterInv'
  BY AdapterMoves
<1> QED
  BY <1>1, <1>2, PTL DEF AppSpec

\* What the type invariant also says of the numbers: none is larger than their count,
\* and there are no more of them than calls.
OrdinalsSound == \A c \in Call : call[c].ord <= ordinal

LEMMA RefusedOrdinals ==
  ASSUME AdapterInv, NEW cs \in SUBSET Call, NEW b \in BOOLEAN, Refuses(cs, b)
  PROVE  \A c \in Call : call'[c].ord = call[c].ord
<1>1. \A c \in Call : c \in cs \/ c \in Call \ cs
  OBVIOUS
<1> QED
  BY <1>1, Refused DEF AdapterInv

LEMMA OrdinalStep ==
  ASSUME AdapterInv, [AppNext]_app_vars
  PROVE  \/ ordinal' = ordinal /\ \A c \in Call : call'[c].ord = call[c].ord
         \/ OnTurnStarted
         \/ \E c \in Call : ordinal' = ordinal + 1 /\ call'[c].ord = ordinal
                            /\ \A d \in Call : d # c => call'[d] = call[d]
<1> DEFINE Same == ordinal' = ordinal /\ \A c \in Call : call'[c].ord = call[c].ord
<1>1. \A c \in Call : call[c] \in CallRow
  BY DEF AdapterInv, AppTypes
<1>2. CASE UNCHANGED <<call, ordinal>>
  BY <1>2
<1>3. \A cs \in SUBSET Call, b \in BOOLEAN : Refuses(cs, b) /\ ordinal' = ordinal => Same
  BY RefusedOrdinals
<1>4. \A b \in BOOLEAN : OpThrows(b) => Same
  BY <1>3, QueuedCalls DEF OpThrows
<1>5. ASSUME NEW c \in Call, ServerCalls(c) \/ OnToolCall(c) \/ AfterToolCall(c)
      PROVE  Same
  <2>1. ordinal' = ordinal
    BY <1>5 DEF ServerCalls, OnToolCall, AfterToolCall
  <2>2. CASE ServerCalls(c)
    BY <1>1, <2>1, <2>2 DEF ServerCalls, AdapterInv, AppTypes, CallRow
  <2>3. CASE OnToolCall(c)
    BY <1>1, <2>1, <2>3 DEF OnToolCall, AdapterInv, AppTypes, CallRow
  <2>4. CASE AfterToolCall(c)
    <3>1. PICK answer \in {"ok", "no"} : answer = IF PeerOpen THEN "ok" ELSE "no"
      OBVIOUS
    <3>2. call' = [call EXCEPT ![c].at = "over", ![c].listed = TRUE, ![c].told = answer]
      BY <2>4, <3>1 DEF AfterToolCall
    <3> QED
      BY <1>1, <2>1, <3>2 DEF AdapterInv, AppTypes, CallRow
  <2> QED
    BY <1>5, <2>2, <2>3, <2>4
<1>6. ASSUME NEW c \in Call, ReadsCall(c)
      PROVE  \/ Same
             \/ /\ ordinal' = ordinal + 1 /\ call'[c].ord = ordinal
                /\ \A d \in Call : d # c => call'[d] = call[d]
  <2>1. {c} \in SUBSET Call
    OBVIOUS
  <2>2. CASE Refuses({c}, PeerOpen) /\ ordinal' = ordinal
    BY <1>3, <2>1, <2>2, ConnectionOpen
  <2>3. CASE call' = [call EXCEPT ![c].at = "gated"] /\ ordinal' = ordinal
    BY <1>1, <2>3 DEF AdapterInv, AppTypes, CallRow
  <2>4. CASE call' = [call EXCEPT ![c].at = "admitted", ![c].ord = ordinal] /\ ordinal' = ordinal + 1
    <3>1. PICK n \in Nat : n = ordinal
      BY DEF AdapterInv, AppTypes
    <3>2. call' = [call EXCEPT ![c].at = "admitted", ![c].ord = n]
      BY <2>4, <3>1
    <3>3. call'[c].ord = n /\ \A d \in Call : d # c => call'[d] = call[d]
      BY <1>1, <3>2 DEF AdapterInv, AppTypes, CallRow
    <3> QED
      BY <2>4, <3>1, <3>3
  <2> QED
    BY <1>6, <2>2, <2>3, <2>4 DEF ReadsCall, Admits
<1>7. CASE Adapter
  <2>1. CASE ReadsReply \/ ReadsError \/ ReadsNote
    BY <1>2, <2>1 DEF ReadsReply, ReadsError, ReadsNote
  <2>2. CASE BeforeTurnStart \/ Looks
    BY <1>2, <1>4, <2>2, ConnectionOpen DEF BeforeTurnStart, AsksIfOpen, Looks, TurnEnds
  <2> QED
    BY <1>5, <1>6, <1>7, <2>1, <2>2 DEF Adapter
<1>8. CASE Child
  BY <1>2, <1>5, <1>8 DEF Child, ServerAnswers, ServerRefuses, ServerStartsTurn, ServerEnds
<1>9. CASE BoundaryFails \/ Timer \/ Reaps
  BY <1>2, <1>4, <1>9, ConnectionOpen DEF BoundaryFails, Timer, Reaps
<1>10. CASE ServerExits \/ PeerFails
  BY <1>2, <1>3, <1>10, QueuedCalls DEF ServerExits, PeerFails
<1>11. CASE \E c \in Call : ToolFails(c)
  <2>1. PICK c \in Call : ToolFails(c)
    BY <1>11
  <2>2. {c} \in SUBSET Call
    OBVIOUS
  <2> QED
    BY <1>3, <2>1, <2>2, ConnectionOpen DEF ToolFails
<1>12. CASE UNCHANGED app_vars
  BY <1>2, <1>12 DEF app_vars
<1> QED
  BY <1>7, <1>8, <1>9, <1>10, <1>11, <1>12 DEF AppNext

LEMMA OrdinalsKept == AdapterInv /\ OrdinalsSound /\ [AppNext]_app_vars => OrdinalsSound'
<1> SUFFICES ASSUME AdapterInv, OrdinalsSound, [AppNext]_app_vars PROVE OrdinalsSound'
  OBVIOUS
<1>1. ordinal \in Nat /\ \A c \in Call : call[c].ord \in Nat
  BY DEF AdapterInv, AppTypes, CallRow
<1>2. CASE ordinal' = ordinal /\ \A c \in Call : call'[c].ord = call[c].ord
  BY <1>2 DEF OrdinalsSound
<1>3. CASE OnTurnStarted
  <2>1. ordinal = 0 /\ ordinal' = Len(gate.queue) /\ Len(gate.queue) \in Nat
    BY <1>3, OpenGate, Seats DEF OnTurnStarted, AdapterInv, GateSound
  <2>2. ASSUME NEW c \in Call PROVE call'[c].ord <= ordinal'
    <3>1. CASE c \in Range(gate.queue)
      <4>1. PICK n \in 0..(Len(gate.queue) - 1) : n = Seat(c)
        BY <3>1, Seats
      <4>2. call'[c] = [call[c] EXCEPT !.at = "admitted", !.ord = n]
        BY <1>3, <3>1, <4>1 DEF OnTurnStarted, Seat
      <4>3. call[c] \in CallRow
        BY DEF AdapterInv, AppTypes
      <4>4. call'[c].ord = n
        BY <4>2, <4>3 DEF CallRow
      <4> QED
        BY <2>1, <4>4
    <3>2. CASE c \notin Range(gate.queue)
      <4>1. call'[c] = call[c]
        BY <1>3, <3>2 DEF OnTurnStarted
      <4>2. call[c].ord = 0
        BY <1>1, <2>1 DEF OrdinalsSound
      <4> QED
        BY <2>1, <4>1, <4>2
    <3> QED
      BY <3>1, <3>2
  <2> QED
    BY <2>2 DEF OrdinalsSound
<1>4. CASE \E c \in Call : ordinal' = ordinal + 1 /\ call'[c].ord = ordinal
                            /\ \A d \in Call : d # c => call'[d] = call[d]
  <2>1. PICK c \in Call : ordinal' = ordinal + 1 /\ call'[c].ord = ordinal
                          /\ \A d \in Call : d # c => call'[d] = call[d]
    BY <1>4
  <2>2. ASSUME NEW d \in Call PROVE call'[d].ord <= ordinal'
    <3>1. PICK old \in Nat : old = call[d].ord /\ old <= ordinal
      BY <1>1 DEF OrdinalsSound
    <3>2. call'[d].ord = old \/ call'[d].ord = ordinal
      BY <2>1, <3>1
    <3> QED
      BY <1>1, <2>1, <3>1, <3>2
  <2> QED
    BY <2>2 DEF OrdinalsSound
<1> QED
  BY <1>2, <1>3, <1>4, OrdinalStep

LEMMA OrdinalCount ==
  ASSUME AdapterInv
  PROVE  ordinal \in 0..Cardinality(Call)
<1>1. ordinal \in Nat /\ IsFiniteSet(Call)
  BY AppServerAssumption DEF AppServerAssumption, AdapterInv, AppTypes
<1>2. \A n \in 0..(ordinal - 1) : \E c \in Call : call[c].ord = n
  BY DEF AdapterInv, CallsSound
<1>3. PICK f \in [0..(ordinal - 1) -> Call] : \A n \in 0..(ordinal - 1) : call[f[n]].ord = n
  <2>1. [n \in 0..(ordinal - 1) |-> CHOOSE c \in Call : call[c].ord = n] \in [0..(ordinal - 1) -> Call]
    BY <1>2
  <2> QED
    BY <1>2, <2>1
<1>4. f \in Injection(0..(ordinal - 1), Call)
  BY <1>3 DEF Injection, IsInjective
<1>5. Cardinality(0..(ordinal - 1)) <= Cardinality(Call)
  BY <1>1, <1>4, FS_Injection
<1>6. Cardinality(0..(ordinal - 1)) = ordinal
  <2>1. 0 \in Int /\ ordinal - 1 \in Int
    BY <1>1
  <2>2. Cardinality(0..(ordinal - 1)) = IF 0 > ordinal - 1 THEN 0 ELSE (ordinal - 1) - 0 + 1
    BY <2>1, FS_Interval
  <2> QED
    BY <1>1, <2>2
<1>7. Cardinality(Call) \in Nat
  BY <1>1, FS_CardinalityType
<1> QED
  BY <1>1, <1>5, <1>6, <1>7

LEMMA AppTyped == AdapterInv /\ OrdinalsSound => AppTypeOK
<1> SUFFICES ASSUME AdapterInv, OrdinalsSound PROVE AppTypeOK
  OBVIOUS
<1>1. ordinal \in 0..Cardinality(Call)
  BY OrdinalCount
<1>2. Cardinality(Call) \in Nat
  BY FS_CardinalityType, AppServerAssumption DEF AppServerAssumption
<1>3. call \in [Call -> [at : {"none", "sent", "gated", "admitted", "acted", "over"},
                         ord : 0..Cardinality(Call), effect : BOOLEAN, listed : BOOLEAN,
                         told : {"no", "ok", "error"}]]
  <2>1. ASSUME NEW c \in Call
        PROVE  call[c] \in [at : {"none", "sent", "gated", "admitted", "acted", "over"},
                            ord : 0..Cardinality(Call), effect : BOOLEAN, listed : BOOLEAN,
                            told : {"no", "ok", "error"}]
    <3>1. PICK r \in CallRow : r = call[c]
      BY DEF AdapterInv, AppTypes
    <3>2. r.ord \in Nat /\ r.ord <= ordinal
      BY <3>1 DEF CallRow, OrdinalsSound
    <3>3. r.ord \in 0..Cardinality(Call)
      BY <1>1, <1>2, <3>2
    <3> QED
      BY <3>1, <3>3 DEF CallRow
  <2> QED
    BY <2>1 DEF AdapterInv, AppTypes
<1>4. \A i \in 1..Len(inbox) : inbox[i] \in Line
  <2>1. inbox \in Seq(Line)
    BY DEF AdapterInv, AppTypes
  <2> QED
    BY <2>1
<1>5. gate.at \in {"open", "bound", "rejected"} /\ Range(gate.queue) \subseteq Call
  BY QueuedCalls, RowsHere DEF GateRow
<1> QED
  BY <1>1, <1>3, <1>4, <1>5
     DEF AppTypeOK, AdapterInv, AppTypes, Line, ServerRow, PeerRow, OpRow, CallerRow

\* A tool acts only for a turn whose start was committed by onTurnStarted, and a turn
\* returns with every call its model was told of and without a gap: whatever the order
\* of the calls, the binding, the timer and the child's exit.
THEOREM CallsAreAccounted == AppSpec => []CallsAccounted
<1>1. AppInit => AdapterInv /\ OrdinalsSound
  <2>1. AppInit => OrdinalsSound
    BY DEF AppInit, OrdinalsSound, Uncalled
  <2> QED
    BY <2>1, AdapterStarts
<1>2. AdapterInv /\ OrdinalsSound /\ [AppNext]_app_vars => (AdapterInv /\ OrdinalsSound)'
  BY AdapterMoves, OrdinalsKept
<1>3. AdapterInv /\ OrdinalsSound => CallsAccounted
  <2>1. AdapterInv => ActsWhenBound
    BY DEF AdapterInv, GateSound, ActsWhenBound
  <2>2. AdapterInv => ReturnedListsCalls
    <3>1. SUFFICES ASSUME AdapterInv, caller.is = "returned" PROVE ReturnedListsCalls
      BY DEF ReturnedListsCalls
    <3>2. CASE kind \in OfRequest
      BY <3>1, <3>2 DEF AdapterInv, TurnSound, CallsSound, ReturnedListsCalls
    <3>3. CASE kind \notin OfRequest
      BY <3>1, <3>3 DEF AdapterInv, CallerSound
    <3> QED
      BY <3>2, <3>3
  <2> QED
    BY <2>1, <2>2, AppTyped DEF CallsAccounted
<1> QED
  BY <1>1, <1>2, <1>3, PTL DEF AppSpec

\* An operation whose caller was told of its end starts no turn, whichever callback
\* returns after the timer: its connection is closed, and nothing more is read.
THEOREM NoTurnComesAfterwards == AppSpec => NoTurnAfterwards
<1>1. AdapterInv /\ [AppNext]_app_vars =>
        (caller.is # "waiting" /\ server.asked # "turn" => server'.asked # "turn")
  <2> SUFFICES ASSUME AdapterInv, [AppNext]_app_vars, caller.is # "waiting", server.asked # "turn"
               PROVE  server'.asked # "turn"
    OBVIOUS
  <2>1. peer.closed /\ ~peer.reading
    BY DEF AdapterInv, CallerSound
  <2>2. server \in ServerRow
    BY RowsHere
  <2>3. CASE UNCHANGED server
    BY <2>3
  <2>4. CASE Adapter
    <3>1. ~PeerOpen
      BY <2>1 DEF PeerOpen
    <3>2. CASE BeforeTurnStart \/ OnTurnStarted \/ Looks
      BY <2>3, <3>1, <3>2 DEF BeforeTurnStart, AsksIfOpen, OnTurnStarted, Looks, OpThrows, TurnEnds
    <3>3. CASE \E c \in Call : OnToolCall(c) \/ AfterToolCall(c)
      BY <2>3, <3>3 DEF OnToolCall, AfterToolCall
    <3> QED
      BY <2>1, <2>4, <3>2, <3>3 DEF Adapter, ReadsReply, ReadsError, ReadsNote, ReadsCall, Reads
  <2>5. CASE Child
    <3>1. ServerAnswers \/ ServerRefuses => server'.asked = "none"
      BY <2>2 DEF ServerAnswers, ServerRefuses, ServerRow
    <3>2. ServerStartsTurn => server'.asked = server.asked
      BY <2>2 DEF ServerStartsTurn, ServerRow
    <3>3. \A outcome \in {"completed", "failed"} : ServerEnds(outcome) => server'.asked = server.asked
      BY <2>2 DEF ServerEnds, ServerRow
    <3>4. \A c \in Call : ServerCalls(c) => server' = server
      BY DEF ServerCalls
    <3> QED
      BY <2>5, <3>1, <3>2, <3>3, <3>4 DEF Child
  <2>6. CASE ServerExits \/ Reaps
    <3>1. server' = [server EXCEPT !.alive = FALSE, !.asked = "none"]
      BY <2>6 DEF ServerExits, Reaps
    <3>2. server'.asked = "none"
      BY <2>2, <3>1 DEF ServerRow
    <3> QED
      BY <3>2
  <2>7. CASE BoundaryFails \/ PeerFails \/ Timer \/ \E c \in Call : ToolFails(c)
    BY <2>3, <2>7 DEF BoundaryFails, PeerFails, Timer, ToolFails, OpThrows
  <2>8. CASE UNCHANGED app_vars
    BY <2>3, <2>8 DEF app_vars
  <2> QED
    BY <2>4, <2>5, <2>6, <2>7, <2>8 DEF AppNext
<1>2. AdapterInv /\ [AppNext]_app_vars =>
        [caller.is # "waiting" /\ server.asked # "turn" => server'.asked # "turn"]_app_vars
  BY <1>1
<1> QED
  BY <1>2, AdapterInductive, PTL DEF AppSpec, NoTurnAfterwards

(***************************************************************************)
(* The schema: what the versions brought.                                  *)
(***************************************************************************)
Creating == (1..Latest) \ OnlyColumns

LEMMA PartsAre ==
  /\ \A t, v : <<t, v>> \in Part <=> v \in 1..Latest /\ t \in Brought[v]
  /\ \A p \in Part : p = <<p[1], p[2]>> /\ p[2] \in 1..Latest /\ p[1] \in Brought[p[2]]
<1>1. \A p : p \in Part <=> \E v \in 1..Latest : \E t \in Brought[v] : p = <<t, v>>
  BY DEF Part
<1>2. \A t, v : <<t, v>> \in Part <=> v \in 1..Latest /\ t \in Brought[v]
  BY <1>1
<1>3. ASSUME NEW p \in Part
      PROVE  p = <<p[1], p[2]>> /\ p[2] \in 1..Latest /\ p[1] \in Brought[p[2]]
  <2>1. PICK v \in 1..Latest : \E t \in Brought[v] : p = <<t, v>>
    BY <1>1
  <2>2. PICK t \in Brought[v] : p = <<t, v>>
    BY <2>1
  <2> QED
    BY <2>2
<1> QED
  BY <1>2, <1>3

LEMMA ManifestsAre ==
  /\ \A v : Manifest(v) \subseteq Part
  /\ \A v, w \in 0..(Latest + 1) : v <= w => Manifest(v) \subseteq Manifest(w)
  /\ Manifest(Latest) = Part /\ Manifest(Latest + 1) = Part /\ Manifest(0) = {}
  /\ \A v \in 1..Latest : \A p \in Manifest(v) : p \in Manifest(v - 1) \/ p[2] = v
<1>1. \A p \in Part : p[2] \in 1..Latest
  BY PartsAre
<1> QED
  BY <1>1 DEF Manifest, Latest

\* A table is made in one version, and no version adds columns to a table before it is made.
LEMMA MadeOnce ==
  ASSUME NEW v \in 1..Latest, NEW w \in Creating, NEW t \in Brought[v], t \in Brought[w]
  PROVE  w <= v
<1> USE DEF Brought, Core, FreshnessColumns, RetentionColumns, DependencyTables, GitEvidenceTables,
            TurnTables, ExecutionTables, AttentionTables, UnlockTables, BindingTables, PumpTables,
            LeaseColumns
<1>1. w \in {1, 4, 5, 6, 7, 8, 9}
  BY DEF Creating, OnlyColumns, Latest
<1>2. v \in {1, 2, 3, 4, 5, 6, 7, 8, 9, 10}
  BY DEF Latest
<1>3. CASE w = 1
  BY <1>2, <1>3
<1>4. CASE w = 4
  BY <1>2, <1>4
<1>5. CASE w = 5
  BY <1>2, <1>5
<1>6. CASE w = 6
  BY <1>2, <1>6
<1>7. CASE w = 7
  BY <1>2, <1>7
<1>8. CASE w = 8
  BY <1>2, <1>8
<1>9. CASE w = 9
  BY <1>2, <1>9
<1> QED
  BY <1>1, <1>3, <1>4, <1>5, <1>6, <1>7, <1>8, <1>9

\* A table that is there has what it was made with.
Closed(parts) == \A v \in Creating : \A t \in Brought[v] : Exists(t, parts) => <<t, v>> \in parts

LEMMA ManifestClosed ==
  ASSUME NEW v \in 0..(Latest + 1), NEW parts, parts \subseteq Manifest(v),
         \A w \in Creating : \A t \in Brought[w] : w <= v /\ Exists(t, parts) => <<t, w>> \in parts
  PROVE  Closed(parts)
<1> SUFFICES ASSUME NEW w \in Creating, NEW t \in Brought[w], Exists(t, parts) PROVE w <= v
  BY DEF Closed
<1>1. PICK p \in parts : p[1] = t
  BY DEF Exists
<1>2. p \in Part /\ p[2] <= v
  BY DEF Manifest
<1>3. p[2] \in 1..Latest /\ t \in Brought[p[2]]
  BY <1>1, <1>2, PartsAre
<1>4. w <= p[2]
  BY <1>3, MadeOnce
<1> QED
  BY <1>2, <1>3, <1>4 DEF Latest, Creating

(***************************************************************************)
(* The schema: the steps.                                                  *)
(***************************************************************************)
\* A step adds parts of the schema and removes none.
LEMMA RunAdds ==
  ASSUME NEW v \in 1..Latest, NEW seen, NEW parts
  PROVE  parts \subseteq Runs(v, seen, parts) /\ Runs(v, seen, parts) \subseteq parts \cup Part
<1>1. parts \subseteq AddsColumns(Brought[v], v, parts)
      /\ AddsColumns(Brought[v], v, parts) \subseteq parts \cup Part
  BY PartsAre DEF AddsColumns
<1>2. parts \subseteq Creates(Brought[v], parts) /\ Creates(Brought[v], parts) \subseteq parts \cup Part
  BY DEF Creates
<1> QED
  BY <1>1, <1>2 DEF Runs, Step

LEMMA UpgradeAdds ==
  ASSUME NEW parts, NEW seen
  PROVE  parts \subseteq Upgraded(parts, seen) /\ Upgraded(parts, seen) \subseteq parts \cup Part
<1> DEFINE p1 == Runs(1, seen, parts)
           p2 == Runs(2, seen, p1)
           p3 == Runs(3, seen, p2)
           p4 == Runs(4, seen, p3)
           p5 == Runs(5, seen, p4)
           p6 == Runs(6, seen, p5)
           p7 == Runs(7, seen, p6)
           p8 == Runs(8, seen, p7)
           p9 == Runs(9, seen, p8)
           p10 == Runs(10, seen, p9)
           Adds(p, q) == p \subseteq q /\ q \subseteq p \cup Part
<1>1. \A v \in {1, 2, 3, 4, 5, 6, 7, 8, 9, 10} : \A p : Adds(p, Runs(v, seen, p))
  BY RunAdds DEF Latest
<1>2. /\ Adds(parts, p1) /\ Adds(p1, p2) /\ Adds(p2, p3) /\ Adds(p3, p4) /\ Adds(p4, p5)
      /\ Adds(p5, p6) /\ Adds(p6, p7) /\ Adds(p7, p8) /\ Adds(p8, p9) /\ Adds(p9, p10)
  <2> HIDE DEF Adds
  <2> QED
    BY <1>1
<1>3. Upgraded(parts, seen) = p10
  BY DEF Upgraded
<1> HIDE DEF p1, p2, p3, p4, p5, p6, p7, p8, p9, p10
<1>4. Adds(parts, p5)
  BY <1>2
<1>5. Adds(p5, p10)
  BY <1>2
<1> QED
  BY <1>3, <1>4, <1>5

\* What the steps rely on and bring about, for a store that has all of version s.
Reaches(v, s, parts) ==
  /\ parts \subseteq Part /\ Closed(parts)
  /\ Manifest(s) \subseteq parts /\ Manifest(v) \subseteq parts

LEMMA RunReaches ==
  ASSUME NEW s \in 0..Latest, NEW v \in 1..Latest, NEW parts, Reaches(v - 1, s, parts)
  PROVE  Reaches(v, s, Runs(v, s, parts))
<1>0. PICK new : new = Runs(v, s, parts)
  OBVIOUS
<1> SUFFICES Reaches(v, s, new)
  BY <1>0
<1>1. parts \subseteq new /\ new \subseteq Part
  BY <1>0, RunAdds DEF Reaches
<1>2. CASE ~(s < v)
  <2>1. new = parts
    BY <1>0, <1>2 DEF Runs
  <2>2. Manifest(v) \subseteq Manifest(s)
    BY <1>2, ManifestsAre DEF Latest
  <2> QED
    BY <2>1, <2>2 DEF Reaches
<1>3. CASE s < v /\ v \in OnlyColumns
  <2>1. new = parts \cup {<<t, v>> : t \in Brought[v]}
    BY <1>0, <1>3 DEF Runs, Step, AddsColumns
  <2>2. Manifest(v) \subseteq new
    <3> SUFFICES ASSUME NEW p \in Manifest(v) PROVE p \in new
      OBVIOUS
    <3>1. p \in Manifest(v - 1) \/ p[2] = v
      BY ManifestsAre
    <3>2. p[2] = v => p \in new
      BY <2>1, PartsAre DEF Manifest
    <3> QED
      BY <1>1, <3>1, <3>2 DEF Reaches
  <2>3. Closed(new)
    <3> SUFFICES ASSUME NEW w \in Creating, NEW t \in Brought[w], Exists(t, new) PROVE <<t, w>> \in new
      BY DEF Closed
    <3>1. CASE Exists(t, parts)
      BY <1>1, <3>1 DEF Reaches, Closed
    <3>2. CASE ~Exists(t, parts)
      <4>1. t \in Brought[v]
        BY <2>1, <3>2 DEF Exists
      <4>2. w <= v /\ w # v
        BY <1>3, <4>1, MadeOnce DEF Creating
      <4>3. <<t, w>> \in Manifest(v - 1)
        <5>1. <<t, w>> \in Part
          BY PartsAre DEF Creating
        <5>2. <<t, w>>[2] <= v - 1
          BY <4>2 DEF Creating, Latest
        <5> QED
          BY <5>1, <5>2 DEF Manifest
      <4> QED
        BY <1>1, <4>3 DEF Reaches
    <3> QED
      BY <3>1, <3>2
  <2> QED
    BY <1>1, <2>2, <2>3 DEF Reaches
<1>4. CASE s < v /\ v \notin OnlyColumns
  <2>1. new = parts \cup {p \in Part : p[1] \in Brought[v] /\ ~Exists(p[1], parts)}
    <3>1. new = Creates(Brought[v], parts)
      BY <1>0, <1>4 DEF Runs, Step
    <3> QED
      BY <3>1, Zenon DEF Creates
  <2>2. v \in Creating
    BY <1>4 DEF Creating
  <2>3. Manifest(v) \subseteq new
    <3> SUFFICES ASSUME NEW p \in Manifest(v) PROVE p \in new
      OBVIOUS
    <3>1. p \in Manifest(v - 1) \/ p[2] = v
      BY ManifestsAre
    <3>2. ASSUME p[2] = v PROVE p \in new
      <4>1. p \in Part /\ p = <<p[1], v>> /\ p[1] \in Brought[v]
        BY <3>2, PartsAre DEF Manifest
      <4>2. Exists(p[1], parts) => <<p[1], v>> \in parts
        BY <2>2, <4>1 DEF Reaches, Closed
      <4> QED
        BY <2>1, <4>1, <4>2
    <3> QED
      BY <1>1, <3>1, <3>2 DEF Reaches
  <2>4. Closed(new)
    <3> SUFFICES ASSUME NEW w \in Creating, NEW t \in Brought[w], Exists(t, new) PROVE <<t, w>> \in new
      BY DEF Closed
    <3>1. CASE Exists(t, parts)
      BY <1>1, <3>1 DEF Reaches, Closed
    <3>2. CASE ~Exists(t, parts)
      <4>1. t \in Brought[v]
        BY <2>1, <3>2 DEF Exists
      <4>2. <<t, w>> \in Part /\ <<t, w>>[1] = t
        BY PartsAre DEF Creating
      <4> QED
        BY <2>1, <3>2, <4>1, <4>2
    <3> QED
      BY <3>1, <3>2
  <2> QED
    BY <1>1, <2>3, <2>4 DEF Reaches
<1> QED
  BY <1>2, <1>3, <1>4

\* A store that is what its version says comes up to date.
LEMMA SoundUpgrades ==
  ASSUME NEW s \in 0..Latest, NEW parts, parts \subseteq Part, Closed(parts), Manifest(s) \subseteq parts
  PROVE  Compatible(Upgraded(parts, s))
<1> DEFINE p1 == Runs(1, s, parts)
           p2 == Runs(2, s, p1)
           p3 == Runs(3, s, p2)
           p4 == Runs(4, s, p3)
           p5 == Runs(5, s, p4)
           p6 == Runs(6, s, p5)
           p7 == Runs(7, s, p6)
           p8 == Runs(8, s, p7)
           p9 == Runs(9, s, p8)
           p10 == Runs(10, s, p9)
<1>0. Reaches(0, s, parts)
  BY ManifestsAre DEF Reaches
<1>a. ASSUME NEW v \in 1..Latest, NEW u, u = v - 1, NEW ps, Reaches(u, s, ps)
      PROVE  Reaches(v, s, Runs(v, s, ps))
  BY <1>a, RunReaches
<1>1. Reaches(1, s, p1)
  BY <1>0, <1>a DEF Latest
<1>2. Reaches(2, s, p2)
  <2> HIDE DEF p1
  <2> QED
    BY <1>1, <1>a DEF Latest
<1>3. Reaches(3, s, p3)
  <2> HIDE DEF p2
  <2> QED
    BY <1>2, <1>a DEF Latest
<1>4. Reaches(4, s, p4)
  <2> HIDE DEF p3
  <2> QED
    BY <1>3, <1>a DEF Latest
<1>5. Reaches(5, s, p5)
  <2> HIDE DEF p4
  <2> QED
    BY <1>4, <1>a DEF Latest
<1>6. Reaches(6, s, p6)
  <2> HIDE DEF p5
  <2> QED
    BY <1>5, <1>a DEF Latest
<1>7. Reaches(7, s, p7)
  <2> HIDE DEF p6
  <2> QED
    BY <1>6, <1>a DEF Latest
<1>8. Reaches(8, s, p8)
  <2> HIDE DEF p7
  <2> QED
    BY <1>7, <1>a DEF Latest
<1>9. Reaches(9, s, p9)
  <2> HIDE DEF p8
  <2> QED
    BY <1>8, <1>a DEF Latest
<1>10. Reaches(10, s, p10)
  <2> HIDE DEF p9
  <2> QED
    BY <1>9, <1>a DEF Latest
<1>11. Upgraded(parts, s) = p10
  BY DEF Upgraded
<1> HIDE DEF p10
<1> QED
  BY <1>10, <1>11 DEF Reaches, Compatible, Latest

(***************************************************************************)
(* The schema: the inductive invariant.  A process that goes by a version   *)
(* that was overtaken does so at a store that is up to date already, so a   *)
(* refusal is about the store and not about the race.                      *)
(***************************************************************************)
\* The version the steps of this release go by.
Reached == IF store.version > Latest THEN Latest ELSE store.version

LeasedRows == \A r \in Row : store.epoch[r] = 1

OpenerSound(o) ==
  LET p == opener[o] IN
  /\ p.at = "read" => /\ p.seen <= Latest
                      /\ Compatible(store.parts) \/ p.seen = Reached
                      /\ p.seen = Latest => LeasedRows
  /\ p.at = "refused" /\ p.seen <= Latest =>
       \/ store.altered # {}
       \/ p.seen = Reached /\ ~Compatible(Upgraded(store.parts, p.seen))
  /\ p.at = "open" => Compatible(store.parts) /\ 1..Latest \subseteq store.recorded /\ LeasedRows

RowsCounted == \A r \in Row :
  /\ store.epoch[r] <= 1 /\ store.checkpoints[r] <= 2
  /\ store.epoch[r] = 0 => store.checkpoints[r] = 1

SchemaInv ==
  /\ SchemaTypeOK
  /\ \A o \in Opener : OpenerSound(o)
  /\ Sound => Closed(store.parts)
  /\ store.version >= Latest => LeasedRows
  /\ RowsCounted

\* Stores that a release left.
LEMMA LeftSound ==
  ASSUME NEW v \in 0..Latest, NEW parts, parts \subseteq Part \cup {ForeignPart(t) : t \in UNION Range(Brought)},
         store = Left(v, parts)
  PROVE  /\ store \in StoreType /\ store.version = v /\ store.parts = parts /\ store.altered = {}
         /\ store.version >= Latest => LeasedRows
         /\ RowsCounted
<1>1. /\ store.version = v /\ store.parts = parts /\ store.altered = {} /\ store.recorded = 1..v
      /\ store.epoch = [r \in Row |-> IF v >= 10 THEN 1 ELSE 0] /\ store.checkpoints = [r \in Row |-> 1]
  BY DEF Left
<1>2. store \in StoreType
  <2>1. /\ v \in 0..(Latest + 1) /\ 1..v \in SUBSET (1..(Latest + 1)) /\ {} \in SUBSET (1..Latest)
        /\ [r \in Row |-> IF v >= 10 THEN 1 ELSE 0] \in [Row -> 0..2] /\ [r \in Row |-> 1] \in [Row -> 1..3]
        /\ parts \in SUBSET (Part \cup {ForeignPart(t) : t \in UNION Range(Brought)})
    BY DEF Latest
  <2> QED
    BY <2>1, Zenon DEF StoreType, Left
<1> QED
  BY <1>1, <1>2 DEF LeasedRows, RowsCounted, Latest

LEMMA NoForeignPart == \A t : ForeignPart(t) \notin Part
<1> SUFFICES ASSUME NEW t PROVE <<t, 0>> \notin Part
  BY DEF ForeignPart
<1>1. 0 \notin 1..Latest
  BY DEF Latest
<1> QED
  BY <1>1, PartsAre

LEMMA NamesUsed == \A v \in 1..Latest : \A t \in Brought[v] : t \in UNION Range(Brought)
<1>1. DOMAIN Brought = 1..Latest
  BY DEF Brought, Latest
<1> QED
  BY <1>1 DEF Range

LEMMA SchemaInvInit == SchemaInit => SchemaInv
<1> SUFFICES ASSUME SchemaInit PROVE SchemaInv
  OBVIOUS
<1> DEFINE Names == UNION Range(Brought)
           Starts == /\ store \in StoreType /\ (Sound => Closed(store.parts))
                     /\ (store.version >= Latest => LeasedRows) /\ RowsCounted
<1>0. \A v : Manifest(v) \subseteq Part \cup {ForeignPart(t) : t \in Names}
  BY ManifestsAre
<1>1. "tasks" \in Brought[1] /\ "messages" \in Brought[1] /\ "event_pump_dispatches" \in Brought[9]
  BY DEF Brought, Core, PumpTables
<1>2. ASSUME store \in Released PROVE Starts
  <2>1. PICK v \in 0..Latest : store = Left(v, Manifest(v))
    BY <1>2 DEF Released
  <2>2. \A w \in Creating : \A t \in Brought[w] : w <= v => <<t, w>> \in Manifest(v)
    BY PartsAre DEF Manifest, Creating
  <2>3. Closed(Manifest(v))
    BY <2>2, ManifestClosed DEF Latest
  <2> QED
    BY <1>0, <2>1, <2>3, LeftSound
<1>3. ASSUME store \in Prototypes PROVE Starts
  <2>1. CASE store = Left(0, Manifest(1))
    <3>1. \A w \in Creating : \A t \in Brought[w] : w <= 1 => <<t, w>> \in Manifest(1)
      BY PartsAre DEF Manifest, Creating
    <3>2. Closed(Manifest(1))
      BY <3>1, ManifestClosed DEF Latest
    <3> QED
      BY <1>0, <2>1, <3>2, LeftSound DEF Latest
  <2>2. CASE store = Left(0, {<<t, 1>> : t \in {"tasks", "messages"}})
    <3> DEFINE ps == {<<t, 1>> : t \in {"tasks", "messages"}}
    <3>1. ps \subseteq Manifest(1)
      BY <1>1, PartsAre DEF Manifest, Latest
    <3>2. ASSUME NEW w \in Creating, NEW t \in Brought[w], w <= 1, Exists(t, ps) PROVE <<t, w>> \in ps
      <4>1. w = 1
        BY <3>2 DEF Creating, Latest
      <4>2. t \in {"tasks", "messages"}
        BY <3>2 DEF Exists
      <4> QED
        BY <4>1, <4>2
    <3>3. ps \subseteq Part
      BY <3>1, ManifestsAre
    <3> HIDE DEF ps
    <3>4. Closed(ps)
      BY <3>1, <3>2, ManifestClosed DEF Latest
    <3>5. store = Left(0, ps)
      BY <2>2 DEF ps
    <3> QED
      BY <3>3, <3>4, <3>5, LeftSound DEF Latest
  <2> QED
    BY <1>3, <2>1, <2>2 DEF Prototypes
<1>4. ASSUME store \in Drifted PROVE Starts
  <2>1. CASE store = Left(0, {ForeignPart("tasks")})
    <3>1. {ForeignPart("tasks")} \subseteq Part \cup {ForeignPart(t) : t \in Names}
      BY <1>1, NamesUsed DEF Latest
    <3>2. ~Sound
      <4>1. store.parts = {ForeignPart("tasks")}
        BY <2>1 DEF Left
      <4> QED
        BY <4>1, NoForeignPart DEF Sound
    <3> QED
      BY <2>1, <3>1, <3>2, LeftSound DEF Latest
  <2>2. ASSUME NEW v \in {3, 9, 10}, NEW p \in Manifest(3) \cup {<<"event_pump_dispatches", 9>>},
               store = Without(v, p)
        PROVE  Starts
    <3> DEFINE rest == Manifest(v) \ {p}
               ps == IF \E q \in rest : q[1] = p[1] THEN rest ELSE rest \cup {ForeignPart(p[1])}
    <3>1. store = Left(v, ps)
      BY <2>2 DEF Without
    <3>2. p \in Part /\ p[1] \in Names
      <4>1. p \in Part
        BY <1>1, PartsAre, ManifestsAre DEF Latest
      <4> QED
        BY <4>1, PartsAre, NamesUsed
    <3>3. ps \subseteq Part \cup {ForeignPart(t) : t \in Names}
      BY <1>0, <3>2
    <3>4. ~(Manifest(v) \subseteq ps /\ ps \subseteq Part)
      <4>1. CASE p \in Manifest(v)
        BY <3>2, <4>1, NoForeignPart
      <4>2. CASE p \notin Manifest(v)
        <5>1. p = <<"event_pump_dispatches", 9>> /\ v < 9
          <6>1. p[2] <= v => p \in Manifest(v)
            BY <3>2 DEF Manifest
          <6>2. p \in Manifest(3) => p[2] <= 3
            BY DEF Manifest
          <6>3. p[2] \in Nat
            BY <3>2, PartsAre DEF Latest
          <6>4. ~(p \in Manifest(3))
            BY <4>2, <6>1, <6>2, <6>3
          <6> QED
            BY <4>2, <6>1, <6>4
        <5>2. ASSUME NEW q \in Manifest(v), q[1] = p[1] PROVE FALSE
          <6>1. q \in Part /\ q[2] <= v /\ q[2] \in 1..Latest /\ p[1] \in Brought[q[2]]
            BY <5>2, PartsAre DEF Manifest
          <6>2. 9 \in Creating /\ p[1] \in Brought[9]
            BY <1>1, <5>1 DEF Creating, OnlyColumns, Latest
          <6>3. 9 <= q[2]
            BY <6>1, <6>2, MadeOnce
          <6> QED
            BY <5>1, <6>1, <6>3 DEF Latest
        <5>3. ForeignPart(p[1]) \in ps
          BY <5>2
        <5> QED
          BY <5>3, NoForeignPart
      <4> QED
        BY <4>1, <4>2
    <3> HIDE DEF ps
    <3> QED
      BY <3>1, <3>3, <3>4, LeftSound DEF Sound, Latest
  <2>3. ASSUME NEW v \in {1, Latest}, store = [Left(Latest, Manifest(Latest)) EXCEPT !.altered = {v}]
        PROVE  Starts
    <3> DEFINE n == [r \in Row |-> 1]
               e == [r \in Row |-> IF Latest >= 10 THEN 1 ELSE 0]
    <3>1. store = [version |-> Latest, parts |-> Manifest(Latest), recorded |-> 1..Latest, altered |-> {v},
                   epoch |-> e, checkpoints |-> n]
      BY <2>3 DEF Left
    <3>2. /\ Latest \in 0..(Latest + 1) /\ 1..Latest \in SUBSET (1..(Latest + 1))
          /\ {v} \in SUBSET (1..Latest) /\ e \in [Row -> 0..2] /\ n \in [Row -> 1..3]
          /\ Manifest(Latest) \in SUBSET (Part \cup {ForeignPart(t) : t \in Names})
      BY <1>0 DEF Latest
    <3>3. store \in StoreType
      BY <3>1, <3>2, Zenon DEF StoreType
    <3>4. store.altered # {} /\ store.epoch = e /\ store.checkpoints = n
      BY <3>1
    <3> QED
      BY <3>3, <3>4 DEF Sound, LeasedRows, RowsCounted, Latest
  <2> QED
    BY <1>4, <2>1, <2>2, <2>3 DEF Drifted
<1>5. Starts
  BY <1>2, <1>3, <1>4 DEF SchemaInit
<1>6. \A o \in Opener : opener[o] = [at |-> "idle", seen |-> 0]
  BY DEF SchemaInit
<1>7. SchemaTypeOK
  BY <1>5 DEF SchemaTypeOK, SchemaInit, Latest
<1> QED
  BY <1>5, <1>6, <1>7 DEF SchemaInv, OpenerSound

LEMMA StoreFields ==
  ASSUME SchemaTypeOK
  PROVE  /\ store.version \in 0..(Latest + 1) /\ store.recorded \in SUBSET (1..(Latest + 1))
         /\ store.parts \in SUBSET (Part \cup {ForeignPart(t) : t \in UNION Range(Brought)})
         /\ store.altered \in SUBSET (1..Latest)
         /\ store.epoch \in [Row -> 0..2] /\ store.checkpoints \in [Row -> 1..3]
         /\ \A o \in Opener : /\ opener[o].at \in {"idle", "read", "open", "refused"}
                              /\ opener[o].seen \in 0..(Latest + 1)
         /\ opener \in [Opener -> [at : {"idle", "read", "open", "refused"}, seen : 0..(Latest + 1)]]
BY DEF SchemaTypeOK, StoreType

\* The transaction of a process that goes by a version of this release.
LEMMA MigratedStore ==
  ASSUME SchemaInv, NEW seen \in 0..Latest, seen = Latest => LeasedRows, Accepts(seen),
         store' = Migrated(seen)
  PROVE  /\ store' \in StoreType
         /\ store'.parts = Upgraded(store.parts, seen) /\ store'.version = Latest
         /\ store'.recorded = store.recorded \cup 1..Latest /\ store'.altered = store.altered
         /\ LeasedRows' /\ RowsCounted'
<1> DEFINE ps == Upgraded(store.parts, seen)
           recorded == store.recorded \cup 1..Latest
           epoch == IF seen < 10 THEN [r \in Row |-> IF store.epoch[r] = 0 THEN 1 ELSE store.epoch[r]]
                    ELSE store.epoch
           checkpoints == IF seen < 10 THEN [r \in Row |-> store.checkpoints[r]
                                               + (IF store.epoch[r] = 0 THEN 1 ELSE 0)]
                          ELSE store.checkpoints
<1>1. /\ store.version \in 0..(Latest + 1) /\ store.recorded \in SUBSET (1..(Latest + 1))
      /\ store.parts \in SUBSET (Part \cup {ForeignPart(t) : t \in UNION Range(Brought)})
      /\ store.altered \in SUBSET (1..Latest)
      /\ store.epoch \in [Row -> 0..2] /\ store.checkpoints \in [Row -> 1..3] /\ store \in StoreType
  BY StoreFields DEF SchemaInv, SchemaTypeOK
<1>2. \A r \in Row :
        /\ store.epoch[r] \in {0, 1} /\ store.checkpoints[r] \in {1, 2}
        /\ store.epoch[r] = 0 => store.checkpoints[r] = 1
  BY <1>1 DEF SchemaInv, RowsCounted
<1>3. store' = [version |-> Latest, parts |-> ps, recorded |-> recorded, altered |-> store.altered,
                epoch |-> epoch, checkpoints |-> checkpoints]
  BY <1>1 DEF Migrated, Backfilled, StoreType
<1>4. /\ ps \in SUBSET (Part \cup {ForeignPart(t) : t \in UNION Range(Brought)})
      /\ recorded \in SUBSET (1..(Latest + 1)) /\ Latest \in 0..(Latest + 1)
  BY <1>1, UpgradeAdds DEF Latest
<1>5. /\ \A r \in Row : epoch[r] = 1 /\ checkpoints[r] \in {1, 2}
      /\ epoch \in [Row -> 0..2] /\ checkpoints \in [Row -> 1..3]
  <2>1. CASE seen < 10
    BY <1>1, <1>2, <2>1
  <2>2. CASE ~(seen < 10)
    BY <1>1, <1>2, <2>2 DEF LeasedRows, Latest
  <2> QED
    BY <2>1, <2>2
<1> HIDE DEF ps, recorded, epoch, checkpoints
<1>6. store' \in StoreType
  <2>1. /\ Latest \in 0..(Latest + 1)
        /\ ps \in SUBSET (Part \cup {ForeignPart(t) : t \in UNION Range(Brought)})
        /\ recorded \in SUBSET (1..(Latest + 1)) /\ store.altered \in SUBSET (1..Latest)
        /\ epoch \in [Row -> 0..2] /\ checkpoints \in [Row -> 1..3]
    BY <1>1, <1>4, <1>5
  <2> QED
    BY <1>3, <2>1 DEF StoreType
<1>7. /\ store'.epoch = epoch /\ store'.checkpoints = checkpoints /\ store'.parts = ps
      /\ store'.version = Latest /\ store'.recorded = recorded /\ store'.altered = store.altered
  BY <1>3
<1>8. LeasedRows' /\ RowsCounted'
  BY <1>5, <1>7 DEF LeasedRows, RowsCounted
<1> QED
  BY <1>6, <1>7, <1>8 DEF ps, recorded

LEMMA CompatibleStays ==
  ASSUME NEW parts, Compatible(parts), NEW seen
  PROVE  Compatible(Upgraded(parts, seen))
BY UpgradeAdds DEF Compatible

\* A store with all parts has what each of its tables was made with.
LEMMA CompatibleClosed ==
  ASSUME NEW parts, Compatible(parts)
  PROVE  Closed(parts)
BY PartsAre, ManifestsAre DEF Compatible, Closed, Creating

LEMMA SchemaInvNext == SchemaInv /\ [SchemaNext]_schema_vars => SchemaInv'
<1> SUFFICES ASSUME SchemaInv, [SchemaNext]_schema_vars PROVE SchemaInv'
  OBVIOUS
<1>0. /\ store.version \in 0..(Latest + 1) /\ store.recorded \in SUBSET (1..(Latest + 1))
      /\ store.altered \in SUBSET (1..Latest) /\ store \in StoreType /\ Latest = 10
      /\ \A o \in Opener : /\ opener[o].at \in {"idle", "read", "open", "refused"}
                           /\ opener[o].seen \in 0..(Latest + 1)
      /\ opener \in [Opener -> [at : {"idle", "read", "open", "refused"}, seen : 0..(Latest + 1)]]
  BY StoreFields DEF SchemaInv, SchemaTypeOK, Latest
\* A step that leaves the store alone.
<1>1. ASSUME NEW o \in Opener, NEW p \in [at : {"idle", "read", "open", "refused"}, seen : 0..(Latest + 1)],
             opener' = [opener EXCEPT ![o] = p], store' = store, OpenerSound(o)'
      PROVE  SchemaInv'
  <2>1. opener'[o] = p /\ \A q \in Opener \ {o} : opener'[q] = opener[q]
    BY <1>0, <1>1
  <2>2. \A q \in Opener \ {o} : OpenerSound(q)'
    BY <1>1, <2>1 DEF SchemaInv, OpenerSound, Reached, LeasedRows
  <2>3. SchemaTypeOK'
    BY <1>0, <1>1 DEF SchemaTypeOK
  <2> QED
    BY <1>1, <2>2, <2>3 DEF SchemaInv, Sound, LeasedRows, RowsCounted
<1>2. ASSUME NEW o \in Opener, ReadVersion(o) PROVE SchemaInv'
  <2> DEFINE p == [at |-> IF store.version > Latest THEN "refused" ELSE "read", seen |-> store.version]
  <2>1. /\ opener' = [opener EXCEPT ![o] = p] /\ store' = store /\ opener'[o] = p
        /\ p \in [at : {"idle", "read", "open", "refused"}, seen : 0..(Latest + 1)]
    BY <1>0, <1>2 DEF ReadVersion
  <2>2. /\ p.seen = store.version
        /\ p.at = IF store.version > Latest THEN "refused" ELSE "read"
    OBVIOUS
  <2> HIDE DEF p
  <2>3. OpenerSound(o)'
    <3>1. CASE store.version > Latest
      BY <1>0, <2>1, <2>2, <3>1 DEF OpenerSound
    <3>2. CASE ~(store.version > Latest)
      BY <1>0, <2>1, <2>2, <3>2 DEF OpenerSound, SchemaInv, Reached, LeasedRows
    <3> QED
      BY <3>1, <3>2
  <2> QED
    BY <1>1, <2>1, <2>3
<1>3. ASSUME NEW o \in Opener, Close(o) PROVE SchemaInv'
  <2> DEFINE p == [at |-> "idle", seen |-> 0]
  <2>1. /\ opener' = [opener EXCEPT ![o] = p] /\ store' = store /\ opener'[o] = p
        /\ p \in [at : {"idle", "read", "open", "refused"}, seen : 0..(Latest + 1)]
    BY <1>0, <1>3 DEF Close
  <2>2. OpenerSound(o)'
    BY <2>1 DEF OpenerSound
  <2> HIDE DEF p
  <2> QED
    BY <1>1, <2>1, <2>2
<1>4. ASSUME NEW o \in Opener, Migrate(o) PROVE SchemaInv'
  <2> DEFINE seen == opener[o].seen
  <2>1. /\ opener[o].at = "read" /\ seen \in 0..Latest /\ (seen = Latest => LeasedRows)
        /\ Compatible(store.parts) \/ seen = Reached
    BY <1>0, <1>4 DEF Migrate, SchemaInv, OpenerSound
  <2>2. CASE Accepts(seen)
    <3>1. store' = Migrated(seen) /\ opener' = [opener EXCEPT ![o].at = "open"]
      BY <1>4, <2>2 DEF Migrate
    <3>2. /\ store' \in StoreType
          /\ store'.parts = Upgraded(store.parts, seen) /\ store'.version = Latest
          /\ store'.recorded = store.recorded \cup 1..Latest /\ store'.altered = store.altered
          /\ LeasedRows' /\ RowsCounted'
      BY <2>1, <2>2, <3>1, MigratedStore
    <3>3. Compatible(store'.parts) /\ store.altered = {}
      BY <2>2, <3>2 DEF Accepts
    <3>4. /\ opener'[o].at = "open" /\ \A q \in Opener \ {o} : opener'[q] = opener[q]
          /\ opener' \in [Opener -> [at : {"idle", "read", "open", "refused"}, seen : 0..(Latest + 1)]]
      BY <1>0, <3>1
    <3>5. \A q \in Opener : ~(opener[q].at = "refused" /\ opener[q].seen <= Latest)
      <4> SUFFICES ASSUME NEW q \in Opener, opener[q].at = "refused", opener[q].seen <= Latest PROVE FALSE
        OBVIOUS
      <4>1. opener[q].seen = Reached /\ ~Compatible(Upgraded(store.parts, Reached))
        BY <3>3 DEF SchemaInv, OpenerSound
      <4>2. ~Compatible(store.parts)
        BY <4>1, CompatibleStays
      <4>3. Compatible(Upgraded(store.parts, Reached))
        BY <2>1, <2>2, <4>2 DEF Accepts
      <4> QED
        BY <4>1, <4>3
    <3>6. ASSUME NEW q \in Opener PROVE OpenerSound(q)'
      <4>1. CASE q = o
        BY <3>2, <3>3, <3>4, <4>1 DEF OpenerSound
      <4>2. CASE q # o
        <5>1. opener'[q] = opener[q]
          BY <3>4, <4>2
        <5>2. OpenerSound(q)
          BY DEF SchemaInv
        <5> QED
          BY <3>2, <3>3, <3>5, <5>1, <5>2 DEF OpenerSound
      <4> QED
        BY <4>1, <4>2
    <3>7. Closed(store'.parts)
      BY <3>3, CompatibleClosed
    <3>8. SchemaTypeOK'
      BY <3>2, <3>4 DEF SchemaTypeOK
    <3> QED
      BY <3>2, <3>6, <3>7, <3>8 DEF SchemaInv
  <2>3. CASE ~Accepts(seen)
    <3>1. PICK p \in [at : {"idle", "read", "open", "refused"}, seen : 0..(Latest + 1)] :
            p = [at |-> "refused", seen |-> opener[o].seen]
      BY <1>0
    <3>2. opener' = [opener EXCEPT ![o] = p] /\ store' = store
      BY <1>0, <1>4, <2>3, <3>1 DEF Migrate
    <3>3. opener'[o] = p /\ p.at = "refused" /\ p.seen = seen
      BY <1>0, <3>1, <3>2
    <3>4. store.altered # {} \/ (seen = Reached /\ ~Compatible(Upgraded(store.parts, seen)))
      <4> SUFFICES ASSUME store.altered = {} PROVE seen = Reached /\ ~Compatible(Upgraded(store.parts, seen))
        OBVIOUS
      <4>1. ~Compatible(Upgraded(store.parts, seen))
        BY <2>3 DEF Accepts
      <4>2. ~Compatible(store.parts)
        BY <4>1, CompatibleStays
      <4> QED
        BY <2>1, <4>1, <4>2
    <3>5. OpenerSound(o)'
      BY <3>2, <3>3, <3>4 DEF OpenerSound, Reached
    <3> QED
      BY <1>1, <3>2, <3>5
  <2> QED
    BY <2>2, <2>3
<1>5. CASE NextRelease
  <2>1. /\ store.version = Latest /\ opener' = opener
        /\ store' = [store EXCEPT !.version = Latest + 1, !.recorded = @ \cup {Latest + 1}]
    BY <1>5 DEF NextRelease
  <2>2. /\ store'.version = Latest + 1 /\ store'.recorded = store.recorded \cup {Latest + 1}
        /\ store'.parts = store.parts /\ store'.altered = store.altered
        /\ store'.epoch = store.epoch /\ store'.checkpoints = store.checkpoints
    BY <1>0, <2>1 DEF StoreType
  <2>3. store' \in StoreType
    <3>1. \A s \in StoreType : [s EXCEPT !.version = Latest + 1] \in StoreType
      BY <1>0 DEF StoreType
    <3>2. \A s \in StoreType : [s EXCEPT !.recorded = @ \cup {Latest + 1}] \in StoreType
      BY <1>0 DEF StoreType
    <3> QED
      BY <1>0, <2>1, <3>1, <3>2
  <2>4. Reached' = Reached
    BY <1>0, <2>1, <2>2 DEF Reached
  <2>5. (LeasedRows' <=> LeasedRows) /\ RowsCounted'
    BY <2>2 DEF LeasedRows, RowsCounted, SchemaInv
  <2>6. \A o \in Opener : OpenerSound(o)'
    BY <2>1, <2>2, <2>4, <2>5 DEF SchemaInv, OpenerSound
  <2>7. Sound' => Sound
    BY <2>1, <2>2, ManifestsAre DEF Sound
  <2>8. SchemaTypeOK'
    BY <2>1, <2>3 DEF SchemaInv, SchemaTypeOK
  <2> QED
    BY <1>0, <2>1, <2>2, <2>5, <2>6, <2>7, <2>8 DEF SchemaInv
<1>6. CASE UNCHANGED schema_vars
  BY <1>6 DEF schema_vars, SchemaInv, SchemaTypeOK, OpenerSound, Reached, LeasedRows, RowsCounted, Sound
<1> QED
  BY <1>2, <1>3, <1>4, <1>5, <1>6 DEF SchemaNext

\* Processes of this release and of the next, in whatever order they read, migrate, close
\* or die: the store keeps its form, whoever has it open finds the whole schema, a store
\* that is what its version says is never refused, and a row is filled in once.
THEOREM StoresAreKept == SchemaSpec => []StoresKept
<1>1. SchemaInv => StoresKept
  <2> SUFFICES ASSUME SchemaInv PROVE StoresKept
    OBVIOUS
  <2>1. SchemaTypeOK
    BY DEF SchemaInv
  <2>2. OpenHasSchema
    BY DEF SchemaInv, OpenerSound, OpenHasSchema, Compatible
  <2>3. BackfilledOnce
    BY DEF SchemaInv, OpenerSound, RowsCounted, LeasedRows, BackfilledOnce
  <2>4. SoundStoresOpen
    <3> SUFFICES ASSUME NEW o \in Opener, opener[o].at = "refused", opener[o].seen <= Latest, Sound,
                        ~(store.version > Latest)
                 PROVE  FALSE
      BY <2>1, StoreFields DEF SoundStoresOpen, Latest
    <3>1. opener[o].seen = Reached /\ ~Compatible(Upgraded(store.parts, Reached))
      BY DEF SchemaInv, OpenerSound, Sound
    <3>2. Reached = store.version /\ Reached \in 0..Latest
      BY <2>1, StoreFields DEF Reached, Latest
    <3>3. Closed(store.parts)
      BY DEF SchemaInv
    <3> QED
      BY <3>1, <3>2, <3>3, SoundUpgrades DEF Sound
  <2> QED
    BY <2>1, <2>2, <2>3, <2>4 DEF StoresKept
<1> QED
  BY <1>1, SchemaInvInit, SchemaInvNext, PTL DEF SchemaSpec
=============================================================================
