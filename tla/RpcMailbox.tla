----------------------------- MODULE RpcMailbox -----------------------------
(***************************************************************************)
(* The mailbox over JSON-RPC: the SDK client of src/sdk/index.mjs, the pull  *)
(* harness of src/client/jsonrpc-client.mjs, the binding of                *)
(* src/bindings/jsonrpc.mjs and the coordinator's operation replay.         *)
(*                                                                         *)
(* A sender stores suggestions; receivers of one task, which share its       *)
(* credential, poll, claim, acknowledge or respond.  A request may be       *)
(* handled late or never, and its answer may be lost; the client gives up,   *)
(* or crashes, and calls again, under keys it derives from what it asks.    *)
(* A request handled successfully leaves a record in the transaction of its  *)
(* effect, and the same request gets the record's result again, until       *)
(* retention deletes it; a refused request leaves nothing.                  *)
(***************************************************************************)
EXTENDS Naturals, Sequences, SequencesExt, Dispositions

CONSTANTS
  Message,     \* message ids the sender uses
  Sender,      \* the client that sends
  Sdk, Pull,   \* receivers that use the SDK, and pull harnesses
  SendKey,     \* keys a caller names itself, with an envelope it keeps
  Choice,      \* what a receiver may decide
  TTL,         \* how long a suggestion lives (ttlMs)
  ClaimWindow,      \* how long a mailbox claim lasts (60 s in the code)
  MayRevoke,   \* whether the grant may be revoked here
  MaxClock,     \* bound on the clock
  MaxSend,     \* bound on the sender's requests
  MaxCall, MaxPull  \* bounds on the requests of one SDK, and of one pull harness

Receiver == Sdk \cup Pull
Client == {Sender} \cup Receiver

ASSUME MailboxAssumption ==
  /\ Choice \subseteq {"accepted", "rejected", "deferred"}
  /\ Sender \notin Receiver /\ MayRevoke \in BOOLEAN
  /\ {TTL, ClaimWindow, MaxClock, MaxSend, MaxCall, MaxPull} \subseteq Nat

VARIABLES
  clock,
  granted,  \* the relationship's grant is current
  sent,     \* each stored message: when its envelope was created, and whether its
            \* content was purged; or NoRow
  log,      \* the receiver decisions taken on each message: its disposition
  claim,    \* the row of each message in mailbox_claims, or NoRow
  replays,  \* the operation replay records
  wire,     \* the requests not handled yet
  client,   \* what each client is waiting for, and the item it works on
  told      \* the successes and conflicts clients were told of (history)

rpc_vars == <<clock, granted, sent, log, claim, replays, wire, client, told>>

NoRow == [none |-> TRUE]
Item == [m : Message, rev : 0..2, acked : BOOLEAN]

Bound(c) == IF c = Sender THEN MaxSend ELSE IF c \in Pull THEN MaxPull ELSE MaxCall
Scope(c) == IF c = Sender THEN "source" ELSE "receiver"

RpcTypeOK ==
  /\ clock \in 0..MaxClock /\ granted \in BOOLEAN
  /\ sent \in [Message -> {NoRow} \cup [created : 0..MaxClock, purged : BOOLEAN]]
  /\ \A m \in Message : log[m] \in Seq(DecisionStates) /\ (Len(log[m]) > 0 => sent[m] # NoRow)
  /\ \A m \in Message : claim[m] # NoRow =>
        claim[m].state \in {"claimed", "acknowledged"} /\ claim[m].rev <= Len(log[m])
  /\ \A c \in Client :
        /\ client[c].at \in {"idle", "send", "claim", "claimed", "ack", "respond"}
        /\ client[c].item \in {NoRow} \cup Item
        /\ client[c].calls \in 0..Bound(c)
  /\ \A q \in wire : q.by \in Client /\ q.id <= client[q.by].calls

(***************************************************************************)
(* The mailbox.                                                             *)
(***************************************************************************)
Revision(m) == Len(log[m])
Decision(m) == IF log[m] = <<>> THEN "pending" ELSE Last(log[m])
Expires(m)  == sent[m].created + TTL
Unexpired(m)    == clock < Expires(m)
StillOpen(m) == Decision(m) \in UndecidedStates

ClaimState(m) == IF claim[m] = NoRow THEN "none" ELSE claim[m].state
LiveClaim(m)  == ClaimState(m) = "claimed" /\ clock < claim[m].expires

\* listPending: what a receiver's poll answers with.
Listed(m) == sent[m] # NoRow /\ StillOpen(m) /\ Unexpired(m) /\ granted

ListedItem(m) ==
  [m |-> m, rev |-> Revision(m), acked |-> ClaimState(m) = "acknowledged"]

(***************************************************************************)
(* What a request asks, and the conditions under which it is done.           *)
(***************************************************************************)
ClaimAllowed(p) ==
  /\ granted /\ Unexpired(p.m)
  /\ p.rev = Revision(p.m) /\ StillOpen(p.m)
  /\ ClaimState(p.m) # "acknowledged"

RespondAllowed(p) ==
  /\ p.decision \in {"accepted", "deferred"} => granted
  /\ Unexpired(p.m)
  /\ p.rev = Revision(p.m)
  /\ DecisionMay(Decision(p.m), p.decision)

\* A random token is modelled by the request that made it.
HoldsClaim(p) ==
  ClaimState(p.m) = "claimed" /\ claim[p.m].token = p.token /\ claim[p.m].rev = p.rev

AckAllowed(p) == HoldsClaim(p) /\ LiveClaim(p.m) /\ RespondAllowed(p)

\* submit: the stored message again, or a new one.
SendAllowed(p) ==
  IF sent[p.m] # NoRow THEN sent[p.m].created = p.created
  ELSE clock < p.created + TTL /\ granted

Allowed(q) ==
  \/ q.method = "send"    /\ SendAllowed(q.params)
  \/ q.method = "claim"   /\ ClaimAllowed(q.params)
  \/ q.method = "ack"     /\ AckAllowed(q.params)
  \/ q.method = "respond" /\ RespondAllowed(q.params)

\* The codes that matter to the client (rpcError).
Code(q) ==
  IF q.method = "ack" /\ HoldsClaim(q.params) /\ ~LiveClaim(q.params.m) THEN "claim-expired"
  ELSE IF q.method = "send" /\ sent[q.params.m] # NoRow THEN "conflict"
  ELSE "refused"

(***************************************************************************)
(* What the coordinator's operation does and returns.                       *)
(***************************************************************************)

Submits(p) ==
  /\ sent' = IF sent[p.m] # NoRow THEN sent
             ELSE [sent EXCEPT ![p.m] = [created |-> p.created, purged |-> FALSE]]
  /\ log' = IF sent[p.m] # NoRow THEN log ELSE [log EXCEPT ![p.m] = <<>>]
  /\ claim' = claim

Sooner(a, b) == IF a < b THEN a ELSE b

ClaimPending(q) ==
  /\ claim' = IF LiveClaim(q.params.m) THEN claim
              ELSE [claim EXCEPT ![q.params.m] =
                      [state |-> "claimed", token |-> <<q.by, q.id>>, rev |-> q.params.rev,
                       expires |-> Sooner(Expires(q.params.m), clock + ClaimWindow)]]
  /\ UNCHANGED <<sent, log>>

Respond(p) == log' = [log EXCEPT ![p.m] = Append(@, p.decision)] /\ UNCHANGED sent

Operation(q) ==
  \/ q.method = "send"    /\ Submits(q.params)
  \/ q.method = "claim"   /\ ClaimPending(q)
  \/ q.method = "ack"     /\ Respond(q.params)
                          /\ claim' = [claim EXCEPT ![q.params.m].state = "acknowledged"]
  \/ q.method = "respond" /\ Respond(q.params) /\ UNCHANGED claim

\* A send of a stored message returns the message as it is stored.
HasContent(m) == IF sent[m] = NoRow THEN FALSE ELSE ~sent[m].purged

Value(q) ==
  CASE q.method = "claim" ->
         [token |-> IF LiveClaim(q.params.m) THEN claim[q.params.m].token ELSE <<q.by, q.id>>]
    [] q.method = "send" -> [rev |-> Revision(q.params.m), content |-> HasContent(q.params.m)]
    [] OTHER             -> [rev |-> Revision(q.params.m) + 1, content |-> FALSE]

\* The time is kept of the records retention deletes.
Record(q) ==
  [scope |-> Scope(q.by), method |-> q.method, key |-> q.key,
   params |-> q.params, value |-> Value(q), at |-> IF q.method = "send" THEN clock ELSE 0]

\* The record under the key of a request.
Recorded(q) ==
  {r \in replays : r.scope = Scope(q.by) /\ r.method = q.method /\ r.key = q.key}

(***************************************************************************)
(* The answer reaches the client if it still waits for it; a lost answer is  *)
(* one the client gave up waiting for before.  A claim is followed by its    *)
(* acknowledgement; any other answer ends the call.                         *)
(***************************************************************************)
Waits(q) == client[q.by].at = q.method /\ client[q.by].calls = q.id

Told(q, code, rev, content, replay) ==
  told' = told \cup {[by |-> q.by, m |-> q.params.m, ask |-> client[q.by].decision,
                      method |-> q.method, code |-> code, rev |-> rev, content |-> content,
                      replay |-> replay]}

\* The call is over; the client keeps the item it polled.
Ends(c) ==
  client' = [client EXCEPT ![c].at = "idle", ![c].token = <<>>, ![c].decision = "none"]

Resolve(q, value, replay) ==
  IF q.method = "claim"
    THEN /\ client' = [client EXCEPT ![q.by].at = "claimed", ![q.by].token = value.token]
         /\ told' = told
    ELSE /\ Ends(q.by)
         /\ Told(q, "ok", value.rev, value.content, replay)

Fails(q, code) ==
  /\ Ends(q.by)
  /\ IF code = "conflict"
     THEN Told(q, code, 0, FALSE, FALSE)
     ELSE told' = told

Lost == UNCHANGED <<client, told>>

Answers(q, value, replay) == IF Waits(q) THEN Resolve(q, value, replay) ELSE Lost
Rejects(q, code) == IF Waits(q) THEN Fails(q, code) ELSE Lost

(***************************************************************************)
(* executeIdempotent: one immediate transaction.                            *)
(***************************************************************************)
Conflicts(q) ==
  /\ \E r \in Recorded(q) : r.params # q.params
  /\ Rejects(q, "conflict")
  /\ UNCHANGED <<sent, log, claim, replays>>

\* Mutant: the digest of the request is not compared.
Replays_Unchecked(q) ==
  /\ \E r \in Recorded(q) : Answers(q, r.value, TRUE)
  /\ UNCHANGED <<sent, log, claim, replays>>

Replays(q) ==
  /\ \E r \in Recorded(q) : r.params = q.params /\ Answers(q, r.value, TRUE)
  /\ UNCHANGED <<sent, log, claim, replays>>

Executes(q) ==
  /\ Recorded(q) = {} /\ Allowed(q)
  /\ Operation(q)
  /\ replays' = replays \cup {Record(q)}
  /\ Answers(q, Value(q), FALSE)

Refuses(q) ==
  /\ Recorded(q) = {} /\ ~Allowed(q)
  /\ Rejects(q, Code(q))
  /\ UNCHANGED <<sent, log, claim, replays>>

Handle(q) ==
  /\ wire' = wire \ {q}
  /\ Conflicts(q) \/ Replays(q) \/ Executes(q) \/ Refuses(q)
  /\ UNCHANGED <<clock, granted>>

(***************************************************************************)
(* The clients' calls and the keys they make.  The number of the call only   *)
(* correlates an answer with its request.                                   *)
(***************************************************************************)
Ask(c, method, key, params) ==
  /\ client[c].calls < Bound(c)
  /\ wire' = wire \cup {[by |-> c, id |-> client[c].calls + 1,
                         method |-> method, key |-> key, params |-> params]}

Waiting(c, method, decision) ==
  client' = [client EXCEPT ![c].at = method, ![c].calls = @ + 1, ![c].decision = decision]

Elsewhere == UNCHANGED <<clock, granted, sent, log, claim, replays, told>>

\* sendSuggestion: the envelope has the time of the call.
SendSuggestion(m) ==
  /\ client[Sender].at = "idle"
  /\ Ask(Sender, "send", <<"send", m>>, [m |-> m, created |-> clock])
  /\ Waiting(Sender, "send", "none")
  /\ Elsewhere

\* The JSON-RPC client's call: any envelope made so far, any key.
SendEnvelope(m, key, created) ==
  /\ client[Sender].at = "idle" /\ created <= clock
  /\ Ask(Sender, "send", <<"key", key>>, [m |-> m, created |-> created])
  /\ Waiting(Sender, "send", "none")
  /\ Elsewhere

\* A client that may ask nothing more needs no poll.
Poll(c, m) ==
  /\ client[c].at = "idle" /\ client[c].calls < Bound(c) /\ Listed(m)
  /\ client' = [client EXCEPT ![c].item = ListedItem(m)]
  /\ Elsewhere /\ UNCHANGED wire

\* Mutant: the SDK's key names the message only.
ClaimKey_NoRevision(c, item) == <<"claim", item.m>>

ClaimKey(c, item) ==
  IF c \in Sdk THEN <<"claim", item.m, item.rev>> ELSE <<"claim", item.m>>

AckKey(c, item, decision) ==
  IF c \in Sdk THEN <<"ack", item.m, decision>> ELSE <<"ack", item.m>>

RespondKey(c, item, decision) ==
  IF c \in Sdk THEN <<"respond", item.m, item.rev, decision>> ELSE <<"respond", item.m, decision>>

AsksRespond(c, decision) ==
  LET item == client[c].item IN
  /\ Ask(c, "respond", RespondKey(c, item, decision),
         [m |-> item.m, rev |-> item.rev, decision |-> decision])
  /\ Waiting(c, "respond", decision)

\* decide, decideNext: the claim first, unless the SDK sees it acknowledged.
ClientDecides(c, decision) ==
  LET item == client[c].item IN
  /\ client[c].at = "idle" /\ item # NoRow
  /\ IF c \in Sdk /\ item.acked THEN AsksRespond(c, decision)
     ELSE /\ Ask(c, "claim", ClaimKey(c, item), [m |-> item.m, rev |-> item.rev])
          /\ Waiting(c, "claim", decision)
  /\ Elsewhere

\* PullMailboxHarness.respond
RespondDirectly(c, decision) ==
  /\ c \in Pull /\ client[c].at = "idle" /\ client[c].item # NoRow
  /\ AsksRespond(c, decision)
  /\ Elsewhere

Acknowledge(c) ==
  LET item == client[c].item IN
  /\ client[c].at = "claimed"
  /\ Ask(c, "ack", AckKey(c, item, client[c].decision),
         [m |-> item.m, rev |-> item.rev, token |-> client[c].token, decision |-> client[c].decision])
  /\ Waiting(c, "ack", client[c].decision)
  /\ Elsewhere

\* A timeout or a crash of the client; what it sent may still be handled.
GiveUp(c) ==
  /\ client[c].at # "idle"
  /\ Ends(c)
  /\ Elsewhere /\ UNCHANGED wire

(***************************************************************************)
(* Time, the control plane and maintenance.                                 *)
(***************************************************************************)
RpcTick == clock < MaxClock /\ clock' = clock + 1
        /\ UNCHANGED <<granted, sent, log, claim, replays, wire, client, told>>

Revoke == MayRevoke /\ granted /\ granted' = FALSE
          /\ UNCHANGED <<clock, sent, log, claim, replays, wire, client, told>>

ExpireDue ==
  LET due == {m \in Message : sent[m] # NoRow /\ StillOpen(m) /\ ~Unexpired(m)} IN
  /\ due # {}
  /\ log' = [m \in Message |-> IF m \in due THEN Append(log[m], "expired") ELSE log[m]]
  /\ UNCHANGED <<clock, granted, sent, claim, replays, wire, client, told>>

\* Contents (with their claims) and the records of sends, both older than the cutoff.
PurgeSensitiveContent(cutoff) ==
  LET due == {m \in Message : HasContent(m) /\ Expires(m) <= cutoff} IN
  /\ cutoff <= clock
  /\ sent' = [m \in Message |-> IF m \in due THEN [sent[m] EXCEPT !.purged = TRUE] ELSE sent[m]]
  /\ claim' = [m \in Message |-> IF m \in due THEN NoRow ELSE claim[m]]
  /\ replays' = {r \in replays : ~(r.method = "send" /\ r.at <= cutoff)}
  /\ UNCHANGED <<clock, granted, log, wire, client, told>>

(***************************************************************************)
(* The specification.                                                       *)
(***************************************************************************)
RpcInit ==
  /\ clock = 0 /\ granted = TRUE
  /\ sent = [m \in Message |-> NoRow]
  /\ log = [m \in Message |-> <<>>]
  /\ claim = [m \in Message |-> NoRow]
  /\ replays = {} /\ wire = {} /\ told = {}
  /\ client = [c \in Client |->
       [at |-> "idle", item |-> NoRow, decision |-> "none", token |-> <<>>, calls |-> 0]]

RpcNext ==
  \/ \E q \in wire : Handle(q)
  \/ \E m \in Message : SendSuggestion(m)
  \/ \E m \in Message, key \in SendKey, created \in 0..MaxClock : SendEnvelope(m, key, created)
  \/ \E c \in Receiver :
        \/ \E m \in Message : Poll(c, m)
        \/ \E decision \in Choice : ClientDecides(c, decision) \/ RespondDirectly(c, decision)
        \/ Acknowledge(c)
  \/ \E c \in Client : GiveUp(c)
  \/ RpcTick \/ Revoke \/ ExpireDue
  \/ \E cutoff \in 0..MaxClock : PurgeSensitiveContent(cutoff)

RpcSpec == RpcInit /\ [][RpcNext]_rpc_vars

(***************************************************************************)
(* Properties.                                                              *)
(***************************************************************************)
Decides(t) == t.method \in {"ack", "respond"} /\ t.code = "ok"

\* What a receiver is told was recorded is what it asked for, at the revision it is
\* told, whichever of its requests, or of another receiver's, was carried out.
ToldIsTrue ==
  \A t \in told : Decides(t) => t.rev <= Len(log[t.m]) /\ log[t.m][t.rev] = t.ask

\* However many receivers share the credential, and so the claim and its token, and
\* however often they ask again, at most one is told of an acceptance that is not a
\* replay: the others can know that they are not the one to act.
AcceptedOnce ==
  \A s, t \in told :
     (Decides(s) /\ Decides(t) /\ s.m = t.m /\ s.ask = "accepted" /\ t.ask = "accepted"
        /\ ~s.replay /\ ~t.replay) => s.by = t.by

\* What receivers are told can be relied on: both of the above.
AnswersAreTrue == RpcTypeOK /\ ToldIsTrue /\ AcceptedOnce

\* The keys the SDK makes for decide fit what it asks, but for the acknowledgement's, which
\* names no revision.  So an SDK is told of a conflict only when somebody who answers
\* without a claim deferred the message meanwhile and another SDK acknowledged, after
\* that, what this one asks: its decision stands recorded, though not by its request.
SdkConflictsAreLate ==
  \A t \in told : t.by \in Sdk /\ t.code = "conflict" =>
    /\ t.method = "ack" /\ Len(log[t.m]) >= 2
    /\ log[t.m][1] = "deferred" /\ log[t.m][2] = t.ask

(***************************************************************************)
(* What the repository says, and the code does not do.                      *)
(***************************************************************************)

\* bindings/jsonrpc.mjs tells the client that an expired claim may be tried again
\* (RETRYABLE_CODES): a claim answered for a message that can still be decided is live.
ClaimAnsweredIsLive ==
  [][\A c \in Receiver :
       (client[c].at = "claim" /\ client'[c].at = "claimed" /\ Listed(client[c].item.m)
          /\ Revision(client[c].item.m) = client[c].item.rev
          /\ ClaimState(client[c].item.m) # "acknowledged")
       => claim'[client[c].item.m] # NoRow /\ clock < claim'[client[c].item.m].expires]_rpc_vars

\* sqlite-storage-contract.md: after a purge no original content is returned.
PurgedContentStaysGone ==
  [][\A t \in told' \ told : t.content => ~sent[t.m].purged]_rpc_vars

\* jsonrpc-binding.md: the same key with other params is a conflict, so a client makes a
\* key that tells its requests apart.  The SDK's acknowledgement of a stale revision has
\* the key of the current one.
SdkNeverConflicts == \A t \in told : t.by \in Sdk => t.code # "conflict"

\* delivery-semantics.md: senders may retry the same messageId.
SenderMayRetry == \A t \in told : t.method = "send" => t.code # "conflict"
=============================================================================
