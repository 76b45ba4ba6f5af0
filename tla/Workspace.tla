------------------------------ MODULE Workspace ------------------------------
(***************************************************************************)
(* The local workspace: sessions of several harnesses, each in a process of  *)
(* its own, that share one directory (src/workspace/local-workspace.mjs,     *)
(* mcp-server.mjs, src/integrations/pi-extension.mjs).                       *)
(*                                                                         *)
(* The members, the routes, the book of sends and the connections are rows   *)
(* of one database.  What a session has discovered is in its process: the    *)
(* variables discovered and discoveryMessageId of one tools() closure, which *)
(* every call of the session reads and writes.  A discovery waits between    *)
(* the summaries it reads; an MCP server runs one call at a time, the Pi     *)
(* extension leaves it to its host.  The coordinator is here as far as a     *)
(* message needs the current grant of its route; claims are RpcMailbox's.    *)
(***************************************************************************)
EXTENDS Naturals, FiniteSets, Sequences, SequencesExt

CONSTANTS
  Name,       \* session names
  Proc,       \* pids
  Mcp,        \* those of them that are MCP servers, which run one call at a time
  Budget,     \* sends a source has in a window: 10
  Window,     \* the window: 10 minutes
  Ttl,        \* lifetime of a message: 30 minutes
  Margin,     \* a grant this close to its end is renewed: a day
  GrantLife,  \* lifetime of a grant: 7 days
  Page,       \* rows an inbox looks at: 100
  MaxMembers, \* members of a workspace: 20
  MaxId, MaxGoal, MaxTime  \* bounds on the message ids, the goals and the clock

Nothing == [none |-> TRUE]

ASSUME WorkspaceAssumption ==
  /\ Mcp \subseteq Proc /\ Nothing \notin Proc
  /\ {Budget, Page, MaxMembers, MaxId, MaxTime} \subseteq Nat
  /\ {MaxGoal, Window, Ttl, Margin, GrantLife} \subseteq Nat \ {0}
  /\ Ttl <= Margin /\ Margin < GrantLife

VARIABLES
  now,
  member,  \* workspace_members: the goal, by its number, and whether muted
  route,   \* workspace_routes, and the grants they hold
  summary, \* the goal in the summary of each route
  book,    \* workspace_sends
  mail,    \* messages of the coordinator, in the order of their sequence
  conn,    \* workspace_connections: the pid in the row of each name
  proc,    \* the live sessions: their name, closure and calls
  nextId   \* the next message id: id("msg") is random and never repeats

ws_vars == <<now, member, route, summary, book, mail, conn, proc, nextId>>

Id == 1..MaxId
Time == 0..MaxTime
Goals == UNION {[peers -> 1..MaxGoal] : peers \in SUBSET Name}

\* A completed discovery: the goals it returned, and those published when it began.
Discovery == [goals : Goals, since : Goals]
\* A discovery that waits: the summaries it has yet to read besides.
Discovering == [id : Id, left : SUBSET Name, goals : Goals, since : Goals]

WsTypeOK ==
  /\ now \in Time
  /\ member \in [Name -> {Nothing} \cup [goal : 1..MaxGoal, muted : BOOLEAN]]
  /\ \A r \in Name \X Name : route[r] # Nothing =>
        route[r].version \in Nat \ {0} /\ route[r].expires \in Nat /\ summary[r] # 0
  /\ summary \in [Name \X Name -> 0..MaxGoal]
  /\ book \in [Id -> {Nothing} \cup [source : Name, target : Name, at : Time]]
  /\ \A k \in DOMAIN mail :
        /\ mail[k].id \in Id
        /\ mail[k].decision \in {"pending", "deferred", "decided"}
  /\ conn \in [Name -> {Nothing} \cup Proc]
  /\ \A p \in Proc : proc[p] # Nothing =>
        /\ proc[p].name \in Name
        /\ proc[p].discovered \in {Nothing} \cup Discovery
        /\ proc[p].id \in 0..MaxId
        /\ proc[p].calls \subseteq Discovering
        /\ proc[p].sending = Nothing \/ proc[p].sending.id \in Id
  /\ nextId \in 1..(MaxId + 1)

(***************************************************************************)
(* Members.                                                                 *)
(***************************************************************************)
Joined == {n \in Name : member[n] # Nothing}
Muted(n) == member[n].muted

Join(n) ==
  /\ n \notin Joined /\ Cardinality(Joined) < MaxMembers
  /\ member' = [member EXCEPT ![n] = [goal |-> 1, muted |-> FALSE]]
  /\ UNCHANGED <<now, route, summary, book, mail, conn, proc, nextId>>

Mute(n, muted) ==
  /\ n \in Joined
  /\ member' = [member EXCEPT ![n].muted = muted]
  /\ UNCHANGED <<now, route, summary, book, mail, conn, proc, nextId>>

\* checkpoint, of which the peers see the goal.
Checkpoint(n) ==
  /\ n \in Joined /\ member[n].goal < MaxGoal
  /\ member' = [member EXCEPT ![n].goal = @ + 1]
  /\ UNCHANGED <<now, route, summary, book, mail, conn, proc, nextId>>

(***************************************************************************)
(* Connections.                                                             *)
(***************************************************************************)
\* process.kill(pid, 0): some process has the pid, whatever it is.
Alive(p) == proc[p] # Nothing

\* Mutant: whether the process of the row lives is not asked.
Connectable_Anyway(p, n) == TRUE

\* The process of the row is dead; the one that asks is alive, so that a row with its
\* own pid, left by a dead process, keeps it out.
Connectable(p, n) == IF conn[n] = Nothing THEN TRUE ELSE conn[n] # p /\ ~Alive(conn[n])

Closure(n) == [name |-> n, discovered |-> Nothing, id |-> 0, calls |-> {}, sending |-> Nothing]

\* A process that starts as n; one that may not connect exits.
Connect(p, n) ==
  /\ ~Alive(p) /\ n \in Joined
  /\ Connectable(p, n)
  /\ conn' = [conn EXCEPT ![n] = p]
  /\ proc' = [proc EXCEPT ![p] = Closure(n)]
  /\ UNCHANGED <<now, member, route, summary, book, mail, nextId>>

\* Between the two transactions of a send a process does nothing else, but it may crash.
Runs(p) == Alive(p) /\ proc[p].sending = Nothing

Disconnect(p) ==
  /\ Runs(p)
  /\ conn' = [conn EXCEPT ![proc[p].name] = IF @ = p THEN Nothing ELSE @]
  /\ proc' = [proc EXCEPT ![p] = Nothing]
  /\ UNCHANGED <<now, member, route, summary, book, mail, nextId>>

Crash(p) ==
  /\ Alive(p)
  /\ proc' = [proc EXCEPT ![p] = Nothing]
  /\ UNCHANGED <<now, member, route, summary, book, mail, conn, nextId>>

\* The Pi extension makes new tools for every turn.
NewTurn(p) ==
  /\ p \notin Mcp /\ Runs(p)
  /\ proc' = [proc EXCEPT ![p] = Closure(proc[p].name)]
  /\ UNCHANGED <<now, member, route, summary, book, mail, conn, nextId>>

(***************************************************************************)
(* threadmesh_peers.                                                        *)
(***************************************************************************)

MayStart(p) == p \in Mcp => proc[p].calls = {}

Peers(n) == {m \in Joined \ {n} : ~Muted(m)}

Published(s, t) == member[t].goal

Renewed(r) ==
  IF route[r] = Nothing THEN [version |-> 1, expires |-> now + GrantLife]
  ELSE IF route[r].expires < now + Margin
    THEN [version |-> route[r].version + 1, expires |-> now + GrantLife]
  ELSE route[r]

\* The id changes at once, the bridge when the discovery is complete.  Routes and
\* summaries of all peers are one transaction.
StartDiscover(p) ==
  LET n == proc[p].name
      peers == Peers(n)
      call == [id |-> nextId, left |-> peers, goals |-> << >>,
               since |-> [t \in peers |-> member[t].goal]] IN
  /\ Runs(p) /\ MayStart(p) /\ nextId <= MaxId
  /\ nextId' = nextId + 1
  /\ IF Muted(n)
     THEN /\ proc' = [proc EXCEPT ![p].id = nextId]
          /\ UNCHANGED <<route, summary>>
     ELSE /\ proc' = [proc EXCEPT ![p].id = nextId, ![p].calls = @ \cup {call}]
          /\ route' = [r \in Name \X Name |->
               IF r[1] = n /\ r[2] \in peers THEN Renewed(r) ELSE route[r]]
          /\ summary' = [r \in Name \X Name |->
               IF r[1] = n /\ r[2] \in peers THEN Published(n, r[2]) ELSE summary[r]]
  /\ UNCHANGED <<now, member, book, mail, conn>>

Granted(s, t) == IF route[<<s, t>>] = Nothing THEN FALSE ELSE now < route[<<s, t>>].expires

\* One summary is read; if the grant has run out the discovery fails.
ReadPeer(p, call, t) ==
  LET n == proc[p].name
      read == [call EXCEPT !.left = @ \ {t},
                           !.goals = [m \in DOMAIN @ \cup {t} |->
                             IF m = t THEN summary[<<n, t>>] ELSE call.goals[m]]] IN
  /\ Runs(p)
  /\ proc' = [proc EXCEPT ![p].calls =
       IF Granted(n, t) THEN (@ \ {call}) \cup {read} ELSE @ \ {call}]
  /\ UNCHANGED <<now, member, route, summary, book, mail, conn, nextId>>

Discovered(p, call) ==
  /\ Runs(p) /\ call.left = {}
  /\ proc' = [proc EXCEPT
       ![p].calls = @ \ {call},
       ![p].discovered = IF call.goals = << >> THEN Nothing
                         ELSE [goals |-> call.goals, since |-> call.since]]
  /\ UNCHANGED <<now, member, route, summary, book, mail, conn, nextId>>

(***************************************************************************)
(* threadmesh_send.                                                         *)
(***************************************************************************)
Recent(n) ==
  {i \in Id : IF book[i] = Nothing THEN FALSE ELSE book[i].source = n /\ book[i].at + Window > now}

\* Mutant: one more.
WithinBudget_Loose(p) == Cardinality(Recent(proc[p].name)) <= Budget

WithinBudget(p) == Cardinality(Recent(proc[p].name)) < Budget

BookedId(p) == proc[p].id

\* The budget is reserved before the bridge is called.  An id that is in the book
\* already fails the insert, and the discovery stays.
Book(p, to) ==
  LET n == proc[p].name IN
  /\ Runs(p) /\ MayStart(p)
  /\ IF proc[p].discovered = Nothing THEN FALSE ELSE to \in DOMAIN proc[p].discovered.goals
  /\ ~Muted(n) /\ ~Muted(to)
  /\ WithinBudget(p)
  /\ book[BookedId(p)] = Nothing
  /\ book' = [book EXCEPT ![BookedId(p)] = [source |-> n, target |-> to, at |-> now]]
  /\ proc' = [proc EXCEPT ![p].discovered = Nothing,
                          ![p].sending = [id |-> BookedId(p), target |-> to]]
  /\ UNCHANGED <<now, member, route, summary, mail, conn, nextId>>

\* The bridge asks createMessageId, which reads the variable, and the coordinator
\* stores the message under the current grant or refuses it.
Submit(p) ==
  LET n == proc[p].name
      to == proc[p].sending.target IN
  /\ IF Alive(p) THEN proc[p].sending # Nothing ELSE FALSE
  /\ mail' = IF Granted(n, to)
       THEN Append(mail, [id |-> proc[p].id, source |-> n, target |-> to,
                          version |-> route[<<n, to>>].version, expires |-> now + Ttl,
                          decision |-> "pending"])
       ELSE mail
  /\ proc' = [proc EXCEPT ![p].sending = Nothing]
  /\ UNCHANGED <<now, member, route, summary, book, conn, nextId>>

(***************************************************************************)
(* threadmesh_inbox.                                                        *)
(***************************************************************************)
Undecided(m) == m.decision \in {"pending", "deferred"}

Live(m) == Undecided(m) /\ now < m.expires

\* The message's own grant must be the current one.
Authorized(m) ==
  Granted(m.source, m.target) /\ route[<<m.source, m.target>>].version = m.version

\* The first rows that are not decided, and of them those that may be seen.
Rows(n) ==
  LET all == SelectSeq(mail, LAMBDA m : m.target = n /\ Undecided(m)) IN
  Range(SubSeq(all, 1, IF Len(all) < Page THEN Len(all) ELSE Page))

Inbox(n) == IF Muted(n) THEN {} ELSE {m \in Rows(n) : Live(m) /\ Authorized(m)}

\* An acceptance and a rejection are alike to the inbox: the message was decided.
Decide(p, k, decision) ==
  /\ Runs(p) /\ MayStart(p)
  /\ mail[k] \in Inbox(proc[p].name)
  /\ mail[k].decision # decision
  /\ mail' = [mail EXCEPT ![k].decision = decision]
  /\ UNCHANGED <<now, member, route, summary, book, conn, proc, nextId>>

(***************************************************************************)
(* The specification.                                                       *)
(***************************************************************************)
Tick ==
  /\ now < MaxTime
  /\ now' = now + 1
  /\ UNCHANGED <<member, route, summary, book, mail, conn, proc, nextId>>

WsInit ==
  /\ now = 0
  /\ member = [n \in Name |-> Nothing]
  /\ route = [r \in Name \X Name |-> Nothing]
  /\ summary = [r \in Name \X Name |-> 0]
  /\ book = [i \in Id |-> Nothing]
  /\ mail = << >>
  /\ conn = [n \in Name |-> Nothing]
  /\ proc = [p \in Proc |-> Nothing]
  /\ nextId = 1

WsNext ==
  \/ Tick
  \/ \E n \in Name : Join(n) \/ Checkpoint(n) \/ (\E muted \in BOOLEAN : Mute(n, muted))
  \/ \E p \in Proc :
       \/ \E n \in Name : Connect(p, n)
       \/ Disconnect(p) \/ Crash(p) \/ NewTurn(p)
       \/ StartDiscover(p) \/ Submit(p)
       \/ Alive(p) /\ \E call \in proc[p].calls :
            Discovered(p, call) \/ (\E t \in call.left : ReadPeer(p, call, t))
       \/ \E to \in Name : Book(p, to)
       \/ \E k \in DOMAIN mail, decision \in {"deferred", "decided"} :
            Decide(p, k, decision)

WsSpec == WsInit /\ [][WsNext]_ws_vars

(***************************************************************************)
(* Properties.                                                              *)
(***************************************************************************)

\* What a session sent is in the book under the message's id, with its source and its
\* target, although the id is drawn by the discovery, the row is written by the send and
\* the bridge reads the id once more, and although a process may crash at any of them:
\* receipts and the budget are computed from the book.
BookedFirst ==
  \A k \in DOMAIN mail :
    LET row == book[mail[k].id] IN
    IF row = Nothing THEN FALSE ELSE row.source = mail[k].source /\ row.target = mail[k].target

\* A source has its budget across its processes, crashes and restarts: no more of its
\* messages reach the coordinator than the window allows.
SendsAreBounded ==
  \A n \in Name, at \in 0..now :
    Cardinality({k \in DOMAIN mail : mail[k].source = n
                   /\ book[mail[k].id].at <= at /\ book[mail[k].id].at + Window > at}) <= Budget

\* A completed discovery allows a send: the id it would go under is not in the book.
\* Without the queue of the MCP server it is not so.
FreshId ==
  \A p \in Mcp :
    IF proc[p] = Nothing THEN TRUE
    ELSE proc[p].discovered # Nothing => book[proc[p].id] = Nothing

\* A discovery returns goals that are no older than it is, though the summaries it reads
\* outlive it and another discovery of the session publishes them too.
FreshGoals ==
  \A p \in Proc :
    IF proc[p] = Nothing THEN TRUE
    ELSE IF proc[p].discovered = Nothing THEN TRUE
    ELSE \A t \in DOMAIN proc[p].discovered.goals :
           proc[p].discovered.since[t] <= proc[p].discovered.goals[t]

\* No two live processes have one name, whatever crashed and whichever pid came back.
OneConnection ==
  \A p, q \in Proc :
    IF Alive(p) /\ Alive(q) THEN proc[p].name = proc[q].name => p = q ELSE TRUE

\* What is sent is sound, in id and in number: the first three.
SendsAreSound == BookedFirst /\ SendsAreBounded /\ FreshId

\* So is what a session discovers, and who it is: the last two.
SessionsAreSound == WsTypeOK /\ FreshGoals /\ OneConnection

(***************************************************************************)
(* What the repository says, and the code does not do.                      *)
(***************************************************************************)

\* first-workspace.md: inboxes persist in the workspace, so that reopening does not
\* silently lose work.  A renewal of the route takes the queued messages of the grant
\* it supersedes from the inbox.
RenewalKeepsMail ==
  \A k \in DOMAIN mail :
    Live(mail[k]) /\ mail[k] \in Rows(mail[k].target) /\ Granted(mail[k].source, mail[k].target)
      => Authorized(mail[k])

\* The same sentence.  A page of expired messages that nobody decided hides those that
\* come after it.
InboxReachesMail ==
  \A n \in Joined :
    LET visible == {k \in DOMAIN mail : mail[k].target = n /\ Live(mail[k]) /\ Authorized(mail[k])} IN
    ~Muted(n) /\ Cardinality(visible) <= Page => \A k \in visible : mail[k] \in Inbox(n)

\* first-workspace.md: close the harness to stop its connection.  A row left by a crash
\* whose pid another session got keeps the name from connecting.
NameIsFreed ==
  \A n \in Name :
    IF conn[n] # Nothing /\ (\A p \in Proc : IF Alive(p) THEN proc[p].name # n ELSE TRUE)
    THEN ~Alive(conn[n]) ELSE TRUE
=============================================================================
