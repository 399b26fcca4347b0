----------------------------- MODULE VisitorChat -----------------------------
(***************************************************************************)
(* The visitor's chat page and its server: the session token and how it is   *)
(* minted again when it has expired, the socket and the identity it was      *)
(* opened with, the conversation the page subscribes to, and the messages it *)
(* comes to show over three channels that race: pushes into the room of the  *)
(* conversation, acknowledgements on the same socket, and history requests.  *)
(*                                                                         *)
(* Each action is what the page does between two awaits, or what the server  *)
(* does for one request.  Effects run as soon as the state they depend on    *)
(* has been rendered, before anything else happens to the page.  An emit is  *)
(* served when it is made, unless the connection is dead and the page has    *)
(* not noticed; its answer may take any time.                               *)
(*                                                                         *)
(* The page is open and activated for a first visit, and the check for       *)
(* unread replies, which comes before the first start, has been made.  A     *)
(* history request returns the whole conversation (the page asks for the     *)
(* last 50 messages).  Not modelled: acknowledgements of a join that time    *)
(* out or fail for another reason, and their retries (page.tsx, 2543-2588);  *)
(* visitor_session_required (2528-2541), after which the page reconnects     *)
(* once with its token; refusals of a start (offline, queue full), logout, a *)
(* reload of the page, the visitor's retry button, bots, attachments and    *)
(* recalls.  A start always mints: that a stored token with a minute to live *)
(* is used again (1218-1235), and that a mint which fails with a stored      *)
(* credential is made once more without it (1250-1262), are left out, too.   *)
(***************************************************************************)
EXTENDS VisitorMessages, Sequences

CONSTANTS
  Visitors, NoVisitor,
  Known,          \* the visitors the embedding page can name in a context token
  MaxRecoveries,  \* MAX_SESSION_RECOVERIES
  MaxReplaces,    \* MAX_JOIN_NOT_FOUND_REPLACES_PER_CONNECTION
  MaxTokens,      \* bound: tokens issued
  MaxConvs,       \* bound: conversations
  MaxMessages,    \* bound: an agent writes while fewer are stored
  MaxFaults,      \* bound: breaks, expiries, failed mints, lost credentials, decays, logins
  MaxFetches      \* bound: history requests under way at a time

ASSUME VisitorsAssumption == NoVisitor \notin Visitors /\ Known \subseteq Visitors
ASSUME LimitsAssumption == MaxRecoveries \in Nat \ {0} /\ MaxReplaces \in Nat
ASSUME BoundsAssumption ==
  /\ MaxTokens \in Nat /\ MaxConvs \in Nat /\ MaxMessages \in Nat
  /\ MaxFaults \in Nat /\ MaxFetches \in Nat

VARIABLES
  issued,   \* the visitor of each token
  expired,  \* the tokens that have expired
  convs,    \* the conversations: owner, and whether they are open
  log,      \* the messages: conversation and send; 0 for an agent's
  readBy,   \* the messages an agent has read
  sock,     \* the socket: state, token offered, and the server's session of it
  down,     \* what is on its way to the page; lost when the connection breaks
  buffer,   \* the sends that Socket.IO keeps until it is connected
  stored,   \* the visitor whose credential the browser holds
  page,     \* the page's refs and state
  budget,   \* sessionRecoveryBudgetRef, and whether it has decayed
  mints,    \* the session requests under way
  sub,      \* the subscription effect: its status and the key it runs for
  replaced, \* joinNotFoundReplaceCountRef and joinNotFoundDiscardedIdRef
  fetches,  \* the history requests under way
  list,     \* the messages shown
  sent,     \* the connection each send went out on; 0 before
  faults,
  reminted, \* history: remints begun since the budget last decayed
  mixed     \* history: a start has put on show what is not the page's conversation

server == <<issued, expired, convs, log, readBy>>
socket == <<sock, down, buffer>>
session == <<stored, budget, mints, reminted>>
view == <<list, mixed, sent>>
subscription == <<sub, replaced>>
vars == <<server, socket, session, page, subscription, fetches, view, faults>>

Tokens == 0..MaxTokens   \* 0 is no token
ConvIds == 0..MaxConvs   \* 0 is no conversation
Keys == [epoch : Nat, conv : ConvIds, token : Tokens, ended : BOOLEAN]
NoKey == [epoch |-> 0, conv |-> 0, token |-> 0, ended |-> FALSE]

\* A message as the history shows it, and as it was pushed when it was stored.
Shown(m) == Entry(m, log[m].conv, log[m].send, IF m \in readBy THEN "read" ELSE "delivered")
Pushed(m) == Entry(m, log[m].conv, log[m].send, "delivered")
History(c) == {Shown(m) : m \in {n \in DOMAIN log : log[n].conv = c}}

TypeOK ==
  /\ issued \in Seq(Visitors) /\ Len(issued) <= MaxTokens /\ expired \subseteq DOMAIN issued
  /\ convs \in Seq([owner : Visitors, open : BOOLEAN]) /\ Len(convs) <= MaxConvs
  /\ log \in Seq([conv : DOMAIN convs, send : Sends \cup {0}]) /\ readBy \subseteq DOMAIN log
  /\ sock \in [state : {"none", "off", "on", "dead"}, auth : Tokens,
               who : Visitors \cup {NoVisitor}, rooms : SUBSET DOMAIN convs]
  /\ \A b \in buffer : b.send \in Sends /\ b.conv \in DOMAIN convs
  /\ stored \in Visitors \cup {NoVisitor}
  /\ page \in [context : Known \cup {NoVisitor}, gen : Nat,
               token : Tokens, visitor : Visitors \cup {NoVisitor},
               authFailed : BOOLEAN, heal : BOOLEAN, epoch : Nat,
               conv : ConvIds, started : BOOLEAN, ended : BOOLEAN]
  /\ budget \in [token : Tokens, attempts : 0..MaxRecoveries, decayed : BOOLEAN]
  /\ mints \subseteq [kind : {"init", "remint"}, gen : Nat, want : BOOLEAN,
                      prev : Visitors \cup {NoVisitor}, claim : Visitors \cup {NoVisitor}]
  /\ sub \in [st : {"idle", "joining", "joined", "degraded"}, key : Keys]
  /\ replaced \in [epoch : Nat, count : 0..MaxReplaces, conv : ConvIds]
  /\ \A f \in fetches :
       /\ f.kind \in {"start", "join"} /\ f.st \in {"sent", "ok", "waiting"}
       /\ f.conv \in DOMAIN convs /\ f.token \in DOMAIN issued /\ f.key \in Keys
  /\ \A e \in list : e.by \in Sends \cup {0} /\ e.status \in Statuses
  /\ sent \in [Sends -> Nat]
  /\ faults \in 0..MaxFaults /\ reminted \in Nat /\ mixed \in BOOLEAN

Mint(kind, gen, want, prev, claim) ==
  [kind |-> kind, gen |-> gen, want |-> want, prev |-> prev, claim |-> claim]

Init ==
  /\ issued = <<>> /\ expired = {} /\ convs = <<>> /\ log = <<>> /\ readBy = {}
  /\ sock = [state |-> "none", auth |-> 0, who |-> NoVisitor, rooms |-> {}]
  /\ down = <<>> /\ buffer = {}
  /\ stored = NoVisitor
  /\ page = [ context |-> NoVisitor, gen |-> 0, token |-> 0, visitor |-> NoVisitor,
              authFailed |-> FALSE, heal |-> FALSE, epoch |-> 0,
              conv |-> 0, started |-> FALSE, ended |-> FALSE ]
  /\ budget = [token |-> 0, attempts |-> 0, decayed |-> FALSE]
  /\ mints = {Mint("init", 0, FALSE, NoVisitor, NoVisitor)}
  /\ sub = [st |-> "idle", key |-> NoKey]
  /\ replaced = [epoch |-> 0, count |-> 0, conv |-> 0]
  /\ fetches = {} /\ list = {} /\ sent = [k \in Sends |-> 0]
  /\ faults = 0 /\ reminted = 0 /\ mixed = FALSE

Valid(t) == t # 0 /\ t \notin expired
Connected == sock.state \in {"on", "dead"}   \* as far as the page knows
Live == sock.state = "on"
Fault == faults < MaxFaults /\ faults' = faults + 1

Answer(events) == down' = down \o events
ToRoom(c, e) == IF Live /\ c \in sock.rooms THEN <<e>> ELSE <<>>

-----------------------------------------------------------------------------
(* The world.                                                              *)

Expire(t) ==
  /\ Fault /\ t \in DOMAIN issued \ expired
  /\ expired' = expired \cup {t}
  /\ UNCHANGED <<issued, convs, log, readBy, socket, session, page, subscription, fetches,
                 view>>

\* Storage is cleared, or is not available.
LoseCredential ==
  /\ Fault /\ stored # NoVisitor /\ stored' = NoVisitor
  /\ UNCHANGED <<server, socket, budget, mints, reminted, page, subscription, fetches, view>>

\* Ten minutes pass since the last attempt.
Decay ==
  /\ Fault /\ budget.attempts > 0 /\ ~budget.decayed
  /\ budget' = [budget EXCEPT !.decayed = TRUE] /\ reminted' = 0
  /\ UNCHANGED <<server, socket, stored, mints, page, subscription, fetches, view>>

AgentWrites(c) ==
  /\ convs[c].open /\ Len(log) < MaxMessages
  /\ log' = Append(log, [conv |-> c, send |-> 0])
  /\ Answer(ToRoom(c, [name |-> "new_message", id |-> Len(log) + 1]))
  /\ UNCHANGED <<issued, expired, convs, readBy, sock, buffer, session, page, subscription,
                 fetches, view, faults>>

AgentReads(c) ==
  LET unread == {m \in DOMAIN log \ readBy : log[m].conv = c /\ log[m].send # 0} IN
  /\ unread # {}
  /\ readBy' = readBy \cup unread
  /\ Answer(ToRoom(c, [name |-> "messages_read", conv |-> c]))
  /\ UNCHANGED <<issued, expired, convs, log, sock, buffer, session, page, subscription,
                 fetches, view, faults>>

\* The agent ends the conversation, or a time-out does.
Close(c) ==
  /\ convs[c].open /\ Len(convs) < MaxConvs
  /\ convs' = [convs EXCEPT ![c].open = FALSE]
  /\ Answer(ToRoom(c, [name |-> "conversation_ended"]))
  /\ UNCHANGED <<issued, expired, log, readBy, sock, buffer, session, page, subscription,
                 fetches, view, faults>>

-----------------------------------------------------------------------------
(* The socket.                                                             *)

Closed(state, auth) == [state |-> state, auth |-> auth, who |-> NoVisitor, rooms |-> {}]

\* The connection breaks: what is on its way is lost, and so is what the page
\* emits until it notices.
Cut ==
  /\ Fault /\ Live
  /\ sock' = [sock EXCEPT !.state = "dead"] /\ down' = <<>>
  /\ UNCHANGED <<server, buffer, session, page, subscription, fetches, view>>

\* The disconnect event: the page may start again on the next connection.
Disconnect ==
  /\ sock.state = "dead" /\ sock' = Closed("off", sock.auth)
  /\ page' = [page EXCEPT !.started = FALSE]
  /\ UNCHANGED <<server, down, buffer, session, subscription, fetches, view, faults>>

\* The connect effect, or Socket.IO itself while the page has no token; and the
\* handshake.  A refused socket is given up, with what it had buffered.
Connect ==
  LET auth == IF page.token # 0 THEN page.token ELSE sock.auth IN
  /\ ~page.authFailed
  /\ sock.state = "off" \/ (sock.state = "none" /\ page.token # 0)
  /\ IF Valid(auth)
       THEN /\ sock' = [state |-> "on", auth |-> auth, who |-> issued[auth], rooms |-> {}]
            /\ page' = [page EXCEPT !.epoch = @ + 1]
            /\ UNCHANGED buffer
       ELSE /\ sock' = Closed("none", 0) /\ buffer' = {}
            /\ page' = [page EXCEPT !.authFailed = TRUE, !.heal = TRUE]
  /\ UNCHANGED <<server, down, session, subscription, fetches, view, faults>>

-----------------------------------------------------------------------------
(* The server.  An emit is served when it is made: what happens in between   *)
(* might as well have happened before.                                       *)

Open(v) == {c \in DOMAIN convs : convs[c].owner = v /\ convs[c].open}

\* The conversation belongs to the visitor of the socket; its room is joined.
\* The answer carries what the callback of the page has closed over.
EmitStart ==
  LET fresh == Open(sock.who) = {}
      c == IF fresh THEN Len(convs) + 1 ELSE CHOOSE x \in Open(sock.who) : TRUE
  IN
  IF ~Live THEN UNCHANGED <<convs, sock, down>>
  ELSE /\ fresh => Len(convs) < MaxConvs
       /\ convs' = IF fresh THEN Append(convs, [owner |-> sock.who, open |-> TRUE]) ELSE convs
       /\ sock' = [sock EXCEPT !.rooms = @ \cup {c}]
       /\ Answer(<<[name |-> "started", conv |-> c, token |-> page.token,
                    context |-> page.context]>>)

EmitJoin(key) ==
  LET own == convs[key.conv].owner = sock.who IN
  IF ~Live THEN UNCHANGED <<sock, down>>
  ELSE /\ sock' = [sock EXCEPT !.rooms = IF own THEN @ \cup {key.conv} ELSE @]
       /\ Answer(<<[name |-> IF own THEN "joined" ELSE "not_found", key |-> key]>>)

\* The push and the acknowledgement leave on different paths.
EmitSend(k, c) ==
  LET m == Len(log) + 1
      push == ToRoom(c, [name |-> "new_message", id |-> m])
      ack  == <<[name |-> "sent", send |-> k, id |-> m]>>
  IN
  IF convs[c].owner = sock.who /\ convs[c].open
    THEN /\ log' = Append(log, [conv |-> c, send |-> k])
         /\ Answer(push \o ack) \/ (push # <<>> /\ Answer(ack \o push))
    ELSE /\ Answer(<<[name |-> "not_sent", send |-> k]>>)
         /\ UNCHANGED log

\* What was buffered goes out on the new connection.
Flush ==
  /\ Live
  /\ \E b \in buffer : EmitSend(b.send, b.conv) /\ buffer' = buffer \ {b}
  /\ UNCHANGED <<issued, expired, convs, readBy, sock, session, page, subscription, fetches,
                 view, faults>>

\* Nobody waits for the history of a subscription that was replaced.
Awaited(f, key) == f.kind = "start" \/ f.key = key

\* The token may be another visitor's: then there is no such conversation.
ServeFetch(f) ==
  /\ f.st = "sent" /\ Valid(f.token)
  /\ fetches' = (fetches \ {f}) \cup
       IF convs[f.conv].owner = issued[f.token] /\ Awaited(f, sub.key)
         THEN {[f EXCEPT !.st = "ok", !.seen = History(f.conv)]} ELSE {}
  /\ UNCHANGED <<server, socket, session, page, subscription, view, faults>>

-----------------------------------------------------------------------------
(* The page: the session and its recovery.                                  *)

Flight == {m \in mints : m.kind = "remint" /\ m.gen = page.gen}

\* Mutant: one attempt too many.
CanAttemptAgain ==
  budget.decayed \/ budget.token # page.token \/ budget.attempts <= MaxRecoveries

\* canAttemptSessionRecoveryForToken
CanAttempt ==
  budget.decayed \/ budget.token # page.token \/ budget.attempts < MaxRecoveries

\* recordSessionRecoveryAttempt
Attempted ==
  IF budget.decayed \/ budget.token # page.token
    THEN [token |-> page.token, attempts |-> 1, decayed |-> FALSE]
    ELSE [budget EXCEPT !.attempts = @ + 1]

\* Mutant: the remint starts a budget of its own.
FollowedForgets(t) == [budget EXCEPT !.token = t, !.attempts = 0]

\* followSessionRecoveryToken
Followed(t) == [budget EXCEPT !.token = t]

\* Whom a request names: the context token, then the credential; else nobody.
Claim(context) == IF context # NoVisitor THEN context ELSE stored

CanRecover == Flight # {} \/ CanAttempt

\* recoverVisitorSession, up to its request: joins the one under way, or spends
\* an attempt; context is the one its closure was made with.
Recover(want, context) ==
  IF Flight # {}
    THEN /\ mints' = (mints \ Flight) \cup {[m EXCEPT !.want = @ \/ want] : m \in Flight}
         /\ UNCHANGED <<budget, reminted>>
    ELSE IF CanAttempt
    THEN /\ budget' = Attempted
         /\ reminted' = reminted + 1
         /\ mints' = mints \cup {Mint("remint", page.gen, want, page.visitor, Claim(context))}
    ELSE UNCHANGED <<budget, reminted, mints>>

\* The self-heal effect.
Heal ==
  /\ page.heal /\ page' = [page EXCEPT !.heal = FALSE]
  /\ IF page.authFailed THEN Recover(TRUE, page.context)
                        ELSE UNCHANGED <<budget, reminted, mints>>
  /\ UNCHANGED <<server, socket, stored, subscription, fetches, view, faults>>

Issue(m, v) ==
  /\ v = m.claim \/ (m.claim = NoVisitor /\ v \notin Known \cup {issued[t] : t \in DOMAIN issued})
  /\ Len(issued) < MaxTokens /\ issued' = Append(issued, v)

\* The requests that waited for the remint go out again, or are given up.
Resumed(m, t) == {[f EXCEPT !.st = "sent", !.retried = TRUE, !.token = t] :
                    f \in {x \in fetches : x.st = "waiting" /\ x.gen = m.gen}}
NotWaiting(m) == {f \in fetches : ~(f.st = "waiting" /\ f.gen = m.gen)}

\* The reply to the request of the session effect; a later one cancels it.
InitReply(m, v) ==
  LET t == Len(issued) + 1 IN
  /\ m.kind = "init" /\ Issue(m, v)
  /\ mints' = mints \ {m}
  /\ IF m.gen = page.gen
       THEN /\ stored' = v
            /\ page' = [page EXCEPT !.token = t, !.visitor = v, !.heal = page.authFailed]
       ELSE UNCHANGED <<stored, page>>
  /\ UNCHANGED <<expired, convs, log, readBy, socket, budget, reminted, subscription, fetches,
                 view, faults>>

\* Mutant: only a caller that asks for it reconnects the socket.
ReconnectsOnRequest(m, v) == m.want

\* resolveSessionRecoveryReconnectIntent
Reconnects(m, v) == m.want \/ m.prev \notin {NoVisitor, v}

\* reconnectWithSession or applySessionToken
Reconnect(t) ==
  /\ sock' = Closed(IF sock.state = "none" THEN "none" ELSE "off", t) /\ down' = <<>>
  /\ UNCHANGED buffer
ApplyToken(t) ==
  /\ sock' = IF sock.state = "none" THEN sock ELSE [sock EXCEPT !.auth = t]
  /\ UNCHANGED <<down, buffer>>

RemintReply(m, v) ==
  LET t == Len(issued) + 1 IN
  /\ m.kind = "remint" /\ Issue(m, v)
  /\ mints' = mints \ {m}
  /\ IF m.gen = page.gen
       THEN /\ stored' = v /\ budget' = Followed(t)
            /\ page' = [page EXCEPT !.token = t, !.visitor = v, !.authFailed = FALSE,
                          !.started = @ /\ ~(Reconnects(m, v) /\ Connected)]
            /\ IF Reconnects(m, v) THEN Reconnect(t) ELSE ApplyToken(t)
            /\ fetches' = NotWaiting(m) \cup Resumed(m, t)
       ELSE /\ fetches' = NotWaiting(m)
            /\ UNCHANGED <<stored, budget, page, socket>>
  /\ UNCHANGED <<expired, convs, log, readBy, reminted, subscription, view, faults>>

\* Nothing asks again, neither for a session nor for what waited for it.
MintFails(m) ==
  /\ Fault /\ mints' = mints \ {m}
  /\ fetches' = IF m.kind = "remint" THEN NotWaiting(m) ELSE fetches
  /\ UNCHANGED <<server, socket, stored, budget, reminted, page, subscription, view>>

\* A login in the embedding page: the session effect runs for its context.
Login(v) ==
  /\ Fault /\ v # page.context
  /\ page' = [page EXCEPT !.context = v, !.gen = @ + 1, !.token = 0, !.visitor = NoVisitor,
                          !.heal = page.authFailed, !.conv = 0, !.started = FALSE,
                          !.ended = FALSE]
  /\ list' = {}
  /\ mints' = mints \cup {Mint("init", page.gen + 1, FALSE, NoVisitor, v)}
  /\ UNCHANGED <<server, socket, stored, budget, reminted, subscription, fetches, mixed, sent>>

-----------------------------------------------------------------------------
(* The page: what comes over the socket.                                    *)

Deliver(name) ==
  /\ down # <<>> /\ Head(down).name = name
  /\ down' = Tail(down)

Fetch(kind, conv, token, key, context) ==
  [kind |-> kind, conv |-> conv, token |-> token, key |-> key, context |-> context,
   st |-> "sent", retried |-> FALSE, gen |-> 0, seen |-> {}]

\* The answer to the start is taken whatever the page has become since.
OnStarted ==
  LET e == Head(down) IN
  /\ Deliver("started")
  /\ page' = [page EXCEPT !.conv = e.conv, !.ended = FALSE]
  /\ Cardinality(fetches) < MaxFetches
  /\ fetches' = fetches \cup {Fetch("start", e.conv, e.token, NoKey, e.context)}
  /\ UNCHANGED <<server, sock, buffer, session, subscription, view, faults>>

OnJoined ==
  LET key == Head(down).key IN
  /\ Deliver("joined")
  /\ IF key = sub.key
       THEN /\ sub' = [sub EXCEPT !.st = "joined"]
            /\ replaced' = [replaced EXCEPT !.conv = 0]
            /\ Cardinality(fetches) < MaxFetches
            /\ fetches' = fetches \cup {Fetch("join", key.conv, key.token, key, page.context)}
       ELSE UNCHANGED <<subscription, fetches>>
  /\ UNCHANGED <<server, sock, buffer, session, page, view, faults>>

\* decideJoinNotFoundReplace: the conversation is not this identity's; discard
\* it, so that the page starts again, or give up.
OnNotFound ==
  LET key == Head(down).key
      r   == IF replaced.epoch = key.epoch THEN replaced
                                           ELSE [epoch |-> key.epoch, count |-> 0, conv |-> 0]
      giveUp == key.ended \/ r.count >= MaxReplaces \/ r.conv = key.conv
  IN
  /\ Deliver("not_found")
  /\ CASE key # sub.key -> UNCHANGED <<subscription, page>>
       [] key = sub.key /\ giveUp ->
            /\ sub' = [sub EXCEPT !.st = "degraded"]
            /\ replaced' = IF r.conv = 0 THEN [r EXCEPT !.conv = key.conv] ELSE r
            /\ UNCHANGED page
       [] key = sub.key /\ ~giveUp ->
            /\ replaced' = [epoch |-> key.epoch, count |-> r.count + 1, conv |-> key.conv]
            /\ page' = [page EXCEPT !.started = FALSE, !.conv = 0]
            /\ UNCHANGED sub
  /\ UNCHANGED <<server, sock, buffer, session, fetches, view, faults>>

OnSent ==
  /\ Deliver("sent")
  /\ list' = ConfirmOptimistic(list, Head(down).send, Pushed(Head(down).id))
  /\ UNCHANGED <<server, sock, buffer, session, page, subscription, fetches, mixed, sent, faults>>

OnNotSent ==
  /\ Deliver("not_sent")
  /\ list' = Without(list, -Head(down).send)
  /\ UNCHANGED <<server, sock, buffer, session, page, subscription, fetches, mixed, sent, faults>>

OnNewMessage ==
  /\ Deliver("new_message")
  /\ list' = NewMessage(list, Pushed(Head(down).id))
  /\ UNCHANGED <<server, sock, buffer, session, page, subscription, fetches, mixed, sent, faults>>

\* The event names the conversation, not the messages.
OnRead ==
  /\ Deliver("messages_read")
  /\ list' = MarkRead(list, Head(down).conv)
  /\ UNCHANGED <<server, sock, buffer, session, page, subscription, fetches, mixed, sent, faults>>

OnEnded ==
  /\ Deliver("conversation_ended")
  /\ page' = [page EXCEPT !.ended = TRUE]
  /\ UNCHANGED <<server, sock, buffer, session, subscription, fetches, view, faults>>

-----------------------------------------------------------------------------
(* The page: effects and history replies.                                   *)

\* A connection starts a conversation, or resumes it, once.
StartEffect ==
  /\ Connected /\ page.token # 0 /\ ~page.started /\ ~page.ended
  /\ page' = [page EXCEPT !.started = TRUE]
  /\ EmitStart
  /\ UNCHANGED <<issued, expired, log, readBy, buffer, session, subscription, fetches, view,
                 faults>>

SubscriptionKey ==
  IF Connected /\ page.conv # 0 /\ page.token # 0
    THEN [epoch |-> page.epoch, conv |-> page.conv, token |-> page.token, ended |-> page.ended]
    ELSE NoKey

\* The subscription effect runs again when what it depends on has changed.
JoinEffect ==
  /\ sub.key # SubscriptionKey
  /\ sub' = [st |-> IF SubscriptionKey = NoKey THEN "idle" ELSE "joining", key |-> SubscriptionKey]
  /\ IF SubscriptionKey = NoKey THEN UNCHANGED <<sock, down>> ELSE EmitJoin(SubscriptionKey)
  /\ fetches' = {f \in fetches : f.st = "ok" => Awaited(f, SubscriptionKey)}
  /\ UNCHANGED <<server, buffer, session, page, replaced, view, faults>>

\* withVisitorSessionRecovery: a 401 asks for a recovery, once.
FetchRefused(f) ==
  /\ f.st = "sent" /\ ~Valid(f.token)
  /\ fetches' = (fetches \ {f}) \cup
       IF CanRecover /\ ~f.retried THEN {[f EXCEPT !.st = "waiting", !.gen = page.gen]} ELSE {}
  /\ IF f.retried THEN UNCHANGED <<mints, budget, reminted>> ELSE Recover(FALSE, f.context)
  /\ UNCHANGED <<server, socket, stored, page, subscription, view, faults>>

\* The history of a start is put on show whatever has happened since.
FetchLands(f) ==
  /\ f.st = "ok" /\ fetches' = fetches \ {f}
  /\ list' = Reconcile(list, f.conv, f.seen) /\ mixed' = (mixed \/ f.conv # page.conv)
  /\ UNCHANGED <<server, socket, session, page, subscription, sent, faults>>

-----------------------------------------------------------------------------
(* The visitor.                                                            *)

\* Socket.IO keeps what is emitted while it knows that it is not connected.
Send(k) ==
  /\ sent[k] = 0 /\ \A j \in Sends : j < k => sent[j] # 0
  /\ page.conv # 0 /\ ~page.ended /\ sock.state # "none"
  /\ sent' = [sent EXCEPT ![k] = IF Connected THEN page.epoch ELSE page.epoch + 1]
  /\ list' = AddOptimistic(list, k, page.conv)
  /\ CASE sock.state = "on"   -> EmitSend(k, page.conv) /\ UNCHANGED buffer
       [] sock.state = "dead" -> UNCHANGED <<log, down, buffer>>
       [] sock.state = "off"  -> /\ buffer' = buffer \cup {[send |-> k, conv |-> page.conv]}
                                 /\ UNCHANGED <<log, down>>
  /\ UNCHANGED <<issued, expired, convs, readBy, sock, session, page, subscription, fetches,
                 mixed, faults>>

\* handleRestartConversation, once the conversation has ended.
Restart ==
  /\ page.ended /\ Connected /\ page.token # 0
  /\ page' = [page EXCEPT !.conv = 0, !.ended = FALSE]
  /\ list' = {}
  /\ EmitStart
  /\ UNCHANGED <<issued, expired, log, readBy, buffer, session, subscription, fetches, mixed,
                 sent, faults>>

-----------------------------------------------------------------------------
World ==
  \/ \E t \in 1..MaxTokens : Expire(t)
  \/ LoseCredential \/ Decay \/ Cut
  \/ \E c \in DOMAIN convs : AgentWrites(c) \/ AgentReads(c) \/ Close(c)
  \/ \E m \in mints : MintFails(m)
  \/ \E v \in Known : Login(v)

Visitor == Restart \/ \E k \in Sends : Send(k)

Link == Disconnect \/ Connect \/ Flush
Minting == \E m \in mints, v \in Visitors : InitReply(m, v) \/ RemintReply(m, v)
Events == \/ OnStarted \/ OnJoined \/ OnNotFound \/ OnSent \/ OnNotSent
          \/ OnNewMessage \/ OnRead \/ OnEnded
Effects == Heal \/ StartEffect \/ JoinEffect
Reading == \E f \in fetches : ServeFetch(f) \/ FetchRefused(f) \/ FetchLands(f)

\* Effects run as soon as what they depend on has been rendered.
Rendered == ~ENABLED Effects

Next == Effects \/ (Rendered /\ (World \/ Visitor \/ Link \/ Minting \/ Events \/ Reading))

Spec == Init /\ [][Next]_vars

\* The socket connects, the server answers, sessions are issued, and the page
\* takes what arrives and runs its effects; the rest is chance or choice.
Fairness ==
  /\ WF_vars(Link) /\ WF_vars(Minting) /\ WF_vars(Events) /\ WF_vars(Effects)
  /\ WF_vars(Reading)

FairSpec == Spec /\ Fairness

-----------------------------------------------------------------------------
\* Tokens that keep expiring do not make the page ask for session after session:
\* the remints of one identity are counted together until the count decays.
RemintsAreBounded == page.gen = 0 => reminted <= MaxRecoveries

\* A message is shown once: the bubble of a send and its stored copy are both
\* on show only while the acknowledgement is on its way, or when it was lost
\* with the connection the message went out on.
ShownOnce ==
  /\ \A d, e \in list : d.id = e.id => d = e
  /\ \A k \in Sends :
       Has(list, -k) /\ (\E e \in list : e.by = k /\ e.id > 0) =>
         \/ \E i \in DOMAIN down : down[i].name = "sent" /\ down[i].send = k
         \/ ~Live \/ page.epoch # sent[k]

\* What an agent has read is not shown unread again, by whichever channel the
\* message comes.
ReadIsNotUndone ==
  [][\A d \in list, e \in list' :
       d.id = e.id /\ d.id > 0 /\ d.status = "read" => e.status = "read"]_vars

\* The page comes to show every message of its conversation, however the
\* pushes, the acknowledgements and the history raced, unless its token has
\* expired for good.  (Not once a late answer to an earlier start has put the
\* history of another conversation in the place of the page's own.)
NothingMissed ==
  []<>(Connected /\ Valid(page.token) /\ sock.who = page.visitor
         /\ page.conv # 0 /\ ~mixed
       => \A m \in DOMAIN log : log[m].conv = page.conv => Has(list, m))

\* A connection that speaks for another visitor than the page is given up.
SocketFollowsIdentity ==
  []<>(page.gen = 0 /\ Connected => sock.who = page.visitor)

\* The same, when the page is told of a login.
SocketFollowsLogin == []<>(Connected /\ page.visitor # NoVisitor => sock.who = page.visitor)

\* The page says that after the conversation has ended, a reconnect must not
\* silently start a new one.
NoSilentRestart == [][page.conv # 0 /\ page'.conv # 0 => page'.conv = page.conv]_vars
=============================================================================
