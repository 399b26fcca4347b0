-------------------------- MODULE VisitorChatProofs --------------------------
(***************************************************************************)
(* Theorems about the visitor's chat page for every number of visitors,     *)
(* tokens, conversations, messages and faults: the types of what page,      *)
(* socket and server hold, the remints of one identity, and the list of     *)
(* messages.  Whether an effect is waiting to run plays no part in them.     *)
(***************************************************************************)
EXTENDS VisitorChat, TLAPS, SequenceTheorems

-----------------------------------------------------------------------------
(* Types.  What names a token, a conversation or a message names one that    *)
(* exists.                                                                  *)

GoodKeys == {k \in Keys : k.conv \in DOMAIN convs /\ k.token \in DOMAIN issued}

\* The entry of a stored message, and the bubble of a send.
Copies ==
  {e \in [id : DOMAIN log, conv : ConvIds, by : Sends \cup {0}, status : Statuses] :
     e.conv = log[e.id].conv /\ e.by = log[e.id].send}
Bubbles ==
  {e \in [id : Int, conv : ConvIds, by : Sends, status : Statuses] : e.id = -e.by}

Wire ==
  UNION { [name : {"started"}, conv : DOMAIN convs, token : DOMAIN issued,
           context : Known \cup {NoVisitor}],
          [name : {"joined", "not_found"}, key : GoodKeys],
          [name : {"new_message"}, id : DOMAIN log],
          [name : {"sent"}, send : Sends, id : DOMAIN log],
          [name : {"not_sent"}, send : Sends],
          [name : {"messages_read"}, conv : DOMAIN convs],
          [name : {"conversation_ended"}] }

ServerTyped ==
  /\ issued \in Seq(Visitors) /\ Len(issued) <= MaxTokens /\ expired \subseteq DOMAIN issued
  /\ convs \in Seq([owner : Visitors, open : BOOLEAN]) /\ Len(convs) <= MaxConvs
  /\ log \in Seq([conv : DOMAIN convs, send : Sends \cup {0}]) /\ readBy \subseteq DOMAIN log
SocketTyped ==
  /\ sock \in [state : {"none", "off", "on", "dead"}, auth : {0} \cup DOMAIN issued,
               who : Visitors \cup {NoVisitor}, rooms : SUBSET DOMAIN convs]
  /\ sock.state = "on" => sock.who \in Visitors
  /\ buffer \subseteq [send : Sends, conv : DOMAIN convs]
WireTyped == down \in Seq(Wire)
SessionTyped ==
  /\ stored \in Visitors \cup {NoVisitor}
  /\ budget \in [token : Tokens, attempts : 0..MaxRecoveries, decayed : BOOLEAN]
  /\ mints \subseteq [kind : {"init", "remint"}, gen : Nat, want : BOOLEAN,
                      prev : Visitors \cup {NoVisitor}, claim : Visitors \cup {NoVisitor}]
  /\ reminted \in Nat
PageTyped ==
  page \in [context : Known \cup {NoVisitor}, gen : Nat,
            token : {0} \cup DOMAIN issued, visitor : Visitors \cup {NoVisitor},
            authFailed : BOOLEAN, heal : BOOLEAN, epoch : Nat,
            conv : {0} \cup DOMAIN convs, started : BOOLEAN, ended : BOOLEAN]
SubTyped ==
  /\ sub \in [st : {"idle", "joining", "joined", "degraded"}, key : {NoKey} \cup GoodKeys]
  /\ replaced \in [epoch : Nat, count : 0..MaxReplaces, conv : ConvIds]
Requests ==
  [kind : {"start", "join"}, conv : DOMAIN convs, token : DOMAIN issued,
   key : {NoKey} \cup GoodKeys, context : Known \cup {NoVisitor},
   st : {"sent", "ok", "waiting"}, retried : BOOLEAN, gen : Nat, seen : SUBSET Copies]
FetchTyped == fetches \subseteq Requests
ViewTyped ==
  /\ list \subseteq Copies \cup Bubbles
  /\ sent \in [Sends -> Nat] /\ mixed \in BOOLEAN
FaultsTyped == faults \in 0..MaxFaults

TypeInv ==
  /\ ServerTyped /\ SocketTyped /\ WireTyped /\ SessionTyped /\ PageTyped /\ SubTyped
  /\ FetchTyped /\ ViewTyped /\ FaultsTyped

LEMMA TypesAreTypeOK == TypeInv => TypeOK
<1> SUFFICES ASSUME TypeInv PROVE TypeOK
  OBVIOUS
<1> USE DEF TypeInv
<1>1. DOMAIN issued \subseteq Tokens \ {0} /\ DOMAIN convs \subseteq ConvIds \ {0}
  <2>1. /\ DOMAIN issued = 1..Len(issued) /\ Len(issued) \in Nat
        /\ DOMAIN convs = 1..Len(convs) /\ Len(convs) \in Nat
    BY LenProperties DEF ServerTyped
  <2> QED BY <2>1, BoundsAssumption DEF ServerTyped, Tokens, ConvIds
<1>2. NoKey \in Keys /\ GoodKeys \subseteq Keys
  BY BoundsAssumption DEF NoKey, Keys, GoodKeys, ConvIds, Tokens
<1>3. 0 \in Tokens /\ 0 \in ConvIds
  BY BoundsAssumption DEF ConvIds, Tokens
<1>4. sock \in [state : {"none", "off", "on", "dead"}, auth : Tokens,
                who : Visitors \cup {NoVisitor}, rooms : SUBSET DOMAIN convs]
  BY <1>1, <1>3 DEF SocketTyped
<1>5. page \in [context : Known \cup {NoVisitor}, gen : Nat,
                token : Tokens, visitor : Visitors \cup {NoVisitor},
                authFailed : BOOLEAN, heal : BOOLEAN, epoch : Nat,
                conv : ConvIds, started : BOOLEAN, ended : BOOLEAN]
  BY <1>1, <1>3 DEF PageTyped
<1>6. sub \in [st : {"idle", "joining", "joined", "degraded"}, key : Keys]
  BY <1>2 DEF SubTyped
<1>7. \A f \in fetches :
        /\ f.kind \in {"start", "join"} /\ f.st \in {"sent", "ok", "waiting"}
        /\ f.conv \in DOMAIN convs /\ f.token \in DOMAIN issued /\ f.key \in Keys
  BY <1>2 DEF FetchTyped, Requests
<1>8. \A e \in list : e.by \in Sends \cup {0} /\ e.status \in Statuses
  BY DEF ViewTyped, Copies, Bubbles
<1>9. \A b \in buffer : b.send \in Sends /\ b.conv \in DOMAIN convs
  BY DEF SocketTyped
<1> HIDE DEF TypeInv
<1> QED BY <1>4, <1>5, <1>6, <1>7, <1>8, <1>9
        DEF TypeInv, TypeOK, ServerTyped, SocketTyped, SessionTyped, SubTyped, ViewTyped, FaultsTyped

LEMMA Domains ==
  ASSUME ServerTyped
  PROVE  /\ DOMAIN issued = 1..Len(issued) /\ Len(issued) \in Nat
         /\ DOMAIN convs = 1..Len(convs) /\ Len(convs) \in Nat
         /\ DOMAIN log = 1..Len(log) /\ Len(log) \in Nat
         /\ \A t \in DOMAIN issued : issued[t] \in Visitors
         /\ \A c \in DOMAIN convs : convs[c] \in [owner : Visitors, open : BOOLEAN]
         /\ \A m \in DOMAIN log : log[m] \in [conv : DOMAIN convs, send : Sends \cup {0}]
         /\ DOMAIN convs \subseteq ConvIds /\ DOMAIN issued \subseteq Tokens
<1>1. /\ DOMAIN issued = 1..Len(issued) /\ Len(issued) \in Nat
      /\ DOMAIN convs = 1..Len(convs) /\ Len(convs) \in Nat
      /\ DOMAIN log = 1..Len(log) /\ Len(log) \in Nat
  BY LenProperties DEF ServerTyped
<1>2. \A t \in DOMAIN issued : issued[t] \in Visitors
  BY <1>1, ElementOfSeq DEF ServerTyped
<1>3. \A c \in DOMAIN convs : convs[c] \in [owner : Visitors, open : BOOLEAN]
  BY <1>1, ElementOfSeq DEF ServerTyped
<1>4. \A m \in DOMAIN log : log[m] \in [conv : DOMAIN convs, send : Sends \cup {0}]
  BY <1>1, ElementOfSeq DEF ServerTyped
<1>5. DOMAIN convs \subseteq ConvIds /\ DOMAIN issued \subseteq Tokens
  BY <1>1, BoundsAssumption DEF ServerTyped, ConvIds, Tokens
<1> QED BY <1>1, <1>2, <1>3, <1>4, <1>5

\* What the server has issued, opened and stored stays.
Grows ==
  /\ ServerTyped'
  /\ DOMAIN issued \subseteq DOMAIN issued' /\ DOMAIN convs \subseteq DOMAIN convs'
  /\ DOMAIN log \subseteq DOMAIN log' /\ \A m \in DOMAIN log : log'[m] = log[m]

LEMMA GrownNames ==
  ASSUME ServerTyped, Grows
  PROVE  /\ GoodKeys \subseteq GoodKeys' /\ Wire \subseteq Wire'
         /\ Copies \subseteq Copies' /\ Requests \subseteq Requests'
<1>1. GoodKeys \subseteq GoodKeys'
  BY DEF Grows, GoodKeys, Keys
<1>2. Copies \subseteq Copies'
  BY DEF Grows, Copies
<1> HIDE DEF Grows, GoodKeys, Copies
<1>3. DOMAIN issued \subseteq DOMAIN issued' /\ DOMAIN convs \subseteq DOMAIN convs'
      /\ DOMAIN log \subseteq DOMAIN log'
  BY DEF Grows
<1>4. Wire \subseteq Wire'
  <2> SUFFICES ASSUME NEW e \in Wire PROVE e \in Wire'
    OBVIOUS
  <2> QED BY <1>1, <1>3 DEF Wire
<1>5. Requests \subseteq Requests'
  BY <1>1, <1>2, <1>3 DEF Requests
<1> QED BY <1>1, <1>2, <1>4, <1>5

\* What a step leaves alone stays typed.
LEMMA Untouched ==
  ASSUME TypeInv, Grows
  PROVE  /\ UNCHANGED <<sock, buffer>> => SocketTyped'
         /\ UNCHANGED down => WireTyped'
         /\ UNCHANGED session => SessionTyped'
         /\ UNCHANGED page => PageTyped'
         /\ UNCHANGED subscription => SubTyped'
         /\ UNCHANGED fetches => FetchTyped'
         /\ UNCHANGED view => ViewTyped'
         /\ UNCHANGED faults => FaultsTyped'
<1>1. GoodKeys \subseteq GoodKeys' /\ Wire \subseteq Wire' /\ Copies \subseteq Copies'
  BY GrownNames DEF TypeInv
<1>2. DOMAIN issued \subseteq DOMAIN issued' /\ DOMAIN convs \subseteq DOMAIN convs'
  BY DEF Grows
<1>3. UNCHANGED <<sock, buffer>> => SocketTyped'
  <2> SUFFICES ASSUME UNCHANGED <<sock, buffer>> PROVE SocketTyped'
    OBVIOUS
  <2>1. sock' = sock /\ buffer' = buffer /\ SocketTyped
    BY DEF TypeInv
  <2> QED BY <1>2, <2>1 DEF SocketTyped
<1>4. UNCHANGED down => WireTyped'
  BY <1>1, SeqMonotonic DEF TypeInv, WireTyped
<1>5. UNCHANGED session => SessionTyped'
  BY DEF TypeInv, SessionTyped, session
<1>6. UNCHANGED page => PageTyped'
  BY <1>2 DEF TypeInv, PageTyped
<1>7. UNCHANGED subscription => SubTyped'
  BY <1>1 DEF TypeInv, SubTyped, subscription
<1>8. UNCHANGED fetches => FetchTyped'
  BY GrownNames DEF TypeInv, FetchTyped
<1>9. UNCHANGED view => ViewTyped'
  BY <1>1 DEF TypeInv, ViewTyped, view, Bubbles
<1>10. UNCHANGED faults => FaultsTyped'
  BY DEF TypeInv, FaultsTyped
<1> QED BY <1>3, <1>4, <1>5, <1>6, <1>7, <1>8, <1>9, <1>10

LEMMA ServerStays ==
  ASSUME TypeInv, UNCHANGED server
  PROVE  Grows
BY DEF TypeInv, ServerTyped, server, Grows

\* Answers that are typed go on the wire.
LEMMA Answered ==
  ASSUME TypeInv, Grows, NEW ev \in Seq(Wire'), Answer(ev)
  PROVE  WireTyped'
<1>1. down \in Seq(Wire')
  BY SeqMonotonic, GrownNames DEF TypeInv, WireTyped
<1> QED BY <1>1, ConcatProperties DEF Answer, WireTyped

LEMMA Singleton ==
  ASSUME NEW S, NEW e \in S
  PROVE  <<e>> \in Seq(S)
OBVIOUS

LEMMA RoomTyped ==
  ASSUME NEW c, NEW S, NEW e \in S
  PROVE  ToRoom(c, e) \in Seq(S)
BY DEF ToRoom

LEMMA FaultTyped ==
  ASSUME TypeInv, Fault
  PROVE  FaultsTyped'
BY BoundsAssumption DEF TypeInv, FaultsTyped, Fault

\* A stored message, and a conversation, are added at the end.
LEMMA LogGrows ==
  ASSUME TypeInv, NEW e \in [conv : DOMAIN convs, send : Sends \cup {0}],
         log' = Append(log, e), UNCHANGED <<issued, expired, convs, readBy>>
  PROVE  /\ Grows /\ Len(log) + 1 \in DOMAIN log' /\ log'[Len(log) + 1] = e
         /\ DOMAIN log' = DOMAIN log \cup {Len(log) + 1} /\ Len(log) + 1 \notin DOMAIN log
<1> DEFINE S == [conv : DOMAIN convs, send : Sends \cup {0}]
<1>1. ServerTyped /\ log \in Seq(S)
  BY DEF TypeInv, ServerTyped
<1>2. DOMAIN log = 1..Len(log) /\ Len(log) \in Nat
  BY <1>1, Domains
<1> HIDE DEF S
<1>3. /\ log' \in Seq(S) /\ Len(log') = Len(log) + 1 /\ log'[Len(log) + 1] = e
      /\ \A i \in 1..Len(log) : log'[i] = log[i]
  BY <1>1, AppendProperties DEF S
<1>4. DOMAIN log' = 1..(Len(log) + 1)
  BY <1>3, LenProperties
<1> USE DEF S
<1> QED BY <1>1, <1>2, <1>3, <1>4 DEF ServerTyped, Grows

LEMMA ConvsGrow ==
  ASSUME TypeInv, NEW e \in [owner : Visitors, open : BOOLEAN], Len(convs) < MaxConvs,
         convs' = Append(convs, e), UNCHANGED <<issued, expired, log, readBy>>
  PROVE  /\ Grows /\ Len(convs) + 1 \in DOMAIN convs' /\ convs'[Len(convs) + 1] = e
         /\ \A c \in DOMAIN convs : convs'[c] = convs[c]
<1> DEFINE S == [owner : Visitors, open : BOOLEAN]
<1>1. ServerTyped /\ convs \in Seq(S) /\ Len(convs) <= MaxConvs
  BY DEF TypeInv, ServerTyped
<1>2. DOMAIN convs = 1..Len(convs) /\ Len(convs) \in Nat
  BY <1>1, Domains
<1> HIDE DEF S
<1>3. /\ convs' \in Seq(S) /\ Len(convs') = Len(convs) + 1 /\ convs'[Len(convs) + 1] = e
      /\ \A i \in 1..Len(convs) : convs'[i] = convs[i]
  BY <1>1, AppendProperties DEF S
<1>4. DOMAIN convs' = 1..(Len(convs) + 1)
  BY <1>3, LenProperties
<1>5. DOMAIN convs \subseteq DOMAIN convs' /\ Len(convs') <= MaxConvs
  BY <1>2, <1>3, <1>4, BoundsAssumption
<1>6. log' \in Seq([conv : DOMAIN convs', send : Sends \cup {0}])
  <2>1. [conv : DOMAIN convs, send : Sends \cup {0}]
          \subseteq [conv : DOMAIN convs', send : Sends \cup {0}]
    BY <1>5
  <2>2. log' \in Seq([conv : DOMAIN convs, send : Sends \cup {0}])
    BY <1>1 DEF ServerTyped
  <2> DEFINE T == [conv : DOMAIN convs, send : Sends \cup {0}]
             U == [conv : DOMAIN convs', send : Sends \cup {0}]
  <2>3. T \subseteq U /\ log' \in Seq(T)
    BY <2>1, <2>2
  <2> HIDE DEF T, U
  <2>4. log' \in Seq(U)
    BY <2>3, SeqMonotonic
  <2> QED BY <2>4 DEF U
<1> USE DEF S
<1>7. ServerTyped'
  BY <1>1, <1>3, <1>5, <1>6 DEF ServerTyped
<1> QED BY <1>2, <1>3, <1>4, <1>5, <1>7 DEF Grows

LEMMA IssuedGrows ==
  ASSUME TypeInv, NEW v \in Visitors, NEW m, Issue(m, v), UNCHANGED <<expired, convs, log, readBy>>
  PROVE  Grows /\ Len(issued) + 1 \in DOMAIN issued' /\ Len(issued) + 1 \in Tokens
<1>1. ServerTyped /\ issued \in Seq(Visitors) /\ Len(issued) <= MaxTokens
  BY DEF TypeInv, ServerTyped
<1>2. DOMAIN issued = 1..Len(issued) /\ Len(issued) \in Nat
  BY <1>1, Domains
<1>3. issued' \in Seq(Visitors) /\ Len(issued') = Len(issued) + 1
  BY <1>1, AppendProperties DEF Issue
<1>4. DOMAIN issued' = 1..(Len(issued) + 1)
  BY <1>3, LenProperties
<1>5. DOMAIN issued \subseteq DOMAIN issued' /\ Len(issued') <= MaxTokens
      /\ Len(issued) + 1 \in Tokens
  BY <1>2, <1>3, <1>4, BoundsAssumption DEF Issue, Tokens
<1> QED BY <1>1, <1>2, <1>3, <1>4, <1>5 DEF ServerTyped, Grows

-----------------------------------------------------------------------------
(* Each action keeps the types.                                             *)

LEMMA ExpireTyped ==
  ASSUME TypeInv, NEW t, Expire(t)
  PROVE  TypeInv'
<1>1. Grows
  BY DEF TypeInv, ServerTyped, Expire, Grows
<1>2. FaultsTyped'
  BY FaultTyped DEF Expire
<1> QED BY <1>1, <1>2, Untouched DEF TypeInv, Expire, Grows, socket

LEMMA LoseCredentialTyped ==
  ASSUME TypeInv, LoseCredential
  PROVE  TypeInv'
<1>1. Grows
  BY ServerStays DEF LoseCredential
<1>2. FaultsTyped'
  BY FaultTyped DEF LoseCredential
<1>3. SessionTyped'
  BY DEF TypeInv, SessionTyped, LoseCredential
<1> QED BY <1>1, <1>2, <1>3, Untouched DEF TypeInv, LoseCredential, Grows, socket

LEMMA DecayTyped ==
  ASSUME TypeInv, Decay
  PROVE  TypeInv'
<1>1. Grows
  BY ServerStays DEF Decay
<1>2. FaultsTyped'
  BY FaultTyped DEF Decay
<1>3. SessionTyped'
  BY DEF TypeInv, SessionTyped, Decay
<1> QED BY <1>1, <1>2, <1>3, Untouched DEF TypeInv, Decay, Grows, socket

LEMMA AgentWritesTyped ==
  ASSUME TypeInv, NEW c \in DOMAIN convs, AgentWrites(c)
  PROVE  TypeInv'
<1>1. /\ Grows /\ Len(log) + 1 \in DOMAIN log'
  BY LogGrows DEF AgentWrites
<1>2. [name |-> "new_message", id |-> Len(log) + 1] \in Wire'
  BY <1>1 DEF Wire
<1>3. WireTyped'
  BY <1>1, <1>2, RoomTyped, Answered DEF AgentWrites
<1> QED BY <1>1, <1>3, Untouched DEF TypeInv, AgentWrites, Grows

LEMMA AgentReadsTyped ==
  ASSUME TypeInv, NEW c \in DOMAIN convs, AgentReads(c)
  PROVE  TypeInv'
<1>1. Grows
  BY DEF TypeInv, ServerTyped, AgentReads, Grows
<1>2. [name |-> "messages_read", conv |-> c] \in Wire'
  BY <1>1 DEF Wire, Grows
<1>3. WireTyped'
  BY <1>1, <1>2, RoomTyped, Answered DEF AgentReads
<1> QED BY <1>1, <1>3, Untouched DEF TypeInv, AgentReads, Grows

LEMMA CloseTyped ==
  ASSUME TypeInv, NEW c \in DOMAIN convs, Close(c)
  PROVE  TypeInv'
<1> DEFINE S == [owner : Visitors, open : BOOLEAN]
           e == [convs[c] EXCEPT !.open = FALSE]
<1>a. convs[c] \in S
  BY Domains DEF TypeInv
<1>b. e \in S /\ convs \in Seq(S) /\ c \in 1..Len(convs) /\ convs' = [convs EXCEPT ![c] = e]
  BY <1>a, Domains DEF TypeInv, ServerTyped, Close
<1> HIDE DEF S, e
<1>c. convs' \in Seq(S) /\ Len(convs') = Len(convs)
  BY <1>b, ExceptSeq
<1> USE DEF S
<1>0. convs' \in Seq([owner : Visitors, open : BOOLEAN]) /\ Len(convs') = Len(convs)
      /\ DOMAIN convs' = DOMAIN convs
  BY <1>b, <1>c
<1>1. Grows
  BY <1>0 DEF TypeInv, ServerTyped, Close, Grows
<1>2. [name |-> "conversation_ended"] \in Wire'
  BY DEF Wire
<1>3. WireTyped'
  BY <1>1, <1>2, RoomTyped, Answered DEF Close
<1> QED BY <1>1, <1>3, Untouched DEF TypeInv, Close, Grows

LEMMA CutTyped ==
  ASSUME TypeInv, Cut
  PROVE  TypeInv'
<1>1. Grows
  BY ServerStays DEF Cut
<1>2. FaultsTyped'
  BY FaultTyped DEF Cut
<1>3. SocketTyped'
  BY DEF TypeInv, SocketTyped, Cut, server
<1>4. WireTyped'
  BY DEF WireTyped, Cut
<1> QED BY <1>1, <1>2, <1>3, <1>4, Untouched DEF TypeInv, Cut, Grows

LEMMA DisconnectTyped ==
  ASSUME TypeInv, Disconnect
  PROVE  TypeInv'
<1>1. Grows
  BY ServerStays DEF Disconnect
<1>2. SocketTyped'
  BY DEF TypeInv, SocketTyped, Disconnect, server, Closed
<1>3. PageTyped'
  BY DEF TypeInv, PageTyped, Disconnect, server
<1> QED BY <1>1, <1>2, <1>3, Untouched DEF TypeInv, Disconnect, Grows

LEMMA ConnectTyped ==
  ASSUME TypeInv, Connect
  PROVE  TypeInv'
<1> DEFINE auth == IF page.token # 0 THEN page.token ELSE sock.auth
<1>1. Grows
  BY ServerStays DEF Connect
<1>2. auth \in {0} \cup DOMAIN issued
  BY DEF TypeInv, SocketTyped, PageTyped
<1>3. Valid(auth) => issued[auth] \in Visitors
  BY <1>2, Domains DEF TypeInv, Valid
<1>4. SocketTyped'
  <2>1. CASE Valid(auth)
    BY <2>1, <1>2, <1>3 DEF TypeInv, SocketTyped, Connect, server
  <2>2. CASE ~Valid(auth)
    BY <2>2 DEF TypeInv, SocketTyped, Connect, server, Closed
  <2> QED BY <2>1, <2>2
<1>5. PageTyped'
  <2>1. PageTyped /\ DOMAIN issued' = DOMAIN issued /\ DOMAIN convs' = DOMAIN convs
    BY DEF TypeInv, Connect, server
  <2>2. PICK n \in Nat : page' = [page EXCEPT !.epoch = n]
                         \/ page' = [page EXCEPT !.authFailed = TRUE, !.heal = TRUE]
    <3>1. page.epoch + 1 \in Nat
      BY <2>1 DEF PageTyped
    <3> QED BY <3>1 DEF Connect
  <2> QED BY <2>1, <2>2 DEF PageTyped
<1>6. UNCHANGED <<down, session, subscription, fetches, view, faults>>
  BY DEF Connect
<1> QED BY <1>1, <1>4, <1>5, <1>6, Untouched DEF TypeInv, Grows

-----------------------------------------------------------------------------
(* What the server answers, and what it makes of its sessions.              *)

LEMMA EmitStartTyped ==
  ASSUME TypeInv, EmitStart, page.token # 0, UNCHANGED <<issued, expired, log, readBy, buffer>>
  PROVE  Grows /\ SocketTyped' /\ WireTyped'
<1>0. DOMAIN issued = 1..Len(issued) /\ DOMAIN convs = 1..Len(convs) /\ Len(convs) \in Nat
  BY Domains DEF TypeInv
<1>1. CASE ~Live
  <2>1. UNCHANGED server /\ UNCHANGED <<sock, buffer>> /\ UNCHANGED down
    BY <1>1 DEF EmitStart, server
  <2> QED BY <2>1, ServerStays, Untouched
<1>2. CASE Live
  <2> DEFINE fresh == Open(sock.who) = {}
             c == IF fresh THEN Len(convs) + 1 ELSE CHOOSE x \in Open(sock.who) : TRUE
             e == [name |-> "started", conv |-> c, token |-> page.token, context |-> page.context]
  <2>1. sock.who \in Visitors
    BY <1>2 DEF TypeInv, SocketTyped, Live
  <2>2. /\ fresh => Len(convs) < MaxConvs
        /\ convs' = IF fresh THEN Append(convs, [owner |-> sock.who, open |-> TRUE]) ELSE convs
        /\ sock' = [sock EXCEPT !.rooms = @ \cup {c}] /\ Answer(<<e>>)
    BY <1>2 DEF EmitStart
  <2>3. Grows /\ c \in DOMAIN convs'
    <3>1. CASE fresh
      <4>1. [owner |-> sock.who, open |-> TRUE] \in [owner : Visitors, open : BOOLEAN]
        BY <2>1
      <4> QED BY <3>1, <4>1, <2>2, ConvsGrow
    <3>2. CASE ~fresh
      <4>1. Open(sock.who) # {} /\ c \in Open(sock.who) /\ convs' = convs
        BY <3>2, <2>2
      <4>2. UNCHANGED server
        BY <4>1 DEF server
      <4> QED BY <4>1, <4>2, ServerStays DEF Open
    <3> QED BY <3>1, <3>2
  <2>4. page.token \in DOMAIN issued' /\ page.context \in Known \cup {NoVisitor}
    BY DEF TypeInv, PageTyped
  <2> HIDE DEF c, fresh
  <2>5. e \in Wire'
    BY <2>3, <2>4 DEF Wire
  <2>6. SocketTyped'
    BY <2>2, <2>3 DEF TypeInv, SocketTyped, Grows
  <2>7. <<e>> \in Seq(Wire')
    BY <2>5, Singleton
  <2>8. WireTyped'
    BY <2>2, <2>3, <2>7, Answered
  <2> QED BY <2>3, <2>6, <2>8
<1> QED BY <1>1, <1>2

LEMMA EmitJoinTyped ==
  ASSUME TypeInv, NEW key \in GoodKeys, EmitJoin(key), UNCHANGED server, UNCHANGED buffer
  PROVE  SocketTyped' /\ WireTyped'
<1>1. Grows
  BY ServerStays
<1>2. CASE ~Live
  <2>1. UNCHANGED <<sock, buffer>> /\ UNCHANGED down
    BY <1>2 DEF EmitJoin
  <2> QED BY <1>1, <2>1, Untouched
<1>3. CASE Live
  <2> DEFINE own == convs[key.conv].owner = sock.who
             e == [name |-> IF own THEN "joined" ELSE "not_found", key |-> key]
  <2>1. /\ sock' = [sock EXCEPT !.rooms = IF own THEN @ \cup {key.conv} ELSE @]
        /\ Answer(<<e>>)
    BY <1>3 DEF EmitJoin
  <2>2. key.conv \in DOMAIN convs' /\ key \in GoodKeys'
    BY <1>1, GrownNames DEF GoodKeys, Grows, TypeInv
  <2>3. SocketTyped'
    BY <1>1, <2>1, <2>2 DEF TypeInv, SocketTyped, Grows, server
  <2>4. e \in Wire'
    BY <2>2 DEF Wire
  <2> HIDE DEF e
  <2>5. <<e>> \in Seq(Wire')
    BY <2>4, Singleton
  <2>6. WireTyped'
    BY <1>1, <2>1, <2>5, Answered
  <2> QED BY <2>3, <2>6
<1> QED BY <1>2, <1>3

LEMMA EmitSendTyped ==
  ASSUME TypeInv, NEW k \in Sends, NEW c \in DOMAIN convs, EmitSend(k, c),
         UNCHANGED <<issued, expired, convs, readBy>>
  PROVE  Grows /\ WireTyped'
<1> DEFINE m == Len(log) + 1
           push == ToRoom(c, [name |-> "new_message", id |-> m])
           sentAck == [name |-> "sent", send |-> k, id |-> m]
<1>1. CASE convs[c].owner = sock.who /\ convs[c].open
  <2>1. log' = Append(log, [conv |-> c, send |-> k])
        /\ (Answer(push \o <<sentAck>>) \/ Answer(<<sentAck>> \o push))
    BY <1>1 DEF EmitSend
  <2>2. Grows /\ m \in DOMAIN log'
    BY <2>1, LogGrows
  <2>3. [name |-> "new_message", id |-> m] \in Wire' /\ sentAck \in Wire'
    BY <2>2 DEF Wire
  <2> HIDE DEF m
  <2>4. push \in Seq(Wire')
    BY <2>3, RoomTyped
  <2>5. <<sentAck>> \in Seq(Wire')
    BY <2>3, Singleton
  <2> HIDE DEF push, sentAck
  <2>6. push \o <<sentAck>> \in Seq(Wire') /\ <<sentAck>> \o push \in Seq(Wire')
    BY <2>4, <2>5, ConcatProperties
  <2>7. WireTyped'
    BY <2>1, <2>2, <2>6, Answered
  <2> QED BY <2>2, <2>7
<1>2. CASE ~(convs[c].owner = sock.who /\ convs[c].open)
  <2>1. Answer(<<[name |-> "not_sent", send |-> k]>>) /\ UNCHANGED log
    BY <1>2 DEF EmitSend
  <2>2. Grows
    BY <2>1, ServerStays DEF server
  <2>3. [name |-> "not_sent", send |-> k] \in Wire'
    BY DEF Wire
  <2>4. <<[name |-> "not_sent", send |-> k]>> \in Seq(Wire')
    BY <2>3, Singleton
  <2> QED BY <2>1, <2>2, <2>4, Answered
<1> QED BY <1>1, <1>2

LEMMA FlushTyped ==
  ASSUME TypeInv, Flush
  PROVE  TypeInv'
<1>1. PICK b \in buffer : EmitSend(b.send, b.conv) /\ buffer' = buffer \ {b}
  BY DEF Flush
<1>2. b.send \in Sends /\ b.conv \in DOMAIN convs
  BY DEF TypeInv, SocketTyped
<1>3. Grows /\ WireTyped'
  BY <1>1, <1>2, EmitSendTyped DEF Flush
<1>4. SocketTyped'
  BY <1>1, <1>3 DEF TypeInv, SocketTyped, Grows, Flush
<1> QED BY <1>3, <1>4, Untouched DEF TypeInv, Grows, Flush

\* The copies the server hands out are typed.
LEMMA StoredTyped ==
  ASSUME ServerTyped
  PROVE  /\ \A m \in DOMAIN log : Shown(m) \in Copies /\ Pushed(m) \in Copies
         /\ \A c : History(c) \subseteq Copies
<1>1. \A m \in DOMAIN log : log[m].conv \in ConvIds /\ log[m].send \in Sends \cup {0}
  BY Domains
<1>2. \A m \in DOMAIN log : Shown(m) \in Copies /\ Pushed(m) \in Copies
  BY <1>1 DEF Shown, Pushed, Copies, Entry, Statuses
<1> QED BY <1>2 DEF History

LEMMA ServeFetchTyped ==
  ASSUME TypeInv, NEW f \in fetches, ServeFetch(f)
  PROVE  TypeInv'
<1>1. Grows
  BY ServerStays DEF ServeFetch
<1>2. History(f.conv) \subseteq Copies'
  BY <1>1, StoredTyped, GrownNames DEF TypeInv
<1>3. fetches \subseteq Requests'
  BY <1>1, GrownNames DEF TypeInv, FetchTyped
<1>4. [f EXCEPT !.st = "ok", !.seen = History(f.conv)] \in Requests'
  BY <1>2, <1>3 DEF Requests
<1>5. fetches' \subseteq fetches \cup {[f EXCEPT !.st = "ok", !.seen = History(f.conv)]}
  BY DEF ServeFetch
<1>7. FetchTyped'
  BY <1>3, <1>4, <1>5 DEF FetchTyped
<1>8. UNCHANGED <<sock, buffer>> /\ UNCHANGED down
  BY DEF ServeFetch, socket
<1> QED BY <1>1, <1>7, <1>8, Untouched DEF TypeInv, Grows, ServeFetch

-----------------------------------------------------------------------------
(* The session and its recovery.                                            *)

LEMMA RecoverTyped ==
  ASSUME TypeInv, NEW want \in BOOLEAN, NEW context \in Known \cup {NoVisitor},
         Recover(want, context), UNCHANGED stored
  PROVE  SessionTyped'
<1> DEFINE M == [kind : {"init", "remint"}, gen : Nat, want : BOOLEAN,
                 prev : Visitors \cup {NoVisitor}, claim : Visitors \cup {NoVisitor}]
<1>1. mints \subseteq M /\ stored \in Visitors \cup {NoVisitor} /\ reminted \in Nat
      /\ budget \in [token : Tokens, attempts : 0..MaxRecoveries, decayed : BOOLEAN]
  BY DEF TypeInv, SessionTyped
<1>2. page.token \in Tokens /\ page.gen \in Nat /\ page.visitor \in Visitors \cup {NoVisitor}
  BY Domains, BoundsAssumption DEF TypeInv, PageTyped, Tokens
<1>3. CASE Flight # {}
  <2>1. mints' = (mints \ Flight) \cup {[m EXCEPT !.want = @ \/ want] : m \in Flight}
        /\ UNCHANGED <<budget, reminted>>
    BY <1>3 DEF Recover
  <2>2. \A m \in M : [m EXCEPT !.want = @ \/ want] \in M
    OBVIOUS
  <2> HIDE DEF M
  <2>3. mints' \subseteq M
    BY <1>1, <2>1, <2>2 DEF Flight
  <2> QED BY <1>1, <2>1, <2>3 DEF SessionTyped, M
<1>4. CASE Flight = {} /\ CanAttempt
  <2>1. budget' = Attempted /\ reminted' = reminted + 1
        /\ mints' = mints \cup {Mint("remint", page.gen, want, page.visitor, Claim(context))}
    BY <1>4 DEF Recover
  <2>2. Claim(context) \in Visitors \cup {NoVisitor}
    BY <1>1, VisitorsAssumption DEF Claim
  <2>3. Mint("remint", page.gen, want, page.visitor, Claim(context)) \in M
    BY <1>2, <2>2 DEF Mint
  <2>4. Attempted \in [token : Tokens, attempts : 0..MaxRecoveries, decayed : BOOLEAN]
    BY <1>1, <1>2, <1>4, LimitsAssumption DEF Attempted, CanAttempt
  <2> QED BY <1>1, <2>1, <2>3, <2>4 DEF SessionTyped
<1>5. CASE Flight = {} /\ ~CanAttempt
  BY <1>1, <1>5 DEF Recover, SessionTyped
<1> QED BY <1>3, <1>4, <1>5

LEMMA HealTyped ==
  ASSUME TypeInv, Heal
  PROVE  TypeInv'
<1>1. Grows
  BY ServerStays DEF Heal
<1>2. PageTyped'
  BY DEF TypeInv, PageTyped, Heal, server
<1>3. page.context \in Known \cup {NoVisitor}
  BY DEF TypeInv, PageTyped
<1>4. SessionTyped'
  <2>1. CASE page.authFailed
    BY <2>1, <1>3, RecoverTyped DEF Heal
  <2>2. CASE ~page.authFailed
    BY <2>2, <1>1, Untouched DEF Heal, session
  <2> QED BY <2>1, <2>2
<1> QED BY <1>1, <1>2, <1>4, Untouched DEF TypeInv, Heal, Grows, socket

\* What the replies to the session requests make of the requests that waited.
LEMMA NotWaitingTyped ==
  ASSUME TypeInv, Grows, NEW m
  PROVE  /\ NotWaiting(m) \subseteq Requests'
         /\ \A t \in DOMAIN issued' : Resumed(m, t) \subseteq Requests'
<1>1. fetches \subseteq Requests'
  BY GrownNames DEF TypeInv, FetchTyped
<1>2. \A t \in DOMAIN issued', f \in Requests' :
        [f EXCEPT !.st = "sent", !.retried = TRUE, !.token = t] \in Requests'
  BY DEF Requests
<1> QED BY <1>1, <1>2 DEF NotWaiting, Resumed

LEMMA InitReplyTyped ==
  ASSUME TypeInv, NEW m \in mints, NEW v \in Visitors, InitReply(m, v)
  PROVE  TypeInv'
<1> DEFINE t == Len(issued) + 1
<1>1. Grows /\ t \in DOMAIN issued'
  BY IssuedGrows DEF InitReply
<1> HIDE DEF t
<1>2. PageTyped'
  <2>1. PageTyped /\ DOMAIN issued \subseteq DOMAIN issued' /\ DOMAIN convs \subseteq DOMAIN convs'
    BY <1>1 DEF TypeInv, Grows
  <2>2. page' = [page EXCEPT !.token = t, !.visitor = v, !.heal = page.authFailed]
        \/ page' = page
    BY DEF InitReply, t
  <2> QED BY <1>1, <2>1, <2>2 DEF PageTyped
<1>3. SessionTyped'
  <2>1. mints' \subseteq mints /\ budget' = budget /\ reminted' = reminted /\ stored' \in {stored, v}
    BY DEF InitReply
  <2> QED BY <2>1 DEF TypeInv, SessionTyped
<1>4. UNCHANGED <<sock, buffer>> /\ UNCHANGED <<down, subscription, fetches, view, faults>>
  BY DEF InitReply, socket
<1> QED BY <1>1, <1>2, <1>3, <1>4, Untouched DEF TypeInv, Grows

LEMMA RemintReplyTyped ==
  ASSUME TypeInv, NEW m \in mints, NEW v \in Visitors, RemintReply(m, v)
  PROVE  TypeInv'
<1> DEFINE t == Len(issued) + 1
<1>1. Grows /\ t \in DOMAIN issued' /\ t \in Tokens
  BY IssuedGrows DEF RemintReply
<1>2. SessionTyped /\ PageTyped /\ SocketTyped /\ WireTyped
  BY DEF TypeInv
<1>3. DOMAIN issued \subseteq DOMAIN issued' /\ DOMAIN convs \subseteq DOMAIN convs'
  BY <1>1 DEF Grows
<1>4. mints' \subseteq mints /\ reminted' = reminted /\ UNCHANGED <<subscription, view, faults>>
  BY DEF RemintReply
<1>5. NotWaiting(m) \subseteq Requests' /\ Resumed(m, t) \subseteq Requests'
  BY <1>1, NotWaitingTyped
<1>6. CASE m.gen = page.gen
  <2>1. /\ stored' = v /\ budget' = Followed(t)
        /\ page' = [page EXCEPT !.token = t, !.visitor = v, !.authFailed = FALSE,
                          !.started = @ /\ ~(Reconnects(m, v) /\ Connected)]
        /\ IF Reconnects(m, v) THEN Reconnect(t) ELSE ApplyToken(t)
        /\ fetches' = NotWaiting(m) \cup Resumed(m, t)
    BY <1>6 DEF RemintReply
  <2> HIDE DEF t
  <2>2. SessionTyped'
    BY <1>1, <1>2, <1>4, <2>1 DEF SessionTyped, Followed
  <2>3. PageTyped'
    <3>1. PICK s \in BOOLEAN :
            page' = [page EXCEPT !.token = t, !.visitor = v, !.authFailed = FALSE, !.started = s]
      <4>1. page.started \in BOOLEAN
        BY <1>2 DEF PageTyped
      <4>2. (page.started /\ ~(Reconnects(m, v) /\ Connected)) \in BOOLEAN
        OBVIOUS
      <4> QED BY <4>2, <2>1
    <3> QED BY <1>1, <1>2, <1>3, <3>1 DEF PageTyped
  <2>4. SocketTyped' /\ WireTyped'
    <3>1. CASE Reconnects(m, v)
      <4>1. down' = <<>> /\ buffer' = buffer
            /\ sock' = Closed(IF sock.state = "none" THEN "none" ELSE "off", t)
        BY <3>1, <2>1 DEF Reconnect
      <4> QED BY <1>1, <1>2, <1>3, <4>1 DEF SocketTyped, WireTyped, Closed
    <3>2. CASE ~Reconnects(m, v)
      <4>1. down' = down /\ buffer' = buffer
            /\ sock' = IF sock.state = "none" THEN sock ELSE [sock EXCEPT !.auth = t]
        BY <3>2, <2>1 DEF ApplyToken
      <4>2. SocketTyped'
        BY <1>1, <1>2, <1>3, <4>1 DEF SocketTyped
      <4>3. WireTyped'
        BY <1>1, <4>1, Untouched
      <4> QED BY <4>2, <4>3
    <3> QED BY <3>1, <3>2
  <2>5. FetchTyped'
    BY <1>5, <2>1 DEF FetchTyped
  <2> QED BY <1>1, <1>4, <2>2, <2>3, <2>4, <2>5, Untouched DEF TypeInv, Grows
<1>7. CASE m.gen # page.gen
  <2>1. fetches' = NotWaiting(m) /\ UNCHANGED <<stored, budget, page, socket>>
    BY <1>7 DEF RemintReply
  <2>2. SessionTyped'
    BY <1>2, <1>4, <2>1 DEF SessionTyped
  <2>3. FetchTyped'
    BY <1>5, <2>1 DEF FetchTyped
  <2>4. UNCHANGED <<sock, buffer>> /\ UNCHANGED down
    BY <2>1 DEF socket
  <2> QED BY <1>1, <1>4, <2>1, <2>2, <2>3, <2>4, Untouched DEF TypeInv, Grows
<1> QED BY <1>6, <1>7

LEMMA MintFailsTyped ==
  ASSUME TypeInv, NEW m \in mints, MintFails(m)
  PROVE  TypeInv'
<1>1. Grows
  BY ServerStays DEF MintFails
<1>2. FaultsTyped'
  BY FaultTyped DEF MintFails
<1>3. SessionTyped'
  BY DEF TypeInv, SessionTyped, MintFails
<1>4. FetchTyped'
  <2>1. fetches' \subseteq fetches
    BY DEF MintFails, NotWaiting
  <2> QED BY <1>1, <2>1, GrownNames DEF TypeInv, FetchTyped
<1> QED BY <1>1, <1>2, <1>3, <1>4, Untouched DEF TypeInv, MintFails, Grows, socket

LEMMA LoginTyped ==
  ASSUME TypeInv, NEW v \in Known, Login(v)
  PROVE  TypeInv'
<1>1. Grows
  BY ServerStays DEF Login
<1>2. FaultsTyped'
  BY FaultTyped DEF Login
<1>3. page.gen + 1 \in Nat /\ v \in Visitors
  BY VisitorsAssumption DEF TypeInv, PageTyped
<1>4. SessionTyped'
  <2>1. Mint("init", page.gen + 1, FALSE, NoVisitor, v)
          \in [kind : {"init", "remint"}, gen : Nat, want : BOOLEAN,
               prev : Visitors \cup {NoVisitor}, claim : Visitors \cup {NoVisitor}]
    BY <1>3 DEF Mint
  <2> QED BY <2>1 DEF TypeInv, SessionTyped, Login
<1>5. PageTyped'
  <2>1. PICK g \in Nat :
          page' = [page EXCEPT !.context = v, !.gen = g, !.token = 0, !.visitor = NoVisitor,
                     !.heal = page.authFailed, !.conv = 0, !.started = FALSE, !.ended = FALSE]
    BY <1>3 DEF Login
  <2>2. PageTyped /\ DOMAIN issued' = DOMAIN issued /\ DOMAIN convs' = DOMAIN convs
    BY DEF TypeInv, Login, server
  <2> QED BY <2>1, <2>2 DEF PageTyped
<1>6. ViewTyped'
  BY DEF TypeInv, ViewTyped, Login
<1> QED BY <1>1, <1>2, <1>4, <1>5, <1>6, Untouched DEF TypeInv, Login, Grows, socket

-----------------------------------------------------------------------------
(* What comes over the socket.                                              *)

\* What is taken off the wire is typed, and what stays there is.
LEMMA Delivered ==
  ASSUME TypeInv, NEW name, Deliver(name)
  PROVE  Head(down) \in Wire /\ Head(down).name = name /\ down' \in Seq(Wire)
BY HeadTailProperties DEF TypeInv, WireTyped, Deliver

LEMMA EventTyped ==
  ASSUME TypeInv, NEW name, Deliver(name), UNCHANGED server, UNCHANGED sock, UNCHANGED buffer
  PROVE  Grows /\ WireTyped' /\ SocketTyped'
<1>1. Grows
  BY ServerStays
<1>2. WireTyped'
  BY <1>1, Delivered, GrownNames, SeqMonotonic DEF TypeInv, WireTyped
<1>3. SocketTyped'
  BY <1>1, Untouched
<1> QED BY <1>1, <1>2, <1>3

LEMMA FetchMade ==
  ASSUME TypeInv, NEW kind \in {"start", "join"}, NEW c \in DOMAIN convs, NEW t \in DOMAIN issued,
         NEW key \in {NoKey} \cup GoodKeys, NEW context \in Known \cup {NoVisitor}
  PROVE  Fetch(kind, c, t, key, context) \in Requests
BY DEF Fetch, Requests

LEMMA OnStartedTyped ==
  ASSUME TypeInv, OnStarted
  PROVE  TypeInv'
<1> DEFINE e == Head(down)
<1>1. Grows /\ WireTyped' /\ SocketTyped'
  BY EventTyped DEF OnStarted
<1>2. e.conv \in DOMAIN convs /\ e.token \in DOMAIN issued /\ e.context \in Known \cup {NoVisitor}
  <2>1. e \in Wire /\ e.name = "started"
    BY Delivered DEF OnStarted
  <2> HIDE DEF e
  <2> QED BY <2>1 DEF Wire
<1>3. page' = [page EXCEPT !.conv = e.conv, !.ended = FALSE]
      /\ fetches' = fetches \cup {Fetch("start", e.conv, e.token, NoKey, e.context)}
  BY DEF OnStarted
<1> HIDE DEF e
<1>4. PageTyped'
  BY <1>1, <1>2, <1>3 DEF TypeInv, PageTyped, Grows
<1>5. Fetch("start", e.conv, e.token, NoKey, e.context) \in Requests
  BY <1>2, FetchMade
<1>6. FetchTyped'
  BY <1>1, <1>3, <1>5, GrownNames DEF TypeInv, FetchTyped
<1> QED BY <1>1, <1>4, <1>6, Untouched DEF TypeInv, OnStarted, Grows

LEMMA OnJoinedTyped ==
  ASSUME TypeInv, OnJoined
  PROVE  TypeInv'
<1> DEFINE key == Head(down).key
           f == Fetch("join", key.conv, key.token, key, page.context)
<1>1. Grows /\ WireTyped' /\ SocketTyped'
  BY EventTyped DEF OnJoined
<1>2. key \in GoodKeys
  <2>1. Head(down) \in Wire /\ Head(down).name = "joined"
    BY Delivered DEF OnJoined
  <2> QED BY <2>1 DEF Wire
<1>3. \/ UNCHANGED <<subscription, fetches>>
      \/ /\ sub' = [sub EXCEPT !.st = "joined"] /\ replaced' = [replaced EXCEPT !.conv = 0]
         /\ fetches' = fetches \cup {f}
  BY DEF OnJoined
<1> HIDE DEF key
<1>4. key.conv \in DOMAIN convs /\ key.token \in DOMAIN issued
  BY <1>2 DEF GoodKeys
<1>5. f \in Requests
  BY <1>2, <1>4, FetchMade DEF TypeInv, PageTyped
<1> HIDE DEF f
<1>6. CASE UNCHANGED <<subscription, fetches>>
  BY <1>1, <1>6, Untouched DEF TypeInv, OnJoined, Grows
<1>7. CASE /\ sub' = [sub EXCEPT !.st = "joined"] /\ replaced' = [replaced EXCEPT !.conv = 0]
           /\ fetches' = fetches \cup {f}
  <2>1. FetchTyped'
    BY <1>1, <1>5, <1>7, GrownNames DEF TypeInv, FetchTyped
  <2>2. SubTyped'
    <3>1. 0 \in ConvIds /\ GoodKeys \subseteq GoodKeys'
      BY <1>1, GrownNames, BoundsAssumption DEF ConvIds, TypeInv
    <3> QED BY <1>7, <3>1 DEF TypeInv, SubTyped
  <2> QED BY <1>1, <2>1, <2>2, Untouched DEF TypeInv, OnJoined, Grows
<1> QED BY <1>3, <1>6, <1>7

LEMMA OnNotFoundTyped ==
  ASSUME TypeInv, OnNotFound
  PROVE  TypeInv'
<1> DEFINE key == Head(down).key
           r == IF replaced.epoch = key.epoch THEN replaced
                                              ELSE [epoch |-> key.epoch, count |-> 0, conv |-> 0]
<1>1. Grows /\ WireTyped' /\ SocketTyped'
  BY EventTyped DEF OnNotFound
<1>2. key \in GoodKeys
  <2>1. Head(down) \in Wire /\ Head(down).name = "not_found"
    BY Delivered DEF OnNotFound
  <2> QED BY <2>1 DEF Wire
<1>3. \/ UNCHANGED <<subscription, page>>
      \/ /\ sub' = [sub EXCEPT !.st = "degraded"]
         /\ replaced' = IF r.conv = 0 THEN [r EXCEPT !.conv = key.conv] ELSE r
         /\ UNCHANGED page
      \/ /\ r.count < MaxReplaces
         /\ replaced' = [epoch |-> key.epoch, count |-> r.count + 1, conv |-> key.conv]
         /\ page' = [page EXCEPT !.started = FALSE, !.conv = 0]
         /\ UNCHANGED sub
  <2>1. replaced.count \in Nat
    BY DEF TypeInv, SubTyped
  <2>2. r.count \in Nat
    BY <2>1
  <2> DEFINE giveUp == key.ended \/ r.count >= MaxReplaces \/ r.conv = key.conv
  <2>3. CASE key # sub.key
    BY <2>3 DEF OnNotFound
  <2>4. CASE key = sub.key /\ giveUp
    BY <2>4 DEF OnNotFound
  <2>5. CASE key = sub.key /\ ~giveUp
    BY <2>2, <2>5, LimitsAssumption DEF OnNotFound
  <2> QED BY <2>3, <2>4, <2>5
<1> HIDE DEF key
<1>4. key.epoch \in Nat /\ key.conv \in ConvIds /\ 0 \in ConvIds
  BY <1>2, BoundsAssumption DEF GoodKeys, Keys, ConvIds
<1>5. r \in [epoch : Nat, count : 0..MaxReplaces, conv : ConvIds]
  BY <1>4, LimitsAssumption DEF TypeInv, SubTyped
<1> HIDE DEF r
<1>6. SubTyped'
  <2>1. GoodKeys \subseteq GoodKeys' /\ SubTyped
    BY <1>1, GrownNames DEF TypeInv
  <2>2. replaced' \in [epoch : Nat, count : 0..MaxReplaces, conv : ConvIds]
    BY <1>3, <1>4, <1>5, <2>1, LimitsAssumption DEF SubTyped, subscription
  <2>3. sub' = sub \/ sub' = [sub EXCEPT !.st = "degraded"]
    BY <1>3 DEF subscription
  <2> QED BY <2>1, <2>2, <2>3 DEF SubTyped
<1>7. PageTyped'
  BY <1>1, <1>3 DEF TypeInv, PageTyped, Grows
<1> QED BY <1>1, <1>6, <1>7, Untouched DEF TypeInv, OnNotFound, Grows

\* An event that changes the list only.
LEMMA ListEventTyped ==
  ASSUME TypeInv, NEW name, Deliver(name), list' \subseteq Copies \cup Bubbles,
         UNCHANGED <<server, sock, buffer, session, page, subscription, fetches, mixed, sent, faults>>
  PROVE  TypeInv'
<1>1. Grows /\ WireTyped' /\ SocketTyped'
  BY EventTyped
<1>2. ViewTyped'
  BY <1>1, GrownNames DEF TypeInv, ViewTyped, Bubbles
<1> QED BY <1>1, <1>2, Untouched DEF TypeInv, Grows

LEMMA OnSentTyped ==
  ASSUME TypeInv, OnSent
  PROVE  TypeInv'
<1>1. Head(down) \in Wire /\ Head(down).name = "sent" /\ Deliver("sent")
  BY Delivered DEF OnSent
<1>2. Head(down).id \in DOMAIN log
  BY <1>1 DEF Wire
<1>3. Pushed(Head(down).id) \in Copies
  BY <1>2, StoredTyped DEF TypeInv
<1>4. list' \subseteq Copies \cup Bubbles
  BY <1>3 DEF TypeInv, ViewTyped, OnSent, ConfirmOptimistic, Without
<1> QED BY <1>1, <1>4, ListEventTyped DEF OnSent

LEMMA OnNotSentTyped ==
  ASSUME TypeInv, OnNotSent
  PROVE  TypeInv'
<1>1. list' \subseteq Copies \cup Bubbles
  BY DEF TypeInv, ViewTyped, OnNotSent, Without
<1> QED BY <1>1, ListEventTyped DEF OnNotSent

LEMMA OnNewMessageTyped ==
  ASSUME TypeInv, OnNewMessage
  PROVE  TypeInv'
<1>1. Head(down) \in Wire /\ Head(down).name = "new_message" /\ Deliver("new_message")
  BY Delivered DEF OnNewMessage
<1>2. Head(down).id \in DOMAIN log
  BY <1>1 DEF Wire
<1>3. Pushed(Head(down).id) \in Copies
  BY <1>2, StoredTyped DEF TypeInv
<1>4. list' \subseteq Copies \cup Bubbles
  BY <1>3 DEF TypeInv, ViewTyped, OnNewMessage, NewMessage, Without
<1> QED BY <1>1, <1>4, ListEventTyped DEF OnNewMessage

LEMMA ReadTyped ==
  ASSUME NEW e \in Copies \cup Bubbles
  PROVE  [e EXCEPT !.status = "read"] \in Copies \cup Bubbles
BY DEF Copies, Bubbles, Statuses

LEMMA OnReadTyped ==
  ASSUME TypeInv, OnRead
  PROVE  TypeInv'
<1>1. list' \subseteq Copies \cup Bubbles
  BY ReadTyped DEF TypeInv, ViewTyped, OnRead, MarkRead
<1> QED BY <1>1, ListEventTyped DEF OnRead

LEMMA OnEndedTyped ==
  ASSUME TypeInv, OnEnded
  PROVE  TypeInv'
<1>1. Grows /\ WireTyped' /\ SocketTyped'
  BY EventTyped DEF OnEnded
<1>2. PageTyped'
  BY <1>1 DEF TypeInv, PageTyped, OnEnded, Grows
<1> QED BY <1>1, <1>2, Untouched DEF TypeInv, OnEnded, Grows

-----------------------------------------------------------------------------
(* The effects, the history replies and the visitor.                        *)

LEMMA StartEffectTyped ==
  ASSUME TypeInv, StartEffect
  PROVE  TypeInv'
<1>1. Grows /\ SocketTyped' /\ WireTyped'
  BY EmitStartTyped DEF StartEffect
<1>2. PageTyped'
  BY <1>1 DEF TypeInv, PageTyped, StartEffect, Grows
<1> QED BY <1>1, <1>2, Untouched DEF TypeInv, StartEffect, Grows

LEMMA SubscriptionKeyTyped ==
  ASSUME TypeInv
  PROVE  SubscriptionKey = NoKey \/ SubscriptionKey \in GoodKeys
<1>1. PageTyped /\ DOMAIN convs \subseteq ConvIds /\ DOMAIN issued \subseteq Tokens
  BY Domains DEF TypeInv
<1> QED BY <1>1 DEF PageTyped, SubscriptionKey, GoodKeys, Keys

LEMMA JoinEffectTyped ==
  ASSUME TypeInv, JoinEffect
  PROVE  TypeInv'
<1>1. Grows
  BY ServerStays DEF JoinEffect
<1>2. SubscriptionKey = NoKey \/ SubscriptionKey \in GoodKeys
  BY SubscriptionKeyTyped
<1>3. SocketTyped' /\ WireTyped'
  <2>1. CASE SubscriptionKey = NoKey
    BY <1>1, <2>1, Untouched DEF JoinEffect
  <2>2. CASE SubscriptionKey # NoKey
    BY <1>2, <2>2, EmitJoinTyped DEF JoinEffect
  <2> QED BY <2>1, <2>2
<1>4. SubTyped'
  BY <1>1, <1>2, GrownNames DEF TypeInv, SubTyped, JoinEffect
<1>5. FetchTyped'
  <2>1. fetches' \subseteq fetches
    BY DEF JoinEffect
  <2> QED BY <1>1, <2>1, GrownNames DEF TypeInv, FetchTyped
<1> QED BY <1>1, <1>3, <1>4, <1>5, Untouched DEF TypeInv, JoinEffect, Grows

LEMMA FetchRefusedTyped ==
  ASSUME TypeInv, NEW f \in fetches, FetchRefused(f)
  PROVE  TypeInv'
<1>1. Grows
  BY ServerStays DEF FetchRefused
<1>2. f \in Requests /\ fetches \subseteq Requests /\ Requests \subseteq Requests'
  BY <1>1, GrownNames DEF TypeInv, FetchTyped
<1>3. FetchTyped'
  <2>1. page.gen \in Nat
    BY DEF TypeInv, PageTyped
  <2>2. [f EXCEPT !.st = "waiting", !.gen = page.gen] \in Requests
    BY <1>2, <2>1 DEF Requests
  <2>3. fetches' \subseteq fetches \cup {[f EXCEPT !.st = "waiting", !.gen = page.gen]}
    BY DEF FetchRefused
  <2> QED BY <1>2, <2>2, <2>3 DEF FetchTyped
<1>4. SessionTyped'
  <2>1. CASE f.retried
    BY <1>1, <2>1, Untouched DEF FetchRefused, session
  <2>2. CASE ~f.retried
    <3>1. f.context \in Known \cup {NoVisitor}
      BY <1>2 DEF Requests
    <3> QED BY <2>2, <3>1, RecoverTyped DEF FetchRefused
  <2> QED BY <2>1, <2>2
<1> QED BY <1>1, <1>3, <1>4, Untouched DEF TypeInv, FetchRefused, Grows, socket

\* A history put on show is made of copies.
LEMMA MergedTyped ==
  ASSUME NEW kept, NEW history \in SUBSET Copies
  PROVE  Merged(kept, history) \subseteq Copies
<1>1. \A e \in Copies : [e EXCEPT !.status = "read"] \in Copies
  BY DEF Copies, Statuses
<1> QED BY <1>1 DEF Merged, MergeMessageUpdate

LEMMA FetchLandsTyped ==
  ASSUME TypeInv, NEW f \in fetches, FetchLands(f)
  PROVE  TypeInv'
<1>1. Grows
  BY ServerStays DEF FetchLands
<1>2. FetchTyped'
  <2>1. fetches' \subseteq fetches
    BY DEF FetchLands
  <2> QED BY <1>1, <2>1, GrownNames DEF TypeInv, FetchTyped
<1>3. ViewTyped'
  <2>1. f.seen \subseteq Copies
    BY DEF TypeInv, FetchTyped, Requests
  <2>2. list' \subseteq Copies \cup Bubbles
    BY <2>1, MergedTyped DEF FetchLands, Reconcile, TypeInv, ViewTyped
  <2>3. mixed' \in BOOLEAN
    BY DEF FetchLands, TypeInv, ViewTyped
  <2> QED BY <1>1, <2>2, <2>3, GrownNames DEF FetchLands, TypeInv, ViewTyped, Bubbles
<1>4. UNCHANGED <<sock, buffer>> /\ UNCHANGED down
  BY DEF FetchLands, socket
<1> QED BY <1>1, <1>2, <1>3, <1>4, Untouched DEF TypeInv, FetchLands, Grows

LEMMA SendTyped ==
  ASSUME TypeInv, NEW k \in Sends, Send(k)
  PROVE  TypeInv'
<1>1. page.conv \in DOMAIN convs /\ page.conv \in ConvIds /\ page.epoch \in Nat
  BY Domains DEF TypeInv, PageTyped, Send
<1>2. Grows /\ WireTyped' /\ SocketTyped'
  <2>1. UNCHANGED <<issued, expired, convs, readBy>> /\ sock' = sock
    BY DEF Send
  <2>2. \/ EmitSend(k, page.conv) /\ buffer' = buffer
        \/ UNCHANGED <<log, down>> /\ buffer' = buffer
        \/ UNCHANGED <<log, down>> /\ buffer' = buffer \cup {[send |-> k, conv |-> page.conv]}
    BY DEF Send, TypeInv, SocketTyped
  <2>3. CASE EmitSend(k, page.conv) /\ buffer' = buffer
    <3>1. Grows /\ WireTyped'
      BY <1>1, <2>1, <2>3, EmitSendTyped
    <3> QED BY <2>1, <2>3, <3>1, Untouched
  <2>4. CASE UNCHANGED <<log, down>> /\ buffer' \subseteq buffer \cup {[send |-> k, conv |-> page.conv]}
    <3>1. Grows
      BY <2>1, <2>4, ServerStays DEF server
    <3>2. SocketTyped'
      BY <1>1, <2>1, <2>4, <3>1 DEF TypeInv, SocketTyped, Grows
    <3> QED BY <2>4, <3>1, <3>2, Untouched
  <2> QED BY <2>2, <2>3, <2>4
<1>3. ViewTyped'
  <2>1. Entry(-k, page.conv, k, "sending") \in Bubbles
    BY <1>1, SendsAssumption DEF Entry, Bubbles, Statuses
  <2>2. list' \subseteq Copies \cup Bubbles
    BY <2>1 DEF Send, AddOptimistic, TypeInv, ViewTyped
  <2>3. sent' \in [Sends -> Nat]
    BY <1>1 DEF Send, TypeInv, ViewTyped
  <2> QED BY <1>2, <2>2, <2>3, GrownNames DEF Send, TypeInv, ViewTyped, Bubbles
<1> QED BY <1>2, <1>3, Untouched DEF TypeInv, Send, Grows

LEMMA RestartTyped ==
  ASSUME TypeInv, Restart
  PROVE  TypeInv'
<1>1. Grows /\ SocketTyped' /\ WireTyped'
  BY EmitStartTyped DEF Restart
<1>2. PageTyped'
  BY <1>1 DEF TypeInv, PageTyped, Restart, Grows
<1>3. ViewTyped'
  BY DEF TypeInv, ViewTyped, Restart
<1> QED BY <1>1, <1>2, <1>3, Untouched DEF TypeInv, Restart, Grows

-----------------------------------------------------------------------------
LEMMA StartsTyped == Init => TypeInv
<1> SUFFICES ASSUME Init PROVE TypeInv
  OBVIOUS
<1>1. /\ issued = <<>> /\ convs = <<>> /\ log = <<>> /\ down = <<>>
      /\ DOMAIN issued = {} /\ DOMAIN convs = {} /\ DOMAIN log = {}
  BY DEF Init
<1>2. 0 \in ConvIds /\ 0 \in Tokens /\ 0 \in 0..MaxFaults /\ 0 \in 0..MaxRecoveries
      /\ 0 \in 0..MaxReplaces
  BY BoundsAssumption, LimitsAssumption DEF ConvIds, Tokens
<1>3. ServerTyped
  BY <1>1, BoundsAssumption, EmptySeq DEF Init, ServerTyped
<1>4. SocketTyped /\ WireTyped /\ PageTyped
  BY <1>1 DEF Init, SocketTyped, WireTyped, PageTyped
<1>5. SessionTyped
  BY <1>2 DEF Init, SessionTyped, Mint
<1>6. SubTyped /\ FetchTyped /\ ViewTyped /\ FaultsTyped
  BY <1>2 DEF Init, SubTyped, FetchTyped, ViewTyped, FaultsTyped
<1> QED BY <1>3, <1>4, <1>5, <1>6 DEF TypeInv

LEMMA StepsTyped == TypeInv /\ [Next]_vars => TypeInv'
<1> SUFFICES ASSUME TypeInv, [Next]_vars PROVE TypeInv'
  OBVIOUS
<1>1. CASE Effects
  BY <1>1, HealTyped, StartEffectTyped, JoinEffectTyped DEF Effects
<1>2. CASE World
  BY <1>2, ExpireTyped, LoseCredentialTyped, DecayTyped, CutTyped, AgentWritesTyped,
     AgentReadsTyped, CloseTyped, MintFailsTyped, LoginTyped DEF World
<1>3. CASE Visitor
  BY <1>3, RestartTyped, SendTyped DEF Visitor
<1>4. CASE Link
  BY <1>4, DisconnectTyped, ConnectTyped, FlushTyped DEF Link
<1>5. CASE Minting
  BY <1>5, InitReplyTyped, RemintReplyTyped DEF Minting
<1>6. CASE Events
  BY <1>6, OnStartedTyped, OnJoinedTyped, OnNotFoundTyped, OnSentTyped, OnNotSentTyped,
     OnNewMessageTyped, OnReadTyped, OnEndedTyped DEF Events
<1>7. CASE Reading
  BY <1>7, ServeFetchTyped, FetchRefusedTyped, FetchLandsTyped DEF Reading
<1>8. CASE UNCHANGED vars
  <2>1. UNCHANGED <<server, socket, session, page, subscription, fetches, view, faults>>
    BY <1>8 DEF vars
  <2>2. UNCHANGED <<sock, buffer>> /\ UNCHANGED down
    BY <2>1 DEF socket
  <2>3. Grows
    BY <2>1, ServerStays
  <2> QED BY <2>1, <2>2, <2>3, Untouched DEF TypeInv, Grows
<1> QED BY <1>1, <1>2, <1>3, <1>4, <1>5, <1>6, <1>7, <1>8 DEF Next

LEMMA AlwaysTyped == Spec => []TypeInv
<1>1. Init => TypeInv
  BY StartsTyped
<1>2. TypeInv /\ [Next]_vars => TypeInv'
  BY StepsTyped
<1> QED BY <1>1, <1>2, PTL DEF Spec

\* The types of everything the page, the socket and the server hold.
THEOREM ChatTypeCorrect == Spec => []TypeOK
<1>1. TypeInv => TypeOK
  BY TypesAreTypeOK
<1> QED BY <1>1, AlwaysTyped, PTL

-----------------------------------------------------------------------------
(* The budget of session recoveries, before the first login.                *)

\* Before its first token the page has nothing that could ask for another.
Quiet ==
  /\ sock.state = "none" /\ convs = <<>> /\ down = <<>> /\ fetches = {}
  /\ ~page.authFailed /\ ~page.heal

Unspent ==
  budget.attempts = 0 /\ reminted = 0 /\ \A m \in mints : m.kind # "remint"

\* What was begun was spent: the first session request is answered once, and
\* the budget follows the token of every later one.
BudgetInv ==
  page.gen = 0 =>
    /\ page.token = 0 => Quiet
    /\ \A m \in mints : m.kind = "init" /\ m.gen = 0 =>
         page.token = 0 /\ m = Mint("init", 0, FALSE, NoVisitor, NoVisitor)
    /\ page.token = 0 \/ budget.token # page.token => Unspent
    /\ reminted <= budget.attempts
    /\ budget.decayed => reminted = 0

\* A step that spends nothing and leaves the page its token.
LEMMA BudgetStays ==
  ASSUME BudgetInv, UNCHANGED <<budget, reminted>>, mints' \subseteq mints,
         page'.gen = page.gen, page'.token = page.token,
         Quiet => Quiet' \/ page'.token # 0
  PROVE  BudgetInv'
BY DEF BudgetInv, Unspent

LEMMA QuietStays ==
  ASSUME UNCHANGED <<sock, convs, down, fetches, page>>
  PROVE  Quiet => Quiet'
BY DEF Quiet

\* What an effect or a reply spends.
LEMMA RecoverBudget ==
  ASSUME TypeInv, BudgetInv, ~Quiet, NEW want \in BOOLEAN, NEW context,
         Recover(want, context) \/ UNCHANGED <<mints, budget, reminted>>,
         page'.gen = page.gen, page'.token = page.token
  PROVE  BudgetInv'
<1> SUFFICES ASSUME page.gen = 0 PROVE BudgetInv'
  BY DEF BudgetInv
<1>1. page.token # 0
  BY DEF BudgetInv
<1>2. /\ reminted \in Nat /\ budget.attempts \in Nat
      /\ budget \in [token : Tokens, attempts : 0..MaxRecoveries, decayed : BOOLEAN]
  BY DEF TypeInv, SessionTyped
<1>3. CASE Flight # {} \/ ~CanAttempt \/ UNCHANGED <<mints, budget, reminted>>
  <2>1. UNCHANGED <<budget, reminted>>
    BY <1>3 DEF Recover
  <2>2. \A m \in mints' : m \in mints \/ (m.kind = "remint" /\ Flight # {})
    <3>1. CASE UNCHANGED mints
      BY <3>1
    <3>2. CASE /\ Flight # {}
               /\ mints' = (mints \ Flight) \cup {[m EXCEPT !.want = @ \/ want] : m \in Flight}
      <4>1. \A m \in Flight : [m EXCEPT !.want = @ \/ want].kind = m.kind
        BY DEF Flight, TypeInv, SessionTyped
      <4> QED BY <3>2, <4>1 DEF Flight
    <3> QED BY <1>3, <3>1, <3>2 DEF Recover
  <2>3. Flight # {} => \E m \in mints : m.kind = "remint"
    BY DEF Flight
  <2> QED BY <1>1, <2>1, <2>2, <2>3 DEF BudgetInv, Unspent
<1>4. CASE Flight = {} /\ CanAttempt /\ Recover(want, context)
  <2>1. budget' = Attempted /\ reminted' = reminted + 1
        /\ mints' = mints \cup {Mint("remint", page.gen, want, page.visitor, Claim(context))}
    BY <1>4 DEF Recover
  <2>2. \A m \in mints' : ~(m.kind = "init" /\ m.gen = 0)
    <3>1. \A m \in mints' : m \in mints \/ m.kind = "remint"
      BY <2>1 DEF Mint
    <3>2. \A m \in mints : ~(m.kind = "init" /\ m.gen = 0)
      BY <1>1 DEF BudgetInv
    <3> QED BY <3>1, <3>2
  <2>3. CASE budget.decayed \/ budget.token # page.token
    <3>1. reminted = 0 /\ budget' = [token |-> page.token, attempts |-> 1, decayed |-> FALSE]
      BY <2>1, <2>3 DEF Attempted, BudgetInv, Unspent
    <3>2. budget'.token = page'.token /\ reminted' <= budget'.attempts /\ ~budget'.decayed
      BY <2>1, <3>1
    <3> QED BY <1>1, <2>2, <3>2 DEF BudgetInv
  <2>4. CASE ~budget.decayed /\ budget.token = page.token
    <3>1. budget'.token = page.token /\ budget'.attempts = budget.attempts + 1 /\ ~budget'.decayed
      BY <1>2, <2>1, <2>4 DEF Attempted
    <3>2. reminted <= budget.attempts
      BY DEF BudgetInv
    <3>3. reminted' <= budget'.attempts
      BY <1>2, <2>1, <3>1, <3>2
    <3> QED BY <1>1, <2>2, <3>1, <3>3 DEF BudgetInv
  <2> QED BY <2>3, <2>4
<1> QED BY <1>3, <1>4

LEMMA InitReplyBudget ==
  ASSUME TypeInv, BudgetInv, NEW m \in mints, NEW v \in Visitors, InitReply(m, v)
  PROVE  BudgetInv'
<1>1. page'.gen = page.gen
  BY DEF InitReply, TypeInv, PageTyped
<1>2. CASE m.gen # page.gen
  <2>1. mints' \subseteq mints /\ page' = page /\ UNCHANGED <<sock, convs, down, fetches>>
        /\ UNCHANGED <<budget, reminted>>
    BY <1>2 DEF InitReply, socket
  <2> QED BY <2>1, BudgetStays, QuietStays
<1>3. CASE m.gen = page.gen /\ page.gen = 0
  <2>1. m = Mint("init", 0, FALSE, NoVisitor, NoVisitor) /\ page.token = 0 /\ Unspent
    BY <1>3 DEF InitReply, BudgetInv
  <2>2. page'.token # 0
    <3>1. page' = [page EXCEPT !.token = Len(issued) + 1, !.visitor = v, !.heal = page.authFailed]
      BY <1>3 DEF InitReply
    <3>2. page'.token = Len(issued) + 1
      BY <3>1 DEF TypeInv, PageTyped
    <3> QED BY <3>2, Domains DEF TypeInv
  <2>3. mints' = mints \ {m} /\ UNCHANGED <<budget, reminted>>
    BY DEF InitReply
  <2>4. \A n \in mints' : ~(n.kind = "init" /\ n.gen = 0)
    BY <1>3, <2>1, <2>3 DEF BudgetInv
  <2> QED BY <1>1, <1>3, <2>1, <2>2, <2>3, <2>4 DEF BudgetInv, Unspent
<1>4. CASE page.gen # 0
  BY <1>1, <1>4 DEF BudgetInv
<1> QED BY <1>2, <1>3, <1>4

LEMMA RemintReplyBudget ==
  ASSUME TypeInv, BudgetInv, NEW m \in mints, NEW v \in Visitors, RemintReply(m, v)
  PROVE  BudgetInv'
<1>1. page'.gen = page.gen
  BY DEF RemintReply, TypeInv, PageTyped
<1>2. CASE page.gen # 0
  BY <1>1, <1>2 DEF BudgetInv
<1>3. CASE page.gen = 0
  <2>1. page.token # 0 /\ budget.token = page.token
    BY <1>3 DEF RemintReply, BudgetInv, Unspent
  <2>2. mints' \subseteq mints /\ reminted' = reminted
    BY DEF RemintReply
  <2>3. CASE m.gen # page.gen
    BY <1>3, <2>1, <2>2, <2>3 DEF RemintReply, BudgetInv
  <2>4. CASE m.gen = page.gen
    <3>1. page'.token = Len(issued) + 1 /\ budget'.token = Len(issued) + 1
          /\ budget'.attempts = budget.attempts /\ budget'.decayed = budget.decayed
      <4> DEFINE t == Len(issued) + 1
      <4>1. /\ budget' = [budget EXCEPT !.token = t]
            /\ page' = [page EXCEPT !.token = t, !.visitor = v, !.authFailed = FALSE,
                              !.started = @ /\ ~(Reconnects(m, v) /\ Connected)]
        BY <2>4 DEF RemintReply, Followed
      <4> HIDE DEF t
      <4>2. page'.token = t
        BY <4>1 DEF TypeInv, PageTyped
      <4>3. budget'.token = t /\ budget'.attempts = budget.attempts /\ budget'.decayed = budget.decayed
        BY <4>1 DEF TypeInv, SessionTyped
      <4> QED BY <4>2, <4>3 DEF t
    <3>2. page'.token # 0
      BY <3>1, Domains DEF TypeInv
    <3> QED BY <1>3, <2>1, <2>2, <3>1, <3>2 DEF BudgetInv
  <2> QED BY <2>3, <2>4
<1> QED BY <1>2, <1>3

\* Nothing happens to a quiet page but the reply to its first request.
LEMMA WorldBudget ==
  ASSUME TypeInv, BudgetInv, World
  PROVE  BudgetInv'
<1>1. CASE \E t \in 1..MaxTokens : Expire(t)
  BY <1>1, BudgetStays, QuietStays DEF Expire, socket, session
<1>2. CASE LoseCredential
  BY <1>2, BudgetStays, QuietStays DEF LoseCredential, server, socket
<1>3. CASE Decay
  <2>1. budget'.token = budget.token /\ budget'.attempts = budget.attempts /\ reminted' = 0
        /\ budget.attempts \in Nat /\ budget.attempts # 0
        /\ UNCHANGED <<mints, page, sock, convs, down, fetches>>
    BY <1>3 DEF Decay, TypeInv, SessionTyped, server, socket
  <2>2. Quiet => Quiet'
    BY <2>1, QuietStays
  <2>3. budget'.attempts \in Nat /\ reminted' <= budget'.attempts
    BY <2>1
  <2>4. page.gen = 0 => page.token # 0 /\ budget.token = page.token
    BY <2>1 DEF BudgetInv, Unspent
  <2> QED BY <2>1, <2>2, <2>3, <2>4 DEF BudgetInv
<1>4. CASE Cut
  <2>1. ~Quiet
    BY <1>4 DEF Cut, Live, Quiet
  <2> QED BY <1>4, <2>1, BudgetStays DEF Cut, session
<1>5. ASSUME NEW c \in DOMAIN convs, AgentWrites(c) \/ AgentReads(c) \/ Close(c)
      PROVE  BudgetInv'
  <2>1. ~Quiet
    BY <1>5 DEF Quiet
  <2> QED BY <1>5, <2>1, BudgetStays DEF AgentWrites, AgentReads, Close, session
<1>6. ASSUME NEW m \in mints, MintFails(m) PROVE BudgetInv'
  <2>1. fetches' \subseteq fetches /\ mints' \subseteq mints
        /\ UNCHANGED <<budget, reminted, page, sock, convs, down>>
    BY <1>6 DEF MintFails, NotWaiting, server, socket
  <2>2. Quiet => Quiet'
    BY <2>1 DEF Quiet
  <2> QED BY <2>1, <2>2, BudgetStays
<1>7. ASSUME NEW v \in Known, Login(v) PROVE BudgetInv'
  <2>1. page.gen \in Nat /\ page'.gen = page.gen + 1
    BY <1>7 DEF Login, TypeInv, PageTyped
  <2>2. page'.gen # 0
    BY <2>1
  <2> QED BY <2>2 DEF BudgetInv
<1> QED BY <1>1, <1>2, <1>3, <1>4, <1>5, <1>6, <1>7 DEF World

LEMMA LinkBudget ==
  ASSUME TypeInv, BudgetInv, Link
  PROVE  BudgetInv'
<1>1. CASE Disconnect
  <2>1. ~Quiet
    BY <1>1 DEF Disconnect, Quiet
  <2>2. page'.gen = page.gen /\ page'.token = page.token
    BY <1>1 DEF Disconnect, TypeInv, PageTyped
  <2> QED BY <1>1, <2>1, <2>2, BudgetStays DEF Disconnect, session
<1>2. CASE Connect
  <2>1. ~Quiet \/ page.token # 0
    BY <1>2 DEF Connect, Quiet
  <2>2. page'.gen = page.gen /\ page'.token = page.token
    BY <1>2 DEF Connect, TypeInv, PageTyped
  <2>3. UNCHANGED <<budget, reminted, mints>>
    BY <1>2 DEF Connect, session
  <2> QED BY <2>1, <2>2, <2>3, BudgetStays
<1>3. CASE Flush
  <2>1. ~Quiet
    BY <1>3 DEF Flush, Quiet, Live
  <2> QED BY <1>3, <2>1, BudgetStays DEF Flush, session
<1> QED BY <1>1, <1>2, <1>3 DEF Link

LEMMA EventsBudget ==
  ASSUME TypeInv, BudgetInv, Events
  PROVE  BudgetInv'
<1>1. ~Quiet
  BY DEF Events, OnStarted, OnJoined, OnNotFound, OnSent, OnNotSent, OnNewMessage, OnRead, OnEnded,
     Deliver, Quiet
<1>2. UNCHANGED session
  BY DEF Events, OnStarted, OnJoined, OnNotFound, OnSent, OnNotSent, OnNewMessage, OnRead, OnEnded
<1>3. page'.gen = page.gen /\ page'.token = page.token
  <2>1. CASE OnNotFound
    <3>1. page' = page \/ page' = [page EXCEPT !.started = FALSE, !.conv = 0]
      BY <2>1 DEF OnNotFound
    <3> QED BY <3>1 DEF TypeInv, PageTyped
  <2> QED BY <2>1 DEF Events, OnStarted, OnJoined, OnSent, OnNotSent, OnNewMessage, OnRead,
             OnEnded, TypeInv, PageTyped
<1> QED BY <1>1, <1>2, <1>3, BudgetStays DEF session

LEMMA EffectsBudget ==
  ASSUME TypeInv, BudgetInv, Effects
  PROVE  BudgetInv'
<1>1. CASE Heal
  <2>1. ~Quiet
    BY <1>1 DEF Heal, Quiet
  <2>2. page'.gen = page.gen /\ page'.token = page.token
    BY <1>1 DEF Heal, TypeInv, PageTyped
  <2>3. Recover(TRUE, page.context) \/ UNCHANGED <<mints, budget, reminted>>
    BY <1>1 DEF Heal
  <2> QED BY <2>1, <2>2, <2>3, RecoverBudget
<1>2. CASE StartEffect
  <2>1. ~Quiet
    BY <1>2 DEF StartEffect, Connected, Quiet
  <2>2. page'.gen = page.gen /\ page'.token = page.token
    BY <1>2 DEF StartEffect, TypeInv, PageTyped
  <2> QED BY <1>2, <2>1, <2>2, BudgetStays DEF StartEffect, session
<1>3. CASE JoinEffect
  <2>1. UNCHANGED <<page, budget, reminted, mints>>
    BY <1>3 DEF JoinEffect, session
  <2>2. page.token = 0 /\ Quiet => Quiet'
    <3>1. page.token = 0 => SubscriptionKey = NoKey
      BY DEF SubscriptionKey
    <3>2. fetches' \subseteq fetches /\ UNCHANGED convs
      BY <1>3 DEF JoinEffect, server
    <3>3. SubscriptionKey = NoKey => UNCHANGED <<sock, down>>
      BY <1>3 DEF JoinEffect
    <3> QED BY <2>1, <3>1, <3>2, <3>3 DEF Quiet
  <2> QED BY <2>1, <2>2, BudgetStays
<1> QED BY <1>1, <1>2, <1>3 DEF Effects

LEMMA ReadingBudget ==
  ASSUME TypeInv, BudgetInv, Reading
  PROVE  BudgetInv'
<1>0. PICK f \in fetches : ServeFetch(f) \/ FetchRefused(f) \/ FetchLands(f)
  BY DEF Reading
<1>1. ~Quiet
  BY DEF Quiet
<1>2. CASE ServeFetch(f) \/ FetchLands(f)
  BY <1>1, <1>2, BudgetStays DEF ServeFetch, FetchLands, session
<1>3. CASE FetchRefused(f)
  <2>1. Recover(FALSE, f.context) \/ UNCHANGED <<mints, budget, reminted>>
    BY <1>3 DEF FetchRefused
  <2>2. page' = page
    BY <1>3 DEF FetchRefused
  <2> QED BY <1>1, <2>1, <2>2, RecoverBudget
<1> QED BY <1>0, <1>2, <1>3

LEMMA VisitorBudget ==
  ASSUME TypeInv, BudgetInv, Visitor
  PROVE  BudgetInv'
<1>1. ~Quiet
  BY DEF Visitor, Restart, Send, Connected, Quiet
<1>2. page'.gen = page.gen /\ page'.token = page.token
  BY DEF Visitor, Restart, Send, TypeInv, PageTyped
<1>3. UNCHANGED session
  BY DEF Visitor, Restart, Send
<1> QED BY <1>1, <1>2, <1>3, BudgetStays DEF session

LEMMA AlwaysBudgeted == Spec => []BudgetInv
<1>1. Init => BudgetInv
  BY DEF Init, BudgetInv, Quiet, Unspent, Mint
<1>2. TypeInv /\ BudgetInv /\ [Next]_vars => BudgetInv'
  <2> SUFFICES ASSUME TypeInv, BudgetInv, [Next]_vars PROVE BudgetInv'
    OBVIOUS
  <2>1. CASE Minting
    BY <2>1, InitReplyBudget, RemintReplyBudget DEF Minting
  <2>2. CASE UNCHANGED vars
    BY <2>2, BudgetStays, QuietStays DEF vars, server, socket, session
  <2> QED BY <2>1, <2>2, WorldBudget, VisitorBudget, LinkBudget, EventsBudget, EffectsBudget,
             ReadingBudget DEF Next
<1> QED BY <1>1, <1>2, AlwaysTyped, PTL DEF Spec

\* The remints of one identity, however its tokens expire and whichever of the
\* page's two ways of recovery begins them, stay within MAX_SESSION_RECOVERIES.
THEOREM RemintsStayBounded == Spec => []RemintsAreBounded
<1>1. TypeInv /\ BudgetInv => RemintsAreBounded
  <2> SUFFICES ASSUME TypeInv, BudgetInv, page.gen = 0 PROVE reminted <= MaxRecoveries
    BY DEF RemintsAreBounded
  <2>1. reminted <= budget.attempts /\ reminted \in Nat /\ budget.attempts \in 0..MaxRecoveries
    BY DEF TypeInv, SessionTyped, BudgetInv
  <2> QED BY <2>1, LimitsAssumption
<1> QED BY <1>1, AlwaysTyped, AlwaysBudgeted, PTL

-----------------------------------------------------------------------------
(* The list of messages.                                                    *)

\* No two entries of one message; what was read stays read; and no bubble is
\* brought back.
Same(l) == \A d, e \in l : d.id = e.id => d = e
Kept(l, n) ==
  /\ Same(n)
  /\ \A d \in l, e \in n : d.id = e.id /\ d.id > 0 /\ d.status = "read" => e.status = "read"
NoBubble(l, n) == \A k \in Sends : Has(n, -k) => Has(l, -k)

\* The entry of a stored message.
Stands(e) == e.id \in Nat \ {0}

LEMMA SentIsPositive ==
  ASSUME NEW k \in Sends
  PROVE  k \in Nat \ {0} /\ -k < 0
BY SendsAssumption

LEMMA SameKept ==
  ASSUME NEW l, NEW n \in SUBSET l, Same(l)
  PROVE  Kept(l, n) /\ NoBubble(l, n)
BY DEF Same, Kept, NoBubble, Has

LEMMA NewMessageKept ==
  ASSUME NEW l, Same(l), NEW e, Stands(e)
  PROVE  Kept(l, NewMessage(l, e)) /\ NoBubble(l, NewMessage(l, e))
<1>1. CASE Has(l, e.id)
  BY <1>1, SameKept DEF NewMessage
<1>2. CASE ~Has(l, e.id)
  <2>1. PICK n : NewMessage(l, e) = Without(l, n) \cup {e}
    BY <1>2 DEF NewMessage
  <2>2. Kept(l, NewMessage(l, e))
    BY <1>2, <2>1 DEF Same, Kept, Has, Without
  <2>3. NoBubble(l, NewMessage(l, e))
    BY <2>1, SentIsPositive DEF NoBubble, Has, Without, Stands
  <2> QED BY <2>2, <2>3
<1> QED BY <1>1, <1>2

LEMMA ConfirmKept ==
  ASSUME NEW l, Same(l), NEW k \in Sends, NEW e, Stands(e)
  PROVE  /\ Kept(l, ConfirmOptimistic(l, k, e)) /\ NoBubble(l, ConfirmOptimistic(l, k, e))
         /\ ~Has(ConfirmOptimistic(l, k, e), -k)
<1>1. Kept(l, ConfirmOptimistic(l, k, e))
  BY DEF ConfirmOptimistic, Same, Kept, Has, Without
<1>2. NoBubble(l, ConfirmOptimistic(l, k, e)) /\ ~Has(ConfirmOptimistic(l, k, e), -k)
  BY SentIsPositive DEF ConfirmOptimistic, NoBubble, Has, Without, Stands
<1> QED BY <1>1, <1>2

LEMMA MarkReadKept ==
  ASSUME NEW l, l \subseteq Copies \cup Bubbles, Same(l), NEW c
  PROVE  Kept(l, MarkRead(l, c)) /\ NoBubble(l, MarkRead(l, c))
<1> DEFINE R(e) == IF e.conv = c /\ e.by \in Sends THEN [e EXCEPT !.status = "read"] ELSE e
<1>1. MarkRead(l, c) = {R(e) : e \in l}
  BY DEF MarkRead
<1>2. \A e \in l : R(e).id = e.id /\ (e.status = "read" => R(e).status = "read")
  BY DEF Copies, Bubbles
<1> HIDE DEF R
<1> QED BY <1>1, <1>2 DEF Same, Kept, NoBubble, Has

LEMMA ReconcileKept ==
  ASSUME TypeInv, NEW l, l \subseteq Copies \cup Bubbles, Same(l),
         NEW c, NEW h \in SUBSET Copies, Same(h), \A e \in h : e.conv = c
  PROVE  Kept(l, Reconcile(l, c, h)) /\ NoBubble(l, Reconcile(l, c, h))
<1> DEFINE kept == {e \in l : e.conv = c}
           M(e) == IF Has(kept, e.id) THEN MergeMessageUpdate(CHOOSE x \in kept : x.id = e.id, e) ELSE e
<1>1. Reconcile(l, c, h) = {e \in kept : ~Has(h, e.id)} \cup {M(e) : e \in h}
  BY DEF Reconcile, Merged
<1>2. \A e \in h : M(e).id = e.id /\ M(e) \in Copies
  BY DEF MergeMessageUpdate, Copies, Statuses
<1>3. \A e \in Copies : e.id \in Nat \ {0} /\ e.conv = log[e.id].conv
  BY Domains DEF Copies, TypeInv
<1>4. \A e \in h, d \in l : d.id = e.id /\ d.status = "read" => M(e).status = "read"
  <2> SUFFICES ASSUME NEW e \in h, NEW d \in l, d.id = e.id, d.status = "read"
               PROVE  M(e).status = "read"
    OBVIOUS
  <2>1. d \in Copies
    <3>1. d \notin Bubbles
      BY <1>3, SentIsPositive DEF Bubbles
    <3> QED BY <3>1
  <2>2. d \in kept /\ Has(kept, e.id)
    BY <1>3, <2>1 DEF Has
  <2>3. (CHOOSE x \in kept : x.id = e.id) = d
    BY <2>2 DEF Same
  <2>4. M(e) = [e EXCEPT !.status = "read"]
    BY <2>2, <2>3 DEF MergeMessageUpdate
  <2> QED BY <2>4 DEF Copies
<1> HIDE DEF M
<1>5. Same(Reconcile(l, c, h))
  BY <1>1, <1>2 DEF Same, Has
<1>6. Kept(l, Reconcile(l, c, h))
  BY <1>1, <1>2, <1>4, <1>5 DEF Same, Kept, Has
<1>7. NoBubble(l, Reconcile(l, c, h))
  BY <1>1, <1>2, <1>3, SentIsPositive DEF NoBubble, Has
<1> QED BY <1>6, <1>7

\* A history request holds one entry for each message, of its conversation.
HistoryInv == \A f \in fetches : Same(f.seen) /\ \A e \in f.seen : e.conv = f.conv

LEMMA HistoryStays ==
  ASSUME HistoryInv,
         \A f \in fetches' : \/ f.seen = {} \/ f.seen = History(f.conv)
                             \/ \E g \in fetches : g.conv = f.conv /\ g.seen = f.seen
  PROVE  HistoryInv'
<1>1. \A c : Same(History(c)) /\ \A e \in History(c) : e.conv = c
  BY DEF Same, History, Shown, Entry
<1> QED BY <1>1 DEF HistoryInv, Same

LEMMA HistoriesStay ==
  ASSUME TypeInv, HistoryInv, [Next]_vars
  PROVE  HistoryInv'
<1>1. CASE fetches' \subseteq fetches
  BY <1>1, HistoryStays
<1>2. ASSUME NEW f \in fetches, ServeFetch(f) PROVE HistoryInv'
  <2>1. fetches' \subseteq fetches \cup {[f EXCEPT !.st = "ok", !.seen = History(f.conv)]}
    BY <1>2 DEF ServeFetch
  <2> DEFINE g == [f EXCEPT !.st = "ok", !.seen = History(f.conv)]
  <2>2. g.seen = History(g.conv)
    BY DEF TypeInv, FetchTyped, Requests
  <2> QED BY <2>1, <2>2, HistoryStays
<1>3. ASSUME NEW f \in fetches, FetchRefused(f) PROVE HistoryInv'
  <2> DEFINE g == [f EXCEPT !.st = "waiting", !.gen = page.gen]
  <2>1. fetches' \subseteq fetches \cup {g}
    BY <1>3 DEF FetchRefused
  <2>2. g.conv = f.conv /\ g.seen = f.seen
    BY DEF TypeInv, FetchTyped, Requests
  <2> QED BY <2>1, <2>2, HistoryStays
<1>4. ASSUME NEW m \in mints, NEW v \in Visitors, RemintReply(m, v) PROVE HistoryInv'
  <2>1. \A t, f : f \in Resumed(m, t) => \E g \in fetches : g.conv = f.conv /\ g.seen = f.seen
    BY DEF Resumed, TypeInv, FetchTyped, Requests
  <2>2. fetches' \subseteq NotWaiting(m) \cup Resumed(m, Len(issued) + 1)
    BY <1>4 DEF RemintReply
  <2>3. NotWaiting(m) \subseteq fetches
    BY DEF NotWaiting
  <2> QED BY <2>1, <2>2, <2>3, HistoryStays
<1>5. CASE OnStarted \/ OnJoined
  <2>1. PICK kind, c, t, key, context :
          fetches' \subseteq fetches \cup {Fetch(kind, c, t, key, context)}
    BY <1>5 DEF OnStarted, OnJoined
  <2>2. Fetch(kind, c, t, key, context).seen = {}
    BY DEF Fetch
  <2> QED BY <2>1, <2>2, HistoryStays
<1>6. CASE UNCHANGED vars \/ Visitor \/ Link
  <2>1. fetches' = fetches
    BY <1>6 DEF vars, Visitor, Link, Restart, Send, Disconnect, Connect, Flush
  <2> QED BY <2>1, <1>1
<1>7. CASE World
  <2>1. fetches' \subseteq fetches
    BY <1>7 DEF World, Expire, LoseCredential, Decay, Cut, AgentWrites, AgentReads, Close,
       MintFails, NotWaiting, Login
  <2> QED BY <2>1, <1>1
<1>8. CASE Effects
  <2>1. fetches' \subseteq fetches
    BY <1>8 DEF Effects, Heal, StartEffect, JoinEffect
  <2> QED BY <2>1, <1>1
<1>9. CASE Minting
  <2>1. ASSUME NEW m \in mints, NEW v \in Visitors, InitReply(m, v) PROVE HistoryInv'
    BY <2>1, <1>1 DEF InitReply
  <2> QED BY <1>4, <1>9, <2>1 DEF Minting
<1>10. CASE Events
  <2>1. CASE OnNotFound \/ OnSent \/ OnNotSent \/ OnNewMessage \/ OnRead \/ OnEnded
    BY <1>1, <2>1 DEF OnNotFound, OnSent, OnNotSent, OnNewMessage, OnRead, OnEnded
  <2> QED BY <1>5, <1>10, <2>1 DEF Events
<1>11. CASE Reading
  <2>1. ASSUME NEW f \in fetches, FetchLands(f) PROVE HistoryInv'
    BY <2>1, <1>1 DEF FetchLands
  <2> QED BY <1>2, <1>3, <1>11, <2>1 DEF Reading
<1> QED BY <1>6, <1>7, <1>8, <1>9, <1>10, <1>11 DEF Next

-----------------------------------------------------------------------------
(* The sends, what the server stores of them and what it acknowledges.      *)

Stored(k) == \E m \in DOMAIN log : log[m].send = k
Acked(k) == \E i \in DOMAIN down : down[i].name = "sent" /\ down[i].send = k

\* A bubble or a stored message is that of a send which has been made, on a
\* connection that is not to come; only what waits in the buffer is.
SendInv ==
  /\ \A k \in Sends :
       /\ sent[k] <= page.epoch + 1 /\ (Connected => sent[k] <= page.epoch)
       /\ Has(list, -k) => sent[k] # 0
       /\ Stored(k) => sent[k] # 0 /\ sent[k] <= page.epoch
  /\ Connected => page.epoch # 0
  /\ \A b \in buffer : sent[b.send] # 0

\* While the connection of a send lives, the acknowledgement of what was stored
\* takes its bubble away.
AckInv ==
  \A k \in Sends :
    Has(list, -k) /\ Live /\ page.epoch = sent[k] /\ Stored(k) => Acked(k)

LEMMA SendsStay ==
  ASSUME SendInv, AckInv, sent' = sent, page'.epoch = page.epoch,
         NoBubble(list, list'), Connected' => Connected, Live' => Live, buffer' \subseteq buffer,
         \A k \in Sends : Stored(k)' => Stored(k),
         \A k \in Sends : Acked(k) /\ Has(list', -k) => Acked(k)'
  PROVE  SendInv' /\ AckInv'
<1>1. SendInv'
  BY DEF SendInv, NoBubble
<1>2. AckInv'
  BY DEF AckInv, NoBubble
<1> QED BY <1>1, <1>2

\* What was on the wire stays where it was.
Extended == \A i \in DOMAIN down : i \in DOMAIN down' /\ down'[i] = down[i]

LEMMA AnswerExtends ==
  ASSUME TypeInv, NEW S, NEW ev \in Seq(S), Answer(ev)
  PROVE  /\ Extended
         /\ \A i \in DOMAIN ev : \E j \in DOMAIN down' : down'[j] = ev[i]
<1>1. down \in Seq(Wire) /\ down' = down \o ev
  BY DEF TypeInv, WireTyped, Answer
<1>2. DOMAIN down = 1..Len(down) /\ Len(down) \in Nat /\ DOMAIN ev = 1..Len(ev) /\ Len(ev) \in Nat
  BY <1>1, LenProperties
<1>3. /\ down' \in Seq(Wire \cup S) /\ Len(down') = Len(down) + Len(ev)
      /\ \A i \in 1..(Len(down) + Len(ev)) :
           down'[i] = IF i <= Len(down) THEN down[i] ELSE ev[i - Len(down)]
  <2>1. down \in Seq(Wire \cup S) /\ ev \in Seq(Wire \cup S)
    BY <1>1, SeqMonotonic
  <2> QED BY <1>1, <2>1, ConcatProperties
<1>4. DOMAIN down' = 1..(Len(down) + Len(ev))
  BY <1>3, LenProperties
<1>5. Extended
  BY <1>2, <1>3, <1>4 DEF Extended
<1>6. \A i \in DOMAIN ev : \E j \in DOMAIN down' : down'[j] = ev[i]
  <2> SUFFICES ASSUME NEW i \in DOMAIN ev PROVE \E j \in DOMAIN down' : down'[j] = ev[i]
    OBVIOUS
  <2>1. Len(down) + i \in DOMAIN down' /\ down'[Len(down) + i] = ev[i]
    BY <1>2, <1>3, <1>4
  <2> QED BY <2>1
<1> QED BY <1>5, <1>6

LEMMA OneExtends ==
  ASSUME TypeInv, NEW e, Answer(<<e>>)
  PROVE  Extended
BY Singleton, AnswerExtends

LEMMA RoomExtends ==
  ASSUME TypeInv, NEW c, NEW e, Answer(ToRoom(c, e))
  PROVE  Extended
<1>1. ToRoom(c, e) \in Seq({e})
  BY RoomTyped
<1> QED BY <1>1, AnswerExtends

LEMMA ExtendedAcks ==
  ASSUME Extended \/ UNCHANGED down
  PROVE  \A k : Acked(k) => Acked(k)'
BY DEF Extended, Acked

\* The acknowledgement that is taken off the wire is the only one that is gone.
LEMMA TakenAcks ==
  ASSUME TypeInv, NEW name, Deliver(name), NEW k, Acked(k),
         ~(name = "sent" /\ Head(down).send = k)
  PROVE  Acked(k)'
<1>1. down \in Seq(Wire) /\ down # <<>> /\ down' = Tail(down) /\ Head(down).name = name
  BY DEF TypeInv, WireTyped, Deliver
<1>2. DOMAIN down = 1..Len(down) /\ Len(down) \in Nat \ {0} /\ Head(down) = down[1]
  BY <1>1, LenProperties, HeadTailProperties, EmptySeq
<1>3. down' \in Seq(Wire) /\ Len(down') = Len(down) - 1 /\ \A i \in 1..Len(down') : down'[i] = down[i + 1]
  BY <1>1, HeadTailProperties
<1>4. DOMAIN down' = 1..(Len(down) - 1)
  BY <1>3, LenProperties
<1>5. PICK i \in DOMAIN down : down[i].name = "sent" /\ down[i].send = k
  BY DEF Acked
<1>6. i # 1
  BY <1>1, <1>2, <1>5
<1>7. i - 1 \in DOMAIN down' /\ down'[i - 1] = down[i]
  BY <1>2, <1>3, <1>4, <1>6
<1> QED BY <1>5, <1>7 DEF Acked

\* A send that is served is stored and acknowledged, or neither.
LEMMA EmitSendActs ==
  ASSUME TypeInv, NEW k \in Sends, NEW c \in DOMAIN convs, EmitSend(k, c),
         UNCHANGED <<issued, expired, convs, readBy>>
  PROVE  /\ Extended
         /\ \A j : Stored(j)' => Stored(j) \/ (j = k /\ Acked(k)')
<1> DEFINE m == Len(log) + 1
           push == ToRoom(c, [name |-> "new_message", id |-> m])
           ack == [name |-> "sent", send |-> k, id |-> m]
<1>1. CASE convs[c].owner = sock.who /\ convs[c].open
  <2>1. log' = Append(log, [conv |-> c, send |-> k])
        /\ (Answer(push \o <<ack>>) \/ Answer(<<ack>> \o push))
    BY <1>1 DEF EmitSend
  <2>2. \A j : Stored(j)' => Stored(j) \/ j = k
    BY <2>1, LogGrows DEF Stored, Grows
  <2> DEFINE S == {ack, [name |-> "new_message", id |-> m]}
  <2>3. push \in Seq(S)
    BY RoomTyped
  <2> HIDE DEF push
  <2>4. <<ack>> \in Seq(S) /\ Len(<<ack>>) = 1 /\ <<ack>>[1] = ack
    BY Singleton
  <2> HIDE DEF ack, S
  <2>5. PICK ev \in Seq(S) : Answer(ev) /\ \E i \in DOMAIN ev : ev[i] = ack
    <3>1. /\ push \o <<ack>> \in Seq(S) /\ Len(push) \in Nat
          /\ Len(push \o <<ack>>) = Len(push) + 1 /\ (push \o <<ack>>)[Len(push) + 1] = ack
      BY <2>3, <2>4, ConcatProperties, LenProperties
    <3>2. /\ <<ack>> \o push \in Seq(S)
          /\ Len(<<ack>> \o push) = 1 + Len(push) /\ (<<ack>> \o push)[1] = ack
      BY <2>3, <2>4, ConcatProperties, LenProperties
    <3>3. Len(push) + 1 \in DOMAIN (push \o <<ack>>) /\ 1 \in DOMAIN (<<ack>> \o push)
      BY <3>1, <3>2, LenProperties
    <3> QED BY <2>1, <3>1, <3>2, <3>3
  <2>6. Extended /\ \E j \in DOMAIN down' : down'[j] = ack
    BY <2>5, AnswerExtends
  <2>7. Acked(k)'
    BY <2>6 DEF Acked, ack
  <2> QED BY <2>2, <2>6, <2>7
<1>2. CASE ~(convs[c].owner = sock.who /\ convs[c].open)
  <2>1. Answer(<<[name |-> "not_sent", send |-> k]>>) /\ UNCHANGED log
    BY <1>2 DEF EmitSend
  <2> QED BY <2>1, OneExtends DEF Stored
<1> QED BY <1>1, <1>2

-----------------------------------------------------------------------------
(* Each step on the list, the sends and the acknowledgements.               *)

MessagesInv == Same(list) /\ HistoryInv /\ SendInv /\ AckInv

\* Steps that leave the list, the log and the sends alone, and put on the wire
\* what they answer.
LEMMA SendsUntouched ==
  ASSUME MessagesInv, UNCHANGED <<list, log, sent>>, page'.epoch = page.epoch,
         Extended \/ UNCHANGED down \/ ~Live',
         Connected' => Connected, Live' => Live, buffer' \subseteq buffer
  PROVE  Kept(list, list') /\ SendInv' /\ AckInv'
<1>1. Kept(list, list') /\ NoBubble(list, list')
  BY SameKept DEF MessagesInv
<1>2. \A k : Stored(k)' => Stored(k)
  BY DEF Stored
<1>3. CASE Extended \/ UNCHANGED down
  BY <1>1, <1>2, <1>3, ExtendedAcks, SendsStay DEF MessagesInv
<1>4. CASE ~Live'
  <2>1. AckInv'
    BY <1>4 DEF AckInv
  <2>2. SendInv'
    BY <1>1, <1>2 DEF MessagesInv, SendInv, NoBubble
  <2> QED BY <1>1, <2>1, <2>2
<1> QED BY <1>3, <1>4

LEMMA WorldMessages ==
  ASSUME TypeInv, MessagesInv, World
  PROVE  Kept(list, list') /\ SendInv' /\ AckInv'
<1>1. CASE \/ \E t \in 1..MaxTokens : Expire(t)
           \/ LoseCredential \/ Decay \/ \E m \in mints : MintFails(m)
  <2>1. UNCHANGED <<list, log, sent, page, down, sock, buffer>>
    BY <1>1 DEF Expire, LoseCredential, Decay, MintFails, server, socket, view
  <2> QED BY <2>1, SendsUntouched DEF Connected, Live
<1>2. CASE Cut
  <2>1. UNCHANGED <<list, log, sent, page, buffer>> /\ ~Live' /\ Connected /\ Live
    BY <1>2 DEF Cut, server, view, Live, Connected, TypeInv, SocketTyped
  <2> QED BY <2>1, SendsUntouched
<1>3. ASSUME NEW c \in DOMAIN convs, AgentReads(c) \/ Close(c)
      PROVE  Kept(list, list') /\ SendInv' /\ AckInv'
  <2>1. UNCHANGED <<list, log, sent, page, sock, buffer>>
    BY <1>3 DEF AgentReads, Close, view
  <2>2. Extended
    BY <1>3, RoomExtends DEF AgentReads, Close
  <2> QED BY <2>1, <2>2, SendsUntouched DEF Connected, Live
<1>4. ASSUME NEW c \in DOMAIN convs, AgentWrites(c)
      PROVE  Kept(list, list') /\ SendInv' /\ AckInv'
  <2>1. UNCHANGED <<list, sent, page, sock, buffer>>
        /\ log' = Append(log, [conv |-> c, send |-> 0])
    BY <1>4 DEF AgentWrites, view
  <2>2. Extended
    BY <1>4, RoomExtends DEF AgentWrites
  <2>3. \A k \in Sends : Stored(k)' => Stored(k)
    <3>1. \A k \in Sends : k # 0
      BY SendsAssumption
    <3>2. /\ DOMAIN log' = DOMAIN log \cup {Len(log) + 1} /\ log'[Len(log) + 1].send = 0
          /\ \A m \in DOMAIN log : log'[m] = log[m]
      BY <1>4, <2>1, LogGrows DEF AgentWrites, Grows
    <3> QED BY <3>1, <3>2 DEF Stored
  <2>4. Kept(list, list') /\ NoBubble(list, list')
    BY <2>1, SameKept DEF MessagesInv
  <2> QED BY <2>1, <2>2, <2>3, <2>4, ExtendedAcks, SendsStay DEF Connected, Live, MessagesInv
<1>5. ASSUME NEW v \in Known, Login(v)
      PROVE  Kept(list, list') /\ SendInv' /\ AckInv'
  <2>1. list' = {} /\ UNCHANGED <<log, sent, down, sock, buffer>>
    BY <1>5 DEF Login, server, socket
  <2>2. page'.epoch = page.epoch
    <3>1. page \in [context : Known \cup {NoVisitor}, gen : Nat,
            token : {0} \cup DOMAIN issued, visitor : Visitors \cup {NoVisitor},
            authFailed : BOOLEAN, heal : BOOLEAN, epoch : Nat,
            conv : {0} \cup DOMAIN convs, started : BOOLEAN, ended : BOOLEAN]
      BY DEF TypeInv, PageTyped
    <3> QED BY <1>5, <3>1 DEF Login
  <2>3. Kept(list, list') /\ NoBubble(list, list')
    BY <2>1, SameKept DEF MessagesInv
  <2> QED BY <2>1, <2>2, <2>3, ExtendedAcks, SendsStay DEF Connected, Live, MessagesInv, Stored
<1> QED BY <1>1, <1>2, <1>3, <1>4, <1>5 DEF World

LEMMA LinkMessages ==
  ASSUME TypeInv, MessagesInv, Link
  PROVE  Kept(list, list') /\ SendInv' /\ AckInv'
<1>1. CASE Disconnect
  <2>1. UNCHANGED <<list, log, sent, down, buffer>> /\ ~Connected' /\ ~Live'
    BY <1>1 DEF Disconnect, server, view, Closed, Connected, Live
  <2>2. page'.epoch = page.epoch
    BY <1>1 DEF Disconnect, TypeInv, PageTyped
  <2> QED BY <2>1, <2>2, SendsUntouched
<1>2. CASE Connect
  <2>1. UNCHANGED <<list, log, sent, down>> /\ buffer' \subseteq buffer
    BY <1>2 DEF Connect, server, view
  <2>2. CASE ~Connected' /\ ~Live' /\ page'.epoch = page.epoch
    BY <2>1, <2>2, SendsUntouched
  <2>3. CASE page'.epoch = page.epoch + 1
    <3>1. page.epoch \in Nat /\ sent \in [Sends -> Nat]
      BY DEF TypeInv, PageTyped, ViewTyped
    <3>2. Kept(list, list') /\ NoBubble(list, list')
      BY <2>1, SameKept DEF MessagesInv
    <3>3. \A k : Stored(k)' => Stored(k)
      BY <2>1 DEF Stored
    <3>4. \A k \in Sends : Stored(k) => sent[k] <= page.epoch
      BY DEF MessagesInv, SendInv
    <3>5. \A k \in Sends : sent[k] \in Nat /\ sent[k] <= page.epoch + 1
      BY <3>1 DEF MessagesInv, SendInv
    <3>6. SendInv'
      <4>1. \A k \in Sends :
              /\ sent'[k] <= page'.epoch + 1 /\ sent'[k] <= page'.epoch
              /\ Stored(k)' => sent'[k] # 0 /\ sent'[k] <= page'.epoch
        BY <2>1, <2>3, <3>1, <3>3, <3>4, <3>5 DEF MessagesInv, SendInv
      <4>2. \A k \in Sends : Has(list', -k) => sent'[k] # 0
        BY <2>1 DEF MessagesInv, SendInv
      <4>3. page'.epoch # 0 /\ \A b \in buffer' : sent'[b.send] # 0
        BY <2>1, <2>3, <3>1 DEF MessagesInv, SendInv
      <4> QED BY <4>1, <4>2, <4>3 DEF SendInv
    <3>7. \A k \in Sends : Stored(k)' => page'.epoch # sent'[k]
      BY <2>1, <2>3, <3>1, <3>3, <3>4, <3>5
    <3>8. AckInv'
      BY <3>7 DEF AckInv
    <3> QED BY <3>2, <3>6, <3>8
  <2>4. (~Connected' /\ ~Live' /\ page'.epoch = page.epoch) \/ page'.epoch = page.epoch + 1
    <3>1. \/ page' = [page EXCEPT !.epoch = page.epoch + 1]
          \/ sock' = Closed("none", 0) /\ page' = [page EXCEPT !.authFailed = TRUE, !.heal = TRUE]
      BY <1>2 DEF Connect
    <3> DEFINE n == page.epoch + 1
    <3>2. page' = [page EXCEPT !.epoch = n] => page'.epoch = n
      <4> HIDE DEF n
      <4> QED BY DEF TypeInv, PageTyped
    <3>3. page' = [page EXCEPT !.authFailed = TRUE, !.heal = TRUE] => page'.epoch = page.epoch
      BY DEF TypeInv, PageTyped
    <3>4. sock' = Closed("none", 0) => ~Connected' /\ ~Live'
      BY DEF Closed, Connected, Live
    <3> HIDE DEF n
    <3>5. (page' = [page EXCEPT !.epoch = n])
          \/ (sock' = Closed("none", 0) /\ page' = [page EXCEPT !.authFailed = TRUE, !.heal = TRUE])
      BY <3>1 DEF n
    <3> QED BY <3>2, <3>3, <3>4, <3>5 DEF n
  <2> QED BY <2>2, <2>3, <2>4
<1>3. CASE Flush
  <2>1. PICK b \in buffer : EmitSend(b.send, b.conv) /\ buffer' = buffer \ {b}
    BY <1>3 DEF Flush
  <2>2. b.send \in Sends /\ b.conv \in DOMAIN convs
    BY DEF TypeInv, SocketTyped
  <2>3. UNCHANGED <<list, sent, page, sock>> /\ Live /\ Connected
    BY <1>3 DEF Flush, view, Live, Connected
  <2>4. /\ Extended
        /\ \A j : Stored(j)' => Stored(j) \/ (j = b.send /\ Acked(b.send)')
    BY <1>3, <2>1, <2>2, EmitSendActs DEF Flush
  <2>5. Kept(list, list')
    BY <2>3, SameKept DEF MessagesInv
  <2>6. SendInv'
    <3>1. \A k \in Sends : Stored(k)' => sent[k] # 0 /\ sent[k] <= page.epoch
      BY <2>3, <2>4 DEF MessagesInv, SendInv
    <3>2. \A k \in Sends : sent[k] <= page.epoch + 1 /\ (Connected => sent[k] <= page.epoch)
                           /\ (Has(list, -k) => sent[k] # 0)
      BY DEF MessagesInv, SendInv
    <3>3. (Connected => page.epoch # 0) /\ \A x \in buffer' : sent[x.send] # 0
      BY <2>1 DEF MessagesInv, SendInv
    <3> QED BY <2>3, <3>1, <3>2, <3>3 DEF SendInv, Connected
  <2>7. AckInv'
    BY <2>3, <2>4, ExtendedAcks DEF MessagesInv, AckInv, Live
  <2> QED BY <2>5, <2>6, <2>7
<1> QED BY <1>1, <1>2, <1>3 DEF Link

LEMMA MintingMessages ==
  ASSUME TypeInv, MessagesInv, Minting
  PROVE  Kept(list, list') /\ SendInv' /\ AckInv'
<1>1. UNCHANGED <<list, log, sent, buffer>> /\ page'.epoch = page.epoch
  <2>1. ASSUME NEW m \in mints, NEW v \in Visitors, InitReply(m, v) \/ RemintReply(m, v)
        PROVE  UNCHANGED <<list, log, sent, buffer>> /\ page'.epoch = page.epoch
    <3>1. UNCHANGED <<list, log, sent, buffer>>
      BY <2>1 DEF InitReply, RemintReply, Reconnect, ApplyToken, socket, view
    <3>2. \/ page' = page
          \/ page' = [page EXCEPT !.token = Len(issued) + 1, !.visitor = v, !.heal = page.authFailed]
          \/ page' = [page EXCEPT !.token = Len(issued) + 1, !.visitor = v, !.authFailed = FALSE,
                        !.started = @ /\ ~(Reconnects(m, v) /\ Connected)]
      BY <2>1 DEF InitReply, RemintReply
    <3> DEFINE t == Len(issued) + 1
               s == page.started /\ ~(Reconnects(m, v) /\ Connected)
    <3> HIDE DEF t, s
    <3>3. \/ page' = page
          \/ page' = [page EXCEPT !.token = t, !.visitor = v, !.heal = page.authFailed]
          \/ page' = [page EXCEPT !.token = t, !.visitor = v, !.authFailed = FALSE, !.started = s]
      BY <3>2 DEF t, s
    <3>4. page'.epoch = page.epoch
      BY <3>3 DEF TypeInv, PageTyped
    <3> QED BY <3>1, <3>4
  <2> QED BY <2>1 DEF Minting
<1>2. \/ ~Connected' /\ ~Live'
      \/ UNCHANGED down /\ (Connected' => Connected) /\ (Live' => Live)
  <2>1. ASSUME NEW m \in mints, NEW v \in Visitors, InitReply(m, v)
        PROVE  UNCHANGED down /\ (Connected' => Connected) /\ (Live' => Live)
    BY <2>1 DEF InitReply, socket, Connected, Live
  <2>2. ASSUME NEW m \in mints, NEW v \in Visitors, RemintReply(m, v)
        PROVE  \/ ~Connected' /\ ~Live'
               \/ UNCHANGED down /\ (Connected' => Connected) /\ (Live' => Live)
    <3>1. Reconnect(Len(issued) + 1) \/ ApplyToken(Len(issued) + 1) \/ UNCHANGED socket
      BY <2>2 DEF RemintReply
    <3>2. CASE Reconnect(Len(issued) + 1)
      BY <3>2 DEF Reconnect, Closed, Connected, Live
    <3>3. CASE ApplyToken(Len(issued) + 1)
      BY <3>3 DEF ApplyToken, Connected, Live, TypeInv, SocketTyped
    <3>4. CASE UNCHANGED socket
      BY <3>4 DEF socket, Connected, Live
    <3> QED BY <3>1, <3>2, <3>3, <3>4
  <2> QED BY <2>1, <2>2 DEF Minting
<1> QED BY <1>1, <1>2, SendsUntouched

LEMMA EventsMessages ==
  ASSUME TypeInv, MessagesInv, Events
  PROVE  Kept(list, list') /\ SendInv' /\ AckInv'
<1>1. PICK name : Deliver(name)
  BY DEF Events, OnStarted, OnJoined, OnNotFound, OnSent, OnNotSent, OnNewMessage, OnRead, OnEnded
<1>2. UNCHANGED <<log, sent, sock, buffer>>
  BY DEF Events, OnStarted, OnJoined, OnNotFound, OnSent, OnNotSent, OnNewMessage, OnRead, OnEnded,
     server, view
<1>3. page'.epoch = page.epoch
  <2>1. CASE OnNotFound
    <3>1. page' = page \/ page' = [page EXCEPT !.started = FALSE, !.conv = 0]
      BY <2>1 DEF OnNotFound
    <3> QED BY <3>1 DEF TypeInv, PageTyped
  <2> QED BY <2>1 DEF Events, OnStarted, OnJoined, OnSent, OnNotSent, OnNewMessage, OnRead,
             OnEnded, TypeInv, PageTyped
<1>4. \A m \in DOMAIN log : Stands(Pushed(m))
  BY Domains DEF TypeInv, Stands, Pushed, Entry
<1>5. Same(list) /\ list \subseteq Copies \cup Bubbles
  BY DEF MessagesInv, TypeInv, ViewTyped
<1>6. /\ Kept(list, list') /\ NoBubble(list, list')
      /\ \A k \in Sends : Acked(k) /\ Has(list', -k) => Acked(k)'
  <2>1. CASE OnSent
    <3>1. Head(down) \in Wire /\ Head(down).name = "sent"
      BY <2>1, Delivered DEF OnSent
    <3>2. Head(down).send \in Sends /\ Head(down).id \in DOMAIN log
      BY <3>1 DEF Wire
    <3>3. list' = ConfirmOptimistic(list, Head(down).send, Pushed(Head(down).id)) /\ Deliver("sent")
      BY <2>1 DEF OnSent
    <3>4. /\ Kept(list, list') /\ NoBubble(list, list') /\ ~Has(list', -Head(down).send)
      BY <1>4, <1>5, <3>2, <3>3, ConfirmKept
    <3>5. \A k \in Sends : Acked(k) /\ Has(list', -k) => Acked(k)'
      BY <3>3, <3>4, TakenAcks
    <3> QED BY <3>4, <3>5
  <2>2. CASE ~OnSent
    <3>1. \/ Deliver("started") \/ Deliver("joined") \/ Deliver("not_found") \/ Deliver("not_sent")
          \/ Deliver("new_message") \/ Deliver("messages_read") \/ Deliver("conversation_ended")
      BY <2>2 DEF Events, OnStarted, OnJoined, OnNotFound, OnNotSent, OnNewMessage, OnRead, OnEnded
    <3>2. \A k \in Sends : Acked(k) => Acked(k)'
      BY <3>1, TakenAcks
    <3>3. Kept(list, list') /\ NoBubble(list, list')
      <4>1. CASE OnNewMessage
        <5>1. Head(down) \in Wire /\ Head(down).name = "new_message"
          BY <4>1, Delivered DEF OnNewMessage
        <5>2. Head(down).id \in DOMAIN log
          BY <5>1 DEF Wire
        <5> QED BY <4>1, <1>4, <1>5, <5>2, NewMessageKept DEF OnNewMessage
      <4>2. CASE OnRead
        BY <4>2, <1>5, MarkReadKept DEF OnRead
      <4>3. CASE OnNotSent
        BY <4>3, <1>5, SameKept DEF OnNotSent, Without
      <4>4. CASE OnStarted \/ OnJoined \/ OnNotFound \/ OnEnded
        <5>1. list' = list
          BY <4>4 DEF OnStarted, OnJoined, OnNotFound, OnEnded, view
        <5> QED BY <1>5, <5>1, SameKept
      <4> QED BY <2>2, <4>1, <4>2, <4>3, <4>4 DEF Events
    <3> QED BY <3>2, <3>3
  <2> QED BY <2>1, <2>2
<1>7. \A k \in Sends : Stored(k)' => Stored(k)
  BY <1>2 DEF Stored
<1> QED BY <1>2, <1>3, <1>6, <1>7, SendsStay DEF MessagesInv, Connected, Live

\* The server joins the conversation's room and answers; the log is as it was.
LEMMA EmitStartExtends ==
  ASSUME TypeInv, EmitStart
  PROVE  /\ Extended \/ UNCHANGED down
         /\ sock'.state = sock.state
<1>1. CASE ~Live
  BY <1>1 DEF EmitStart
<1>2. CASE Live
  <2>1. \E e : Answer(<<e>>)
    BY <1>2 DEF EmitStart
  <2>2. \E r : sock' = [sock EXCEPT !.rooms = r]
    BY <1>2 DEF EmitStart
  <2>3. sock'.state = sock.state
    BY <2>2 DEF TypeInv, SocketTyped
  <2> QED BY <2>1, <2>3, OneExtends
<1> QED BY <1>1, <1>2

LEMMA EmitJoinExtends ==
  ASSUME TypeInv, NEW key, EmitJoin(key)
  PROVE  /\ Extended \/ UNCHANGED down
         /\ sock'.state = sock.state
<1>1. CASE ~Live
  BY <1>1 DEF EmitJoin
<1>2. CASE Live
  <2>1. \E e : Answer(<<e>>)
    BY <1>2 DEF EmitJoin
  <2>2. \E r : sock' = [sock EXCEPT !.rooms = r]
    BY <1>2 DEF EmitJoin
  <2>3. sock'.state = sock.state
    BY <2>2 DEF TypeInv, SocketTyped
  <2> QED BY <2>1, <2>3, OneExtends
<1> QED BY <1>1, <1>2

LEMMA EffectsMessages ==
  ASSUME TypeInv, MessagesInv, Effects
  PROVE  Kept(list, list') /\ SendInv' /\ AckInv'
<1>1. UNCHANGED <<list, log, sent, buffer>>
  BY DEF Effects, Heal, StartEffect, JoinEffect, server, socket, view
<1>2. page'.epoch = page.epoch
  BY DEF Effects, Heal, StartEffect, JoinEffect, TypeInv, PageTyped
<1>3. (Extended \/ UNCHANGED down) /\ sock'.state = sock.state
  <2>1. CASE Heal
    BY <2>1 DEF Heal, socket
  <2>2. CASE StartEffect
    BY <2>2, EmitStartExtends DEF StartEffect
  <2>3. CASE JoinEffect
    BY <2>3, EmitJoinExtends DEF JoinEffect
  <2> QED BY <2>1, <2>2, <2>3 DEF Effects
<1> QED BY <1>1, <1>2, <1>3, SendsUntouched DEF Connected, Live

LEMMA ReadingMessages ==
  ASSUME TypeInv, MessagesInv, Reading
  PROVE  Kept(list, list') /\ SendInv' /\ AckInv'
<1>0. PICK f \in fetches : ServeFetch(f) \/ FetchRefused(f) \/ FetchLands(f)
  BY DEF Reading
<1>1. UNCHANGED <<log, sent, page, down, sock, buffer>>
  BY <1>0 DEF ServeFetch, FetchRefused, FetchLands, server, socket, view
<1>2. CASE ServeFetch(f) \/ FetchRefused(f)
  <2>1. list' = list
    BY <1>2 DEF ServeFetch, FetchRefused, view
  <2> QED BY <1>1, <2>1, SendsUntouched DEF Connected, Live
<1>3. CASE FetchLands(f)
  <2>1. list' = Reconcile(list, f.conv, f.seen)
    BY <1>3 DEF FetchLands
  <2>2. /\ f.seen \subseteq Copies /\ Same(f.seen) /\ \A e \in f.seen : e.conv = f.conv
        /\ list \subseteq Copies \cup Bubbles /\ Same(list)
    BY DEF TypeInv, FetchTyped, Requests, ViewTyped, MessagesInv, HistoryInv
  <2>3. Kept(list, list') /\ NoBubble(list, list')
    BY <2>1, <2>2, ReconcileKept
  <2> QED BY <1>1, <2>3, ExtendedAcks, SendsStay DEF Connected, Live, MessagesInv, Stored
<1> QED BY <1>0, <1>2, <1>3

LEMMA VisitorMessagesStep ==
  ASSUME TypeInv, MessagesInv, Visitor
  PROVE  Kept(list, list') /\ SendInv' /\ AckInv'
<1>1. CASE Restart
  <2>1. list' = {} /\ UNCHANGED <<log, sent, buffer>>
    BY <1>1 DEF Restart
  <2>2. page'.epoch = page.epoch
    BY <1>1 DEF Restart, TypeInv, PageTyped
  <2>3. (Extended \/ UNCHANGED down) /\ sock'.state = sock.state
    BY <1>1, EmitStartExtends DEF Restart
  <2>4. Kept(list, list') /\ NoBubble(list, list')
    BY <2>1, SameKept DEF MessagesInv
  <2> QED BY <2>1, <2>2, <2>3, <2>4, ExtendedAcks, SendsStay DEF Connected, Live, MessagesInv, Stored
<1>2. ASSUME NEW k \in Sends, Send(k)
      PROVE  Kept(list, list') /\ SendInv' /\ AckInv'
  <2> DEFINE n == IF Connected THEN page.epoch ELSE page.epoch + 1
             b == Entry(-k, page.conv, k, "sending")
  <2>1. /\ sent[k] = 0 /\ sent' = [sent EXCEPT ![k] = n] /\ list' = list \cup {b}
        /\ UNCHANGED <<issued, expired, convs, readBy, sock, page>>
    BY <1>2 DEF Send, AddOptimistic
  <2>2. sent \in [Sends -> Nat] /\ page.epoch \in Nat
    BY DEF TypeInv, ViewTyped, PageTyped
  <2>3. ~Has(list, -k) /\ ~Stored(k)
    BY <2>1 DEF MessagesInv, SendInv
  <2>4. k \in Nat \ {0} /\ b.id = -k
    BY SendsAssumption DEF Entry
  <2>5. /\ sent'[k] = n /\ sent'[k] # 0 /\ sent'[k] <= page.epoch + 1
        /\ Connected => sent'[k] <= page.epoch
        /\ \A j \in Sends : j # k => sent'[j] = sent[j]
    BY <2>1, <2>2 DEF MessagesInv, SendInv
  <2> HIDE DEF n, b
  <2>6. Kept(list, list')
    BY <2>1, <2>3, <2>4 DEF Kept, Same, Has, MessagesInv
  <2>7. \A j \in Sends : j # k => (Has(list', -j) => Has(list, -j))
    <3>1. \A j \in Sends : j # k => -j # -k
      BY SendsAssumption
    <3> QED BY <2>1, <2>4, <3>1 DEF Has
  <2>8. /\ Live => Extended
        /\ \A j : Stored(j)' => Stored(j) \/ (j = k /\ Live /\ Acked(k)')
        /\ \A x \in buffer' : x \in buffer \/ x.send = k
    <3>1. CASE Live
      <4>1. EmitSend(k, page.conv) /\ UNCHANGED buffer
        BY <1>2, <3>1 DEF Send, Live
      <4>2. page.conv \in DOMAIN convs
        BY <1>2 DEF Send, TypeInv, PageTyped
      <4> QED BY <2>1, <3>1, <4>1, <4>2, EmitSendActs
    <3>2. CASE ~Live
      <4>1. log' = log /\ \A x \in buffer' : x \in buffer \/ x.send = k
        <5>1. sock.state \in {"off", "dead"}
          BY <1>2, <3>2 DEF Send, Live, TypeInv, SocketTyped
        <5>2. CASE sock.state = "off"
          <6>1. log' = log /\ buffer' = buffer \cup {[send |-> k, conv |-> page.conv]}
            BY <1>2, <5>2 DEF Send
          <6> QED BY <6>1
        <5>3. CASE sock.state = "dead"
          BY <1>2, <5>3 DEF Send
        <5> QED BY <5>1, <5>2, <5>3
      <4> QED BY <3>2, <4>1 DEF Stored
    <3> QED BY <3>1, <3>2
  <2>9. SendInv'
    <3>1. ASSUME NEW j \in Sends
          PROVE  /\ sent'[j] <= page.epoch + 1 /\ (Connected => sent'[j] <= page.epoch)
                 /\ Has(list', -j) => sent'[j] # 0
                 /\ Stored(j)' => sent'[j] # 0 /\ sent'[j] <= page.epoch
      <4>1. CASE j = k
        BY <2>3, <2>5, <2>8, <4>1 DEF Live, Connected
      <4>2. CASE j # k
        BY <2>5, <2>7, <2>8, <4>2 DEF MessagesInv, SendInv
      <4> QED BY <4>1, <4>2
    <3>2. \A x \in buffer' : sent'[x.send] # 0
      <4>1. \A x \in buffer : x.send \in Sends /\ sent[x.send] # 0
        BY DEF TypeInv, SocketTyped, MessagesInv, SendInv
      <4> QED BY <2>5, <2>8, <4>1
    <3>3. Connected => page.epoch # 0
      BY DEF MessagesInv, SendInv
    <3> QED BY <2>1, <3>1, <3>2, <3>3 DEF SendInv, Connected
  <2>10. AckInv'
    <3> SUFFICES ASSUME NEW j \in Sends, Has(list', -j), Live, page.epoch = sent'[j], Stored(j)'
                 PROVE  Acked(j)'
      BY <2>1 DEF AckInv, Live
    <3>1. CASE j = k
      BY <2>3, <2>8, <3>1
    <3>2. CASE j # k
      BY <2>5, <2>7, <2>8, <3>2, ExtendedAcks DEF MessagesInv, AckInv
    <3> QED BY <3>1, <3>2
  <2> QED BY <2>6, <2>9, <2>10
<1> QED BY <1>1, <1>2 DEF Visitor

LEMMA MessagesStep ==
  ASSUME TypeInv, MessagesInv, [Next]_vars
  PROVE  Kept(list, list') /\ MessagesInv'
<1>1. Kept(list, list') /\ SendInv' /\ AckInv'
  <2>1. CASE UNCHANGED vars
    <3>1. UNCHANGED <<list, log, sent, page, down, sock, buffer>>
      BY <2>1 DEF vars, server, socket, view
    <3> QED BY <3>1, SendsUntouched DEF Connected, Live
  <2> QED BY <2>1, WorldMessages, LinkMessages, MintingMessages, EventsMessages, EffectsMessages,
             ReadingMessages, VisitorMessagesStep DEF Next
<1>2. HistoryInv'
  BY HistoriesStay DEF MessagesInv
<1> QED BY <1>1, <1>2 DEF MessagesInv, Kept, Same

LEMMA AlwaysMessages == Spec => []MessagesInv
<1>1. Init => MessagesInv
  <2> SUFFICES ASSUME Init PROVE MessagesInv
    OBVIOUS
  <2>1. list = {} /\ fetches = {} /\ buffer = {} /\ log = <<>> /\ DOMAIN log = {}
        /\ sent = [k \in Sends |-> 0] /\ page.epoch = 0 /\ ~Connected
    BY DEF Init, Connected
  <2> QED BY <2>1 DEF MessagesInv, Same, HistoryInv, SendInv, AckInv, Has, Stored
<1>2. TypeInv /\ MessagesInv /\ [Next]_vars => MessagesInv'
  BY MessagesStep
<1> QED BY <1>1, <1>2, AlwaysTyped, PTL DEF Spec

\* However the push, the acknowledgement and the history of a message race, its
\* list holds it once, and next to the bubble of its send only while that waits
\* for its acknowledgement or has lost the connection that was to bring it.
THEOREM MessagesAreShownOnce == Spec => []ShownOnce
<1>1. TypeInv /\ MessagesInv => ShownOnce
  <2> SUFFICES ASSUME TypeInv, MessagesInv PROVE ShownOnce
    OBVIOUS
  <2>1. ASSUME NEW k \in Sends, Has(list, -k), NEW e \in list, e.by = k, e.id > 0
        PROVE  \/ \E i \in DOMAIN down : down[i].name = "sent" /\ down[i].send = k
               \/ ~Live \/ page.epoch # sent[k]
    <3>1. e \in Copies
      <4>1. e \notin Bubbles
        BY <2>1, SentIsPositive DEF Bubbles
      <4> QED BY <4>1 DEF TypeInv, ViewTyped
    <3>2. Stored(k)
      BY <2>1, <3>1 DEF Copies, Stored
    <3> QED BY <2>1, <3>2 DEF MessagesInv, AckInv, Acked
  <2> QED BY <2>1 DEF ShownOnce, MessagesInv, Same
<1> QED BY <1>1, AlwaysTyped, AlwaysMessages, PTL

\* A message that is shown as read is not shown unread again, whatever comes
\* late: a push, an acknowledgement, or a history read before the receipt.
THEOREM ReadStaysRead == Spec => ReadIsNotUndone
<1>1. TypeInv /\ MessagesInv /\ [Next]_vars =>
        [\A d \in list, e \in list' :
           d.id = e.id /\ d.id > 0 /\ d.status = "read" => e.status = "read"]_vars
  BY MessagesStep DEF Kept
<1> QED BY <1>1, AlwaysTyped, AlwaysMessages, PTL DEF Spec, ReadIsNotUndone
=============================================================================
