---------------------------- MODULE IRCDDBProofs ----------------------------
(* For any number of servers and of events: nobody keeps a pointer to a      *)
(* deleted queue, initReady is never carried over from one connection to     *)
(* the next, and the user list is the channel, but for what is still on its  *)
(* way.  The second needs to know how far the application has wound itself   *)
(* down after each of the polls that it begins without a queue, and in which *)
(* order the answers to WHO and SENDLIST come; the third, that of all the    *)
(* messages about a server the last one decides.                             *)
EXTENDS IRCDDBClient, TLAPS

\* The state d->state has when the poll under way is over.
Settled == IF step.at = "write" THEN step.to ELSE app

\* Some earlier message of the queue is the answer to WHO.
Listed(q, i) == \E j \in 1 .. i - 1 : q[j].type = "Who"
\* The application knows its own user, or will once it has read its queue.
Told == Me \in known \/ \E j \in 1 .. Len(recvQ) : recvQ[j].type = "Who"

\* Only a poll in state 10 leaves initReady behind when it goes back to 0.
Cleared == /\ initReady /\ Settled \in {0, 1, 2} => step.at = "write" /\ step.to = 0
           /\ step.at = "write" /\ step.to = 0 => app \in {2, 10}

\* From the choice of a server on there is one, and a table left to count down.
Started == /\ Settled \in 3 .. 7 => server \in Servers
           /\ Settled = 3 => table \in 0 .. 2
           /\ Settled = 4 => table \in 0 .. 1
           /\ Settled = 5 => table = 1

\* Without a queue every poll goes one state further down.
WindsDown ==
  client \notin {"Online", "Closing"} =>
    /\ polls = 1 => Settled \in {0, 2, 10}
    /\ polls = 2 => Settled \in {0, 10} /\ (initReady => Settled = 0)
    /\ polls = 3 => Settled = 0 /\ ~initReady

\* A new connection finds the application at rest.
StartsFresh ==
  /\ client \in {"Connect", "Connecting", "Ready"} => polls = 3
  /\ client \notin {"Online", "Closing"} => Me \notin known
  /\ client = "Online" /\ appQ = "null" =>
       /\ Settled = 0 /\ ~initReady /\ app /= 5 /\ sendQ = <<>> /\ asked = {}
       /\ Me \notin known
       /\ \A j \in 1 .. Len(recvQ) : recvQ[j].type \notin {"Who", "ListEnd", "ListMore"}

\* How far the download is.
Downloads ==
  client = "Online" /\ appQ = "live" =>
    /\ Settled = 3 => table = 2 \/ listed
    /\ Settled \in {4, 5} => table = 1 \/ listed
    /\ Settled \in {6, 7} => listed

\* The answer to WHO comes before the list.
Ordered ==
  client = "Online" =>
    /\ listed => Me \in known
    /\ (asked /= {} \/ (line = "up" /\ appQ = "live")) => Told
    /\ \A i \in 1 .. Len(recvQ) :
         recvQ[i].type = "ListEnd" => Me \in known \/ Listed(recvQ, i)

\* The inductive invariant of the queue and of initReady.
IInv == /\ TypeOK /\ QueueLive /\ Started /\ Cleared /\ WindsDown /\ StartsFresh
        /\ Downloads /\ Ordered /\ FreshList

\* What the queues and the steps of a poll are made of.
Bare == {"Welcome", "Collision", "Joined", "Pong", "Kick", "ListEnd", "ListMore"}
\* The messages that tell of one server.
Tidings == {"Join", "Quit", "Op", "Deop"}

\* The messages built without arguments.
LEMMA BareMessages == \A t \in Bare : Msg(t) \in Messages /\ Msg(t).type = t
BY DEF Bare, Msg, Messages

\* The messages about one server.
LEMMA NewsMessages ==
  \A t \in Tidings, s \in Servers : News(t, s) \in Messages /\ News(t, s).type = t
BY DEF Tidings, News, Messages

\* The answer to WHO.
LEMMA WhoMessages ==
  \A on \in SUBSET Servers, op \in SUBSET Servers :
    [type |-> "Who", on |-> on, op |-> op] \in Messages
BY DEF Messages

\* What the application sends.
LEMMA CommandKinds == Quit \in Commands /\ \A s \in Servers : SendList(s) \in Commands
BY DEF Quit, SendList, Commands

\* What a poll that is to write remembers.
LEMMA WritingSteps ==
  \A s \in AppStates, q \in BOOLEAN :
    /\ Writing(s, q) \in Steps
    /\ Writing(s, q).at = "write" /\ Writing(s, q).to = s /\ Writing(s, q).quit = q
<1> TAKE s \in AppStates, q \in BOOLEAN
<1>1. Writing(s, q) \in Steps
  BY DEF Steps
<1>2. /\ Writing(s, q).at = "write" /\ Writing(s, q).to = s /\ Writing(s, q).quit = q
  BY DEF Writing
<1> QED
  BY <1>1, <1>2

\* The two other steps of the application.
LEMMA RestingSteps ==
  Asleep \in Steps /\ Asleep.at = "asleep" /\ Stopped \in Steps /\ Stopped.at = "stopped"
BY DEF Asleep, Stopped, Steps

\* A step that writes has a state to go to.
LEMMA StepFields ==
  \A st \in Steps : st.at = "write" => st.to \in AppStates /\ st.quit \in BOOLEAN
BY DEF Asleep, Stopped, Writing, Steps

\* The fields of a message, by its type.
LEMMA MessageFields ==
  \A m \in Messages : /\ m.type \in Bare \cup Tidings \cup {"Who"}
                      /\ m.type \in Tidings => m.who \in Servers
                      /\ m.type = "Who" => m.on \in SUBSET Servers /\ m.op \in SUBSET Servers
BY DEF Bare, Tidings, Messages

\* The answers to the login commands are messages.
LEMMA ReplyTypes ==
  ASSUME TypeOK, MayTurn, proto \in {1, 2, 3, 5, 10, 11}, NEW free \in BOOLEAN
  PROVE  Reply(free) \in Seq(Messages)
<1>1. /\ \A m \in Messages : <<m>> \in Seq(Messages)
      /\ <<>> \in Seq(Messages)
  OBVIOUS
<1>2. [type |-> "Who", on |-> present, op |-> opped] \in Messages
  BY WhoMessages DEF TypeOK
<1>3. \A t \in {"Welcome", "Collision", "Joined", "Pong"} : Msg(t) \in Messages
  BY BareMessages DEF Bare
<1>4. CASE proto \in {1, 3}
  BY <1>1, <1>3, <1>4 DEF Reply
<1>5. CASE proto = 2
  BY <1>1, <1>3, <1>5 DEF Reply
<1>6. CASE proto = 5
  BY <1>1, <1>3, <1>6 DEF Reply
<1>7. CASE proto = 10
  BY <1>1, <1>2, <1>7 DEF Reply
<1>8. CASE proto = 11
  BY <1>1, <1>3, <1>8 DEF Reply
<1> QED
  BY <1>4, <1>5, <1>6, <1>7, <1>8

\* The remaining types, one lemma for each action or part of one.
LEMMA NickTypes ==
  ASSUME TypeOK, ChooseNewNick PROVE nickFree' \in BOOLEAN /\ events' \in 0 .. MaxEvents
<1>1. nickFree' \in BOOLEAN
  BY DEF ChooseNewNick
<1>2. events' \in 0 .. MaxEvents
  BY NetworkAssumption DEF TypeOK, ChooseNewNick, Happens
<1> QED
  BY <1>1, <1>2

\* Reading all that is queued keeps the list a set of servers.
LEMMA DrainTypes ==
  ASSUME TypeOK, NEW r \in Seq(Messages), Drain(r)
  PROVE  /\ recvQ' \in Seq(Messages) /\ sendQ' \in Seq(Commands)
         /\ asked' \in SUBSET present /\ line' \in {"none", "up", "silent", "closed"}
<1> USE DEF TypeOK
<1>1. sendQ' \in Seq(Commands)
  BY DEF Drain
<1>2. recvQ' = recvQ \o r \/ recvQ' = recvQ
  BY DEF Drain
<1>3. recvQ \o r \in Seq(Messages)
  OBVIOUS
<1>4. asked' \in SUBSET present
  BY DEF Drain
<1>5. line' \in {"none", "up", "silent", "closed"}
  BY DEF Drain
<1> QED
  BY <1>1, <1>2, <1>3, <1>4, <1>5

\* A turn of the protocol.
LEMMA ProceedsTypes == ASSUME TypeOK, Proceeds PROVE TypeOK'
<1> USE DEF TypeOK, dbVars, listVars
<1>1. nickFree' \in BOOLEAN /\ events' \in 0 .. MaxEvents
  <2>1. CASE proto = 3
    BY <2>1, NickTypes DEF Proceeds
  <2>2. CASE proto /= 3
    BY <2>2 DEF Proceeds
  <2> QED
    BY <2>1, <2>2
<1>2. Reply(nickFree') \in Seq(Messages)
  BY <1>1, ReplyTypes DEF Proceeds
<1>3. /\ recvQ' \in Seq(Messages) /\ sendQ' \in Seq(Commands)
      /\ asked' \in SUBSET present /\ line' \in {"none", "up", "silent", "closed"}
  BY <1>2, DrainTypes DEF Proceeds
<1>4. proto' \in ProtoStates
  BY DEF Proceeds, ProtoStates
<1>5. appQ' \in Pointers
  BY DEF Proceeds, SetSendQ, Pointers
<1> QED
  BY <1>1, <1>3, <1>4, <1>5 DEF Proceeds

\* The client hands a line to the application.
LEMMA ReceiveTypes == ASSUME TypeOK, Receive PROVE TypeOK'
<1> USE DEF TypeOK, worldVars
<1> DEFINE m == Head(recvQ)
<1>1. m \in Messages /\ recvQ' \in Seq(Messages)
  BY DEF Receive
<1>2. client' \in ClientStates
  BY DEF Receive, ClientStates
<1>3. proto' \in ProtoStates
  BY DEF Receive, ProtoStates
<1>4. known' \in SUBSET (Servers \cup {Me}) /\ ops' \in SUBSET Servers
  <2>1. CASE m.type = "Join" /\ UserJoin(m.who)
    BY <1>1, <2>1, MessageFields DEF UserJoin, Tidings
  <2>2. CASE m.type = "Who" /\ UserListed(m.on, m.op)
    BY <1>1, <2>2, MessageFields DEF UserListed
  <2>3. CASE m.type \in {"Op", "Deop"} /\ UserChanOp(m.who, m.type = "Op")
    BY <1>1, <2>3, MessageFields DEF UserChanOp, Tidings
  <2>4. CASE m.type = "Quit" /\ UserLeave(m.who)
    BY <1>1, <2>4 DEF UserLeave
  <2>5. CASE UNCHANGED <<known, ops>>
    BY <2>5
  <2> QED
    BY <2>1, <2>2, <2>3, <2>4, <2>5 DEF Receive
<1>5. app' \in AppStates
  BY DEF Receive, UserLeave, MsgQuery, AppStates
<1>6. initReady' \in BOOLEAN
  BY DEF Receive, UserLeave
<1>7. listed' \in BOOLEAN
  BY DEF Receive, MsgQuery
<1> QED
  BY <1>1, <1>2, <1>3, <1>4, <1>5, <1>6, <1>7 DEF Receive

\* A poll: what it does to each variable, while there is a queue and otherwise.
LEMMA ConnectedTypes ==
  ASSUME TypeOK, Started, step = Asleep, Connected
  PROVE  /\ sendQ' \in Seq(Commands) /\ table' \in -1 .. 2
         /\ server' \in Servers \cup {NoServer}
         /\ initReady' \in BOOLEAN /\ step' \in Steps
<1> USE DEF TypeOK
<1>0. Settled = app
  BY RestingSteps DEF Settled
<1>1. sendQ' \in Seq(Commands)
  <2>1. sendQ' = sendQ \/ (app = 4 /\ Put(SendList(server)))
    BY DEF Connected
  <2>2. app = 4 => SendList(server) \in Commands
    BY <1>0, CommandKinds DEF Started
  <2> QED
    BY <2>1, <2>2 DEF Put
<1>2. table' \in -1 .. 2
  <2>1. app = 3 => table \in 0 .. 2
    BY <1>0 DEF Started
  <2>2. table' \in {table, 2} \/ (app = 3 /\ table' = table - 1)
    BY DEF Connected, FindServerUser
  <2> QED
    BY <2>1, <2>2
<1>3. server' \in Servers \cup {NoServer}
  BY DEF Connected, FindServerUser
<1>4. initReady' \in BOOLEAN
  BY DEF Connected
<1>5. step' \in {Writing(s, FALSE) : s \in AppStates} \cup {Asleep}
  <2>1. \E s \in {1, 3, 4, 5, 6, 7} : step' = Writing(s, FALSE) \/ step' = Asleep
    BY DEF Connected
  <2>2. {1, 3, 4, 5, 6, 7} \subseteq AppStates
    BY DEF AppStates
  <2> QED
    BY <2>1, <2>2
<1>6. step' \in Steps
  <2>1. CASE step' = Asleep
    BY <2>1, RestingSteps
  <2>2. CASE step' /= Asleep
    <3>1. PICK s \in AppStates : step' = Writing(s, FALSE)
      BY <1>5, <2>2
    <3> QED
      BY <3>1, WritingSteps
  <2> QED
    BY <2>1, <2>2
<1> QED
  BY <1>1, <1>2, <1>3, <1>4, <1>6

\* A poll of the application.
LEMMA PollTypes == ASSUME TypeOK, Started, Poll PROVE TypeOK'
<1> USE DEF TypeOK, clientVars, protoVars, listVars, worldVars
<1>1. polls' \in 0 .. 3
  BY DEF Poll
<1>2. CASE appQ /= "null" /\ Connected
  BY <1>1, <1>2, ConnectedTypes DEF Poll
<1>3. CASE ~(appQ /= "null" /\ Connected)
  <2>1. step' \in {Asleep, Writing(2, FALSE), Writing(0, FALSE), Writing(10, FALSE)}
    BY <1>3 DEF Poll, Disconnects
  <2>2. {0, 2, 10} \subseteq AppStates
    BY DEF AppStates
  <2>3. step' \in Steps
    BY <2>1, <2>2, WritingSteps, RestingSteps
  <2> QED
    BY <1>1, <1>3, <2>3 DEF Poll
<1> QED
  BY <1>2, <1>3

\* The end of a poll.
LEMMA WriteTypes == ASSUME TypeOK, Write PROVE TypeOK'
<1> USE DEF TypeOK, clientVars, protoVars, listVars, worldVars
<1>1. sendQ' \in Seq(Commands)
  BY CommandKinds DEF Write, Put
<1>2. initReady' \in BOOLEAN
  BY DEF Write
<1>3. step' \in Steps /\ app' \in AppStates
  BY RestingSteps, StepFields DEF Write
<1> QED
  BY <1>1, <1>2, <1>3 DEF Write

\* The network puts only messages into the receive queue.
LEMMA TellTypes ==
  ASSUME TypeOK, NEW m \in Messages, Tell(m) PROVE recvQ' \in Seq(Messages)
BY DEF TypeOK, Tell

\* News of one server.
LEMMA NewsTypes ==
  ASSUME TypeOK, NEW s \in Servers,
         ServerJoins(s) \/ ServerIsOpped(s) \/ ServerIsDeopped(s) \/ ServerLeaves(s)
  PROVE  TypeOK'
<1> USE DEF TypeOK, WorldUnchanged, protoVars, dbVars, listVars
<1>1. recvQ' \in Seq(Messages)
  BY NewsMessages, TellTypes
     DEF ServerJoins, ServerIsOpped, ServerIsDeopped, ServerLeaves, Tidings
<1>2. events' \in 0 .. MaxEvents
  BY NetworkAssumption
     DEF ServerJoins, ServerIsOpped, ServerIsDeopped, ServerLeaves, Happens
<1>3. present' \in SUBSET Servers /\ opped' \in SUBSET present' /\ asked' \in SUBSET present'
  BY DEF ServerJoins, ServerIsOpped, ServerIsDeopped, ServerLeaves
<1> QED
  BY <1>1, <1>2, <1>3 DEF ServerJoins, ServerIsOpped, ServerIsDeopped, ServerLeaves

\* The answer to SENDLIST.
LEMMA AnswerTypes == ASSUME TypeOK, NEW s \in Servers, ServerAnswers(s) PROVE TypeOK'
<1> USE DEF TypeOK, WorldUnchanged, protoVars, dbVars, listVars
<1>1. recvQ' \in Seq(Messages)
  BY BareMessages, TellTypes DEF ServerAnswers, Bare
<1>2. asked' \in SUBSET present' /\ events' \in 0 .. MaxEvents
  BY NetworkAssumption DEF ServerAnswers, Happens
<1> QED
  BY <1>1, <1>2 DEF ServerAnswers

\* Every step keeps the types; the poll needs that there is a server to ask.
LEMMA TypeStep == ASSUME TypeOK, Started, Next PROVE TypeOK'
<1> USE NetworkAssumption
    DEF TypeOK, clientVars, protoVars, queueVars, dbVars, listVars, worldVars
<1>1. CASE EndsHere
  BY <1>1 DEF EndsHere, ClientStates
<1>2. CASE Resolves
  BY <1>2 DEF Resolves, ClientStates
<1>3. CASE Connects
  BY <1>3 DEF Connects, ClientStates
<1>4. CASE GetsReady
  <2>1. client' \in ClientStates /\ proto' \in ProtoStates
    BY <1>4 DEF GetsReady, ProtoStates, ClientStates
  <2>2. recvQ' \in Seq(Messages) /\ sendQ' \in Seq(Commands)
    BY <1>4 DEF GetsReady
  <2> QED
    BY <1>4, <2>1, <2>2, NickTypes DEF GetsReady
<1>5. CASE Receive
  BY <1>5, ReceiveTypes
<1>6. CASE Proceeds
  BY <1>6, ProceedsTypes
<1>7. CASE Sends
  <2>1. <<>> \in Seq(Messages)
    OBVIOUS
  <2> QED
    BY <1>7, <2>1, DrainTypes DEF Sends
<1>8. CASE GivesUp
  BY <1>8 DEF GivesUp, ClientStates
<1>9. CASE Withdraws
  <2>1. client' \in ClientStates /\ proto' \in ProtoStates /\ appQ' \in Pointers
    BY <1>9 DEF Withdraws, SetSendQ, ProtoStates, ClientStates, Pointers
  <2>2. /\ known' \in SUBSET (Servers \cup {Me}) /\ ops' \in SUBSET Servers
        /\ nickFree' \in BOOLEAN /\ listed' \in BOOLEAN /\ polls' \in 0 .. 3
    <3>1. known' \in SUBSET (Servers \cup {Me}) /\ ops' \in SUBSET Servers
      BY <1>9 DEF Withdraws, UserListReset
    <3>2. nickFree' \in BOOLEAN /\ listed' \in BOOLEAN
      BY <1>9 DEF Withdraws
    <3>3. polls' \in 0 .. 3
      BY <1>9 DEF Withdraws
    <3> QED
      BY <3>1, <3>2, <3>3
  <2>3. /\ UNCHANGED <<line, terminate, recvQ, sendQ, hold, app, step, table, server>>
        /\ UNCHANGED <<initReady, present, opped, asked, events>>
    BY <1>9 DEF Withdraws
  <2> QED
    BY <2>1, <2>2, <2>3
<1>10. CASE Deletes
  BY <1>10 DEF Deletes, Freed, ClientStates, Pointers
<1>11. CASE Poll
  BY <1>11, PollTypes
<1>12. CASE TimesOut
  BY <1>12, WritingSteps DEF TimesOut, AppStates
<1>13. CASE Write
  BY <1>13, WriteTypes
<1>14. CASE AppStops
  BY <1>14, RestingSteps DEF AppStops
<1>15. CASE FetchesQueue
  BY <1>15 DEF FetchesQueue, Pointers
<1>16. CASE PutsMessage
  BY <1>16 DEF PutsMessage, Pointers
<1>17. CASE Close
  BY <1>17 DEF Close
<1>18. CASE ConnectFails
  BY <1>18 DEF ConnectFails, Happens, ClientStates
<1>19. CASE Kicked
  <2>1. recvQ' \in Seq(Messages)
    BY <1>19, BareMessages, TellTypes DEF Kicked, Bare
  <2> QED
    BY <1>19, <2>1 DEF Kicked, Happens, WorldUnchanged
<1>20. CASE LineDrops
  BY <1>20 DEF LineDrops, Happens, WorldUnchanged
<1>21. ASSUME NEW s \in Servers,
              ServerJoins(s) \/ ServerIsOpped(s) \/ ServerIsDeopped(s) \/ ServerLeaves(s)
       PROVE  TypeOK'
  BY <1>21, NewsTypes
<1>22. ASSUME NEW s \in Servers, ServerAnswers(s) PROVE TypeOK'
  BY <1>22, AnswerTypes
<1>23. CASE Over
  BY <1>23 DEF Over, vars
<1> QED
  BY <1>1, <1>2, <1>3, <1>4, <1>5, <1>6, <1>7, <1>8, <1>9, <1>10, <1>11, <1>12, <1>13,
     <1>14, <1>15, <1>16, <1>17, <1>18, <1>19, <1>20, <1>21, <1>22, <1>23
     DEF Next, ClientThread, AppThread, Network

-----------------------------------------------------------------------------
(* The pointers, and the steps of the application.                           *)

LEMMA QueueStep == ASSUME TypeOK, QueueLive, Next PROVE QueueLive'
<1> USE DEF QueueLive, clientVars, protoVars, queueVars, dbVars, listVars, worldVars
<1>1. CASE UNCHANGED <<client, appQ, hold>>
  BY <1>1
<1>2. CASE EndsHere \/ Resolves \/ Connects \/ ConnectFails \/ GetsReady \/ GivesUp
  BY <1>2 DEF EndsHere, Resolves, Connects, ConnectFails, GetsReady, GivesUp
<1>3. CASE Receive
  BY <1>3 DEF Receive
<1>4. CASE Proceeds
  BY <1>4 DEF Proceeds, MayTurn, SetSendQ
<1>5. CASE Withdraws
  BY <1>5 DEF Withdraws, SetSendQ
<1>6. CASE Deletes
  BY <1>6 DEF Deletes, Freed
<1>7. CASE FetchesQueue
  BY <1>7 DEF FetchesQueue
<1>8. CASE PutsMessage
  BY <1>8 DEF PutsMessage
<1>9. CASE Sends \/ Close \/ Over \/ AppThread
  BY <1>9 DEF Sends, Close, Over, vars, AppThread, Poll, TimesOut, Write, AppStops
<1>10. CASE Kicked \/ LineDrops
  BY <1>10 DEF Kicked, LineDrops, WorldUnchanged
<1>11. ASSUME NEW s \in Servers,
              \/ ServerJoins(s) \/ ServerIsOpped(s) \/ ServerIsDeopped(s)
              \/ ServerLeaves(s) \/ ServerAnswers(s)
       PROVE  UNCHANGED <<client, appQ, hold>>
  BY <1>11 DEF ServerJoins, ServerIsOpped, ServerIsDeopped, ServerLeaves, ServerAnswers,
               WorldUnchanged
<1> QED
  BY <1>1, <1>2, <1>3, <1>4, <1>5, <1>6, <1>7, <1>8, <1>9, <1>10, <1>11
     DEF Next, ClientThread, Network

\* The application's variables change in Receive and in its own thread only.
LEMMA AppMoves ==
  ASSUME Next
  PROVE  \/ UNCHANGED <<app, step, table, server, initReady>>
         \/ Receive \/ Poll \/ TimesOut \/ Write \/ AppStops
<1> USE DEF clientVars, protoVars, queueVars, dbVars, listVars, worldVars
<1>1. CASE EndsHere \/ Resolves \/ Connects \/ ConnectFails \/ GetsReady \/ GivesUp
  BY <1>1 DEF EndsHere, Resolves, Connects, ConnectFails, GetsReady, GivesUp
<1>2. CASE Proceeds \/ Sends \/ Withdraws \/ Deletes
  BY <1>2 DEF Proceeds, Sends, Withdraws, Deletes
<1>3. CASE FetchesQueue \/ PutsMessage \/ Close \/ Over
  BY <1>3 DEF FetchesQueue, PutsMessage, Close, Over, vars
<1>4. CASE Kicked \/ LineDrops
  BY <1>4 DEF Kicked, LineDrops, WorldUnchanged
<1>5. ASSUME NEW s \in Servers,
             \/ ServerJoins(s) \/ ServerIsOpped(s) \/ ServerIsDeopped(s)
             \/ ServerLeaves(s) \/ ServerAnswers(s)
      PROVE  UNCHANGED <<app, step, table, server, initReady>>
  BY <1>5 DEF ServerJoins, ServerIsOpped, ServerIsDeopped, ServerLeaves, ServerAnswers,
              WorldUnchanged
<1> QED
  BY <1>1, <1>2, <1>3, <1>4, <1>5 DEF Next, ClientThread, AppThread, Network

\* What a message does to the application.
LEMMA ReceiveMoves ==
  ASSUME TypeOK, Receive
  PROVE  LET m == Head(recvQ) IN
         /\ UNCHANGED <<line, sendQ, appQ, hold, polls, step, table, server, asked>>
         /\ client = "Online" /\ client' \in {"Online", "Closing"}
         /\ Me \in known => Me \in known'
         /\ m.type = "Who" => Me \in known'
         /\ Me \in known' => Me \in known \/ m.type = "Who"
         /\ listed' => listed \/ m.type = "ListEnd"
         /\ listed => listed'
         /\ initReady' => initReady
         /\ \/ app' = app
            \/ app' = 2 /\ ~initReady' /\ Me \in known
            \/ app = 5 /\ app' = 3 /\ m.type = "ListEnd" /\ listed'
            \/ app = 5 /\ app' = 4 /\ m.type = "ListMore"
<1> DEFINE m == Head(recvQ)
<1>1. m \in Messages
  BY DEF TypeOK, Receive
<1>2. /\ UNCHANGED <<line, sendQ, appQ, hold, polls, step, table, server, asked>>
      /\ client = "Online" /\ client' \in {"Online", "Closing"}
  BY DEF Receive, worldVars
<1>3. m.type \in {"Join", "Op", "Deop", "Quit"} => m.who /= Me
  BY <1>1, MessageFields, NetworkAssumption DEF Tidings
<1>4. CASE m.type = "Join" /\ UserJoin(m.who) /\ UNCHANGED <<app, initReady, listed>>
  BY <1>2, <1>3, <1>4 DEF UserJoin
<1>5. CASE m.type = "Who" /\ UserListed(m.on, m.op) /\ UNCHANGED <<app, initReady, listed>>
  BY <1>2, <1>5 DEF UserListed
<1>6. CASE /\ m.type \in {"Op", "Deop"} /\ UserChanOp(m.who, m.type = "Op")
           /\ UNCHANGED <<app, initReady, listed>>
  BY <1>2, <1>6 DEF UserChanOp
<1>7. CASE m.type = "Quit" /\ UserLeave(m.who) /\ UNCHANGED listed
  BY <1>2, <1>3, <1>7 DEF UserLeave
<1>8. CASE /\ m.type \in {"ListEnd", "ListMore"} /\ MsgQuery(m.type)
           /\ UNCHANGED <<initReady, known, ops>>
  BY <1>2, <1>8 DEF MsgQuery
<1>9. CASE /\ m.type \in {"Welcome", "Collision", "Joined", "Pong", "Kick"}
           /\ UNCHANGED <<app, initReady, known, ops, listed>>
  BY <1>2, <1>9
<1> QED
  BY <1>4, <1>5, <1>6, <1>7, <1>8, <1>9 DEF Receive

\* Where a poll leads.
LEMMA PollMoves ==
  ASSUME TypeOK, Poll
  PROVE  /\ Settled = app /\ app' = app /\ client /= "Ended"
         /\ UNCHANGED <<client, line, recvQ, appQ, hold, known, listed, asked>>
         /\ polls' = IF polls < 3 THEN polls + 1 ELSE polls
         /\ step' = Asleep \/ step'.at = "write"
         /\ \/ /\ app \in {1, 10} \/ appQ = "null"
               /\ UNCHANGED <<sendQ, table, server, initReady>>
               /\ \/ app = 1 /\ Settled' = 2
                  \/ app = 10 /\ Settled' = 0
                  \/ app = 0 /\ Settled' = 0 /\ step' = Asleep
                  \/ app \notin {0, 1, 10} /\ Settled' = 10
            \/ /\ appQ /= "null" /\ app \notin {1, 10}
               /\ \/ app = 0 /\ Settled' = 1 /\ UNCHANGED <<table, server, initReady>>
                  \/ /\ app = 2 /\ Settled' = 3 /\ server' \in ops /\ table' = 2
                     /\ UNCHANGED initReady
                  \/ /\ app = 3 /\ table' = table - 1
                     /\ Settled' = (IF table' < 0 THEN 6 ELSE 4)
                     /\ UNCHANGED <<server, initReady>>
                  \/ /\ app = 4 /\ Settled' = (IF table = 1 THEN 5 ELSE 3)
                     /\ UNCHANGED <<table, server, initReady>>
                  \/ app = 6 /\ Settled' = 7 /\ UNCHANGED <<table, server, initReady>>
                  \/ /\ app \in {2, 5, 7} /\ step' = Asleep /\ Settled' = app
                     /\ UNCHANGED <<table, server, initReady>>
<1> USE DEF clientVars, protoVars, listVars, worldVars
<1>1. Settled = app /\ app' = app
  BY RestingSteps DEF Poll, Settled
<1> DEFINE To(s) == step' = Writing(s, FALSE) => Settled' = s /\ step'.at = "write"
<1>2. \A s \in AppStates : To(s)
  BY WritingSteps DEF Settled
<1>3. To(0) /\ To(1) /\ To(2) /\ To(3) /\ To(4) /\ To(5) /\ To(6) /\ To(7) /\ To(10)
  <2>1. {0, 1, 2, 3, 4, 5, 6, 7, 10} \subseteq AppStates
    BY DEF AppStates
  <2> QED
    BY <1>2, <2>1
<1>4. step' = Asleep => Settled' = app
  BY <1>1, RestingSteps DEF Settled
<1>5. /\ UNCHANGED <<client, line, recvQ, appQ, hold, known, listed, asked>>
      /\ polls' = IF polls < 3 THEN polls + 1 ELSE polls
      /\ client /= "Ended"
  BY DEF Poll
<1>6. CASE app \notin {1, 10} /\ appQ /= "null" /\ Connected
  <2>1. CASE app = 0
    <3>1. step' = Writing(1, FALSE)
      BY <1>6, <2>1 DEF Connected
    <3>2. Settled' = 1 /\ step'.at = "write"
      BY <1>3, <3>1
    <3> QED
      BY <1>1, <1>5, <1>6, <2>1, <3>2 DEF Connected
  <2>2. CASE app = 2
    BY <1>1, <1>3, <1>4, <1>5, <1>6, <2>2 DEF Connected, FindServerUser
  <2>3. CASE app = 3
    <3>1. /\ table' = table - 1 /\ UNCHANGED <<server, initReady>>
          /\ step' = Writing(IF table' < 0 THEN 6 ELSE 4, FALSE)
      BY <1>6, <2>3 DEF Connected
    <3>2. /\ Settled' = (IF table' < 0 THEN 6 ELSE 4) /\ step'.at = "write"
      BY <1>3, <3>1
    <3> QED
      BY <1>1, <1>5, <1>6, <2>3, <3>1, <3>2
  <2>4. CASE app = 4
    BY <1>1, <1>3, <1>5, <1>6, <2>4 DEF Connected
  <2>5. CASE app \in {5, 7}
    <3>1. step' = Asleep /\ UNCHANGED <<table, server, initReady>>
      <4>1. app /= 0 /\ app /= 2 /\ app /= 3 /\ app /= 4 /\ app /= 6
        BY <2>5
      <4>2. step' = Asleep /\ UNCHANGED <<sendQ, table, server, initReady>>
        BY <1>6, <4>1, Zenon DEF Connected
      <4> QED
        BY <4>2
    <3> QED
      BY <1>1, <1>4, <1>5, <1>6, <2>5, <3>1
  <2>6. CASE app = 6
    <3>1. step' = Writing(7, FALSE)
      BY <1>6, <2>6 DEF Connected
    <3>2. Settled' = 7 /\ step'.at = "write"
      BY <1>3, <3>1
    <3> QED
      BY <1>1, <1>5, <1>6, <2>6, <3>2 DEF Connected
  <2> QED
    BY <1>6, <2>1, <2>2, <2>3, <2>4, <2>5, <2>6 DEF Connected
<1>7. CASE /\ app \in {1, 10} \/ appQ = "null"
           /\ step' = CASE app = 1  -> Writing(2, FALSE)
                        [] app = 10 -> Writing(0, FALSE)
                        [] OTHER    -> Disconnects
           /\ UNCHANGED <<sendQ, table, server, initReady>>
  <2>1. CASE app = 1
    <3>1. step' = Writing(2, FALSE)
      BY <1>7, <2>1
    <3>2. Settled' = 2 /\ step'.at = "write"
      BY <1>3, <3>1
    <3> QED
      BY <1>1, <1>5, <1>7, <2>1, <3>2
  <2>2. CASE app = 10
    <3>1. step' = Writing(0, FALSE)
      BY <1>7, <2>2
    <3>2. Settled' = 0 /\ step'.at = "write"
      BY <1>3, <3>1
    <3> QED
      BY <1>1, <1>5, <1>7, <2>2, <3>2
  <2>3. CASE app = 0
    BY <1>1, <1>4, <1>5, <1>7, <2>3 DEF Disconnects
  <2>4. CASE app \notin {0, 1, 10}
    BY <1>1, <1>3, <1>5, <1>7, <2>4 DEF Disconnects
  <2> QED
    BY <2>1, <2>2, <2>3, <2>4
<1> QED
  BY <1>6, <1>7 DEF Poll

\* The other steps of the application.
LEMMA WriteMoves ==
  ASSUME TypeOK, Write
  PROVE  /\ Settled = step.to /\ app' = step.to /\ Settled' = step.to /\ step' = Asleep
         /\ initReady' <=> (step.to = 7 \/ (initReady /\ step.to /= 0))
         /\ appQ = "null" => sendQ' = sendQ
         /\ UNCHANGED <<client, line, recvQ, appQ, hold, polls, table, server, known,
                        listed, asked>>
BY RestingSteps DEF Write, Put, Settled, clientVars, protoVars, listVars, worldVars, TypeOK

\* A time-out or the stop moves the state at most on to 10.
LEMMA OtherMoves ==
  ASSUME TimesOut \/ AppStops
  PROVE  /\ UNCHANGED <<client, line, recvQ, sendQ, appQ, hold, polls, app, table, server,
                        initReady, known, listed, asked>>
         /\ Settled = app
         /\ \/ /\ appQ /= "null" /\ app \in {2, 5} /\ Settled' = 10
               /\ step'.at = "write" /\ step'.to = 10
            \/ client = "Ended" /\ Settled' = app /\ step'.at /= "write"
<1> USE DEF clientVars, protoVars, queueVars, dbVars, listVars, worldVars, Settled
<1>1. 10 \in AppStates
  BY DEF AppStates
<1>2. CASE TimesOut
  BY <1>1, <1>2, WritingSteps, RestingSteps DEF TimesOut
<1>3. CASE AppStops
  BY <1>3, RestingSteps DEF AppStops
<1> QED
  BY <1>2, <1>3

\* Every step keeps Started.
LEMMA StartedStep == ASSUME TypeOK, Started, Next PROVE Started'
<1>1. CASE UNCHANGED <<app, step, table, server, initReady>>
  BY <1>1 DEF Started, Settled
<1>2. CASE Receive
  BY <1>2, ReceiveMoves DEF Started, Settled
<1>3. CASE Poll
  BY <1>3, PollMoves DEF Started, TypeOK
<1>4. CASE TimesOut \/ AppStops
  BY <1>4, OtherMoves DEF Started
<1>5. CASE Write
  BY <1>5, WriteMoves DEF Started
<1> QED
  BY <1>1, <1>2, <1>3, <1>4, <1>5, AppMoves

\* Every step keeps Cleared.
LEMMA ClearedStep == ASSUME TypeOK, Cleared, Next PROVE Cleared'
<1>1. CASE UNCHANGED <<app, step, table, server, initReady>>
  BY <1>1 DEF Cleared, Settled
<1>2. CASE Receive
  BY <1>2, ReceiveMoves DEF Cleared, Settled
<1>3. CASE Poll
  <2>1. step'.at = "write" => Settled' = step'.to
    BY DEF Settled
  <2>2. step' = Asleep \/ step'.at = "write"
    BY <1>3, PollMoves
  <2>3. ~(initReady /\ app \in {0, 1, 2})
    BY <1>3, PollMoves, RestingSteps DEF Cleared, Poll
  <2>4. initReady' /\ Settled' \in {0, 1, 2} => app = 10 /\ Settled' = 0
    <3>1. initReady' /\ Settled' /= 7 => initReady
      BY <1>3, PollMoves
    <3>2. Settled' \in {0, 1, 2} => app \in {0, 1, 2} \/ (app = 10 /\ Settled' = 0)
      BY <1>3, PollMoves
    <3> QED
      BY <2>3, <3>1, <3>2
  <2>7. step' = Asleep => Settled' = app'
    BY RestingSteps DEF Settled
  <2>5. step'.at = "write" /\ Settled' = 0 => app = 10
    BY <1>3, PollMoves, RestingSteps
  <2>6. app' = app
    BY <1>3, PollMoves
  <2> QED
    BY <2>1, <2>2, <2>4, <2>5, <2>6, <2>7 DEF Cleared
<1>4. CASE TimesOut \/ AppStops
  BY <1>4, OtherMoves, RestingSteps DEF Cleared, Settled
<1>5. CASE Write
  BY <1>5, WriteMoves, RestingSteps DEF Cleared, Write
<1> QED
  BY <1>1, <1>2, <1>3, <1>4, <1>5, AppMoves

\* Every step keeps WindsDown: without a queue no poll climbs.
LEMMA WindsStep ==
  ASSUME TypeOK, QueueLive, Cleared, WindsDown, Next PROVE WindsDown'
<1>1. CASE UNCHANGED <<app, step, initReady>> /\ UNCHANGED polls /\ client' = client
  BY <1>1 DEF WindsDown, Settled
<1>2. CASE Withdraws
  BY <1>2 DEF Withdraws, WindsDown
<1>3. CASE Receive
  BY <1>3, ReceiveMoves DEF WindsDown
<1>4. CASE Poll
  <2> SUFFICES ASSUME client \notin {"Online", "Closing"} PROVE WindsDown'
    BY <1>4, PollMoves DEF WindsDown
  <2>1. appQ = "null"
    BY DEF QueueLive, TypeOK, Pointers
  <2>2. step.at = "asleep"
    BY <1>4, RestingSteps DEF Poll
  <2>3. ~(initReady /\ app \in {0, 1, 2})
    BY <1>4, <2>2, PollMoves DEF Cleared
  <2>4. \/ app = 1 /\ Settled' = 2
        \/ app = 10 /\ Settled' = 0
        \/ app = 0 /\ Settled' = 0
        \/ app \notin {0, 1, 10} /\ Settled' = 10
    BY <1>4, <2>1, PollMoves
  <2>5. Settled = app /\ initReady' = initReady
    BY <1>4, <2>1, PollMoves
  <2>6. polls' = IF polls < 3 THEN polls + 1 ELSE polls
    BY <1>4, PollMoves
  <2>7. polls = 0 \/ polls = 1 \/ polls = 2 \/ polls = 3
    BY DEF TypeOK
  <2>8. polls' = 1 => polls = 0
    BY <2>6, <2>7
  <2>9. polls' = 2 => polls = 1
    BY <2>6, <2>7
  <2>10. polls' = 3 => polls \in {2, 3}
    BY <2>6, <2>7
  <2>11. polls = 1 => app \in {0, 2, 10}
    BY <2>5 DEF WindsDown
  <2>12. polls \in {2, 3} => app \in {0, 10} /\ (initReady => app = 0)
    BY <2>5 DEF WindsDown
  <2>13. polls' = 1 => Settled' \in {0, 2, 10}
    BY <2>4
  <2>14. polls' = 2 => Settled' \in {0, 10} /\ (initReady' => Settled' = 0)
    BY <2>3, <2>4, <2>5, <2>9, <2>11
  <2>15. polls' = 3 => Settled' = 0 /\ ~initReady'
    BY <2>3, <2>4, <2>5, <2>10, <2>12
  <2> QED
    BY <2>13, <2>14, <2>15 DEF WindsDown
<1>5. CASE TimesOut \/ AppStops
  BY <1>5, OtherMoves DEF WindsDown, QueueLive, TypeOK, Pointers
<1>6. CASE Write
  BY <1>6, WriteMoves DEF WindsDown
<1>7. CASE EndsHere \/ Resolves \/ Connects \/ ConnectFails \/ Deletes
  <2>1. UNCHANGED <<app, step, initReady>> /\ UNCHANGED polls
        /\ client \notin {"Online", "Closing"}
    BY <1>7 DEF EndsHere, Resolves, Connects, ConnectFails, Deletes, queueVars, dbVars
  <2> QED
    BY <2>1 DEF WindsDown, Settled
<1>8. CASE GetsReady \/ GivesUp
  BY <1>8 DEF GetsReady, GivesUp, WindsDown
<1>9. CASE Proceeds \/ Sends \/ FetchesQueue \/ PutsMessage \/ Close \/ Over
  BY <1>1, <1>9 DEF Proceeds, Sends, FetchesQueue, PutsMessage, Close, Over, vars,
                    clientVars, queueVars, dbVars
<1>10. CASE Kicked \/ LineDrops
  BY <1>1, <1>10 DEF Kicked, LineDrops, WorldUnchanged, dbVars
<1>11. ASSUME NEW s \in Servers,
              \/ ServerJoins(s) \/ ServerIsOpped(s) \/ ServerIsDeopped(s)
              \/ ServerLeaves(s) \/ ServerAnswers(s)
       PROVE  UNCHANGED <<app, step, initReady>> /\ UNCHANGED polls /\ client' = client
  BY <1>11 DEF ServerJoins, ServerIsOpped, ServerIsDeopped, ServerLeaves, ServerAnswers,
               WorldUnchanged, dbVars
<1> QED
  BY <1>1, <1>2, <1>3, <1>4, <1>5, <1>6, <1>7, <1>8, <1>9, <1>10, <1>11
     DEF Next, ClientThread, AppThread, Network

-----------------------------------------------------------------------------
(* The connection.  A step of a turn of processQueues, a piece of news and an *)
(* answer add at most one message; the others leave the queue alone.         *)

\* What the client sends, and what comes back.
LEMMA DrainMoves ==
  ASSUME TypeOK, MayTurn, NEW r \in Seq(Messages), Drain(r)
  PROVE  /\ sendQ' = <<>>
         /\ line' = "up" => line = "up"
         /\ recvQ' = <<>> \/ (line = "up" /\ recvQ' = r)
         /\ sendQ = <<>> => asked' = asked
         /\ line /= "up" => asked' = asked
         /\ line = "up" => recvQ' = r
<1>1. recvQ = <<>>
  BY DEF MayTurn
<1>2. recvQ \o r = r
  BY <1>1
<1>3. sendQ = <<>> => {sendQ[i] : i \in DOMAIN sendQ} = {}
  OBVIOUS
<1>4. sendQ = <<>> => asked' = asked
  BY <1>3 DEF Drain
<1> QED
  BY <1>1, <1>2, <1>4 DEF Drain

\* Only the answer to WHO, sent in state 10, has the users on it.
LEMMA ReplyMoves ==
  ASSUME TypeOK, proto \in {1, 2, 3, 5, 10, 11}, NEW free
  PROVE  LET r == Reply(free) IN
         /\ proto = 10 => Len(r) = 1 /\ r[1].type = "Who"
         /\ proto /= 10 => \A j \in 1 .. Len(r) :
                             r[j].type \notin {"Who", "ListEnd", "ListMore"}
         /\ \A j \in 1 .. Len(r) : r[j].type \notin {"ListEnd", "ListMore"}
<1>1. \A t \in {"Welcome", "Collision", "Joined", "Pong"} : Msg(t).type = t
  BY BareMessages DEF Bare
<1>2. CASE proto \in {1, 3}
  BY <1>1, <1>2 DEF Reply
<1>3. CASE proto = 2
  BY <1>1, <1>3 DEF Reply
<1>4. CASE proto = 5
  BY <1>1, <1>4 DEF Reply
<1>5. CASE proto = 10
  BY <1>5 DEF Reply
<1>6. CASE proto = 11
  BY <1>1, <1>6 DEF Reply
<1> QED
  BY <1>2, <1>3, <1>4, <1>5, <1>6

\* What the network adds to the receive queue.
NetworkSpeaks ==
  Kicked \/ \E s \in Servers : \/ ServerJoins(s) \/ ServerIsOpped(s) \/ ServerIsDeopped(s)
                               \/ ServerLeaves(s) \/ ServerAnswers(s)

\* The network adds one message at most, and never the answer to WHO.
LEMMA NetMoves ==
  ASSUME TypeOK, NetworkSpeaks
  PROVE  /\ UNCHANGED <<client, line, sendQ, appQ, polls, app, step, table, server,
                        initReady, known, listed>>
         /\ asked' \subseteq asked
         /\ \/ recvQ' = recvQ
            \/ \E m \in Messages :
                 /\ recvQ' = Append(recvQ, m) /\ m.type /= "Who"
                 /\ m.type \in {"ListEnd", "ListMore"} => asked /= {}
<1> USE DEF WorldUnchanged, dbVars, listVars
<1> DEFINE Adds(m) == recvQ' = recvQ \/ recvQ' = Append(recvQ, m)
<1> DEFINE Goal == /\ UNCHANGED <<client, line, sendQ, appQ, polls, app, step, table,
                                  server, initReady, known, listed>>
                   /\ asked' \subseteq asked
                   /\ \/ recvQ' = recvQ
                      \/ \E m \in Messages :
                           /\ recvQ' = Append(recvQ, m) /\ m.type /= "Who"
                           /\ m.type \in {"ListEnd", "ListMore"} => asked /= {}
<1>1. ASSUME Kicked PROVE Goal
  <2>1. Adds(Msg("Kick"))
    BY <1>1 DEF Kicked, Tell
  <2>2. Msg("Kick") \in Messages /\ Msg("Kick").type = "Kick"
    BY BareMessages DEF Bare
  <2>3. asked' \subseteq asked
    BY <1>1 DEF Kicked
  <2> QED
    BY <1>1, <2>1, <2>2, <2>3 DEF Kicked
<1>2. ASSUME NEW s \in Servers,
             ServerJoins(s) \/ ServerIsOpped(s) \/ ServerIsDeopped(s) \/ ServerLeaves(s)
      PROVE  Goal
  <2>1. PICK t \in Tidings : Adds(News(t, s))
    <3>1. \/ Tell(News("Join", s)) \/ Tell(News("Op", s))
          \/ Tell(News("Deop", s)) \/ Tell(News("Quit", s))
      BY <1>2 DEF ServerJoins, ServerIsOpped, ServerIsDeopped, ServerLeaves
    <3> QED
      BY <3>1 DEF Tell, Tidings
  <2>2. News(t, s) \in Messages /\ News(t, s).type \in Tidings
    BY NewsMessages
  <2>3. asked' \subseteq asked
    BY <1>2 DEF ServerJoins, ServerIsOpped, ServerIsDeopped, ServerLeaves
  <2>4. UNCHANGED <<client, line, sendQ, appQ, polls, app, step, table, server,
                    initReady, known, listed>>
    BY <1>2 DEF ServerJoins, ServerIsOpped, ServerIsDeopped, ServerLeaves
  <2> QED
    BY <2>1, <2>2, <2>3, <2>4 DEF Tidings
<1>3. ASSUME NEW s \in Servers, ServerAnswers(s)
      PROVE  Goal
  <2>1. \E t \in {"ListEnd", "ListMore"} : Adds(Msg(t))
    BY <1>3 DEF ServerAnswers, Tell
  <2>2. \A t \in {"ListEnd", "ListMore"} : Msg(t) \in Messages /\ Msg(t).type = t
    BY BareMessages DEF Bare
  <2>3. asked /= {} /\ asked' \subseteq asked
    BY <1>3 DEF ServerAnswers
  <2> QED
    BY <1>3, <2>1, <2>2, <2>3 DEF ServerAnswers
<1> QED
  BY <1>1, <1>2, <1>3 DEF NetworkSpeaks

\* An append keeps what is in the queue where it is.
LEMMA AppendedQueue ==
  ASSUME NEW q \in Seq(Messages), NEW m \in Messages
  PROVE  /\ Len(Append(q, m)) = Len(q) + 1
         /\ \A j \in 1 .. Len(q) : Append(q, m)[j] = q[j]
         /\ Append(q, m)[Len(q) + 1] = m
OBVIOUS

\* Every step keeps StartsFresh: what a poll leaves behind is gone when the next line is up.
LEMMA FreshStep ==
  ASSUME TypeOK, QueueLive, Cleared, WindsDown, StartsFresh, Next PROVE StartsFresh'
<1> DEFINE Rest == client = "Online" /\ appQ = "null"
           Quiet(q) == \A j \in 1 .. Len(q) : q[j].type \notin {"Who", "ListEnd", "ListMore"}
<1>1. CASE Receive
  <2>1. /\ client = "Online" /\ client' \in {"Online", "Closing"} /\ appQ' = appQ
        /\ sendQ' = sendQ /\ asked' = asked /\ step' = step
    BY <1>1, ReceiveMoves
  <2>2. CASE appQ = "null" /\ client' = "Online"
    <3>1. Quiet(recvQ) /\ Me \notin known
      BY <2>1, <2>2 DEF StartsFresh
    <3>2. Head(recvQ).type \notin {"Who", "ListEnd", "ListMore"}
      BY <1>1, <3>1 DEF TypeOK, Receive
    <3>3. Quiet(recvQ')
      BY <1>1, <3>1 DEF TypeOK, Receive
    <3>4. app' = app /\ (initReady' => initReady) /\ Me \notin known'
      BY <1>1, <3>1, <3>2, ReceiveMoves
    <3>5. Settled' = Settled
      BY <2>1, <3>4 DEF Settled
    <3> QED
      BY <2>1, <2>2, <3>3, <3>4, <3>5 DEF StartsFresh
  <2>3. CASE ~(appQ = "null" /\ client' = "Online")
    BY <2>1, <2>3 DEF StartsFresh
  <2> QED
    BY <2>2, <2>3
<1>2. CASE GetsReady
  <2>1. client = "Ready" /\ client' = "Online" /\ recvQ' = <<>> /\ sendQ' = <<>> /\ asked' = {}
        /\ UNCHANGED <<app, step, initReady, known>>
    BY <1>2 DEF GetsReady, dbVars
  <2>2. polls = 3 /\ Me \notin known
    BY <2>1 DEF StartsFresh
  <2>3. Settled = 0 /\ ~initReady
    BY <2>1, <2>2 DEF WindsDown
  <2>4. Settled' = Settled
    BY <2>1 DEF Settled
  <2>5. app /= 5
    BY <2>3 DEF Cleared, Settled
  <2> QED
    BY <2>1, <2>2, <2>3, <2>4, <2>5 DEF StartsFresh
<1>3. CASE Proceeds
  <2>1. client = "Online" /\ client' = client
        /\ UNCHANGED <<app, step, initReady, known>> /\ MayTurn
    BY <1>3 DEF Proceeds, dbVars, listVars, MayTurn
  <2>2. CASE proto = 10
    BY <1>3, <2>1, <2>2 DEF Proceeds, SetSendQ, StartsFresh
  <2>3. CASE proto /= 10 /\ appQ = "null"
    <3>1. nickFree' \in BOOLEAN
      BY <1>3, TypeStep DEF TypeOK, Proceeds, ChooseNewNick
    <3>2. Reply(nickFree') \in Seq(Messages) /\ Drain(Reply(nickFree'))
      BY <1>3, <2>1, <3>1, ReplyTypes DEF Proceeds
    <3>3. sendQ = <<>> /\ asked = {} /\ Settled = 0 /\ ~initReady /\ app /= 5 /\ Me \notin known
      BY <2>1, <2>3 DEF StartsFresh
    <3>4. sendQ' = <<>> /\ asked' = {} /\ (recvQ' = <<>> \/ recvQ' = Reply(nickFree'))
      BY <2>1, <3>2, <3>3, DrainMoves
    <3>5. Quiet(Reply(nickFree'))
      BY <1>3, <2>3, ReplyMoves DEF Proceeds
    <3>6. Quiet(recvQ')
      BY <3>4, <3>5
    <3>7. Settled' = Settled
      BY <2>1 DEF Settled
    <3> QED
      BY <2>1, <3>3, <3>4, <3>6, <3>7 DEF StartsFresh
  <2>4. CASE proto /= 10 /\ appQ /= "null"
    BY <1>3, <2>1, <2>4 DEF Proceeds, StartsFresh
  <2> QED
    BY <2>2, <2>3, <2>4
<1>4. CASE Sends
  <2>1. client = "Online" /\ client' = client /\ appQ' = appQ /\ sendQ /= <<>>
    BY <1>4 DEF Sends, MayTurn
  <2> QED
    BY <2>1 DEF StartsFresh
<1>5. CASE Poll
  <2>1. /\ UNCHANGED <<client, appQ, recvQ, app, known, asked>>
        /\ polls = 3 => polls' = 3
        /\ Settled = app
    BY <1>5, PollMoves
  <2>2. Rest => Settled' = 0 /\ sendQ' = sendQ /\ initReady' = initReady
    BY <1>5, <2>1, PollMoves DEF StartsFresh
  <2> QED
    BY <2>1, <2>2 DEF StartsFresh
<1>6. CASE TimesOut \/ AppStops
  BY <1>6, OtherMoves DEF StartsFresh
<1>7. CASE Write
  BY <1>7, WriteMoves DEF StartsFresh
<1>8. CASE Withdraws
  BY <1>8, NetworkAssumption DEF Withdraws, UserListReset, StartsFresh
<1>9. CASE Resolves \/ EndsHere \/ Connects \/ ConnectFails \/ Deletes
  <2>1. /\ client \notin {"Online", "Closing"} /\ client' \notin {"Online", "Closing"}
        /\ UNCHANGED <<polls, known>>
        /\ client' \in {"Connect", "Connecting", "Ready"} =>
             polls = 3 \/ client \in {"Connect", "Connecting", "Ready"}
    BY <1>9 DEF Resolves, EndsHere, Connects, ConnectFails, Deletes, queueVars, listVars
  <2> QED
    BY <2>1 DEF StartsFresh
<1>10. CASE GivesUp
  BY <1>10 DEF GivesUp, StartsFresh
<1>11. CASE FetchesQueue \/ PutsMessage \/ Close \/ Over \/ LineDrops
  <2>1. UNCHANGED <<client, polls, known, appQ, app, step, initReady, sendQ, asked, recvQ>>
    BY <1>11 DEF FetchesQueue, PutsMessage, Close, Over, LineDrops, WorldUnchanged, vars,
                 clientVars, queueVars, dbVars, listVars, worldVars
  <2> QED
    BY <2>1 DEF StartsFresh, Settled
<1>12. CASE NetworkSpeaks
  <2>1. /\ UNCHANGED <<client, sendQ, appQ, polls, app, step, initReady, known>>
        /\ asked' \subseteq asked
    BY <1>12, NetMoves
  <2>2. Settled' = Settled
    BY <2>1 DEF Settled
  <2>3. Rest => Quiet(recvQ) /\ asked = {}
    BY DEF StartsFresh
  <2>4. Rest => Quiet(recvQ')
    <3>1. CASE recvQ' = recvQ
      BY <2>3, <3>1
    <3>2. CASE recvQ' /= recvQ /\ Rest
      <4>1. PICK m \in Messages :
              recvQ' = Append(recvQ, m) /\ m.type \notin {"Who", "ListEnd", "ListMore"}
        BY <1>12, <2>3, <3>2, NetMoves
      <4> QED
        BY <2>3, <3>2, <4>1, AppendedQueue DEF TypeOK
    <3> QED
      BY <3>1, <3>2
  <2>5. Rest => asked' = {}
    BY <2>1, <2>3
  <2> QED
    BY <2>1, <2>2, <2>4, <2>5 DEF StartsFresh
<1> QED
  BY <1>1, <1>2, <1>3, <1>4, <1>5, <1>6, <1>7, <1>8, <1>9, <1>10, <1>11, <1>12
     DEF Next, ClientThread, AppThread, Network, NetworkSpeaks

\* What neither the table nor the order of the answers is about.
LEMMA Idle ==
  ASSUME \/ EndsHere \/ Resolves \/ Connects \/ ConnectFails \/ FetchesQueue
         \/ PutsMessage \/ Close \/ Over \/ LineDrops \/ GivesUp \/ Withdraws \/ Deletes
  PROVE  \/ client' /= "Online"
         \/ /\ UNCHANGED <<client, appQ, app, step, table, initReady, recvQ, asked, known, listed>>
            /\ line' = "up" => line = "up"
BY DEF EndsHere, Resolves, Connects, ConnectFails, FetchesQueue, PutsMessage, Close, Over,
       LineDrops, GivesUp, Withdraws, Deletes, WorldUnchanged, vars, clientVars, queueVars,
       dbVars, listVars, worldVars

\* Every step keeps Downloads.
LEMMA DownStep ==
  ASSUME TypeOK, QueueLive, StartsFresh, Downloads, Next PROVE Downloads'
<1>1. CASE Receive
  BY <1>1, ReceiveMoves DEF Downloads, Settled
<1>2. CASE GetsReady
  BY <1>2 DEF GetsReady, QueueLive, Downloads
<1>3. CASE Proceeds
  <2>1. client = "Online" /\ UNCHANGED <<client, app, step, table, listed>>
    BY <1>3 DEF Proceeds, MayTurn, dbVars, listVars
  <2>2. Settled' = Settled
    BY <2>1 DEF Settled
  <2>3. appQ = "null" => Settled = 0
    BY <2>1 DEF StartsFresh
  <2>4. appQ \in {"null", "live"}
    BY DEF TypeOK, Pointers, QueueLive
  <2> QED
    BY <2>1, <2>2, <2>3, <2>4 DEF Downloads
<1>4. CASE Sends
  BY <1>4 DEF Sends, dbVars, listVars, Downloads, Settled
<1>5. CASE Poll
  <2>1. /\ UNCHANGED <<client, appQ, listed>> /\ Settled = app
    BY <1>5, PollMoves
  <2>2. Settled' = 3 => (app = 2 /\ table' = 2) \/ (app = 4 /\ table /= 1 /\ table' = table)
    BY <1>5, PollMoves
  <2>3. Settled' = 4 => app = 3 /\ table' = table - 1
    BY <1>5, PollMoves
  <2>4. Settled' = 5 => app \in {4, 5} /\ table' = table /\ (app = 4 => table = 1)
    BY <1>5, PollMoves
  <2>5. Settled' = 6 => app = 3 /\ table - 1 < 0
    BY <1>5, PollMoves
  <2>6. Settled' = 7 => app \in {6, 7}
    BY <1>5, PollMoves
  <2> QED
    BY <2>1, <2>2, <2>3, <2>4, <2>5, <2>6 DEF Downloads, TypeOK
<1>6. CASE TimesOut \/ AppStops
  BY <1>6, OtherMoves DEF Downloads
<1>7. CASE Write
  BY <1>7, WriteMoves DEF Downloads
<1>8. CASE NetworkSpeaks
  BY <1>8, NetMoves DEF Downloads, Settled
<1>9. CASE \/ EndsHere \/ Resolves \/ Connects \/ ConnectFails \/ FetchesQueue
           \/ PutsMessage \/ Close \/ Over \/ LineDrops \/ GivesUp \/ Withdraws \/ Deletes
  BY <1>9, Idle DEF Downloads, Settled
<1> QED
  BY <1>1, <1>2, <1>3, <1>4, <1>5, <1>6, <1>7, <1>8, <1>9
     DEF Next, ClientThread, AppThread, Network, NetworkSpeaks

\* A turn of processQueues, with what it drains and what it receives.
LEMMA TurnOrders ==
  ASSUME TypeOK, QueueLive, StartsFresh, Ordered, Proceeds \/ Sends PROVE Ordered'
<1>1. /\ client = "Online" /\ MayTurn /\ recvQ = <<>>
      /\ UNCHANGED <<client, known, listed>>
  BY DEF Proceeds, Sends, MayTurn, listVars
<1>2. Told => Me \in known
  BY <1>1 DEF Told
<1>3. appQ = "null" => sendQ = <<>>
  BY <1>1 DEF StartsFresh
<1>4. appQ \in {"null", "live"}
  BY DEF TypeOK, Pointers, QueueLive
<1>5. CASE Proceeds
  <2> DEFINE r == Reply(nickFree')
  <2>1. nickFree' \in BOOLEAN
    BY <1>5, NickTypes DEF Proceeds, TypeOK
  <2>2. r \in Seq(Messages) /\ Drain(r)
    BY <1>1, <1>5, <2>1, ReplyTypes DEF Proceeds
  <2>3. /\ line' = "up" => line = "up" /\ recvQ' = r
        /\ recvQ' = <<>> \/ recvQ' = r
        /\ sendQ = <<>> \/ line /= "up" => asked' = asked
    BY <1>1, <2>2, DrainMoves
  <2>4. \A j \in 1 .. Len(r) : r[j].type /= "ListEnd"
    BY <1>5, ReplyMoves DEF Proceeds
  <2>5. \A j \in 1 .. Len(recvQ') : recvQ'[j].type /= "ListEnd"
    BY <2>3, <2>4
  <2>6. asked' /= {} \/ (line' = "up" /\ appQ = "live") => Me \in known
    BY <1>2, <1>3, <1>4, <1>1, <2>3 DEF Ordered
  <2>7. line' = "up" /\ appQ' = "live" => Told'
    <3>1. CASE proto = 10
      <4>1. Len(r) = 1 /\ r[1].type = "Who"
        BY <1>5, <3>1, ReplyMoves DEF Proceeds
      <4> QED
        BY <2>3, <4>1 DEF Told
    <3>2. CASE proto /= 10
      BY <1>1, <1>5, <2>6, <3>2 DEF Proceeds, Told
    <3> QED
      BY <3>1, <3>2
  <2>8. asked' /= {} => Told'
    BY <1>1, <2>6 DEF Told
  <2>9. listed' => Me \in known'
    BY <1>1 DEF Ordered
  <2> QED
    BY <2>5, <2>7, <2>8, <2>9 DEF Ordered
<1>6. CASE Sends
  <2>1. <<>> \in Seq(Messages) /\ Drain(<<>>) /\ appQ' = appQ
    BY <1>6 DEF Sends
  <2>2. /\ line' = "up" => line = "up"
        /\ recvQ' = <<>>
        /\ sendQ = <<>> \/ line /= "up" => asked' = asked
    BY <1>1, <2>1, DrainMoves
  <2>3. asked' /= {} \/ (line' = "up" /\ appQ = "live") => Me \in known
    BY <1>2, <1>3, <1>4, <1>1, <2>2 DEF Ordered
  <2>4. listed' => Me \in known'
    BY <1>1 DEF Ordered
  <2> QED
    BY <1>1, <2>1, <2>2, <2>3, <2>4 DEF Ordered, Told
<1> QED
  BY <1>5, <1>6

\* A message goes from the head of the queue into the user list.
LEMMA ReceiveOrders == ASSUME TypeOK, Ordered, Receive PROVE Ordered'
<1> DEFINE m == Head(recvQ)
<1> SUFFICES ASSUME client' = "Online" PROVE Ordered'
  BY DEF Ordered
<1>1. recvQ /= <<>> /\ recvQ' = Tail(recvQ) /\ recvQ \in Seq(Messages)
  BY DEF Receive, TypeOK
<1>2. /\ Len(recvQ') = Len(recvQ) - 1 /\ Len(recvQ) \in Nat /\ m = recvQ[1]
      /\ \A j \in 1 .. Len(recvQ') : recvQ'[j] = recvQ[j + 1]
  BY <1>1
<1>3. client = "Online" /\ UNCHANGED <<line, appQ, asked>>
      /\ (Me \in known => Me \in known') /\ (m.type = "Who" => Me \in known')
      /\ (listed' => listed \/ m.type = "ListEnd")
  BY ReceiveMoves
<1>4. listed' => Me \in known'
  <2>1. CASE listed
    BY <1>3, <2>1 DEF Ordered
  <2>2. CASE m.type = "ListEnd"
    <3>1. 1 \in 1 .. Len(recvQ) /\ ~Listed(recvQ, 1)
      BY <1>1 DEF Listed
    <3> QED
      BY <1>2, <1>3, <2>2, <3>1 DEF Ordered
  <2> QED
    BY <1>3, <2>1, <2>2
<1>5. Told => Told'
  <2>1. CASE Me \in known
    BY <1>3, <2>1 DEF Told
  <2>2. ASSUME NEW j \in 1 .. Len(recvQ), recvQ[j].type = "Who" PROVE Told'
    <3>1. CASE j = 1
      BY <1>2, <1>3, <2>2, <3>1 DEF Told
    <3>2. CASE j > 1
      <4>1. j - 1 \in 1 .. Len(recvQ') /\ recvQ'[j - 1] = recvQ[j]
        BY <1>2, <3>2
      <4> QED
        BY <2>2, <4>1 DEF Told
    <3> QED
      BY <3>1, <3>2
  <2> QED
    BY <2>1, <2>2 DEF Told
<1>6. ASSUME NEW i \in 1 .. Len(recvQ'), recvQ'[i].type = "ListEnd"
      PROVE  Me \in known' \/ Listed(recvQ', i)
  <2>1. i + 1 \in 1 .. Len(recvQ) /\ recvQ[i + 1].type = "ListEnd"
    BY <1>2, <1>6
  <2>2. CASE Me \in known
    BY <1>3, <2>2
  <2>3. CASE Me \notin known
    <3>1. PICK j \in 1 .. (i + 1) - 1 : recvQ[j].type = "Who"
      BY <1>3, <2>1, <2>3 DEF Ordered, Listed
    <3>2. CASE j = 1
      BY <1>2, <1>3, <3>1, <3>2
    <3>3. CASE j > 1
      <4>1. j - 1 \in 1 .. i - 1 /\ recvQ'[j - 1] = recvQ[j]
        BY <1>2, <3>3
      <4> QED
        BY <3>1, <4>1 DEF Listed
    <3> QED
      BY <3>2, <3>3
  <2> QED
    BY <2>2, <2>3
<1> QED
  BY <1>3, <1>4, <1>5, <1>6 DEF Ordered

\* An answer of a server comes behind the answer to WHO.
LEMMA NetOrders == ASSUME TypeOK, Ordered, NetworkSpeaks PROVE Ordered'
<1> SUFFICES ASSUME client' = "Online" PROVE Ordered'
  BY DEF Ordered
<1>1. UNCHANGED <<client, line, appQ, known, listed>> /\ asked' \subseteq asked
  BY NetMoves
<1>2. recvQ \in Seq(Messages) /\ Len(recvQ) \in Nat
  BY DEF TypeOK
<1>3. CASE recvQ' = recvQ
  BY <1>1, <1>3 DEF Ordered, Told
<1>4. CASE recvQ' /= recvQ
  <2>1. PICK m \in Messages : /\ recvQ' = Append(recvQ, m) /\ m.type /= "Who"
                              /\ m.type \in {"ListEnd", "ListMore"} => asked /= {}
    BY <1>4, NetMoves
  <2>2. /\ Len(recvQ') = Len(recvQ) + 1 /\ recvQ'[Len(recvQ) + 1] = m
        /\ \A j \in 1 .. Len(recvQ) : recvQ'[j] = recvQ[j]
    BY <1>2, <2>1, AppendedQueue
  <2>3. Told => Told'
    BY <1>1, <1>2, <2>2 DEF Told
  <2>4. ASSUME NEW i \in 1 .. Len(recvQ'), recvQ'[i].type = "ListEnd"
        PROVE  Me \in known' \/ Listed(recvQ', i)
    <3>1. CASE i = Len(recvQ) + 1
      <4>1. Told
        BY <1>1, <2>1, <2>2, <2>4, <3>1 DEF Ordered
      <4> QED
        BY <1>1, <1>2, <2>2, <3>1, <4>1 DEF Told, Listed
    <3>2. CASE i \in 1 .. Len(recvQ)
      <4>1. Me \in known \/ Listed(recvQ, i)
        BY <1>1, <2>2, <2>4, <3>2 DEF Ordered
      <4> QED
        BY <1>1, <1>2, <2>2, <3>2, <4>1 DEF Listed
    <3> QED
      BY <1>2, <2>2, <3>1, <3>2
  <2> QED
    BY <1>1, <2>3, <2>4 DEF Ordered
<1> QED
  BY <1>3, <1>4

\* Every step keeps Ordered.
LEMMA OrderStep ==
  ASSUME TypeOK, QueueLive, StartsFresh, Ordered, Next PROVE Ordered'
<1>1. CASE GetsReady
  BY <1>1 DEF GetsReady, QueueLive, Ordered
<1>2. CASE Poll
  BY <1>2, PollMoves DEF Ordered, Told
<1>3. CASE TimesOut \/ AppStops
  BY <1>3, OtherMoves DEF Ordered, Told
<1>4. CASE Write
  BY <1>4, WriteMoves DEF Ordered, Told
<1>5. CASE \/ EndsHere \/ Resolves \/ Connects \/ ConnectFails \/ FetchesQueue
           \/ PutsMessage \/ Close \/ Over \/ LineDrops \/ GivesUp \/ Withdraws \/ Deletes
  BY <1>5, Idle DEF Ordered, Told
<1> QED
  BY <1>1, <1>2, <1>3, <1>4, <1>5, TurnOrders, ReceiveOrders, NetOrders
     DEF Next, ClientThread, AppThread, Network, NetworkSpeaks

\* initReady is set in state 6, which is not reached without a table.
LEMMA FreshListStep ==
  ASSUME TypeOK, QueueLive, WindsDown, StartsFresh, Downloads, Ordered, FreshList, Next
  PROVE  FreshList'
<1>1. CASE Receive
  BY <1>1, ReceiveMoves DEF FreshList
<1>2. CASE GetsReady
  BY <1>2 DEF GetsReady, dbVars, FreshList, WindsDown, StartsFresh
<1>3. CASE Proceeds \/ Sends
  BY <1>3 DEF Proceeds, Sends, dbVars, listVars, FreshList
<1>4. CASE Poll
  <2>1. /\ UNCHANGED <<client, listed, known>> /\ Settled = app
        /\ initReady' => initReady
    BY <1>4, PollMoves
  <2>2. appQ /= "null" => appQ = "live"
    BY DEF TypeOK, Pointers, QueueLive
  <2> QED
    BY <2>1, <2>2 DEF FreshList, Downloads, Ordered
<1>5. CASE TimesOut \/ AppStops
  BY <1>5, OtherMoves DEF FreshList
<1>6. CASE Write
  <2>1. /\ UNCHANGED <<client, listed, known>> /\ Settled = step.to
        /\ initReady' => initReady \/ step.to = 7
    BY <1>6, WriteMoves
  <2>2. client = "Online" => appQ = "live" \/ Settled = 0
    BY DEF TypeOK, Pointers, QueueLive, StartsFresh
  <2> QED
    BY <2>1, <2>2 DEF FreshList, Downloads, Ordered
<1>7. CASE NetworkSpeaks
  BY <1>7, NetMoves DEF FreshList
<1>8. CASE \/ EndsHere \/ Resolves \/ Connects \/ ConnectFails \/ FetchesQueue
           \/ PutsMessage \/ Close \/ Over \/ LineDrops \/ GivesUp \/ Withdraws \/ Deletes
  BY <1>8, Idle DEF FreshList
<1> QED
  BY <1>1, <1>2, <1>3, <1>4, <1>5, <1>6, <1>7, <1>8
     DEF Next, ClientThread, AppThread, Network, NetworkSpeaks

-----------------------------------------------------------------------------
(* The theorems.                                                             *)

LEMMA Initially == Init => IInv
<1> SUFFICES ASSUME Init PROVE IInv
  OBVIOUS
<1> USE NetworkAssumption DEF Init
<1>1. /\ client \in ClientStates /\ proto \in ProtoStates /\ appQ \in Pointers
      /\ hold \in Pointers /\ app \in AppStates /\ step \in Steps
  BY RestingSteps DEF ClientStates, ProtoStates, Pointers, AppStates
<1>2. recvQ \in Seq(Messages) /\ sendQ \in Seq(Commands)
  OBVIOUS
<1>3. TypeOK
  <2>1. /\ terminate \in BOOLEAN /\ nickFree \in BOOLEAN /\ initReady \in BOOLEAN
        /\ listed \in BOOLEAN
    OBVIOUS
  <2>2. /\ known \in SUBSET (Servers \cup {Me}) /\ ops \in SUBSET Servers
        /\ present \in SUBSET Servers /\ opped \in SUBSET present
        /\ asked \in SUBSET present
    OBVIOUS
  <2>3. /\ polls \in 0 .. 3 /\ table \in -1 .. 2 /\ events \in 0 .. MaxEvents
        /\ line \in {"none", "up", "silent", "closed"} /\ server \in Servers \cup {NoServer}
    OBVIOUS
  <2> QED
    BY <1>1, <1>2, <2>1, <2>2, <2>3 DEF TypeOK
<1>4. Settled = 0 /\ step.at = "asleep"
  BY RestingSteps DEF Settled
<1>5. QueueLive /\ Started /\ Cleared /\ WindsDown /\ StartsFresh
  BY <1>4 DEF QueueLive, Started, Cleared, WindsDown, StartsFresh
<1>6. Downloads /\ Ordered /\ FreshList
  BY DEF Downloads, Ordered, FreshList
<1> QED
  BY <1>3, <1>5, <1>6 DEF IInv

\* The invariant is inductive.
LEMMA Inductive == IInv /\ [Next]_vars => IInv'
<1> SUFFICES ASSUME IInv, [Next]_vars PROVE IInv'
  OBVIOUS
<1>1. CASE Next
  <2>1. TypeOK' /\ QueueLive' /\ Started' /\ Cleared'
    BY <1>1, TypeStep, QueueStep, StartedStep, ClearedStep DEF IInv
  <2>2. WindsDown' /\ StartsFresh'
    BY <1>1, WindsStep, FreshStep DEF IInv
  <2>3. Downloads' /\ Ordered' /\ FreshList'
    BY <1>1, DownStep, OrderStep, FreshListStep DEF IInv
  <2> QED
    BY <2>1, <2>2, <2>3 DEF IInv
<1>2. CASE UNCHANGED vars
  BY <1>2 DEF vars, clientVars, protoVars, queueVars, dbVars, listVars, worldVars, IInv,
              TypeOK, QueueLive, Started, Cleared, Settled, WindsDown, StartsFresh,
              Downloads, Ordered, Told, FreshList
<1> QED
  BY <1>1, <1>2

\* ... and holds at all times.
LEMMA Always == Spec => []IInv
<1> QED
  BY Initially, Inductive, PTL DEF Spec

\* Neither the application nor a thread inside findUser or sendHeard is ever
\* left with a pointer to a send queue that IRCClient::Entry has deleted.
THEOREM NoDanglingQueue == Spec => []QueueLive
<1>1. IInv => QueueLive
  BY DEF IInv
<1> QED
  BY <1>1, Always, PTL

\* initReady is never carried over from one connection to the next, and never
\* set before the list of users has come: however the polls of the application
\* fall between the steps of the client thread.
THEOREM NoStaleList == Spec => []FreshList
<1>1. IInv => FreshList
  BY DEF IInv
<1> QED
  BY <1>1, Always, PTL


\* The types of the connection are as declared.
THEOREM TypeCorrect == Spec => []TypeOK
<1>1. IInv => TypeOK
  BY DEF IInv
<1> QED
  BY <1>1, Always, PTL

-----------------------------------------------------------------------------
(* The user list.  What it is going to be follows from what it is and from   *)
(* what is on its way: of the messages that concern a server, the last one   *)
(* decides.                                                                  *)

\* What is brought at one of the places 0 .. n stays if nothing after it takes
\* it away.
Lasting(B, D, n) == \E i \in 0 .. n : i \in B /\ \A j \in i + 1 .. n : j \notin D

\* One place more.
LEMMA LastingGrows ==
  ASSUME NEW B, NEW D, NEW n \in Nat
  PROVE  Lasting(B, D, n + 1) <=> n + 1 \in B \/ (Lasting(B, D, n) /\ n + 1 \notin D)
<1>1. ASSUME Lasting(B, D, n + 1) PROVE n + 1 \in B \/ (Lasting(B, D, n) /\ n + 1 \notin D)
  <2>1. PICK i \in 0 .. n + 1 : i \in B /\ \A j \in i + 1 .. n + 1 : j \notin D
    BY <1>1 DEF Lasting
  <2>2. CASE i = n + 1
    BY <2>1, <2>2
  <2>3. CASE i \in 0 .. n
    <3>1. n + 1 \in i + 1 .. n + 1 /\ \A j \in i + 1 .. n : j \in i + 1 .. n + 1
      BY <2>3
    <3> QED
      BY <2>1, <2>3, <3>1 DEF Lasting
  <2> QED
    BY <2>2, <2>3
<1>2. ASSUME n + 1 \in B PROVE Lasting(B, D, n + 1)
  <2>1. n + 1 \in 0 .. n + 1 /\ (n + 1) + 1 .. n + 1 = {}
    OBVIOUS
  <2> QED
    BY <1>2, <2>1 DEF Lasting
<1>3. ASSUME Lasting(B, D, n), n + 1 \notin D PROVE Lasting(B, D, n + 1)
  <2>1. PICK i \in 0 .. n : i \in B /\ \A j \in i + 1 .. n : j \notin D
    BY <1>3 DEF Lasting
  <2>2. \A j \in i + 1 .. n + 1 : j \in i + 1 .. n \/ j = n + 1
    OBVIOUS
  <2>3. i \in 0 .. n + 1 /\ \A j \in i + 1 .. n + 1 : j \notin D
    BY <1>3, <2>1, <2>2
  <2> QED
    BY <2>1, <2>3 DEF Lasting
<1> QED
  BY <1>1, <1>2, <1>3

\* Only the places up to n matter.
LEMMA LastingSame ==
  ASSUME NEW B, NEW D, NEW B2, NEW D2, NEW n \in Nat,
         \A i \in 0 .. n : i \in B2 <=> i \in B, \A i \in 1 .. n : i \in D2 <=> i \in D
  PROVE  Lasting(B2, D2, n) <=> Lasting(B, D, n)
<1>1. \A i \in 0 .. n : \A j \in i + 1 .. n : j \in 1 .. n
  OBVIOUS
<1> QED
  BY <1>1 DEF Lasting

\* The first place is added to what was there before.
LEMMA LastingShifts ==
  ASSUME NEW B, NEW D, NEW B2, NEW D2, NEW n \in Nat,
         \A i \in 1 .. n : (i \in B2 <=> i + 1 \in B) /\ (i \in D2 <=> i + 1 \in D)
  PROVE  /\ (0 \in B2 => 1 \in B \/ (0 \in B /\ 1 \notin D)) =>
              (Lasting(B2, D2, n) => Lasting(B, D, n + 1))
         /\ (1 \in B \/ (0 \in B /\ 1 \notin D) => 0 \in B2) =>
              (Lasting(B, D, n + 1) => Lasting(B2, D2, n))
<1>1. ASSUME 0 \in B2 => 1 \in B \/ (0 \in B /\ 1 \notin D), Lasting(B2, D2, n)
      PROVE  Lasting(B, D, n + 1)
  <2>1. PICK i \in 0 .. n : i \in B2 /\ \A j \in i + 1 .. n : j \notin D2
    BY <1>1 DEF Lasting
  <2>2. \A j \in i + 2 .. n + 1 : j - 1 \in i + 1 .. n /\ j - 1 \in 1 .. n /\ (j - 1) + 1 = j
    OBVIOUS
  <2>3. \A j \in i + 2 .. n + 1 : j \notin D
    BY <2>1, <2>2
  <2>4. CASE i + 1 \in B
    <3>1. i + 1 \in 0 .. n + 1 /\ (i + 1) + 1 = i + 2
      OBVIOUS
    <3> QED
      BY <2>3, <2>4, <3>1 DEF Lasting
  <2>5. CASE i + 1 \notin B
    <3>1. i = 0
      BY <2>1, <2>5
    <3>2. 0 \in B /\ 1 \notin D
      BY <1>1, <2>1, <2>5, <3>1
    <3>3. \A j \in 1 .. n + 1 : j = 1 \/ j \in 2 .. n + 1
      OBVIOUS
    <3>4. \A j \in 0 + 1 .. n + 1 : j \notin D
      BY <2>3, <3>1, <3>2, <3>3
    <3> QED
      BY <3>2, <3>4 DEF Lasting
  <2> QED
    BY <2>4, <2>5
<1>2. ASSUME 1 \in B \/ (0 \in B /\ 1 \notin D) => 0 \in B2, Lasting(B, D, n + 1)
      PROVE  Lasting(B2, D2, n)
  <2>1. PICK i \in 0 .. n + 1 : i \in B /\ \A j \in i + 1 .. n + 1 : j \notin D
    BY <1>2 DEF Lasting
  <2>2. CASE i \in 2 .. n + 1
    <3>1. i - 1 \in 1 .. n /\ (i - 1) + 1 = i
      BY <2>2
    <3>2. \A j \in (i - 1) + 1 .. n : j \in 1 .. n /\ j + 1 \in i + 1 .. n + 1
      BY <2>2
    <3>3. i - 1 \in B2 /\ \A j \in (i - 1) + 1 .. n : j \notin D2
      BY <2>1, <3>1, <3>2
    <3>4. i - 1 \in 0 .. n
      BY <3>1
    <3> QED
      BY <3>3, <3>4 DEF Lasting
  <2>3. CASE i \in {0, 1}
    <3>1. i = 0 => 1 \in i + 1 .. n + 1
      OBVIOUS
    <3>2. 0 \in B2
      BY <1>2, <2>1, <2>3, <3>1
    <3>3. \A j \in 0 + 1 .. n : j \in 1 .. n /\ j + 1 \in i + 1 .. n + 1
      BY <2>3
    <3>4. \A j \in 0 + 1 .. n : j \notin D2
      BY <2>1, <3>3
    <3> QED
      BY <3>2, <3>4 DEF Lasting
  <2> QED
    BY <2>2, <2>3
<1> QED
  BY <1>1, <1>2

\* What a message says of server s being on the channel, and being op there.
Brings(m, s) == \/ m.type = "Join" /\ m.who = s
                \/ m.type = "Who" /\ s \in m.on
\* m takes s off the list.
Drops(m, s)  == m.type = "Quit" /\ m.who = s
\* m makes s an operator.
Raises(m, s) == \/ m.type = "Op" /\ m.who = s
                \/ m.type = "Who" /\ s \in m.op
\* m ends that.
Lowers(m, s) == \/ m.type \in {"Deop", "Quit", "Join"} /\ m.who = s
                \/ m.type = "Who" /\ s \in m.on \ m.op

\* The places of queue q where s is brought and dropped, the set K that comes
\* before the queue being place 0.
BringsAt(q, K, s) == {i \in 0 .. Len(q) : IF i = 0 THEN s \in K ELSE Brings(q[i], s)}
\* The places of the queue where s is taken off the list.
DropsAt(q, s)     == {i \in 1 .. Len(q) : Drops(q[i], s)}
\* Those where s becomes an operator, 0 standing for what it was before.
RaisesAt(q, O, s) == {i \in 0 .. Len(q) : IF i = 0 THEN s \in O ELSE Raises(q[i], s)}
\* Those where it ceases to be one.
LowersAt(q, s)    == {i \in 1 .. Len(q) : Lowers(q[i], s)}

\* Whether s will be known, and op, after the first n messages of q.
WillKnow(q, n, K, s) == Lasting(BringsAt(q, K, s), DropsAt(q, s), n)
\* s will be an operator once n messages are read.
WillOp(q, n, O, s)   == Lasting(RaisesAt(q, O, s), LowersAt(q, s), n)

\* Nothing on its way: it stays as it is.
LEMMA NoneAhead ==
  ASSUME NEW K, NEW s
  PROVE  /\ WillKnow(<<>>, 0, K, s) <=> s \in K
         /\ WillOp(<<>>, 0, K, s) <=> s \in K
<1>1. /\ 0 \in BringsAt(<<>>, K, s) <=> s \in K
      /\ 0 \in RaisesAt(<<>>, K, s) <=> s \in K
  BY DEF BringsAt, RaisesAt
<1>2. \A B, D : Lasting(B, D, 0) <=> 0 \in B
  BY DEF Lasting
<1> QED
  BY <1>1, <1>2 DEF WillKnow, WillOp

\* A message more.
LEMMA OneMoreAhead ==
  ASSUME NEW q \in Seq(Messages), NEW m \in Messages, NEW K, NEW s
  PROVE  /\ WillKnow(Append(q, m), Len(q) + 1, K, s) <=>
              Brings(m, s) \/ (WillKnow(q, Len(q), K, s) /\ ~Drops(m, s))
         /\ WillOp(Append(q, m), Len(q) + 1, K, s) <=>
              Raises(m, s) \/ (WillOp(q, Len(q), K, s) /\ ~Lowers(m, s))
         /\ \A n \in 0 .. Len(q) : WillKnow(Append(q, m), n, K, s) <=> WillKnow(q, n, K, s)
<1> DEFINE r == Append(q, m)
           l == Len(q)
<1>1. /\ l \in Nat /\ Len(r) = l + 1 /\ r[l + 1] = m /\ \A i \in 1 .. l : r[i] = q[i]
  BY AppendedQueue
<1> HIDE DEF r, l
<1>2. /\ \A i \in 0 .. l : i \in BringsAt(r, K, s) <=> i \in BringsAt(q, K, s)
      /\ \A i \in 1 .. l : i \in DropsAt(r, s) <=> i \in DropsAt(q, s)
      /\ l + 1 \in BringsAt(r, K, s) <=> Brings(m, s)
      /\ l + 1 \in DropsAt(r, s) <=> Drops(m, s)
  BY <1>1 DEF BringsAt, DropsAt, l
<1>3. /\ \A i \in 0 .. l : i \in RaisesAt(r, K, s) <=> i \in RaisesAt(q, K, s)
      /\ \A i \in 1 .. l : i \in LowersAt(r, s) <=> i \in LowersAt(q, s)
      /\ l + 1 \in RaisesAt(r, K, s) <=> Raises(m, s)
      /\ l + 1 \in LowersAt(r, s) <=> Lowers(m, s)
  BY <1>1 DEF RaisesAt, LowersAt, l
<1>4. ASSUME NEW n \in 0 .. l PROVE WillKnow(r, n, K, s) <=> WillKnow(q, n, K, s)
  <2>1. n \in Nat /\ \A i \in 0 .. n : i \in 0 .. l /\ \A j \in 1 .. n : j \in 1 .. l
    BY <1>1
  <2>2. /\ \A i \in 0 .. n : i \in BringsAt(r, K, s) <=> i \in BringsAt(q, K, s)
        /\ \A i \in 1 .. n : i \in DropsAt(r, s) <=> i \in DropsAt(q, s)
    BY <1>2, <2>1
  <2> QED
    BY <2>1, <2>2, LastingSame DEF WillKnow
<1>5. Lasting(RaisesAt(r, K, s), LowersAt(r, s), l) <=> Lasting(RaisesAt(q, K, s), LowersAt(q, s), l)
  BY <1>1, <1>3, LastingSame
<1>6. WillKnow(r, l + 1, K, s) <=> Brings(m, s) \/ (WillKnow(r, l, K, s) /\ ~Drops(m, s))
  BY <1>1, <1>2, LastingGrows DEF WillKnow
<1>7. WillOp(r, l + 1, K, s) <=> Raises(m, s) \/ (WillOp(r, l, K, s) /\ ~Lowers(m, s))
  BY <1>1, <1>3, LastingGrows DEF WillOp
<1>8. l \in 0 .. l
  BY <1>1
<1> QED
  BY <1>4, <1>5, <1>6, <1>7, <1>8 DEF WillOp, r, l

\* A message less, which has been made part of the list.
LEMMA OneLessAhead ==
  ASSUME NEW q \in Seq(Messages), q /= <<>>, NEW K, NEW K2, NEW s, NEW n \in 0 .. Len(q) - 1
  PROVE  /\ (s \in K2 <=> Brings(Head(q), s) \/ (s \in K /\ ~Drops(Head(q), s))) =>
              (WillKnow(Tail(q), n, K2, s) <=> WillKnow(q, n + 1, K, s))
         /\ (s \in K2 => Raises(Head(q), s) \/ (s \in K /\ ~Lowers(Head(q), s))) =>
              (WillOp(Tail(q), n, K2, s) => WillOp(q, n + 1, K, s))
         /\ (Raises(Head(q), s) \/ (s \in K /\ ~Lowers(Head(q), s)) => s \in K2) =>
              (WillOp(q, n + 1, K, s) => WillOp(Tail(q), n, K2, s))
<1> DEFINE r == Tail(q)
           l == Len(q)
           m == Head(q)
<1>1. /\ l \in Nat \ {0} /\ Len(r) = l - 1 /\ m = q[1] /\ n \in Nat /\ n <= l - 1
      /\ \A i \in 1 .. l - 1 : r[i] = q[i + 1]
  OBVIOUS
<1> HIDE DEF r, l, m
<1>2. /\ \A i \in 1 .. n : /\ i \in BringsAt(r, K2, s) <=> i + 1 \in BringsAt(q, K, s)
                           /\ i \in DropsAt(r, s) <=> i + 1 \in DropsAt(q, s)
      /\ 0 \in BringsAt(r, K2, s) <=> s \in K2
      /\ 0 \in BringsAt(q, K, s) <=> s \in K
      /\ 1 \in BringsAt(q, K, s) <=> Brings(m, s)
      /\ 1 \in DropsAt(q, s) <=> Drops(m, s)
  BY <1>1 DEF BringsAt, DropsAt, l
<1>3. /\ \A i \in 1 .. n : /\ i \in RaisesAt(r, K2, s) <=> i + 1 \in RaisesAt(q, K, s)
                           /\ i \in LowersAt(r, s) <=> i + 1 \in LowersAt(q, s)
      /\ 0 \in RaisesAt(r, K2, s) <=> s \in K2
      /\ 0 \in RaisesAt(q, K, s) <=> s \in K
      /\ 1 \in RaisesAt(q, K, s) <=> Raises(m, s)
      /\ 1 \in LowersAt(q, s) <=> Lowers(m, s)
  BY <1>1 DEF RaisesAt, LowersAt, l
<1>4. (s \in K2 <=> Brings(m, s) \/ (s \in K /\ ~Drops(m, s))) =>
        (WillKnow(r, n, K2, s) <=> WillKnow(q, n + 1, K, s))
  BY <1>1, <1>2, LastingShifts DEF WillKnow
<1>5. /\ (s \in K2 => Raises(m, s) \/ (s \in K /\ ~Lowers(m, s))) =>
           (WillOp(r, n, K2, s) => WillOp(q, n + 1, K, s))
      /\ (Raises(m, s) \/ (s \in K /\ ~Lowers(m, s)) => s \in K2) =>
           (WillOp(q, n + 1, K, s) => WillOp(r, n, K2, s))
  BY <1>1, <1>3, LastingShifts DEF WillOp
<1> QED
  BY <1>4, <1>5 DEF r, m


\* The states of IRCProtocol in which the client is on the channel, and what
\* is told about the others there.
OnTheChannel == {6, 10, 11, 12}
\* The messages that change the list.
Moving == Tidings \cup {"Who"}

\* WHO has been answered, or the answer is on its way.
WhoTold(q, K) == Me \in K \/ \E i \in 1 .. Len(q) : q[i].type = "Who"

\* No more will be known than there is, and once WHO is answered no less; and
\* whoever is made op then is known by the time the client hears of it.
Foreseen(q, K, O, p, P, Q) ==
  /\ p \notin OnTheChannel =>
       K = {} /\ O = {} /\ \A i \in 1 .. Len(q) : q[i].type \notin Moving
  /\ \A s \in Servers : /\ WillKnow(q, Len(q), K, s) => s \in P
                        /\ WillOp(q, Len(q), O, s) => s \in Q
  /\ WhoTold(q, K) =>
       \A s \in Servers :
         /\ s \in P => WillKnow(q, Len(q), K, s)
         /\ s \in Q => WillOp(q, Len(q), O, s)
         /\ \A i \in 1 .. Len(q) :
              q[i].type = "Op" /\ q[i].who = s => WillKnow(q, i - 1, K, s)

\* The user list of a connection that is up is on its way to what is there.
Tracks == client = "Online" /\ line = "up" =>
            Foreseen(recvQ, known, ops, proto, present, opped)

\* Between connections nobody is known.
Forgotten == client \notin {"Online", "Closing"} => known = {} /\ ops = {}

\* A message that moves nobody.
LEMMA Indifferent ==
  ASSUME NEW m \in Messages, m.type \notin Moving, NEW s
  PROVE  ~Brings(m, s) /\ ~Drops(m, s) /\ ~Raises(m, s) /\ ~Lowers(m, s)
BY DEF Moving, Tidings, Brings, Drops, Raises, Lowers

\* Nothing but such messages, and nobody known: nobody will be.
LEMMA NobodyAhead ==
  ASSUME NEW q \in Seq(Messages), NEW s, NEW K, NEW n \in 0 .. Len(q),
         \A i \in 1 .. Len(q) : q[i].type \notin Moving
  PROVE  (WillKnow(q, n, K, s) <=> s \in K) /\ (WillOp(q, n, K, s) <=> s \in K)
<1>1. Len(q) \in Nat /\ n \in Nat /\ \A i \in 1 .. Len(q) : q[i] \in Messages
  OBVIOUS
<1>2. \A i \in 1 .. Len(q) : /\ ~Brings(q[i], s) /\ ~Drops(q[i], s)
                             /\ ~Raises(q[i], s) /\ ~Lowers(q[i], s)
  BY <1>1, Indifferent
<1>3. /\ \A i \in 0 .. n : i \in BringsAt(q, K, s) <=> i = 0 /\ s \in K
      /\ \A i \in 0 .. n : i \in RaisesAt(q, K, s) <=> i = 0 /\ s \in K
      /\ \A i \in 1 .. n : i \notin DropsAt(q, s) /\ i \notin LowersAt(q, s)
  BY <1>1, <1>2 DEF BringsAt, RaisesAt, DropsAt, LowersAt
<1>4. 0 \in 0 .. n /\ 0 + 1 .. n = 1 .. n
  BY <1>1
<1>5. WillKnow(q, n, K, s) <=> s \in K
  BY <1>3, <1>4 DEF WillKnow, Lasting
<1>6. WillOp(q, n, K, s) <=> s \in K
  BY <1>3, <1>4 DEF WillOp, Lasting
<1> QED
  BY <1>5, <1>6

\* Off the channel, what happens there is of no account.
LEMMA OffTheChannel ==
  ASSUME NEW q \in Seq(Messages), NEW K, NEW O, NEW p, NEW P, NEW Q, NEW P2, NEW Q2,
         p \notin OnTheChannel, Foreseen(q, K, O, p, P, Q)
  PROVE  Foreseen(q, K, O, p, P2, Q2)
<1>1. K = {} /\ O = {} /\ \A i \in 1 .. Len(q) : q[i].type \notin Moving
  BY DEF Foreseen
<1>2. Len(q) \in 0 .. Len(q)
  OBVIOUS
<1>3. \A s : ~WillKnow(q, Len(q), K, s) /\ ~WillOp(q, Len(q), O, s)
  BY <1>1, <1>2, NobodyAhead
<1>4. ~WhoTold(q, K)
  BY <1>1 DEF WhoTold, Moving
<1> QED
  BY <1>1, <1>3, <1>4 DEF Foreseen

\* What the client hears makes no difference to what is foreseen: the list
\* takes up what the message says.
LEMMA HeardForeseen ==
  ASSUME NEW q \in Seq(Messages), q /= <<>>, NEW K, NEW O, NEW p, NEW P, NEW Q,
         NEW K2, NEW O2, NEW p2, Foreseen(q, K, O, p, P, Q),
         p2 \notin OnTheChannel => p \notin OnTheChannel,
         \A s \in Servers :
           /\ s \in K2 <=> Brings(Head(q), s) \/ (s \in K /\ ~Drops(Head(q), s))
           /\ s \in O2 => Raises(Head(q), s) \/ (s \in O /\ ~Lowers(Head(q), s))
           /\ \/ Raises(Head(q), s) \/ (s \in O /\ ~Lowers(Head(q), s)) => s \in O2
              \/ Head(q).type = "Op" /\ Head(q).who = s /\ s \notin K,
         Me \in K2 => Me \in K \/ Head(q).type = "Who",
         Head(q).type \notin Moving => K2 = K /\ O2 = O
  PROVE  Foreseen(Tail(q), K2, O2, p2, P, Q)
<1> DEFINE r == Tail(q)
           l == Len(q)
           m == Head(q)
<1>1. /\ l \in Nat \ {0} /\ Len(r) = l - 1 /\ m = q[1]
      /\ \A i \in 1 .. l - 1 : r[i] = q[i + 1] /\ i + 1 \in 1 .. l
  OBVIOUS
<1>2. ASSUME NEW s \in Servers, NEW n \in 0 .. l - 1
      PROVE  WillKnow(r, n, K2, s) <=> WillKnow(q, n + 1, K, s)
  BY <1>2, OneLessAhead
<1>3. ASSUME NEW s \in Servers
      PROVE  WillOp(r, l - 1, O2, s) => WillOp(q, l, O, s)
  <2>1. l - 1 \in 0 .. l - 1 /\ (l - 1) + 1 = l
    BY <1>1
  <2> QED
    BY <2>1, OneLessAhead
<1>4. ASSUME NEW s \in Servers, ~(m.type = "Op" /\ m.who = s /\ s \notin K)
      PROVE  WillOp(q, l, O, s) => WillOp(r, l - 1, O2, s)
  <2>1. l - 1 \in 0 .. l - 1 /\ (l - 1) + 1 = l
    BY <1>1
  <2> QED
    BY <1>4, <2>1, OneLessAhead
<1> HIDE DEF r, l
<1>5. p2 \notin OnTheChannel =>
        K2 = {} /\ O2 = {} /\ \A i \in 1 .. Len(r) : r[i].type \notin Moving
  <2> SUFFICES ASSUME p2 \notin OnTheChannel
               PROVE  K2 = {} /\ O2 = {} /\ \A i \in 1 .. Len(r) : r[i].type \notin Moving
    OBVIOUS
  <2>1. K = {} /\ O = {} /\ \A i \in 1 .. l : q[i].type \notin Moving
    BY DEF Foreseen, l
  <2>2. m.type \notin Moving
    BY <1>1, <2>1
  <2> QED
    BY <1>1, <2>1, <2>2
<1>6. \A s \in Servers : /\ WillKnow(r, Len(r), K2, s) => s \in P
                         /\ WillOp(r, Len(r), O2, s) => s \in Q
  <2>1. l - 1 \in 0 .. l - 1 /\ (l - 1) + 1 = l
    BY <1>1
  <2>2. \A s \in Servers : WillKnow(r, l - 1, K2, s) <=> WillKnow(q, l, K, s)
    BY <1>2, <2>1
  <2> QED
    BY <1>1, <1>3, <2>2 DEF Foreseen, l
<1>7. ASSUME WhoTold(r, K2), NEW s \in Servers
      PROVE  /\ s \in P => WillKnow(r, Len(r), K2, s)
             /\ s \in Q => WillOp(r, Len(r), O2, s)
             /\ \A i \in 1 .. Len(r) :
                  r[i].type = "Op" /\ r[i].who = s => WillKnow(r, i - 1, K2, s)
  <2>1. WhoTold(q, K)
    <3>1. CASE Me \in K2
      BY <1>1, <3>1 DEF WhoTold, l
    <3>2. CASE Me \notin K2
      <4>1. PICK i \in 1 .. Len(r) : r[i].type = "Who"
        BY <1>7, <3>2 DEF WhoTold
      <4>2. i + 1 \in 1 .. l /\ q[i + 1].type = "Who"
        BY <1>1, <4>1
      <4> QED
        BY <4>2 DEF WhoTold, l
    <3> QED
      BY <3>1, <3>2
  <2>2. /\ s \in P => WillKnow(q, l, K, s)
        /\ s \in Q => WillOp(q, l, O, s)
        /\ \A i \in 1 .. l : q[i].type = "Op" /\ q[i].who = s => WillKnow(q, i - 1, K, s)
    BY <2>1 DEF Foreseen, l
  <2>3. ~(m.type = "Op" /\ m.who = s /\ s \notin K)
    <3>1. m.type = "Op" /\ m.who = s => WillKnow(q, 1 - 1, K, s)
      BY <1>1, <2>2
    <3>2. WillKnow(q, 0, K, s) <=> s \in K
      BY DEF WillKnow, Lasting, BringsAt
    <3> QED
      BY <3>1, <3>2
  <2>4. l - 1 \in 0 .. l - 1 /\ (l - 1) + 1 = l
    BY <1>1
  <2>5. WillKnow(r, l - 1, K2, s) <=> WillKnow(q, l, K, s)
    BY <1>2, <2>4
  <2>6. ASSUME NEW i \in 1 .. Len(r), r[i].type = "Op", r[i].who = s
        PROVE  WillKnow(r, i - 1, K2, s)
    <3>1. /\ i + 1 \in 1 .. l /\ q[i + 1] = r[i] /\ (i + 1) - 1 = i
          /\ i - 1 \in 0 .. l - 1 /\ (i - 1) + 1 = i
      BY <1>1
    <3>2. WillKnow(q, i, K, s)
      BY <2>2, <2>6, <3>1
    <3> QED
      BY <1>2, <3>1, <3>2
  <2> QED
    BY <1>1, <1>4, <2>2, <2>3, <2>5, <2>6
<1> QED
  BY <1>5, <1>6, <1>7 DEF Foreseen, r

\* What is told on the channel is foreseen from then on.
LEMMA ToldForeseen ==
  ASSUME NEW q \in Seq(Messages), NEW m \in Messages, m.type /= "Who",
         NEW K, NEW O, NEW p \in OnTheChannel, NEW P, NEW Q, NEW P2, NEW Q2,
         Foreseen(q, K, O, p, P, Q),
         \A s \in Servers :
           /\ s \in P2 <=> Brings(m, s) \/ (s \in P /\ ~Drops(m, s))
           /\ s \in Q2 <=> Raises(m, s) \/ (s \in Q /\ ~Lowers(m, s))
           /\ m.type = "Op" /\ m.who = s => s \in P
  PROVE  Foreseen(Append(q, m), K, O, p, P2, Q2)
<1> DEFINE r == Append(q, m)
           l == Len(q)
<1>1. /\ l \in Nat /\ Len(r) = l + 1 /\ r[l + 1] = m /\ \A i \in 1 .. l : r[i] = q[i]
  BY AppendedQueue
<1>2. ASSUME NEW s \in Servers
      PROVE  /\ WillKnow(r, l + 1, K, s) <=> Brings(m, s) \/ (WillKnow(q, l, K, s) /\ ~Drops(m, s))
             /\ WillOp(r, l + 1, O, s) <=> Raises(m, s) \/ (WillOp(q, l, O, s) /\ ~Lowers(m, s))
             /\ \A n \in 0 .. l : WillKnow(r, n, K, s) <=> WillKnow(q, n, K, s)
  BY OneMoreAhead
<1>3. WhoTold(r, K) => WhoTold(q, K)
  <2> SUFFICES ASSUME WhoTold(r, K), Me \notin K PROVE WhoTold(q, K)
    BY DEF WhoTold
  <2>1. PICK i \in 1 .. Len(r) : r[i].type = "Who"
    BY DEF WhoTold
  <2>2. i \in 1 .. l /\ q[i].type = "Who"
    BY <1>1, <2>1
  <2> QED
    BY <2>2 DEF WhoTold
<1> HIDE DEF r, l
<1>4. \A s \in Servers : /\ WillKnow(r, Len(r), K, s) => s \in P2
                         /\ WillOp(r, Len(r), O, s) => s \in Q2
  BY <1>1, <1>2 DEF Foreseen, l
<1>5. ASSUME WhoTold(q, K), NEW s \in Servers
      PROVE  /\ s \in P2 => WillKnow(r, Len(r), K, s)
             /\ s \in Q2 => WillOp(r, Len(r), O, s)
             /\ \A i \in 1 .. Len(r) :
                  r[i].type = "Op" /\ r[i].who = s => WillKnow(r, i - 1, K, s)
  <2>1. /\ s \in P => WillKnow(q, l, K, s)
        /\ s \in Q => WillOp(q, l, O, s)
        /\ \A i \in 1 .. l : q[i].type = "Op" /\ q[i].who = s => WillKnow(q, i - 1, K, s)
    BY <1>5 DEF Foreseen, l
  <2>2. ASSUME NEW i \in 1 .. Len(r), r[i].type = "Op", r[i].who = s
        PROVE  WillKnow(r, i - 1, K, s)
    <3>1. CASE i = l + 1
      <4>1. s \in P /\ i - 1 = l /\ l \in 0 .. l
        BY <1>1, <2>2, <3>1
      <4> QED
        BY <1>2, <2>1, <4>1
    <3>2. CASE i \in 1 .. l
      <4>1. WillKnow(q, i - 1, K, s) /\ i - 1 \in 0 .. l
        BY <1>1, <2>1, <2>2, <3>2
      <4> QED
        BY <1>2, <4>1
    <3> QED
      BY <1>1, <3>1, <3>2
  <2> QED
    BY <1>1, <1>2, <2>1, <2>2
<1> QED
  BY <1>3, <1>4, <1>5 DEF Foreseen, r


\* The head of a queue of messages is a message.
LEMMA QueueHead ==
  ASSUME NEW q \in Seq(Messages), q /= <<>> PROVE Head(q) \in Messages
OBVIOUS

\* CIRCDDBApp takes up what it hears: userJoin, userLeave, the answer to WHO
\* and userChanOp say the same of the list as the message does.
LEMMA ReceiveTakesUp ==
  ASSUME TypeOK, Receive
  PROVE  LET m == Head(recvQ) IN
         /\ \A s \in Servers :
              /\ s \in known' <=> Brings(m, s) \/ (s \in known /\ ~Drops(m, s))
              /\ s \in ops' => Raises(m, s) \/ (s \in ops /\ ~Lowers(m, s))
              /\ \/ Raises(m, s) \/ (s \in ops /\ ~Lowers(m, s)) => s \in ops'
                 \/ m.type = "Op" /\ m.who = s /\ s \notin known
         /\ Me \in known' => Me \in known \/ m.type = "Who"
         /\ m.type \notin Moving => known' = known /\ ops' = ops
<1> DEFINE m == Head(recvQ)
           Goal == /\ \A s \in Servers :
                        /\ s \in known' <=> Brings(m, s) \/ (s \in known /\ ~Drops(m, s))
                        /\ s \in ops' => Raises(m, s) \/ (s \in ops /\ ~Lowers(m, s))
                        /\ \/ Raises(m, s) \/ (s \in ops /\ ~Lowers(m, s)) => s \in ops'
                           \/ m.type = "Op" /\ m.who = s /\ s \notin known
                   /\ Me \in known' => Me \in known \/ m.type = "Who"
                   /\ m.type \notin Moving => known' = known /\ ops' = ops
<1>1. m \in Messages
  BY QueueHead DEF TypeOK, Receive
<1>2. /\ m.type \in Bare \cup Tidings \cup {"Who"}
      /\ m.type \in Tidings => m.who \in Servers
      /\ Me \notin Servers
  BY <1>1, MessageFields, NetworkAssumption
<1>3. \/ m.type = "Join" /\ UserJoin(m.who)
      \/ m.type = "Who" /\ UserListed(m.on, m.op)
      \/ m.type \in {"Op", "Deop"} /\ UserChanOp(m.who, m.type = "Op")
      \/ m.type = "Quit" /\ UserLeave(m.who)
      \/ m.type \in Bare /\ known' = known /\ ops' = ops
  BY DEF Receive, MsgQuery, Bare
<1> HIDE DEF m
<1>4. ASSUME m.type = "Join" PROVE Goal
  <2>1. known' = known \cup {m.who} /\ ops' = ops \ {m.who}
    BY <1>3, <1>4 DEF UserJoin, Bare
  <2> QED
    BY <1>2, <1>4, <2>1 DEF Brings, Drops, Raises, Lowers, Moving, Tidings
<1>5. ASSUME m.type = "Who" PROVE Goal
  <2>1. known' = known \cup m.on \cup {Me} /\ ops' = (ops \ m.on) \cup m.op
    BY <1>3, <1>5 DEF UserListed, Bare
  <2> QED
    BY <1>2, <1>5, <2>1 DEF Brings, Drops, Raises, Lowers, Moving
<1>6. ASSUME m.type = "Op" PROVE Goal
  <2>1. /\ known' = known
        /\ ops' = IF m.who \in known THEN ops \cup {m.who} ELSE ops \ {m.who}
    BY <1>3, <1>6 DEF UserChanOp, Bare
  <2> QED
    BY <1>2, <1>6, <2>1 DEF Brings, Drops, Raises, Lowers, Moving, Tidings
<1>7. ASSUME m.type = "Deop" PROVE Goal
  <2>1. known' = known /\ ops' = ops \ {m.who}
    BY <1>3, <1>7 DEF UserChanOp, Bare
  <2> QED
    BY <1>2, <1>7, <2>1 DEF Brings, Drops, Raises, Lowers, Moving, Tidings
<1>8. ASSUME m.type = "Quit" PROVE Goal
  <2>1. known' = known \ {m.who} /\ ops' = ops \ {m.who}
    BY <1>3, <1>8 DEF UserLeave, Bare
  <2> QED
    BY <1>2, <1>8, <2>1 DEF Brings, Drops, Raises, Lowers, Moving, Tidings
<1>9. ASSUME m.type \in Bare PROVE Goal
  <2>1. known' = known /\ ops' = ops
    BY <1>3, <1>9 DEF Bare
  <2> QED
    BY <1>2, <1>9, <2>1 DEF Bare, Brings, Drops, Raises, Lowers, Moving, Tidings
<1>10. Goal
  BY <1>2, <1>4, <1>5, <1>6, <1>7, <1>8, <1>9 DEF Tidings
<1> QED
  BY <1>10 DEF m

\* A message from the head of the queue.
LEMMA ReceiveTracks == ASSUME TypeOK, Tracks, Receive PROVE Tracks'
<1> SUFFICES ASSUME client' = "Online", line' = "up" PROVE Tracks'
  BY DEF Tracks
<1>1. /\ recvQ \in Seq(Messages) /\ recvQ /= <<>> /\ recvQ' = Tail(recvQ)
      /\ client = "Online" /\ line = "up" /\ UNCHANGED <<present, opped>>
  BY DEF Receive, TypeOK, worldVars
<1>2. Foreseen(recvQ, known, ops, proto, present, opped)
  BY <1>1 DEF Tracks
<1>3. proto' \notin OnTheChannel => proto \notin OnTheChannel
  <2> DEFINE m == Head(recvQ)
  <2>1. proto' = CASE m.type = "Welcome"   /\ proto = 4  -> 5
                   [] m.type = "Collision" /\ proto = 2  -> 3
                   [] m.type = "Joined"    /\ proto = 6  -> 10
                   [] m.type = "Pong"      /\ proto = 12 -> 11
                   [] OTHER -> proto
    BY DEF Receive
  <2> HIDE DEF m
  <2> QED
    BY <2>1 DEF OnTheChannel
<1>4. /\ \A s \in Servers :
           /\ s \in known' <=> Brings(Head(recvQ), s) \/ (s \in known /\ ~Drops(Head(recvQ), s))
           /\ s \in ops' => Raises(Head(recvQ), s) \/ (s \in ops /\ ~Lowers(Head(recvQ), s))
           /\ \/ Raises(Head(recvQ), s) \/ (s \in ops /\ ~Lowers(Head(recvQ), s)) => s \in ops'
              \/ Head(recvQ).type = "Op" /\ Head(recvQ).who = s /\ s \notin known
  BY ReceiveTakesUp
<1>5. /\ Me \in known' => Me \in known \/ Head(recvQ).type = "Who"
      /\ Head(recvQ).type \notin Moving => known' = known /\ ops' = ops
  BY ReceiveTakesUp
<1>6. Foreseen(Tail(recvQ), known', ops', proto', present, opped)
  BY <1>1, <1>2, <1>3, <1>4, <1>5, HeardForeseen
<1> QED
  BY <1>1, <1>6 DEF Tracks


(***************************************************************************)
(* What one message alone in the queue does to the list.                   *)
(***************************************************************************)
LEMMA OneMessage ==
  ASSUME NEW m \in Messages, NEW K, NEW s
  PROVE  /\ WillKnow(<<m>>, 0 + 1, K, s) <=>
              Brings(m, s) \/ (WillKnow(<<>>, 0, K, s) /\ ~Drops(m, s))
         /\ WillOp(<<m>>, 0 + 1, K, s) <=>
              Raises(m, s) \/ (WillOp(<<>>, 0, K, s) /\ ~Lowers(m, s))
<1> DEFINE q == <<>>
<1>1. q \in Seq(Messages) /\ Len(q) = 0 /\ Append(q, m) = <<m>>
  OBVIOUS
<1> HIDE DEF q
<1>2. /\ WillKnow(Append(q, m), Len(q) + 1, K, s) <=>
           Brings(m, s) \/ (WillKnow(q, Len(q), K, s) /\ ~Drops(m, s))
      /\ WillOp(Append(q, m), Len(q) + 1, K, s) <=>
           Raises(m, s) \/ (WillOp(q, Len(q), K, s) /\ ~Lowers(m, s))
  BY <1>1, OneMoreAhead
<1> QED
  BY <1>1, <1>2 DEF q

\* A turn of processQueues: WHO is answered by what is there at that moment,
\* the other answers move nobody.
LEMMA TurnTracks == ASSUME TypeOK, Tracks, Proceeds \/ Sends PROVE Tracks'
<1> SUFFICES ASSUME client' = "Online", line' = "up" PROVE Tracks'
  BY DEF Tracks
<1>1. /\ client = "Online" /\ MayTurn /\ recvQ = <<>>
      /\ UNCHANGED <<known, ops, present, opped>>
  BY DEF Proceeds, Sends, MayTurn, listVars
<1>2. /\ <<>> \in Seq(Messages) /\ Len(<<>>) = 0
      /\ known \subseteq Servers \cup {Me} /\ ops \subseteq Servers
      /\ present \subseteq Servers /\ opped \subseteq present
  BY DEF TypeOK
<1>3. CASE Proceeds
  <2> DEFINE r == Reply(nickFree')
  <2>1. nickFree' \in BOOLEAN
    BY <1>3, NickTypes DEF Proceeds, TypeOK
  <2>2. r \in Seq(Messages) /\ Drain(r)
    BY <1>1, <1>3, <2>1, ReplyTypes DEF Proceeds
  <2>3. line = "up" /\ recvQ' = r
    BY <1>1, <2>2, DrainMoves
  <2>4. Foreseen(<<>>, known, ops, proto, present, opped)
    BY <1>1, <2>3 DEF Tracks
  <2>5. \A s \in Servers : (s \in known => s \in present) /\ (s \in ops => s \in opped)
    BY <1>2, <2>4, NoneAhead DEF Foreseen
  <2>6. CASE proto = 10
    <3> DEFINE w == [type |-> "Who", on |-> present, op |-> opped]
    <3>1. r = <<w>> /\ proto' = 11
      BY <1>3, <2>6 DEF Proceeds, Reply
    <3>2. w \in Messages /\ w.type = "Who" /\ w.on = present /\ w.op = opped
      BY <1>2, WhoMessages
    <3> HIDE DEF w
    <3>3. Append(<<>>, w) = <<w>> /\ Len(<<w>>) = 1 /\ <<w>>[1] = w
      OBVIOUS
    <3>4. \A s : /\ Brings(w, s) <=> s \in present
                 /\ ~Drops(w, s)
                 /\ Raises(w, s) <=> s \in opped
                 /\ Lowers(w, s) <=> s \in present \ opped
      BY <3>2 DEF Brings, Drops, Raises, Lowers
    <3>5. ASSUME NEW s \in Servers
          PROVE  /\ WillKnow(<<w>>, 1, known, s) <=> s \in present
                 /\ WillOp(<<w>>, 1, ops, s) <=> s \in opped
      <4>1. /\ WillKnow(<<w>>, 0 + 1, known, s) <=>
                 Brings(w, s) \/ (WillKnow(<<>>, 0, known, s) /\ ~Drops(w, s))
            /\ WillOp(<<w>>, 0 + 1, ops, s) <=>
                 Raises(w, s) \/ (WillOp(<<>>, 0, ops, s) /\ ~Lowers(w, s))
        BY <3>2, OneMessage
      <4> QED
        BY <1>2, <2>5, <3>4, <4>1, NoneAhead
    <3>6. \A i \in 1 .. Len(<<w>>) : <<w>>[i].type /= "Op"
      BY <3>2, <3>3
    <3>7. Foreseen(<<w>>, known, ops, 11, present, opped)
      BY <3>3, <3>5, <3>6 DEF Foreseen, OnTheChannel
    <3> QED
      BY <1>1, <2>3, <3>1, <3>7 DEF Tracks
  <2>7. CASE proto /= 10
    <3>1. \A j \in 1 .. Len(r) : r[j].type \in {"Welcome", "Collision", "Joined", "Pong"}
      <4>1. \A t \in {"Welcome", "Collision", "Joined", "Pong"} : Msg(t).type = t
        BY BareMessages DEF Bare
      <4> QED
        BY <1>3, <2>7, <4>1 DEF Proceeds, Reply
    <3>2. \A j \in 1 .. Len(r) : r[j].type \notin Moving
      BY <3>1 DEF Moving, Tidings
    <3>3. Len(r) \in 0 .. Len(r)
      BY <2>2
    <3>4. ASSUME NEW s \in Servers
          PROVE  /\ WillKnow(r, Len(r), known, s) <=> s \in known
                 /\ WillOp(r, Len(r), ops, s) <=> s \in ops
      BY <2>2, <3>2, <3>3, NobodyAhead
    <3>5. proto' \notin OnTheChannel => proto \notin OnTheChannel
      BY <1>3, <2>7 DEF Proceeds, OnTheChannel
    <3>6. WhoTold(r, known) => WhoTold(<<>>, known)
      BY <3>2 DEF WhoTold, Moving
    <3>7. WhoTold(<<>>, known) =>
            \A s \in Servers : (s \in present => s \in known) /\ (s \in opped => s \in ops)
      BY <1>2, <2>4, NoneAhead DEF Foreseen
    <3>8. \A i \in 1 .. Len(r) : r[i].type /= "Op"
      BY <3>1
    <3>9. proto' \notin OnTheChannel => known = {} /\ ops = {}
      BY <2>4, <3>5 DEF Foreseen
    <3> HIDE DEF r
    <3>10. Foreseen(r, known, ops, proto', present, opped)
      BY <2>5, <3>2, <3>4, <3>6, <3>7, <3>8, <3>9 DEF Foreseen
    <3> QED
      BY <1>1, <2>3, <3>10 DEF Tracks, r
  <2> QED
    BY <2>6, <2>7
<1>4. CASE Sends
  <2>1. Drain(<<>>) /\ proto' = proto
    BY <1>4 DEF Sends, protoVars
  <2>2. line = "up" /\ recvQ' = recvQ
    BY <1>1, <1>2, <2>1, DrainMoves
  <2> QED
    BY <1>1, <2>1, <2>2 DEF Tracks
<1> QED
  BY <1>3, <1>4

\* What happens on the channel is told in the order in which it happens.
LEMMA NewsTracks == ASSUME TypeOK, Tracks, NetworkSpeaks PROVE Tracks'
<1> SUFFICES ASSUME client' = "Online", line' = "up" PROVE Tracks'
  BY DEF Tracks
<1>1. /\ client = "Online" /\ line = "up" /\ UNCHANGED <<proto, known, ops>>
  <2>1. client' = client /\ line' = line
    BY NetMoves
  <2>2. UNCHANGED <<proto, known, ops>>
    BY DEF NetworkSpeaks, Kicked, ServerJoins, ServerIsOpped, ServerIsDeopped, ServerLeaves,
           ServerAnswers, WorldUnchanged, protoVars, listVars
  <2> QED
    BY <2>1, <2>2
<1>2. Foreseen(recvQ, known, ops, proto, present, opped)
  BY <1>1 DEF Tracks
<1>3. /\ recvQ \in Seq(Messages) /\ present \subseteq Servers /\ opped \subseteq present
  BY DEF TypeOK
<1>4. CASE proto \notin OnTheChannel
  <2>1. recvQ' = recvQ
    BY <1>4 DEF NetworkSpeaks, Kicked, ServerJoins, ServerIsOpped, ServerIsDeopped,
                ServerLeaves, ServerAnswers, Tell, OnChannel, OnTheChannel
  <2> QED
    BY <1>1, <1>2, <1>3, <1>4, <2>1, OffTheChannel DEF Tracks
<1>5. CASE proto \in OnTheChannel
  <2>0. OnChannel
    BY <1>1, <1>5 DEF OnChannel, OnTheChannel
  <2>1. ASSUME NEW m \in Messages, m.type /= "Who", recvQ' = Append(recvQ, m),
               \A s \in Servers :
                 /\ s \in present' <=> Brings(m, s) \/ (s \in present /\ ~Drops(m, s))
                 /\ s \in opped' <=> Raises(m, s) \/ (s \in opped /\ ~Lowers(m, s))
                 /\ m.type = "Op" /\ m.who = s => s \in present
        PROVE  Tracks'
    <3>1. Foreseen(Append(recvQ, m), known, ops, proto, present', opped')
      BY <1>2, <1>3, <1>5, <2>1, ToldForeseen
    <3> QED
      BY <1>1, <2>1, <3>1 DEF Tracks
  <2>2. ASSUME NEW m \in Messages, m.type \notin Moving, recvQ' = Append(recvQ, m),
               UNCHANGED <<present, opped>>
        PROVE  Tracks'
    <3>1. m.type /= "Who" /\ m.type /= "Op"
      BY <2>2 DEF Moving, Tidings
    <3> QED
      BY <2>1, <2>2, <3>1, Indifferent
  <2>3. CASE Kicked
    <3>1. Msg("Kick") \in Messages /\ Msg("Kick").type \notin Moving
      BY BareMessages DEF Bare, Moving, Tidings
    <3> QED
      BY <2>0, <2>2, <2>3, <3>1 DEF Kicked, Tell
  <2>4. ASSUME NEW x \in Servers, ServerAnswers(x) PROVE Tracks'
    <3>1. PICK t \in {"ListEnd", "ListMore"} : Tell(Msg(t))
      BY <2>4 DEF ServerAnswers
    <3>2. Msg(t) \in Messages /\ Msg(t).type \notin Moving
      BY BareMessages DEF Bare, Moving, Tidings
    <3> QED
      BY <2>0, <2>2, <2>4, <3>1, <3>2 DEF ServerAnswers, Tell
  <2>5. ASSUME NEW x \in Servers, NEW t \in Tidings, Tell(News(t, x)),
               \/ t = "Join" /\ x \notin present /\ present' = present \cup {x} /\ opped' = opped
               \/ t = "Op" /\ x \in present /\ present' = present /\ opped' = opped \cup {x}
               \/ t = "Deop" /\ present' = present /\ opped' = opped \ {x}
               \/ t = "Quit" /\ present' = present \ {x} /\ opped' = opped \ {x}
        PROVE  Tracks'
    <3> DEFINE m == News(t, x)
    <3>1. m \in Messages /\ m.type = t /\ m.who = x
      BY NewsMessages DEF News
    <3>2. recvQ' = Append(recvQ, m)
      BY <2>0, <2>5 DEF Tell
    <3> HIDE DEF m
    <3>3. \A s \in Servers :
            /\ s \in present' <=> Brings(m, s) \/ (s \in present /\ ~Drops(m, s))
            /\ s \in opped' <=> Raises(m, s) \/ (s \in opped /\ ~Lowers(m, s))
            /\ m.type = "Op" /\ m.who = s => s \in present
      BY <1>3, <2>5, <3>1 DEF Brings, Drops, Raises, Lowers
    <3>4. m.type /= "Who"
      BY <3>1 DEF Tidings
    <3> QED
      BY <2>1, <3>1, <3>2, <3>3, <3>4
  <2>6. {"Join", "Op", "Deop", "Quit"} \subseteq Tidings
    BY DEF Tidings
  <2>7. ASSUME NEW x \in Servers, ServerJoins(x) PROVE Tracks'
    BY <2>5, <2>6, <2>7 DEF ServerJoins
  <2>8. ASSUME NEW x \in Servers, ServerIsOpped(x) PROVE Tracks'
    BY <2>5, <2>6, <2>8 DEF ServerIsOpped
  <2>9. ASSUME NEW x \in Servers, ServerIsDeopped(x) PROVE Tracks'
    BY <2>5, <2>6, <2>9 DEF ServerIsDeopped
  <2>10. ASSUME NEW x \in Servers, ServerLeaves(x) PROVE Tracks'
    BY <2>5, <2>6, <2>10 DEF ServerLeaves
  <2> QED
    BY <2>3, <2>4, <2>7, <2>8, <2>9, <2>10 DEF NetworkSpeaks
<1> QED
  BY <1>4, <1>5

\* Every step keeps the list on its way.
LEMMA TrackStep == ASSUME TypeOK, Forgotten, Tracks, Next PROVE Tracks'
<1>1. CASE GetsReady
  <2>1. /\ recvQ' = <<>> /\ proto' = 1 /\ known' = {} /\ ops' = {}
    BY <1>1 DEF GetsReady, Forgotten
  <2>2. <<>> \in Seq(Messages) /\ Len(<<>>) = 0
    OBVIOUS
  <2>3. Foreseen(<<>>, {}, {}, 1, present', opped')
    BY <2>2, NoneAhead DEF Foreseen, WhoTold
  <2> QED
    BY <2>1, <2>3 DEF Tracks
<1>2. CASE \/ UNCHANGED <<recvQ, known, ops, proto, present, opped>> /\ client' = "Online"
                /\ client = "Online" /\ (line' = "up" => line = "up")
           \/ client' /= "Online"
  BY <1>2 DEF Tracks
<1>3. CASE \/ EndsHere \/ Resolves \/ Connects \/ ConnectFails \/ GivesUp \/ Withdraws \/ Deletes
  <2>1. client' /= "Online"
    BY <1>3 DEF EndsHere, Resolves, Connects, ConnectFails, GivesUp, Withdraws, Deletes
  <2> QED
    BY <1>2, <2>1
<1>4. CASE \/ Poll \/ TimesOut \/ Write \/ AppStops \/ FetchesQueue \/ PutsMessage \/ Close \/ Over
  <2>1. UNCHANGED <<recvQ, known, ops, proto, present, opped, client, line>>
    BY <1>4 DEF Poll, TimesOut, Write, AppStops, FetchesQueue, PutsMessage, Close, Over,
                vars, clientVars, protoVars, queueVars, listVars, worldVars
  <2> QED
    BY <1>2, <2>1
<1>5. CASE LineDrops
  BY <1>5 DEF LineDrops, Tracks
<1> QED
  BY <1>1, <1>3, <1>4, <1>5, ReceiveTracks, TurnTracks, NewsTracks
     DEF Next, ClientThread, AppThread, Network, NetworkSpeaks

\* Nobody is known before the client has got ready again.
LEMMA ForgetStep == ASSUME Forgotten, Next PROVE Forgotten'
<1>1. CASE Receive
  BY <1>1 DEF Receive, Forgotten
<1>2. CASE \/ GetsReady \/ Proceeds \/ Sends \/ GivesUp
  BY <1>2 DEF GetsReady, Proceeds, Sends, MayTurn, GivesUp, Forgotten
<1>3. CASE Withdraws
  BY <1>3 DEF Withdraws, UserListReset, Forgotten
<1>4. CASE \/ EndsHere \/ Resolves \/ Connects \/ ConnectFails \/ Deletes
  BY <1>4 DEF EndsHere, Resolves, Connects, ConnectFails, Deletes, listVars, Forgotten
<1>5. CASE \/ Poll \/ TimesOut \/ Write \/ AppStops \/ FetchesQueue \/ PutsMessage \/ Close \/ Over
           \/ LineDrops \/ NetworkSpeaks
  <2>1. UNCHANGED <<client, known, ops>>
    BY <1>5 DEF Poll, TimesOut, Write, AppStops, FetchesQueue, PutsMessage, Close, Over,
                LineDrops, NetworkSpeaks, Kicked, ServerJoins, ServerIsOpped, ServerIsDeopped,
                ServerLeaves, ServerAnswers, WorldUnchanged, vars, clientVars, listVars
  <2> QED
    BY <2>1 DEF Forgotten
<1> QED
  BY <1>1, <1>2, <1>3, <1>4, <1>5 DEF Next, ClientThread, AppThread, Network, NetworkSpeaks

\* Once WHO was answered and nothing is under way, the user list is what is on
\* the channel: nobody stays from an earlier connection, and no JOIN, QUIT or
\* MODE that comes between the JOIN and the answer to WHO, or after, is lost.
THEOREM ListIsTheChannel == Spec => []Directory
<1> DEFINE Inv == TypeOK /\ Forgotten /\ Tracks
<1>1. Init => Inv
  <2>1. Init => TypeOK
    BY Initially DEF IInv
  <2> QED
    BY <2>1 DEF Init, Forgotten, Tracks
<1>2. Inv /\ TypeOK' /\ [Next]_vars => Inv'
  <2> SUFFICES ASSUME Inv, TypeOK', [Next]_vars PROVE Inv'
    OBVIOUS
  <2>1. CASE Next
    BY <2>1, TrackStep, ForgetStep
  <2>2. CASE UNCHANGED vars
    BY <2>2 DEF vars, clientVars, protoVars, queueVars, listVars, worldVars, Forgotten, Tracks
  <2> QED
    BY <2>1, <2>2
<1>3. Inv => Directory
  <2> SUFFICES ASSUME Inv, client = "Online", line = "up", Me \in known, recvQ = <<>>
               PROVE  known = present \cup {Me} /\ ops = opped
    BY DEF Directory
  <2>1. Foreseen(<<>>, known, ops, proto, present, opped) /\ WhoTold(<<>>, known)
    BY DEF Tracks, WhoTold
  <2>2. Len(<<>>) = 0
    OBVIOUS
  <2>3. \A s \in Servers : (s \in known <=> s \in present) /\ (s \in ops <=> s \in opped)
    BY <2>1, <2>2, NoneAhead DEF Foreseen
  <2>4. /\ known \subseteq Servers \cup {Me} /\ ops \subseteq Servers
        /\ present \subseteq Servers /\ opped \subseteq Servers
    BY DEF TypeOK
  <2> QED
    BY <2>3, <2>4
<1> QED
  BY <1>1, <1>2, <1>3, TypeCorrect, PTL DEF Spec
=============================================================================
