---------------------------- MODULE IRCDDBClient ----------------------------
(* CIRCDDBClient: the connection to one ircDDB network.  Two threads share   *)
(* d->state, d->initReady, the user list and the pointer to the send queue:  *)
(* IRCClient::Entry connects, logs in (IRCProtocol) and hands every message  *)
(* to the application; IRCDDBApp::Entry polls once a second, chooses an "s-" *)
(* user as the database server and downloads its table.  The gateway thread  *)
(* reads the same pointer when it asks for a user.  Only the user list is    *)
(* under a mutex, so a poll of the application that changes d->state is two  *)
(* steps here, and another thread may run before the state is written.       *)
(*                                                                           *)
(* Timers: one that waits for an answer expires only when the answer cannot  *)
(* come any more.  The two sleeps of the client (2 s before the queues are   *)
(* deleted, 15 s before it connects again) are counted in polls begun by the *)
(* application, which take 1 s.                                              *)
EXTENDS Integers, Sequences

CONSTANTS
  Servers,     \* the "s-" users that may be on the channel
  NoServer,    \* d->currentServer is empty
  Me,          \* this client's own nick in the user list
  MaxEvents    \* bound on what goes wrong or changes outside

ASSUME NetworkAssumption ==
  /\ NoServer \notin Servers /\ Me \notin Servers
  /\ MaxEvents \in Nat

VARIABLES
  client,      \* state of IRCClient::Entry
  proto,       \* state of IRCProtocol
  nickFree,    \* currentNick is not in use by somebody else
  line,        \* the socket: none, up, silent (nothing passes), closed (EOF)
  recvQ,       \* what was received and not yet processed, or is on its way
  sendQ,       \* what the application put into the live send queue
  appQ,        \* d->sendQ: null, live, or a queue that was deleted
  hold,        \* the gateway thread's q, between getSendQ and putMessage
  app,         \* d->state
  step,        \* how far the application's poll has come
  table,       \* sendlistTableID
  server,      \* d->currentServer
  initReady,
  known, ops,  \* d->user, and those with the op flag
  listed,      \* a table was received completely over this connection
  polls,       \* polls begun since the queue was withdrawn, up to 3
  terminate,   \* stopWork was called
  present, opped,  \* who really is on the channel, and is op there
  asked,       \* the servers that have a SENDLIST of this connection to answer
  events

clientVars == <<client, line, terminate>>
protoVars  == <<proto, nickFree>>
queueVars  == <<recvQ, sendQ, appQ, hold, polls>>
dbVars     == <<app, step, table, server, initReady>>
listVars   == <<known, ops, listed>>
worldVars  == <<present, opped, asked, events>>
vars == <<clientVars, protoVars, queueVars, dbVars, listVars, worldVars>>

ClientStates == {"Resolve", "Connect", "Connecting", "Ready", "Online",
                 "Closing", "Sleeping", "Ended"}    \* 0 1 3 4 5 6, 6 asleep
ProtoStates  == {0, 1, 2, 3, 4, 5, 6, 10, 11, 12}
AppStates    == (0 .. 7) \cup {10}
Pointers     == {"null", "live", "freed"}

Asleep     == [at |-> "asleep"]
Writing(s, quit) == [at |-> "write", to |-> s, quit |-> quit]
Stopped    == [at |-> "stopped"]
Steps == {Asleep, Stopped} \cup {Writing(s, q) : s \in AppStates, q \in BOOLEAN}

Messages == [type : {"Welcome", "Collision", "Joined", "Pong", "Kick",
                     "ListEnd", "ListMore"}]
            \cup [type : {"Join", "Quit", "Op", "Deop"}, who : Servers]
            \cup [type : {"Who"}, on : SUBSET Servers, op : SUBSET Servers]
Msg(t)     == [type |-> t]
News(t, s) == [type |-> t, who |-> s]
Quit        == [type |-> "QUIT"]
SendList(s) == [type |-> "SENDLIST", to |-> s]
Commands == {Quit} \cup {SendList(s) : s \in Servers}

Init ==
  /\ client = "Resolve" /\ line = "none" /\ terminate = FALSE
  /\ proto = 0 /\ nickFree = TRUE
  /\ recvQ = <<>> /\ sendQ = <<>> /\ appQ = "null" /\ hold = "null" /\ polls = 3
  /\ app = 0 /\ step = Asleep /\ table = 0 /\ server = NoServer
  /\ initReady = FALSE /\ known = {} /\ ops = {} /\ listed = FALSE
  /\ present \in SUBSET Servers /\ opped = present /\ asked = {}
  /\ events = 0

Happens == events < MaxEvents /\ events' = events + 1

-----------------------------------------------------------------------------
(* The client thread: connecting.                                            *)

\* (a slip: only state 0 looks at the request)
EndsInResolve == /\ client = "Resolve" /\ terminate
                 /\ client' = "Ended"
                 /\ UNCHANGED <<line, terminate, protoVars, queueVars, dbVars,
                                listVars, worldVars>>

\* States 0 and 1 are where a request to stop is obeyed at once.
EndsHere == /\ client \in {"Resolve", "Connect"} /\ terminate
            /\ client' = "Ended"
            /\ UNCHANGED <<line, terminate, protoVars, queueVars, dbVars,
                           listVars, worldVars>>

Resolves ==
  /\ client = "Resolve" /\ ~terminate /\ polls = 3
  /\ client' = "Connect"
  /\ UNCHANGED <<line, terminate, protoVars, queueVars, dbVars, listVars, worldVars>>

\* connect() succeeds at once, or select() says so later.
Connects ==
  /\ \/ client = "Connect" /\ ~terminate /\ client' \in {"Connecting", "Ready"}
     \/ client = "Connecting" /\ client' = "Ready"
  /\ UNCHANGED <<line, terminate, protoVars, queueVars, dbVars, listVars,
                 worldVars>>

\* A refusal or a timeout tries the next address, if there is one; an error of
\* the socket itself, and the last address, start over with the host name.
ConnectFails ==
  /\ client \in {"Connect", "Connecting"} /\ ~(client = "Connect" /\ terminate)
  /\ Happens
  /\ client' \in {"Connect", "Resolve"}
  /\ UNCHANGED <<line, terminate, protoVars, queueVars, dbVars, listVars,
                 present, opped, asked>>

\* chooseNewNick: the nick may turn out to be in use.
ChooseNewNick == \/ nickFree' = TRUE /\ UNCHANGED events
                 \/ nickFree' = FALSE /\ Happens

\* State 4: new queues, a receiver, setNetworkReady(true).
GetsReady ==
  /\ client = "Ready"
  /\ client' = "Online" /\ line' = "up" /\ proto' = 1 /\ ChooseNewNick
  /\ recvQ' = <<>> /\ sendQ' = <<>> /\ listed' = FALSE /\ asked' = {}
  /\ UNCHANGED <<terminate, appQ, hold, polls, dbVars, known, ops,
                 present, opped>>

-----------------------------------------------------------------------------
(* The application's callbacks, run by the client thread.                    *)

UserJoin(s) == known' = known \cup {s} /\ ops' = ops \ {s}

UserListed(on, op) ==
  known' = known \cup on \cup {Me} /\ ops' = (ops \ on) \cup op

UserChanOp(s, op) == /\ ops' = IF op /\ s \in known THEN ops \cup {s} ELSE ops \ {s}
                     /\ known' = known

\* (a slip: the list of the last connection stays)
KeepsUsers == UNCHANGED <<known, ops>>

UserListReset == known' = {} /\ ops' = {}

\* (a slip: NULL is not handed on)
SetsQueueOnly(q) == appQ' = IF q = "null" THEN appQ ELSE q

SetSendQ(q) == appQ' = q

\* userLeave: a new server is chosen when the current one goes; not so when
\* the own nick is not in the list.
UserLeave(s) ==
  /\ known' = known \ {s} /\ ops' = ops \ {s}
  /\ IF server = s /\ Me \in known
     THEN app' = 2 /\ initReady' = FALSE
     ELSE UNCHANGED <<app, initReady>>

MsgQuery(t) ==
  /\ app' = IF app /= 5 THEN app ELSE IF t = "ListEnd" THEN 3 ELSE 4
  /\ listed' = (listed \/ t = "ListEnd")

\* One turn of the loop over recvQ in processQueues.
Receive ==
  /\ client = "Online" /\ recvQ /= <<>>
  /\ recvQ' = Tail(recvQ)
  /\ LET m == Head(recvQ) IN
     /\ client' = IF m.type = "Kick" THEN "Closing" ELSE client
     /\ proto' = CASE m.type = "Welcome"   /\ proto = 4  -> 5
                   [] m.type = "Collision" /\ proto = 2  -> 3
                   [] m.type = "Joined"    /\ proto = 6  -> 10
                   [] m.type = "Pong"      /\ proto = 12 -> 11
                   [] OTHER -> proto
     /\ \/ m.type = "Join" /\ UserJoin(m.who) /\ UNCHANGED <<app, initReady, listed>>
        \/ m.type = "Who" /\ UserListed(m.on, m.op) /\ UNCHANGED <<app, initReady, listed>>
        \/ m.type \in {"Op", "Deop"} /\ UserChanOp(m.who, m.type = "Op")
           /\ UNCHANGED <<app, initReady, listed>>
        \/ m.type = "Quit" /\ UserLeave(m.who) /\ UNCHANGED listed
        \/ m.type \in {"ListEnd", "ListMore"} /\ MsgQuery(m.type)
           /\ UNCHANGED <<initReady, known, ops>>
        \/ m.type \in {"Welcome", "Collision", "Joined", "Pong", "Kick"}
           /\ UNCHANGED <<app, initReady, known, ops, listed>>
  /\ UNCHANGED <<line, terminate, nickFree, sendQ, appQ, hold, polls, step,
                 table, server, worldVars>>

-----------------------------------------------------------------------------
(* The client thread: the rest of state 5, and state 6.                      *)

\* The send queue is emptied into the socket.  The login commands are answered
\* in order (replies); a SENDLIST waits for its server, and QUIT makes the
\* network close the connection.
Drain(replies) ==
  /\ sendQ' = <<>>
  /\ LET sent == {sendQ[i] : i \in DOMAIN sendQ}
     IN  IF line = "up"
         THEN /\ recvQ' = recvQ \o replies
              /\ asked' = asked \cup {s \in present : SendList(s) \in sent}
              /\ line' = IF Quit \in sent THEN "closed" ELSE line
         ELSE UNCHANGED <<recvQ, asked, line>>

\* What the network answers to the commands of a login state.
Reply(free) ==
  CASE proto \in {1, 3} -> IF free THEN <<>> ELSE <<Msg("Collision")>>   \* NICK
    [] proto = 2  -> IF free THEN <<Msg("Welcome")>> ELSE <<>>           \* USER
    [] proto = 5  -> <<Msg("Joined")>>                                   \* JOIN
    [] proto = 10 -> <<[type |-> "Who", on |-> present, op |-> opped]>>  \* WHO
    [] proto = 11 -> <<Msg("Pong")>>                                     \* PING

MayTurn == client = "Online" /\ ~terminate /\ recvQ = <<>> /\ line /= "closed"

\* The switch of processQueues: what the protocol state sends, with its timer
\* over where it has one, and the states it leads to.
Proceeds ==
  /\ MayTurn /\ proto \in {1, 2, 3, 5, 10, 11}
  /\ IF proto = 3 THEN ChooseNewNick ELSE UNCHANGED <<nickFree, events>>
  /\ proto' = CASE proto \in {1, 3} -> 2 [] proto = 2 -> 4 [] OTHER -> proto + 1
  /\ Drain(Reply(nickFree'))
  /\ IF proto = 10 THEN SetSendQ("live") ELSE UNCHANGED appQ
  /\ UNCHANGED <<client, terminate, hold, polls, dbVars, listVars, present, opped>>

\* A turn in which no timer has run out.
Sends ==
  /\ MayTurn /\ sendQ /= <<>> /\ proto \notin {1, 5, 10}
  /\ Drain(<<>>)
  /\ UNCHANGED <<client, terminate, protoVars, appQ, hold, polls, dbVars,
                 listVars, present, opped, events>>

\* (a slip: a PING that stays unanswered changes nothing)
NoLogin == MayTurn /\ proto \in {4, 6}

NoAnswer == MayTurn /\ proto \in {4, 6, 12}

\* The login, the JOIN or the PING stays without an answer; the socket is at
\* its end; a write is short; the gateway closes down.
GivesUp ==
  /\ client = "Online"
  /\ \/ terminate
     \/ line = "closed"
     \/ NoAnswer
     \/ MayTurn /\ line = "silent" /\ sendQ /= <<>>
  /\ client' = "Closing"
  /\ UNCHANGED <<line, terminate, protoVars, queueVars, dbVars, listVars,
                 worldVars>>

\* State 6 up to the sleep: the application loses the queue and its users.
Withdraws ==
  /\ client = "Closing"
  /\ client' = "Sleeping" /\ SetSendQ("null") /\ UserListReset
  /\ proto' = 0 /\ nickFree' = TRUE /\ listed' = FALSE /\ polls' = 0
  /\ UNCHANGED <<line, terminate, recvQ, sendQ, hold, dbVars, worldVars>>

Freed(q) == IF q = "live" THEN "freed" ELSE q

\* The rest of state 6: two seconds later receiver and queues are deleted.
\* A timing assumption: whoever had fetched the pointer before the sleep has used
\* it by then (hold is not live), and the application has been polled twice.
Deletes ==
  /\ client = "Sleeping" /\ polls >= 2 /\ hold /= "live"
  /\ client' = IF terminate THEN "Ended" ELSE "Resolve"
  /\ line' = "none" /\ recvQ' = <<>> /\ sendQ' = <<>> /\ asked' = {}
  /\ appQ' = Freed(appQ) /\ hold' = Freed(hold)
  /\ UNCHANGED <<terminate, protoVars, polls, dbVars, listVars, present,
                 opped, events>>

-----------------------------------------------------------------------------
(* The application thread.                                                   *)

\* findServerUser, under the mutex of the user list.
\* (a slip: any user will do)
FindUser == server' \in known /\ table' = 2

FindServerUser == server' \in ops /\ table' = 2

\* 200 s have passed and no server has turned up, or 900 s and the list has
\* not come.  By then the client has emptied the queue, and would have noticed
\* a dead line.
NoServerComes == line = "up" /\ sendQ = <<>> /\ opped = {}
NoListComes == /\ line = "up" /\ sendQ = <<>> /\ server \notin asked
               /\ \A i \in DOMAIN recvQ : recvQ[i].type \notin {"ListEnd", "ListMore"}

Put(c) == sendQ' = IF appQ = "live" THEN Append(sendQ, c) ELSE sendQ

\* What a poll does while there is a queue: the effects of the case, and the
\* state it goes on to write, if any.
Connected ==
  \/ app = 0 /\ step' = Writing(1, FALSE) /\ UNCHANGED <<sendQ, table, server, initReady>>
  \/ app = 2 /\ FindServerUser /\ step' = Writing(3, FALSE) /\ UNCHANGED <<sendQ, initReady>>
  \/ app = 3 /\ table' = table - 1 /\ step' = Writing(IF table' < 0 THEN 6 ELSE 4, FALSE)
     /\ UNCHANGED <<sendQ, server, initReady>>
  \/ app = 4 /\ table = 1 /\ Put(SendList(server)) /\ step' = Writing(5, FALSE)
     /\ UNCHANGED <<table, server, initReady>>
  \/ app = 4 /\ table /= 1 /\ step' = Writing(3, FALSE)
     /\ UNCHANGED <<sendQ, table, server, initReady>>
  \/ app = 6 /\ step' = Writing(7, FALSE) /\ UNCHANGED <<sendQ, table, server, initReady>>
  \/ ((app = 2 /\ ops = {}) \/ app \in {5, 7}) /\ step' = Asleep
     /\ UNCHANGED <<sendQ, table, server, initReady>>

\* Its timer runs out in state 2 or 5: the network is asked to disconnect.
TimesOut ==
  /\ step = Asleep /\ appQ /= "null" /\ client /= "Ended"
  /\ (app = 2 /\ ops = {} /\ NoServerComes) \/ (app = 5 /\ NoListComes)
  /\ step' = Writing(10, TRUE)
  /\ UNCHANGED <<clientVars, protoVars, queueVars, app, table, server, initReady,
                 listVars, worldVars>>

\* (a slip: the standby state does not look at the queue)
StandsBy == IF app \in {0, 7} THEN Asleep ELSE Writing(10, FALSE)

\* What it does when there is none.
Disconnects == IF app = 0 THEN Asleep ELSE Writing(10, FALSE)

Poll ==
  /\ step = Asleep /\ client /= "Ended"
  /\ polls' = IF polls < 3 THEN polls + 1 ELSE polls
  /\ \/ app \notin {1, 10} /\ appQ /= "null" /\ Connected
     \/ /\ app \in {1, 10} \/ appQ = "null"
        /\ step' = CASE app = 1  -> Writing(2, FALSE)
                     [] app = 10 -> Writing(0, FALSE)
                     [] OTHER    -> Disconnects
        /\ UNCHANGED <<sendQ, table, server, initReady>>
  /\ UNCHANGED <<clientVars, protoVars, recvQ, appQ, hold, app, listVars, worldVars>>

\* d->state is written, whatever another thread has written since the read, and
\* initReady with it: state 6 sets it, state 10 clears it.
Write ==
  /\ step.at = "write"
  /\ app' = step.to
  /\ initReady' = (step.to = 7 \/ (initReady /\ step.to /= 0))
  /\ IF step.quit THEN Put(Quit) ELSE UNCHANGED sendQ
  /\ step' = Asleep
  /\ UNCHANGED <<clientVars, protoVars, recvQ, appQ, hold, polls, table, server,
                 listVars, worldVars>>

\* IRCDDBApp::stopWork, once the client has ended.
AppStops ==
  /\ step = Asleep /\ client = "Ended" /\ step' = Stopped
  /\ UNCHANGED <<clientVars, protoVars, queueVars, app, table, server, initReady,
                 listVars, worldVars>>

-----------------------------------------------------------------------------
(* The gateway thread: findUser and sendHeard fetch the pointer and use it.  *)

FetchesQueue ==
  /\ ~terminate /\ hold = "null" /\ server /= NoServer /\ app >= 6
  /\ appQ /= "null" /\ hold' = appQ
  /\ UNCHANGED <<clientVars, protoVars, recvQ, sendQ, appQ, polls, dbVars, listVars,
                 worldVars>>

PutsMessage ==
  /\ hold /= "null" /\ hold' = "null"
  /\ UNCHANGED <<clientVars, protoVars, recvQ, sendQ, appQ, polls, dbVars, listVars,
                 worldVars>>

\* CIRCDDBClient::close
Close ==
  /\ ~terminate /\ hold = "null" /\ terminate' = TRUE
  /\ UNCHANGED <<client, line, protoVars, queueVars, dbVars, listVars,
                 worldVars>>

-----------------------------------------------------------------------------
(* The IRC network.                                                          *)

OnChannel == line = "up" /\ proto \in {6, 10, 11, 12}
Tell(m) == recvQ' = IF OnChannel THEN Append(recvQ, m) ELSE recvQ

WorldUnchanged == UNCHANGED <<client, terminate, protoVars, sendQ, appQ,
                              hold, polls, dbVars, listVars>>

ServerJoins(s) == /\ s \notin present /\ Happens /\ present' = present \cup {s}
                  /\ Tell(News("Join", s))
                  /\ UNCHANGED <<line, opped, asked>> /\ WorldUnchanged
ServerIsOpped(s) == /\ s \in present \ opped /\ opped' = opped \cup {s}
                    /\ Tell(News("Op", s))
                    /\ UNCHANGED <<line, present, asked, events>> /\ WorldUnchanged
ServerIsDeopped(s) == /\ s \in opped /\ Happens /\ opped' = opped \ {s}
                      /\ Tell(News("Deop", s))
                      /\ UNCHANGED <<line, present, asked>> /\ WorldUnchanged
ServerLeaves(s) == /\ s \in present /\ Happens /\ present' = present \ {s}
                   /\ opped' = opped \ {s} /\ asked' = asked \ {s}
                   /\ Tell(News("Quit", s))
                   /\ UNCHANGED line /\ WorldUnchanged

\* The answer takes a round trip, the application's write a few instructions.
ServerAnswers(s) ==
  /\ s \in asked /\ line = "up" /\ step.at /= "write" /\ asked' = asked \ {s}
  /\ \/ Tell(Msg("ListEnd")) /\ UNCHANGED events
     \/ Tell(Msg("ListMore")) /\ Happens
  /\ UNCHANGED <<line, present, opped>> /\ WorldUnchanged

Kicked == /\ OnChannel /\ Happens /\ Tell(Msg("Kick"))
          /\ UNCHANGED <<line, present, opped, asked>> /\ WorldUnchanged

LineDrops == /\ line = "up" /\ Happens /\ line' \in {"silent", "closed"}
             /\ UNCHANGED <<recvQ, present, opped, asked>> /\ WorldUnchanged

Over == client = "Ended" /\ step = Stopped /\ UNCHANGED vars

-----------------------------------------------------------------------------
ClientThread == \/ EndsHere \/ Resolves \/ Connects \/ GetsReady \/ Receive
                \/ Proceeds \/ Sends \/ GivesUp \/ Withdraws \/ Deletes
AppThread == Poll \/ TimesOut \/ Write \/ AppStops
Network == \/ ConnectFails \/ Kicked \/ LineDrops
           \/ \E s \in Servers : \/ ServerJoins(s) \/ ServerIsOpped(s)
                                 \/ ServerIsDeopped(s) \/ ServerLeaves(s)
                                 \/ ServerAnswers(s)

Next == ClientThread \/ AppThread \/ FetchesQueue \/ PutsMessage \/ Close \/ Network \/ Over

\* Both threads loop for ever and their timers run out, the gateway does not
\* stop in the middle of a call, and a server that is asked answers.
Fairness == /\ WF_vars(ClientThread) /\ WF_vars(AppThread) /\ SF_vars(TimesOut)
            /\ WF_vars(PutsMessage) /\ \A s \in Servers : WF_vars(ServerAnswers(s))

Spec == Init /\ [][Next]_vars /\ Fairness

-----------------------------------------------------------------------------
(* Properties.                                                               *)

\* The type invariant.
TypeOK ==
  /\ client \in ClientStates /\ terminate \in BOOLEAN
  /\ line \in {"none", "up", "silent", "closed"}
  /\ proto \in ProtoStates /\ nickFree \in BOOLEAN
  /\ recvQ \in Seq(Messages) /\ sendQ \in Seq(Commands)
  /\ appQ \in Pointers /\ hold \in Pointers /\ polls \in 0 .. 3
  /\ app \in AppStates /\ table \in -1 .. 2 /\ server \in Servers \cup {NoServer}
  /\ step \in Steps
  /\ initReady \in BOOLEAN /\ listed \in BOOLEAN
  /\ known \in SUBSET (Servers \cup {Me}) /\ ops \in SUBSET Servers
  /\ present \in SUBSET Servers /\ opped \in SUBSET present
  /\ asked \in SUBSET present /\ events \in 0 .. MaxEvents

\* Nobody is left with a pointer to a send queue that has been deleted: not
\* d->sendQ, which ~IRCDDBApp deletes, and not a caller of findUser between
\* getSendQ and putMessage (IRCClient::Entry state 6).  What is checked of the
\* latter is that none fetches the pointer during the two seconds of sleep: that
\* they are long enough for those who had it is what Deletes assumes.
QueueLive ==
  /\ appQ = "live" => client \in {"Online", "Closing"}
  /\ hold = "live" => client \in {"Online", "Closing", "Sleeping"}
  /\ "freed" \notin {appQ, hold}

\* While a connection is up, initReady means that a table was received over
\* this connection, and the own nick is known, without which userLeave would
\* not notice that the server goes (IRCDDBApp::Entry states 6 and 10).
FreshList == client = "Online" /\ initReady => listed /\ Me \in known

\* Once WHO was answered and nothing is under way, the user list is what is on
\* the channel: nobody is left from an earlier connection, and no JOIN, QUIT
\* or MODE between the JOIN and the answer is lost (userListReset, userJoin,
\* userLeave, userChanOp).
Directory ==
  client = "Online" /\ line = "up" /\ Me \in known /\ recvQ = <<>>
    => known = present \cup {Me} /\ ops = opped

\* If a server stays on the channel, the connection becomes operational and
\* stays so, whatever was lost, refused or silent before.
Recovers == <>[](opped /= {} /\ ~terminate) => <>[](app = 7 /\ client = "Online")

\* A request to close down ends both threads, from every state.
Stops == terminate ~> (client = "Ended" /\ step = Stopped)
=============================================================================
