------------------------- MODULE IRCDDBMultiClient -------------------------
(* CIRCDDBMultiClient: one ircDDB made of several.  A question goes to every *)
(* network, the answers are merged into one item, and the gateway gets the   *)
(* item when as many answers have come as there are networks; an answer that *)
(* nobody waits for is passed on as it is.  Networks are 1 .. N, polled in   *)
(* that order by the gateway thread; their own threads add replies meanwhile.*)
(* Where an answer says a station is heard (repeater and gateway), and at    *)
(* which address, is named by the network that said so; 0 is the empty text. *)
EXTENDS Integers, Sequences, FiniteSets

CONSTANTS
  N,           \* number of networks
  Users, Repeaters,  \* the callsigns asked for; only users have a timestamp
  MaxStamp,    \* timestamps are 1 .. MaxStamp, 0 is none
  MaxFinds, MaxNews, MaxLost  \* bounds on questions, broadcasts and losses

ASSUME MultiAssumption ==
  /\ N \in Nat \ {0} /\ Users \cap Repeaters = {}
  /\ {MaxStamp, MaxFinds, MaxNews, MaxLost} \subseteq Nat

VARIABLES
  pending,     \* m_userQueries, m_repeaterQueries: callsign to item
  response,    \* m_responseQueue
  turn,        \* getMessageType: the client it polls, N + 1 its end, 0 none
  asked,       \* the users a network's server has yet to answer for
  replies,     \* replyQ of each inner client
  lost,        \* the callsigns for which a question was lost
  finds, news  \* bounded counters

vars == <<pending, response, turn, asked, replies, lost, finds, news>>

Networks == 1 .. N
Keys     == Users \cup Repeaters

Answers == [key : Keys, area : 0 .. N, address : 0 .. N, stamp : 0 .. MaxStamp]
Items   == [area : 0 .. N, address : 0 .. N, stamp : 0 .. MaxStamp, count : 0 .. N - 1]

NotFound(k) == [key |-> k, area |-> 0, address |-> 0, stamp |-> 0]

\* UPDATE from the table of network n; the gateway may not be on line.
Found(k, n) ==
  [key : {k}, area : {n}, address : {0, n},
   stamp : IF k \in Users THEN 1 .. MaxStamp ELSE {0}]

Init ==
  /\ pending = <<>> /\ response = <<>> /\ turn = 0
  /\ asked = [n \in Networks |-> <<>>] /\ replies = [n \in Networks |-> <<>>]
  /\ lost = {} /\ finds = 0 /\ news = 0

-----------------------------------------------------------------------------
(* The queries.                                                              *)

NewQuery == [area |-> 0, address |-> 0, stamp |-> 0, count |-> 0]

\* pushQuery: a query that is there already stays, and the new one is deleted.
Pushed(q, k, item) ==
  [x \in DOMAIN q \cup {k} |-> IF x \in DOMAIN q THEN q[x] ELSE item]

\* popQuery
Popped(q, k) == [x \in DOMAIN q \ {k} |-> q[x]]

\* CIRCDDBMultiClientQuery::Update
Updated(item, a) ==
  IF a.stamp = 0 \/ a.stamp >= item.stamp
  THEN [item EXCEPT !.area = a.area, !.stamp = a.stamp,
                    !.address = IF @ = 0 THEN a.address ELSE @]
  ELSE item

\* (a slip: the item waits for one answer more)
OneMore(c) == c > N

Complete(c) == c >= N

\* (a slip: the item that is put back has forgotten the answer)
NotCounted(item) == item

Counted(item) == [item EXCEPT !.count = @ + 1]

\* What becomes of an answer in getMessageType.
Response(k, item) ==
  [key |-> k, area |-> item.area, address |-> item.address, stamp |-> item.stamp]

Takes(a) ==
  IF a.key \notin DOMAIN pending
  THEN response' = Append(response, a) /\ UNCHANGED pending
  ELSE LET item == Updated(pending[a.key], a)
           rest == Popped(pending, a.key)
       IN  IF Complete(item.count + 1)
           THEN response' = Append(response, Response(a.key, item)) /\ pending' = rest
           ELSE pending' = Pushed(rest, a.key, Counted(item)) /\ UNCHANGED response

-----------------------------------------------------------------------------
(* The gateway thread.                                                       *)

\* findUser: a network that is on line is asked, one that is not answers that
\* the user is not known (IRCDDBApp::findUser).
FindUser(k) ==
  /\ turn = 0 /\ finds < MaxFinds /\ finds' = finds + 1
  /\ pending' = Pushed(pending, k, NewQuery)
  /\ \E up \in SUBSET Networks :
       /\ asked' = [n \in Networks |->
                      IF n \in up THEN Append(asked[n], k) ELSE asked[n]]
       /\ replies' = [n \in Networks |->
                        IF n \in up THEN replies[n] ELSE Append(replies[n], NotFound(k))]
  /\ UNCHANGED <<response, turn, lost, news>>

\* findRepeater: every network answers at once, from its own table.
FindRepeater(k) ==
  /\ turn = 0 /\ finds < MaxFinds /\ finds' = finds + 1
  /\ pending' = Pushed(pending, k, NewQuery)
  /\ \E a \in [Networks -> UNION {Found(k, n) : n \in Networks} \cup {NotFound(k)}] :
       /\ \A n \in Networks : a[n] \in Found(k, n) \cup {NotFound(k)}
       /\ replies' = [n \in Networks |-> Append(replies[n], a[n])]
  /\ UNCHANGED <<response, turn, asked, lost, news>>

\* getMessageType: one answer of every client, in order.
Starts == /\ turn = 0 /\ \E n \in Networks : replies[n] /= <<>>
          /\ turn' = 1
          /\ UNCHANGED <<pending, response, asked, replies, lost, finds, news>>

PollsClient ==
  /\ turn \in Networks /\ turn' = turn + 1
  /\ IF replies[turn] = <<>>
     THEN UNCHANGED <<pending, response, replies>>
     ELSE /\ Takes(Head(replies[turn]))
          /\ replies' = [replies EXCEPT ![turn] = Tail(@)]
  /\ UNCHANGED <<asked, lost, finds, news>>

\* receiveUser, receiveRepeater: the first response, and getMessageType again.
Returns ==
  /\ turn = N + 1
  /\ IF response = <<>> THEN turn' = 0 /\ UNCHANGED response
     ELSE turn' = 1 /\ response' = Tail(response)
  /\ UNCHANGED <<pending, asked, replies, lost, finds, news>>

-----------------------------------------------------------------------------
(* The networks.                                                             *)

\* The server answers FIND with NOT_FOUND or UPDATE.
Serves(n) ==
  /\ asked[n] /= <<>> /\ asked' = [asked EXCEPT ![n] = Tail(@)]
  /\ LET k == Head(asked[n]) IN
     \E a \in Found(k, n) \cup {NotFound(k)} :
       replies' = [replies EXCEPT ![n] = Append(@, a)]
  /\ UNCHANGED <<pending, response, turn, lost, finds, news>>

\* The connection or the server is gone before it answers.
Loses(n) ==
  /\ asked[n] /= <<>> /\ Cardinality(lost) < MaxLost
  /\ lost' = lost \cup {Head(asked[n])} /\ asked' = [asked EXCEPT ![n] = Tail(@)]
  /\ UNCHANGED <<pending, response, turn, replies, finds, news>>

\* UPDATE on the channel: somebody was heard, or a repeater moved.
Broadcasts(n) ==
  /\ news < MaxNews /\ news' = news + 1
  /\ \E k \in Keys : \E a \in Found(k, n) : replies' = [replies EXCEPT ![n] = Append(@, a)]
  /\ UNCHANGED <<pending, response, turn, asked, lost, finds>>

Gateway == Starts \/ PollsClient \/ Returns
Next == \/ \E k \in Users : FindUser(k)
        \/ \E k \in Repeaters : FindRepeater(k)
        \/ Gateway
        \/ \E n \in Networks : Serves(n) \/ Loses(n) \/ Broadcasts(n)

\* The gateway asks for messages on every turn of its loop, and a server that
\* is not lost answers.
Fairness == WF_vars(Gateway) /\ \A n \in Networks : WF_vars(Serves(n))

Spec == Init /\ [][Next]_vars /\ Fairness

-----------------------------------------------------------------------------
(* Properties.                                                               *)

\* The type invariant.
TypeOK ==
  /\ DOMAIN pending \subseteq Keys /\ \A k \in DOMAIN pending : pending[k] \in Items
  /\ response \in Seq(Answers) /\ turn \in 0 .. N + 1
  /\ asked \in [Networks -> Seq(Users)] /\ replies \in [Networks -> Seq(Answers)]
  /\ lost \subseteq Users /\ finds \in 0 .. MaxFinds /\ news \in 0 .. MaxNews

\* Where questions about k wait for a server and answers about k for the gateway.
Awaited(k) ==
  [x \in Networks \X {"ask", "reply"} |->
     IF x[2] = "ask" THEN {i \in DOMAIN asked[x[1]] : asked[x[1]][i] = k}
                     ELSE {i \in DOMAIN replies[x[1]] : replies[x[1]][i].key = k}]
Outstanding(k) == Cardinality(UNION {{x} \X Awaited(k)[x] : x \in DOMAIN Awaited(k)})

\* A query that waits has enough answers on their way to be completed, unless
\* a network has lost a question about its callsign: repeated questions and
\* broadcasts for the same callsign take none of them away (getMessageType).
Completable ==
  \A k \in DOMAIN pending \ lost : pending[k].count + Outstanding(k) >= N

\* Every question is answered to the gateway, unless a network lost it.
Answered == \A k \in Keys : (k \in DOMAIN pending) ~> (k \notin DOMAIN pending \/ k \in lost)
=============================================================================
