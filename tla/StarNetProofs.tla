----------------------------- MODULE StarNetProofs -----------------------------
(***************************************************************************)
(* Proofs about a StarNet group: the relayed stream is a known one, and no *)
(* time-out deletes a user whom a stream still points to.                  *)
(***************************************************************************)
EXTENDS StarNet, TLAPS

-------------------------------------------------------------------------------
(* Types.                                                                    *)

LEMMA TimersTyped ==
  ASSUME NEW timeout \in Nat \ {0}, NEW t \in 0 .. timeout
  PROVE  Started \in 0 .. timeout /\ Stopped \in 0 .. timeout /\ Tick(t, timeout) \in 0 .. timeout
BY DEF Started, Stopped, Tick, IsRunning

\* What a user's and the group's timer are started with.
LEMMA Starts ==
  /\ UserStart \in 0 .. UserTimeout /\ GroupStart \in 0 .. GroupTimeout
  /\ UserStart \in {0, 1} /\ GroupStart \in {0, 1}
  /\ \A t \in 0 .. UserTimeout : Tick(t, UserTimeout) \in 0 .. UserTimeout
  /\ \A t \in 0 .. GroupTimeout : Tick(t, GroupTimeout) \in 0 .. GroupTimeout
BY StarNetAssumption DEF UserStart, GroupStart, Start, Started, Stopped, Tick, IsRunning

\* The time-outs are numbers.
LEMMA TimeoutsPositive ==
  MessageDelay \in Nat \ {0} /\ UserTimeout \in Nat /\ GroupTimeout \in Nat
BY StarNetAssumption

\* A table of streams.
StreamsTyped(t) == DOMAIN t \subseteq StreamIds /\ t \in [DOMAIN t -> Streams]
\* A table of users.
UsersTyped(us) == DOMAIN us \subseteq Users /\ us \in [DOMAIN us -> 0 .. UserTimeout]

\* Users who leave take nothing from their streams but the object.
LEMMA LeftTyped ==
  ASSUME NEW t, StreamsTyped(t), NEW leaving, NEW object \in {"unlisted", "freed"}
  PROVE  /\ StreamsTyped(Left(t, leaving, object))
         /\ DOMAIN Left(t, leaving, object) = DOMAIN t
         /\ \A i \in DOMAIN t :
              /\ Left(t, leaving, object)[i] \in Streams
              /\ Left(t, leaving, object)[i].user = t[i].user
              /\ Left(t, leaving, object)[i].timer = t[i].timer
              /\ Left(t, leaving, object)[i].kind = t[i].kind
              /\ Left(t, leaving, object)[i].end = t[i].end
              /\ Left(t, leaving, object)[i].object =
                   IF t[i].object = "listed" /\ t[i].user \in leaving THEN object ELSE t[i].object
<1>1. \A i \in DOMAIN t : t[i] \in Streams
  BY DEF StreamsTyped
<1> QED BY <1>1 DEF StreamsTyped, Left, Streams

\* A new stream.
LEMMA StreamTyped ==
  ASSUME NEW u \in Users, NEW object \in {"listed", "unlisted", "freed"}, NEW kind \in Kinds
  PROVE  Stream(u, object, kind) \in Streams
BY TimeoutsPositive, TimersTyped DEF Stream, Streams, Started

\* A table with a stream more.
LEMMA WithTyped ==
  ASSUME NEW t, StreamsTyped(t), NEW id \in StreamIds, NEW tx \in Streams
  PROVE  StreamsTyped(With(t, id, tx))
BY DEF StreamsTyped, With

\* A user whose timer is restarted.
LEMMA ResetTyped ==
  ASSUME NEW us, UsersTyped(us), NEW u
  PROVE  UsersTyped(Reset(us, u)) /\ DOMAIN Reset(us, u) = DOMAIN us
BY Starts DEF UsersTyped, Reset

\* A stream that has ended.
LEMMA EndedTyped ==
  ASSUME NEW t, StreamsTyped(t), NEW id \in DOMAIN t
  PROVE  StreamsTyped(Ended(t, id))
<1>1. t[id] \in Streams /\ Started \in 0 .. MessageDelay
  BY TimeoutsPositive DEF StreamsTyped, Started
<1>2. CASE t[id].kind = "plain"
  BY <1>2 DEF StreamsTyped, Ended, Without
<1>3. CASE t[id].kind # "plain"
  <2>1. Ended(t, id) = [t EXCEPT ![id] = [t[id] EXCEPT !.timer = Started, !.end = TRUE]]
    BY <1>3 DEF Ended, StreamsTyped
  <2>2. [t[id] EXCEPT !.timer = Started, !.end = TRUE] \in Streams
    BY <1>1 DEF Streams
  <2> QED BY <2>1, <2>2 DEF StreamsTyped
<1> QED BY <1>2, <1>3

\* The gateway is restarted.
LEMMA RestartTyped == ASSUME Restart PROVE TypeOK'
BY TimeoutsPositive DEF Restart, TypeOK, Nothing, Stopped

\* A header comes.
LEMMA HeaderTyped ==
  ASSUME TypeOK, NEW my \in Users, NEW id \in StreamIds, GroupHeader(my, id) \/ LogoffHeader(my, id)
  PROVE  TypeOK'
<1> USE DEF TypeOK
<1>0. StreamsTyped(ids) /\ UsersTyped(users) /\ GroupStart \in 0 .. GroupTimeout
  BY Starts DEF StreamsTyped, UsersTyped
<1>1. ASSUME ~Restart, GroupHeader(my, id)
      PROVE  TypeOK'
  <2>1. UsersTyped(users')
    <3>1. UsersTyped(With(users, my, UserStart))
      BY <1>0, Starts DEF UsersTyped, With
    <3> QED BY <1>0, <1>1, <3>1, ResetTyped DEF GroupHeader
  <2>2. StreamsTyped(ids')
    BY <1>0, <1>1, WithTyped, StreamTyped DEF GroupHeader, Kinds
  <2>3. relayed' \in StreamIds \cup {0} /\ groupTimer' \in 0 .. GroupTimeout /\ cache' = cache
    BY <1>0, <1>1 DEF GroupHeader, Relay
  <2>4. DOMAIN repeaters' \subseteq Repeaters /\ repeaters' \in [DOMAIN repeaters' -> {"live", "freed"}]
    <3>1. \/ UNCHANGED repeaters
          \/ repeaters' = [r \in DOMAIN repeaters \cup Destinations(my, users') |->
                             IF r \in DOMAIN repeaters THEN repeaters[r] ELSE "live"]
      BY <1>1 DEF GroupHeader, Relay
    <3>2. Destinations(my, users') \subseteq Repeaters
      BY <2>1 DEF Destinations, UsersTyped
    <3> QED BY <3>1, <3>2
  <2> QED BY <2>1, <2>2, <2>3, <2>4 DEF StreamsTyped, UsersTyped
<1>2. ASSUME LogoffHeader(my, id)
      PROVE  TypeOK'
  <2>1. UsersTyped(users')
    BY <1>0, <1>2 DEF LogoffHeader, UsersTyped, Without
  <2>2. StreamsTyped(ids')
    BY <1>0, <1>2, LeftTyped, WithTyped, StreamTyped DEF LogoffHeader, Kinds
  <2> QED BY <1>2, <2>1, <2>2 DEF LogoffHeader, StreamsTyped, UsersTyped
<1>3. CASE Restart
  BY <1>3, RestartTyped
<1> QED BY <1>1, <1>2, <1>3

\* A frame comes.
LEMMA FrameTyped ==
  ASSUME TypeOK, NEW id \in StreamIds, NEW text \in {"plain", "info", "logoff"}, NEW last \in BOOLEAN,
         Frame(id, text, last)
  PROVE  TypeOK'
<1> USE DEF TypeOK
<1>0. StreamsTyped(ids) /\ UsersTyped(users) /\ id \in DOMAIN ids
  BY DEF StreamsTyped, UsersTyped, Frame
<1>1. CASE Restart
  BY <1>1, RestartTyped
<1>2. CASE ~Restart
  <2> DEFINE kind == IF ids[id].kind = "plain" THEN text ELSE ids[id].kind
             t    == [ids EXCEPT ![id].timer = Started, ![id].kind = kind]
  <2>0. PICK u \in Pointee(ids[id]) : \E us \in ResetBy(ids[id], u) :
          /\ groupTimer' = GroupStart /\ UNCHANGED cache
          /\ IF last
             THEN /\ users' = [v \in DOMAIN users \ LeavingBy(t[id], u) |-> us[v]]
                  /\ ids' = Ended(Left(t, LeavingBy(t[id], u), "unlisted"), id)
                  /\ EndRelay({id})
             ELSE users' = us /\ ids' = t /\ UNCHANGED <<relayed, repeaters>>
    BY <1>2 DEF Frame
  <2>1. PICK us \in ResetBy(ids[id], u) :
          /\ groupTimer' = GroupStart /\ UNCHANGED cache
          /\ IF last
             THEN /\ users' = [v \in DOMAIN users \ LeavingBy(t[id], u) |-> us[v]]
                  /\ ids' = Ended(Left(t, LeavingBy(t[id], u), "unlisted"), id)
                  /\ EndRelay({id})
             ELSE users' = us /\ ids' = t /\ UNCHANGED <<relayed, repeaters>>
    BY <2>0
  <2>2. StreamsTyped(t) /\ id \in DOMAIN t
    <3>1. ids[id] \in Streams /\ Started \in 0 .. MessageDelay
      BY <1>0, TimeoutsPositive DEF StreamsTyped, Started
    <3>2. kind \in Kinds
      BY <3>1 DEF Streams, Kinds
    <3>3. [ids[id] EXCEPT !.timer = Started, !.kind = kind] \in Streams
      BY <3>1, <3>2 DEF Streams
    <3>4. t = [ids EXCEPT ![id] = [ids[id] EXCEPT !.timer = Started, !.kind = kind]]
      BY <1>0
    <3> HIDE DEF t, kind
    <3> QED BY <1>0, <3>3, <3>4 DEF StreamsTyped
  <2>3. UsersTyped(users')
    <3>1. UsersTyped(us) /\ DOMAIN us = DOMAIN users
      BY <1>0, ResetTyped DEF ResetBy
    <3> HIDE DEF t
    <3> QED BY <2>1, <3>1 DEF UsersTyped
  <2>4. StreamsTyped(ids')
    <3> HIDE DEF t
    <3> QED BY <2>1, <2>2, LeftTyped, EndedTyped
  <2>5. groupTimer' \in 0 .. GroupTimeout /\ cache' = cache
    BY <2>1, Starts
  <2>6. EndRelay({id}) \/ UNCHANGED <<relayed, repeaters>>
    BY <2>1
  <2> HIDE DEF t
  <2> QED BY <2>3, <2>4, <2>5, <2>6 DEF StreamsTyped, UsersTyped, EndRelay, Nothing
<1> QED BY <1>1, <1>2

\* The remote control logs a user off.
LEMMA LogoffTyped ==
  ASSUME TypeOK, RemoteLogoff
  PROVE  TypeOK'
<1> USE DEF TypeOK
<1>0. StreamsTyped(ids) /\ UsersTyped(users)
  BY DEF StreamsTyped, UsersTyped
<1>1. CASE LogoffAll
  <2>1. CASE ClearAll /\ UNCHANGED cache
    BY <2>1, TimeoutsPositive DEF ClearAll, Deleted, Nothing, Stopped
  <2> QED BY <1>1, <2>1, RestartTyped DEF LogoffAll
<1>2. ASSUME NEW u \in Users, Logoff(u), ~LogoffAll
      PROVE  TypeOK'
  <2>1. PICK found \in Found(u) :
          /\ ids' = [i \in DOMAIN ids \ found |-> Left(ids, {u}, "freed")[i]]
          /\ relayed' = IF relayed \in found THEN 0 ELSE relayed
    BY <1>2 DEF Logoff
  <2>2. StreamsTyped(ids')
    BY <1>0, <2>1, LeftTyped DEF StreamsTyped
  <2>3. UsersTyped(users') /\ UNCHANGED <<groupTimer, repeaters, cache>>
    BY <1>0, <1>2 DEF Logoff, UsersTyped, Without
  <2> QED BY <2>1, <2>2, <2>3 DEF StreamsTyped, UsersTyped
<1> QED BY <1>1, <1>2 DEF RemoteLogoff

\* The clocks of the streams.
LEMMA ClockedTyped ==
  ASSUME TypeOK
  PROVE  /\ StreamsTyped(ClockedIds)
         /\ \A i \in DOMAIN ClockedIds :
              /\ i \in DOMAIN ids /\ ~Removed(i)
              /\ ClockedIds[i] \in Streams
              /\ ClockedIds[i].user = ids[i].user /\ ClockedIds[i].object = ids[i].object
              /\ ClockedIds[i].timer = IF Expires(i) THEN Started ELSE Tick(ids[i].timer, MessageDelay)
              /\ ClockedIds[i].end = (ids[i].end \/ Expires(i))
<1>1. \A i \in DOMAIN ids : ids[i] \in Streams
  BY DEF TypeOK
<1>2. \A i \in DOMAIN ids :
        /\ ClockedId(i) \in Streams
        /\ ClockedId(i).user = ids[i].user /\ ClockedId(i).object = ids[i].object
        /\ ClockedId(i).timer = IF Expires(i) THEN Started ELSE Tick(ids[i].timer, MessageDelay)
        /\ ClockedId(i).end = (ids[i].end \/ Expires(i))
  <2> TAKE i \in DOMAIN ids
  <2>1. ids[i].timer \in 0 .. MessageDelay
    BY <1>1 DEF Streams
  <2>2. Started \in 0 .. MessageDelay /\ Tick(ids[i].timer, MessageDelay) \in 0 .. MessageDelay
    BY <2>1, TimeoutsPositive, TimersTyped
  <2>3. CASE Expires(i)
    BY <1>1, <2>2, <2>3 DEF ClockedId, Streams
  <2>4. CASE ~Expires(i)
    BY <1>1, <2>2, <2>4 DEF ClockedId, Streams
  <2> QED BY <2>3, <2>4
<1>3. ClockedIds = [i \in {j \in DOMAIN ids : ~Removed(j)} |-> ClockedId(i)]
  BY DEF ClockedIds
<1> HIDE DEF ClockedIds, ClockedId
<1>4. \A i \in DOMAIN ClockedIds : i \in DOMAIN ids /\ ~Removed(i) /\ ClockedIds[i] = ClockedId(i)
  BY <1>3
<1>5. StreamsTyped(ClockedIds)
  BY <1>2, <1>3, <1>4 DEF StreamsTyped, TypeOK
<1> QED BY <1>2, <1>4, <1>5

\* What a tick does that ends no process.
Ticks(left, gone) ==
  LET group == Tick(groupTimer, GroupTimeout)
      t     == Left(ClockedIds, left, "unlisted")
  IN /\ EndRelay(Silent) /\ UNCHANGED cache
     /\ \/ relayed' # 0 /\ users' = ClockedUsers(left) /\ ids' = t /\ groupTimer' = group
        \/ /\ relayed' = 0
           /\ gone = Expired(ClockedUsers(left), group)
           /\ users' = [u \in DOMAIN ClockedUsers(left) \ gone |-> ClockedUsers(left)[u]]
           /\ ids' = Left(t, gone, "freed")
           /\ groupTimer' = IF HasExpired(group, GroupTimeout) THEN Stopped ELSE group

\* A clock of the group that is not stopped does what Ticks says.
LEMMA ClockTicks ==
  ASSUME Clock, ~Restart
  PROVE  \E left, gone : Ticks(left, gone)
BY DEF Clock, Ticks

\* The clocks of the users.
LEMMA ClockedUsersTyped ==
  ASSUME TypeOK, NEW left
  PROVE  UsersTyped(ClockedUsers(left))
<1>1. \A u \in DOMAIN users : users[u] \in 0 .. UserTimeout /\ Tick(users[u], UserTimeout) \in 0 .. UserTimeout
  BY Starts DEF TypeOK
<1> QED BY <1>1 DEF ClockedUsers, UsersTyped, TypeOK

\* The clock of the group.
LEMMA ClockTyped ==
  ASSUME TypeOK, Clock
  PROVE  TypeOK'
<1>1. CASE Restart
  BY <1>1, RestartTyped
<1>2. CASE ~Restart
  <2>1. PICK left, gone : Ticks(left, gone)
    BY <1>2, ClockTicks
  <2>2. StreamsTyped(ids')
    <3>1. StreamsTyped(Left(ClockedIds, left, "unlisted"))
      BY ClockedTyped, LeftTyped
    <3>2. StreamsTyped(Left(Left(ClockedIds, left, "unlisted"), gone, "freed"))
      BY <3>1, LeftTyped
    <3> QED BY <2>1, <3>1, <3>2 DEF Ticks
  <2>3. UsersTyped(users')
    <3>1. UsersTyped(ClockedUsers(left))
      BY ClockedUsersTyped
    <3> QED BY <2>1, <3>1 DEF Ticks, UsersTyped
  <2>4. groupTimer' \in 0 .. GroupTimeout
    BY <2>1, TimeoutsPositive, Starts DEF Ticks, TypeOK, Stopped
  <2>5. EndRelay(Silent) /\ cache' = cache
    BY <2>1 DEF Ticks
  <2> QED BY <2>2, <2>3, <2>4, <2>5 DEF TypeOK, StreamsTyped, UsersTyped, EndRelay, Nothing
<1> QED BY <1>1, <1>2

(* The variables keep their types, whatever a freed object is taken for.    *)
THEOREM TypeCorrect == Spec => []TypeOK
<1>1. Init => TypeOK
  BY TimeoutsPositive DEF Init, TypeOK, Nothing, Stopped
<1>2. TypeOK /\ [Next]_vars => TypeOK'
  <2> SUFFICES ASSUME TypeOK, [Next]_vars PROVE TypeOK'
    OBVIOUS
  <2>1. CASE Radio
    BY <2>1, HeaderTyped, FrameTyped DEF Radio
  <2>2. CASE RemoteLogoff
    BY <2>2, LogoffTyped
  <2>3. CASE IrcUser \/ UNCHANGED vars
    BY <2>3 DEF IrcUser, vars, TypeOK
  <2>4. CASE Clock
    BY <2>4, ClockTyped
  <2> QED BY <2>1, <2>2, <2>3, <2>4 DEF Next
<1> QED BY <1>1, <1>2, PTL DEF Spec

-------------------------------------------------------------------------------
(* The relayed stream.                                                       *)

LEMMA HeaderKeepsRelay ==
  ASSUME RelayKnown, NEW my \in Users, NEW id \in StreamIds, GroupHeader(my, id)
  PROVE  RelayKnown'
<1>1. CASE my \notin DOMAIN users /\ GroupHeader(my, id) /\ ~Restart
  BY <1>1 DEF RelayKnown, GroupHeader, Relay, With, Stream
<1>2. CASE my \in DOMAIN users /\ id \notin DOMAIN ids /\ GroupHeader(my, id) /\ ~Restart
  BY <1>2 DEF RelayKnown, GroupHeader, Relay, With, Stream
<1>3. CASE my \in DOMAIN users /\ id \in DOMAIN ids /\ GroupHeader(my, id) /\ ~Restart
  BY <1>3 DEF RelayKnown, GroupHeader
<1>4. CASE Restart
  BY <1>4 DEF RelayKnown, Restart
<1> QED BY <1>1, <1>2, <1>3, <1>4

\* A log-off by radio keeps the relayed stream a known one.
LEMMA LogoffHeaderKeepsRelay ==
  ASSUME RelayKnown, NEW my \in Users, NEW id \in StreamIds, LogoffHeader(my, id)
  PROVE  RelayKnown'
<1>1. relayed' = relayed
  BY DEF LogoffHeader
<1>2. DOMAIN ids' = DOMAIN ids \cup {id}
  BY DEF LogoffHeader, With, Left
<1>3. ~ids'[id].end
  BY DEF LogoffHeader, With, Stream
<1>4. \A i \in DOMAIN ids \ {id} : ids'[i].end = ids[i].end
  BY DEF LogoffHeader, With, Left
<1> QED BY <1>1, <1>2, <1>3, <1>4 DEF RelayKnown

\* So does a frame,
LEMMA FrameKeepsRelay ==
  ASSUME RelayKnown, NEW id \in StreamIds, NEW text, NEW last \in BOOLEAN, Frame(id, text, last)
  PROVE  RelayKnown'
<1>1. CASE Restart
  BY <1>1 DEF RelayKnown, Restart
<1>2. CASE ~Restart
  <2>1. PICK u \in Pointee(ids[id]) : \E us \in ResetBy(ids[id], u) :
          LET kind == IF ids[id].kind = "plain" THEN text ELSE ids[id].kind
              t    == [ids EXCEPT ![id].timer = Started, ![id].kind = kind]
          IN IF last
             THEN /\ ids' = Ended(Left(t, LeavingBy(t[id], u), "unlisted"), id)
                  /\ EndRelay({id})
             ELSE ids' = t /\ UNCHANGED <<relayed, repeaters>>
    BY <1>2 DEF Frame
  <2>2. id \in DOMAIN ids
    BY DEF Frame
  <2> DEFINE kind == IF ids[id].kind = "plain" THEN text ELSE ids[id].kind
             t    == [ids EXCEPT ![id].timer = Started, ![id].kind = kind]
             left == Left(t, LeavingBy(t[id], u), "unlisted")
  <2>3. DOMAIN t = DOMAIN ids /\ \A i \in DOMAIN ids : t[i].end = ids[i].end
    BY <2>2
  <2>4. CASE last
    <3>1. ids' = Ended(left, id) /\ EndRelay({id})
      BY <2>1, <2>4
    <3>2. DOMAIN left = DOMAIN ids /\ \A i \in DOMAIN ids : left[i].end = ids[i].end
      BY <2>3 DEF Left
    <3>3. \A i \in DOMAIN ids \ {id} : i \in DOMAIN ids' /\ ids'[i].end = ids[i].end
      <4> HIDE DEF left
      <4> QED BY <3>1, <3>2 DEF Ended, Without
    <3> QED BY <3>1, <3>3 DEF RelayKnown, EndRelay
  <2>5. CASE ~last
    <3>1. ids' = t /\ relayed' = relayed
      BY <2>1, <2>5
    <3> HIDE DEF t
    <3> QED BY <2>3, <3>1 DEF RelayKnown
  <2> QED BY <2>4, <2>5
<1> QED BY <1>1, <1>2

\* a log-off by remote control,
LEMMA LogoffKeepsRelay ==
  ASSUME RelayKnown, NEW u \in Users, Logoff(u) \/ LogoffAll
  PROVE  RelayKnown'
<1>1. CASE LogoffAll
  BY <1>1 DEF LogoffAll, ClearAll, Restart, RelayKnown
<1>2. CASE ~LogoffAll
  <2>1. PICK found \in Found(u) :
          /\ ids' = [i \in DOMAIN ids \ found |-> Left(ids, {u}, "freed")[i]]
          /\ relayed' = IF relayed \in found THEN 0 ELSE relayed
    BY <1>2 DEF Logoff
  <2>2. \A i \in DOMAIN ids : Left(ids, {u}, "freed")[i].end = ids[i].end
    BY DEF Left
  <2> QED BY <2>1, <2>2 DEF RelayKnown
<1> QED BY <1>1, <1>2

\* and the clock.
LEMMA ClockKeepsRelay ==
  ASSUME TypeOK, RelayKnown, Clock
  PROVE  RelayKnown'
<1>1. CASE Restart
  BY <1>1 DEF RelayKnown, Restart
<1>2. CASE ~Restart
  <2>1. PICK left, gone : Ticks(left, gone)
    BY <1>2, ClockTicks
  <2>2. EndRelay(Silent)
    BY <2>1 DEF Ticks
  <2>3. DOMAIN ids' = DOMAIN ClockedIds /\ \A i \in DOMAIN ids' : ids'[i].end = ClockedIds[i].end
    <3> DEFINE t == Left(ClockedIds, left, "unlisted")
    <3>1. StreamsTyped(t) /\ DOMAIN t = DOMAIN ClockedIds
          /\ \A i \in DOMAIN t : t[i].end = ClockedIds[i].end
      BY ClockedTyped, LeftTyped
    <3>2. DOMAIN Left(t, gone, "freed") = DOMAIN t
          /\ \A i \in DOMAIN t : Left(t, gone, "freed")[i].end = t[i].end
      BY <3>1, LeftTyped
    <3>3. ids' = t \/ ids' = Left(t, gone, "freed")
      BY <2>1 DEF Ticks
    <3> HIDE DEF t
    <3> QED BY <3>1, <3>2, <3>3
  <2>4. ASSUME relayed # 0, relayed \notin Silent
        PROVE  relayed \in DOMAIN ids' /\ ~ids'[relayed].end
    <3>1. relayed \in DOMAIN ids /\ ~ids[relayed].end /\ ~Expires(relayed)
      BY <2>4 DEF RelayKnown, Silent
    <3>2. relayed \in DOMAIN ClockedIds
      BY <3>1 DEF ClockedIds, Removed
    <3> QED BY <2>3, <3>1, <3>2, ClockedTyped
  <2> QED BY <2>2, <2>4 DEF EndRelay, RelayKnown
<1> QED BY <1>1, <1>2

(* The stream on the air is one that the group knows and that has not ended *)
(* (m_id and m_ids), whichever of the handlers removes streams.             *)
THEOREM RelayIsKnown == Spec => []RelayKnown
<1>1. Init => RelayKnown
  BY DEF Init, RelayKnown
<1>2. TypeOK /\ RelayKnown /\ [Next]_vars => RelayKnown'
  <2> SUFFICES ASSUME TypeOK, RelayKnown, [Next]_vars PROVE RelayKnown'
    OBVIOUS
  <2>1. CASE Radio
    BY <2>1, HeaderKeepsRelay, LogoffHeaderKeepsRelay, FrameKeepsRelay DEF Radio
  <2>2. CASE RemoteLogoff
    <3>1. CASE LogoffAll
      BY <3>1 DEF LogoffAll, ClearAll, Restart, RelayKnown
    <3>2. CASE \E u \in Users : Logoff(u)
      BY <3>2, LogoffKeepsRelay
    <3> QED BY <2>2, <3>1, <3>2 DEF RemoteLogoff
  <2>3. CASE IrcUser \/ UNCHANGED vars
    BY <2>3 DEF IrcUser, vars, RelayKnown
  <2>4. CASE Clock
    BY <2>4, ClockKeepsRelay
  <2> QED BY <2>1, <2>2, <2>3, <2>4 DEF Next
<1> QED BY <1>1, <1>2, TypeCorrect, PTL DEF Spec

-------------------------------------------------------------------------------
(* The timers.  A stream is younger than its user and its group, by one     *)
(* delay once it has ended: what restarts its timer restarts theirs, except *)
(* its end.                                                                 *)

Age(tx) == tx.timer + (IF tx.end THEN MessageDelay - 1 ELSE 0)

\* A listed stream is no younger than its user's and the group's timer.
Paces(tx, us, group) ==
  /\ IsRunning(tx.timer) /\ tx.timer < MessageDelay
  /\ tx.object = "listed" =>
       /\ tx.user \in DOMAIN us
       /\ us[tx.user] <= Age(tx) /\ group <= Age(tx)

\* That holds of every stream.
Paced == \A i \in DOMAIN ids : Paces(ids[i], users, groupTimer)

\* The timers are numbers.
LEMMA Numbers ==
  ASSUME TypeOK
  PROVE  /\ \A i \in DOMAIN ids : /\ ids[i] \in Streams /\ ids[i].end \in BOOLEAN
                                  /\ ids[i].timer \in 0 .. MessageDelay /\ ids[i].timer \in Nat
         /\ \A u \in DOMAIN users : users[u] \in Nat
         /\ groupTimer \in Nat /\ Started = 1 /\ Stopped = 0
         /\ MessageDelay \in Nat /\ MessageDelay > 1
         /\ UserTimeout \in Nat /\ GroupTimeout \in Nat
BY StarNetAssumption DEF TypeOK, Streams, Started, Stopped

\* A restart leaves no stream.
LEMMA RestartPaced == ASSUME Restart PROVE Paced'
BY DEF Restart, Paced, Nothing

(* A running stream keeps pace with a user or a group restarted.            *)
LEMMA RestartedPace ==
  ASSUME NEW tx, tx.timer \in Nat, tx.end \in BOOLEAN, MessageDelay \in Nat, MessageDelay > 1,
         NEW us, NEW group, Paces(tx, us, group), \A u \in DOMAIN us : us[u] \in Nat, group \in Nat,
         NEW us2, NEW group2, DOMAIN us2 = DOMAIN us,
         \A u \in DOMAIN us : us2[u] \in {us[u], 0, 1},
         group2 \in {group, 0, 1}
  PROVE  Paces(tx, us2, group2)
<1>1. Age(tx) \in Nat /\ Age(tx) >= 1
  BY DEF Paces, Age, IsRunning
<1> QED BY <1>1 DEF Paces

\* A header restarts all three timers.
LEMMA HeaderPaced ==
  ASSUME TypeOK, Paced, NEW my \in Users, NEW id \in StreamIds, GroupHeader(my, id)
  PROVE  Paced'
<1>0. \A i \in DOMAIN ids : Paces(ids[i], users, groupTimer)
  BY DEF Paced
<1>1. CASE Restart
  BY <1>1, RestartPaced
<1>2. CASE my \in DOMAIN users /\ id \in DOMAIN ids /\ ~Restart
  <2>1. users' = Reset(users, my) /\ UNCHANGED <<ids, groupTimer>>
    BY <1>2 DEF GroupHeader
  <2>2. /\ DOMAIN users' = DOMAIN users
        /\ \A u \in DOMAIN users : users'[u] \in {users[u], 0, 1}
    BY <2>1, Starts DEF Reset
  <2>3. \A i \in DOMAIN ids : Paces(ids[i], users', groupTimer)
    BY <1>0, <2>2, Numbers, RestartedPace
  <2> QED BY <2>1, <2>3 DEF Paced
<1>3. CASE (my \in DOMAIN users => id \notin DOMAIN ids) /\ ~Restart
  <2>1. PICK kind \in Kinds : ids' = With(ids, id, Stream(my, "listed", kind))
    BY <1>3 DEF GroupHeader, Kinds
  <2>2. groupTimer' = GroupStart /\ GroupStart \in {0, 1}
    BY <1>3, Starts DEF GroupHeader
  <2>3. /\ DOMAIN users' = DOMAIN users \cup {my} /\ users'[my] \in {0, 1}
        /\ \A u \in DOMAIN users : users'[u] \in {users[u], 0, 1}
    BY <1>3, Starts DEF GroupHeader, Reset, With
  <2>4. Paces(Stream(my, "listed", kind), users', groupTimer')
    BY <2>2, <2>3, Numbers DEF Paces, Stream, Age, IsRunning
  <2>5. ASSUME NEW i \in DOMAIN ids PROVE Paces(ids[i], users', groupTimer')
    <3>1. Paces(ids[i], [u \in DOMAIN users |-> users'[u]], GroupStart)
      <4> DEFINE us2 == [u \in DOMAIN users |-> users'[u]]
      <4>1. DOMAIN us2 = DOMAIN users /\ \A u \in DOMAIN users : us2[u] \in {users[u], 0, 1}
        BY <2>3
      <4> HIDE DEF us2
      <4>2. Paces(ids[i], us2, GroupStart)
        BY <1>0, <2>2, <2>5, <4>1, Numbers, RestartedPace
      <4> QED BY <4>2 DEF us2
    <3> QED BY <2>2, <2>3, <3>1 DEF Paces
  <2> QED BY <2>1, <2>4, <2>5 DEF Paced, With
<1> QED BY <1>2, <1>3, <1>1

\* A log-off by radio takes the streams of the user off the list.
LEMMA LogoffHeaderPaced ==
  ASSUME TypeOK, Paced, NEW my \in Users, NEW id \in StreamIds, LogoffHeader(my, id)
  PROVE  Paced'
<1>1. Paces(Stream(my, "unlisted", "logoff"), users', groupTimer')
  BY Numbers DEF Paces, Stream, IsRunning
<1>2. ASSUME NEW i \in DOMAIN ids PROVE Paces(Left(ids, {my}, "unlisted")[i], users', groupTimer')
  <2> DEFINE tx == Left(ids, {my}, "unlisted")[i]
  <2>1. /\ tx.user = ids[i].user /\ tx.timer = ids[i].timer /\ tx.end = ids[i].end
        /\ tx.object = IF ids[i].object = "listed" /\ ids[i].user \in {my} THEN "unlisted" ELSE ids[i].object
    BY LeftTyped DEF TypeOK, StreamsTyped
  <2>2. Paces(ids[i], users, groupTimer)
    BY DEF Paced
  <2>3. users' = Without(users, my) /\ groupTimer' = groupTimer
    BY DEF LogoffHeader
  <2> HIDE DEF tx
  <2>4. Paces(tx, users', groupTimer')
    BY <2>1, <2>2, <2>3 DEF Paces, Age, Without
  <2> QED BY <2>4 DEF tx
<1>3. DOMAIN Left(ids, {my}, "unlisted") = DOMAIN ids
  BY DEF Left
<1> QED BY <1>1, <1>2, <1>3 DEF Paced, LogoffHeader, With

\* A frame restarts all three timers, its end the stream's only.
LEMMA FramePaced ==
  ASSUME TypeOK, Paced, NEW id \in StreamIds, NEW text \in {"plain", "info", "logoff"}, NEW last \in BOOLEAN,
         Frame(id, text, last)
  PROVE  Paced'
<1>0. \A i \in DOMAIN ids : Paces(ids[i], users, groupTimer)
  BY DEF Paced
<1>1. CASE Restart
  BY <1>1, RestartPaced
<1>2. CASE ~Restart
  <2> DEFINE kind == IF ids[id].kind = "plain" THEN text ELSE ids[id].kind
             t    == [ids EXCEPT ![id].timer = Started, ![id].kind = kind]
  <2>0. PICK u \in Pointee(ids[id]) : \E us \in ResetBy(ids[id], u) :
          /\ groupTimer' = GroupStart
          /\ IF last
             THEN /\ users' = [v \in DOMAIN users \ LeavingBy(t[id], u) |-> us[v]]
                  /\ ids' = Ended(Left(t, LeavingBy(t[id], u), "unlisted"), id)
             ELSE users' = us /\ ids' = t
    BY <1>2 DEF Frame
  <2>1. PICK us \in ResetBy(ids[id], u) :
          /\ groupTimer' = GroupStart
          /\ IF last
             THEN /\ users' = [v \in DOMAIN users \ LeavingBy(t[id], u) |-> us[v]]
                  /\ ids' = Ended(Left(t, LeavingBy(t[id], u), "unlisted"), id)
             ELSE users' = us /\ ids' = t
    BY <2>0
  <2>2. id \in DOMAIN ids /\ ids[id] \in Streams
    BY Numbers DEF Frame
  <2>3. /\ DOMAIN t = DOMAIN ids /\ StreamsTyped(t)
        /\ \A i \in DOMAIN ids \ {id} : t[i] = ids[i]
        /\ t[id].user = ids[id].user /\ t[id].object = ids[id].object /\ t[id].end = ids[id].end
        /\ t[id].timer = 1
    <3>1. kind \in Kinds
      BY <2>2 DEF Streams, Kinds
    <3>0. Started \in 0 .. MessageDelay
      BY TimeoutsPositive DEF Started
    <3>2. [ids[id] EXCEPT !.timer = Started, !.kind = kind] \in Streams
      <4> HIDE DEF kind
      <4> QED BY <2>2, <3>0, <3>1 DEF Streams
    <3>3. t = [ids EXCEPT ![id] = [ids[id] EXCEPT !.timer = Started, !.kind = kind]]
      BY <2>2 DEF TypeOK
    <3>4. /\ [ids[id] EXCEPT !.timer = Started, !.kind = kind].user = ids[id].user
          /\ [ids[id] EXCEPT !.timer = Started, !.kind = kind].object = ids[id].object
          /\ [ids[id] EXCEPT !.timer = Started, !.kind = kind].end = ids[id].end
          /\ [ids[id] EXCEPT !.timer = Started, !.kind = kind].timer = 1
      BY <2>2, Numbers DEF Streams
    <3> HIDE DEF t, kind
    <3>5. t[id] = [ids[id] EXCEPT !.timer = Started, !.kind = kind]
      BY <2>2, <3>3
    <3>6. DOMAIN t = DOMAIN ids /\ \A i \in DOMAIN ids \ {id} : t[i] = ids[i]
      BY <3>3
    <3>7. StreamsTyped(t)
      BY <2>2, <3>2, <3>3 DEF StreamsTyped, TypeOK
    <3> QED BY <3>4, <3>5, <3>6, <3>7
  <2> HIDE DEF t, kind
  <2>4. /\ DOMAIN us = DOMAIN users
        /\ \A v \in DOMAIN users : us[v] \in {users[v], 0, 1}
        /\ ids[id].object = "listed" /\ u \in DOMAIN users => us[u] \in {0, 1}
        /\ GroupStart \in {0, 1}
    BY Starts DEF Reset, ResetBy
  <2>5. ids[id].object = "listed" => u = ids[id].user /\ u \in DOMAIN users
    BY <1>0, <2>1, <2>2 DEF Pointee, Paces
  <2>6. \A i \in DOMAIN ids : Paces(t[i], us, GroupStart)
    <3> TAKE i \in DOMAIN ids
    <3>1. CASE i = id
      BY <2>3, <2>4, <2>5, <3>1, Numbers DEF Paces, Age, IsRunning
    <3>2. CASE i # id
      <4>1. Paces(ids[i], us, GroupStart)
        BY <1>0, <2>4, Numbers, RestartedPace
      <4> QED BY <2>3, <3>2, <4>1
    <3> QED BY <3>1, <3>2
  <2>7. CASE ~last
    BY <2>1, <2>3, <2>6, <2>7, Numbers DEF Paced
  <2>8. CASE last
    <3> DEFINE gone == LeavingBy(t[id], u)
               left == Left(t, gone, "unlisted")
    <3>1. users' = [v \in DOMAIN users \ gone |-> us[v]] /\ ids' = Ended(left, id)
      BY <2>1, <2>8
    <3>2. /\ DOMAIN left = DOMAIN ids
          /\ \A i \in DOMAIN ids :
               /\ left[i] \in Streams
               /\ left[i].user = t[i].user /\ left[i].timer = t[i].timer /\ left[i].end = t[i].end
               /\ left[i].object = IF t[i].object = "listed" /\ t[i].user \in gone THEN "unlisted" ELSE t[i].object
      BY <2>3, LeftTyped
    <3> HIDE DEF left, gone
    <3>3. \A i \in DOMAIN ids : Paces(left[i], users', GroupStart)
      BY <2>4, <2>6, <3>1, <3>2 DEF Paces, Age
    <3>4. \A i \in DOMAIN ids' : i \in DOMAIN ids /\ (i # id => ids'[i] = left[i])
      BY <3>1, <3>2 DEF Ended, Without
    <3>5. id \in DOMAIN ids' => /\ ids'[id].timer = 1 /\ ids'[id].end = TRUE
                                /\ ids'[id].user = left[id].user /\ ids'[id].object = left[id].object
      <4> SUFFICES ASSUME id \in DOMAIN ids'
                   PROVE  /\ ids'[id].timer = 1 /\ ids'[id].end = TRUE
                          /\ ids'[id].user = left[id].user /\ ids'[id].object = left[id].object
        OBVIOUS
      <4>1. left[id].kind # "plain"
        BY <3>1 DEF Ended, Without
      <4>2. ids' = [left EXCEPT ![id].timer = Started, ![id].end = TRUE] /\ left[id] \in Streams
        BY <2>2, <3>1, <3>2, <4>1 DEF Ended
      <4> QED BY <2>2, <3>2, <4>2, Numbers DEF Streams
    <3>6. \A i \in DOMAIN ids' : Paces(ids'[i], users', GroupStart)
      <4> TAKE i \in DOMAIN ids'
      <4>1. i \in DOMAIN ids /\ Paces(left[i], users', GroupStart)
        BY <3>3, <3>4
      <4>2. CASE i # id
        BY <3>4, <4>1, <4>2
      <4>3. CASE i = id
        <5>1. Age(left[id]) \in Nat /\ Age(left[id]) <= Age(ids'[id]) /\ Age(ids'[id]) \in Nat
          BY <2>2, <2>3, <3>2, <3>5, <4>3, Numbers DEF Age
        <5>2. \A v \in DOMAIN users' : users'[v] \in Nat
          BY <2>4, <3>1, Numbers
        <5> QED BY <2>4, <3>5, <4>1, <4>3, <5>1, <5>2, Numbers DEF Paces, IsRunning
      <4> QED BY <4>2, <4>3
    <3> QED BY <2>1, <3>6, Numbers DEF Paced
  <2> QED BY <2>7, <2>8
<1> QED BY <1>1, <1>2

\* A log-off by remote control does as the one by radio.
LEMMA LogoffPaced ==
  ASSUME TypeOK, Paced, RemoteLogoff
  PROVE  Paced'
<1>1. CASE LogoffAll
  BY <1>1, RestartPaced DEF LogoffAll, ClearAll, Paced, Nothing
<1>2. ASSUME NEW u \in Users, Logoff(u), ~LogoffAll
      PROVE  Paced'
  <2>1. PICK found \in Found(u) : ids' = [i \in DOMAIN ids \ found |-> Left(ids, {u}, "freed")[i]]
    BY <1>2 DEF Logoff
  <2>2. users' = Without(users, u) /\ groupTimer' = groupTimer
    BY <1>2 DEF Logoff
  <2>3. ASSUME NEW i \in DOMAIN ids PROVE Paces(Left(ids, {u}, "freed")[i], users', groupTimer')
    <3> DEFINE tx == Left(ids, {u}, "freed")[i]
    <3>1. /\ tx.user = ids[i].user /\ tx.timer = ids[i].timer /\ tx.end = ids[i].end
          /\ tx.object = IF ids[i].object = "listed" /\ ids[i].user \in {u} THEN "freed" ELSE ids[i].object
      BY LeftTyped DEF TypeOK, StreamsTyped
    <3>2. Paces(ids[i], users, groupTimer)
      BY DEF Paced
    <3> HIDE DEF tx
    <3>3. Paces(tx, users', groupTimer')
      BY <2>2, <3>1, <3>2 DEF Paces, Age, Without
    <3> QED BY <3>3 DEF tx
  <2> QED BY <2>1, <2>3 DEF Paced
<1> QED BY <1>1, <1>2 DEF RemoteLogoff

(* A tick makes nobody older than his streams.                              *)
LEMMA ClockedPace ==
  ASSUME TypeOK, Paced, NEW left, NEW i \in DOMAIN ClockedIds
  PROVE  Paces(Left(ClockedIds, left, "unlisted")[i], ClockedUsers(left), Tick(groupTimer, GroupTimeout))
<1> DEFINE tx == Left(ClockedIds, left, "unlisted")[i]
           us == ClockedUsers(left)
           group == Tick(groupTimer, GroupTimeout)
<1>1. /\ i \in DOMAIN ids /\ ids[i] \in Streams /\ ids[i].timer \in Nat /\ ids[i].end \in BOOLEAN
      /\ Paces(ids[i], users, groupTimer) /\ ~Removed(i)
  BY ClockedTyped, Numbers DEF Paced
<1>2. /\ tx.user = ids[i].user
      /\ tx.object = "listed" => ids[i].object = "listed" /\ ids[i].user \notin left
      /\ tx.timer = IF Expires(i) THEN Started ELSE Tick(ids[i].timer, MessageDelay)
      /\ tx.end = (ids[i].end \/ Expires(i))
  BY ClockedTyped, LeftTyped
<1>3. group \in Nat /\ group <= groupTimer + 1
  BY Numbers DEF Tick
<1>4. /\ \A u \in DOMAIN users \ left : u \in DOMAIN us /\ us[u] \in Nat /\ us[u] <= users[u] + 1
      /\ DOMAIN us = DOMAIN users \ left
  BY Numbers DEF ClockedUsers, Tick
<1> SUFFICES Paces(tx, us, group)
  OBVIOUS
<1> HIDE DEF tx, us, group
<1>5. CASE Expires(i)
  <2>1. ~ids[i].end
    BY <1>1, <1>5 DEF Removed
  <2>2. tx.timer = 1 /\ tx.end
    BY <1>2, <1>5, Numbers
  <2>3. Age(ids[i]) + 1 <= Age(tx) /\ Age(ids[i]) \in Nat /\ Age(tx) \in Nat
    BY <1>1, <2>1, <2>2, Numbers DEF Age, Paces
  <2>4. IsRunning(tx.timer) /\ tx.timer < MessageDelay
    BY <1>1, <2>2, Numbers DEF Paces, IsRunning
  <2>5. ASSUME tx.object = "listed"
        PROVE  tx.user \in DOMAIN us /\ us[tx.user] <= Age(tx) /\ group <= Age(tx)
    <3>1. tx.user \in DOMAIN users \ left /\ users[tx.user] <= Age(ids[i]) /\ groupTimer <= Age(ids[i])
      BY <1>1, <1>2, <2>5 DEF Paces
    <3>0. group \in Nat /\ groupTimer \in Nat
      BY <1>3, Numbers
    <3>2. users[tx.user] \in Nat /\ us[tx.user] \in Nat /\ us[tx.user] <= users[tx.user] + 1
      BY <1>4, <3>1, Numbers
    <3> QED BY <1>3, <1>4, <2>3, <3>0, <3>1, <3>2
  <2> QED BY <2>4, <2>5 DEF Paces
<1>6. CASE ~Expires(i)
  <2>1. tx.timer = ids[i].timer + 1 /\ tx.timer < MessageDelay /\ tx.end = ids[i].end
    BY <1>1, <1>2, <1>6, Numbers DEF Expires, HasExpired, Tick, IsRunning, Paces
  <2>2. Age(ids[i]) + 1 <= Age(tx) /\ Age(ids[i]) \in Nat /\ Age(tx) \in Nat
    BY <1>1, <2>1, Numbers DEF Age
  <2>4. IsRunning(tx.timer) /\ tx.timer < MessageDelay
    BY <1>1, <2>1, Numbers DEF Paces, IsRunning
  <2>5. ASSUME tx.object = "listed"
        PROVE  tx.user \in DOMAIN us /\ us[tx.user] <= Age(tx) /\ group <= Age(tx)
    <3>1. tx.user \in DOMAIN users \ left /\ users[tx.user] <= Age(ids[i]) /\ groupTimer <= Age(ids[i])
      BY <1>1, <1>2, <2>5 DEF Paces
    <3>0. group \in Nat /\ groupTimer \in Nat
      BY <1>3, Numbers
    <3>2. users[tx.user] \in Nat /\ us[tx.user] \in Nat /\ us[tx.user] <= users[tx.user] + 1
      BY <1>4, <3>1, Numbers
    <3> QED BY <1>3, <1>4, <2>2, <3>0, <3>1, <3>2
  <2> QED BY <2>4, <2>5 DEF Paces
<1> QED BY <1>5, <1>6

\* The clock moves all timers on, and a stream is over before its user is.
LEMMA ClockPaced ==
  ASSUME TypeOK, Paced, Clock
  PROVE  Paced'
<1>1. CASE Restart
  BY <1>1, RestartPaced
<1>2. CASE ~Restart
  <2>1. PICK left, gone : Ticks(left, gone)
    BY <1>2, ClockTicks
  <2> DEFINE t     == Left(ClockedIds, left, "unlisted")
             us    == ClockedUsers(left)
             group == Tick(groupTimer, GroupTimeout)
  <2>2. \A i \in DOMAIN t : Paces(t[i], us, group)
    BY ClockedPace, ClockedTyped, LeftTyped
  <2>3. StreamsTyped(t) /\ group \in Nat
    BY ClockedTyped, LeftTyped, Numbers DEF Tick
  <2>4. CASE users' = us /\ ids' = t /\ groupTimer' = group
    BY <2>2, <2>4 DEF Paced
  <2>5. CASE /\ users' = [u \in DOMAIN us \ gone |-> us[u]]
             /\ ids' = Left(t, gone, "freed")
             /\ groupTimer' = IF HasExpired(group, GroupTimeout) THEN Stopped ELSE group
    <3> SUFFICES ASSUME NEW i \in DOMAIN ids' PROVE Paces(ids'[i], users', groupTimer')
      BY DEF Paced
    <3>1. /\ i \in DOMAIN t /\ ids'[i].user = t[i].user /\ ids'[i].timer = t[i].timer /\ ids'[i].end = t[i].end
          /\ t[i] \in Streams
          /\ ids'[i].object = IF t[i].object = "listed" /\ t[i].user \in gone THEN "freed" ELSE t[i].object
      BY <2>3, <2>5, LeftTyped DEF StreamsTyped
    <3>2. Paces(t[i], us, group)
      BY <2>2, <3>1
    <3>3. t[i].timer \in Nat /\ t[i].end \in BOOLEAN
      BY <3>1 DEF Streams
    <3> HIDE DEF t, us, group
    <3>4. Age(t[i]) \in Nat /\ Age(ids'[i]) = Age(t[i])
      BY <3>1, <3>3, Numbers DEF Age
    <3>5. group <= Age(t[i]) => groupTimer' <= Age(t[i])
      BY <2>5, <3>4, Numbers
    <3> QED BY <2>5, <3>1, <3>2, <3>4, <3>5 DEF Paces
  <2> QED BY <2>1, <2>4, <2>5 DEF Ticks
<1> QED BY <1>1, <1>2

\* The pace is kept at all times.
LEMMA AlwaysPaced == Spec => []Paced
<1>1. Init => Paced
  BY DEF Init, Paced, Nothing
<1>2. TypeOK /\ Paced /\ [Next]_vars => Paced'
  <2> SUFFICES ASSUME TypeOK, Paced, [Next]_vars PROVE Paced'
    OBVIOUS
  <2>1. CASE Radio
    BY <2>1, HeaderPaced, LogoffHeaderPaced, FramePaced DEF Radio
  <2>2. CASE RemoteLogoff
    BY <2>2, LogoffPaced
  <2>3. CASE IrcUser \/ UNCHANGED vars
    BY <2>3 DEF IrcUser, vars, Paced
  <2>4. CASE Clock
    BY <2>4, ClockPaced
  <2> QED BY <2>1, <2>2, <2>3, <2>4 DEF Next
<1> QED BY <1>1, <1>2, TypeCorrect, PTL DEF Spec

(* No time-out deletes a user whom a stream still points to: a stream ends  *)
(* and goes within two delays of the last thing heard of it, and the user   *)
(* and the group wait longer.                                               *)
THEOREM UsersOutliveStreams == Spec => ClockKeepsUsers
<1>1. ASSUME TypeOK, Paced, Clock, NEW i \in DOMAIN ids \cap DOMAIN ids', ids'[i].object = "freed"
      PROVE  ids[i].object = "freed"
  <2>1. CASE Restart
    BY <1>1, <2>1 DEF Restart, Nothing
  <2>2. CASE ~Restart
    <3>1. PICK left, gone : Ticks(left, gone)
      BY <1>1, <2>2, ClockTicks
    <3> DEFINE t     == Left(ClockedIds, left, "unlisted")
               us    == ClockedUsers(left)
               group == Tick(groupTimer, GroupTimeout)
    <3>2. /\ StreamsTyped(t) /\ DOMAIN t = DOMAIN ClockedIds
          /\ i \in DOMAIN t => /\ t[i] \in Streams /\ Paces(t[i], us, group)
                               /\ t[i].object = "freed" => ids[i].object = "freed"
      BY <1>1, ClockedPace, ClockedTyped, LeftTyped
    <3>3. CASE ids' = t
      BY <1>1, <3>2, <3>3
    <3>4. CASE ids' = Left(t, gone, "freed") /\ gone = Expired(us, group)
      <4>1. i \in DOMAIN t /\ t[i] \in Streams
            /\ ids'[i].object = IF t[i].object = "listed" /\ t[i].user \in gone THEN "freed" ELSE t[i].object
        BY <1>1, <3>2, <3>4, LeftTyped DEF StreamsTyped
      <4>2. ASSUME t[i].object = "listed" PROVE t[i].user \notin gone
        <5>1. t[i].timer \in Nat /\ t[i].end \in BOOLEAN
          BY <4>1 DEF Streams
        <5>2. /\ Age(t[i]) \in Nat
              /\ UserTimeout = 0 \/ Age(t[i]) < UserTimeout
              /\ GroupTimeout = 0 \/ Age(t[i]) < GroupTimeout
          BY <1>1, <3>2, <4>1, <5>1, Numbers, StarNetAssumption DEF Age, Paces
        <5>3. us[t[i].user] <= Age(t[i]) /\ group <= Age(t[i])
          BY <3>2, <4>1, <4>2 DEF Paces
        <5>4. us[t[i].user] \in 0 .. UserTimeout /\ group \in 0 .. GroupTimeout
          <6>1. t[i].user \in DOMAIN us
            BY <3>2, <4>1, <4>2 DEF Paces
          <6> QED BY <1>1, <6>1, ClockedUsersTyped, Starts DEF UsersTyped, TypeOK
        <5> HIDE DEF t, us, group
        <5>5. ~HasExpired(us[t[i].user], UserTimeout) /\ ~HasExpired(group, GroupTimeout)
          BY <1>1, <5>2, <5>3, <5>4, Numbers DEF HasExpired
        <5> QED BY <3>4, <5>5 DEF Expired
      <4> QED BY <1>1, <3>2, <4>1, <4>2
    <3> QED BY <3>1, <3>3, <3>4 DEF Ticks
  <2> QED BY <2>1, <2>2
<1>2. TypeOK /\ Paced /\ [Next]_vars =>
        [Clock => \A i \in DOMAIN ids \cap DOMAIN ids' :
           ids'[i].object = "freed" => ids[i].object = "freed"]_vars
  BY <1>1
<1> QED BY <1>2, TypeCorrect, AlwaysPaced, PTL DEF Spec, ClockKeepsUsers
===============================================================================
