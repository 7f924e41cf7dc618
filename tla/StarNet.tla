-------------------------------- MODULE StarNet --------------------------------
(***************************************************************************)
(* CStarNetHandler: one StarNet group.  Users log in by talking to the     *)
(* group, are relayed to the repeaters of the others one at a time, and    *)
(* leave by a logoff call, a logoff text, the remote control or a timer.   *)
(* Every stream to the group has a CStarNetId, which holds a pointer to    *)
(* its user: what becomes of that object is part of the stream's record.   *)
(* Without DEXTRA_LINK and DCS_LINK, as the makefiles build it.            *)
(***************************************************************************)
EXTENDS CTimer, FiniteSets

CONSTANTS
  Users, Permanent,   \* callsigns; those of m_permanent
  Repeaters, Nowhere, \* where the cache may know a user, and may not
  StreamIds, Local,   \* stream identifiers; those that come from a repeater of this gateway
  MessageDelay, UserTimeout, GroupTimeout

\* MESSAGE_DELAY is 4 seconds, the other time-outs are half an hour and more,
\* or 0, never: such a timer does not start.
ASSUME StarNetAssumption ==
  /\ Permanent \subseteq Users /\ Nowhere \notin Repeaters
  /\ StreamIds \subseteq Nat \ {0} /\ Local \subseteq StreamIds
  /\ MessageDelay \in Nat \ {0, 1} /\ {UserTimeout, GroupTimeout} \subseteq Nat
  /\ UserTimeout = 0 \/ 2 * MessageDelay < UserTimeout
  /\ GroupTimeout = 0 \/ 2 * MessageDelay < GroupTimeout

VARIABLES
  users,      \* m_users: the users logged in, and their timers
  ids,        \* m_ids: the streams
  relayed,    \* m_id, 0 for none
  repeaters,  \* m_repeaters: the entries, deleted or not
  groupTimer, \* m_groupTimer
  cache       \* m_cache: the repeater of each user

vars == <<users, ids, relayed, repeaters, groupTimer, cache>>

\* No command, m_login, m_info, m_logoff.
Kinds == {"plain", "login", "info", "logoff"}

\* "unlisted": the user is not in m_users any more; "freed": deleted.
Streams == [user : Users, object : {"listed", "unlisted", "freed"},
            timer : 0 .. MessageDelay, kind : Kinds, end : BOOLEAN]

Stream(u, object, kind) ==
  [user |-> u, object |-> object, timer |-> Started, kind |-> kind, end |-> FALSE]

Without(f, x) == [y \in DOMAIN f \ {x} |-> f[y]]
With(f, x, v) == [y \in DOMAIN f \cup {x} |-> IF y = x THEN v ELSE f[y]]

\* The streams of the users in leaving, when their objects leave m_users.
Left(t, leaving, object) ==
  [i \in DOMAIN t |-> IF t[i].object = "listed" /\ t[i].user \in leaving
                      THEN [t[i] EXCEPT !.object = object] ELSE t[i]]

Start(timeout) == IF timeout > 0 THEN Started ELSE Stopped
UserStart  == Start(UserTimeout)
GroupStart == Start(GroupTimeout)

\* The users a pointer may lead to: the memory of a deleted one may have
\* been given to another.
Pointee(tx) == IF tx.object = "freed" THEN {tx.user} \cup DOMAIN users ELSE {tx.user}

\* A slip: the user's timer is not restarted.
ResetForgotten(us, u) == us

Reset(us, u) == IF u \in DOMAIN us THEN [us EXCEPT ![u] = UserStart] ELSE us

\* The users' timers after tx.getUser()->reset(): an object that has left
\* m_users is not that of a user who has logged in again since.
ResetBy(tx, u) ==
  {us \in {users, Reset(users, u)} :
     /\ tx.object = "unlisted" => us = users
     /\ tx.object = "listed" \/ u # tx.user => us = Reset(users, u)}

Stale == \E r \in DOMAIN repeaters : repeaters[r] = "freed"

Nothing == [x \in {} |-> Stopped]

Init ==
  /\ users = Nothing /\ ids = Nothing /\ relayed = 0 /\ repeaters = Nothing
  /\ groupTimer = Stopped
  /\ cache = [u \in Users |-> Nowhere]

\* The program starts again after the use of a deleted object has stopped it.
Restart ==
  /\ users' = Nothing /\ ids' = Nothing /\ relayed' = 0 /\ repeaters' = Nothing
  /\ groupTimer' = Stopped
  /\ cache' = [u \in Users |-> Nowhere]

-------------------------------------------------------------------------------
(* process(CHeaderData&).  The stream is relayed if no other is; its list of *)
(* repeaters grows by those of the users logged in, the talker's excepted.   *)

Destinations(my, us) ==
  {cache[u] : u \in DOMAIN us} \ {Nowhere, cache[my]}

Relay(my, id) ==
  IF relayed # 0 THEN UNCHANGED <<relayed, repeaters>>
  ELSE /\ relayed' = id
       /\ repeaters' = [r \in DOMAIN repeaters \cup Destinations(my, users') |->
                          IF r \in DOMAIN repeaters THEN repeaters[r] ELSE "live"]

GroupHeader(my, id) ==
  \/ /\ my \notin DOMAIN users
     /\ users' = With(users, my, UserStart)
     /\ ids' = With(ids, id, Stream(my, "listed", "login"))
     /\ groupTimer' = GroupStart /\ UNCHANGED cache
     /\ Relay(my, id)
  \/ /\ my \in DOMAIN users /\ id \notin DOMAIN ids
     /\ users' = Reset(users, my)
     /\ ids' = With(ids, id, Stream(my, "listed", "plain"))
     /\ groupTimer' = GroupStart /\ UNCHANGED cache
     /\ Relay(my, id)
  \/ /\ my \in DOMAIN users /\ id \in DOMAIN ids   \* a duplicate header
     /\ users' = Reset(users, my)
     /\ UNCHANGED <<ids, relayed, repeaters, groupTimer, cache>>
  \/ /\ relayed = 0 /\ Stale /\ (my \in DOMAIN users => id \notin DOMAIN ids)
     /\ Restart

LogoffHeader(my, id) ==
  /\ my \in DOMAIN users
  /\ users' = Without(users, my)
  /\ ids' = With(Left(ids, {my}, "unlisted"), id, Stream(my, "unlisted", "logoff"))
  /\ UNCHANGED <<relayed, repeaters, groupTimer, cache>>

-------------------------------------------------------------------------------
(* process(CAMBEData&).  A frame from the network reaches the group only for *)
(* the relayed stream (findStarNet).  What a stream asks for is done at its  *)
(* end, and acknowledged when its timer runs out.                            *)

\* The stream has ended, by its last frame or by its timer.
Ended(t, id) ==
  IF t[id].kind = "plain" THEN Without(t, id)
  ELSE [t EXCEPT ![id].timer = Started, ![id].end = TRUE]

LeavingBy(tx, u) == IF tx.kind = "logoff" THEN {u} ELSE {}

\* A slip: the list is cleared and m_id is not.
EndKeepsId(ended) ==
  IF relayed \in ended THEN repeaters' = Nothing /\ UNCHANGED relayed
  ELSE UNCHANGED <<relayed, repeaters>>

EndRelay(ended) ==
  IF relayed \in ended THEN relayed' = 0 /\ repeaters' = Nothing
  ELSE UNCHANGED <<relayed, repeaters>>

Frame(id, text, last) ==
  /\ id \in DOMAIN ids /\ (id \in Local \/ id = relayed)
  /\ \/ \E u \in Pointee(ids[id]) : \E us \in ResetBy(ids[id], u) :
          LET kind == IF ids[id].kind = "plain" THEN text ELSE ids[id].kind
              t    == [ids EXCEPT ![id].timer = Started, ![id].kind = kind]
          IN /\ groupTimer' = GroupStart /\ UNCHANGED cache
             /\ IF last
                THEN /\ users' = [v \in DOMAIN users \ LeavingBy(t[id], u) |-> us[v]]
                     /\ ids' = Ended(Left(t, LeavingBy(t[id], u), "unlisted"), id)
                     /\ EndRelay({id})
                ELSE /\ users' = us /\ ids' = t
                     /\ UNCHANGED <<relayed, repeaters>>
     \/ /\ ids[id].object = "freed" \/ (id = relayed /\ Stale)
        /\ Restart

-------------------------------------------------------------------------------
(* logoff: the remote control.                                               *)

Deleted == [r \in DOMAIN repeaters |-> "freed"]

ClearAll ==
  /\ users' = Nothing /\ ids' = Nothing /\ relayed' = 0
  /\ groupTimer' = Stopped
  /\ repeaters' = Deleted     \* m_repeaters.end()

LogoffAll ==
  \/ ClearAll /\ UNCHANGED cache
  \/ Stale /\ Restart

\* The stream the loop finds: the first, in the order of the table, whose
\* pointer is the user's.
Found(u) ==
  LET own   == {i \in DOMAIN ids : ids[i].user = u /\ ids[i].object = "listed"}
      reuse == {i \in DOMAIN ids : ids[i].object = "freed"}
  IN {{i} : i \in own \cup reuse} \cup {s \in {{}} : own = {}}

\* A slip: the relayed stream goes, and m_id does not.
LogoffKeepsId(callsign) ==
  /\ callsign \in DOMAIN users /\ DOMAIN users # {callsign}
  /\ users' = Without(users, callsign)
  /\ \E found \in Found(callsign) :
       ids' = [i \in DOMAIN ids \ found |-> Left(ids, {callsign}, "freed")[i]]
  /\ UNCHANGED <<groupTimer, repeaters, relayed, cache>>

Logoff(callsign) ==
  /\ callsign \in DOMAIN users
  /\ \/ /\ DOMAIN users # {callsign} /\ UNCHANGED <<groupTimer, repeaters, cache>>
        /\ users' = Without(users, callsign)
        /\ \E found \in Found(callsign) :
             /\ ids' = [i \in DOMAIN ids \ found |-> Left(ids, {callsign}, "freed")[i]]
             /\ relayed' = IF relayed \in found THEN 0 ELSE relayed
     \/ DOMAIN users = {callsign} /\ LogoffAll

-------------------------------------------------------------------------------
(* clockInt.  Each loop stops at the first entry that it removes and leaves  *)
(* the rest to the next round, a few milliseconds later.  A tick is many     *)
(* rounds: all that is due in it is done.                                    *)

Expires(id) == HasExpired(Tick(ids[id].timer, MessageDelay), MessageDelay)
Removed(id) == Expires(id) /\ (ids[id].end \/ ids[id].kind = "plain")

\* The streams that end in this tick because nothing came: the first expiry.
Silent == {i \in DOMAIN ids : Expires(i) /\ ~ids[i].end}

ClockedId(id) ==
  IF Expires(id) THEN [ids[id] EXCEPT !.timer = Started, !.end = TRUE]
  ELSE [ids[id] EXCEPT !.timer = Tick(@, MessageDelay)]

ClockedIds == [i \in {j \in DOMAIN ids : ~Removed(j)} |-> ClockedId(i)]

ClockedUsers(left) ==
  [u \in DOMAIN users \ left |->
     IF u \in Permanent THEN users[u] ELSE Tick(users[u], UserTimeout)]

\* The users removed by the group's timer, and by their own.
Expired(us, group) ==
  {u \in DOMAIN us \ Permanent : HasExpired(group, GroupTimeout)} \cup
  {u \in DOMAIN us : HasExpired(us[u], UserTimeout)}

Clock ==
  \E called \in [Silent -> Users] :
    LET left  == UNION {LeavingBy(ids[i], called[i]) : i \in Silent}
        us    == ClockedUsers(left)
        t     == Left(ClockedIds, left, "unlisted")
        group == Tick(groupTimer, GroupTimeout)
        gone  == Expired(us, group)
    IN /\ \A i \in Silent : called[i] \in Pointee(ids[i])
       /\ \/ /\ EndRelay(Silent) /\ UNCHANGED cache
             /\ \/ /\ relayed' # 0     \* no time-outs while relaying
                   /\ users' = us /\ ids' = t /\ groupTimer' = group
                \/ /\ relayed' = 0
                   /\ users' = [u \in DOMAIN us \ gone |-> us[u]]
                   /\ ids' = Left(t, gone, "freed")
                   /\ groupTimer' = IF HasExpired(group, GroupTimeout) THEN Stopped ELSE group
          \/ /\ \/ \E i \in DOMAIN ids : Expires(i) /\ ids[i].object = "freed"
                \/ relayed \in Silent /\ Stale
             /\ Restart

\* ircDDB tells where a user is heard.
IrcUser ==
  /\ \E u \in Users, r \in Repeaters : cache' = [cache EXCEPT ![u] = r]
  /\ UNCHANGED <<users, ids, relayed, repeaters, groupTimer>>

Radio ==
  \E id \in StreamIds :
    \/ \E my \in Users : GroupHeader(my, id) \/ LogoffHeader(my, id)
    \/ \E text \in {"plain", "info", "logoff"}, last \in BOOLEAN : Frame(id, text, last)

RemoteLogoff == LogoffAll \/ \E u \in Users : Logoff(u)

Next == Radio \/ RemoteLogoff \/ IrcUser \/ Clock

\* The gateway's loop calls clock in every round.
Spec == Init /\ [][Next]_vars /\ WF_vars(Clock)

-------------------------------------------------------------------------------
TypeOK ==
  /\ DOMAIN users \subseteq Users /\ users \in [DOMAIN users -> 0 .. UserTimeout]
  /\ DOMAIN ids \subseteq StreamIds /\ ids \in [DOMAIN ids -> Streams]
  /\ relayed \in StreamIds \cup {0}
  /\ DOMAIN repeaters \subseteq Repeaters
  /\ repeaters \in [DOMAIN repeaters -> {"live", "freed"}]
  /\ groupTimer \in 0 .. GroupTimeout
  /\ cache \in [Users -> Repeaters \cup {Nowhere}]

(* The stream on the air is one that the group knows and that has not ended: *)
(* only then does a timer end the relay when its last frame is lost, and no  *)
(* one else is relayed and no user times out before.  process, logoff and    *)
(* clockInt each remove streams.                                             *)
RelayKnown == relayed # 0 => relayed \in DOMAIN ids /\ ~ids[relayed].end

(* No time-out deletes a user whom a stream still points to.  Nothing in the *)
(* code says so: it follows from what restarts the timers of the stream, of  *)
(* its user and of the group, and from the ratio of their time-outs.         *)
ClockKeepsUsers ==
  [][ Clock => \A i \in DOMAIN ids \cap DOMAIN ids' :
        ids'[i].object = "freed" => ids[i].object = "freed" ]_vars

(* When the radio falls silent, whatever frames were lost, the group comes   *)
(* to rest: nothing is relayed, every stream is settled, and, if there is a   *)
(* time-out, all but the permanent users leave.                              *)
AtRest ==
  /\ relayed = 0 /\ ids = Nothing
  /\ UserTimeout + GroupTimeout > 0 => DOMAIN users \subseteq Permanent
ComesToRest == <>[][~Radio]_vars => <>[]AtRest

(* logoff, "If none then clear all the data structures": the logoff of the   *)
(* last user leaves no repeater.                                             *)
AllCleared ==
  [][ (\E u \in Users : Logoff(u)) /\ users' = Nothing => repeaters' = Nothing ]_vars
===============================================================================
