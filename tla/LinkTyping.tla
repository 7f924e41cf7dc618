------------------------------- MODULE LinkTyping -------------------------------
(***************************************************************************)
(* The operators of LinkControl, CCSHandler and LinkCommands take a link   *)
(* record to link records, for every value of the constants: the lemmas    *)
(* the type invariant of RepeaterHandler rests on.  The callsign of a      *)
(* relink may be any value of m_linkRepeater, the empty one included, so   *)
(* LinkInt is typed for all of Calls.                                      *)
(***************************************************************************)
EXTENDS LinkCommands, TLAPS

(* triggerInfo leaves a link record.                                        *)
LEMMA InformType ==
  ASSUME NEW l \in LinkStates
  PROVE  Inform(l) \in LinkStates
BY DEF Inform, LinkStates

(* Clearing the link leaves a link record.                                  *)
LEMMA NotLinkedType ==
  ASSUME NEW l \in LinkStates
  PROVE  NotLinked(l) \in LinkStates
BY DEF NotLinked, LinkStates, Calls, LinkStatus

(* The reconnect timer starts within its range.                            *)
LEMMA StartReconnectType ==
  ASSUME NEW l \in LinkStates
  PROVE  StartReconnect(l) \in LinkStates
BY TimeoutAssumption DEF StartReconnect, LinkStates, Started

(* Starting and stopping the query timer keeps it within its range.        *)
LEMMA QueryType ==
  ASSUME NEW l \in LinkStates
  PROVE  /\ [l EXCEPT !.query = Stopped] \in LinkStates
         /\ [l EXCEPT !.query = Started] \in LinkStates
BY TimeoutAssumption DEF LinkStates, Started, Stopped

(* A link object leads to a remote.                                        *)
LEMMA AddObjectType ==
  ASSUME NEW out \in SUBSET Remote, NEW r \in Remote
  PROVE  AddObject(out, r) \in SUBSET Remote
BY DEF AddObject

(* Deleting link objects leaves a link record.                              *)
LEMMA DropType ==
  ASSUME NEW l \in LinkStates, NEW gone
  PROVE  Drop(l, gone) \in LinkStates
BY DEF Drop, LinkStates

(* linkInt, for any callsign m_linkRepeater may hold.                       *)
LEMMA LinkToType ==
  ASSUME NEW l \in LinkStates, NEW k \in SUBSET Remote, NEW r \in Calls
  PROVE  LinkTo(l, k, r) \in LinkStates
<1> DEFINE m == Inform([l EXCEPT !.repeater = r])
<1>1. [l EXCEPT !.repeater = r] \in LinkStates
  BY DEF LinkStates
<1>2. m \in LinkStates
  BY <1>1, InformType
<1> HIDE DEF m
<1>3. [m EXCEPT !.status = "PENDING", !.query = Started] \in LinkStates
  <2>1. [m EXCEPT !.query = Started] \in LinkStates
    BY <1>2, QueryType
  <2>2. [[m EXCEPT !.query = Started] EXCEPT !.status = "PENDING"] \in LinkStates
    BY <2>1 DEF LinkStates, LinkStatus
  <2>3. [m EXCEPT !.status = "PENDING", !.query = Started]
        = [[m EXCEPT !.query = Started] EXCEPT !.status = "PENDING"]
    BY <1>2 DEF LinkStates
  <2> QED
    BY <2>2, <2>3
<1>4. [m EXCEPT !.status = "NONE"] \in LinkStates
  BY <1>2 DEF LinkStates, LinkStatus
<1>5. ASSUME r \in k
      PROVE  [m EXCEPT !.status = "LINKING", !.out = AddObject(@, r)] \in LinkStates
  <2>1. AddObject(m.out, r) \in SUBSET Remote
    BY <1>2, <1>5, AddObjectType DEF LinkStates
  <2> QED
    BY <1>2, <2>1 DEF LinkStates, LinkStatus, ReflectorStatus
<1> QED
  BY <1>3, <1>4, <1>5 DEF LinkTo, m

(* linkInt, an unknown reflector included.                                  *)
LEMMA LinkIntType ==
  ASSUME NEW l \in LinkStates, NEW k \in SUBSET Remote, NEW r \in Calls
  PROVE  LinkInt(l, k, r) \in LinkStates
BY LinkToType, InformType DEF LinkInt

(* linkUp, linkFailed and linkRefused.                                      *)
LEMMA LinkUpType ==
  ASSUME NEW l \in LinkStates, NEW o \in Remote
  PROVE  LinkUp(l, o) \in LinkStates
<1>1. [l EXCEPT !.status = "LINKED"] \in LinkStates
  BY DEF LinkStates, LinkStatus, ReflectorStatus
<1> QED
  BY <1>1, InformType DEF LinkUp

(* linkFailed, which may relink to whatever m_linkRepeater holds.           *)
LEMMA LinkFailedType ==
  ASSUME NEW l \in LinkStates, NEW k \in SUBSET Remote, NEW o
  PROVE  LinkFailed(l, k, o) \in LinkStates
<1>1. [l EXCEPT !.relink = FALSE] \in LinkStates
  BY DEF LinkStates
<1>2. l.repeater \in Calls
  BY DEF LinkStates
<1>3. LinkInt([l EXCEPT !.relink = FALSE], k, l.repeater) \in LinkStates
  BY <1>1, <1>2, LinkIntType
<1>4. Inform(NotLinked(l)) \in LinkStates
  BY NotLinkedType, InformType
<1> QED
  BY <1>3, <1>4 DEF LinkFailed

(* linkRefused clears the link or leaves it.                                *)
LEMMA LinkRefusedType ==
  ASSUME NEW l \in LinkStates, NEW o
  PROVE  LinkRefused(l, o) \in LinkStates
BY NotLinkedType, InformType DEF LinkRefused

-------------------------------------------------------------------------------
(* unlink() of the three handlers.                                          *)
LEMMA UnlinkType ==
  ASSUME NEW l \in LinkStates, NEW protocol, NEW kept
  PROVE  Unlink(l, protocol, kept) \in LinkStates
<1> DEFINE gone == {o \in l.out \ kept : Proto[o] = protocol}
<1>1. gone \in SUBSET Remote
  BY DEF LinkStates
<1>2. Drop(l, gone) \in LinkStates
  BY DropType
<1> HIDE DEF gone
<1>3. [Drop(l, gone) EXCEPT !.closing = @ \cup gone] \in LinkStates
  BY <1>1, <1>2 DEF LinkStates
<1> QED
  BY <1>3 DEF Unlink, gone

(* CDExtraHandler::unlink, for every place a relinked object may take.      *)
LEMMA UnlinkDExtraType ==
  ASSUME NEW l \in LinkStates, NEW k \in SUBSET Remote, NEW kept
  PROVE  UnlinkDExtra(l, k, kept) \in SUBSET LinkStates
<1> DEFINE gone     == {o \in l.out \ kept : Proto[o] = "DEXTRA"}
           m        == Drop(l, gone)
           relinked == LinkFailed(m, k, l.repeater)
           met      == LinkFailed(Drop(relinked, {l.repeater}), k, l.repeater)
<1>1. m \in LinkStates
  BY DropType
<1>2. relinked \in LinkStates
  BY <1>1, LinkFailedType
<1>3. met \in LinkStates
  BY <1>2, DropType, LinkFailedType
<1> HIDE DEF gone, m, relinked, met
<1>4. UnlinkDExtra(l, k, kept) =
        CASE gone = {} -> {l}
          [] gone # {} /\ ~l.relink -> {IF l.repeater \in gone THEN relinked ELSE m}
          [] OTHER -> {relinked} \cup
                      {x \in {met} : /\ l.repeater \in relinked.out \ kept
                                     /\ Proto[l.repeater] = "DEXTRA"}
  BY DEF UnlinkDExtra, gone, m, relinked, met
<1> QED
  BY <1>1, <1>2, <1>3, <1>4

(* Unlinking everything leaves link records.                                *)
LEMMA UnlinkAllType ==
  ASSUME NEW l \in LinkStates, NEW k \in SUBSET Remote
  PROVE  UnlinkAll(l, k) \in SUBSET LinkStates
BY UnlinkDExtraType, UnlinkType DEF UnlinkAll

(* "Just a change of port", for each of the protocols.                      *)
LEMMA RelinkType ==
  ASSUME NEW l \in LinkStates, NEW r \in Remote
  PROVE  Relink(l, r) \in SUBSET LinkStates
<1>1. ASSUME NEW s \in SUBSET Remote, NEW o
      PROVE  Renamed(s, o, r) \in SUBSET Remote
  BY DEF Renamed
<1>2. ASSUME NEW o
      PROVE  [l EXCEPT !.out = Renamed(@, o, r), !.up = Renamed(@, o, r)] \in LinkStates
  <2>1. /\ Renamed(l.out, o, r) \in SUBSET Remote
        /\ Renamed(l.up, o, r) \in SUBSET Remote
    BY <1>1 DEF LinkStates
  <2> QED
    BY <2>1 DEF LinkStates
<1>3. ASSUME NEW o
      PROVE  [l EXCEPT !.closing = Renamed(@, o, r)] \in LinkStates
  <2>1. Renamed(l.closing, o, r) \in SUBSET Remote
    BY <1>1 DEF LinkStates
  <2> QED
    BY <2>1 DEF LinkStates
<1> QED
  BY <1>2, <1>3 DEF Relink

(* A change of module, by the protocol of the reflector.                    *)
LEMMA ChangeModuleType ==
  ASSUME NEW l \in LinkStates, NEW k \in SUBSET Remote, NEW r \in Remote
  PROVE  ChangeModule(l, k, r) \in SUBSET LinkStates
<1> DEFINE m == [l EXCEPT !.repeater = r]
           n == [m EXCEPT !.relink = TRUE]
<1>1. m \in LinkStates
  BY DEF LinkStates, Calls
<1>2. n \in LinkStates
  BY <1>1 DEF LinkStates
<1> HIDE DEF m, n
<1>3. ASSUME NEW x \in LinkStates
      PROVE  Inform([x EXCEPT !.status = "LINKING"]) \in LinkStates
  <2>1. [x EXCEPT !.status = "LINKING"] \in LinkStates
    BY DEF LinkStates, LinkStatus, ReflectorStatus
  <2> QED
    BY <2>1, InformType
<1>4. {Inform(x) : x \in Relink(m, r)} \in SUBSET LinkStates
  BY <1>1, RelinkType, InformType
<1>5. {Inform([Unlink(n, "DCS", {r}) EXCEPT !.status = "LINKING"])} \in SUBSET LinkStates
  BY <1>2, <1>3, UnlinkType
<1>6. {Inform([x EXCEPT !.status = "LINKING"]) : x \in UnlinkDExtra(n, k, {r})}
        \in SUBSET LinkStates
  BY <1>2, <1>3, UnlinkDExtraType
<1>7. ChangeModule(l, k, r) =
        CASE l.status \notin ReflectorStatus -> {l}
          [] l.status \in ReflectorStatus /\ Proto[r] = "DPLUS" ->
               {Inform(x) : x \in Relink(m, r)}
          [] l.status \in ReflectorStatus /\ Proto[r] = "DCS" ->
               {Inform([Unlink(n, "DCS", {r}) EXCEPT !.status = "LINKING"])}
          [] OTHER -> {Inform([x EXCEPT !.status = "LINKING"]) :
                         x \in UnlinkDExtra(n, k, {r})}
  BY DEF ChangeModule, m, n
<1> QED
  BY <1>4, <1>5, <1>6, <1>7

(* suspendLinks and restoreLinks.                                           *)
LEMMA SuspendLinksType ==
  ASSUME NEW l \in LinkStates, NEW k \in SUBSET Remote
  PROVE  SuspendLinks(l, k) \in SUBSET LinkStates
<1> DEFINE m == [l EXCEPT !.last = IF l.status \in ReflectorStatus THEN l.repeater ELSE @]
<1>1. m \in LinkStates
  BY DEF LinkStates
<1> HIDE DEF m
<1>2. UnlinkDExtra(Unlink(m, "DPLUS", {}), k, {}) \in SUBSET LinkStates
  BY <1>1, UnlinkType, UnlinkDExtraType
<1>3. ASSUME NEW x \in LinkStates
      PROVE  [NotLinked(Unlink(x, "DCS", {})) EXCEPT !.reconnect = Stopped] \in LinkStates
  <2>1. NotLinked(Unlink(x, "DCS", {})) \in LinkStates
    BY UnlinkType, NotLinkedType
  <2> QED
    BY <2>1, TimeoutAssumption DEF LinkStates, Stopped
<1> QED
  BY <1>2, <1>3 DEF SuspendLinks, m

(* restoreLinks, whatever link was remembered.                              *)
LEMMA RestoreLinksType ==
  ASSUME NEW l \in LinkStates, NEW k \in SUBSET Remote
  PROVE  RestoreLinks(l, k) \in LinkStates
<1> DEFINE m == IF l.mode = "TIMED" THEN StartReconnect(l) ELSE l
           r == IF l.mode = "FIXED" THEN l.startup ELSE l.last
<1>1. m \in LinkStates
  BY StartReconnectType
<1>2. r \in Calls
  BY DEF LinkStates, Calls
<1> HIDE DEF m, r
<1>3. LinkInt(m, k, r) \in LinkStates
  BY <1>1, <1>2, LinkIntType
<1>4. [LinkInt(m, k, r) EXCEPT !.last = NoCall] \in LinkStates
  BY <1>3 DEF LinkStates, Calls
<1> QED
  BY <1>1, <1>4 DEF RestoreLinks, m, r

-------------------------------------------------------------------------------
(* What the link objects report.                                            *)
LEMMA ObjectTypes ==
  ASSUME NEW l \in LinkStates, NEW k \in SUBSET Remote, NEW o \in Remote
  PROVE  /\ ObjectUp(l, o) \in LinkStates
         /\ ObjectRefused(l, o) \in LinkStates
         /\ ObjectFailed(l, k, o) \in LinkStates
         /\ Forget(l, o) \in LinkStates
         /\ UnlinkAcknowledged(l, k, o) \in LinkStates
<1>1. ObjectUp(l, o) \in LinkStates
  <2>1. LinkUp(l, o) \in LinkStates
    BY LinkUpType
  <2> QED
    BY <2>1 DEF ObjectUp, LinkStates
<1>2. ObjectRefused(l, o) \in LinkStates
  BY LinkRefusedType, DropType DEF ObjectRefused
<1>3. ObjectFailed(l, k, o) \in LinkStates
  BY LinkFailedType, DropType DEF ObjectFailed
<1>4. Forget(l, o) \in LinkStates
  BY DEF Forget, LinkStates
<1>5. UnlinkAcknowledged(l, k, o) \in LinkStates
  BY <1>4, LinkFailedType DEF UnlinkAcknowledged
<1> QED
  BY <1>1, <1>2, <1>3, <1>4, <1>5

(* An object without polls is kept or deleted.                              *)
LEMMA ObjectTimedOutType ==
  ASSUME NEW l \in LinkStates, NEW rest \in LinkStates, NEW o \in Remote
  PROVE  ObjectTimedOut(l, rest, o) \in LinkStates
<1> DEFINE kept == [rest EXCEPT !.status = "LINKING", !.out = @ \cup {o},
                               !.info = @ \/ l.status = "LINKED"]
<1>1. [rest EXCEPT !.status = "LINKING", !.out = @ \cup {o}] \in LinkStates
  BY DEF LinkStates, LinkStatus, ReflectorStatus
<1>2. (rest.info \/ l.status = "LINKED") \in BOOLEAN
  OBVIOUS
<1>3. \A i \in BOOLEAN : [rest EXCEPT !.status = "LINKING", !.out = @ \cup {o}, !.info = i]
                         \in LinkStates
  BY <1>1 DEF LinkStates
<1>4. kept \in LinkStates
  BY <1>2, <1>3
<1> QED
  BY <1>4 DEF ObjectTimedOut

-------------------------------------------------------------------------------
(* The CCS client and the callbacks it makes.                               *)
LEMMA CcsLinkMadeType ==
  ASSUME NEW l \in LinkStates, NEW k \in SUBSET Remote
  PROVE  CcsLinkMade(l, k) \in SUBSET LinkStates
<1>1. ASSUME NEW m \in LinkStates
      PROVE  [m EXCEPT !.status = "LINKED_CCS", !.repeater = CcsPeer, !.query = Stopped]
               \in LinkStates
  <2>1. [m EXCEPT !.query = Stopped] \in LinkStates
    BY QueryType
  <2>2. [[m EXCEPT !.query = Stopped] EXCEPT !.status = "LINKED_CCS", !.repeater = CcsPeer]
          \in LinkStates
    BY <2>1 DEF LinkStates, LinkStatus, CcsStatus, Calls
  <2>3. [m EXCEPT !.status = "LINKED_CCS", !.repeater = CcsPeer, !.query = Stopped]
        = [[m EXCEPT !.query = Stopped] EXCEPT !.status = "LINKED_CCS", !.repeater = CcsPeer]
    BY DEF LinkStates
  <2> QED
    BY <2>2, <2>3
<1> QED
  BY <1>1, SuspendLinksType, InformType DEF CcsLinkMade

(* ccsLinkEnded, for an incoming and an outgoing call.                      *)
LEMMA CcsLinkEndedType ==
  ASSUME NEW l \in LinkStates, NEW k \in SUBSET Remote
  PROVE  CcsLinkEnded(l, k) \in LinkStates
<1>1. [NotLinked(l) EXCEPT !.query = Stopped] \in LinkStates
  BY NotLinkedType, QueryType
<1> QED
  BY <1>1, RestoreLinksType, InformType DEF CcsLinkEnded

(* m_state and m_direction stay within their types.                         *)
LEMMA CcsFieldType ==
  ASSUME NEW l \in LinkStates
  PROVE  /\ \A c \in {"DISABLED", "CONNECTING", "CONNECTED", "ACTIVE"} :
              [l EXCEPT !.ccs = c] \in LinkStates
         /\ \A b \in BOOLEAN : [l EXCEPT !.mapped = b] \in LinkStates
         /\ \A b \in BOOLEAN : [l EXCEPT !.asked = b] \in LinkStates
         /\ \A d \in {"INCOMING", "OUTGOING"} : Activate(l, d) \in LinkStates
BY DEF LinkStates, Activate

(* startLink, with the station known or to be asked for.                    *)
LEMMA StartLinkType ==
  ASSUME NEW l \in LinkStates, NEW k \in SUBSET Remote
  PROVE  StartLink(l, k) \in SUBSET LinkStates
<1>1. {Activate(m, "OUTGOING") : m \in CcsLinkMade(l, k)} \in SUBSET LinkStates
  BY CcsLinkMadeType, CcsFieldType
<1>2. [Activate(l, "OUTGOING") EXCEPT !.asked = TRUE] \in LinkStates
  <2>1. Activate(l, "OUTGOING") \in LinkStates
    BY CcsFieldType
  <2> QED
    BY <2>1, CcsFieldType
<1> QED
  BY <1>1, <1>2 DEF StartLink

(* stopLink, in every state of the client.                                  *)
LEMMA StopLinkType ==
  ASSUME NEW l \in LinkStates, NEW k \in SUBSET Remote
  PROVE  StopLink(l, k) \in LinkStates
<1>1. [l EXCEPT !.ccs = "CONNECTED"] \in LinkStates
  BY CcsFieldType
<1> QED
  BY <1>1, CcsLinkEndedType DEF StopLink

(* Whatever the CCS server sends leaves a link record.                      *)
LEMMA ServerTypes ==
  ASSUME NEW l \in LinkStates, NEW k \in SUBSET Remote
  PROVE  /\ IncomingCall(l, k) \in SUBSET LinkStates
         /\ DtmfFound(l, k) \in SUBSET LinkStates
         /\ DtmfNotFound(l, k) \in LinkStates
         /\ PollInactivity(l, k) \in LinkStates
         /\ \A ack \in BOOLEAN : ServerAnswers(l, ack) \in LinkStates
<1>1. IncomingCall(l, k) \in SUBSET LinkStates
  <2>1. Activate(l, "INCOMING") \in LinkStates
    BY CcsFieldType
  <2> QED
    BY <2>1, CcsLinkMadeType DEF IncomingCall
<1>2. DtmfFound(l, k) \in SUBSET LinkStates
  <2>1. (l.mapped \/ l.dir = "OUTGOING") \in BOOLEAN
    OBVIOUS
  <2>2. \A b \in BOOLEAN : [l EXCEPT !.mapped = b, !.asked = FALSE] \in LinkStates
    BY DEF LinkStates
  <2>3. [l EXCEPT !.mapped = @ \/ l.dir = "OUTGOING", !.asked = FALSE] \in LinkStates
    BY <2>1, <2>2
  <2> QED
    BY <2>3, CcsLinkMadeType DEF DtmfFound
<1>3. DtmfNotFound(l, k) \in LinkStates
  <2>1. [l EXCEPT !.ccs = "CONNECTED", !.asked = FALSE] \in LinkStates
    BY DEF LinkStates
  <2> QED
    BY <2>1, CcsLinkEndedType DEF DtmfNotFound
<1>4. PollInactivity(l, k) \in LinkStates
  <2>1. (IF l.ccs = "ACTIVE" THEN CcsLinkEnded(l, k) ELSE l) \in LinkStates
    BY CcsLinkEndedType
  <2> QED
    BY <2>1, CcsFieldType DEF PollInactivity
<1>5. \A ack \in BOOLEAN : ServerAnswers(l, ack) \in LinkStates
  BY CcsFieldType DEF ServerAnswers
<1> QED
  BY <1>1, <1>2, <1>3, <1>4, <1>5

-------------------------------------------------------------------------------
(* The commands, the answer of ircDDB and the timers.                       *)
LEMMA UnlinkThenLinkTypes ==
  ASSUME NEW l \in LinkStates, NEW k \in SUBSET Remote
  PROVE  /\ {Inform(NotLinked(x)) : x \in UnlinkAll(l, k)} \in SUBSET LinkStates
         /\ \A r \in Calls : {LinkInt(x, k, r) : x \in UnlinkAll(l, k)} \in SUBSET LinkStates
BY UnlinkAllType, NotLinkedType, InformType, LinkIntType

(* reflectorCommandHandler, for every command users may give.               *)
LEMMA ReflectorCommandType ==
  ASSUME NEW l \in LinkStates, NEW k \in SUBSET Remote,
         NEW cmd \in Remote \cup {Self, "unlink", "startup", "none"}
  PROVE  ReflectorCommand(l, k, cmd) \in SUBSET LinkStates
<1> DEFINE m == [l EXCEPT !.query = Stopped]
           r == IF cmd = "startup" THEN l.startup ELSE cmd
           idle == IF cmd = "unlink" THEN l.status = "NONE"
                   ELSE cmd = "none" \/ r = NoCall \/ (l.status # "NONE" /\ r = l.repeater)
<1>1. m \in LinkStates
  BY QueryType
<1>2. ASSUME cmd # "unlink", ~idle, r # Self
      PROVE  r \in Remote /\ r \in Calls
  BY <1>2 DEF LinkStates, Calls
<1>3. {Inform(NotLinked(x)) : x \in UnlinkAll(m, k)} \in SUBSET LinkStates
  BY <1>1, UnlinkThenLinkTypes
<1>4. ASSUME cmd # "unlink", ~idle, r # Self
      PROVE  /\ ChangeModule(m, k, r) \in SUBSET LinkStates
             /\ {LinkInt(x, k, r) : x \in UnlinkAll(m, k)} \in SUBSET LinkStates
  <2> HIDE DEF m, r, idle
  <2> QED
    BY <1>1, <1>2, <1>4, ChangeModuleType, UnlinkThenLinkTypes
<1>5. Inform(m) \in LinkStates
  BY <1>1, InformType
<1>6. ReflectorCommand(l, k, cmd) =
        IF Ignores(l) THEN {l}
        ELSE IF idle THEN {m}
        ELSE IF cmd = "unlink" THEN {Inform(NotLinked(x)) : x \in UnlinkAll(m, k)}
        ELSE IF r = Self THEN {Inform(m)}
        ELSE IF l.status # "NONE" /\ SameBase(l.repeater, r) THEN ChangeModule(m, k, r)
        ELSE {LinkInt(x, k, r) : x \in UnlinkAll(m, k)}
  BY DEF ReflectorCommand
<1> HIDE DEF m, r, idle
<1> QED
  BY <1>1, <1>3, <1>4, <1>5, <1>6

(* ccsCommandHandler, for a number and for "CA".                            *)
LEMMA CcsCommandType ==
  ASSUME NEW l \in LinkStates, NEW k \in SUBSET Remote, NEW cmd
  PROVE  CcsCommand(l, k, cmd) \in SUBSET LinkStates
<1>1. ASSUME NEW m \in LinkStates
      PROVE  [m EXCEPT !.query = Started, !.status = "LINKING_CCS", !.repeater = CcsPeer]
               \in LinkStates
  <2>1. [m EXCEPT !.query = Started] \in LinkStates
    BY QueryType
  <2>2. [[m EXCEPT !.query = Started] EXCEPT !.status = "LINKING_CCS", !.repeater = CcsPeer]
          \in LinkStates
    BY <2>1 DEF LinkStates, LinkStatus, CcsStatus, Calls
  <2>3. [m EXCEPT !.query = Started, !.status = "LINKING_CCS", !.repeater = CcsPeer]
        = [[m EXCEPT !.query = Started] EXCEPT !.status = "LINKING_CCS", !.repeater = CcsPeer]
    BY DEF LinkStates
  <2> QED
    BY <2>2, <2>3
<1>2. ASSUME NEW m \in SuspendLinks(l, k)
      PROVE  StartLink([m EXCEPT !.query = Started, !.status = "LINKING_CCS",
                                 !.repeater = CcsPeer], k) \in SUBSET LinkStates
  BY <1>1, SuspendLinksType, StartLinkType
<1> QED
  BY <1>2, StopLinkType DEF CcsCommand

(* CRepeaterHandler::link, for every command of the remote control.         *)
LEMMA RemoteLinkType ==
  ASSUME NEW l \in LinkStates, NEW k \in SUBSET Remote, NEW mode \in Reconnect,
         NEW r \in Remote \cup {NoCall}
  PROVE  RemoteLink(l, k, mode, r) \in SUBSET LinkStates
<1> DEFINE dropped == [NotLinked(StopLink(l, k)) EXCEPT !.query = Stopped]
           n == IF l.status \in CcsStatus THEN dropped ELSE l
           m == [n EXCEPT !.startup = r, !.mode = mode, !.timed = @ \/ mode = "TIMED",
                          !.reconnect = IF mode = "TIMED" THEN Started ELSE Stopped]
<1>1. n \in LinkStates
  BY StopLinkType, NotLinkedType, QueryType
<1> HIDE DEF n
<1>2. m \in LinkStates
  <2>1. (IF mode = "TIMED" THEN Started ELSE Stopped) \in 0..ReconnectTimeout
    BY TimeoutAssumption DEF Started, Stopped
  <2>2. (n.timed \/ mode = "TIMED") \in BOOLEAN
    OBVIOUS
  <2>3. \A t \in BOOLEAN, c \in 0..ReconnectTimeout :
          [n EXCEPT !.startup = r, !.mode = mode, !.timed = t, !.reconnect = c] \in LinkStates
    BY <1>1 DEF LinkStates
  <2> QED
    BY <2>1, <2>2, <2>3
<1> HIDE DEF m
<1>3. {Inform(NotLinked(x)) : x \in UnlinkAll(m, k)} \in SUBSET LinkStates
  BY <1>2, UnlinkThenLinkTypes
<1>4. ASSUME r # NoCall
      PROVE  /\ ChangeModule(m, k, r) \in SUBSET LinkStates
             /\ {LinkInt(x, k, r) : x \in UnlinkAll(m, k)} \in SUBSET LinkStates
  BY <1>2, <1>4, ChangeModuleType, UnlinkThenLinkTypes DEF Calls
<1>5. RemoteLink(l, k, mode, r) =
        IF IF m.status = "NONE" THEN r = NoCall ELSE r = m.repeater THEN {m}
        ELSE IF r = NoCall THEN {Inform(NotLinked(x)) : x \in UnlinkAll(m, k)}
        ELSE IF m.status # "NONE" /\ SameBase(m.repeater, r) THEN ChangeModule(m, k, r)
        ELSE {LinkInt(x, k, r) : x \in UnlinkAll(m, k)}
  BY DEF RemoteLink, m, n
<1> QED
  BY <1>2, <1>3, <1>4, <1>5

(* CRepeaterHandler::unlink, for every remote.                              *)
LEMMA RemoteUnlinkType ==
  ASSUME NEW l \in LinkStates, NEW k \in SUBSET Remote, NEW r \in Remote
  PROVE  RemoteUnlink(l, k, r) \in SUBSET LinkStates
BY UnlinkType, UnlinkDExtraType DEF RemoteUnlink

(* resolveRepeaterInt, with and without an address.                         *)
LEMMA ResolveLinkType ==
  ASSUME NEW l \in LinkStates, NEW r \in Remote, NEW found \in BOOLEAN
  PROVE  ResolveLink(l, r, found) \in LinkStates
<1> DEFINE m == [l EXCEPT !.query = Stopped]
<1>1. m \in LinkStates
  BY QueryType
<1> HIDE DEF m
<1>2. [m EXCEPT !.status = "LINKING", !.out = @ \cup {r}] \in LinkStates
  BY <1>1 DEF LinkStates, LinkStatus, ReflectorStatus
<1>3. Inform(NotLinked(m)) \in LinkStates
  BY <1>1, NotLinkedType, InformType
<1> QED
  BY <1>2, <1>3 DEF ResolveLink, m

(* The reconnect timer of clockInt, for every startup reflector.            *)
LEMMA ReconnectExpiredType ==
  ASSUME NEW l \in LinkStates, NEW k \in SUBSET Remote
  PROVE  ReconnectExpired(l, k) \in SUBSET LinkStates
<1>1. l.startup \in Remote \cup {NoCall} /\ l.startup \in Calls
  BY DEF LinkStates, Calls
<1>2. ChangeOfPort(l) => ChangeModule(l, k, l.startup) \in SUBSET LinkStates
  BY <1>1, ChangeModuleType DEF ChangeOfPort
<1>3. {StartReconnect(Inform(NotLinked(m))) : m \in UnlinkAll(l, k)} \in SUBSET LinkStates
  BY UnlinkAllType, NotLinkedType, InformType, StartReconnectType
<1>4. {StartReconnect(LinkInt(m, k, l.startup)) : m \in UnlinkAll(l, k)}
        \in SUBSET LinkStates
  BY <1>1, UnlinkAllType, LinkIntType, StartReconnectType
<1> QED
  BY <1>2, <1>3, <1>4, StartReconnectType DEF ReconnectExpired

(* The query timer of clockInt, for every status of the link.               *)
LEMMA LinkQueryExpiredType ==
  ASSUME NEW l \in LinkStates, NEW k \in SUBSET Remote
  PROVE  LinkQueryExpired(l, k) \in LinkStates
BY QueryType, NotLinkedType, InformType, StopLinkType, RestoreLinksType
DEF LinkQueryExpired
===============================================================================
