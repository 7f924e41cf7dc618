-------------------------- MODULE RepeaterHandlerProofs --------------------------
(***************************************************************************)
(* Theorems about RepeaterHandler.tla, for every value of the constants:   *)
(* its variables keep their types, the invariants of its radio side hold,  *)
(* and what it does with the channel implements RadioChannel.tla.          *)
(*                                                                         *)
(* The inductive invariant is TypeOK /\ RadioInv.  Its parts need each     *)
(* other: that the watchdog only ever ends a stream is Guarded; that an     *)
(* answer of ircDDB finds the stream it settles still there is NothingLeft, *)
(* and the end of a stream clears the route only because, by Exclusive, it  *)
(* is the one stream there is.                                              *)
(***************************************************************************)
EXTENDS RepeaterHandler, LinkTyping

\* The types of the radio side.
RadioTypeOK ==
  /\ repeaterId \in StreamIds \cup {0} /\ busyId \in StreamIds \cup {0}
  /\ watchdogTimer \in 0..WatchdogTimeout
  /\ yourCQ \in BOOLEAN /\ restricted \in BOOLEAN
  /\ g2Status \in G2Statuses /\ g2Header \in BOOLEAN
  /\ g2Call \in Remote \cup Users \cup {NoCall}
  /\ xBandRptr \in BOOLEAN /\ starNet \in BOOLEAN
  /\ needed \in SUBSET Announcements
  /\ cache \in SUBSET Remote /\ users \in SUBSET Users

(* The type invariant splits into the radio side and the link record.       *)
LEMMA TypeOKParts == TypeOK <=> RadioTypeOK /\ link \in LinkStates
BY DEF TypeOK, RadioTypeOK

(* Queueing an announcement loses none while a stream goes on, and queues   *)
(* none when there is none.                                                 *)
LEMMA AnnouncedFacts ==
  ASSUME NEW m, NEW held \in BOOLEAN, NEW queue \in SUBSET Announcements
  PROVE  /\ Announced(m, held, queue) \in SUBSET Announcements
         /\ held => queue \subseteq Announced(m, held, queue)
         /\ ~held /\ queue = {} => Announced(m, held, queue) = {}
BY DEF Announced, Announcements

(* A running timer ticks without stopping, and a stopped one does not run.  *)
LEMMA TickFacts ==
  ASSUME NEW t \in 0..WatchdogTimeout
  PROVE  /\ Tick(t, WatchdogTimeout) \in 0..WatchdogTimeout
         /\ IsRunning(Tick(t, WatchdogTimeout)) <=> IsRunning(t)
         /\ HasExpired(Tick(t, WatchdogTimeout), WatchdogTimeout) => IsRunning(t)
BY WatchdogAssumption DEF Tick, IsRunning, HasExpired

-------------------------------------------------------------------------------
(* The link record stays one: every step sets it to the outcome of an       *)
(* operator that LinkTyping types.                                          *)
LEMMA SetLinkType ==
  ASSUME NEW m \in LinkStates, SetLink(m)
  PROVE  link' \in LinkStates
BY DEF SetLink, LinkStates

(* So does a change of the link alone.                                      *)
LEMMA LinkChangeType ==
  ASSUME NEW outcomes \in SUBSET LinkStates, LinkChange(outcomes)
  PROVE  link' \in LinkStates
<1>1. PICK m \in outcomes : SetLink(m)
  BY DEF LinkChange
<1> QED
  BY <1>1, SetLinkType

(* A command heard on the air leads from a link record to link records.     *)
LEMMA AirCommandType ==
  ASSUME NEW l \in LinkStates, cache \in SUBSET Remote,
         NEW y \in YourCalls \cup DtmfCommands
  PROVE  AirCommand(l, y) \in SUBSET LinkStates
BY InputAssumption, CcsCommandType, ReflectorCommandType DEF AirCommand

(* What every header does to the link leaves a link record.                 *)
LEMMA HeaderLinkType ==
  ASSUME link \in LinkStates
  PROVE  /\ HeaderLink \in LinkStates
         /\ [HeaderLink EXCEPT !.query = Started] \in LinkStates
<1>1. StartReconnect(link) \in LinkStates
  BY StartReconnectType
<1>2. HeaderLink \in LinkStates
  BY <1>1, TimeoutAssumption DEF HeaderLink, LinkStates, Stopped
<1> QED
  BY <1>2, QueryType

(* No header and no frame, with any command in it, breaks the link record.  *)
LEMMA RadioKeepsLink ==
  ASSUME TypeOK, Radio
  PROVE  link' \in LinkStates
<1>1. link \in LinkStates /\ cache \in SUBSET Remote
  BY DEF TypeOK
<1>2. ASSUME RepeaterHeader
      PROVE  link' \in LinkStates
  <2>1. PICK y \in YourCalls, id \in StreamIds \ {repeaterId}, r \in Restrictions :
          \/ BusyMessage(y)
          \/ DirectHeader(id, y, r)
          \/ StarNetHeader(id, y, r)
          \/ PlainHeader(id, y, r)
          \/ r /\ RestrictedHeader(id, y)
          \/ ~r /\ CommandHeader(id, y)
          \/ ~r /\ RouteHeader(id, y)
    BY <1>2 DEF RepeaterHeader
  <2>2. CASE BusyMessage(y)
    BY <1>1, <2>2 DEF BusyMessage
  <2>3. CASE DirectHeader(id, y, r)
    BY <1>1, <2>3, HeaderLinkType, SetLinkType DEF DirectHeader
  <2>4. CASE StarNetHeader(id, y, r)
    BY <1>1, <2>4, HeaderLinkType, SetLinkType DEF StarNetHeader
  <2>5. CASE PlainHeader(id, y, r)
    BY <1>1, <2>5, HeaderLinkType, SetLinkType DEF PlainHeader
  <2>6. CASE RestrictedHeader(id, y)
    BY <1>1, <2>6, HeaderLinkType, SetLinkType DEF RestrictedHeader
  <2>7. CASE CommandHeader(id, y)
    <3>1. PICK m \in AirCommand(HeaderLink, y) : SetLink(m)
      BY <2>7 DEF CommandHeader
    <3> QED
      BY <1>1, <3>1, HeaderLinkType, AirCommandType, SetLinkType
  <2>8. CASE RouteHeader(id, y)
    BY <1>1, <2>8, HeaderLinkType, SetLinkType DEF RouteHeader
  <2> QED
    BY <2>1, <2>2, <2>3, <2>4, <2>5, <2>6, <2>7, <2>8
<1>3. ASSUME NEW l \in LinkStates, NEW y \in DtmfCommands \cup {NoCommand}
      PROVE  Dialled(l, y) \in SUBSET LinkStates
  BY <1>1, AirCommandType DEF Dialled, Obeyed
<1>4. ASSUME RepeaterFrame
      PROVE  link' \in LinkStates
  <2>1. PICK y \in DtmfCommands \cup {NoCommand} :
          \E m \in Dialled(StartReconnect(link), y) :
            SetLink(EndLookup(m, g2Status)) \/ SetLink(m)
    BY <1>4 DEF RepeaterFrame
  <2>2. PICK m \in Dialled(StartReconnect(link), y) :
          SetLink(EndLookup(m, g2Status)) \/ SetLink(m)
    BY <2>1
  <2>3. m \in LinkStates
    BY <1>1, <1>3, <2>2, StartReconnectType
  <2>4. EndLookup(m, g2Status) \in LinkStates
    BY <2>3, QueryType DEF EndLookup
  <2> QED
    BY <2>2, <2>3, <2>4, SetLinkType
<1>5. ASSUME BusyHeader
      PROVE  link' \in LinkStates
  <2>1. PICK y \in YourCalls, r \in Restrictions :
          \E m \in IF r \/ y.kind \in {"CQ", "ECHO", "INFO"} THEN {link}
                   ELSE AirCommand(link, y) : SetLink(m)
    BY <1>5 DEF BusyHeader
  <2> QED
    BY <1>1, <2>1, AirCommandType, SetLinkType
<1>6. ASSUME BusyFrame
      PROVE  link' \in LinkStates
  <2>1. PICK y \in DtmfCommands \cup {NoCommand} : \E m \in Dialled(link, y) : SetLink(m)
    BY <1>6 DEF BusyFrame
  <2> QED
    BY <1>1, <1>3, <2>1, SetLinkType
<1> QED
  BY <1>2, <1>4, <1>5, <1>6 DEF Radio

(* Nothing that comes from the network breaks the link record.              *)
LEMMA NetworkKeepsLink ==
  ASSUME TypeOK, Network
  PROVE  link' \in LinkStates
<1>1. link \in LinkStates /\ cache \in SUBSET Remote
  BY DEF TypeOK
<1>2. link.out \in SUBSET Remote /\ link.up \in SUBSET Remote /\ link.closing \in SUBSET Remote
  BY <1>1 DEF LinkStates
<1>3. CASE IrcUser
  BY <1>1, <1>3 DEF IrcUser
<1>4. CASE IrcRepeater
  <2>1. PICK r \in Remote, found \in BOOLEAN :
          SetLink(ResolveLink(IF Waited(r) THEN [link EXCEPT !.query = Stopped] ELSE link,
                              r, found))
    BY <1>4 DEF IrcRepeater
  <2>2. (IF Waited(r) THEN [link EXCEPT !.query = Stopped] ELSE link) \in LinkStates
    BY <1>1, QueryType
  <2> QED
    BY <2>1, <2>2, ResolveLinkType, SetLinkType
<1>5. CASE RemoteLinked
  <2>1. PICK c \in RemoteLinks : LinkChange(RemoteLink(link, cache, c.mode, c.arg))
    BY <1>5 DEF RemoteLinked
  <2>2. c.mode \in Reconnect /\ c.arg \in Remote \cup {NoCall}
    BY InputAssumption
  <2> QED
    BY <1>1, <2>1, <2>2, RemoteLinkType, LinkChangeType
<1>6. CASE RemoteUnlinked
  BY <1>1, <1>6, RemoteUnlinkType, LinkChangeType DEF RemoteUnlinked
<1>7. CASE RemoteUnlinkedCcs \/ CcsEnds
  BY <1>1, <1>7, StopLinkType, LinkChangeType DEF RemoteUnlinkedCcs, CcsEnds
<1>8. CASE LinkAcknowledged \/ LinkRefusal \/ LinkDisconnected \/ LinkUnlinked
  BY <1>1, <1>2, <1>8, ObjectTypes, LinkChangeType
  DEF LinkAcknowledged, LinkRefusal, LinkDisconnected, LinkUnlinked
<1>9. CASE LinkDropped
  BY <1>1, <1>2, <1>9, ObjectTypes, DropType, LinkChangeType DEF LinkDropped
<1>10. CASE LinkTimedOut
  <2>1. ASSUME NEW o \in Remote
        PROVE  /\ ObjectTimedOut(link, Drop(link, {o}), o) \in LinkStates
               /\ ObjectTimedOut(link, Forget(link, o), o) \in LinkStates
    BY <1>1, ObjectTypes, DropType, ObjectTimedOutType
  <2> QED
    BY <1>2, <1>10, <2>1, LinkChangeType DEF LinkTimedOut
<1>11. CASE CcsAnswers
  BY <1>1, <1>11, ServerTypes, LinkChangeType DEF CcsAnswers
<1>12. CASE CcsCall \/ CcsFound
  BY <1>1, <1>12, ServerTypes, LinkChangeType DEF CcsCall, CcsFound
<1>13. CASE CcsUnknown \/ CcsSilent
  BY <1>1, <1>13, ServerTypes, LinkChangeType DEF CcsUnknown, CcsSilent
<1> QED
  BY <1>3, <1>4, <1>5, <1>6, <1>7, <1>8, <1>9, <1>10, <1>11, <1>12, <1>13 DEF Network

(* The timers do not break the link record, on either path of clockInt.     *)
LEMMA ClockKeepsLink ==
  ASSUME TypeOK, Clock
  PROVE  link' \in LinkStates
<1> DEFINE l == Ticked(link)
<1>1. link \in LinkStates /\ cache \in SUBSET Remote
  BY DEF TypeOK
<1>2. l \in LinkStates
  <2>1. link.query \in 0..QueryTimeout /\ link.reconnect \in 0..ReconnectTimeout
    BY <1>1 DEF LinkStates
  <2>2. /\ Tick(link.query, QueryTimeout) \in 0..QueryTimeout
        /\ Tick(link.reconnect, ReconnectTimeout) \in 0..ReconnectTimeout
    BY <2>1, TimeoutAssumption DEF Tick, IsRunning
  <2> QED
    BY <1>1, <2>2 DEF Ticked, LinkStates
<1> HIDE DEF l
<1>3. CASE ClockReturns(l)
  <2>1. PICK m \in ReconnectExpired(l, cache) : SetLink(m)
    BY <1>3 DEF ClockReturns
  <2> QED
    BY <1>1, <1>2, <2>1, ReconnectExpiredType, SetLinkType
<1>4. CASE ClockRuns(l)
  <2>1. PICK m \in IF MustReconnect(l) THEN ReconnectExpired(l, cache) ELSE {l} :
          \E n, status :
            /\ n \in {m, [m EXCEPT !.query = Stopped], LinkQueryExpired(m, cache)}
            /\ SetLink(EndLookup(n, status)) \/ SetLink(n)
    BY <1>4 DEF ClockRuns
  <2>2. m \in LinkStates
    BY <1>1, <1>2, <2>1, ReconnectExpiredType
  <2>3. PICK n, status :
          /\ n \in {m, [m EXCEPT !.query = Stopped], LinkQueryExpired(m, cache)}
          /\ SetLink(EndLookup(n, status)) \/ SetLink(n)
    BY <2>1
  <2>4. n \in LinkStates
    BY <1>1, <2>2, <2>3, QueryType, LinkQueryExpiredType
  <2>5. EndLookup(n, status) \in LinkStates
    BY <2>4, QueryType DEF EndLookup
  <2> QED
    BY <2>3, <2>4, <2>5, SetLinkType
<1> QED
  BY <1>3, <1>4 DEF Clock, l

-------------------------------------------------------------------------------
\* The inductive invariant.
IInv == TypeOK /\ RadioInv

(* What is to be shown of a step, the link aside: the types and the         *)
(* invariants of the radio side hold after it, and the channel takes a step *)
(* of RadioChannel or none.                                                 *)
ChannelStep ==
  RadioTypeOK' /\ RadioInv' /\ [Channel!Next]_<<Owner, RouteNow, needed>>

(* Who owns the channel, before and after a step: the RF stream, or else    *)
(* the relayed one, or nobody when no stream is held.                       *)
LEMMA OwnerFacts ==
  /\ repeaterId # 0 => Owner = Channel!RF(repeaterId)
  /\ repeaterId = 0 /\ busyId # 0 => Owner = Channel!Busy(busyId)
  /\ ~Held => Owner = Channel!Idle
  /\ Held => Owner # Channel!Idle
  /\ repeaterId' # 0 => Owner' = Channel!RF(repeaterId')
  /\ repeaterId' = 0 /\ busyId' # 0 => Owner' = Channel!Busy(busyId')
  /\ repeaterId' = 0 /\ busyId' = 0 => Owner' = Channel!Idle
<1>1. /\ repeaterId # 0 => Owner = Channel!RF(repeaterId)
      /\ repeaterId = 0 /\ busyId # 0 => Owner = Channel!Busy(busyId)
      /\ ~Held => Owner = Channel!Idle
  BY DEF Owner, Held, Channel!RF, Channel!Busy, Channel!Idle
<1>2. /\ Channel!RF(repeaterId).by = "rf" /\ Channel!Busy(busyId).by = "busy"
      /\ Channel!Idle.by = "idle"
  BY DEF Channel!RF, Channel!Busy, Channel!Idle
<1>3. Held => Owner # Channel!Idle
  BY <1>1, <1>2 DEF Held
<1>4. /\ repeaterId' # 0 => Owner' = Channel!RF(repeaterId')
      /\ repeaterId' = 0 /\ busyId' # 0 => Owner' = Channel!Busy(busyId')
      /\ repeaterId' = 0 /\ busyId' = 0 => Owner' = Channel!Idle
  BY DEF Owner, Channel!RF, Channel!Busy, Channel!Idle
<1> QED
  BY <1>1, <1>3, <1>4

(* A header of another stream changes the owner.                            *)
LEMMA OtherOwner ==
  ASSUME NEW id \in StreamIds
  PROVE  /\ id # repeaterId => Owner # Channel!RF(id)
         /\ repeaterId = 0 /\ id # busyId => Owner # Channel!Busy(id)
         /\ repeaterId # 0 => Owner # Channel!Busy(id)
<1>1. /\ Channel!RF(repeaterId).stream = repeaterId /\ Channel!RF(id).stream = id
      /\ Channel!Busy(busyId).stream = busyId /\ Channel!Busy(id).stream = id
      /\ Channel!RF(repeaterId).by = "rf" /\ Channel!RF(id).by = "rf"
      /\ Channel!Busy(busyId).by = "busy" /\ Channel!Busy(id).by = "busy"
      /\ Channel!Idle.by = "idle"
  BY DEF Channel!RF, Channel!Busy, Channel!Idle
<1> QED
  BY <1>1, OwnerFacts DEF Held

(* The route the channel shows is a route of RadioChannel.                  *)
LEMMA RouteNowType ==
  ASSUME RadioTypeOK
  PROVE  RouteNow \in Channel!Routes
BY DEF RadioTypeOK, RouteNow, Channel!Routes, G2Statuses, Lookups

(* A step that touches neither the stream nor its route only queues an      *)
(* announcement, and only while there is a stream.                          *)
LEMMA QueueStep ==
  ASSUME IInv, NEW m, needed' = Announced(m, Held, needed),
         UNCHANGED <<radio, g2>>, cache' \in SUBSET Remote, users' \in SUBSET Users
  PROVE  ChannelStep
<1> USE DEF IInv
<1>1. RadioTypeOK
  BY TypeOKParts
<1>2. Held \in BOOLEAN /\ needed \in SUBSET Announcements
  BY <1>1 DEF Held, RadioTypeOK
<1>3. /\ needed' \in SUBSET Announcements
      /\ Held => needed \subseteq needed'
      /\ ~Held /\ needed = {} => needed' = {}
  BY <1>2, AnnouncedFacts
<1>4. UNCHANGED <<Held, Owner, RouteNow>>
  BY DEF radio, g2, Held, Owner, RouteNow
<1>5. RadioTypeOK'
  BY <1>1, <1>3 DEF RadioTypeOK, radio, g2
<1>6. RadioInv'
  BY <1>3, <1>4 DEF RadioInv, Exclusive, Guarded, RouteResources, NothingLeft, radio, g2
<1>7. [Channel!Next]_<<Owner, RouteNow, needed>>
  <2>1. CASE Held
    <3>1. Owner # Channel!Idle
      BY <2>1, OwnerFacts
    <3>2. Channel!Queue
      BY <1>3, <1>4, <2>1, <3>1 DEF Channel!Queue, Channel!Queued
    <3> QED
      BY <3>2 DEF Channel!Next
  <2>2. CASE ~Held
    BY <1>3, <1>4, <2>2 DEF RadioInv, NothingLeft
  <2> QED
    BY <2>1, <2>2
<1> QED
  BY <1>5, <1>6, <1>7 DEF ChannelStep

(* A header of the radio begins a stream: the watchdog starts, the relayed  *)
(* traffic is over, and the new route has what it needs.                    *)
LEMMA BeginStep ==
  ASSUME IInv,
         NEW id \in StreamIds \ {repeaterId}, NEW y, \E r \in BOOLEAN : NewStream(id, y, r),
         NEW status \in G2Statuses, NEW call \in Remote \cup Users \cup {NoCall},
         NEW header \in BOOLEAN, Route(status, call, header),
         NEW xBand \in BOOLEAN, NEW star \in BOOLEAN, Pointers(xBand, star),
         status \in Lookups => header, status = "XBAND" => xBand,
         status = "STARNET" => star,
         needed' \in SUBSET Announcements, needed \subseteq needed'
  PROVE  ChannelStep
<1> USE DEF IInv
<1>1. RadioTypeOK
  BY TypeOKParts
<1>2. /\ repeaterId' = id /\ busyId' = 0 /\ watchdogTimer' = 1
      /\ yourCQ' \in BOOLEAN /\ restricted' \in BOOLEAN
      /\ cache' = cache /\ users' = users /\ id # 0
  BY StreamAssumption DEF NewStream, Started
<1>3. /\ g2Status' = status /\ g2Call' = call /\ g2Header' = header
      /\ xBandRptr' = xBand /\ starNet' = star
  BY DEF Route, Pointers
<1>4. RadioTypeOK'
  BY <1>1, <1>2, <1>3, WatchdogAssumption DEF RadioTypeOK
<1>5. RadioInv'
  BY <1>2, <1>3 DEF RadioInv, Exclusive, Guarded, RouteResources, NothingLeft, Held, IsRunning
<1>6. RouteNow' \in Channel!Routes
  BY <1>4 DEF RadioTypeOK, RouteNow, Channel!Routes, G2Statuses, Lookups
<1>7. Owner' = Channel!RF(id) /\ Owner # Channel!RF(id)
  BY <1>2, OwnerFacts, OtherOwner
<1>8. Channel!Begin
  BY <1>6, <1>7 DEF Channel!Begin, Channel!Queued
<1> QED
  BY <1>4, <1>5, <1>8 DEF ChannelStep, Channel!Next

(* Every header of the radio begins a stream.                               *)
LEMMA RepeaterHeaderStep ==
  ASSUME IInv, RepeaterHeader
  PROVE  ChannelStep
<1> USE DEF IInv
<1>1. RadioTypeOK /\ needed \in SUBSET Announcements
  BY TypeOKParts DEF RadioTypeOK
<1>2. PICK y \in YourCalls, id \in StreamIds \ {repeaterId}, r \in Restrictions :
        \/ BusyMessage(y)
        \/ DirectHeader(id, y, r)
        \/ StarNetHeader(id, y, r)
        \/ PlainHeader(id, y, r)
        \/ r /\ RestrictedHeader(id, y)
        \/ ~r /\ CommandHeader(id, y)
        \/ ~r /\ RouteHeader(id, y)
  BY DEF RepeaterHeader
<1>3. r \in BOOLEAN /\ id \in StreamIds \ {repeaterId}
  BY InputAssumption
<1>4. {"NONE", "LOCAL", "OK"} \subseteq G2Statuses \ Lookups
  BY DEF G2Statuses, Lookups
<1>5. CASE BusyMessage(y)
  BY <1>1, <1>5
  DEF BusyMessage, ChannelStep, RadioInv, Exclusive, Guarded, RouteResources, NothingLeft,
      Held, RadioTypeOK, Owner, RouteNow, g2
<1>6. CASE DirectHeader(id, y, r)
  <2>1. PICK status \in {"NONE", "XBAND", "LOCAL"} :
          Route(status, NoCall, FALSE) /\ Pointers(status = "XBAND", FALSE)
    BY <1>6 DEF DirectHeader
  <2>2. status \in G2Statuses /\ status \notin Lookups
    BY DEF G2Statuses, Lookups
  <2> QED
    BY <1>1, <1>3, <1>6, <2>1, <2>2, BeginStep DEF DirectHeader
<1>7. CASE StarNetHeader(id, y, r)
  <2>1. PICK status \in {"NONE", "STARNET"} : Route(status, NoCall, FALSE)
    BY <1>7 DEF StarNetHeader
  <2>2. status \in G2Statuses /\ status \notin Lookups
    BY DEF G2Statuses, Lookups
  <2> QED
    BY <1>1, <1>3, <1>7, <2>1, <2>2, BeginStep DEF StarNetHeader
<1>8. CASE PlainHeader(id, y, r)
  <2>1. PlainRoute[y.kind] \in G2Statuses \ (Lookups \cup {"XBAND", "STARNET"})
    BY <1>8 DEF PlainHeader, PlainRoute, G2Statuses, Lookups
  <2>2. {Asks[a] : a \in {y.kind} \cap DOMAIN Asks} \in SUBSET Announcements
    BY DEF Asks, Announcements
  <2> QED
    BY <1>1, <1>3, <1>8, <2>1, <2>2, BeginStep DEF PlainHeader
<1>9. CASE RestrictedHeader(id, y)
  BY <1>1, <1>3, <1>4, <1>9, BeginStep DEF RestrictedHeader
<1>10. CASE CommandHeader(id, y)
  <2>1. PICK m \in AirCommand(HeaderLink, y) : needed' = Announced(m, TRUE, needed)
    BY <1>10 DEF CommandHeader
  <2>2. needed' \in SUBSET Announcements /\ needed \subseteq needed'
    BY <1>1, <2>1, AnnouncedFacts
  <2> QED
    BY <1>3, <1>10, <2>2, <1>4, BeginStep DEF CommandHeader
<1>11. CASE RouteHeader(id, y)
  <2>1. y.kind \in Lookups /\ y.arg \in Remote \cup {Self} \cup Users
    BY <1>11, InputAssumption DEF RouteHeader, RouteRequest, Lookups
  <2>2. CASE Route("LOCAL", NoCall, FALSE)
    BY <1>1, <1>3, <1>11, <2>2, <1>4, BeginStep DEF RouteHeader
  <2>3. CASE ~StaysLocal(y) /\ Route("OK", y.arg, FALSE)
    <3>1. y.arg \in Remote \cup Users
      BY <1>11, <2>3, InputAssumption DEF RouteHeader, RouteRequest, StaysLocal
    <3> QED
      BY <1>1, <1>3, <1>11, <2>3, <3>1, <1>4, BeginStep DEF RouteHeader
  <2>4. CASE ~StaysLocal(y) /\ Route(y.kind, y.arg, TRUE)
    <3>1. y.arg \in Remote \cup Users
      BY <1>11, <2>4, InputAssumption DEF RouteHeader, RouteRequest, StaysLocal
    <3>2. y.kind \in G2Statuses /\ y.kind # "XBAND" /\ y.kind # "STARNET"
      BY <2>1 DEF G2Statuses, Lookups
    <3> QED
      BY <1>1, <1>3, <1>11, <2>4, <3>1, <3>2, BeginStep DEF RouteHeader
  <2> QED
    BY <1>11, <2>2, <2>3, <2>4 DEF RouteHeader
<1> QED
  BY <1>2, <1>5, <1>6, <1>7, <1>8, <1>9, <1>10, <1>11

(* The end of a stream gives up its route and its announcements.            *)
LEMMA EndStep ==
  ASSUME IInv, Held,
         repeaterId' = 0, busyId' = 0, watchdogTimer' = Stopped, g2Status' = "NONE",
         needed' = {}, g2Call' \in {g2Call, NoCall},
         g2Header' \in BOOLEAN, xBandRptr' \in BOOLEAN, starNet' \in BOOLEAN,
         UNCHANGED <<yourCQ, restricted, cache, users>>
  PROVE  ChannelStep
<1>1. RadioTypeOK
  BY TypeOKParts DEF IInv
<1>2. RadioTypeOK'
  BY <1>1, WatchdogAssumption DEF RadioTypeOK, Stopped, G2Statuses
<1>3. RadioInv'
  BY DEF RadioInv, Exclusive, Guarded, RouteResources, NothingLeft, Held, IsRunning, Stopped,
         Lookups
<1>4. Channel!End
  BY OwnerFacts DEF Channel!End, RouteNow
<1> QED
  BY <1>2, <1>3, <1>4 DEF ChannelStep, Channel!Next

(* A frame of a stream restarts the watchdog and may queue an announcement. *)
LEMMA FrameStep ==
  ASSUME IInv, Held, watchdogTimer' = Started,
         needed' \in SUBSET Announcements, needed \subseteq needed',
         UNCHANGED <<repeaterId, busyId, yourCQ, restricted, g2, cache, users>>
  PROVE  ChannelStep
<1>1. RadioTypeOK
  BY TypeOKParts DEF IInv
<1>2. RadioTypeOK'
  BY <1>1, WatchdogAssumption DEF RadioTypeOK, Started, g2
<1>3. RadioInv'
  BY DEF IInv, RadioInv, Exclusive, Guarded, RouteResources, NothingLeft, Held, IsRunning,
         Started, g2
<1>4. UNCHANGED <<Owner, RouteNow>>
  BY DEF Owner, RouteNow, g2
<1>5. Channel!Queue
  BY <1>4, OwnerFacts DEF Channel!Queue, Channel!Queued
<1> QED
  BY <1>2, <1>3, <1>5 DEF ChannelStep, Channel!Next

(* A frame of the RF stream is one or the other.                            *)
LEMMA RepeaterFrameStep ==
  ASSUME IInv, RepeaterFrame
  PROVE  ChannelStep
<1>1. RadioTypeOK /\ Exclusive
  BY TypeOKParts DEF IInv, RadioInv
<1>2. PICK y \in DtmfCommands \cup {NoCommand}, end \in BOOLEAN :
        /\ repeaterId # 0
        /\ \E m \in Dialled(StartReconnect(link), y) :
             \/ /\ end /\ EndRoute(g2Status)
                /\ repeaterId' = 0 /\ watchdogTimer' = Stopped /\ needed' = {}
             \/ /\ ~end /\ watchdogTimer' = Started
                /\ needed' = Announced(m, TRUE, needed) \cup
                               {a \in {"info"} : Obeyed(y) /\ y.kind = "INFO"}
                /\ UNCHANGED <<repeaterId, g2Status, g2Header, xBandRptr, starNet>>
        /\ UNCHANGED <<busyId, yourCQ, restricted, g2Call, cache, users>>
  BY DEF RepeaterFrame
<1>3. Held /\ busyId = 0
  BY <1>1, <1>2 DEF Held, Exclusive
<1>4. CASE /\ EndRoute(g2Status)
           /\ repeaterId' = 0 /\ watchdogTimer' = Stopped /\ needed' = {}
  <2>1. /\ g2Status' = "NONE" /\ g2Header' \in BOOLEAN
        /\ xBandRptr' \in BOOLEAN /\ starNet' \in BOOLEAN
    BY <1>4 DEF EndRoute, Pointers
  <2> QED
    BY <1>2, <1>3, <1>4, <2>1, EndStep
<1>5. CASE \E m \in Dialled(StartReconnect(link), y) :
             /\ watchdogTimer' = Started
             /\ needed' = Announced(m, TRUE, needed) \cup
                            {a \in {"info"} : Obeyed(y) /\ y.kind = "INFO"}
             /\ UNCHANGED <<repeaterId, g2Status, g2Header, xBandRptr, starNet>>
  <2>1. needed \in SUBSET Announcements
    BY <1>1 DEF RadioTypeOK
  <2>2. PICK m : needed' = Announced(m, TRUE, needed) \cup
                             {a \in {"info"} : Obeyed(y) /\ y.kind = "INFO"}
    BY <1>5
  <2>3. /\ Announced(m, TRUE, needed) \in SUBSET Announcements
        /\ needed \subseteq Announced(m, TRUE, needed)
    BY <2>1, AnnouncedFacts
  <2>4. needed' \in SUBSET Announcements /\ needed \subseteq needed'
    BY <2>2, <2>3 DEF Announcements
  <2>5. UNCHANGED <<repeaterId, busyId, yourCQ, restricted, g2, cache, users>>
    BY <1>2, <1>5 DEF g2
  <2> QED
    BY <1>3, <1>5, <2>4, <2>5, FrameStep
<1> QED
  BY <1>2, <1>4, <1>5

(* Relayed traffic takes the channel over, with the route as it stands.     *)
LEMMA BusyHeaderStep ==
  ASSUME IInv, BusyHeader
  PROVE  ChannelStep
<1>1. RadioTypeOK
  BY TypeOKParts DEF IInv
<1>2. PICK y \in YourCalls, id \in StreamIds \ {busyId}, r \in Restrictions :
        /\ busyId' = id /\ repeaterId' = 0 /\ watchdogTimer' = Started
        /\ yourCQ' = (y.kind = "CQ") /\ restricted' = r
        /\ \E m \in IF r \/ y.kind \in {"CQ", "ECHO", "INFO"} THEN {link}
                    ELSE AirCommand(link, y) : needed' = Announced(m, TRUE, needed)
        /\ UNCHANGED <<g2, cache, users>>
  BY DEF BusyHeader
<1>3. r \in BOOLEAN /\ id \in StreamIds /\ id # 0
  BY InputAssumption, StreamAssumption
<1>4. needed' \in SUBSET Announcements /\ needed \subseteq needed'
  <2>1. PICK m : needed' = Announced(m, TRUE, needed)
    BY <1>2
  <2> QED
    BY <1>1, <2>1, AnnouncedFacts DEF RadioTypeOK
<1>5. /\ busyId' \in StreamIds /\ busyId' # 0 /\ repeaterId' = 0
      /\ watchdogTimer' = Started /\ yourCQ' \in BOOLEAN /\ restricted' \in BOOLEAN
      /\ UNCHANGED <<g2, cache, users>>
  BY <1>2, <1>3
<1>6. RadioTypeOK'
  BY <1>1, <1>4, <1>5, WatchdogAssumption DEF RadioTypeOK, Started, g2
<1>7. RadioInv'
  BY <1>5
  DEF IInv, RadioInv, Exclusive, Guarded, RouteResources, NothingLeft, Held, IsRunning,
      Started, g2
<1>8. Channel!Relay
  <2>1. Owner' = Channel!Busy(id) /\ Owner # Channel!Busy(id)
    BY <1>2, <1>3, OwnerFacts, OtherOwner
  <2>2. UNCHANGED RouteNow
    BY <1>2 DEF RouteNow, g2
  <2> QED
    BY <1>3, <1>4, <2>1, <2>2 DEF Channel!Relay, Channel!Queued
<1> QED
  BY <1>6, <1>7, <1>8 DEF ChannelStep, Channel!Next

(* A frame of relayed traffic ends it or keeps it going.                    *)
LEMMA BusyFrameStep ==
  ASSUME IInv, BusyFrame
  PROVE  ChannelStep
<1>1. RadioTypeOK /\ Exclusive
  BY TypeOKParts DEF IInv, RadioInv
<1>2. PICK y \in DtmfCommands \cup {NoCommand}, end \in BOOLEAN :
        /\ busyId # 0
        /\ \E m \in Dialled(link, y) :
             needed' = IF end THEN {} ELSE Announced(m, TRUE, needed)
        /\ IF end THEN busyId' = 0 /\ watchdogTimer' = Stopped /\ g2Status' = "NONE"
           ELSE watchdogTimer' = Started /\ UNCHANGED <<busyId, g2Status>>
        /\ UNCHANGED <<repeaterId, yourCQ, restricted, g2Call, g2Header, xBandRptr, starNet,
                       cache, users>>
  BY DEF BusyFrame
<1>3. Held /\ repeaterId = 0
  BY <1>1, <1>2 DEF Held, Exclusive
<1>4. CASE end
  <2>1. g2Header' \in BOOLEAN /\ xBandRptr' \in BOOLEAN /\ starNet' \in BOOLEAN
    BY <1>1, <1>2 DEF RadioTypeOK
  <2> QED
    BY <1>2, <1>3, <1>4, <2>1, EndStep
<1>5. CASE ~end
  <2>1. PICK m : needed' = Announced(m, TRUE, needed)
    BY <1>2, <1>5
  <2>2. needed' \in SUBSET Announcements /\ needed \subseteq needed'
    BY <1>1, <2>1, AnnouncedFacts DEF RadioTypeOK
  <2>3. UNCHANGED <<repeaterId, busyId, yourCQ, restricted, g2, cache, users>>
    BY <1>2, <1>5 DEF g2
  <2> QED
    BY <1>2, <1>3, <1>5, <2>2, <2>3, FrameStep
<1> QED
  BY <1>4, <1>5

-------------------------------------------------------------------------------
(* A link operation that the network brings about only queues.              *)
LEMMA LinkChangeStep ==
  ASSUME IInv, NEW outcomes, LinkChange(outcomes)
  PROVE  ChannelStep
<1>1. cache' \in SUBSET Remote /\ users' \in SUBSET Users /\ UNCHANGED <<radio, g2>>
  BY DEF IInv, TypeOK, LinkChange
<1>2. PICK m \in outcomes : needed' = Announced(m, Held, needed)
  BY DEF LinkChange
<1> QED
  BY <1>1, <1>2, QueueStep

(* The answer of ircDDB settles the route that asks for it, and no other.   *)
LEMMA IrcRepeaterStep ==
  ASSUME IInv, IrcRepeater
  PROVE  ChannelStep
<1>1. RadioTypeOK
  BY TypeOKParts DEF IInv
<1>2. PICK r, found, m :
        /\ r \in Remote \ Reflectors /\ found \in BOOLEAN
        /\ IF Waited(r)
           THEN Route(IF found THEN "OK" ELSE "LOCAL", IF found THEN r ELSE NoCall, FALSE)
           ELSE UNCHANGED <<g2Status, g2Call, g2Header>>
        /\ needed' = Announced(m, Held, needed)
        /\ cache' = IF found THEN cache \cup {r} ELSE cache
        /\ UNCHANGED <<radio, xBandRptr, starNet, users>>
  BY DEF IrcRepeater
<1>3. cache' \in SUBSET Remote /\ users' \in SUBSET Users
  BY <1>1, <1>2 DEF RadioTypeOK
<1>4. CASE ~Waited(r)
  BY <1>2, <1>3, <1>4, QueueStep DEF g2
<1>5. CASE Waited(r)
  <2>1. Held
    BY <1>5 DEF IInv, RadioInv, NothingLeft, Waited
  <2>2. /\ needed' \in SUBSET Announcements /\ needed \subseteq needed'
    BY <1>1, <1>2, <2>1, AnnouncedFacts DEF RadioTypeOK
  <2>3. /\ g2Status' \in {"OK", "LOCAL"} /\ g2Header' = FALSE
        /\ g2Status' = "OK" => g2Call' = g2Call
        /\ g2Call' \in {r, NoCall}
    BY <1>2, <1>5 DEF Route, Waited
  <2>4. UNCHANGED <<repeaterId, busyId, watchdogTimer, yourCQ, restricted, xBandRptr, starNet,
                    users>>
    BY <1>2 DEF radio
  <2>5. RadioTypeOK'
    BY <1>1, <1>2, <1>3, <2>2, <2>3, <2>4 DEF RadioTypeOK, G2Statuses
  <2>6. RadioInv'
    BY <2>1, <2>3, <2>4
    DEF IInv, RadioInv, Exclusive, Guarded, RouteResources, NothingLeft, Held, Lookups
  <2>7. Channel!Settle
    <3>1. Owner # Channel!Idle /\ Owner' = Owner
      BY <2>1, <2>4, OwnerFacts DEF Owner
    <3>2. RouteNow.kind \in Lookups /\ RouteNow.call = g2Call
      BY <1>5 DEF RouteNow, Waited, Lookups
    <3>3. \/ RouteNow' = [kind |-> "OK", call |-> g2Call]
          \/ RouteNow' = [kind |-> "LOCAL", call |-> NoCall]
      BY <2>3 DEF RouteNow, Lookups
    <3> QED
      BY <2>2, <3>1, <3>2, <3>3 DEF Channel!Settle, Channel!Queued
  <2> QED
    BY <2>5, <2>6, <2>7 DEF ChannelStep, Channel!Next
<1> QED
  BY <1>4, <1>5

(* Nothing else the network does touches the channel.                       *)
LEMMA NetworkStep ==
  ASSUME IInv, Network
  PROVE  ChannelStep
<1>1. CASE IrcUser
  <2>1. RadioTypeOK
    BY TypeOKParts DEF IInv
  <2>2. /\ UNCHANGED <<radio, g2, needed, cache>>
        /\ users' \in SUBSET Users
    BY <1>1, <2>1 DEF IrcUser, RadioTypeOK
  <2> QED
    BY <2>1, <2>2
    DEF IInv, ChannelStep, RadioInv, Exclusive, Guarded, RouteResources, NothingLeft,
        Held, RadioTypeOK, Owner, RouteNow, g2, radio
<1>2. CASE IrcRepeater
  BY <1>2, IrcRepeaterStep
<1>3. CASE RemoteLinked \/ RemoteUnlinked \/ RemoteUnlinkedCcs
  BY <1>3, LinkChangeStep DEF RemoteLinked, RemoteUnlinked, RemoteUnlinkedCcs
<1>4. CASE LinkAcknowledged \/ LinkRefusal \/ LinkDisconnected \/ LinkUnlinked
  BY <1>4, LinkChangeStep
  DEF LinkAcknowledged, LinkRefusal, LinkDisconnected, LinkUnlinked
<1>5. CASE LinkDropped \/ LinkTimedOut
  BY <1>5, LinkChangeStep DEF LinkDropped, LinkTimedOut
<1>6. CASE CcsAnswers \/ CcsCall \/ CcsEnds \/ CcsFound \/ CcsUnknown \/ CcsSilent
  BY <1>6, LinkChangeStep DEF CcsAnswers, CcsCall, CcsEnds, CcsFound, CcsUnknown, CcsSilent
<1> QED
  BY <1>1, <1>2, <1>3, <1>4, <1>5, <1>6 DEF Network

-------------------------------------------------------------------------------
(* What ClockRuns leaves of the stream and its route, where the lookup left *)
(* the route at status, call and header, and over tells of the watchdog.    *)
ClockLeaves(over, n, status, call, header) ==
  /\ IF over /\ repeaterId # 0
     THEN EndRoute(status)
     ELSE /\ g2Status' = IF over /\ busyId # 0 THEN "NONE" ELSE status
          /\ g2Header' = header
          /\ UNCHANGED <<xBandRptr, starNet>>
  /\ g2Call' = call
  /\ repeaterId' = (IF over THEN 0 ELSE repeaterId)
  /\ busyId' = (IF over THEN 0 ELSE busyId)
  /\ needed' = IF over /\ Held THEN {} ELSE Announced(n, Held, needed)

(* The clock: it settles a lookup that waits too long, and ends a stream    *)
(* that is silent too long; when it does both, the stream ends.             *)
LEMMA ClockRunsStep ==
  ASSUME IInv, NEW l, ClockRuns(l), UNCHANGED <<yourCQ, restricted, cache, users>>
  PROVE  ChannelStep
<1> DEFINE watchdog == Tick(watchdogTimer, WatchdogTimeout)
           over     == HasExpired(watchdog, WatchdogTimeout)
<1>1. /\ RadioTypeOK /\ watchdogTimer \in 0..WatchdogTimeout
      /\ needed \in SUBSET Announcements /\ Held \in BOOLEAN
  BY TypeOKParts DEF IInv, RadioTypeOK, Held
<1>2. /\ watchdog \in 0..WatchdogTimeout
      /\ IsRunning(watchdog) <=> IsRunning(watchdogTimer)
      /\ over => IsRunning(watchdogTimer)
      /\ over \in BOOLEAN
  BY <1>1, TickFacts DEF HasExpired
<1> HIDE DEF watchdog, over
<1>3. /\ watchdogTimer' = (IF over THEN Stopped ELSE watchdog)
      /\ \E n, status, call, header :
           /\ \/ status = g2Status /\ call = g2Call /\ header = g2Header
              \/ g2Status \in Lookups /\ status = "LOCAL" /\ call = NoCall /\ header = FALSE
           /\ ClockLeaves(over, n, status, call, header)
  <2>1. PICK n, gaveUp :
          /\ gaveUp => g2Status \in Lookups
          /\ ClockLeaves(over, n, IF gaveUp THEN "LOCAL" ELSE g2Status,
                         IF gaveUp THEN NoCall ELSE g2Call, g2Header /\ ~gaveUp)
          /\ watchdogTimer' = (IF over THEN Stopped ELSE watchdog)
    BY DEF ClockRuns, ClockLeaves, over, watchdog
  <2>2. CASE gaveUp
    <3>1. ClockLeaves(over, n, "LOCAL", NoCall, FALSE)
      BY <2>1, <2>2 DEF ClockLeaves
    <3> QED
      BY <2>1, <2>2, <3>1
  <2>3. CASE ~gaveUp
    <3>1. ClockLeaves(over, n, g2Status, g2Call, g2Header)
      BY <1>1, <2>1, <2>3 DEF ClockLeaves, RadioTypeOK
    <3> QED
      BY <2>1, <3>1
  <2> QED
    BY <2>2, <2>3
<1>4. PICK n, status, call, header :
        /\ \/ status = g2Status /\ call = g2Call /\ header = g2Header
           \/ g2Status \in Lookups /\ status = "LOCAL" /\ call = NoCall /\ header = FALSE
        /\ ClockLeaves(over, n, status, call, header)
  BY <1>3
<1>5. CASE over
  <2>1. Held
    BY <1>2, <1>5 DEF IInv, RadioInv, Guarded
  <2>2. repeaterId' = 0 /\ busyId' = 0 /\ watchdogTimer' = Stopped /\ needed' = {}
    BY <1>3, <1>4, <1>5, <2>1 DEF ClockLeaves
  <2>3. g2Status' = "NONE"
    BY <1>4, <1>5, <2>1 DEF ClockLeaves, EndRoute, Held
  <2>4. g2Header' \in BOOLEAN /\ xBandRptr' \in BOOLEAN /\ starNet' \in BOOLEAN
    BY <1>1, <1>4 DEF ClockLeaves, RadioTypeOK, EndRoute, Pointers
  <2>5. g2Call' \in {g2Call, NoCall}
    BY <1>4 DEF ClockLeaves
  <2> QED
    BY <2>1, <2>2, <2>3, <2>4, <2>5, EndStep
<1>6. CASE ~over
  <2>1. /\ UNCHANGED <<repeaterId, busyId, xBandRptr, starNet>>
        /\ watchdogTimer' = watchdog
        /\ g2Status' = status
        /\ g2Header' = header /\ g2Call' = call
        /\ needed' = Announced(n, Held, needed)
    BY <1>3, <1>4, <1>6 DEF ClockLeaves
  <2>2. /\ needed' \in SUBSET Announcements
        /\ Held => needed \subseteq needed'
        /\ ~Held => needed' = {} /\ needed = {}
    BY <1>1, <2>1, AnnouncedFacts DEF IInv, RadioInv, NothingLeft
  <2>3. /\ status \in G2Statuses /\ g2Header' \in BOOLEAN
        /\ g2Call' \in Remote \cup Users \cup {NoCall}
    BY <1>1, <1>4, <2>1 DEF RadioTypeOK, G2Statuses
  <2>4. RadioTypeOK'
    BY <1>1, <1>2, <2>1, <2>2, <2>3 DEF RadioTypeOK
  <2>5. UNCHANGED <<Held, Owner>>
    BY <2>1 DEF Held, Owner
  <2>6. RadioInv'
    <3>1. Exclusive' /\ Guarded'
      BY <1>2, <2>1, <2>5 DEF IInv, RadioInv, Exclusive, Guarded
    <3>2. RouteResources'
      <4>1. CASE g2Status \in Lookups /\ status = "LOCAL"
        BY <2>1, <4>1 DEF RouteResources, Lookups
      <4>2. CASE status = g2Status /\ call = g2Call /\ header = g2Header
        BY <1>1, <1>3, <2>1, <4>2 DEF IInv, RadioInv, RouteResources, RadioTypeOK
      <4> QED
        BY <1>4, <4>1, <4>2
    <3>3. NothingLeft'
      BY <1>4, <2>1, <2>2, <2>5 DEF IInv, RadioInv, NothingLeft, Lookups
    <3> QED
      BY <3>1, <3>2, <3>3 DEF RadioInv
  <2>7. CASE g2Status \in Lookups /\ status = "LOCAL"
    <3>1. Held
      BY <1>3, <2>7 DEF IInv, RadioInv, NothingLeft, Lookups
    <3>2. Owner # Channel!Idle
      BY <3>1, OwnerFacts
    <3>3. /\ RouteNow.kind \in Lookups
          /\ RouteNow' = [kind |-> "LOCAL", call |-> NoCall]
      BY <1>3, <2>1, <2>7 DEF RouteNow, Lookups
    <3>4. Channel!Settle
      BY <2>2, <2>5, <3>1, <3>2, <3>3 DEF Channel!Settle, Channel!Queued
    <3> QED
      BY <2>4, <2>6, <3>4 DEF ChannelStep, Channel!Next
  <2>8. CASE status = g2Status /\ call = g2Call /\ header = g2Header
    <3>1. UNCHANGED RouteNow
      BY <1>3, <2>1, <2>8 DEF RouteNow
    <3>2. [Channel!Next]_<<Owner, RouteNow, needed>>
      <4>1. CASE Held
        <5>1. Channel!Queue
          BY <2>2, <2>5, <3>1, <4>1, OwnerFacts DEF Channel!Queue, Channel!Queued
        <5> QED
          BY <5>1 DEF Channel!Next
      <4>2. CASE ~Held
        BY <2>2, <2>5, <3>1, <4>2
      <4> QED
        BY <4>1, <4>2
    <3> QED
      BY <2>4, <2>6, <3>2 DEF ChannelStep
  <2> QED
    BY <1>4, <2>7, <2>8
<1> QED
  BY <1>5, <1>6

(* A clock that returns early only lets the watchdog tick.                  *)
LEMMA ClockReturnsStep ==
  ASSUME IInv, NEW l, ClockReturns(l), UNCHANGED <<yourCQ, restricted, cache, users>>
  PROVE  ChannelStep
<1>1. /\ RadioTypeOK /\ watchdogTimer \in 0..WatchdogTimeout
      /\ needed \in SUBSET Announcements /\ Held \in BOOLEAN
  BY TypeOKParts DEF IInv, RadioTypeOK, Held
<1>2. /\ watchdogTimer' \in 0..WatchdogTimeout
      /\ IsRunning(watchdogTimer') <=> IsRunning(watchdogTimer)
  BY <1>1, TickFacts DEF ClockReturns
<1>3. PICK m : needed' = Announced(m, Held, needed)
  BY DEF ClockReturns
<1>4. /\ needed' \in SUBSET Announcements
      /\ Held => needed \subseteq needed'
      /\ ~Held => needed' = {} /\ needed = {}
  BY <1>1, <1>3, AnnouncedFacts DEF IInv, RadioInv, NothingLeft
<1>5. UNCHANGED <<repeaterId, busyId, g2>>
  BY DEF ClockReturns
<1>6. UNCHANGED <<Held, Owner, RouteNow>>
  BY <1>5 DEF Held, Owner, RouteNow, g2
<1>7. RadioTypeOK'
  BY <1>1, <1>2, <1>4, <1>5 DEF RadioTypeOK, g2
<1>8. RadioInv'
  BY <1>2, <1>4, <1>5, <1>6
  DEF IInv, RadioInv, Exclusive, Guarded, RouteResources, NothingLeft, g2
<1>9. CASE Held
  <2>1. Channel!Queue
    BY <1>4, <1>6, <1>9, OwnerFacts DEF Channel!Queue, Channel!Queued
  <2> QED
    BY <1>7, <1>8, <2>1 DEF ChannelStep, Channel!Next
<1>10. CASE ~Held
  BY <1>4, <1>6, <1>7, <1>8, <1>10 DEF ChannelStep
<1> QED
  BY <1>9, <1>10

-------------------------------------------------------------------------------
(* Init has the invariant, the startup link included.                       *)
LEMMA InitInv == Init => IInv /\ Channel!Init
<1> SUFFICES ASSUME Init PROVE IInv /\ Channel!Init
  OBVIOUS
<1>1. RadioTypeOK
  <2>1. /\ repeaterId = 0 /\ busyId = 0 /\ watchdogTimer = 0
        /\ yourCQ = FALSE /\ restricted = FALSE
        /\ g2Status = "NONE" /\ g2Call = NoCall /\ g2Header = FALSE
        /\ xBandRptr = FALSE /\ starNet = FALSE
        /\ needed = {} /\ cache = Known /\ users = {}
    BY DEF Init, Stopped
  <2>2. /\ NoCall \in Remote \cup Users \cup {NoCall} /\ Known \in SUBSET Remote
        /\ 0 \in 0..WatchdogTimeout /\ {} \in SUBSET Announcements /\ {} \in SUBSET Users
        /\ 0 \in StreamIds \cup {0} /\ FALSE \in BOOLEAN /\ "NONE" \in G2Statuses
    BY CallsAssumption, WatchdogAssumption DEF G2Statuses
  <2> QED
    BY <2>1, <2>2, Zenon DEF RadioTypeOK
<1>2. RadioInv
  BY DEF Init, RadioInv, Exclusive, Guarded, RouteResources, NothingLeft, Held, IsRunning,
         Stopped, Lookups
<1>3. link \in LinkStates
  <2>1. PICK s \in Startups :
          \/ /\ s.arg # NoCall
             /\ link = [LinkTo(StartingLink(s), Known, s.arg) EXCEPT !.info = FALSE]
          \/ link = [StartingLink(s) EXCEPT !.info = FALSE]
    BY DEF Init
  <2>2. /\ s.mode \in Reconnect /\ s.arg \in Remote \cup {NoCall} /\ s.ccs \in BOOLEAN
    BY InputAssumption
  <2>3. StartingLink(s) \in LinkStates
    BY <2>2, TimeoutAssumption
    DEF StartingLink, LinkStates, LinkStatus, ReflectorStatus, CcsStatus, Calls, Started,
        Stopped
  <2>4. ASSUME s.arg # NoCall
        PROVE  LinkTo(StartingLink(s), Known, s.arg) \in LinkStates
    <3>1. s.arg \in Calls /\ Known \in SUBSET Remote
      BY <2>2, <2>4, CallsAssumption DEF Calls
    <3> QED
      BY <2>3, <3>1, LinkToType
  <2>5. ASSUME NEW m \in LinkStates
        PROVE  [m EXCEPT !.info = FALSE] \in LinkStates
    BY DEF LinkStates
  <2> QED
    BY <2>1, <2>3, <2>4, <2>5
<1>4. Channel!Init
  BY OwnerFacts DEF Init, Channel!Init, Held, RouteNow
<1> QED
  BY <1>1, <1>2, <1>3, <1>4, TypeOKParts DEF IInv

(* Every step keeps the invariant, and is one of RadioChannel's or none.    *)
LEMMA StepInv ==
  ASSUME IInv, [Next]_vars
  PROVE  IInv' /\ [Channel!Next]_<<Owner, RouteNow, needed>>
<1>1. CASE Radio
  <2>1. ChannelStep
    BY <1>1, RepeaterHeaderStep, RepeaterFrameStep, BusyHeaderStep, BusyFrameStep DEF Radio
  <2>2. link' \in LinkStates
    BY <1>1, RadioKeepsLink DEF IInv
  <2> QED
    BY <2>1, <2>2, TypeOKParts DEF IInv, ChannelStep, TypeOK, RadioTypeOK
<1>2. CASE Network
  <2>1. ChannelStep
    BY <1>2, NetworkStep
  <2>2. link' \in LinkStates
    BY <1>2, NetworkKeepsLink DEF IInv
  <2> QED
    BY <2>1, <2>2 DEF IInv, ChannelStep, TypeOK, RadioTypeOK
<1>3. CASE Clock
  <2>1. ChannelStep
    BY <1>3, ClockReturnsStep, ClockRunsStep DEF Clock
  <2>2. link' \in LinkStates
    BY <1>3, ClockKeepsLink DEF IInv
  <2> QED
    BY <2>1, <2>2 DEF IInv, ChannelStep, TypeOK, RadioTypeOK
<1>4. CASE UNCHANGED vars
  BY <1>4
  DEF vars, radio, g2, IInv, TypeOK, RadioInv, Exclusive, Guarded, RouteResources,
      NothingLeft, Held, Owner, RouteNow
<1> QED
  BY <1>1, <1>2, <1>3, <1>4 DEF Next

(* IInv is an invariant.                                                    *)
THEOREM Invariant == Spec => []IInv
<1>1. Init => IInv
  BY InitInv
<1>2. IInv /\ [Next]_vars => IInv'
  BY StepInv
<1> QED
  BY <1>1, <1>2, PTL DEF Spec

(* The variables of a repeater hold values of their types, the link record  *)
(* after every operation of the link handlers included.                     *)
THEOREM TypeCorrect == Spec => []TypeOK
<1>1. IInv => TypeOK
  BY DEF IInv
<1> QED
  BY <1>1, Invariant, PTL

(* An RF stream and relayed traffic are never handled at once.              *)
THEOREM StreamsExclude == Spec => []Exclusive
<1>1. IInv => Exclusive
  BY DEF IInv, RadioInv
<1> QED
  BY <1>1, Invariant, PTL

(* The watchdog runs exactly as long as there is a stream to watch.         *)
THEOREM StreamsGuarded == Spec => []Guarded
<1>1. IInv => Guarded
  BY DEF IInv, RadioInv
<1> QED
  BY <1>1, Invariant, PTL

(* A route has what its end, or the answer to its lookup, dereferences.     *)
THEOREM RoutesHaveResources == Spec => []RouteResources
<1>1. IInv => RouteResources
  BY DEF IInv, RadioInv
<1> QED
  BY <1>1, Invariant, PTL

(* No route and no announcement outlives its stream.                        *)
THEOREM NothingOutlives == Spec => []NothingLeft
<1>1. IInv => NothingLeft
  BY DEF IInv, RadioInv
<1> QED
  BY <1>1, Invariant, PTL

(* A repeater of the gateway implements RadioChannel, whatever the streams, *)
(* the users, the links and the servers around it.                          *)
THEOREM Implements == Spec => KeepsPromise
<1>1. Init => Channel!Init
  BY InitInv
<1>2. IInv /\ [Next]_vars => [Channel!Next]_<<Owner, RouteNow, needed>>
  BY StepInv
<1> QED
  BY <1>1, <1>2, Invariant, PTL DEF Spec, KeepsPromise, Channel!Spec
===============================================================================
