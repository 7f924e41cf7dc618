----------------------------- MODULE RepeaterHandler -----------------------------
(***************************************************************************)
(* One repeater of the gateway (CRepeaterHandler): the stream it is        *)
(* receiving, where that stream is routed, what is announced when it ends, *)
(* and its link (LinkCommands.tla).  The gateway runs one thread, whose    *)
(* loop gives each message that has arrived to its handler and then the    *)
(* clock; an action is one such call, with every call-back it makes.       *)
(*                                                                         *)
(* A stream is either RF, repeaterId # 0, or traffic the repeater itself   *)
(* relays and hands back, busyId # 0.  Abstracted: the audio and the       *)
(* statistics; the frames sent on (no state of this class); callsign       *)
(* formats, which YourCalls names by what the code makes of them; the      *)
(* number of units the announcements last.                                 *)
(***************************************************************************)
EXTENDS LinkCommands

CONSTANTS
  StreamIds,        \* the stream identifiers a repeater sends
  YourCalls,        \* what users put in the UR field: [kind, arg]
  DtmfCommands,     \* what they dial: [kind, arg]
  Restrictions,     \* the answers of the restriction list
  Users, HomeUsers, \* callsigns known to ircDDB; those last heard on this repeater
  RemoteLinks,      \* the link commands of the remote control: [mode, arg]
  Startups,         \* the startup configurations: [mode, arg, atStartup, ccs]
  WatchdogTimeout   \* ticks of m_watchdogTimer

Kinds == {"CQ", "ECHO", "INFO", "MSG", "WX", "VERSION", "STARNET",
          "CCS", "REPEATER", "USER", "LINK"}

ASSUME StreamAssumption == StreamIds \subseteq Nat \ {0}
ASSUME WatchdogAssumption == WatchdogTimeout \in Nat /\ WatchdogTimeout > 1
ASSUME InputAssumption ==
  /\ \A y \in YourCalls \cup DtmfCommands :
       /\ y.kind \in Kinds
       /\ y.kind = "LINK" => y.arg \in Remote \cup {Self, "unlink", "startup", "none"}
       /\ y.kind = "REPEATER" => y.arg \in Remote \cup {Self}
       /\ y.kind = "USER" => y.arg \in Users \cup Remote
  /\ RemoteLinks \subseteq [mode : Reconnect, arg : Remote \cup {NoCall}]
  /\ Startups \subseteq [mode : Reconnect, arg : Remote \cup {NoCall},
                        atStartup : BOOLEAN, ccs : BOOLEAN]
  /\ Restrictions \subseteq BOOLEAN /\ HomeUsers \subseteq Users

VARIABLES
  repeaterId, busyId, watchdogTimer,
  yourCQ,      \* m_yourCall is CQCQCQ
  restricted,
  g2Status,
  g2Call,      \* what is looked up or routed to: m_g2Repeater or m_g2User
  g2Header,    \* m_g2Header # NULL
  xBandRptr, starNet,  \* those pointers are not NULL
  needed,      \* the announcements to make at the end: m_infoNeeded...
  link,        \* the record of LinkControl.tla
  cache,       \* the repeaters the cache knows
  users        \* the users the cache knows

radio == <<repeaterId, busyId, watchdogTimer, yourCQ, restricted>>
g2    == <<g2Status, g2Call, g2Header, xBandRptr, starNet>>
vars  == <<radio, g2, needed, link, cache, users>>

Lookups       == {"USER", "REPEATER"}
G2Statuses    == {"NONE", "OK", "LOCAL", "STARNET", "VERSION", "XBAND", "ECHO"} \cup Lookups
Announcements == {"info", "msg", "wx"}

Held == repeaterId # 0 \/ busyId # 0

-------------------------------------------------------------------------------
\* A slip of Announced: the announcement is always queued.
AnnouncedLate(m, held, queue) == IF m.info THEN queue \cup {"info"} ELSE queue

(* Take the outcome m of a link operation; an announcement it triggers is   *)
(* queued while a stream is on the air and made at once otherwise.          *)
Announced(m, held, queue) ==
  CASE ~m.info -> queue
    [] m.info /\ held -> queue \cup {"info"}
    [] OTHER -> queue \ {"info"}

NoCommand == [kind |-> "NONE", arg |-> NoCall]

SetLink(m) == link' = [m EXCEPT !.info = FALSE]

LinkChange(outcomes) ==
  /\ \E m \in outcomes : SetLink(m) /\ needed' = Announced(m, Held, needed)
  /\ UNCHANGED <<radio, g2, cache, users>>

StartingLink(s) ==
  [status |-> "NONE", repeater |-> NoCall, relink |-> FALSE, last |-> NoCall,
   startup |-> s.arg, mode |-> s.mode, timed |-> s.mode = "TIMED",
   reconnect |-> IF s.mode = "TIMED" THEN Started ELSE Stopped, query |-> Stopped,
   out |-> {}, up |-> {}, closing |-> {},
   ccs |-> IF s.ccs THEN "CONNECTING" ELSE "DISABLED", dir |-> "OUTGOING",
   mapped |-> FALSE, asked |-> FALSE, info |-> FALSE]

Init ==
  /\ repeaterId = 0 /\ busyId = 0 /\ watchdogTimer = Stopped
  /\ yourCQ = FALSE /\ restricted = FALSE
  /\ g2Status = "NONE" /\ g2Call = NoCall /\ g2Header = FALSE
  /\ xBandRptr = FALSE /\ starNet = FALSE
  /\ needed = {} /\ cache = Known /\ users = {}
  /\ \E s \in Startups :
       LET l == StartingLink(s)
       IN link = [(IF s.atStartup /\ s.arg # NoCall THEN LinkTo(l, Known, s.arg) ELSE l)
                    EXCEPT !.info = FALSE]

-------------------------------------------------------------------------------
\* Slips of NewStream: the relayed traffic stays, or the watchdog is not started.
NewStreamStillBusy(id, y, r) ==
  /\ repeaterId' = id /\ watchdogTimer' = Started
  /\ yourCQ' = (y.kind = "CQ") /\ restricted' = r
  /\ UNCHANGED <<busyId, cache, users>>
NewStreamUnwatched(id, y, r) ==
  /\ repeaterId' = id /\ busyId' = 0
  /\ yourCQ' = (y.kind = "CQ") /\ restricted' = r
  /\ UNCHANGED <<watchdogTimer, cache, users>>

(* An RF header.  A new one ends whatever the last stream was waiting for,  *)
(* and every one restarts the reconnect timer.                              *)
NewStream(id, y, r) ==
  /\ repeaterId' = id /\ busyId' = 0 /\ watchdogTimer' = Started
  /\ yourCQ' = (y.kind = "CQ") /\ restricted' = r
  /\ UNCHANGED <<cache, users>>

HeaderLink ==
  [StartReconnect(link) EXCEPT !.query = IF g2Status \in Lookups THEN Stopped ELSE @]

Route(status, call, header) ==
  g2Status' = status /\ g2Call' = call /\ g2Header' = header

Pointers(xBand, star) == xBandRptr' = xBand /\ starNet' = star

\* flag1 = 0x01: only the callsigns are kept
BusyMessage(y) ==
  /\ yourCQ' = (y.kind = "CQ")
  /\ UNCHANGED <<repeaterId, busyId, watchdogTimer, restricted, g2, needed, link, cache, users>>

\* RPT2 names no gateway: nothing, another repeater of this gateway, or neither
DirectHeader(id, y, r) ==
  /\ NewStream(id, y, r)
  /\ \E status \in {"NONE", "XBAND", "LOCAL"} :
       Route(status, NoCall, FALSE) /\ Pointers(status = "XBAND", FALSE)
  /\ SetLink(HeaderLink) /\ UNCHANGED needed

StarNetHeader(id, y, r) ==
  /\ y.kind = "STARNET" /\ NewStream(id, y, r)
  /\ Route(IF r THEN "NONE" ELSE "STARNET", NoCall, FALSE) /\ Pointers(FALSE, TRUE)
  /\ SetLink(HeaderLink) /\ UNCHANGED needed

PlainRoute == [CQ |-> "NONE", ECHO |-> "ECHO", INFO |-> "LOCAL", MSG |-> "LOCAL",
               WX |-> "LOCAL", VERSION |-> "VERSION"]
Asks == [INFO |-> "info", MSG |-> "msg", WX |-> "wx"]

PlainHeader(id, y, r) ==
  /\ y.kind \in DOMAIN PlainRoute /\ NewStream(id, y, r)
  /\ Route(PlainRoute[y.kind], NoCall, FALSE) /\ Pointers(FALSE, FALSE)
  /\ needed' = needed \cup {Asks[a] : a \in {y.kind} \cap DOMAIN Asks}
  /\ SetLink(HeaderLink)

IsCommand(y) == y.kind \in {"CCS", "LINK", "REPEATER", "USER"}

RestrictedHeader(id, y) ==
  /\ IsCommand(y) /\ NewStream(id, y, TRUE)
  /\ Route("NONE", NoCall, FALSE) /\ Pointers(FALSE, FALSE)
  /\ SetLink(HeaderLink) /\ UNCHANGED needed

\* what a command does to the link; anything that is no command counts as "none"
AirCommand(l, y) ==
  IF y.kind = "CCS" THEN CcsCommand(l, cache, y.arg)
  ELSE ReflectorCommand(l, cache, IF y.kind = "LINK" THEN y.arg ELSE "none")

\* A slip of RouteRequest: a link command is routed too.
RouteRequestAny(y) == link.status \notin CcsStatus

RouteRequest(y) == y.kind \in {"REPEATER", "USER"} /\ link.status \notin CcsStatus

CommandHeader(id, y) ==
  /\ IsCommand(y) /\ ~RouteRequest(y) /\ NewStream(id, y, FALSE)
  /\ Route("NONE", NoCall, FALSE) /\ Pointers(FALSE, FALSE)
  /\ \E m \in AirCommand(HeaderLink, y) :
       SetLink(m) /\ needed' = Announced(m, TRUE, needed)

(* g2CommandHandler: route to a repeater, or to wherever a user was heard   *)
(* last, at once if the cache knows, after asking ircDDB if it does not.    *)
StaysLocal(y) ==
  \/ ~IrcEnabled \/ y.arg \in Reflectors
  \/ y.kind = "REPEATER" /\ y.arg = Self
  \/ y.kind = "USER" /\ y.arg \in users \cap HomeUsers

Cached(y) == y.arg \in IF y.kind = "REPEATER" THEN cache ELSE users

RouteHeader(id, y) ==
  /\ RouteRequest(y) /\ NewStream(id, y, FALSE) /\ Pointers(FALSE, FALSE)
  /\ \/ /\ StaysLocal(y)
        /\ Route("LOCAL", NoCall, FALSE) /\ SetLink(HeaderLink)
     \/ /\ ~StaysLocal(y) /\ Cached(y)
        /\ Route("OK", y.arg, FALSE) /\ SetLink(HeaderLink)
     \/ /\ ~StaysLocal(y) /\ ~Cached(y)
        /\ Route(y.kind, y.arg, TRUE) /\ SetLink([HeaderLink EXCEPT !.query = Started])
  /\ UNCHANGED needed

RepeaterHeader ==
  \E y \in YourCalls, id \in StreamIds \ {repeaterId}, r \in Restrictions :
    \/ BusyMessage(y)
    \/ DirectHeader(id, y, r)
    \/ StarNetHeader(id, y, r)
    \/ PlainHeader(id, y, r)
    \/ r /\ RestrictedHeader(id, y)
    \/ ~r /\ CommandHeader(id, y)
    \/ ~r /\ RouteHeader(id, y)

-------------------------------------------------------------------------------
\* A slip of EndRoute: the route's resources go, the route stays.
EndRouteStale(status) ==
  /\ g2Status' = g2Status
  /\ g2Header' = (g2Header /\ status \notin Lookups)
  /\ Pointers(xBandRptr /\ status # "XBAND", starNet /\ status # "STARNET")

(* The end of the RF stream, where the route stood at status: it is given   *)
(* up, with what it holds.                                                  *)
EndRoute(status) ==
  /\ g2Status' = "NONE"
  /\ g2Header' = (g2Header /\ status \notin Lookups)
  /\ Pointers(xBandRptr /\ status # "XBAND", starNet /\ status # "STARNET")

EndLookup(l, status) == IF status \in Lookups THEN [l EXCEPT !.query = Stopped] ELSE l

(* A dialled command is obeyed when the UR field is CQCQCQ. *)
Obeyed(y) == y # NoCommand /\ yourCQ /\ ~restricted

Dialled(l, y) == IF Obeyed(y) /\ y.kind # "INFO" THEN AirCommand(l, y) ELSE {l}

(* A frame of the RF stream, on which the dialled command y is complete. *)
RepeaterFrame ==
  \E y \in DtmfCommands \cup {NoCommand}, end \in BOOLEAN :
    /\ repeaterId # 0
    /\ y # NoCommand => g2Status # "XBAND"
    /\ \E m \in Dialled(StartReconnect(link), y) :
         \/ /\ end /\ EndRoute(g2Status) /\ SetLink(EndLookup(m, g2Status))
            /\ repeaterId' = 0 /\ watchdogTimer' = Stopped /\ needed' = {}
         \/ /\ ~end /\ SetLink(m) /\ watchdogTimer' = Started
            /\ needed' = Announced(m, TRUE, needed) \cup
                           {a \in {"info"} : Obeyed(y) /\ y.kind = "INFO"}
            /\ UNCHANGED <<repeaterId, g2Status, g2Header, xBandRptr, starNet>>
    /\ UNCHANGED <<busyId, yourCQ, restricted, g2Call, cache, users>>

-------------------------------------------------------------------------------
(* Traffic the repeater relays: its header may carry a command.  The RF     *)
(* stream, if there is one, is over, but its route is left as it is.        *)
BusyHeader ==
  \E y \in YourCalls, id \in StreamIds \ {busyId}, r \in Restrictions :
    /\ busyId' = id /\ repeaterId' = 0 /\ watchdogTimer' = Started
    /\ yourCQ' = (y.kind = "CQ") /\ restricted' = r
    /\ \E m \in IF r \/ y.kind \in {"CQ", "ECHO", "INFO"} THEN {link} ELSE AirCommand(link, y) :
         SetLink(m) /\ needed' = Announced(m, TRUE, needed)
    /\ UNCHANGED <<g2, cache, users>>

BusyFrame ==
  \E y \in DtmfCommands \cup {NoCommand}, end \in BOOLEAN :
    /\ busyId # 0
    /\ \E m \in Dialled(link, y) :
         /\ SetLink(m)
         /\ needed' = IF end THEN {} ELSE Announced(m, TRUE, needed)
    /\ IF end THEN busyId' = 0 /\ watchdogTimer' = Stopped /\ g2Status' = "NONE"
       ELSE watchdogTimer' = Started /\ UNCHANGED <<busyId, g2Status>>
    /\ UNCHANGED <<repeaterId, yourCQ, restricted, g2Call, g2Header, xBandRptr, starNet,
                   cache, users>>

-------------------------------------------------------------------------------
(* What ircDDB sends.  A user only goes to the cache: resolveUser, which    *)
(* would route the stream that waits for it, has no caller.                 *)
IrcUser ==
  /\ IrcEnabled
  /\ \E u \in Users : users' = users \cup {u}
  /\ UNCHANGED <<radio, g2, needed, link, cache>>

\* A slip of Waited: a stream that has its route takes a second answer.
WaitedAgain(r) == g2Status \in {"OK", "REPEATER"} /\ g2Call = r

Waited(r) == g2Status = "REPEATER" /\ g2Call = r

IrcRepeater ==
  /\ IrcEnabled
  /\ \E r \in Remote \ Reflectors, found \in BOOLEAN :
       LET l == IF Waited(r) THEN [link EXCEPT !.query = Stopped] ELSE link
           m == ResolveLink(l, r, found)
       IN /\ IF Waited(r)
             THEN Route(IF found THEN "OK" ELSE "LOCAL", IF found THEN r ELSE NoCall, FALSE)
             ELSE UNCHANGED <<g2Status, g2Call, g2Header>>
          /\ SetLink(m) /\ needed' = Announced(m, Held, needed)
          /\ cache' = IF found THEN cache \cup {r} ELSE cache
  /\ UNCHANGED <<radio, xBandRptr, starNet, users>>

(* The remote control. *)
RemoteLinked   == \E c \in RemoteLinks : LinkChange(RemoteLink(link, cache, c.mode, c.arg))
RemoteUnlinked == \E r \in Remote \cap {c.arg : c \in RemoteLinks} :
                    LinkChange(RemoteUnlink(link, cache, r))
RemoteUnlinkedCcs == RemoteLinks # {} /\ LinkChange({StopLink(link, cache)})

(* The far end of a link, or its silence. *)
LinkAcknowledged  == \E o \in link.out \ link.up : LinkChange({ObjectUp(link, o)})
LinkRefusal       == \E o \in link.out \ link.up : LinkChange({ObjectRefused(link, o)})
LinkDisconnected  == \E o \in link.up :
                       Proto[o] # "DPLUS" /\ LinkChange({ObjectFailed(link, cache, o)})
\* the object goes without a word to the repeater
LinkDropped ==
  \/ \E o \in link.out \ link.up : LinkChange({Drop(link, {o})})
  \/ \E o \in link.up : Proto[o] = "DPLUS" /\ LinkChange({Drop(link, {o})})
  \/ \E o \in link.closing : LinkChange({Forget(link, o)})
LinkTimedOut ==
  \/ \E o \in link.out : LinkChange({ObjectTimedOut(link, Drop(link, {o}), o)})
  \/ \E o \in link.closing : LinkChange({ObjectTimedOut(link, Forget(link, o), o)})
LinkUnlinked == \E o \in link.closing : LinkChange({UnlinkAcknowledged(link, cache, o)})

(* The CCS server. *)
CcsAnswers == /\ link.ccs = "CONNECTING"
              /\ \E ack \in BOOLEAN : LinkChange({ServerAnswers(link, ack)})
CcsCall    == link.ccs = "CONNECTED" /\ LinkChange(IncomingCall(link, cache))
CcsEnds    == link.ccs = "ACTIVE" /\ LinkChange({StopLink(link, cache)})
CcsFound   == link.asked /\ link.ccs # "DISABLED" /\ LinkChange(DtmfFound(link, cache))
CcsUnknown == link.asked /\ link.ccs # "DISABLED" /\ LinkChange({DtmfNotFound(link, cache)})
CcsSilent  == link.ccs \in {"CONNECTED", "ACTIVE"} /\ LinkChange({PollInactivity(link, cache)})

-------------------------------------------------------------------------------
(* clockInt: the three timers tick and are looked at in this order.         *)
Ticked(l) == [l EXCEPT !.query = Tick(@, QueryTimeout),
                       !.reconnect = Tick(@, ReconnectTimeout)]

MustReconnect(l) == HasExpired(l.reconnect, ReconnectTimeout)

(* The change of port returns before the query and watchdog timers. *)
ClockReturns(l) ==
  /\ MustReconnect(l) /\ ChangeOfPort(l)
  /\ \E m \in ReconnectExpired(l, cache) : SetLink(m) /\ needed' = Announced(m, Held, needed)
  /\ watchdogTimer' = Tick(watchdogTimer, WatchdogTimeout)
  /\ UNCHANGED <<repeaterId, busyId, g2>>

ClockRuns(l) ==
  /\ ~(MustReconnect(l) /\ ChangeOfPort(l))
  /\ \E m \in IF MustReconnect(l) THEN ReconnectExpired(l, cache) ELSE {l} :
       LET silent   == HasExpired(m.query, QueryTimeout)
           gaveUp   == silent /\ g2Status \in Lookups
           status   == IF gaveUp THEN "LOCAL" ELSE g2Status
           n        == CASE ~silent -> m
                         [] gaveUp  -> [m EXCEPT !.query = Stopped]
                         [] OTHER   -> LinkQueryExpired(m, cache)
           watchdog == Tick(watchdogTimer, WatchdogTimeout)
           over     == HasExpired(watchdog, WatchdogTimeout)
       IN /\ IF over /\ repeaterId # 0
             THEN EndRoute(status) /\ SetLink(EndLookup(n, status))
             ELSE /\ g2Status' = IF over /\ busyId # 0 THEN "NONE" ELSE status
                  /\ g2Header' = (g2Header /\ ~gaveUp)
                  /\ SetLink(n) /\ UNCHANGED <<xBandRptr, starNet>>
          /\ g2Call' = IF gaveUp THEN NoCall ELSE g2Call
          /\ watchdogTimer' = IF over THEN Stopped ELSE watchdog
          /\ repeaterId' = IF over THEN 0 ELSE repeaterId
          /\ busyId' = IF over THEN 0 ELSE busyId
          /\ needed' = IF over /\ Held THEN {} ELSE Announced(n, Held, needed)

Clock ==
  /\ ClockReturns(Ticked(link)) \/ ClockRuns(Ticked(link))
  /\ UNCHANGED <<yourCQ, restricted, cache, users>>

-------------------------------------------------------------------------------
Radio   == RepeaterHeader \/ RepeaterFrame \/ BusyHeader \/ BusyFrame
Network == \/ IrcUser \/ IrcRepeater \/ RemoteLinked \/ RemoteUnlinked \/ RemoteUnlinkedCcs
           \/ LinkAcknowledged \/ LinkRefusal \/ LinkDisconnected \/ LinkDropped
           \/ LinkTimedOut \/ LinkUnlinked
           \/ CcsAnswers \/ CcsCall \/ CcsEnds \/ CcsFound \/ CcsUnknown \/ CcsSilent

Next == Radio \/ Network \/ Clock

(* The thread's loop always comes round to the clock; nothing makes a user, *)
(* a server or a network act.                                               *)
Spec == Init /\ [][Next]_vars /\ WF_vars(Clock)

-------------------------------------------------------------------------------
(* The variables hold values of their types. *)
TypeOK ==
  /\ repeaterId \in StreamIds \cup {0} /\ busyId \in StreamIds \cup {0}
  /\ watchdogTimer \in 0..WatchdogTimeout
  /\ yourCQ \in BOOLEAN /\ restricted \in BOOLEAN
  /\ g2Status \in G2Statuses /\ g2Header \in BOOLEAN
  /\ g2Call \in Remote \cup Users \cup {NoCall}
  /\ xBandRptr \in BOOLEAN /\ starNet \in BOOLEAN
  /\ needed \subseteq Announcements
  /\ link \in LinkStates /\ cache \subseteq Remote /\ users \subseteq Users

(* A repeater handles an RF stream or relayed traffic, never both. *)
Exclusive == repeaterId = 0 \/ busyId = 0

(* A stream is watched, so that one whose end is lost is given up, and the  *)
(* watchdog never runs, to cut the next one short, when there is none.      *)
Guarded == Held <=> IsRunning(watchdogTimer)

(* The answer of ircDDB and the end of a stream dereference what the route  *)
(* needs: the saved header of a lookup, the other repeater, the StarNet.    *)
RouteResources ==
  /\ g2Status \in Lookups => g2Header
  /\ g2Status = "XBAND" => xBandRptr
  /\ g2Status = "STARNET" => starNet

(* No route and no queued announcement outlives the stream it belongs to.   *)
NothingLeft == ~Held => g2Status = "NONE" /\ needed = {}

RadioInv == Exclusive /\ Guarded /\ RouteResources /\ NothingLeft

(* The abstract channel this repeater implements. *)
Owner == CASE repeaterId # 0 -> [by |-> "rf", stream |-> repeaterId]
           [] repeaterId = 0 /\ busyId # 0 -> [by |-> "busy", stream |-> busyId]
           [] OTHER -> [by |-> "idle"]
RouteNow == [kind |-> g2Status,
             call |-> IF g2Status \in Lookups \cup {"OK"} THEN g2Call ELSE NoCall]

Channel == INSTANCE RadioChannel WITH
  Streams <- StreamIds, Settled <- G2Statuses \ (Lookups \cup {"NONE"}), Asking <- Lookups,
  Answered <- "OK", Unanswered <- "LOCAL", NoRoute <- "NONE",
  Callsign <- Remote \cup Users \cup {NoCall}, NoCallsign <- NoCall,
  Queueable <- Announcements, owner <- Owner, route <- RouteNow, queue <- needed

(* One stream at a time; only the header of another stream, or the one      *)
(* answer to its lookup, routes it; its announcements are made at its end   *)
(* (processRepeater, processBusy, resolveRepeaterInt and clockInt together  *)
(* implement RadioChannel.tla).                                             *)
KeepsPromise == Channel!Spec

(* When the radio falls silent, the stream it left is given up for good,    *)
(* whatever the network does (the watchdog of clockInt).                    *)
Released == <>[][~Radio]_vars => <>[](~Held)

===============================================================================
