------------------------------ MODULE LinkControl ------------------------------
(***************************************************************************)
(* How a repeater of the gateway decides what it is linked to: the link    *)
(* half of CRepeaterHandler (linkInt, linkUp, linkFailed, linkRefused,     *)
(* suspendLinks, restoreLinks) together with what it does to the link      *)
(* objects of CDExtraHandler, CDPlusHandler and CDCSHandler.               *)
(*                                                                         *)
(* The callbacks between a repeater and the protocol handlers are          *)
(* synchronous and re-entrant, so an operation is a function from a link   *)
(* record to a record, or to the set of records it may leave;              *)
(* RepeaterHandler.tla holds the record in a variable.  Abstracted:        *)
(*   - LS_LINKING_x and LS_LINKED_x, x a reflector protocol, are LINKING   *)
(*     and LINKED; x is the protocol of the remote end;                    *)
(*   - the outgoing link objects of this repeater are the set out of the   *)
(*     remotes they lead to, up those of them in the LINKED state and      *)
(*     closing those in the UNLINKING state (two objects for one remote    *)
(*     are not told apart, and a slot of the table is always free).        *)
(***************************************************************************)
EXTENDS CTimer

CONSTANTS
  Remote,        \* callsigns (with module letter) a repeater can link to
  Reflectors,    \* those named REF, XRF or DCS
  Proto,         \* the protocol of each
  Known,         \* those in the repeater cache at start, from the hosts files
  Disabled,      \* those whose protocol this gateway has switched off
  Base,          \* the callsign without its module letter
  Self,          \* m_rptCallsign of this repeater
  CcsPeer,       \* what m_linkRepeater holds during a CCS link
  NoCall,        \* the empty callsign
  IrcEnabled,    \* m_irc # NULL
  QueryTimeout,     \* ticks of m_queryTimer
  ReconnectTimeout  \* ticks of m_linkReconnectTimer, when it has a timeout

Protocols == {"DEXTRA", "DPLUS", "DCS"}

ASSUME CallsAssumption ==
  /\ Reflectors \subseteq Remote /\ Disabled \subseteq Remote /\ Known \subseteq Remote
  /\ {Self, CcsPeer, NoCall} \cap Remote = {}
  /\ Self # CcsPeer /\ Self # NoCall /\ CcsPeer # NoCall
  /\ Proto \in [Remote -> Protocols]
  /\ \A r, s \in Remote : Base[r] = Base[s] => Proto[r] = Proto[s]
  \* ircDDB answers are entered in the cache as DExtra
  /\ \A r \in Remote \ Known : Proto[r] = "DEXTRA"

ASSUME TimeoutAssumption ==
  /\ QueryTimeout \in Nat /\ QueryTimeout > 1
  /\ ReconnectTimeout \in Nat /\ ReconnectTimeout > 1
ASSUME IrcAssumption == IrcEnabled \in BOOLEAN

Calls == Remote \cup {NoCall, CcsPeer}

CcsStatus       == {"LINKING_CCS", "LINKED_CCS"}
ReflectorStatus == {"LINKING", "LINKED"}
LinkStatus      == {"NONE", "PENDING"} \cup ReflectorStatus \cup CcsStatus
Reconnect       == {"FIXED", "NEVER", "TIMED"}

LinkStates ==
  [status : LinkStatus, repeater : Calls, relink : BOOLEAN, last : Calls,
   startup : Remote \cup {NoCall}, mode : Reconnect, timed : BOOLEAN,
   reconnect : 0..ReconnectTimeout, query : 0..QueryTimeout,
   out : SUBSET Remote, up : SUBSET Remote, closing : SUBSET Remote,
   ccs : {"DISABLED", "CONNECTING", "CONNECTED", "ACTIVE"},
   dir : {"INCOMING", "OUTGOING"}, mapped : BOOLEAN, asked : BOOLEAN,
   info : BOOLEAN]

-------------------------------------------------------------------------------
\* triggerInfo: the announcement is sent, or queued, by RepeaterHandler.tla
Inform(l) == [l EXCEPT !.info = TRUE]

NotLinked(l) == [l EXCEPT !.status = "NONE", !.repeater = NoCall]

StartReconnect(l) == IF l.timed THEN [l EXCEPT !.reconnect = Started] ELSE l

SameBase(a, b) == a \in Remote /\ b \in Remote /\ Base[a] = Base[b]

\* The link() of the three handlers: DCS silently refuses a second outgoing link.
AddObject(out, r) ==
  IF Proto[r] = "DCS" /\ \E o \in out : Proto[o] = "DCS" THEN out ELSE out \cup {r}

Drop(l, gone) == [l EXCEPT !.out = @ \ gone, !.up = @ \ gone]

(* Link to r, k being the callsigns the cache knows. *)
LinkTo(l, k, r) ==
  LET m == Inform([l EXCEPT !.repeater = r]) IN
  IF r \in k /\ r \notin Disabled THEN [m EXCEPT !.status = "LINKING", !.out = AddObject(@, r)]
  ELSE IF r \notin k /\ IrcEnabled THEN [m EXCEPT !.status = "PENDING", !.query = Started]
  ELSE [m EXCEPT !.status = "NONE"]

\* an unknown reflector is not even asked for
LinkInt(l, k, r) ==
  IF r \in Reflectors \ k THEN Inform(l) ELSE LinkTo(l, k, r)

LinkUp(l, o) ==
  IF l.status = "LINKING" /\ Proto[l.repeater] = Proto[o]
  THEN Inform([l EXCEPT !.status = "LINKED"]) ELSE l

(* linkFailed with isRecoverable false, for the object that led to o. *)
LinkFailed(l, k, o) ==
  IF l.relink THEN LinkInt([l EXCEPT !.relink = FALSE], k, l.repeater)
  ELSE IF l.status = "NONE" \/ l.repeater # o THEN l
  ELSE Inform(NotLinked(l))

LinkRefused(l, o) == IF l.repeater = o THEN Inform(NotLinked(l)) ELSE l

-------------------------------------------------------------------------------
(* unlink() of the links but those in kept.  A D-Plus or a DCS object       *)
(* stays, in the UNLINKING state, until the far end acknowledges.           *)
Unlink(l, protocol, kept) ==
  LET gone == {o \in l.out \ kept : Proto[o] = protocol}
  IN [Drop(l, gone) EXCEPT !.closing = @ \cup gone]

(* A DExtra object calls linkFailed and is deleted on the spot.  When that  *)
(* call relinks, the new object enters the table the loop is walking, and   *)
(* is removed in its turn if its slot lies ahead.                           *)
UnlinkDExtra(l, k, kept) ==
  LET gone     == {o \in l.out \ kept : Proto[o] = "DEXTRA"}
      m        == Drop(l, gone)
      relinked == LinkFailed(m, k, l.repeater)
      met      == LinkFailed(Drop(relinked, {l.repeater}), k, l.repeater)
  IN CASE gone = {} -> {l}
       [] gone # {} /\ ~l.relink -> {IF l.repeater \in gone THEN relinked ELSE m}
       [] OTHER -> {relinked} \cup
                   {x \in {met} : /\ l.repeater \in relinked.out \ kept
                                  /\ Proto[l.repeater] = "DEXTRA"}

\* A slip of UnlinkAll: the DExtra links stay.
UnlinkReflectors(l, k) == {Unlink(Unlink(l, "DPLUS", {}), "DCS", {})}

UnlinkAll(l, k) ==
  {Unlink(Unlink(m, "DPLUS", {}), "DCS", {}) : m \in UnlinkDExtra(l, k, {})}

(* CDPlusHandler::relink renames the first outgoing object of the table,    *)
(* whatever its state; without one it does nothing.                         *)
Renamed(s, o, r) == IF o \in s THEN (s \ {o}) \cup {r} ELSE s

Relink(l, r) ==
  LET mine(s) == {o \in s : Proto[o] = "DPLUS"} IN
  IF mine(l.out \cup l.closing) = {} THEN {l}
  ELSE {[l EXCEPT !.out = Renamed(@, o, r), !.up = Renamed(@, o, r)] : o \in mine(l.out)}
       \cup {[l EXCEPT !.closing = Renamed(@, o, r)] : o \in mine(l.closing)}

(* "Just a change of port": l is linked, or linking, to another module of r. *)
ChangeModule(l, k, r) ==
  LET m == [l EXCEPT !.repeater = r]
      n == [m EXCEPT !.relink = TRUE]
  IN CASE l.status \notin ReflectorStatus -> {l}
       [] l.status \in ReflectorStatus /\ Proto[r] = "DPLUS" ->
            {Inform(x) : x \in Relink(m, r)}
       [] l.status \in ReflectorStatus /\ Proto[r] = "DCS" ->
            {Inform([Unlink(n, "DCS", {r}) EXCEPT !.status = "LINKING"])}
       [] OTHER -> {Inform([x EXCEPT !.status = "LINKING"]) : x \in UnlinkDExtra(n, k, {r})}

\* A slip of SuspendLinks: the DExtra links stay.
SuspendReflectors(l, k) ==
  LET m == [l EXCEPT !.last = IF l.status \in ReflectorStatus THEN l.repeater ELSE @]
  IN {[NotLinked(Unlink(Unlink(m, "DPLUS", {}), "DCS", {})) EXCEPT !.reconnect = Stopped]}

\* A slip of SuspendLinks: the link of a call that is being set up is taken for one.
SuspendAnyLink(l, k) ==
  LET m == [l EXCEPT !.last = IF l.status # "NONE" THEN l.repeater ELSE @]
  IN {[NotLinked(Unlink(x, "DCS", {})) EXCEPT !.reconnect = Stopped] :
        x \in UnlinkDExtra(Unlink(m, "DPLUS", {}), k, {})}

SuspendLinks(l, k) ==
  LET m == [l EXCEPT !.last = IF l.status \in ReflectorStatus THEN l.repeater ELSE @]
  IN {[NotLinked(Unlink(x, "DCS", {})) EXCEPT !.reconnect = Stopped] :
        x \in UnlinkDExtra(Unlink(m, "DPLUS", {}), k, {})}

\* A slip of RestoreLinks: with no reconnect time, nothing is restored.
RestoreSomeLinks(l, k) ==
  LET m == IF l.mode = "TIMED" THEN StartReconnect(l) ELSE l
      r == IF l.mode = "FIXED" THEN l.startup ELSE l.last
  IN IF l.last = NoCall \/ l.mode = "NEVER" THEN [m EXCEPT !.last = NoCall]
     ELSE [LinkInt(m, k, r) EXCEPT !.last = NoCall]

RestoreLinks(l, k) ==
  LET m == IF l.mode = "TIMED" THEN StartReconnect(l) ELSE l
      r == IF l.mode = "FIXED" THEN l.startup ELSE l.last
  IN IF l.last = NoCall THEN m
     ELSE [LinkInt(m, k, r) EXCEPT !.last = NoCall]

-------------------------------------------------------------------------------
(* What the link objects report.  The object goes after it has called the   *)
(* repeater, which a DCS relink notices: link() finds it still there.       *)
ObjectUp(l, o) == [LinkUp(l, o) EXCEPT !.up = @ \cup {o}]

\* a NAK while LINKING
ObjectRefused(l, o) == Drop(LinkRefused(l, o), {o})

\* a disconnect while LINKED
ObjectFailed(l, k, o) ==
  IF Proto[o] = "DCS" THEN Drop(LinkFailed(l, k, o), {o}) ELSE LinkFailed(Drop(l, {o}), k, o)

\* Slips of ObjectTimedOut: the repeater is not told that it is linking again, or
\* it does not see that it has linked to something else in the meantime.
ObjectTimedOutQuietly(l, rest, o) ==
  IF l.status \in ReflectorStatus /\ l.repeater = o
  THEN [rest EXCEPT !.out = @ \cup {o}] ELSE rest
ObjectTimedOutAnyway(l, rest, o) ==
  IF l.status \in ReflectorStatus
  THEN [rest EXCEPT !.status = "LINKING", !.out = @ \cup {o}, !.info = TRUE] ELSE rest

\* no poll: linkFailed with isRecoverable true answers whether to keep the object;
\* rest is l without it
ObjectTimedOut(l, rest, o) ==
  IF l.status \in ReflectorStatus /\ l.repeater = o
  THEN [rest EXCEPT !.status = "LINKING", !.out = @ \cup {o},
                    !.info = @ \/ l.status = "LINKED"]
  ELSE rest

Forget(l, o) == [l EXCEPT !.closing = @ \ {o}]

\* the far end acknowledges an unlink
UnlinkAcknowledged(l, k, o) == LinkFailed(Forget(l, o), k, o)
===============================================================================
