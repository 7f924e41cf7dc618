------------------------------ MODULE LinkCommands ------------------------------
(***************************************************************************)
(* Everything that asks a repeater to change its link: the commands heard  *)
(* on the air (reflectorCommandHandler, ccsCommandHandler), those of the   *)
(* remote control (link, unlink), the answer of ircDDB                     *)
(* (resolveRepeaterInt) and the two timers of clockInt, each a function    *)
(* from a link record to the records it may leave.                         *)
(***************************************************************************)
EXTENDS CCSHandler

Fixed(l) == l.mode = "FIXED"

\* A slip of Ignores: a fixed link may be commanded.
IgnoresInCall(l) == l.status \in CcsStatus

Ignores(l) == l.status \in CcsStatus \/ Fixed(l)

(* reflectorCommandHandler: "unlink", a callsign to link to, "startup" for  *)
(* the startup reflector, "none" for a text that is no command; every       *)
(* one of them stops the query timer.  A blank startup reflector, which is  *)
(* taken for a callsign here and for none elsewhere, is left out.           *)
ReflectorCommand(l, k, cmd) ==
  LET m == [l EXCEPT !.query = Stopped]
      r == IF cmd = "startup" THEN l.startup ELSE cmd
      idle == IF cmd = "unlink" THEN l.status = "NONE"
              ELSE cmd = "none" \/ r = NoCall \/ (l.status # "NONE" /\ r = l.repeater)
  IN IF Ignores(l) THEN {l}
     ELSE IF idle THEN {m}
     ELSE IF cmd = "unlink" THEN {Inform(NotLinked(x)) : x \in UnlinkAll(m, k)}
     ELSE IF r = Self THEN {Inform(m)}
     ELSE IF l.status # "NONE" /\ SameBase(l.repeater, r) THEN ChangeModule(m, k, r)
     ELSE {LinkInt(x, k, r) : x \in UnlinkAll(m, k)}

(* ccsCommandHandler: "CA" ends the call, a number starts one. *)
CcsCommand(l, k, cmd) ==
  LET wanted(m) == [m EXCEPT !.query = Started, !.status = "LINKING_CCS", !.repeater = CcsPeer] IN
  CASE cmd = "CA" -> {StopLink(l, k)}
    [] cmd # "CA" /\ l.ccs = "CONNECTED" ->
         UNION {StartLink(wanted(m), k) : m \in SuspendLinks(l, k)}
    [] OTHER -> {l}

(* CRepeaterHandler::link, from the remote control.  The timeout of the     *)
(* reconnect timer survives a change to NEVER or FIXED.                     *)
RemoteLink(l, k, mode, r) ==
  LET dropped == [NotLinked(StopLink(l, k)) EXCEPT !.query = Stopped]
      m == [(IF l.status \in CcsStatus THEN dropped ELSE l) EXCEPT
              !.startup = r, !.mode = mode, !.timed = @ \/ mode = "TIMED",
              !.reconnect = IF mode = "TIMED" THEN Started ELSE Stopped]
  IN IF IF m.status = "NONE" THEN r = NoCall ELSE r = m.repeater THEN {m}
     ELSE IF r = NoCall THEN {Inform(NotLinked(x)) : x \in UnlinkAll(m, k)}
     ELSE IF m.status # "NONE" /\ SameBase(m.repeater, r) THEN ChangeModule(m, k, r)
     ELSE {LinkInt(x, k, r) : x \in UnlinkAll(m, k)}

(* CRepeaterHandler::unlink, from the remote control, of the link to r: the *)
(* repeater hears of it from the object, at once or on the acknowledgement. *)
RemoteUnlink(l, k, r) ==
  IF Fixed(l) /\ l.repeater = r THEN {l}
  ELSE IF Proto[r] = "DEXTRA" THEN UnlinkDExtra(l, k, Remote \ {r})
  ELSE {Unlink(l, Proto[r], Remote \ {r})}

(* resolveRepeaterInt, the part about a link that waits for ircDDB; found   *)
(* tells whether the answer has an address.                                 *)
ResolveLink(l, r, found) ==
  LET m == [l EXCEPT !.query = Stopped] IN
  IF ~(l.status = "PENDING" /\ l.repeater = r) THEN l
  ELSE IF found /\ r \notin Disabled
       THEN [m EXCEPT !.status = "LINKING", !.out = @ \cup {r}]
  ELSE Inform(NotLinked(m))

-------------------------------------------------------------------------------
(* clockInt when the reconnect timer has expired.  On "just a change of     *)
(* port" the code returns: the timer is not restarted and the rest of       *)
(* clockInt is skipped.                                                     *)
ChangeOfPort(l) ==
  /\ l.status # "NONE" /\ l.startup # NoCall /\ l.repeater # l.startup
  /\ SameBase(l.repeater, l.startup)

\* A slip of Astray: a repeater without a link is where it belongs.
AstrayLinked(l) == l.startup # NoCall /\ l.status # "NONE" /\ l.repeater # l.startup

Astray(l) == l.startup # NoCall /\ (l.status = "NONE" \/ l.repeater # l.startup)

ReconnectExpired(l, k) ==
  IF ChangeOfPort(l) THEN ChangeModule(l, k, l.startup)
  ELSE IF l.startup = NoCall /\ l.status # "NONE"
       THEN {StartReconnect(Inform(NotLinked(m))) : m \in UnlinkAll(l, k)}
  ELSE IF Astray(l)
       THEN {StartReconnect(LinkInt(m, k, l.startup)) : m \in UnlinkAll(l, k)}
  ELSE {StartReconnect(l)}

(* clockInt when the query timer has expired and no G2 lookup is going on. *)
LinkQueryExpired(l, k) ==
  LET m == [l EXCEPT !.query = Stopped] IN
  CASE l.status = "PENDING" -> Inform(NotLinked(m))
    [] l.status = "LINKING_CCS" -> RestoreLinks(NotLinked(StopLink(m, k)), k)
    [] OTHER -> m
===============================================================================
