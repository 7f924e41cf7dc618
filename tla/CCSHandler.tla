------------------------------- MODULE CCSHandler -------------------------------
(***************************************************************************)
(* The CCS client of a repeater (CCCSHandler) and the callbacks it makes   *)
(* (CRepeaterHandler::ccsLinkMade, ccsLinkEnded, ccsLinkFailed).  Its      *)
(* state is part of the link record:                                       *)
(*   ccs     m_state        dir    m_direction, of the last link           *)
(*   mapped  the DTMF code of the wanted station is in the CCS cache       *)
(*   asked   the server has yet to answer what that code stands for        *)
(* The callsign of the far station is CcsPeer, found or not; the timers    *)
(* that only retransmit are left out.                                      *)
(***************************************************************************)
EXTENDS LinkControl

CcsLinkMade(l, k) ==
  IF l.dir = "INCOMING" THEN {Inform(l)}
  ELSE {Inform([m EXCEPT !.status = "LINKED_CCS", !.repeater = CcsPeer, !.query = Stopped]) :
          m \in SuspendLinks(l, k)}

\* ccsLinkEnded and ccsLinkFailed differ in what they say
CcsLinkEnded(l, k) ==
  IF l.dir = "INCOMING" THEN Inform(l)
  ELSE Inform(RestoreLinks([NotLinked(l) EXCEPT !.query = Stopped], k))

-------------------------------------------------------------------------------
Activate(l, dir) == [l EXCEPT !.ccs = "ACTIVE", !.dir = dir]

(* startLink reports a station it finds in its cache before it sets the     *)
(* direction, and otherwise leaves the question to the server.              *)
StartLink(l, k) ==
  CASE l.ccs # "CONNECTED" -> {l}
    [] l.ccs = "CONNECTED" /\ l.mapped -> {Activate(m, "OUTGOING") : m \in CcsLinkMade(l, k)}
    [] OTHER -> {[Activate(l, "OUTGOING") EXCEPT !.asked = TRUE]}

(* stopLink, unlink, CT_TERMINATE and the inactivity timeout. *)
StopLink(l, k) ==
  IF l.ccs = "ACTIVE" THEN CcsLinkEnded([l EXCEPT !.ccs = "CONNECTED"], k) ELSE l

(* The first frame of a call from another station. *)
IncomingCall(l, k) == CcsLinkMade(Activate(l, "INCOMING"), k)

(* CT_DTMFFOUND and CT_DTMFNOTFOUND, taken in every state but DISABLED. *)
DtmfFound(l, k) ==
  CcsLinkMade([l EXCEPT !.mapped = @ \/ l.dir = "OUTGOING", !.asked = FALSE], k)

DtmfNotFound(l, k) == CcsLinkEnded([l EXCEPT !.ccs = "CONNECTED", !.asked = FALSE], k)

(* No poll from the server for a minute: the link is lost and sought again. *)
PollInactivity(l, k) ==
  [(IF l.ccs = "ACTIVE" THEN CcsLinkEnded(l, k) ELSE l) EXCEPT !.ccs = "CONNECTING"]

(* The server's answer to a connection request. *)
ServerAnswers(l, ack) == [l EXCEPT !.ccs = IF ack THEN "CONNECTED" ELSE "DISABLED"]
===============================================================================
