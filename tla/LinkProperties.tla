----------------------------- MODULE LinkProperties -----------------------------
(***************************************************************************)
(* What a repeater's link has to do with the link objects, the CCS server  *)
(* and the configuration it stands for: the properties of the link record  *)
(* of RepeaterHandler.tla.  The last one is what a comment says and the    *)
(* code does not do.                                                       *)
(***************************************************************************)
EXTENDS RepeaterHandler

\* The repeater is linked to a reflector, or on its way there.
Linked == link.status \in ReflectorStatus

(* No link outlives the repeater's knowledge of it: what it carries traffic *)
(* to is what it believes it is linked to (linkInt, linkFailed and unlink   *)
(* keep m_linkStatus and the handlers' tables together).  For DExtra links, *)
(* which end on the spot: the late acknowledgement of a D-Plus or DCS       *)
(* unlink clears the status of a newer link to the same remote.  Of a       *)
(* repeater without CCS, and as long as nobody changes between modules of   *)
(* one reflector: a left-over m_linkRelink makes a second link.             *)
NoGhost == {o \in link.out : Proto[o] = "DEXTRA"} \subseteq {r \in {link.repeater} : Linked}

(* A repeater that announces a link has that link up: linkFailed and        *)
(* linkRefused reach it before the object goes.  For DExtra links: the      *)
(* D-Plus handler tells nobody of a disconnect while LINKED (LinkDropped);  *)
(* and where NoGhost holds.                                                 *)
LinkedIsUp ==
  link.status = "LINKED" /\ Proto[link.repeater] = "DEXTRA" => link.repeater \in link.up

(* Gateway-ENG, "after the specified period of local repeater inactivity,   *)
(* the gateway will unlink from the current reflector and link to the one   *)
(* specified": once the radio and the remote control are quiet, clockInt    *)
(* comes back to the startup link again and again, whatever the far ends do.*)
Home == IF link.startup = NoCall THEN link.status = "NONE"
        ELSE link.status # "NONE" /\ link.repeater = link.startup
ReturnsHome == <>[][~(Radio \/ RemoteLinked)]_vars => []<>(link.mode = "TIMED" => Home)

(* Gateway-ENG, "if set to Fixed the software will stay linked to the       *)
(* listed reflector": no command, acknowledgement, timer or restored link   *)
(* takes a fixed repeater elsewhere.  The hosts files have to know its      *)
(* reflector: what cannot be looked up leaves the old link as it is.        *)
FixedStays == Fixed(link) /\ Linked => link.repeater = link.startup

(* A repeater without CCS is in one DCS reflector at a time, whatever order *)
(* commands, acknowledgements and relinks to another module come in.        *)
OneDcs == \A a, b \in link.out : Proto[a] = "DCS" /\ Proto[b] = "DCS" => a = b

(* While a CCS call is set up or made, no reflector link carries the        *)
(* repeater's traffic as well: suspendLinks comes before every change of    *)
(* m_linkStatus to a CCS value, and nothing relinks meanwhile, unless a     *)
(* change of module has left m_linkRelink behind.                           *)
CcsAlone == link.status \in CcsStatus => link.out = {}

(* When a CCS call ends, however it ends, the link it suspended is sought   *)
(* again (restoreLinks); not so for a repeater whose reconnect timer, which *)
(* a transmission restarts (RepeaterHandler.cpp:586), may have ended it.    *)
Restored ==
  /\ link'.status \in ReflectorStatus \cup {"PENDING"}
  /\ link'.repeater = IF Fixed(link) THEN link.startup ELSE link.last
CallRestores ==
  [][ /\ link.status = "LINKED_CCS" /\ link.last # NoCall /\ ~IsRunning(link.reconnect)
      /\ link'.status \notin CcsStatus /\ ~RemoteLinked
      => Restored ]_vars

(* The link that CallRestores brings back is the one that was suspended:   *)
(* suspendLinks runs twice in an outgoing call, when it is asked for and    *)
(* when it is made, and the second run, as every callback and command       *)
(* during the call, leaves m_lastReflector as the first one set it.         *)
Remembered ==
  [][ link'.status \in CcsStatus
      => link'.last = IF Linked THEN link.repeater ELSE link.last ]_vars

-------------------------------------------------------------------------------
(* resolveUserInt, "User found, update the settings and send the header to  *)
(* the correct place": the answer settles the stream that waits for it.     *)
UserAnswered ==
  [][ g2Status = "USER" /\ g2Call \in users' \ users => g2Status' # "USER" ]_vars

===============================================================================
