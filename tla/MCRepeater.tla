------------------------------- MODULE MCRepeater -------------------------------
(***************************************************************************)
(* Values for the constants of RepeaterHandler.tla; each configuration     *)
(* takes the remotes, the users and the commands of one concern.           *)
(***************************************************************************)
EXTENDS LinkProperties

CONSTANTS gb7, gb7B, xrf, xrfB, ref, refB, dcs, dcsB, self, alice, bob, peer, nocall

MCCall(kind, arg) == [kind |-> kind, arg |-> arg]

MCProto == [r \in Remote |-> CASE r \in {dcs, dcsB} -> "DCS" [] r \in {ref, refB} -> "DPLUS" [] OTHER -> "DEXTRA"]
MCBase  == [r \in Remote |-> CASE r = gb7B -> gb7 [] r = xrfB -> xrf [] r = refB -> ref [] r = dcsB -> dcs [] OTHER -> r]

\* every way a stream can be routed
MCRadioCalls ==
  {MCCall(k, NoCall) : k \in {"CQ", "ECHO", "INFO", "WX", "VERSION", "STARNET"}} \cup
  {MCCall("REPEATER", gb7), MCCall("REPEATER", Self), MCCall("USER", alice),
   MCCall("USER", bob), MCCall("LINK", "none"), MCCall("LINK", gb7)}
MCRadioDtmf == {MCCall("INFO", NoCall), MCCall("LINK", "unlink")}

MCStart(mode, arg) == [mode |-> mode, arg |-> arg, atStartup |-> TRUE, ccs |-> FALSE]

MCNever      == {[MCStart("NEVER", NoCall) EXCEPT !.atStartup = FALSE]}
MCTimedStart == {MCStart("TIMED", arg) : arg \in {xrf, NoCall}}
MCModulesStart == {MCStart("TIMED", arg) : arg \in Remote \cap {dcs, ref}}
MCCcsStart   == {[s EXCEPT !.ccs = TRUE] : s \in MCTimedStart}

\* every remote can be linked to by command
MCLinkCalls == {MCCall("LINK", c) : c \in Remote \cup {"unlink", "startup"}} \cup
               {MCCall("CQ", NoCall)}
MCCcsCalls  == MCLinkCalls \cup {MCCall("CCS", "CA"), MCCall("CCS", "C001")}
MCUserCalls == {MCCall("USER", alice)}

\* the remote control unlinks, fixes the link, or gives it up to the users
MCRemoteLinks == {[mode |-> "NEVER", arg |-> NoCall]} \cup
                 {[mode |-> "FIXED", arg |-> r] : r \in Remote \cap {xrf, dcs}}
===============================================================================
