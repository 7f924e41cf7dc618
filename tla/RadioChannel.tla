------------------------------ MODULE RadioChannel ------------------------------
(***************************************************************************)
(* What a repeater promises to the person talking through it, whatever     *)
(* its links, the servers and the other users do:                          *)
(*   - the channel belongs to one stream at a time;                        *)
(*   - a stream is routed by its header, or by one answer to one lookup    *)
(*     for the callsign in that header, and its route then stays until the *)
(*     stream ends: frames never change their destination half-way;        *)
(*   - an announcement asked for during a stream is made when it ends,     *)
(*     never lost and never while the stream goes on.                      *)
(***************************************************************************)
CONSTANTS
  Streams,               \* the streams there can be
  Settled,               \* the routes a header decides
  Asking,                \* the routes that wait for an answer
  Answered, Unanswered,  \* what the answer makes of them
  NoRoute, Callsign, NoCallsign, Queueable

VARIABLES
  owner,   \* the stream on the air, of the radio (rf) or relayed (busy)
  route,   \* where it goes: the kind and, for a lookup, the callsign
  queue    \* the announcements due at its end

Idle == [by |-> "idle"]
RF(s)   == [by |-> "rf", stream |-> s]
Busy(s) == [by |-> "busy", stream |-> s]

Routes == [kind : Settled \cup Asking \cup {NoRoute}, call : Callsign]

\* announcements come, none goes
Queued == queue' \in SUBSET Queueable /\ queue \subseteq queue'

Init == owner = Idle /\ route.kind = NoRoute /\ queue = {}

\* the header of a stream that is not on the air; it may cut off the one that is
Begin == \E s \in Streams :
           /\ owner # RF(s) /\ owner' = RF(s)
           /\ route' \in Routes /\ Queued

\* the header of a relayed stream, which takes over the route of the stream it cuts off
Relay == \E s \in Streams :
           /\ owner # Busy(s) /\ owner' = Busy(s)
           /\ UNCHANGED route /\ Queued

\* an announcement is asked for
Queue == owner # Idle /\ UNCHANGED <<owner, route>> /\ Queued

\* the lookup is answered, or given up
Settle == /\ owner # Idle /\ route.kind \in Asking /\ UNCHANGED owner
          /\ \/ route' = [kind |-> Answered, call |-> route.call]
             \/ route' = [kind |-> Unanswered, call |-> NoCallsign]
          /\ Queued

\* the last frame, or the watchdog
End == owner # Idle /\ owner' = Idle /\ route'.kind = NoRoute /\ queue' = {}

Next == Begin \/ Relay \/ Queue \/ Settle \/ End

Spec == Init /\ [][Next]_<<owner, route, queue>>
===============================================================================
