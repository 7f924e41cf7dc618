--------------------------- MODULE DStarRepeater ---------------------------
(***************************************************************************)
(* The controller of a D-Star repeater (CDStarRepeaterTRXThread): a radio  *)
(* modem on one side, a gateway on the other, and a loop of some 9 ms that *)
(* reads the modem, reads the gateway, runs the state machine, starts      *)
(* beacons and announcements, looks at the shutdown inputs, and writes at  *)
(* most one item to the modem.  "phase" is the position in that loop.      *)
(*                                                                         *)
(* A timer is running or not; a running one may expire at the next look.   *)
(* Voice, slow data, statistics, logging and the active output are left    *)
(* out; so is the hang timer, which only holds the active output.          *)
(***************************************************************************)
EXTENDS OutputQueue, FiniteSets

CONSTANTS Modes,        \* the modes to start in: "duplex", "simplex", "gateway"
          Run,          \* Run[kind]: the frames held back before a transmission
          UnitFrames,   \* the length of a beacon or of an announcement
          MaxEvents,    \* bound: overs, streams, beacons, announcements and
                        \* shutdowns, together
          MaxInsert     \* bound: frames one packet puts into the queue

Kinds == {"local", "radio", "network"}
Units == {"beacon", "announcement"}
Slots == 0..1           \* NETWORK_QUEUE_COUNT

ASSUME RepeaterAssumption ==
  /\ Modes \subseteq {"duplex", "simplex", "gateway"}
  /\ Run \in [Kinds -> Nat \ {0}]
  /\ Space \in Nat
  /\ \A kind \in Kinds : Run[kind] <= Space
  /\ {UnitFrames, MaxEvents, MaxInsert} \subseteq Nat

VARIABLES mode, acks,             \* m_mode, m_ack # AT_NONE
          phase,
          rptState, rxState, timers,
          rxHeader,               \* m_rxHeader: "none" (NULL), a user's, by where it asks
                                  \* to go, or another header
          blocked, busyData, recording, deleting,
          local, radio, network, readNum, writeNum,
          inId,                   \* the protocol handler's m_inId
          shutdown, disable,
          refused,                \* history, for the properties: a stop has made
                                  \* setRepeaterState refuse, and is not carried out yet
          sending,                \* the frames each unit has yet to send
          feed, feeding,          \* the gateway: its last stream, still being sent
          heard,                  \* a frame of it came in this turn of the loop
          uplink,                 \* the stream the gateway receives from here
          events

setup == <<mode, acks>>
radioVars == <<rptState, rxState, timers, rxHeader, blocked, busyData, recording, deleting, refused>>
queueVars == <<local, radio, network, readNum, writeNum>>
gatewayVars == <<inId, feed, feeding, heard, uplink>>
stopVars == <<shutdown, disable>>
vars == <<setup, phase, radioVars, queueVars, gatewayVars, stopVars, sending, events>>

RptStates == {"LISTENING", "VALID", "VALID_WAIT", "INVALID", "INVALID_WAIT",
              "TIMEOUT", "TIMEOUT_WAIT", "NETWORK", "SHUTDOWN"}
RxStates == {"LISTENING", "PROCESS_DATA", "PROCESS_SLOW_DATA"}
Timers == {"timeout", "watchdog", "ack", "beacon", "announcement"}
Phases == {"modem", "network", "machine", "units", "control", "transmit", "clock"}

TypeOK ==
  /\ mode \in Modes /\ acks \in BOOLEAN
  /\ phase \in Phases
  /\ rptState \in RptStates /\ rxState \in RxStates
  /\ timers \subseteq Timers
  /\ rxHeader \in {"none", "local", "gateway", "other"}
  /\ {blocked, busyData, recording, deleting, shutdown, disable, refused, feeding, heard}
       \subseteq BOOLEAN
  /\ local \in Queues(Run["local"])
  /\ radio \in Queues(Run["radio"])
  /\ network \in [Slots -> Queues(Run["network"])]
  /\ readNum \in Slots /\ writeNum \in Slots
  /\ inId \in 0..MaxEvents /\ feed \in 0..MaxEvents
  /\ uplink \in {"idle", "open", "cut", "stray"}
  /\ sending \in [Units -> 0..UnitFrames]
  /\ events \in 0..MaxEvents

Init ==
  /\ mode \in Modes /\ acks \in BOOLEAN
  /\ phase = "modem"
  /\ rptState = "LISTENING" /\ rxState = "LISTENING"
  /\ timers = {"beacon", "announcement"}
  /\ rxHeader = "none"
  /\ blocked = FALSE /\ busyData = FALSE /\ recording = FALSE /\ deleting = FALSE
  /\ local = Clear /\ radio = Clear /\ network = [i \in Slots |-> Clear]
  /\ readNum = 0 /\ writeNum = 0
  /\ inId = 0 /\ feed = 0 /\ feeding = FALSE /\ heard = FALSE /\ uplink = "idle"
  /\ shutdown = FALSE /\ disable = FALSE /\ refused = FALSE
  /\ sending = [u \in Units |-> 0]
  /\ events = 0

\* one of the bounded events
Event == events < MaxEvents /\ events' = events + 1

\* A slip of Other: the index is not taken back to the first queue.
NotWrapped(i) == i + 1

\* The index of the other network queue.
Other(i) == 1 - i
Stopping == shutdown \/ disable
Waiting == {"VALID_WAIT", "INVALID_WAIT", "TIMEOUT_WAIT"}

-------------------------------------------------------------------------------
(* setRepeaterState: refused while stopping, and by the present state.      *)
Accepts(state) ==
  /\ ~Stopping
  /\ state = "VALID" => rptState \in {"LISTENING", "VALID_WAIT"}
  /\ state = "INVALID" => rptState = "LISTENING"
  /\ state = "NETWORK" => rptState \in Waiting \cup {"LISTENING"}

\* A slip of TimersIn: entering VALID never starts the timeout timer.
NeverTimed(state) ==
  LET left == timers \ {"beacon"}
  IN CASE state = "LISTENING" -> (timers \ {"timeout", "watchdog", "ack"}) \cup {"beacon"}
       [] state = "VALID" -> left \ {"ack"}
       [] state = "VALID_WAIT" -> left \cup {"ack"}
       [] state \in {"TIMEOUT", "INVALID"} -> left \ {"timeout"}
       [] state \in {"TIMEOUT_WAIT", "INVALID_WAIT"} -> (left \cup {"ack"}) \ {"timeout"}
       [] OTHER -> (left \cup {"watchdog"}) \ {"timeout", "ack"}

TimersIn(state) ==
  LET left == timers \ {"beacon"}
  IN CASE state = "LISTENING" -> (timers \ {"timeout", "watchdog", "ack"}) \cup {"beacon"}
       [] state = "VALID" -> IF rptState = "LISTENING" THEN left \cup {"timeout"}
                             ELSE left \ {"ack"}
       [] state = "VALID_WAIT" -> left \cup {"ack"}
       [] state \in {"TIMEOUT", "INVALID"} -> left \ {"timeout"}
       [] state \in {"TIMEOUT_WAIT", "INVALID_WAIT"} -> (left \cup {"ack"}) \ {"timeout"}
       [] OTHER -> (left \cup {"watchdog"}) \ {"timeout", "ack"}

(* The call, with m_inId = id; going to LISTENING also resets the protocol  *)
(* handler.  One that is refused after a shutdown, when a start is pending, *)
(* has already started two timers.                                          *)
SetRepeaterState(state, id) ==
  /\ rptState' = IF Accepts(state) THEN state ELSE rptState
  /\ timers' = CASE Accepts(state) -> TimersIn(state)
                 [] ~Accepts(state) /\ ~Stopping /\ rptState = "SHUTDOWN"
                      -> timers \cup {"beacon", "announcement"}
                 [] OTHER -> timers
  /\ inId' = IF Accepts(state) /\ state = "LISTENING" THEN 0 ELSE id
  /\ refused' = (refused \/ (Stopping /\ rptState # "SHUTDOWN"))

-------------------------------------------------------------------------------
(* Phase "modem": a transmission begins with a header, of the air or of its *)
(* slow data, and every header but a DD one has its frames processed.       *)
Receiving == phase = "modem" /\ rxState # "PROCESS_DATA"

HeaderRead ==
  /\ Receiving
  /\ rxState' = "PROCESS_DATA"
  /\ Event
  /\ UNCHANGED <<setup, phase, local, network, readNum, writeNum, feed, feeding, heard,
                 disable, sending>>

\* checkControl: shutdown(), startup(), each in any state, or another command
ControlHeader ==
  /\ HeaderRead
  /\ shutdown' \in BOOLEAN
  /\ UNCHANGED <<rptState, timers, refused, rxHeader, blocked, busyData, recording, deleting,
                 radio, inId, uplink>>

\* checkAnnouncements: made before the shutdown check
AnnouncementHeader ==
  /\ HeaderRead
  /\ \/ recording' = TRUE /\ UNCHANGED deleting
     \/ deleting' = TRUE /\ UNCHANGED recording
  /\ SetRepeaterState("INVALID", inId)
  /\ rxHeader' = IF Accepts("INVALID") THEN "other" ELSE rxHeader
  /\ UNCHANGED <<blocked, busyData, radio, shutdown, uplink>>

\* shut down, rejected by the white or the black list
ListedHeader ==
  /\ HeaderRead
  /\ UNCHANGED <<rptState, timers, refused, rxHeader, blocked, busyData, recording, deleting,
                 radio, inId, shutdown, uplink>>

\* past the lists: the grey list decides whether the network may hear it
Graded(grey) ==
  /\ Receiving /\ rptState # "SHUTDOWN"
  /\ blocked' = grey

\* our own gateway's data, or a callsign that checkHeader does not know
UnknownHeader ==
  /\ HeaderRead
  /\ \E grey \in BOOLEAN : Graded(grey)
  /\ UNCHANGED <<rptState, timers, refused, rxHeader, busyData, recording, deleting, radio,
                 inId, shutdown, uplink>>

\* a DD packet leaves the receiver as it was
DataHeader ==
  /\ \E grey \in BOOLEAN : Graded(grey)
  /\ Event
  /\ UNCHANGED <<setup, phase, rptState, rxState, timers, refused, rxHeader, busyData, recording,
                 deleting, queueVars, gatewayVars, stopVars, sending>>

\* checkHeader fails
WrongHeader ==
  /\ HeaderRead
  /\ \E grey \in BOOLEAN : Graded(grey)
  /\ SetRepeaterState("INVALID", inId)
  /\ rxHeader' = IF Accepts("INVALID") THEN "other" ELSE rxHeader
  /\ UNCHANGED <<busyData, recording, deleting, radio, shutdown, uplink>>

\* a user talks over the network's stream: the gateway is told
BusyHeader ==
  /\ HeaderRead
  /\ rptState = "NETWORK"
  /\ \E grey \in BOOLEAN : Graded(grey)
  /\ \/ busyData' = TRUE
     \/ mode # "gateway" /\ UNCHANGED busyData      \* RPT2 blank or our own
  /\ UNCHANGED <<rptState, timers, refused, rxHeader, recording, deleting, radio, inId, shutdown, uplink>>

\* A slip of ValidHeader: a user of the grey list is sent on.
ForgetsGrey ==
  /\ HeaderRead
  /\ rptState # "NETWORK"
  /\ SetRepeaterState("VALID", inId)
  /\ \E grey \in BOOLEAN, rpt2 \in {"local", "gateway"} :
       /\ Graded(grey)
       /\ mode = "gateway" => rpt2 = "gateway"
       /\ IF Accepts("VALID")
          THEN /\ rxHeader' = rpt2
               /\ uplink' = IF rpt2 = "gateway" THEN "open" ELSE uplink
               /\ radio' = IF mode = "duplex" THEN Fresh ELSE radio
          ELSE UNCHANGED <<rxHeader, uplink, radio>>
  /\ UNCHANGED <<busyData, recording, deleting, shutdown>>

ValidHeader ==
  /\ HeaderRead
  /\ rptState # "NETWORK"
  /\ SetRepeaterState("VALID", inId)
  /\ \E grey \in BOOLEAN, rpt2 \in {"local", "gateway"} :
       /\ Graded(grey)
       /\ mode = "gateway" => rpt2 = "gateway"
       /\ IF Accepts("VALID")
          THEN /\ rxHeader' = rpt2
               /\ uplink' = IF ~grey /\ rpt2 = "gateway" THEN "open" ELSE uplink
               /\ radio' = IF mode = "duplex" THEN Fresh ELSE radio
          ELSE UNCHANGED <<rxHeader, uplink, radio>>
  /\ UNCHANGED <<busyData, recording, deleting, shutdown>>

-------------------------------------------------------------------------------
(* Frames of the air.                                                       *)
\* without a header the slow data is searched for one
SlowData ==
  /\ Receiving
  /\ rxState' = IF rxState = "LISTENING" THEN "PROCESS_SLOW_DATA" ELSE "LISTENING"
  /\ IF rxState = "LISTENING" THEN Event ELSE UNCHANGED events
  /\ UNCHANGED <<setup, phase, rptState, timers, refused, rxHeader, blocked, busyData, recording,
                 deleting, queueVars, gatewayVars, stopVars, sending>>

Taken == deleting \/ recording \/ busyData     \* the frame goes elsewhere

(* What the gateway makes of a frame, and of an end, of an over it may      *)
(* hear: writeData puts the identifier of the last header written on each,  *)
(* whether or not the over had one.                                         *)
UplinkFrame == IF blocked \/ uplink = "open" THEN uplink ELSE "stray"
UplinkEnd == CASE blocked -> uplink
               [] ~blocked /\ uplink = "open" -> "idle"
               [] OTHER -> "stray"

\* processRadioFrame, voice
RadioData ==
  /\ phase = "modem" /\ rxState = "PROCESS_DATA"
  /\ ~Taken /\ rptState = "VALID"
  /\ radio' = IF mode = "duplex" THEN AddVoice(radio, Run["radio"], 1) ELSE radio
  /\ uplink' = UplinkFrame
  /\ UNCHANGED <<setup, phase, radioVars, local, network, readNum, writeNum, inId, feed,
                 feeding, heard, stopVars, sending, events>>

\* A slip of Released: an announcement being deleted keeps busyData and recording.
KeepsTaken ==
  /\ deleting' = FALSE
  /\ recording' = IF deleting THEN recording ELSE FALSE
  /\ busyData' = busyData

Released ==
  /\ IF deleting \/ recording
     THEN deleting' = FALSE /\ recording' = FALSE /\ UNCHANGED busyData
     ELSE busyData' = FALSE /\ UNCHANGED <<deleting, recording>>

\* endOfRadioData: the ack, if there is one, is sent after the ack time
AfterOver ==
  IF ~acks /\ mode # "gateway" THEN "LISTENING"
  ELSE CASE rptState = "VALID" -> "VALID_WAIT"
         [] rptState = "INVALID" -> "INVALID_WAIT"
         [] OTHER -> "TIMEOUT_WAIT"

\* A slip of RadioEnd: an over that timed out is not followed by its wait.
StaysTimedOut ==
  /\ phase = "modem" /\ rxState = "PROCESS_DATA"
  /\ rxState' = "LISTENING"
  /\ Released
  /\ IF ~Taken /\ rptState = "VALID"
     THEN /\ radio' = IF mode = "duplex" THEN AddEnd(radio, Run["radio"]) ELSE radio
          /\ uplink' = UplinkEnd
     ELSE UNCHANGED <<radio, uplink>>
  /\ IF rptState \in {"VALID", "INVALID"} THEN SetRepeaterState(AfterOver, inId)
     ELSE UNCHANGED <<rptState, timers, inId, refused>>
  /\ UNCHANGED <<setup, phase, rxHeader, blocked, local, network, readNum, writeNum, feed,
                 feeding, heard, stopVars, sending, events>>

\* the end of the over, or its loss: processRadioFrame and endOfRadioData
RadioEnd ==
  /\ phase = "modem" /\ rxState = "PROCESS_DATA"
  /\ rxState' = "LISTENING"
  /\ Released
  /\ IF ~Taken /\ rptState = "VALID"
     THEN /\ radio' = IF mode = "duplex" THEN AddEnd(radio, Run["radio"]) ELSE radio
          /\ uplink' = UplinkEnd
     ELSE UNCHANGED <<radio, uplink>>
  /\ IF rptState \in {"VALID", "INVALID", "TIMEOUT"} THEN SetRepeaterState(AfterOver, inId)
     ELSE UNCHANGED <<rptState, timers, inId, refused>>
  /\ UNCHANGED <<setup, phase, rxHeader, blocked, local, network, readNum, writeNum, feed,
                 feeding, heard, stopVars, sending, events>>

ModemRead ==
  /\ phase = "modem" /\ phase' = "network"
  /\ UNCHANGED <<setup, radioVars, queueVars, gatewayVars, stopVars, sending, events>>

-------------------------------------------------------------------------------
(* Phase "network": the gateway sends streams of a header, data and an end; *)
(* each packet may be lost.  The protocol handler takes a header when it    *)
(* has no stream, and the packets of its stream only.                       *)
EndOfNetworkData(id) == SetRepeaterState("LISTENING", id) /\ writeNum' = Other(writeNum)

\* transmitNetworkHeader: the stream before is purged, or cut with an end
NetworkQueued ==
  LET old == network[readNum]
      purge == HeaderReady(old, Run["network"])
      first == [network EXCEPT ![readNum] =
                  IF IsEmpty(old) THEN @ ELSE IF purge THEN Clear ELSE AddEnd(Clear, Run["network"])]
  IN /\ readNum' = IF purge THEN Other(readNum) ELSE readNum
     /\ network' = [first EXCEPT ![writeNum] = Fresh]

FromGateway ==
  /\ phase = "network"
  /\ UNCHANGED <<setup, phase, rxState, blocked, busyData, recording, deleting, local, radio,
                 stopVars, sending, uplink>>

\* a stream begins; the header may be lost, damaged or for another repeater
NetworkHeader ==
  /\ FromGateway
  /\ ~feeding /\ Event
  /\ feed' = feed + 1 /\ feeding' = TRUE
  /\ UNCHANGED <<writeNum, heard>>
  /\ \/ UNCHANGED <<rptState, timers, refused, rxHeader, network, readNum, inId>>
     \/ /\ inId = 0 /\ inId' = feed'
        /\ UNCHANGED <<rptState, timers, refused, rxHeader, network, readNum>>
     \/ /\ inId = 0 /\ rptState # "SHUTDOWN"
        /\ SetRepeaterState("NETWORK", feed')
        /\ IF Accepts("NETWORK") THEN rxHeader' = "other" /\ NetworkQueued
           ELSE UNCHANGED <<rxHeader, network, readNum>>

\* processNetworkFrame: none for a late frame, more for the ones missed; each
\* restarts the watchdog
NetworkData ==
  /\ FromGateway
  /\ UNCHANGED events
  /\ feeding /\ inId = feed
  /\ timers' = timers \cup {"watchdog"} /\ heard' = TRUE
  /\ \E n \in 0..MaxInsert :
       network' = IF rptState = "NETWORK"
                  THEN [network EXCEPT ![writeNum] = AddVoice(@, Run["network"], n)] ELSE network
  /\ UNCHANGED <<rptState, refused, rxHeader, readNum, writeNum, inId, feed, feeding>>

\* the end frees the handler; it may be lost
NetworkEnd ==
  /\ FromGateway
  /\ UNCHANGED events
  /\ feeding /\ feeding' = FALSE
  /\ UNCHANGED <<rxHeader, readNum, feed, heard>>
  /\ \/ UNCHANGED <<rptState, timers, refused, network, writeNum, inId>>
     \/ /\ inId = feed /\ rptState # "NETWORK"
        /\ inId' = 0 /\ timers' = timers \cup {"watchdog"}
        /\ UNCHANGED <<rptState, refused, network, writeNum>>
     \/ /\ inId = feed /\ rptState = "NETWORK"
        /\ network' = [network EXCEPT ![writeNum] = AddEnd(@, Run["network"])]
        /\ EndOfNetworkData(0)

\* the tail of receiveNetwork: silence for the frames that are overdue
NetworkRead ==
  /\ phase = "network" /\ phase' = "machine"
  /\ \/ UNCHANGED network
     \/ rptState = "NETWORK"
        /\ network' = [network EXCEPT ![writeNum] = AddVoice(@, Run["network"], MaxInsert)]
  /\ UNCHANGED <<setup, radioVars, local, radio, readNum, writeNum, gatewayVars, stopVars,
                 sending, events>>

-------------------------------------------------------------------------------
(* Phase "machine": repeaterStateMachine, a timer that has expired or none. *)
Machine ==
  /\ phase = "machine" /\ phase' = "units"
  /\ heard' = FALSE
  /\ UNCHANGED <<setup, rxState, rxHeader, blocked, busyData, recording, deleting, feed,
                 feeding, stopVars, sending, events>>

\* transmitStatus and its like: filler and an end, at once
Status == AddEnd(AddVoice(Fresh, Run["local"], 1), Run["local"])

UserTimedOut ==
  /\ Machine
  /\ rptState = "VALID" /\ "timeout" \in timers
  /\ SetRepeaterState("TIMEOUT", inId)
  /\ IF Accepts("TIMEOUT")
     THEN /\ radio' = IF mode = "duplex" THEN AddEnd(radio, Run["radio"]) ELSE radio
          /\ uplink' = UplinkEnd
     ELSE UNCHANGED <<radio, uplink>>
  /\ UNCHANGED <<local, network, readNum, writeNum>>

\* the ack, or the error reply if it is wanted; gateways send none
WaitOver ==
  /\ Machine
  /\ rptState \in Waiting /\ "ack" \in timers
  /\ \/ mode # "gateway" /\ local' = Status
     \/ (mode = "gateway" \/ rptState = "INVALID_WAIT") /\ UNCHANGED local
  /\ SetRepeaterState("LISTENING", inId)
  /\ UNCHANGED <<radio, network, readNum, writeNum, uplink>>

\* A slip of StreamLost: the watchdog is looked at, the stream goes on.
OnlyLogged ==
  /\ Machine
  /\ rptState = "NETWORK" /\ "watchdog" \in timers /\ ~heard
  /\ UNCHANGED <<rptState, timers, refused, inId, queueVars, uplink>>

\* the watchdog cannot expire in a turn that restarted it
StreamLost ==
  /\ Machine
  /\ rptState = "NETWORK" /\ "watchdog" \in timers /\ ~heard
  /\ network' = [network EXCEPT ![writeNum] = AddEnd(@, Run["network"])]
  /\ EndOfNetworkData(inId)
  /\ UNCHANGED <<local, radio, readNum, uplink>>

NothingDue ==
  /\ Machine
  /\ UNCHANGED <<rptState, timers, refused, inId, queueVars, uplink>>

-------------------------------------------------------------------------------
(* Phases "units" and "clock": a beacon is started, then an announcement,   *)
(* in whatever state; then the statuses asked for.  Their frames follow at  *)
(* the pace of speech.                                                      *)
StartUnit(u) ==
  /\ phase = "units" /\ u \in timers
  /\ local' = Fresh
  /\ sending' = [sending EXCEPT ![u] = UnitFrames]
  /\ Event
  /\ UNCHANGED <<setup, phase, radioVars, radio, network, readNum, writeNum, gatewayVars, stopVars>>

UserStatus ==
  /\ phase = "units" /\ rptState = "LISTENING"
  /\ local' = Status
  /\ Event
  /\ UNCHANGED <<setup, phase, radioVars, radio, network, readNum, writeNum, gatewayVars,
                 stopVars, sending>>

UnitsStarted ==
  /\ phase = "units" /\ phase' = "control"
  /\ UNCHANGED <<setup, radioVars, queueVars, gatewayVars, stopVars, sending, events>>

\* one frame of a unit, and the end after its last one
UnitFrame(q, u) ==
  LET more == AddVoice(q, Run["local"], 1)
  IN IF sending[u] = 1 THEN AddEnd(more, Run["local"]) ELSE more

Clock ==
  /\ phase = "clock" /\ phase' = "modem"
  /\ \/ UNCHANGED <<local, sending>>
     \/ \E u \in Units :
          /\ sending[u] > 0
          /\ local' = UnitFrame(local, u)
          /\ sending' = [sending EXCEPT ![u] = @ - 1]
  /\ UNCHANGED <<setup, radioVars, radio, network, readNum, writeNum, gatewayVars, stopVars, events>>

-------------------------------------------------------------------------------
(* Phase "control": the shutdown inputs, read here and acted upon here.     *)
Control ==
  /\ phase = "control" /\ phase' = "transmit"
  /\ UNCHANGED <<setup, rxState, rxHeader, blocked, busyData, recording, deleting, feed,
                 feeding, heard, shutdown, sending>>
  /\ \/ disable' = TRUE /\ IF disable THEN UNCHANGED events ELSE Event
     \/ disable' = FALSE /\ UNCHANGED events

ShutsDown ==
  /\ Control
  /\ (shutdown \/ disable') /\ rptState # "SHUTDOWN"
  /\ rptState' = "SHUTDOWN" /\ timers' = {}
  /\ local' = Clear /\ radio' = Clear /\ network' = [i \in Slots |-> Clear]
  /\ uplink' = IF uplink = "open" THEN "cut" ELSE uplink
  /\ refused' = FALSE
  /\ UNCHANGED <<readNum, writeNum, inId>>

StartsUp ==
  /\ Control
  /\ ~shutdown /\ ~disable' /\ rptState = "SHUTDOWN"
  /\ rptState' = "LISTENING" /\ inId' = 0
  /\ timers' = (timers \ {"timeout", "watchdog", "ack"}) \cup {"beacon", "announcement"}
  /\ UNCHANGED <<refused, queueVars, uplink>>

Carries ==
  /\ Control
  /\ (shutdown \/ disable') = (rptState = "SHUTDOWN")
  /\ UNCHANGED <<rptState, timers, refused, queueVars, inId, uplink>>

\* the operator's window, at any moment: shutdown() and startup()
Operator ==
  /\ \/ ~shutdown /\ shutdown' = TRUE /\ Event
     \/ shutdown /\ shutdown' = FALSE /\ UNCHANGED events
  /\ UNCHANGED <<setup, phase, radioVars, queueVars, gatewayVars, disable, sending>>

-------------------------------------------------------------------------------
(* Phase "transmit": one item, data before headers, the radio's before our  *)
(* own, ours before the network's; the modem may be busy or full.           *)
Ready(kind) ==
  CASE kind = "radio" -> radio [] kind = "local" -> local [] OTHER -> network[readNum]

OnAir(kind) == DataReady(Ready(kind), Run[kind])
Starts(kind) == HeaderReady(Ready(kind), Run[kind])

\* A slip of Chosen: headers go before data.
HeadersFirst ==
  CASE Starts("radio") -> "radio" [] Starts("local") -> "local" [] Starts("network") -> "network"
    [] OTHER -> IF OnAir("radio") THEN "radio" ELSE IF OnAir("local") THEN "local"
                ELSE IF OnAir("network") THEN "network" ELSE "none"

Chosen ==
  IF \E kind \in Kinds : OnAir(kind)
  THEN IF OnAir("radio") THEN "radio" ELSE IF OnAir("local") THEN "local" ELSE "network"
  ELSE IF Starts("radio") THEN "radio" ELSE IF Starts("local") THEN "local"
       ELSE IF Starts("network") THEN "network" ELSE "none"

Transmit ==
  /\ phase = "transmit" /\ phase' = "clock"
  /\ UNCHANGED <<setup, radioVars, gatewayVars, stopVars, sending, events, writeNum>>

Ends(q) == ~q.header /\ Head(q.frames) = "end"
AfterWrite(q) == IF q.header THEN TakeHeader(q) ELSE IF Ends(q) THEN Clear ELSE TakeFrame(q)

Write ==
  /\ Transmit
  /\ Chosen # "none"
  /\ LET q == Ready(Chosen) IN
       /\ q.header \/ q.frames # <<>>
       /\ local' = IF Chosen = "local" THEN AfterWrite(q) ELSE local
       /\ radio' = IF Chosen = "radio" THEN AfterWrite(q) ELSE radio
       /\ network' = IF Chosen = "network" THEN [network EXCEPT ![readNum] = AfterWrite(q)]
                     ELSE network
       /\ readNum' = IF Chosen = "network" /\ Ends(q) THEN Other(readNum) ELSE readNum

WritesNothing == Transmit /\ UNCHANGED <<local, radio, network, readNum>>

-------------------------------------------------------------------------------
Next ==
  \/ ControlHeader \/ AnnouncementHeader \/ ListedHeader \/ UnknownHeader \/ DataHeader
  \/ WrongHeader \/ BusyHeader \/ ValidHeader \/ SlowData \/ RadioData \/ RadioEnd \/ ModemRead
  \/ NetworkHeader \/ NetworkData \/ NetworkEnd \/ NetworkRead
  \/ UserTimedOut \/ WaitOver \/ StreamLost \/ NothingDue
  \/ (\E u \in Units : StartUnit(u)) \/ UserStatus \/ UnitsStarted \/ Clock
  \/ ShutsDown \/ StartsUp \/ Carries \/ Operator
  \/ Write \/ WritesNothing

(* The loop goes round for ever.  A running timer expires, an over ends or  *)
(* is lost by the modem, and the modem takes what waits, each at some turn  *)
(* of the loop that finds it so: strong fairness, for the turn comes and    *)
(* goes.  The watchdog expires only when the frames of the gateway stop,    *)
(* for each of them restarts it; no packet of the gateway need arrive.      *)
Turn == ModemRead \/ NetworkRead \/ NothingDue \/ UnitsStarted \/ ShutsDown \/ StartsUp
        \/ Carries \/ WritesNothing \/ Clock

Spec ==
  /\ Init /\ [][Next]_vars
  /\ WF_vars(Turn)
  /\ SF_vars(RadioEnd) /\ SF_vars(Write)
  /\ SF_vars(UserTimedOut) /\ SF_vars(WaitOver)
  /\ []<><<NetworkData>>_vars \/ SF_vars(StreamLost)

-------------------------------------------------------------------------------
(* What the controller promises.                                            *)

(* No state waits for a timer that is not running: an over is limited, a    *)
(* wait ends, a stream is watched, and a repeater that listens will send    *)
(* its beacon.  The timeout runs on through VALID_WAIT, since accepting the     *)
(* next over from there does not start it (setRepeaterState).               *)
Timed ==
  /\ rptState \in {"VALID", "VALID_WAIT"} => "timeout" \in timers
  /\ rptState \in Waiting => "ack" \in timers
  /\ rptState = "NETWORK" => "watchdog" \in timers
  /\ rptState = "LISTENING" => "beacon" \in timers

(* The two state machines agree: while an over is being repeated, refused   *)
(* or cut off, the receiver is in it, so its end will be seen; the one      *)
(* exception is that a stop made the controller refuse what the end asked   *)
(* for, until the stop is carried out.  One withdrawn before that leaves    *)
(* the state of the last over to the next (receiveModem, endOfRadioData).   *)
OverHeld == rptState \in {"VALID", "INVALID", "TIMEOUT"} => rxState = "PROCESS_DATA" \/ refused

(* What takes an over's frames elsewhere goes with that over: none of       *)
(* recording, deleting and passing on as busy data outlives it to swallow   *)
(* the next one, whatever states the repeater went through meanwhile, a     *)
(* shutdown included; and no two claim one over (processRadioFrame).        *)
TakenHeld ==
  /\ Taken => rxState = "PROCESS_DATA"
  /\ ~(recording /\ deleting) /\ ~(busyData /\ (recording \/ deleting))

(* The gateway's side of an over: the stream that is open there is that of  *)
(* a user who may be heard and is talking through the gateway, so it ends   *)
(* with the over, or early with the user's time; and whoever is heard there *)
(* without an open stream has asked to stay local, whose frames the code    *)
(* sends on all the same ("stray"), or talks over what a stop left behind.  *)
(* Only a shutdown leaves a stream unfinished ("cut") (processRadioHeader,  *)
(* processRadioFrame).                                                      *)
SpeaksUp == rptState = "VALID" /\ ~blocked /\ ~Taken /\ rxState = "PROCESS_DATA"

UplinkFramed ==
  /\ uplink = "open" => SpeaksUp /\ rxHeader = "gateway"
  /\ SpeaksUp => uplink = "open" \/ rxHeader = "local" \/ refused

(* The air carries one transmission: the radio's and the network's are      *)
(* never begun together, and the network queue that is not being read has   *)
(* never begun, unless a stop refused the end of a stream, which turns to   *)
(* the other queue before its state.  (Beacons and announcements are not in *)
(* this: a queue that is reset under one goes on air without a header.)     *)
OneOnAir ==
  ~refused => /\ ~(OnAir("radio") /\ OnAir("network"))
              /\ ~DataReady(network[Other(readNum)], Run["network"])

(* Every over, wait and network stream comes to an end, though packets be   *)
(* lost, once the gateway's frames stop: the repeater listens again, or is  *)
(* shut down.  What is left out is the over whose end a withdrawn stop made *)
(* the controller miss: refused or timed out, it stays until the next ends. *)
Stranded == rptState \in {"INVALID", "TIMEOUT"} /\ rxState # "PROCESS_DATA" /\ ~Stopping

Freed ==
  <>[][~NetworkData]_vars
    => (rptState \notin {"LISTENING", "SHUTDOWN"}
          ~> rptState \in {"LISTENING", "SHUTDOWN"} \/ Stranded)
=============================================================================
