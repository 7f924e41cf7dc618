------------------------ MODULE DStarRepeaterProofs ------------------------
(***************************************************************************)
(* Safety of the D-Star repeater controller for any queues and bounds: the *)
(* timers a state waits for run, an over that is being handled is being    *)
(* received, and what takes frames elsewhere goes with its over.  Then the *)
(* types of the queues, the framing of what goes up to the gateway, and    *)
(* that one transmission at a time is on the air.                          *)
(***************************************************************************)
EXTENDS DStarRepeater, TLAPS

\* disable is read where it is acted upon
DisabledIsDown == disable => rptState = "SHUTDOWN"

\* The inductive invariant behind the first three.
IInv == /\ rptState \in RptStates
        /\ {busyData, recording, deleting, shutdown, disable, refused} \subseteq BOOLEAN
        /\ Timed
        /\ OverHeld
        /\ TakenHeld
        /\ DisabledIsDown

(* Whatever the call is refused or does, the timers of the state are right. *)
LEMMA CallKeepsTimed ==
  ASSUME Timed, rptState \in RptStates,
         NEW state \in RptStates \ {"SHUTDOWN"}, NEW id, SetRepeaterState(state, id),
         state = "VALID_WAIT" => rptState = "VALID"
  PROVE  Timed' /\ rptState' \in RptStates
<1>1. CASE ~Accepts(state)
  <2>1. rptState' = rptState /\ timers \subseteq timers'
    BY <1>1 DEF SetRepeaterState
  <2> QED BY <2>1 DEF Timed
<1>2. CASE Accepts(state)
  <2>0. rptState' = state /\ timers' = TimersIn(state)
    BY <1>2 DEF SetRepeaterState
  <2>1. CASE state = "VALID"
    <3>1. rptState \in {"LISTENING", "VALID_WAIT"}
      BY <1>2, <2>1 DEF Accepts
    <3>2. "timeout" \in timers'
      BY <2>0, <2>1, <3>1 DEF TimersIn, Timed
    <3> QED BY <2>0, <2>1, <3>2 DEF Timed, Waiting, RptStates
  <2>2. CASE state = "VALID_WAIT"
    BY <2>0, <2>2 DEF TimersIn, Timed, Waiting, RptStates
  <2>3. CASE state \in {"INVALID_WAIT", "TIMEOUT_WAIT"}
    BY <2>0, <2>3 DEF TimersIn, Timed, Waiting, RptStates
  <2>4. CASE state \in {"LISTENING", "INVALID", "TIMEOUT", "NETWORK"}
    BY <2>0, <2>4 DEF TimersIn, Timed, Waiting, RptStates
  <2> QED BY <2>1, <2>2, <2>3, <2>4 DEF RptStates
<1> QED BY <1>1, <1>2

(* A refusal is remembered until the shutdown.                              *)
LEMMA RefusedStays ==
  ASSUME IInv, [Next]_vars, ~ShutsDown
  PROVE  refused => refused'
<1>1. ASSUME NEW state, NEW id, SetRepeaterState(state, id), refused
      PROVE  refused'
  BY <1>1 DEF SetRepeaterState
<1>2. SUFFICES ASSUME refused PROVE refused'
  OBVIOUS
<1>3. CASE \/ ControlHeader \/ ListedHeader \/ UnknownHeader \/ DataHeader \/ BusyHeader
           \/ SlowData \/ RadioData \/ ModemRead \/ NetworkData \/ NetworkRead \/ NothingDue
  BY <1>2, <1>3 DEF ControlHeader, ListedHeader, UnknownHeader, DataHeader, BusyHeader, SlowData,
                    RadioData, ModemRead, NetworkData, NetworkRead, NothingDue, radioVars
<1>4. CASE \/ (\E u \in Units : StartUnit(u)) \/ UserStatus \/ UnitsStarted \/ Clock
           \/ StartsUp \/ Carries \/ Operator \/ Write \/ WritesNothing \/ UNCHANGED vars
  BY <1>2, <1>4 DEF StartUnit, UserStatus, UnitsStarted, Clock, StartsUp, Carries, Operator,
                    Write, WritesNothing, Transmit, radioVars, vars
<1>5. CASE AnnouncementHeader \/ WrongHeader \/ ValidHeader
  BY <1>1, <1>2, <1>5 DEF AnnouncementHeader, WrongHeader, ValidHeader
<1>6. CASE RadioEnd
  <2>1. UNCHANGED refused \/ SetRepeaterState(AfterOver, inId)
    BY <1>6 DEF RadioEnd
  <2> QED BY <1>1, <1>2, <2>1
<1>7. CASE NetworkHeader \/ NetworkEnd
  <2>1. \/ UNCHANGED refused
        \/ SetRepeaterState("NETWORK", feed') \/ SetRepeaterState("LISTENING", 0)
    BY <1>7 DEF NetworkHeader, NetworkEnd, EndOfNetworkData
  <2> QED BY <1>1, <1>2, <2>1
<1>8. CASE UserTimedOut \/ WaitOver \/ StreamLost
  BY <1>1, <1>2, <1>8 DEF UserTimedOut, WaitOver, StreamLost, EndOfNetworkData
<1> QED BY <1>3, <1>4, <1>5, <1>6, <1>7, <1>8 DEF Next

(* The headers: the receiver is in the over from here.                      *)
LEMMA HeadersKeep ==
  ASSUME IInv,
         \/ ControlHeader \/ AnnouncementHeader \/ ListedHeader \/ UnknownHeader
         \/ WrongHeader \/ BusyHeader \/ ValidHeader
  PROVE  IInv'
<1>0. rxState # "PROCESS_DATA" /\ rxState' = "PROCESS_DATA" /\ disable' = disable
  BY DEF ControlHeader, AnnouncementHeader, ListedHeader, UnknownHeader, WrongHeader,
         BusyHeader, ValidHeader, HeaderRead, Receiving
<1>1. ~busyData /\ ~recording /\ ~deleting
  BY <1>0 DEF IInv, TakenHeld, Taken
<1>2. OverHeld'
  BY <1>0 DEF OverHeld
<1>3. CASE ControlHeader \/ ListedHeader \/ UnknownHeader \/ BusyHeader
  <2>1. UNCHANGED <<rptState, timers, refused, recording, deleting>> /\ shutdown' \in BOOLEAN
        /\ busyData' \in BOOLEAN
    BY <1>3 DEF ControlHeader, ListedHeader, UnknownHeader, BusyHeader, IInv
  <2> QED BY <1>0, <1>1, <1>2, <2>1 DEF IInv, Timed, TakenHeld, Taken, DisabledIsDown
<1>4. CASE AnnouncementHeader \/ WrongHeader
  <2>1. SetRepeaterState("INVALID", inId) /\ UNCHANGED <<shutdown, busyData>>
    BY <1>4 DEF AnnouncementHeader, WrongHeader
  <2>2. \/ UNCHANGED <<recording, deleting>>
        \/ recording' = TRUE /\ UNCHANGED deleting
        \/ deleting' = TRUE /\ UNCHANGED recording
    BY <1>4 DEF AnnouncementHeader, WrongHeader
  <2>3. Timed' /\ rptState' \in RptStates
    BY <2>1, CallKeepsTimed DEF IInv, RptStates
  <2>4. DisabledIsDown'
    BY <2>1, <1>0 DEF IInv, DisabledIsDown, SetRepeaterState, Accepts, Stopping
  <2>5. {busyData, recording, deleting, shutdown, disable, refused}' \subseteq BOOLEAN
    BY <1>0, <2>1, <2>2 DEF IInv, SetRepeaterState
  <2>6. TakenHeld'
    BY <1>0, <1>1, <2>1, <2>2 DEF TakenHeld
  <2> QED BY <1>2, <2>3, <2>4, <2>5, <2>6 DEF IInv
<1>5. CASE ValidHeader
  <2>1. SetRepeaterState("VALID", inId) /\ UNCHANGED <<shutdown, busyData, recording, deleting>>
    BY <1>5 DEF ValidHeader
  <2>2. Timed' /\ rptState' \in RptStates
    BY <2>1, CallKeepsTimed DEF IInv, RptStates
  <2>3. DisabledIsDown'
    BY <2>1, <1>0 DEF IInv, DisabledIsDown, SetRepeaterState, Accepts, Stopping
  <2>4. refused' \in BOOLEAN
    BY <2>1 DEF IInv, SetRepeaterState
  <2> QED BY <1>0, <1>1, <1>2, <2>1, <2>2, <2>3, <2>4 DEF IInv, TakenHeld, Taken
<1> QED BY <1>3, <1>4, <1>5

(* The end of an over, where the two state machines leave it together.      *)
LEMMA EndKeeps ==
  ASSUME IInv, RadioEnd
  PROVE  IInv'
<1>0. UNCHANGED <<shutdown, disable>> /\ rxState' = "LISTENING"
  BY DEF RadioEnd, stopVars
<1>1. recording' = FALSE /\ deleting' = FALSE /\ busyData' = FALSE
  BY DEF RadioEnd, Released, IInv, TakenHeld, Taken
<1>2. CASE rptState \in {"VALID", "INVALID", "TIMEOUT"}
  <2>1. SetRepeaterState(AfterOver, inId)
    BY <1>2 DEF RadioEnd
  <2>2. AfterOver \in {"LISTENING", "VALID_WAIT", "INVALID_WAIT", "TIMEOUT_WAIT"}
        /\ (AfterOver = "VALID_WAIT" => rptState = "VALID")
    BY DEF AfterOver
  <2>3. Timed' /\ rptState' \in RptStates
    BY <2>1, <2>2, CallKeepsTimed DEF IInv, RptStates
  <2>4. DisabledIsDown'
    BY <2>1, <1>0 DEF IInv, DisabledIsDown, SetRepeaterState, Accepts, Stopping
  <2>5. OverHeld'
    BY <1>2, <2>1, <2>2, <1>0 DEF OverHeld, SetRepeaterState, Accepts, Stopping
  <2>6. refused' \in BOOLEAN
    BY <2>1 DEF IInv, SetRepeaterState
  <2> QED BY <1>0, <1>1, <2>3, <2>4, <2>5, <2>6 DEF IInv, TakenHeld, Taken
<1>3. CASE rptState \notin {"VALID", "INVALID", "TIMEOUT"}
  <2>1. UNCHANGED <<rptState, timers, refused>>
    BY <1>3 DEF RadioEnd
  <2> QED BY <1>0, <1>1, <1>3, <2>1
          DEF IInv, Timed, OverHeld, TakenHeld, Taken, DisabledIsDown, Stopping
<1> QED BY <1>2, <1>3

(* The network and the state machine: at most a call of setRepeaterState,   *)
(* or the watchdog started once more.                                       *)
LEMMA CallsKeep ==
  ASSUME IInv, NetworkHeader \/ NetworkData \/ NetworkEnd \/ UserTimedOut \/ WaitOver \/ StreamLost
  PROVE  IInv'
<1>0. UNCHANGED <<rxState, busyData, recording, deleting, shutdown, disable>>
  BY DEF NetworkHeader, NetworkData, NetworkEnd, UserTimedOut, WaitOver, StreamLost,
         FromGateway, Machine, stopVars
<1>1. \/ UNCHANGED <<rptState, timers, refused>>
      \/ UNCHANGED <<rptState, refused>> /\ timers' = timers \cup {"watchdog"}
      \/ \E id : \E state \in {"NETWORK", "LISTENING"} : SetRepeaterState(state, id)
      \/ rptState = "VALID" /\ SetRepeaterState("TIMEOUT", inId)
  BY DEF NetworkHeader, NetworkData, NetworkEnd, UserTimedOut, WaitOver, StreamLost,
         EndOfNetworkData
<1>2. CASE UNCHANGED <<rptState, timers, refused>>
  BY <1>0, <1>2 DEF IInv, Timed, OverHeld, TakenHeld, Taken, DisabledIsDown, Stopping
<1>3. CASE UNCHANGED <<rptState, refused>> /\ timers' = timers \cup {"watchdog"}
  BY <1>0, <1>3 DEF IInv, Timed, OverHeld, TakenHeld, Taken, DisabledIsDown, Stopping
<1>4. ASSUME NEW state \in {"NETWORK", "LISTENING"}, NEW id, SetRepeaterState(state, id)
      PROVE  IInv'
  <2>1. Timed' /\ rptState' \in RptStates
    BY <1>4, CallKeepsTimed DEF IInv, RptStates
  <2>2. OverHeld' /\ DisabledIsDown'
    BY <1>0, <1>4 DEF IInv, OverHeld, DisabledIsDown, SetRepeaterState, Accepts, Stopping
  <2>3. refused' \in BOOLEAN
    BY <1>4 DEF IInv, SetRepeaterState
  <2> QED BY <1>0, <2>1, <2>2, <2>3 DEF IInv, TakenHeld, Taken
<1>5. CASE rptState = "VALID" /\ SetRepeaterState("TIMEOUT", inId)
  <2>1. Timed' /\ rptState' \in RptStates
    BY <1>5, CallKeepsTimed DEF IInv, RptStates
  <2>2. OverHeld' /\ DisabledIsDown'
    BY <1>0, <1>5 DEF IInv, OverHeld, DisabledIsDown, SetRepeaterState, Accepts, Stopping
  <2>3. refused' \in BOOLEAN
    BY <1>5 DEF IInv, SetRepeaterState
  <2> QED BY <1>0, <2>1, <2>2, <2>3 DEF IInv, TakenHeld, Taken
<1> QED BY <1>1, <1>2, <1>3, <1>4, <1>5

(* The shutdown inputs.                                                     *)
LEMMA ControlsKeep ==
  ASSUME IInv, ShutsDown \/ StartsUp \/ Carries \/ Operator
  PROVE  IInv'
<1>1. CASE ShutsDown \/ StartsUp \/ Carries
  <2>1. UNCHANGED <<rxState, busyData, recording, deleting, shutdown>> /\ disable' \in BOOLEAN
    BY <1>1 DEF ShutsDown, StartsUp, Carries, Control
  <2>2. CASE ShutsDown
    BY <2>1, <2>2 DEF ShutsDown, IInv, Timed, OverHeld, TakenHeld, Taken, DisabledIsDown,
                      RptStates, Waiting
  <2>3. CASE StartsUp
    BY <2>1, <2>3 DEF StartsUp, IInv, Timed, OverHeld, TakenHeld, Taken, DisabledIsDown,
                      RptStates, Waiting
  <2>4. CASE Carries
    <3>1. UNCHANGED <<rptState, timers, refused>>
          /\ (shutdown \/ disable') = (rptState = "SHUTDOWN")
      BY <2>4 DEF Carries
    <3> QED BY <2>1, <3>1 DEF IInv, Timed, OverHeld, TakenHeld, Taken, DisabledIsDown, Stopping
  <2> QED BY <1>1, <2>2, <2>3, <2>4
<1>2. CASE Operator
  <2>1. UNCHANGED <<rptState, rxState, timers, busyData, recording, deleting, disable, refused>>
        /\ shutdown' \in BOOLEAN
    BY <1>2 DEF Operator, radioVars
  <2> QED BY <2>1 DEF IInv, Timed, OverHeld, TakenHeld, Taken, DisabledIsDown, Stopping
<1> QED BY <1>1, <1>2

(* The rest of the loop leaves the control state alone.                     *)
LEMMA OthersKeep ==
  ASSUME IInv,
         \/ DataHeader \/ SlowData \/ RadioData \/ ModemRead \/ NetworkRead \/ NothingDue
         \/ (\E u \in Units : StartUnit(u)) \/ UserStatus \/ UnitsStarted \/ Clock
         \/ Write \/ WritesNothing \/ UNCHANGED vars
  PROVE  IInv'
<1>1. UNCHANGED <<rptState, timers, busyData, recording, deleting, shutdown, disable, refused>>
  BY DEF DataHeader, SlowData, RadioData, ModemRead, NetworkRead, NothingDue, StartUnit,
         UserStatus, UnitsStarted, Clock, Write, WritesNothing, Machine, Transmit, vars,
         radioVars, stopVars
<1>2. rxState' = rxState \/ rxState # "PROCESS_DATA"
  BY DEF DataHeader, SlowData, RadioData, ModemRead, NetworkRead, NothingDue, StartUnit,
         UserStatus, UnitsStarted, Clock, Write, WritesNothing, Machine, Transmit, vars,
         radioVars, Receiving
<1> QED BY <1>1, <1>2 DEF IInv, Timed, OverHeld, TakenHeld, Taken, DisabledIsDown, Stopping

\* The invariant is inductive, and holds at all times.
LEMMA Inductive == Spec => []IInv
<1>1. Init => IInv
  BY DEF Init, IInv, Timed, OverHeld, TakenHeld, Taken, DisabledIsDown, RptStates, Waiting
<1>2. IInv /\ [Next]_vars => IInv'
  BY HeadersKeep, EndKeeps, CallsKeep, ControlsKeep, OthersKeep DEF Next
<1> QED BY <1>1, <1>2, PTL DEF Spec

(* No state of the controller waits for a timer that is not running,        *)
(* whatever the order of overs, packets and shutdowns (setRepeaterState).   *)
THEOREM TimersRun == Spec => []Timed
<1>1. IInv => Timed BY DEF IInv
<1> QED BY <1>1, Inductive, PTL

(* An over that is repeated, refused or cut off is still being received, so *)
(* its end will be seen, unless a stop has made the controller refuse what  *)
(* an end asked for: whenever stops are asked for, and withdrawn before     *)
(* they are carried out (receiveModem, endOfRadioData).                     *)
THEOREM OversAreHeld == Spec => []OverHeld
<1>1. IInv => OverHeld BY DEF IInv
<1> QED BY <1>1, Inductive, PTL

(* Recording, deleting and busy data end with the over that began them      *)
(* (processRadioFrame).                                                     *)
THEOREM TakingEnds == Spec => []TakenHeld
<1>1. IInv => TakenHeld BY DEF IInv
<1> QED BY <1>1, Inductive, PTL

-------------------------------------------------------------------------------
(* The queues: what a transmission that is being built, one that is         *)
(* complete, and the writing of its items make of COutputQueue.             *)

\* no frame ends the transmission yet
Unended(q) == \A i \in 1..Len(q.frames) : q.frames[i] = "voice"

(* The count tells the frames while the run is held back, and a queue       *)
(* without a header is cleared or on the air.                               *)
Sound(q, run) ==
  /\ q.header /\ q.count < run => q.count = Len(q.frames)
  /\ ~q.header /\ q.count < run => q.count = 0 /\ q.frames = <<>>

\* a transmission that is being built
Open(q, run) == Unended(q) /\ (q.header \/ q.count >= run)

\* nothing that waits is held back
Complete(q, run) == q.header => q.count >= run

(* The two ways a queue begins.                                             *)
LEMMA BeginQueue ==
  ASSUME NEW run \in Nat \ {0}
  PROVE  /\ Clear \in Queues(run) /\ Sound(Clear, run) /\ Complete(Clear, run)
         /\ ~DataReady(Clear, run)
         /\ Fresh \in Queues(run) /\ Sound(Fresh, run) /\ Open(Fresh, run)
         /\ ~DataReady(Fresh, run)
<1>1. Clear \in Queues(run) /\ ~Clear.header /\ Clear.frames = <<>> /\ Clear.count = 0
  BY DEF Clear, Queues
<1>2. Fresh \in Queues(run) /\ Fresh.header /\ Fresh.frames = <<>> /\ Fresh.count = 0
  BY <1>1 DEF Fresh, Queues
<1> QED
  BY <1>1, <1>2 DEF Sound, Complete, Open, Unended, DataReady

(* An end that is added to a queue.                                         *)
LEMMA AddEndQueue ==
  ASSUME NEW run \in Nat \ {0}, NEW q \in Queues(run), Space \in Nat
  PROVE  LET e == AddEnd(q, run) IN
         /\ e \in Queues(run) /\ e.header = q.header
         /\ run <= Space /\ Sound(q, run) => Sound(e, run) /\ Complete(e, run)
         /\ Sound(q, run) /\ Open(q, run) => (DataReady(e, run) <=> DataReady(q, run))
         /\ run <= Space /\ q = Clear => DataReady(e, run)
<1> DEFINE e == AddEnd(q, run)
<1>0. q.frames \in Seq(Frames) /\ q.header \in BOOLEAN /\ q.count \in 0..run /\ Len(q.frames) \in Nat
  BY DEF Queues
<1>1. CASE Len(q.frames) >= Space
  <2>1. e = q
    BY <1>1 DEF AddEnd
  <2>2. run <= Space /\ Sound(q, run) => q.count >= run \/ (~q.header /\ q.frames = <<>>)
    BY <1>0, <1>1 DEF Sound
  <2>3. run <= Space => ~(q = Clear)
    BY <1>1 DEF Clear
  <2> QED
    BY <2>1, <2>2, <2>3, <1>0 DEF Complete
<1>2. CASE ~(Len(q.frames) >= Space)
  <2>1. e = [header |-> q.header, frames |-> Append(q.frames, "end"), count |-> run]
    BY <1>2 DEF AddEnd, Queues
  <2>2. Append(q.frames, "end") \in Seq(Frames) /\ run \in 0..run
    BY <1>0 DEF Frames
  <2>3. e \in Queues(run)
    BY <1>0, <2>1, <2>2 DEF Queues
  <2>4. e.header = q.header /\ e.count = run
    BY <2>1
  <2>5. Clear.header = FALSE
    BY DEF Clear
  <2> QED
    BY <1>0, <2>3, <2>4, <2>5 DEF Sound, Complete, Open, DataReady
<1> QED
  BY <1>1, <1>2

(* Voice that is added to a queue.                                          *)
LEMMA AddVoiceQueue ==
  ASSUME NEW run \in Nat \ {0}, NEW q \in Queues(run), Space \in Nat, NEW n \in Nat
  PROVE  LET v == AddVoice(q, run, n) IN
         /\ v \in Queues(run) /\ v.header = q.header
         /\ Sound(q, run) /\ Open(q, run) =>
              Sound(v, run) /\ Open(v, run) /\ (DataReady(v, run) <=> DataReady(q, run))
<1> DEFINE v == AddVoice(q, run, n)
           room == IF Len(q.frames) >= Space THEN 0 ELSE Space - Len(q.frames)
           added == Least(n, room)
           more == [i \in 1..added |-> "voice"]
<1>0. q.frames \in Seq(Frames) /\ q.header \in BOOLEAN /\ q.count \in 0..run /\ Len(q.frames) \in Nat
  BY DEF Queues
<1>1. added \in Nat
  BY <1>0 DEF Least
<1>2. v = [q EXCEPT !.frames = q.frames \o more, !.count = Least(q.count + added, run)]
  BY DEF AddVoice
<1> HIDE DEF added, v
<1>3. /\ more \in Seq(Frames) /\ Len(more) = added
      /\ \A i \in 1..added : more[i] = "voice"
  BY <1>1 DEF Frames
<1> HIDE DEF more
<1>4. /\ q.frames \o more \in Seq(Frames) /\ Len(q.frames \o more) = Len(q.frames) + added
      /\ Unended(q) => \A i \in 1..Len(q.frames \o more) : (q.frames \o more)[i] = "voice"
  BY <1>0, <1>1, <1>3 DEF Unended
<1>5. /\ Least(q.count + added, run) \in 0..run
      /\ q.count >= run => Least(q.count + added, run) >= run
      /\ Least(q.count + added, run) < run => Least(q.count + added, run) = q.count + added
  BY <1>0, <1>1 DEF Least
<1>6. /\ v \in Queues(run) /\ v.header = q.header
      /\ v.count = Least(q.count + added, run) /\ v.frames = q.frames \o more
  <2> DEFINE f == q.frames \o more
             c == Least(q.count + added, run)
  <2>1. f \in Seq(Frames) /\ c \in 0..run
    BY <1>4, <1>5
  <2> HIDE DEF f, c
  <2>2. LET e == [q EXCEPT !.frames = f, !.count = c] IN
        e \in Queues(run) /\ e.header = q.header /\ e.frames = f /\ e.count = c
    BY <2>1 DEF Queues
  <2> QED
    BY <1>2, <2>2 DEF f, c
<1>7. ASSUME Sound(q, run), Open(q, run)
      PROVE  Sound(v, run) /\ Open(v, run) /\ (DataReady(v, run) <=> DataReady(q, run))
  <2>1. v.header = q.header /\ v.count = Least(q.count + added, run) /\ v.frames = q.frames \o more
    BY <1>6
  <2>2. v.header /\ v.count < run => v.count = Len(v.frames)
    BY <1>0, <1>1, <1>4, <1>5, <1>7, <2>1 DEF Sound
  <2>3. Open(v, run) /\ (v.header \/ v.count >= run)
    BY <1>0, <1>1, <1>4, <1>5, <1>7, <2>1 DEF Open, Unended
  <2> QED
    BY <1>0, <1>5, <1>7, <2>1, <2>2, <2>3 DEF Sound, Open, DataReady
<1> QED
  BY <1>6, <1>7 DEF v

(* A header goes to the modem when its run is complete.                     *)
LEMMA TakeHeaderQueue ==
  ASSUME NEW run \in Nat \ {0}, NEW q \in Queues(run)
  PROVE  /\ TakeHeader(q) \in Queues(run)
         /\ HeaderReady(q, run) => /\ Sound(TakeHeader(q), run) /\ Complete(TakeHeader(q), run)
                                   /\ Open(q, run) => Open(TakeHeader(q), run)
<1>1. /\ TakeHeader(q) \in Queues(run) /\ ~TakeHeader(q).header
      /\ TakeHeader(q).frames = q.frames /\ TakeHeader(q).count = q.count
  BY DEF TakeHeader, Queues
<1> QED
  BY <1>1 DEF Queues, HeaderReady, Sound, Complete, Open, Unended

(* A frame goes to the modem, which is on the air.                          *)
LEMMA TakeFrameQueue ==
  ASSUME NEW run \in Nat \ {0}, NEW q \in Queues(run), q.frames # <<>>
  PROVE  /\ TakeFrame(q) \in Queues(run)
         /\ DataReady(q, run) => /\ Sound(TakeFrame(q), run) /\ Complete(TakeFrame(q), run)
                                 /\ DataReady(TakeFrame(q), run)
                                 /\ Open(q, run) => Open(TakeFrame(q), run)
<1>0. q.frames \in Seq(Frames) /\ q.header \in BOOLEAN /\ q.count \in 0..run
  BY DEF Queues
<1>1. TakeFrame(q) = [q EXCEPT !.frames = Tail(q.frames)]
  BY DEF TakeFrame
<1>2. /\ Tail(q.frames) \in Seq(Frames) /\ Len(Tail(q.frames)) = Len(q.frames) - 1
      /\ \A i \in 1..Len(Tail(q.frames)) : Tail(q.frames)[i] = q.frames[i + 1]
  BY <1>0
<1>3. /\ TakeFrame(q) \in Queues(run) /\ TakeFrame(q).header = q.header
      /\ TakeFrame(q).frames = Tail(q.frames) /\ TakeFrame(q).count = q.count
  BY <1>1, <1>2 DEF Queues
<1>4. Unended(q) => Unended(TakeFrame(q))
  BY <1>0, <1>2, <1>3 DEF Unended
<1> QED
  BY <1>0, <1>3, <1>4 DEF DataReady, Sound, Complete, Open

-------------------------------------------------------------------------------
(* The types.                                                               *)

\* the part of TypeOK about the queues
QueuesOK ==
  /\ local \in Queues(Run["local"]) /\ radio \in Queues(Run["radio"])
  /\ network \in [Slots -> Queues(Run["network"])] /\ readNum \in Slots /\ writeNum \in Slots

\* the part about what setRepeaterState sets
CallOK == rptState \in RptStates /\ timers \subseteq Timers /\ inId \in 0..MaxEvents

\* the rest of the radio's side
OverOK ==
  /\ rxState \in RxStates /\ rxHeader \in {"none", "local", "gateway", "other"}
  /\ blocked \in BOOLEAN /\ busyData \in BOOLEAN /\ recording \in BOOLEAN /\ deleting \in BOOLEAN
  /\ uplink \in {"idle", "open", "cut", "stray"}

\* the loop, the gateway, which numbers its streams by the events that begin
\* them, the shutdown inputs and the units
LoopOK ==
  /\ mode \in Modes /\ acks \in BOOLEAN /\ phase \in Phases
  /\ shutdown \in BOOLEAN /\ disable \in BOOLEAN
  /\ feeding \in BOOLEAN /\ heard \in BOOLEAN
  /\ feed \in 0..MaxEvents /\ feed <= events /\ events \in 0..MaxEvents
  /\ sending \in [Units -> 0..UnitFrames]

\* TypeOK by its parts
TypeInv == QueuesOK /\ CallOK /\ OverOK /\ LoopOK

(* What the code assumes of its constants, one by one.                      *)
LEMMA Constants ==
  /\ Space \in Nat /\ UnitFrames \in Nat /\ MaxEvents \in Nat /\ MaxInsert \in Nat
  /\ \A kind \in Kinds : Run[kind] \in Nat \ {0} /\ Run[kind] <= Space
  /\ "local" \in Kinds /\ "radio" \in Kinds /\ "network" \in Kinds
BY RepeaterAssumption DEF Kinds

(* The other network queue is one of the two.                               *)
LEMMA OtherSlot == \A i \in Slots : Other(i) \in Slots /\ Other(i) # i /\ Other(Other(i)) = i
                                   /\ \A j \in Slots : j = i \/ j = Other(i)
BY DEF Slots, Other

(* A call of setRepeaterState.                                              *)
LEMMA CallTypes ==
  ASSUME CallOK, NEW state \in RptStates \ {"SHUTDOWN"}, NEW id \in 0..MaxEvents,
         SetRepeaterState(state, id)
  PROVE  CallOK'
<1>1. TimersIn(state) \subseteq Timers
  BY DEF CallOK, TimersIn, Timers
<1>3. timers \cup {"beacon", "announcement"} \subseteq Timers
  BY DEF CallOK, Timers
<1>2. 0 \in 0..MaxEvents
  BY Constants
<1> QED
  BY <1>1, <1>2, <1>3 DEF CallOK, SetRepeaterState

(* Every way a queue is changed gives a queue.                              *)
LEMMA QueueTypes ==
  ASSUME NEW kind \in Kinds, NEW q \in Queues(Run[kind])
  PROVE  /\ Clear \in Queues(Run[kind]) /\ Fresh \in Queues(Run[kind])
         /\ AddEnd(q, Run[kind]) \in Queues(Run[kind])
         /\ \A n \in Nat : AddVoice(q, Run[kind], n) \in Queues(Run[kind])
         /\ TakeHeader(q) \in Queues(Run[kind])
         /\ q.frames # <<>> => TakeFrame(q) \in Queues(Run[kind])
<1>1. Run[kind] \in Nat \ {0} /\ Space \in Nat
  BY Constants
<1> QED
  BY <1>1, BeginQueue, AddEndQueue, AddVoiceQueue, TakeHeaderQueue, TakeFrameQueue

(* The status of a user is a whole transmission.                            *)
LEMMA StatusType == Status \in Queues(Run["local"])
<1>1. Fresh \in Queues(Run["local"])
  BY Constants, BeginQueue
<1>2. AddVoice(Fresh, Run["local"], 1) \in Queues(Run["local"])
  BY <1>1, Constants, QueueTypes
<1> QED
  BY <1>2, Constants, QueueTypes DEF Status

(* The headers of the air.                                                  *)
LEMMA HeaderTypes ==
  ASSUME TypeInv,
         \/ ControlHeader \/ AnnouncementHeader \/ ListedHeader \/ UnknownHeader
         \/ WrongHeader \/ BusyHeader \/ ValidHeader
  PROVE  TypeInv'
<1>0. QueuesOK /\ CallOK /\ OverOK /\ LoopOK
  BY DEF TypeInv
<1>1. HeaderRead
  BY DEF ControlHeader, AnnouncementHeader, ListedHeader, UnknownHeader, WrongHeader,
         BusyHeader, ValidHeader
<1>2. shutdown' \in BOOLEAN
  BY <1>0 DEF ControlHeader, AnnouncementHeader, ListedHeader, UnknownHeader, WrongHeader,
              BusyHeader, ValidHeader, LoopOK
<1>3. LoopOK'
  BY <1>0, <1>1, <1>2, Constants DEF HeaderRead, Event, setup, LoopOK
<1>4. QueuesOK'
  <2>1. radio' = radio \/ radio' = Fresh
    BY DEF ControlHeader, AnnouncementHeader, ListedHeader, UnknownHeader, WrongHeader,
           BusyHeader, ValidHeader
  <2>2. UNCHANGED <<local, network, readNum, writeNum>>
    BY <1>1 DEF HeaderRead
  <2>3. Fresh \in Queues(Run["radio"])
    BY Constants, BeginQueue
  <2> QED
    BY <1>0, <2>1, <2>2, <2>3 DEF QueuesOK
<1>5. CallOK'
  <2>1. \/ UNCHANGED <<rptState, timers, refused, inId>>
        \/ SetRepeaterState("INVALID", inId) \/ SetRepeaterState("VALID", inId)
    BY DEF ControlHeader, AnnouncementHeader, ListedHeader, UnknownHeader, WrongHeader,
           BusyHeader, ValidHeader
  <2>2. "INVALID" \in RptStates \ {"SHUTDOWN"} /\ "VALID" \in RptStates \ {"SHUTDOWN"}
        /\ inId \in 0..MaxEvents
    BY <1>0 DEF RptStates, CallOK
  <2>3. CASE UNCHANGED <<rptState, timers, refused, inId>>
    BY <1>0, <2>3 DEF CallOK
  <2> QED
    BY <1>0, <2>1, <2>2, <2>3, CallTypes
<1>6. OverOK'
  <2>1. rxState' = "PROCESS_DATA"
    BY <1>1 DEF HeaderRead
  <2>2. rxHeader' \in {rxHeader, "local", "gateway", "other"}
    BY DEF ControlHeader, AnnouncementHeader, ListedHeader, UnknownHeader, WrongHeader,
           BusyHeader, ValidHeader
  <2>3. /\ blocked' \in {blocked, TRUE, FALSE} /\ busyData' \in {busyData, TRUE}
        /\ recording' \in {recording, TRUE} /\ deleting' \in {deleting, TRUE}
    BY DEF ControlHeader, AnnouncementHeader, ListedHeader, UnknownHeader, WrongHeader,
           BusyHeader, ValidHeader, Graded
  <2>4. uplink' \in {uplink, "open"}
    BY DEF ControlHeader, AnnouncementHeader, ListedHeader, UnknownHeader, WrongHeader,
           BusyHeader, ValidHeader
  <2> QED
    BY <1>0, <2>1, <2>2, <2>3, <2>4 DEF OverOK, RxStates
<1> QED
  BY <1>3, <1>4, <1>5, <1>6 DEF TypeInv

(* Frames of the air, data, and the end of an over.                         *)
LEMMA OverTypes ==
  ASSUME TypeInv, DataHeader \/ SlowData \/ RadioData \/ RadioEnd \/ ModemRead
  PROVE  TypeInv'
<1>0. QueuesOK /\ CallOK /\ OverOK /\ LoopOK
  BY DEF TypeInv
<1>1. LoopOK'
  <2>1. /\ UNCHANGED <<mode, acks, feed, feeding, heard, shutdown, disable, sending>>
        /\ events' = events \/ Event
        /\ phase' = phase \/ phase' = "network"
    BY DEF DataHeader, SlowData, RadioData, RadioEnd, ModemRead, setup, gatewayVars, stopVars
  <2> QED
    BY <1>0, <2>1, Constants DEF LoopOK, Event, Phases
<1>2. QueuesOK'
  <2>1. UNCHANGED <<local, network, readNum, writeNum>>
    BY DEF DataHeader, SlowData, RadioData, RadioEnd, ModemRead, queueVars
  <2>2. \/ radio' = radio \/ radio' = AddVoice(radio, Run["radio"], 1)
        \/ radio' = AddEnd(radio, Run["radio"])
    BY DEF DataHeader, SlowData, RadioData, RadioEnd, ModemRead, queueVars
  <2>3. radio' \in Queues(Run["radio"])
    BY <1>0, <2>2, Constants, QueueTypes DEF QueuesOK
  <2> QED
    BY <1>0, <2>1, <2>3 DEF QueuesOK
<1>3. CallOK'
  <2>1. UNCHANGED <<rptState, timers, refused, inId>> \/ SetRepeaterState(AfterOver, inId)
    BY DEF DataHeader, SlowData, RadioData, RadioEnd, ModemRead, radioVars, gatewayVars
  <2>2. AfterOver \in RptStates \ {"SHUTDOWN"} /\ inId \in 0..MaxEvents
    BY <1>0 DEF AfterOver, RptStates, CallOK
  <2>3. CASE UNCHANGED <<rptState, timers, refused, inId>>
    BY <1>0, <2>3 DEF CallOK
  <2> QED
    BY <1>0, <2>1, <2>2, <2>3, CallTypes
<1>4. OverOK'
  <2>1. rxState' \in RxStates
    BY <1>0 DEF DataHeader, SlowData, RadioData, RadioEnd, ModemRead, radioVars, OverOK, RxStates
  <2>2. UNCHANGED rxHeader /\ blocked' \in {blocked, TRUE, FALSE}
    BY DEF DataHeader, SlowData, RadioData, RadioEnd, ModemRead, radioVars, Graded
  <2>3. \/ UNCHANGED <<busyData, recording, deleting>> \/ Released
    BY DEF DataHeader, SlowData, RadioData, RadioEnd, ModemRead, radioVars
  <2>4. uplink' \in {uplink, "idle", "stray"}
    BY DEF DataHeader, SlowData, RadioData, RadioEnd, ModemRead, gatewayVars, UplinkFrame,
           UplinkEnd
  <2>5. busyData' \in BOOLEAN /\ recording' \in BOOLEAN /\ deleting' \in BOOLEAN
    BY <1>0, <2>3 DEF Released, OverOK
  <2> QED
    BY <1>0, <2>1, <2>2, <2>4, <2>5 DEF OverOK
<1> QED
  BY <1>1, <1>2, <1>3, <1>4 DEF TypeInv

(* A change of the queue that is being written.                             *)
LEMMA WrittenTypes ==
  ASSUME QueuesOK
  PROVE  /\ \A n \in Nat : [network EXCEPT ![writeNum] = AddVoice(@, Run["network"], n)]
                             \in [Slots -> Queues(Run["network"])]
         /\ [network EXCEPT ![writeNum] = AddEnd(@, Run["network"])]
              \in [Slots -> Queues(Run["network"])]
<1>1. network[writeNum] \in Queues(Run["network"])
  BY DEF QueuesOK
<1>2. \A q \in Queues(Run["network"]) :
        [network EXCEPT ![writeNum] = q] \in [Slots -> Queues(Run["network"])]
  BY DEF QueuesOK
<1> QED
  BY <1>1, <1>2, Constants, QueueTypes

(* A stream takes its place in the queues.                                  *)
LEMMA NetworkQueuedTypes ==
  ASSUME QueuesOK, NetworkQueued
  PROVE  network' \in [Slots -> Queues(Run["network"])] /\ readNum' \in Slots
<1> DEFINE old == network[readNum]
           purge == HeaderReady(old, Run["network"])
           item == IF IsEmpty(old) THEN old ELSE IF purge THEN Clear ELSE AddEnd(Clear, Run["network"])
<1>1. old \in Queues(Run["network"])
  BY DEF QueuesOK
<1>2. Clear \in Queues(Run["network"]) /\ Fresh \in Queues(Run["network"])
  BY Constants, BeginQueue
<1>3. AddEnd(Clear, Run["network"]) \in Queues(Run["network"])
  BY <1>2, Constants, QueueTypes
<1>4. item \in Queues(Run["network"])
  BY <1>1, <1>2, <1>3
<1>5. network' = [[network EXCEPT ![readNum] = item] EXCEPT ![writeNum] = Fresh]
      /\ readNum' \in {readNum, Other(readNum)}
  BY DEF NetworkQueued
<1> HIDE DEF item
<1> QED
  BY <1>2, <1>4, <1>5, OtherSlot DEF QueuesOK

(* The gateway's packets.                                                   *)
LEMMA PacketTypes ==
  ASSUME TypeInv, NetworkHeader \/ NetworkData \/ NetworkEnd \/ NetworkRead
  PROVE  TypeInv'
<1>0. QueuesOK /\ CallOK /\ OverOK /\ LoopOK
  BY DEF TypeInv
<1>1. LoopOK'
  <2>1. UNCHANGED <<mode, acks, shutdown, disable, sending>>
    BY DEF NetworkHeader, NetworkData, NetworkEnd, NetworkRead, FromGateway, setup, stopVars
  <2>2. \/ Event /\ feed' = feed + 1 /\ feeding' = TRUE /\ phase' = phase
        \/ /\ UNCHANGED <<events, feed>> /\ feeding' \in {feeding, FALSE}
           /\ phase' \in {phase, "machine"}
    BY DEF NetworkHeader, NetworkData, NetworkEnd, NetworkRead, FromGateway, gatewayVars
  <2>3. /\ feed' \in 0..MaxEvents /\ feed' <= events' /\ events' \in 0..MaxEvents
    <3>1. \/ feed' = feed /\ events' = events
          \/ feed' = feed + 1 /\ events' = events + 1 /\ events < MaxEvents
      BY <2>2 DEF Event
    <3>2. feed \in Nat /\ events \in Nat /\ feed <= events /\ events <= MaxEvents
      BY <1>0, Constants DEF LoopOK
    <3> QED
      BY <3>1, <3>2, Constants
  <2>4. feeding' \in BOOLEAN /\ phase' \in Phases /\ heard' \in BOOLEAN
    BY <1>0, <2>2 DEF LoopOK, Phases, NetworkHeader, NetworkData, NetworkEnd, NetworkRead,
                      gatewayVars
  <2> QED
    BY <1>0, <2>1, <2>3, <2>4 DEF LoopOK
<1>2. QueuesOK'
  <2>1. UNCHANGED <<local, radio>>
    BY DEF NetworkHeader, NetworkData, NetworkEnd, NetworkRead, FromGateway
  <2>2. writeNum' \in {writeNum, Other(writeNum)}
    BY DEF NetworkHeader, NetworkData, NetworkEnd, NetworkRead, EndOfNetworkData
  <2>3. network' \in [Slots -> Queues(Run["network"])] /\ readNum' \in Slots
    <3>1. \/ UNCHANGED <<network, readNum>> \/ NetworkQueued
          \/ /\ UNCHANGED readNum
             /\ \/ \E n \in Nat : network' = [network EXCEPT ![writeNum] = AddVoice(@, Run["network"], n)]
                \/ network' = [network EXCEPT ![writeNum] = AddEnd(@, Run["network"])]
      BY Constants DEF NetworkHeader, NetworkData, NetworkEnd, NetworkRead
    <3>2. CASE UNCHANGED <<network, readNum>>
      BY <1>0, <3>2 DEF QueuesOK
    <3>3. CASE NetworkQueued
      BY <1>0, <3>3, NetworkQueuedTypes
    <3>4. readNum \in Slots
      BY <1>0 DEF QueuesOK
    <3> QED
      BY <1>0, <3>1, <3>2, <3>3, <3>4, WrittenTypes
  <2> QED
    BY <1>0, <2>1, <2>2, <2>3, OtherSlot DEF QueuesOK
<1>3. CallOK'
  <2>1. 0 \in 0..MaxEvents /\ feed \in 0..MaxEvents /\ feed' \in 0..MaxEvents /\ inId \in 0..MaxEvents
    BY <1>0, <1>1, Constants DEF LoopOK, CallOK
  <2>2. "NETWORK" \in RptStates \ {"SHUTDOWN"} /\ "LISTENING" \in RptStates \ {"SHUTDOWN"}
    BY DEF RptStates
  <2>3. \/ /\ UNCHANGED rptState /\ timers' \in {timers, timers \cup {"watchdog"}}
           /\ inId' \in {inId, feed', 0} /\ UNCHANGED refused
        \/ SetRepeaterState("NETWORK", feed')
        \/ SetRepeaterState("LISTENING", 0)
    BY DEF NetworkHeader, NetworkData, NetworkEnd, NetworkRead, EndOfNetworkData, radioVars,
           gatewayVars
  <2> QED
    BY <1>0, <2>1, <2>2, <2>3, CallTypes DEF CallOK, Timers
<1>4. OverOK'
  <2>1. UNCHANGED <<rxState, blocked, busyData, recording, deleting, uplink>>
    BY DEF NetworkHeader, NetworkData, NetworkEnd, NetworkRead, FromGateway, radioVars, gatewayVars
  <2>2. rxHeader' \in {rxHeader, "other"}
    BY DEF NetworkHeader, NetworkData, NetworkEnd, NetworkRead, radioVars
  <2> QED
    BY <1>0, <2>1, <2>2 DEF OverOK
<1> QED
  BY <1>1, <1>2, <1>3, <1>4 DEF TypeInv

(* The state machine.                                                       *)
LEMMA MachineTypes ==
  ASSUME TypeInv, UserTimedOut \/ WaitOver \/ StreamLost \/ NothingDue
  PROVE  TypeInv'
<1>0. QueuesOK /\ CallOK /\ OverOK /\ LoopOK
  BY DEF TypeInv
<1>1. LoopOK'
  BY <1>0 DEF UserTimedOut, WaitOver, StreamLost, NothingDue, Machine, setup, stopVars, LoopOK, Phases
<1>2. QueuesOK'
  <2>1. /\ UNCHANGED readNum /\ writeNum' \in {writeNum, Other(writeNum)}
        /\ local' \in {local, Status}
        /\ radio' = radio \/ radio' = AddEnd(radio, Run["radio"])
        /\ network' = network \/ network' = [network EXCEPT ![writeNum] = AddEnd(@, Run["network"])]
    BY DEF UserTimedOut, WaitOver, StreamLost, NothingDue, EndOfNetworkData, queueVars
  <2>2. radio' \in Queues(Run["radio"])
    BY <1>0, <2>1, Constants, QueueTypes DEF QueuesOK
  <2>3. network' \in [Slots -> Queues(Run["network"])]
    BY <1>0, <2>1, WrittenTypes DEF QueuesOK
  <2> QED
    BY <1>0, <2>1, <2>2, <2>3, OtherSlot, StatusType DEF QueuesOK
<1>3. CallOK'
  <2>1. \/ UNCHANGED <<rptState, timers, refused, inId>>
        \/ SetRepeaterState("TIMEOUT", inId) \/ SetRepeaterState("LISTENING", inId)
    BY DEF UserTimedOut, WaitOver, StreamLost, NothingDue, EndOfNetworkData
  <2>2. "TIMEOUT" \in RptStates \ {"SHUTDOWN"} /\ "LISTENING" \in RptStates \ {"SHUTDOWN"}
        /\ inId \in 0..MaxEvents
    BY <1>0 DEF RptStates, CallOK
  <2>3. CASE UNCHANGED <<rptState, timers, refused, inId>>
    BY <1>0, <2>3 DEF CallOK
  <2> QED
    BY <1>0, <2>1, <2>2, <2>3, CallTypes
<1>4. OverOK'
  <2>1. UNCHANGED <<rxState, rxHeader, blocked, busyData, recording, deleting>>
    BY DEF UserTimedOut, WaitOver, StreamLost, NothingDue, Machine
  <2>2. uplink' \in {uplink, "idle", "stray"}
    BY DEF UserTimedOut, WaitOver, StreamLost, NothingDue, UplinkEnd
  <2> QED
    BY <1>0, <2>1, <2>2 DEF OverOK
<1> QED
  BY <1>1, <1>2, <1>3, <1>4 DEF TypeInv

(* Beacons, announcements, statuses and their frames.                       *)
LEMMA UnitTypes ==
  ASSUME TypeInv, (\E u \in Units : StartUnit(u)) \/ UserStatus \/ UnitsStarted \/ Clock
  PROVE  TypeInv'
<1>0. QueuesOK /\ CallOK /\ OverOK /\ LoopOK
  BY DEF TypeInv
<1>1. UNCHANGED <<setup, radioVars, radio, network, readNum, writeNum, gatewayVars, stopVars>>
  BY DEF StartUnit, UserStatus, UnitsStarted, Clock, queueVars
<1>2. CallOK' /\ OverOK'
  BY <1>0, <1>1 DEF CallOK, OverOK, radioVars, gatewayVars
<1>3. LoopOK'
  <2>1. (events' = events \/ Event) /\ phase' \in {phase, "control", "modem"}
    BY DEF StartUnit, UserStatus, UnitsStarted, Clock
  <2>2. sending' \in [Units -> 0..UnitFrames]
    <3>1. \/ UNCHANGED sending
          \/ \E u \in Units : sending' = [sending EXCEPT ![u] = UnitFrames]
          \/ \E u \in Units : sending[u] > 0 /\ sending' = [sending EXCEPT ![u] = @ - 1]
      BY DEF StartUnit, UserStatus, UnitsStarted, Clock
    <3> QED
      BY <1>0, <3>1, Constants DEF LoopOK
  <2>3. events' \in 0..MaxEvents /\ feed <= events'
    BY <1>0, <2>1, Constants DEF Event, LoopOK
  <2>4. UNCHANGED <<mode, acks, feed, feeding, heard, shutdown, disable>>
    BY <1>1 DEF setup, gatewayVars, stopVars
  <2> QED
    BY <1>0, <2>1, <2>2, <2>3, <2>4 DEF LoopOK, Phases
<1>4. QueuesOK'
  <2>1. \/ local' \in {local, Fresh, Status}
        \/ \E u \in Units : local' = UnitFrame(local, u)
    BY DEF StartUnit, UserStatus, UnitsStarted, Clock, queueVars
  <2>2. \A u \in Units : UnitFrame(local, u) \in Queues(Run["local"])
    <3>1. AddVoice(local, Run["local"], 1) \in Queues(Run["local"])
      BY <1>0, Constants, QueueTypes DEF QueuesOK
    <3> QED
      BY <3>1, Constants, QueueTypes DEF UnitFrame
  <2>3. local' \in Queues(Run["local"])
    BY <1>0, <2>1, <2>2, StatusType, Constants, BeginQueue DEF QueuesOK
  <2> QED
    BY <1>0, <1>1, <2>3 DEF QueuesOK
<1> QED
  BY <1>2, <1>3, <1>4 DEF TypeInv

(* The shutdown inputs and the operator.                                    *)
LEMMA ControlTypes ==
  ASSUME TypeInv, ShutsDown \/ StartsUp \/ Carries \/ Operator
  PROVE  TypeInv'
<1>0. QueuesOK /\ CallOK /\ OverOK /\ LoopOK
  BY DEF TypeInv
<1>1. /\ UNCHANGED <<mode, acks, rxState, rxHeader, blocked, busyData, recording, deleting,
                     readNum, writeNum, feed, feeding, heard, sending>>
      /\ disable' \in BOOLEAN /\ shutdown' \in BOOLEAN
  BY <1>0 DEF ShutsDown, StartsUp, Carries, Operator, Control, setup, radioVars, queueVars,
              gatewayVars, LoopOK
<1>2. (events' = events \/ Event) /\ phase' \in {phase, "transmit"}
  BY DEF ShutsDown, StartsUp, Carries, Operator, Control
<1>3. LoopOK'
  BY <1>0, <1>1, <1>2, Constants DEF Event, LoopOK, Phases
<1>4. QueuesOK'
  <2>1. \/ UNCHANGED <<local, radio, network>>
        \/ local' = Clear /\ radio' = Clear /\ network' = [i \in Slots |-> Clear]
    BY DEF ShutsDown, StartsUp, Carries, Operator, queueVars
  <2> QED
    BY <1>0, <1>1, <2>1, Constants, BeginQueue DEF QueuesOK
<1>5. CallOK'
  <2>1. inId' \in {inId, 0} /\ rptState' \in {rptState, "SHUTDOWN", "LISTENING"}
    BY DEF ShutsDown, StartsUp, Carries, Operator, radioVars, gatewayVars
  <2>2. timers' \subseteq timers \cup {"beacon", "announcement"}
    BY DEF ShutsDown, StartsUp, Carries, Operator, radioVars
  <2>3. 0 \in 0..MaxEvents
    BY Constants
  <2> QED
    BY <1>0, <2>1, <2>2, <2>3 DEF CallOK, RptStates, Timers
<1>6. OverOK'
  <2>1. uplink' \in {uplink, "cut"}
    BY DEF ShutsDown, StartsUp, Carries, Operator, gatewayVars
  <2> QED
    BY <1>0, <1>1, <2>1 DEF OverOK
<1> QED
  BY <1>3, <1>4, <1>5, <1>6 DEF TypeInv

(* What is chosen is ready.                                                 *)
LEMMA ChosenReady ==
  ASSUME Chosen # "none"
  PROVE  /\ Chosen \in Kinds
         /\ OnAir(Chosen) \/ (Starts(Chosen) /\ \A kind \in Kinds : ~OnAir(kind))
         /\ Chosen # "radio" => ~OnAir("radio")
BY DEF Chosen, Kinds

(* One item is written.                                                     *)
LEMMA WriteTypes ==
  ASSUME TypeInv, Write \/ WritesNothing
  PROVE  TypeInv'
<1>0. QueuesOK /\ CallOK /\ OverOK /\ LoopOK
  BY DEF TypeInv
<1>1. Transmit
  BY DEF Write, WritesNothing
<1>2. CallOK' /\ OverOK' /\ LoopOK'
  BY <1>0, <1>1 DEF Transmit, setup, radioVars, gatewayVars, stopVars, CallOK, OverOK, LoopOK, Phases
<1>3. CASE WritesNothing
  BY <1>0, <1>1, <1>2, <1>3 DEF WritesNothing, Transmit, QueuesOK, TypeInv
<1>4. CASE Write
  <2> DEFINE q == Ready(Chosen)
  <2>1. Chosen \in Kinds
    BY <1>4, ChosenReady DEF Write
  <2>2. q \in Queues(Run[Chosen])
    BY <1>0, <2>1 DEF Ready, Kinds, QueuesOK
  <2>3. AfterWrite(q) \in Queues(Run[Chosen])
    <3>1. q.header \/ q.frames # <<>>
      BY <1>4 DEF Write
    <3> HIDE DEF q
    <3> QED
      BY <2>1, <2>2, <3>1, QueueTypes DEF AfterWrite
  <2>4. writeNum' = writeNum /\ readNum' \in {readNum, Other(readNum)}
    BY <1>1, <1>4 DEF Write, Transmit
  <2>5. local' \in Queues(Run["local"]) /\ radio' \in Queues(Run["radio"])
    BY <1>0, <1>4, <2>3 DEF Write, QueuesOK
  <2>6. network' \in [Slots -> Queues(Run["network"])]
    <3>1. network' = network \/ (Chosen = "network" /\ network' = [network EXCEPT ![readNum] = AfterWrite(q)])
      BY <1>4 DEF Write
    <3> QED
      BY <1>0, <2>3, <3>1 DEF QueuesOK
  <2> QED
    BY <1>0, <1>2, <2>4, <2>5, <2>6, OtherSlot DEF QueuesOK, TypeInv
<1> QED
  BY <1>1, <1>2, <1>3, <1>4 DEF TypeInv

(* Every state has the types it should have, whatever the queues' lengths,  *)
(* the runs and the bounds are.                                             *)
LEMMA TypesHold == Spec => []TypeInv
<1>1. Init => TypeInv
  <2> SUFFICES ASSUME Init PROVE TypeInv
    OBVIOUS
  <2>1. QueuesOK
    BY Constants, BeginQueue DEF Init, QueuesOK, Slots
  <2>2. 0 \in 0..MaxEvents /\ 0 \in 0..UnitFrames
    BY Constants
  <2>3. CallOK /\ OverOK
    BY <2>2 DEF Init, CallOK, OverOK, RptStates, RxStates, Timers
  <2>4. sending \in [Units -> 0..UnitFrames]
    BY <2>2 DEF Init
  <2>5. LoopOK
    <3>1. /\ mode \in Modes /\ acks \in BOOLEAN /\ phase \in Phases /\ heard \in BOOLEAN
          /\ shutdown \in BOOLEAN /\ disable \in BOOLEAN /\ feeding \in BOOLEAN
      BY DEF Init, Phases
    <3>2. feed = 0 /\ events = 0
      BY DEF Init
    <3> QED
      BY <2>2, <2>4, <3>1, <3>2 DEF LoopOK
  <2> QED
    BY <2>1, <2>3, <2>5 DEF TypeInv
<1>2. TypeInv /\ [Next]_vars => TypeInv'
  <2> SUFFICES ASSUME TypeInv, [Next]_vars PROVE TypeInv'
    OBVIOUS
  <2>1. CASE UNCHANGED vars
    BY <2>1 DEF vars, setup, radioVars, queueVars, gatewayVars, stopVars, TypeInv, QueuesOK,
                CallOK, OverOK, LoopOK
  <2> QED
    BY <2>1, HeaderTypes, OverTypes, PacketTypes, MachineTypes, UnitTypes, ControlTypes,
       WriteTypes DEF Next
<1> QED
  BY <1>1, <1>2, PTL DEF Spec

(* The type invariant of the controller.                                    *)
THEOREM TypeCorrect == Spec => []TypeOK
<1>1. TypeInv /\ IInv => TypeOK
  BY DEF TypeInv, QueuesOK, CallOK, OverOK, LoopOK, IInv, TypeOK
<1> QED
  BY <1>1, TypesHold, Inductive, PTL

-------------------------------------------------------------------------------
(* The gateway's side of an over.                                           *)

(* Before a header there is no over, so nothing is open there.              *)
LEMMA HeadersFramed ==
  ASSUME IInv, UplinkFramed,
         \/ ControlHeader \/ AnnouncementHeader \/ ListedHeader \/ UnknownHeader
         \/ WrongHeader \/ BusyHeader \/ ValidHeader
  PROVE  UplinkFramed'
<1>1. rxState # "PROCESS_DATA"
  BY DEF ControlHeader, AnnouncementHeader, ListedHeader, UnknownHeader, WrongHeader,
         BusyHeader, ValidHeader, HeaderRead, Receiving
<1>2. uplink # "open" /\ ~busyData /\ ~recording /\ ~deleting
  BY <1>1 DEF UplinkFramed, SpeaksUp, IInv, TakenHeld, Taken
<1>3. rptState = "VALID" => refused
  BY <1>1 DEF IInv, OverHeld
<1>4. CASE ValidHeader
  <2>1. UNCHANGED <<busyData, recording, deleting>>
    BY <1>4 DEF ValidHeader
  <2>2. CASE Accepts("VALID")
    <3>1. PICK grey \in BOOLEAN, rpt2 \in {"local", "gateway"} :
            /\ blocked' = grey /\ rxHeader' = rpt2
            /\ uplink' = IF ~grey /\ rpt2 = "gateway" THEN "open" ELSE uplink
      BY <1>4, <2>2 DEF ValidHeader, Graded
    <3>2. rptState' = "VALID" /\ rxState' = "PROCESS_DATA"
      BY <1>4, <2>2 DEF ValidHeader, HeaderRead, SetRepeaterState
    <3> QED
      BY <1>2, <2>1, <3>1, <3>2 DEF UplinkFramed, SpeaksUp, Taken
  <2>3. CASE ~Accepts("VALID")
    <3>1. UNCHANGED <<rptState, uplink>> /\ (refused => refused')
      BY <1>4, <2>3 DEF ValidHeader, SetRepeaterState
    <3> QED
      BY <1>2, <1>3, <3>1 DEF UplinkFramed, SpeaksUp
  <2> QED
    BY <2>2, <2>3
<1>5. CASE AnnouncementHeader \/ WrongHeader
  <2>1. UNCHANGED uplink /\ rptState' \in {rptState, "INVALID"} /\ (refused => refused')
    BY <1>5 DEF AnnouncementHeader, WrongHeader, SetRepeaterState
  <2> QED
    BY <1>2, <1>3, <2>1 DEF UplinkFramed, SpeaksUp
<1>6. CASE ControlHeader \/ ListedHeader \/ UnknownHeader \/ BusyHeader
  <2>1. UNCHANGED <<uplink, refused, rptState>>
    BY <1>6 DEF ControlHeader, ListedHeader, UnknownHeader, BusyHeader
  <2> QED
    BY <1>2, <1>3, <2>1 DEF UplinkFramed, SpeaksUp
<1> QED
  BY <1>4, <1>5, <1>6

(* The end of the over is the end of its stream.                            *)
LEMMA EndFramed ==
  ASSUME IInv, UplinkFramed, RadioEnd
  PROVE  UplinkFramed'
<1>1. rxState' = "LISTENING"
  BY DEF RadioEnd
<1>2. uplink' # "open"
  BY DEF RadioEnd, UplinkFramed, SpeaksUp, UplinkEnd
<1> QED
  BY <1>1, <1>2 DEF UplinkFramed, SpeaksUp

(* The state machine and the gateway leave other overs, or time this one    *)
(* out, which ends its stream.                                              *)
LEMMA CallsFramed ==
  ASSUME IInv, UplinkFramed,
         NetworkHeader \/ NetworkData \/ NetworkEnd \/ UserTimedOut \/ WaitOver \/ StreamLost
  PROVE  UplinkFramed'
<1>1. UNCHANGED <<rxState, blocked, busyData, recording, deleting>>
  BY DEF NetworkHeader, NetworkData, NetworkEnd, UserTimedOut, WaitOver, StreamLost,
         FromGateway, Machine
<1>0. refused => refused'
  <2>1. ~ShutsDown
    BY DEF NetworkHeader, NetworkData, NetworkEnd, UserTimedOut, WaitOver, StreamLost,
           FromGateway, Machine, ShutsDown, Control
  <2> QED
    BY <2>1, RefusedStays DEF Next
<1>2. \/ UNCHANGED <<rptState, rxHeader, uplink>>
      \/ rptState # "VALID" /\ rptState' # "VALID" /\ UNCHANGED uplink
      \/ rptState' # "VALID" /\ uplink' = UplinkEnd
  <2>1. CASE NetworkHeader
    BY <2>1 DEF NetworkHeader, FromGateway, SetRepeaterState, Accepts, Waiting
  <2>2. CASE NetworkData \/ NetworkEnd
    BY <2>2 DEF NetworkData, NetworkEnd, EndOfNetworkData, FromGateway, SetRepeaterState
  <2>3. CASE UserTimedOut
    BY <2>3 DEF UserTimedOut, Machine, SetRepeaterState
  <2>4. CASE WaitOver \/ StreamLost
    BY <2>4 DEF WaitOver, StreamLost, EndOfNetworkData, SetRepeaterState, Waiting
  <2> QED
    BY <2>1, <2>2, <2>3, <2>4
<1>3. CASE UNCHANGED <<rptState, rxHeader, uplink>>
  BY <1>0, <1>1, <1>3 DEF UplinkFramed, SpeaksUp, Taken
<1>4. CASE rptState # "VALID" /\ rptState' # "VALID" /\ UNCHANGED uplink
  BY <1>4 DEF UplinkFramed, SpeaksUp
<1>5. CASE rptState' # "VALID" /\ uplink' = UplinkEnd
  <2>1. uplink' # "open"
    BY <1>5 DEF UplinkFramed, SpeaksUp, UplinkEnd
  <2> QED
    BY <1>5, <2>1 DEF UplinkFramed, SpeaksUp
<1> QED
  BY <1>2, <1>3, <1>4, <1>5

(* A shutdown cuts the stream; an inactive one leaves it.                   *)
LEMMA ControlsFramed ==
  ASSUME IInv, UplinkFramed, ShutsDown \/ StartsUp \/ Carries \/ Operator
  PROVE  UplinkFramed'
<1>1. UNCHANGED <<rxState, rxHeader, blocked, busyData, recording, deleting>>
  BY DEF ShutsDown, StartsUp, Carries, Operator, Control, radioVars
<1>2. CASE ShutsDown
  BY <1>2 DEF ShutsDown, UplinkFramed, SpeaksUp
<1>3. CASE StartsUp
  BY <1>3 DEF StartsUp, UplinkFramed, SpeaksUp
<1>4. CASE Carries \/ Operator
  <2>1. UNCHANGED <<rptState, uplink, refused>>
    BY <1>4 DEF Carries, Operator, radioVars, gatewayVars
  <2> QED
    BY <1>1, <2>1 DEF UplinkFramed, SpeaksUp, Taken
<1> QED
  BY <1>2, <1>3, <1>4

(* The rest of the loop.                                                    *)
LEMMA OthersFramed ==
  ASSUME IInv, UplinkFramed,
         \/ DataHeader \/ SlowData \/ RadioData \/ ModemRead \/ NetworkRead \/ NothingDue
         \/ (\E u \in Units : StartUnit(u)) \/ UserStatus \/ UnitsStarted \/ Clock
         \/ Write \/ WritesNothing \/ UNCHANGED vars
  PROVE  UplinkFramed'
<1>1. UNCHANGED <<rptState, rxHeader, busyData, recording, deleting, refused>>
  BY DEF DataHeader, SlowData, RadioData, ModemRead, NetworkRead, NothingDue, StartUnit,
         UserStatus, UnitsStarted, Clock, Write, WritesNothing, Machine, Transmit, vars,
         radioVars, stopVars, gatewayVars
<1>2. uplink' = uplink \/ (uplink # "open" /\ uplink' = "stray")
  <2>1. CASE RadioData
    BY <2>1 DEF RadioData, UplinkFrame
  <2>2. CASE ~RadioData
    BY <2>2 DEF DataHeader, SlowData, ModemRead, NetworkRead, NothingDue, StartUnit,
         UserStatus, UnitsStarted, Clock, Write, WritesNothing, Machine, Transmit, vars,
         gatewayVars
  <2> QED
    BY <2>1, <2>2
<1>3. \/ UNCHANGED <<rxState, blocked>>
      \/ rxState # "PROCESS_DATA" /\ rxState' # "PROCESS_DATA"
  <2>1. CASE DataHeader
    BY <2>1 DEF DataHeader, Graded, Receiving
  <2>2. CASE SlowData
    BY <2>2 DEF SlowData, Receiving
  <2>3. CASE ~DataHeader /\ ~SlowData
    BY <2>3 DEF RadioData, ModemRead, NetworkRead, NothingDue, StartUnit,
         UserStatus, UnitsStarted, Clock, Write, WritesNothing, Machine, Transmit, vars,
         radioVars
  <2> QED
    BY <2>1, <2>2, <2>3
<1> QED
  BY <1>1, <1>2, <1>3 DEF UplinkFramed, SpeaksUp, Taken

(* A stream that is open at the gateway is that of a user who may be heard, *)
(* asked for it and talks now, so it ends with the over or with the user's  *)
(* time; whoever is heard there without one asked to stay local, or talks   *)
(* where a stop had an end refused, whatever is timed out, announced,       *)
(* recorded or shut down meanwhile (processRadioHeader, processRadioFrame,  *)
(* endOfRadioData, setRepeaterState).                                       *)
THEOREM UplinkIsFramed == Spec => []UplinkFramed
<1>1. Init => UplinkFramed
  BY DEF Init, UplinkFramed, SpeaksUp
<1>2. IInv /\ UplinkFramed /\ [Next]_vars => UplinkFramed'
  BY HeadersFramed, EndFramed, CallsFramed, ControlsFramed, OthersFramed DEF Next
<1> QED
  BY <1>1, <1>2, Inductive, PTL DEF Spec

-------------------------------------------------------------------------------
(* What is on the air.                                                      *)

(* The radio's queue r, the network's queues n, of which rd is read and wr  *)
(* written, and the repeater in state rpt and mode md: an over and a stream *)
(* each build one transmission, all others are complete, no more than one   *)
(* of them has begun, and of the network's only the one that is read.       *)
Sending(r, n, rd, wr, rpt, md) ==
  /\ Sound(r, Run["radio"])
  /\ \A i \in Slots : Sound(n[i], Run["network"])
  /\ rpt = "VALID" /\ md = "duplex" => Open(r, Run["radio"])
  /\ rpt = "NETWORK" => Open(n[wr], Run["network"])
  /\ \A i \in Slots : (rpt = "NETWORK" => i # wr) => Complete(n[i], Run["network"])
  /\ ~DataReady(n[Other(rd)], Run["network"])
  /\ ~(DataReady(r, Run["radio"]) /\ DataReady(n[rd], Run["network"]))


\* The same for the variables of the controller.
Transmissions == Sending(radio, network, readNum, writeNum, rptState, mode)

\* a shutdown has emptied the queues
Silenced == rptState = "SHUTDOWN" => radio = Clear /\ \A i \in Slots : network[i] = Clear

\* once one has made the controller refuse the end of an over or a stream, the
\* queues may be in disorder, until it is carried out
TxInv == Silenced /\ (~refused => Transmissions)

(* Empty queues are in order, whatever the indexes are.                     *)
LEMMA EmptySending ==
  ASSUME NEW r, NEW n, NEW rd \in Slots, NEW wr, NEW rpt, NEW md,
         r = Clear, \A i \in Slots : n[i] = Clear, rpt \notin {"VALID", "NETWORK"}
  PROVE  Sending(r, n, rd, wr, rpt, md)
<1>1. /\ Sound(Clear, Run["radio"]) /\ ~DataReady(Clear, Run["radio"])
      /\ Sound(Clear, Run["network"]) /\ Complete(Clear, Run["network"])
      /\ ~DataReady(Clear, Run["network"])
  BY Constants, BeginQueue
<1> QED
  BY <1>1, OtherSlot DEF Sending

(* A state other than those of an over and of a stream asks for less.       *)
LEMMA StateSending ==
  ASSUME NEW r, NEW n, NEW rd, NEW wr, NEW wr2, NEW rpt, NEW rpt2, NEW md,
         Sending(r, n, rd, wr, rpt, md), rpt # "NETWORK", rpt2 \notin {"VALID", "NETWORK"}
  PROVE  Sending(r, n, rd, wr2, rpt2, md)
BY DEF Sending

(* The radio's queue is changed, by an over that goes on or begins, or ends.*)
LEMMA RadioSending ==
  ASSUME NEW r, NEW r2, NEW n, NEW rd, NEW wr, NEW rpt, NEW rpt2, NEW md,
         Sending(r, n, rd, wr, rpt, md), rpt # "NETWORK", rpt2 # "NETWORK",
         Sound(r2, Run["radio"]), DataReady(r2, Run["radio"]) => DataReady(r, Run["radio"]),
         rpt2 = "VALID" /\ md = "duplex" => Open(r2, Run["radio"])
  PROVE  Sending(r2, n, rd, wr, rpt2, md)
BY DEF Sending

(* The written queue is changed: the stream goes on, or ends.               *)
LEMMA StreamSending ==
  ASSUME NEW r, NEW n, NEW rd \in Slots, NEW wr \in Slots, NEW wr2, NEW q, NEW rpt2, NEW md,
         n \in [Slots -> Queues(Run["network"])],
         Sending(r, n, rd, wr, "NETWORK", md),
         Sound(q, Run["network"]), DataReady(q, Run["network"]) => DataReady(n[wr], Run["network"]),
         \/ rpt2 = "NETWORK" /\ wr2 = wr /\ Open(q, Run["network"])
         \/ rpt2 \notin {"VALID", "NETWORK"} /\ Complete(q, Run["network"])
  PROVE  Sending(r, [n EXCEPT ![wr] = q], rd, wr2, rpt2, md)
<1> DEFINE m == [n EXCEPT ![wr] = q]
<1>1. \A i \in Slots : m[i] = IF i = wr THEN q ELSE n[i]
  OBVIOUS
<1> HIDE DEF m
<1>2. Other(rd) \in Slots
  BY OtherSlot
<1> QED
  BY <1>1, <1>2 DEF Sending, m

(* A header of the air.                                                     *)
LEMMA HeadersSend ==
  ASSUME TypeInv, IInv, TxInv,
         \/ ControlHeader \/ AnnouncementHeader \/ ListedHeader \/ UnknownHeader
         \/ WrongHeader \/ BusyHeader \/ ValidHeader
  PROVE  TxInv'
<1>1. HeaderRead /\ UNCHANGED <<network, readNum, writeNum, mode>>
  BY DEF ControlHeader, AnnouncementHeader, ListedHeader, UnknownHeader, WrongHeader,
         BusyHeader, ValidHeader, HeaderRead, setup
<1>2. CASE ValidHeader /\ Accepts("VALID")
  <2>1. ~Stopping /\ rptState # "NETWORK" /\ rptState' = "VALID"
    BY <1>2 DEF ValidHeader, SetRepeaterState, Accepts
  <2>2. radio' = IF mode = "duplex" THEN Fresh ELSE radio
    BY <1>2 DEF ValidHeader
  <2>3. refused \/ Transmissions
    BY DEF TxInv
  <2>4. Sound(Fresh, Run["radio"]) /\ Open(Fresh, Run["radio"]) /\ ~DataReady(Fresh, Run["radio"])
    BY Constants, BeginQueue
  <2>5. ASSUME ~refused
        PROVE  Sending(radio', network, readNum, writeNum, "VALID", mode)
    <3>1. Sound(radio, Run["radio"]) /\ Transmissions
      BY <2>3, <2>5 DEF Transmissions, Sending
    <3>2. /\ Sound(radio', Run["radio"])
          /\ DataReady(radio', Run["radio"]) => DataReady(radio, Run["radio"])
          /\ mode = "duplex" => Open(radio', Run["radio"])
      BY <2>2, <2>4, <3>1
    <3> QED
      BY <2>1, <3>1, <3>2, RadioSending DEF Transmissions
  <2>6. refused => refused'
    BY <1>2 DEF ValidHeader, SetRepeaterState
  <2> QED
    BY <1>1, <2>1, <2>5, <2>6 DEF TxInv, Silenced, Transmissions
<1>3. CASE ~(ValidHeader /\ Accepts("VALID"))
  <2>1. UNCHANGED radio
    BY <1>3 DEF ControlHeader, AnnouncementHeader, ListedHeader, UnknownHeader, WrongHeader,
                BusyHeader, ValidHeader
  <2>2. \/ rptState' = rptState
        \/ rptState = "LISTENING" /\ rptState' = "INVALID"
    BY <1>3 DEF ControlHeader, AnnouncementHeader, ListedHeader, UnknownHeader, WrongHeader,
                BusyHeader, ValidHeader, SetRepeaterState, Accepts
  <2>3. refused => refused'
    BY <1>3 DEF ControlHeader, AnnouncementHeader, ListedHeader, UnknownHeader, WrongHeader,
                BusyHeader, ValidHeader, SetRepeaterState
  <2>4. Transmissions => Sending(radio, network, readNum, writeNum, rptState', mode)
    BY <2>2, StateSending DEF Transmissions
  <2> QED
    BY <1>1, <2>1, <2>2, <2>3, <2>4 DEF TxInv, Silenced, Transmissions
<1> QED
  BY <1>2, <1>3

(* Voice of an over, and its end, of itself or timed out.                   *)
LEMMA OversSend ==
  ASSUME TypeInv, IInv, TxInv, RadioData \/ RadioEnd \/ UserTimedOut
  PROVE  TxInv'
<1>0. /\ Run["radio"] \in Nat \ {0} /\ Run["radio"] <= Space /\ Space \in Nat
      /\ radio \in Queues(Run["radio"])
  BY Constants DEF TypeInv, QueuesOK
<1>1. UNCHANGED <<mode, network, readNum, writeNum>>
  BY DEF RadioData, RadioEnd, UserTimedOut, Machine, setup
<1>6. refused => refused'
  <2>1. ~ShutsDown
    BY DEF RadioData, RadioEnd, UserTimedOut, Machine, ShutsDown, Control
  <2> QED
    BY <2>1, RefusedStays DEF Next
<1>2. Silenced'
  <2>1. rptState' = "SHUTDOWN" => rptState = "SHUTDOWN"
    BY DEF RadioData, RadioEnd, UserTimedOut, SetRepeaterState, AfterOver, radioVars
  <2>2. rptState = "SHUTDOWN" => UNCHANGED radio
    BY DEF RadioData, RadioEnd, UserTimedOut
  <2> QED
    BY <1>1, <2>1, <2>2 DEF TxInv, Silenced
<1>3. CASE ~refused' /\ RadioData /\ mode = "duplex"
  <2>1. rptState = "VALID" /\ UNCHANGED rptState /\ ~refused
        /\ radio' = AddVoice(radio, Run["radio"], 1)
    BY <1>1, <1>3, <1>6 DEF RadioData, radioVars
  <2>2. Sound(radio, Run["radio"]) /\ Open(radio, Run["radio"])
    BY <1>3, <2>1 DEF TxInv, Transmissions, Sending
  <2>3. /\ Sound(radio', Run["radio"]) /\ Open(radio', Run["radio"])
        /\ DataReady(radio', Run["radio"]) => DataReady(radio, Run["radio"])
    BY <1>0, <2>1, <2>2, AddVoiceQueue
  <2>4. Sending(radio', network, readNum, writeNum, rptState, mode)
    BY <1>3, <2>1, <2>3, RadioSending DEF TxInv, Transmissions
  <2> QED
    BY <1>1, <1>2, <2>1, <2>4 DEF TxInv, Transmissions
<1>4. CASE ~refused' /\ RadioData /\ mode # "duplex"
  BY <1>1, <1>2, <1>4, <1>6 DEF RadioData, radioVars, TxInv, Transmissions
<1>5. CASE ~refused' /\ (RadioEnd \/ UserTimedOut)
  <2>1. CASE rptState = "VALID"
    <3>1. rptState' \notin {"VALID", "NETWORK", "SHUTDOWN"} /\ ~refused
      BY <1>5, <1>6, <2>1 DEF RadioEnd, UserTimedOut, SetRepeaterState, Accepts, AfterOver
    <3>2. radio' = radio \/ (mode = "duplex" /\ radio' = AddEnd(radio, Run["radio"]))
      BY <1>5, <2>1 DEF RadioEnd, UserTimedOut
    <3>3. Sound(radio, Run["radio"]) /\ (mode = "duplex" => Open(radio, Run["radio"]))
      BY <2>1, <3>1 DEF TxInv, Transmissions, Sending
    <3>4. /\ Sound(radio', Run["radio"])
          /\ DataReady(radio', Run["radio"]) => DataReady(radio, Run["radio"])
      BY <1>0, <3>2, <3>3, AddEndQueue
    <3>5. Sending(radio', network, readNum, writeNum, rptState', mode)
      BY <2>1, <3>1, <3>4, RadioSending DEF TxInv, Transmissions
    <3> QED
      BY <1>1, <1>2, <3>5 DEF TxInv, Transmissions
  <2>2. CASE rptState # "VALID"
    <3>1. UNCHANGED radio /\ RadioEnd
      BY <1>5, <2>2 DEF RadioEnd, UserTimedOut
    <3>2. \/ rptState' = rptState
          \/ rptState \in {"INVALID", "TIMEOUT"} /\ rptState' \notin {"VALID", "NETWORK", "SHUTDOWN"}
      BY <2>2, <3>1 DEF RadioEnd, SetRepeaterState, AfterOver
    <3>3. Sending(radio, network, readNum, writeNum, rptState', mode)
      BY <1>5, <1>6, <3>2, StateSending DEF TxInv, Transmissions
    <3> QED
      BY <1>1, <1>2, <1>6, <3>1, <3>3 DEF TxInv, Transmissions
  <2> QED
    BY <2>1, <2>2
<1> QED
  BY <1>2, <1>3, <1>4, <1>5 DEF TxInv

(* A stream begins: the waiting one before it is purged, the one on the air *)
(* is cut with an end.                                                      *)
LEMMA QueuedSending ==
  ASSUME TypeInv, Transmissions, rptState # "NETWORK", NetworkQueued, UNCHANGED <<radio, writeNum>>
  PROVE  Sending(radio, network', readNum', writeNum, "NETWORK", mode)
<1> DEFINE run == Run["network"]
           old == network[readNum]
           item == IF IsEmpty(old) THEN old ELSE IF HeaderReady(old, run) THEN Clear
                   ELSE AddEnd(Clear, run)
<1>1. /\ run \in Nat \ {0} /\ run <= Space /\ Space \in Nat
      /\ readNum \in Slots /\ writeNum \in Slots /\ network \in [Slots -> Queues(run)]
      /\ old \in Queues(run)
  BY Constants DEF TypeInv, QueuesOK
<1>2. /\ Sound(radio, Run["radio"])
      /\ \A i \in Slots : Sound(network[i], run) /\ Complete(network[i], run)
      /\ ~DataReady(network[Other(readNum)], run)
      /\ ~(DataReady(radio, Run["radio"]) /\ DataReady(old, run))
  BY DEF Transmissions, Sending
<1>3. \A i \in Slots : network'[i] = IF i = writeNum THEN Fresh ELSE IF i = readNum THEN item
                                     ELSE network[i]
  <2>1. network' = [[network EXCEPT ![readNum] = item] EXCEPT ![writeNum] = Fresh]
    BY DEF NetworkQueued
  <2> HIDE DEF item
  <2> QED
    BY <1>1, <2>1
<1>4. readNum' = IF HeaderReady(old, run) THEN Other(readNum) ELSE readNum
  BY DEF NetworkQueued
<1>5. /\ Sound(Fresh, run) /\ Open(Fresh, run) /\ ~DataReady(Fresh, run)
      /\ Sound(Clear, run) /\ Complete(Clear, run) /\ ~DataReady(Clear, run)
      /\ Clear \in Queues(run)
  BY <1>1, BeginQueue
<1>6. Sound(AddEnd(Clear, run), run) /\ Complete(AddEnd(Clear, run), run)
  BY <1>1, <1>5, AddEndQueue
<1>7. Sound(item, run) /\ Complete(item, run)
  BY <1>1, <1>2, <1>5, <1>6
<1>8. CASE HeaderReady(old, run)
  <2>1. item = Clear
    BY <1>8 DEF HeaderReady, IsEmpty
  <2> HIDE DEF item, old, run
  <2>2. readNum' \in Slots /\ Other(readNum') = readNum /\ readNum' = Other(readNum)
        /\ readNum' # readNum
    BY <1>1, <1>4, <1>8, OtherSlot
  <2>3. /\ network'[readNum'] \in {Fresh, network[Other(readNum)]}
        /\ network'[Other(readNum')] \in {Fresh, Clear}
    BY <1>1, <1>3, <2>1, <2>2
  <2>4. ~DataReady(network'[readNum'], run) /\ ~DataReady(network'[Other(readNum')], run)
    BY <1>2, <1>5, <2>3
  <2> QED
    BY <1>1, <1>2, <1>3, <1>5, <1>7, <2>4 DEF Sending, run
<1>9. CASE ~HeaderReady(old, run)
  <2>1. DataReady(item, run) => DataReady(old, run)
    <3>1. CASE IsEmpty(old)
      BY <3>1
    <3>2. CASE ~IsEmpty(old)
      BY <1>1, <1>2, <1>9, <3>2 DEF IsEmpty, Complete, Sound, HeaderReady, DataReady, Queues
    <3> QED
      BY <3>1, <3>2
  <2> HIDE DEF item, old, run
  <2>2. readNum' = readNum /\ Other(readNum) \in Slots /\ Other(readNum) # readNum
    BY <1>1, <1>4, <1>9, OtherSlot
  <2>3. /\ network'[readNum'] \in {Fresh, item}
        /\ network'[Other(readNum')] \in {Fresh, network[Other(readNum)]}
    BY <1>1, <1>3, <2>2
  <2>4. /\ ~DataReady(network'[Other(readNum')], run)
        /\ DataReady(network'[readNum'], run) => DataReady(old, run)
    BY <1>2, <1>5, <2>1, <2>3
  <2> QED
    BY <1>1, <1>2, <1>3, <1>5, <1>7, <2>4 DEF Sending, run
<1> QED
  BY <1>8, <1>9

(* The gateway's packets, late ones and the loss of a stream.               *)
LEMMA StreamsSend ==
  ASSUME TypeInv, IInv, TxInv,
         NetworkHeader \/ NetworkData \/ NetworkEnd \/ NetworkRead \/ StreamLost
  PROVE  TxInv'
<1> DEFINE run == Run["network"]
           q == network[writeNum]
<1>0. /\ run \in Nat \ {0} /\ run <= Space /\ Space \in Nat /\ MaxInsert \in Nat
      /\ readNum \in Slots /\ writeNum \in Slots /\ network \in [Slots -> Queues(run)]
      /\ q \in Queues(run)
  BY Constants DEF TypeInv, QueuesOK
<1>1. UNCHANGED <<mode, radio>>
  BY DEF NetworkHeader, NetworkData, NetworkEnd, NetworkRead, StreamLost, FromGateway, Machine,
         setup
<1>11. refused => refused'
  <2>1. ~ShutsDown
    BY DEF NetworkHeader, NetworkData, NetworkEnd, NetworkRead, StreamLost,
           FromGateway, Machine, ShutsDown, Control
  <2> QED
    BY <2>1, RefusedStays DEF Next
<1>2. rptState = "SHUTDOWN" => rptState' = "SHUTDOWN" /\ UNCHANGED network
  BY DEF NetworkHeader, NetworkData, NetworkEnd, NetworkRead, StreamLost, radioVars
<1>3. rptState' \in {rptState, "NETWORK", "LISTENING"}
  BY DEF NetworkHeader, NetworkData, NetworkEnd, NetworkRead, StreamLost, EndOfNetworkData,
         SetRepeaterState, radioVars
<1>4. Silenced'
  BY <1>1, <1>2, <1>3 DEF TxInv, Silenced
<1>5. CASE refused'
  BY <1>4, <1>5 DEF TxInv
<1>6. CASE ~refused' /\ UNCHANGED <<network, readNum, rptState, writeNum>>
  BY <1>1, <1>4, <1>6, <1>11 DEF TxInv, Transmissions
<1>7. CASE ~refused' /\ NetworkHeader /\ NetworkQueued /\ Accepts("NETWORK")
           /\ SetRepeaterState("NETWORK", feed')
  <2>1. rptState # "NETWORK" /\ rptState' = "NETWORK" /\ UNCHANGED writeNum
    BY <1>7 DEF NetworkHeader, SetRepeaterState, Accepts, Waiting
  <2>2. Sending(radio, network', readNum', writeNum, "NETWORK", mode)
    BY <1>1, <1>7, <1>11, <2>1, QueuedSending DEF TxInv
  <2> QED
    BY <1>1, <1>4, <2>1, <2>2 DEF TxInv, Transmissions
<1>8. CASE ~refused' /\ rptState = "NETWORK" /\ UNCHANGED <<rptState, readNum, writeNum>>
           /\ \E n \in Nat : network' = [network EXCEPT ![writeNum] = AddVoice(@, run, n)]
  <2>1. PICK n \in Nat : network' = [network EXCEPT ![writeNum] = AddVoice(q, run, n)]
    BY <1>8
  <2>2. Sending(radio, network, readNum, writeNum, "NETWORK", mode)
    BY <1>8, <1>11 DEF TxInv, Transmissions
  <2>3. Sound(q, run) /\ Open(q, run)
    BY <1>0, <2>2 DEF Sending
  <2>4. /\ Sound(AddVoice(q, run, n), run) /\ Open(AddVoice(q, run, n), run)
        /\ DataReady(AddVoice(q, run, n), run) => DataReady(q, run)
    BY <1>0, <2>3, AddVoiceQueue
  <2>5. Sending(radio, network', readNum, writeNum, "NETWORK", mode)
    BY <1>0, <2>1, <2>2, <2>4, StreamSending
  <2> QED
    BY <1>1, <1>4, <1>8, <2>5 DEF TxInv, Transmissions
<1>9. CASE ~refused' /\ rptState = "NETWORK" /\ UNCHANGED readNum
           /\ network' = [network EXCEPT ![writeNum] = AddEnd(@, run)]
           /\ \E id : EndOfNetworkData(id)
  <2>1. Sending(radio, network, readNum, writeNum, "NETWORK", mode)
    BY <1>9, <1>11 DEF TxInv, Transmissions
  <2>2. Sound(q, run) /\ Open(q, run)
    BY <1>0, <2>1 DEF Sending
  <2>3. /\ Sound(AddEnd(q, run), run) /\ Complete(AddEnd(q, run), run)
        /\ DataReady(AddEnd(q, run), run) => DataReady(q, run)
    BY <1>0, <2>2, AddEndQueue
  <2>4. rptState' = "LISTENING"
    BY <1>9 DEF EndOfNetworkData, SetRepeaterState, Accepts
  <2>5. Sending(radio, network', readNum, writeNum', "LISTENING", mode)
    BY <1>0, <1>9, <2>1, <2>3, StreamSending
  <2> QED
    BY <1>1, <1>4, <1>9, <2>4, <2>5 DEF TxInv, Transmissions
<1>10. \/ UNCHANGED <<network, readNum, rptState, writeNum>>
       \/ NetworkHeader /\ NetworkQueued /\ Accepts("NETWORK") /\ SetRepeaterState("NETWORK", feed')
       \/ /\ rptState = "NETWORK" /\ UNCHANGED <<rptState, readNum, writeNum>>
          /\ \E n \in Nat : network' = [network EXCEPT ![writeNum] = AddVoice(@, run, n)]
       \/ /\ rptState = "NETWORK" /\ UNCHANGED readNum
          /\ network' = [network EXCEPT ![writeNum] = AddEnd(@, run)]
          /\ \E id : EndOfNetworkData(id)
  <2>1. CASE NetworkHeader
    BY <2>1 DEF NetworkHeader, SetRepeaterState
  <2>2. CASE NetworkData
    <3>1. UNCHANGED <<rptState, readNum, writeNum>>
      BY <2>2 DEF NetworkData
    <3>2. PICK n \in 0..MaxInsert : network' = IF rptState = "NETWORK"
               THEN [network EXCEPT ![writeNum] = AddVoice(@, run, n)] ELSE network
      BY <2>2 DEF NetworkData
    <3>3. n \in Nat
      BY <1>0
    <3> QED
      BY <3>1, <3>2, <3>3
  <2>3. CASE NetworkEnd
    BY <2>3 DEF NetworkEnd
  <2>4. CASE NetworkRead
    <3>1. UNCHANGED <<rptState, readNum, writeNum>>
      BY <2>4 DEF NetworkRead, radioVars
    <3> QED
      BY <1>0, <2>4, <3>1 DEF NetworkRead
  <2>5. CASE StreamLost
    BY <2>5 DEF StreamLost
  <2> QED
    BY <2>1, <2>2, <2>3, <2>4, <2>5
<1> HIDE DEF run
<1> QED
  BY <1>5, <1>6, <1>7, <1>8, <1>9, <1>10

(* The shutdown inputs: what was in disorder is emptied.                    *)
LEMMA ControlsSend ==
  ASSUME TypeInv, IInv, TxInv, ShutsDown \/ StartsUp \/ Carries \/ Operator
  PROVE  TxInv'
<1>0. readNum \in Slots
  BY DEF TypeInv, QueuesOK
<1>1. UNCHANGED <<mode, readNum, writeNum>>
  BY DEF ShutsDown, StartsUp, Carries, Operator, Control, setup, queueVars
<1>2. CASE ShutsDown
  <2>1. rptState' = "SHUTDOWN" /\ radio' = Clear /\ \A i \in Slots : network'[i] = Clear
    BY <1>2 DEF ShutsDown
  <2>2. Sending(radio', network', readNum, writeNum, "SHUTDOWN", mode)
    BY <1>0, <2>1, EmptySending
  <2> QED
    BY <1>1, <2>1, <2>2 DEF TxInv, Silenced, Transmissions
<1>3. CASE ~ShutsDown
  <2>1. UNCHANGED <<radio, network>>
    BY <1>3 DEF StartsUp, Carries, Operator, queueVars
  <2>2. rptState' = rptState \/ (rptState = "SHUTDOWN" /\ rptState' = "LISTENING")
    BY <1>3 DEF StartsUp, Carries, Operator, radioVars
  <2>3. UNCHANGED refused
    BY <1>3 DEF StartsUp, Carries, Operator, radioVars
  <2>4. CASE rptState = "SHUTDOWN"
    <3>1. radio = Clear /\ \A i \in Slots : network[i] = Clear
      BY <2>4 DEF TxInv, Silenced
    <3>2. rptState' \notin {"VALID", "NETWORK"}
      BY <2>2, <2>4
    <3>3. Sending(radio, network, readNum, writeNum, rptState', mode)
      BY <1>0, <3>1, <3>2, EmptySending
    <3> QED
      BY <1>1, <2>1, <3>1, <3>3 DEF TxInv, Silenced, Transmissions
  <2>5. CASE rptState # "SHUTDOWN"
    BY <1>1, <2>1, <2>2, <2>3, <2>5 DEF TxInv, Silenced, Transmissions
  <2> QED
    BY <2>4, <2>5
<1> QED
  BY <1>2, <1>3

(* Nothing begins while something is on the air.                            *)
LEMMA WriteSends ==
  ASSUME TypeInv, IInv, TxInv, Write
  PROVE  TxInv'
<1> DEFINE q == Ready(Chosen)
           run == Run[Chosen]
<1>0. /\ Chosen \in Kinds /\ q \in Queues(run) /\ run \in Nat \ {0}
      /\ readNum \in Slots /\ writeNum \in Slots /\ network \in [Slots -> Queues(Run["network"])]
  BY ChosenReady, Constants DEF TypeInv, QueuesOK, Ready, Kinds, Write
<1>1. /\ OnAir(Chosen) \/ (Starts(Chosen) /\ \A kind \in Kinds : ~OnAir(kind))
      /\ Chosen # "radio" => ~OnAir("radio")
  BY ChosenReady DEF Write
<1>2. /\ UNCHANGED <<mode, writeNum, rptState, refused>>
      /\ q.header \/ q.frames # <<>>
      /\ radio' = IF Chosen = "radio" THEN AfterWrite(q) ELSE radio
      /\ network' = IF Chosen = "network" THEN [network EXCEPT ![readNum] = AfterWrite(q)] ELSE network
      /\ readNum' = IF Chosen = "network" /\ Ends(q) THEN Other(readNum) ELSE readNum
  BY DEF Write, Transmit, setup, radioVars
<1>3. DataReady(q, run) \/ HeaderReady(q, run)
  BY <1>1 DEF OnAir, Starts
<1>4. /\ Sound(AfterWrite(q), run) /\ Complete(AfterWrite(q), run)
      /\ Open(q, run) => Open(AfterWrite(q), run) /\ ~Ends(q)
      /\ Ends(q) => ~DataReady(AfterWrite(q), run)
      /\ DataReady(AfterWrite(q), run) => DataReady(q, run) \/ Starts(Chosen)
  <2> HIDE DEF q, run
  <2>1. CASE q.header
    <3>1. AfterWrite(q) = TakeHeader(q) /\ HeaderReady(q, run) /\ ~Ends(q)
      BY <1>3, <2>1 DEF AfterWrite, Ends, DataReady
    <3> QED
      BY <1>0, <3>1, TakeHeaderQueue DEF Starts, q, run
  <2>2. CASE ~q.header /\ Ends(q)
    <3>1. AfterWrite(q) = Clear
      BY <2>2 DEF AfterWrite
    <3>2. ~Open(q, run)
      <4>1. q.frames \in Seq(Frames) /\ q.frames # <<>> /\ Head(q.frames) = "end"
        BY <1>0, <1>2, <2>2 DEF Queues, Ends
      <4>2. 1 \in 1..Len(q.frames) /\ q.frames[1] = "end"
        BY <4>1
      <4> QED
        BY <4>2 DEF Open, Unended
    <3> QED
      BY <1>0, <3>1, <3>2, BeginQueue
  <2>3. CASE ~q.header /\ ~Ends(q)
    <3>1. AfterWrite(q) = TakeFrame(q) /\ DataReady(q, run) /\ q.frames # <<>>
      BY <1>2, <1>3, <2>3 DEF AfterWrite, HeaderReady
    <3> QED
      BY <1>0, <2>3, <3>1, TakeFrameQueue
  <2> QED
    BY <2>1, <2>2, <2>3
<1>5. Silenced'
  <2>1. ASSUME rptState = "SHUTDOWN"
        PROVE  Chosen = "local"
    <3>1. radio = Clear /\ network[readNum] = Clear
      BY <1>0, <2>1 DEF TxInv, Silenced
    <3>2. /\ ~DataReady(Clear, Run["radio"]) /\ ~DataReady(Clear, Run["network"])
          /\ ~Clear.header
      BY Constants, BeginQueue DEF Clear
    <3>3. Chosen \notin {"radio", "network"}
      BY <1>1, <3>1, <3>2 DEF OnAir, Starts, Ready, HeaderReady
    <3> QED
      BY <1>0, <3>3 DEF Kinds
  <2> QED
    BY <1>2, <2>1 DEF TxInv, Silenced
<1>6. ASSUME Transmissions
      PROVE  Transmissions'
  <2> HIDE DEF q, run
  <2>1. CASE Chosen = "local"
    BY <1>2, <1>6, <2>1 DEF Transmissions
  <2>2. CASE Chosen = "radio"
    <3>1. q = radio /\ run = Run["radio"]
      BY <2>2 DEF q, run, Ready
    <3>2. DataReady(radio', run) => DataReady(radio, run) \/ ~DataReady(network[readNum], Run["network"])
      BY <1>1, <1>2, <1>4, <2>2, <3>1 DEF Starts, OnAir, Ready, Kinds, HeaderReady, DataReady
    <3> QED
      BY <1>2, <1>4, <1>6, <2>2, <3>1, <3>2 DEF Transmissions, Sending
  <2>3. CASE Chosen = "network"
    <3>1. q = network[readNum] /\ run = Run["network"] /\ radio' = radio
      BY <1>2, <2>3 DEF q, run, Ready
    <3>2. ~DataReady(radio, Run["radio"])
      BY <1>1, <2>3 DEF OnAir, Ready
    <3>3. \A i \in Slots : network'[i] = IF i = readNum THEN AfterWrite(q) ELSE network[i]
      BY <1>0, <1>2, <2>3
    <3>4. ~DataReady(network'[Other(readNum')], run)
      <4>1. CASE Ends(q)
        BY <1>0, <1>2, <1>4, <2>3, <3>3, <4>1, OtherSlot
      <4>2. CASE ~Ends(q)
        BY <1>0, <1>2, <1>6, <2>3, <3>1, <3>3, <4>2, OtherSlot DEF Transmissions, Sending
      <4> QED
        BY <4>1, <4>2
    <3> QED
      BY <1>0, <1>2, <1>4, <1>6, <3>1, <3>2, <3>3, <3>4 DEF Transmissions, Sending
  <2> QED
    BY <1>0, <2>1, <2>2, <2>3 DEF Kinds
<1> QED
  BY <1>2, <1>5, <1>6 DEF TxInv

(* The rest of the loop leaves these queues alone; a wait that is over       *)
(* changes the state only.                                                  *)
LEMMA OthersSend ==
  ASSUME TypeInv, IInv, TxInv,
         \/ DataHeader \/ SlowData \/ ModemRead \/ NothingDue \/ WaitOver
         \/ (\E u \in Units : StartUnit(u)) \/ UserStatus \/ UnitsStarted \/ Clock
         \/ WritesNothing \/ UNCHANGED vars
  PROVE  TxInv'
<1>1. UNCHANGED <<mode, radio, network, readNum, writeNum>>
  BY DEF DataHeader, SlowData, ModemRead, NothingDue, WaitOver, StartUnit, UserStatus,
         UnitsStarted, Clock, WritesNothing, Machine, Transmit, vars, setup, queueVars
<1>5. refused => refused'
  <2>1. ~ShutsDown \/ UNCHANGED vars
    BY DEF DataHeader, SlowData, ModemRead, NothingDue, WaitOver, StartUnit, UserStatus,
           UnitsStarted, Clock, WritesNothing, Machine, Transmit, ShutsDown, Control, Receiving
  <2>2. CASE UNCHANGED vars
    BY <2>2 DEF vars, radioVars
  <2>3. CASE ~ShutsDown
    BY <2>3, RefusedStays DEF Next
  <2> QED
    BY <2>1, <2>2, <2>3
<1>2. rptState' = rptState \/ (rptState \in Waiting /\ rptState' = "LISTENING")
  BY DEF DataHeader, SlowData, ModemRead, NothingDue, WaitOver, StartUnit, UserStatus,
         UnitsStarted, Clock, WritesNothing, Machine, Transmit, vars, radioVars, SetRepeaterState
<1>3. CASE rptState' = rptState
  BY <1>1, <1>3, <1>5 DEF TxInv, Silenced, Transmissions
<1>4. CASE rptState \in Waiting /\ rptState' = "LISTENING"
  <2>1. Transmissions => Sending(radio, network, readNum, writeNum, "LISTENING", mode)
    BY <1>4, StateSending DEF Transmissions, Waiting
  <2> QED
    BY <1>1, <1>4, <1>5, <2>1 DEF TxInv, Silenced, Transmissions
<1> QED
  BY <1>2, <1>3, <1>4

(* The air carries one transmission: the radio's and the network's are      *)
(* never begun together, and of the two network queues only the one that is *)
(* read is, for any length and run of the queues and whatever the modem     *)
(* takes when; the exception is what a stop had refused, until a shutdown   *)
(* empties the queues (transmitNetworkHeader, writeNetworkData,             *)
(* endOfRadioData, setRepeaterState).                                       *)
THEOREM OneTransmission == Spec => []OneOnAir
<1>1. Init => TxInv
  <2> SUFFICES ASSUME Init PROVE TxInv
    OBVIOUS
  <2>1. /\ radio = Clear /\ \A i \in Slots : network[i] = Clear
        /\ rptState = "LISTENING" /\ readNum = 0
    BY DEF Init
  <2>2. readNum \in Slots
    BY <2>1 DEF Slots
  <2>3. Sending(radio, network, readNum, writeNum, "LISTENING", mode)
    BY <2>1, <2>2, EmptySending
  <2> QED
    BY <2>1, <2>3 DEF TxInv, Silenced, Transmissions
<1>2. TypeInv /\ IInv /\ TxInv /\ [Next]_vars => TxInv'
  BY HeadersSend, OversSend, StreamsSend, ControlsSend, WriteSends, OthersSend DEF Next
<1>3. TxInv => OneOnAir
  BY DEF TxInv, Transmissions, Sending, OneOnAir, OnAir, Ready
<1> QED
  BY <1>1, <1>2, <1>3, TypesHold, Inductive, PTL DEF Spec
=============================================================================
