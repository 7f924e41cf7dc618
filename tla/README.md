# OpenDV in TLA+

OpenDV is the set of D-Star programs around the ircDDB Gateway: the gateway itself, repeater
controllers, reflectors and client tools.  This directory holds TLA+ modules that model the parts with
control worth modelling, TLC configurations that check them on small instances, and proofs, checked
by TLAPS, of what matters most for every value of the constants:

* the gateway's repeater handler: streams, links to reflectors and gateways, CCS calls;
* the link objects of the DExtra, D-Plus and DCS handlers at both ends of an unreliable network;
* the gateway's StarNet groups;
* the ircDDB client with its threads, and the client that makes several networks one;
* the controller of a D-Star repeater (`DStarRepeater`).

Source paths below are relative to `src/ircDDBGateway/` unless they begin with another program's name.

    tlc -workers 2 -config Radio.cfg MCRepeater
    tlapm RepeaterHandlerProofs.tla

## 1. Inventory

### The gateway

One thread, `ircDDBGateway/IRCDDBGatewayThread.cpp`, runs everything but the ircDDB client.  Its loop
(349-413) reads each socket until it is empty, hands every message to its handler, and then calls
`clock(ms)` on every handler.  Handlers call each other directly; callbacks are synchronous and
re-entrant.  There is no concurrency inside the loop: what makes it hard is the *order* in which
messages, answers and time-outs arrive, and callbacks that run in the middle of the caller's own update.

| Component | State | Operations | Hard behaviour |
|---|---|---|---|
| Repeater handler, radio (`Common/RepeaterHandler.cpp`) | RF and relayed stream identifiers, route of the stream, lookup in progress with its saved header, watchdog and query timers, announcements due | header, frame, relayed header and frame, ircDDB answer, clock | a header that cuts off a lookup; a lost last frame; a late answer; announcements asked for during a stream |
| Repeater handler, link | status, remote callsign, relink flag, startup reflector and reconnect mode, reconnect and query timers, last reflector | commands by UR call, DTMF and remote control; `linkUp`, `linkFailed`, `linkRefused`; ircDDB answer; reconnect time-out; `suspendLinks`, `restoreLinks` | status against what the protocol handlers hold; re-entrant relinks; late acknowledgements; one timer used for two purposes |
| DExtra, D-Plus, DCS handlers and their port pools | a table of link objects: remote end, state, try and inactivity timers; the ports in use | `link`, `unlink`, change of module, answers, polls, clock, shutdown, at either end | lost, late or reordered datagrams; removal and insertion during a walk of the table; full tables and pools |
| CCS handler | connection state, direction and peer of the call, DTMF cache | `startLink`, `stopLink`, incoming call, found and not-found, terminate, inactivity | answer after give-up; direction of the last call |
| StarNet handler | users logged in and their timers, streams with a pointer to their user, the relayed stream, the repeaters relayed to | header, frame, slow-data text, remote logoff, clock | streams that end without a last frame; users that leave while talking; pointers to deleted users and repeaters |
| ircDDB client (`ircDDB/`) | connection and login, send and receive queues, user list, choice of a server, download of its table | two threads of its own, `findUser` and `close` from the gateway thread | state written by two threads; a queue deleted under its readers; a server that comes, goes or never answers; connections lost and made again |
| ircDDB multi-client | questions under way, answers merged so far | find, poll of each network | repeated questions, broadcasts that look like answers, a network that does not answer |
| Cache manager | repeaters, users, gateways | lookup, update | mutex shared with the D-Plus authenticator thread |
| G2 handler | routes of incoming streams | headers, frames, clock | streams that end without a last frame |
| Echo, audio, announcement, version units | state idle/receive/wait/transmit, stored frames | header, data, end, cancel, clock | a stream without frames; cancel in the middle |
| DD, DTMF, APRS, D-RATS, callsign server, protocol encoders, D-Plus authenticator | buffers and sockets | I/O | no control worth a model of its own |
| Remote handler | login | link, unlink, logoff, status | commands between any two steps of a link |

### The repeater controller

`DStarRepeater/DStarRepeater/DStarRepeaterTRXThread.cpp` is a thread between a radio modem and the gateway.
Every 9 ms or so it reads the modem, reads the gateway, looks at its timers, starts beacons and
announcements, reads the shutdown inputs, and writes at most one item to the modem, out of four
queues: the radio's, its own, and two of the network.  Two state machines, of the receiver and of the
repeater, run side by side; a third, the stream identifier of the protocol handler, filters what the
gateway sends.  Hard: the machines must agree after a lost end, a time-out or a shutdown at any moment;
flags of one over (recording, deleting, busy) must not reach the next; the queues share one transmitter.

### What makes the components correct

* *radio*: one stream at a time; a stream is always watched; a route is decided once, from the header
  or from the answer to *its* lookup, and never changes before the end; nothing outlives the stream;
* *link*: status and link objects agree; a fixed repeater stays; a timed one comes back; one DCS
  reflector at a time;
* *link objects*: ports and slots come back, whatever is lost; the far end has one object for a link
  and forgets a dead one;
* *CCS*: a call and a reflector link never carry the same repeater's traffic together; the suspended
  link is remembered through the call and comes back;
* *StarNet*: the relayed stream is a known one; no time-out deletes a user whom a stream points to; a
  silent group comes to rest;
* *ircDDB*: no pointer to a deleted queue; no data of an earlier connection taken for this one's; the
  connection recovers from whatever goes wrong; closing down ends every thread; every question is answered;
* *controller*: no state waits for a stopped timer; the gateway hears framed streams of those who ask for
  it; one transmission is on the air; every over and stream ends; and what of this a stop that is
  withdrawn, or an over without a header at the gateway, leaves true.

### The rest of the repository

`DummyRepeater` (desktop repeater), `AnalogueRepeater` (FM controller), `XReflector` and `XReflectorDaemon`
(reflector servers built on an older copy of the gateway's handlers), `RepeaterExtras` (gateways
between DCS or DExtra and a client; a parrot), `Digital Voice` (desktop clients), `AMBETools` (file
converters), `LinuxExtras` (packaging), `Documentation` (manuals), and the gateway's own tools.
None of them is modelled; `PROJECT.json` says why of each.

## 2. Modules

```
CTimer <- LinkControl <- CCSHandler <- LinkCommands <- RepeaterHandler <- LinkProperties <- MCRepeater
  ^ ^                                       ^              ^    |
  | |                                  LinkTyping <- RepeaterHandlerProofs <- LinkProofs
  | |                                                      +--- implements RadioChannel
  | +-- ReflectorLinks  <- MCReflectors, ReflectorProofs
  +---- StarNet         <- StarNetProofs
OutputQueue <- DStarRepeater <- MCRepeaterTRX, DStarRepeaterProofs
IRCDDBClient    <- MCIRCDDB, IRCDDBProofs
IRCDDBMultiClient <- MultiClientProofs
```

| Module | Models |
|---|---|
| `CTimer` | `Common/Timer.h`: a timer is the value of `m_timer`, counted in abstract ticks |
| `LinkControl` | `linkInt`, `linkUp`, `linkFailed`, `linkRefused`, change of module, `suspendLinks`, `restoreLinks`, and what `link`, `unlink`, `relink` and the answers do to the objects of the three protocol handlers |
| `CCSHandler` | the state of `CCCSHandler` and `ccsLinkMade`, `ccsLinkEnded`, `ccsLinkFailed` |
| `LinkCommands` | everything that asks for a change: `reflectorCommandHandler`, `ccsCommandHandler`, remote `link` and `unlink`, `resolveRepeaterInt`, the two time-outs of `clockInt` |
| `RepeaterHandler` | the state machine: variables, one action per handler call, `Spec`, and the radio's invariants |
| `RadioChannel` | the abstract specification: what the repeater promises to the person who talks through it, stream by stream |
| `LinkProperties` | the properties of links and calls |
| `ReflectorLinks` | `CDExtraHandler`, `CDPlusHandler`, `CDCSHandler` and their pools: the tables at both ends and the network between them |
| `StarNet` | `CStarNetHandler`: one group, as the makefiles build it |
| `OutputQueue` | `DStarRepeater/Common/OutputQueue.cpp`: a transmission that waits for the modem |
| `DStarRepeater` | `CDStarRepeaterTRXThread`: the loop of the controller and its state machines |
| `IRCDDBClient` | `IRCClient`, `IRCProtocol`, `IRCDDBApp`: a connection to one ircDDB network |
| `IRCDDBMultiClient` | `CIRCDDBMultiClient`: questions and answers over several networks |
| `MCRepeater`, `MCReflectors`, `MCRepeaterTRX`, `MCIRCDDB` | values of the constants for the configurations |
| `LinkTyping`, `RepeaterHandlerProofs`, `LinkProofs`, `ReflectorProofs`, `StarNetProofs`, `DStarRepeaterProofs`, `IRCDDBProofs`, `MultiClientProofs` | proofs |

### The repeater handler

Because callbacks are synchronous, the link half of the repeater is not a state machine of its own: a
link operation is a function from a *link record* to a record, or to the set of records it may leave
when the order of a table matters, and one action of `RepeaterHandler` applies one of them to the
variable `link`, inside the handler call that the code makes.  So `StopLink` contains the callback
`CcsLinkEnded`, which contains `RestoreLinks`, which contains `LinkInt`, as in the code.

| Model | Code |
|---|---|
| `repeaterId`, `busyId`, `watchdogTimer` | `m_repeaterId`, `m_busyId`, `m_watchdogTimer` |
| `yourCQ`, `restricted` | whether `m_yourCall` is CQCQCQ; `m_restricted` |
| `g2Status`, `g2Call`, `g2Header` | `m_g2Status`; `m_g2Repeater` or `m_g2User`; `m_g2Header != NULL` |
| `xBandRptr`, `starNet` | those pointers `!= NULL` |
| `needed` | `m_infoNeeded`, `m_msgNeeded`, `m_wxNeeded` |
| `link.status`, `.repeater`, `.relink`, `.last` | `m_linkStatus`, `m_linkRepeater`, `m_linkRelink`, `m_lastReflector` |
| `link.startup`, `.mode`, `.timed` | `m_linkStartup`, `m_linkReconnect`, whether the reconnect timer has a timeout |
| `link.reconnect`, `.query` | `m_linkReconnectTimer`, `m_queryTimer` |
| `link.out`, `.up`, `.closing` | the outgoing objects of this repeater in the three tables; those LINKED; those UNLINKING |
| `link.ccs`, `.dir`, `.mapped`, `.asked` | `CCCSHandler::m_state`, `m_direction`, the DTMF cache, a lookup at the server |
| `link.info` | `triggerInfo` was called; consumed by the action that contains the operation |
| `cache`, `users` | the callsigns in `CCacheManager` |

Actions: `RepeaterHeader` (`processRepeater(CHeaderData&)`, with one disjunct per way out of it),
`RepeaterFrame` (`processRepeater(CAMBEData&)`, ending or not, completing a dialled command or not),
`BusyHeader`, `BusyFrame` (`processBusy`), `IrcUser`, `IrcRepeater` (`processIrcDDB`,
`resolveRepeaterInt`), `RemoteLinked`, `RemoteUnlinked`, `RemoteUnlinkedCcs` (`CRemoteHandler`),
`LinkAcknowledged`, `LinkRefusal`, `LinkDisconnected`, `LinkDropped`, `LinkTimedOut`, `LinkUnlinked`
(`processInt` and `clockInt` of the link handlers), `CcsAnswers`, `CcsCall`, `CcsEnds`, `CcsFound`,
`CcsUnknown`, `CcsSilent` (`CCCSHandler`) and `Clock` (`clockInt`).  `Clock` has two disjuncts,
since the code returns early on "just a change of port".

Abstracted:

* Audio, statistics, APRS, slow data, formatting and log texts.
* Callsign formats: a UR field is `[kind, arg]`, `kind` being the branch the code takes on it.  A startup
  reflector is a callsign or empty: a blank one, which `startup` and the command to go there take for a callsign
  (`Common/RepeaterHandler.cpp:2069`, 2334) and other places for none (1341), is left out.
* The LINKING and LINKED states of the three protocols are `LINKING` and `LINKED`: the protocol is that
  of the remote end.  LOOPBACK follows the DCS branches and is left out.
* Link objects form sets: two objects for one remote are not told apart, and a slot and a port are
  always free; `ReflectorLinks` has them.  The loop of `CDExtraHandler::unlink` calls `linkFailed`, which may
  link into the table being walked; whether the new object is then met by the loop depends on its slot, and
  `UnlinkDExtra` leaves both outcomes open.
* `gatewayUpdate`, which closes links when a gateway's address changes.
* Stream identifiers are not 0 (`StreamAssumption`).  A CCS peer's callsign differs from every remote;
  the not-found or found answer comes at most once per question.  Users and remotes are distinct names.
* Info, echo and DTMF are enabled: switched off, they only remove behaviours.
* ircDDB may answer about any remote that is no reflector, at any time or never.

### The link objects

A behaviour of `ReflectorLinks` uses one protocol.  `near` is the gateway whose repeater links out: its
status (`m_linkStatus`, `m_linkRepeater`, `m_linkRelink`), its table `links` with slots, the ports `inUse` of
the pool, and what the step `sent`.  `far` is the table of incoming objects of the gateway linked to; `net`
is the set of datagrams under way, which arrive in any order; any that is sent may be lost, for a trouble each.  The loops of the code over the table are folds in slot order, since a
callback may link into the table being walked.

Actions: `Command` (link to a module, change of module or unlink), `NearHears` and `FarHears` (any
datagram under way, by the cases of `processInt`), `NearClock(i)`
and `FarClock(j)` (`clockInt` of one object, with its retries, polls and inactivity), `NearStops` and `FarStops`
(`unlink()` of everything at shutdown; a table goes on empty, which is a restart).

Abstracted: voice; the back-off of the try timer (a retry may go out on any clock); dongles of DExtra;
changes of address.  The clocks of the two gateways are independent, so an object's timer is told
only by what came between.

### StarNet

`users` maps a user to `m_userTimer`, `ids` a stream to its `CStarNetId`: user, timer, whether the stream logs in,
asks or logs off, whether it has ended, and what its user *pointer* leads to: an object in the
group's list (`listed`), one that has left the list and still lives (`unlisted`), or a deleted one (`freed`).
`repeaters` does the same for the entries of `m_repeaters`.  A step that follows a pointer to a freed
object goes on with the old contents, or with another user in its memory, or the program dies
(`Restart`, all state back to the start).  Actions: `GroupHeader`, `LogoffHeader`, `Frame` (with or without a text that
asks or logs off), `LogoffAll` and `Logoff` (remote control), `IrcUser` (the cache learns where a user is) and `Clock`.

Abstracted: acknowledgements and announcements, which change no state; the text collector; the order in
which a round looks at streams and users, since a tick stands for many rounds and the `break`s out of the
loops are made up for in the next round.  A time-out of 0 means never, as in the code.  Frames from
the network reach only the stream being relayed, those of a local repeater any stream (`findStarNet`).
The link to a reflector (`DEXTRA_LINK`, `DCS_LINK`) is compiled out by the makefiles and left out here.

### The repeater controller

`phase` is the position in the loop; one action is what the code does at that point: `ControlHeader`, `AnnouncementHeader`,
`ListedHeader`, `UnknownHeader`, `DataHeader`, `WrongHeader`, `BusyHeader`, `ValidHeader` (the ways out of
`processRadioHeader`), `SlowData`, `RadioData`, `RadioEnd` (`receiveModem`), `NetworkHeader`, `NetworkData`, `NetworkEnd`
(`receiveNetwork`, and the identifier check of `RepeaterProtocolHandler`), `UserTimedOut`, `WaitOver`, `StreamLost` (`repeaterStateMachine`),
`StartUnit`, `UserStatus`, `ShutsDown`, `StartsUp`, `Write` (`transmitRadioData` and its siblings), `Clock`, and `Operator`,
who may press a button between any two.  `SetRepeaterState` is the function of that name, its refusal while stopping included.
`shutdown()` and `startup()` are called in any state, from the window or by a header (`checkControl`): a stop may be withdrawn before
the loop acts on it.  What it made `setRepeaterState` refuse meanwhile is then lost, and
`refused`, a history variable of the properties, tells so until a shutdown is carried out.  `uplink` is what the
gateway receives from here: a stream is `"open"` after its header; frames and an end that come without a header of theirs, under the
identifier of the stream before, make it `"stray"`; a shutdown cuts an open stream off (`"cut"`).

Abstracted: a timer is running or not, and a running one may expire at the next look; voice, slow
data, statistics, logging, the active output and the hang timer, which only holds that output.  The
silence put in for late packets is bounded by `MaxInsert`, the overs, streams and commands by `MaxEvents`.

### The ircDDB client

`client` is the state of `IRCClient::Entry`, `proto` that of `IRCProtocol`, `app` is `d->state` of `IRCDDBApp`;
`appQ` and `hold` are the two pointers to the send queue, each null, live or to a deleted queue.
Only the user list is under a mutex, so a poll of the application is two steps, `Poll` (reads and
effects) and `Write` (of `d->state`), and the client thread may run between.  The gateway thread fetches the
queue (`FetchesQueue`) and uses it (`PutsMessage`) in two steps also.  `present` and `opped` are who really is on the
channel: the world that the list is compared with.

Abstracted: whether another address is left to try is open; a timer that waits for an
answer expires only when the answer cannot come any more (`NoAnswer`, `NoServerComes`, `NoListComes`); the
two sleeps (2 s and 15 s) are counted in polls of 1 s (two and three begun); `msgQuery` checks and writes in one step;
the server chosen is any that has its op flag; this client never gets the flag itself; `Deletes` waits until the gateway thread has
used the queue it fetched: the code sleeps for two seconds before the deletion (`ircDDB/IRCClient.cpp:480`), so `QueueLive` shows the
order of the steps and takes it on trust that two seconds are enough; all lines of a WHO answer
are one message; a SENDLIST is answered after the poll that sent it.  The reply queue, the
contents of the tables and the information and watchdog messages are left out.

`IRCDDBMultiClient` keeps an item per callsign: the network that said where a station is, the one
that gave an address, the timestamp and the count of answers.  `getMessageType` is `Starts`, one `PollsClient` per network
and `Returns`, between which the networks' threads add replies.

### Fairness

* `RepeaterHandler`, `StarNet`: weak fairness of `Clock` alone.  The gateway's loop calls `clock` after every round of
  reading (349-413), and each round ends, since every read loop stops on an empty socket.  Nothing obliges a
  user, a server or the network to act: liveness holds by time-outs.
* `ReflectorLinks`: every clock and every datagram that stays under way.  Clocks are strongly fair because the
  bound `NetBound`, which the code does not have, may hold them up.
* `DStarRepeater`: weak fairness of the loop; strong fairness of what a turn finds when it comes to it: the end
  of an over (the modem reports a lost one too), a running timer's expiry, and room in the modem.  Each frame of the gateway
  restarts the watchdog (`DStarRepeaterTRXThread.cpp:681`), so that one expires only once the frames stop: its strong fairness is
  assumed of behaviours with finitely many `NetworkData`.  No packet of the gateway, an end least of all, is assumed to arrive.
* `IRCDDBClient`: both threads, the gateway's second step, and a server that has been asked while its line is up; time-outs are strongly
  fair because their condition comes and goes.  `IRCDDBMultiClient`: the gateway's loop and the servers that do not lose the question.

## 3. What TLC checks

Passing runs, all exhaustive:

| Run | Distinct states | Instance | Properties |
|---|---|---|---|
| `Radio.cfg` (MCRepeater) | 50,232 | one gateway unknown at first, two users, two stream identifiers, all kinds of UR field, watchdog of 3 ticks | `TypeOK`, `Exclusive`, `Guarded`, `RouteResources`, `NothingLeft`, refinement `KeepsPromise`, liveness `Released` |
| `Links.cfg` (MCRepeater) | 13,036 | a DExtra and a DCS reflector, a gateway found through ircDDB, startup link or none, remote control | `NoGhost`, `LinkedIsUp`, liveness `ReturnsHome` |
| `Modules.cfg` (MCRepeater) | 289,526 | two modules of a D-Plus and two of a DCS reflector | `FixedStays`, `OneDcs` |
| `Ccs.cfg` (MCRepeater) | 173,031 | CCS calls over links to a DExtra reflector and to a gateway found through ircDDB | `CcsAlone`, `CallRestores`, `Remembered` |
| `Reflectors.cfg` (MCReflectors) | 74,294 | three protocols, two served modules and one not, two ports, two slots at either end, 2 or 3 troubles | `TypeOK`, `PoolMatches`, `IncomingUnique`, `DExtraAgrees`, liveness `FarForgets`, `DcsReclaimed` |
| `Controller.cfg` (MCRepeaterTRX) | 136,412 | duplex or gateway mode, with acknowledgements or not, any two events, queues of two frames | `TypeOK`, `Timed`, `OverHeld`, `TakenHeld`, `UplinkFramed`, `OneOnAir`, liveness `Freed` |
| `IrcDDB.cfg` (MCIRCDDB) | 556,564 | two servers, any two things that go wrong, a stop at any time | `TypeOK`, `QueueLive`, `FreshList`, `Directory`, liveness `Recovers`, `Stops` |
| `MultiNetwork.cfg` (IRCDDBMultiClient) | 641,866 | two networks, a user and a repeater, two questions, a broadcast, a lost question | `TypeOK`, `Completable`, liveness `Answered` |
| `StarNet.cfg` (StarNet) | 178,715 | two users, one permanent, two streams, one local and one from the network, two repeaters | `RelayKnown`, action property `ClockKeepsUsers`, liveness `ComesToRest` |

*Bounds.*

* Repeater handler: `QueryTimeout` = 2 and `ReconnectTimeout` = 3 ticks: a timer can be seen running and not
  expired, both can expire in either order and in the same tick, and events fit between.  `WatchdogTimeout`
  is 3 where streams are the subject, so that the query timer expires before, with and after it, and 2
  elsewhere.  Two stream identifiers tell a repeated header from a new one.  Two remotes per protocol
  are needed for a change of module, one known and one unknown for a lookup.  Timers saturate and
  sets are finite, so the state spaces are complete.
* Link objects: a link, its change or end, and the loss of one of their datagrams are three troubles; D-Plus, whose
  log-in has more datagrams, has two.  Two slots and ports make the table full with one link closing and one opening.
  `NetBound` = 2 datagrams may be under way when one more is sent unasked: the request of a former
  link and the answer to it meet a new one.  `PollTimeout` = 3 is the least that tells expiry from one missed poll.
* Controller: two events let a network stream meet an over, a shutdown meet either, or one over follow
  another.  To withdraw a stop is no event: it may happen at once, late, or never.  The run length is 2 for the network and 1 elsewhere: a transmission waits in its queue or starts at
  once.  `Space` = 2: a queue gets full.
* ircDDB: two troubles make a failure happen while an earlier one is being recovered from; two servers, a choice.
* Multi-client: with two networks an item is complete, half complete or empty; questions, broadcast and loss
  combine for the same callsign.
* StarNet: `MessageDelay` = 2, so that a stream can be seen waiting, and user and group time-outs of 5 and 6, the least above twice
  that and different, so that either comes first.  Two streams let a user talk twice, or two users
  meet.  Larger instances were run as well: three streams, and time-outs of 0.

`Reflectors.cfg`, `DPlusReclaimed.cfg` and `MultiNetwork.cfg` switch the deadlock check off: with every trouble spent and nothing
linked, or every question answered, the system is at rest.  Elsewhere it is on.

*What they show.*

* `Released`: once the radio falls silent for good, the stream it left is given up for good, whatever
  the network goes on doing.  It holds for a repeater without a startup link to another module; see below.
* `ReturnsHome`: once the radio and the remote control are quiet, a repeater in reconnect mode is at its
  startup link again and again, however often the far end refuses, drops or never answers.
* `NoGhost` and `LinkedIsUp` are stated of DExtra links.  D-Plus and DCS objects outlive `unlink` until
  they are acknowledged, and there both can fail: the late acknowledgement clears a newer link
  to the same remote, and a D-Plus disconnect is told to nobody (`LinkDropped`).
* Some properties of the link hold of some configurations only; the theorems in section 4 name them, and the runs
  keep to them.  `NoGhost`, `LinkedIsUp`, `CcsAlone` and `CallRestores`: nobody moves between modules of one DExtra or
  DCS reflector.  `NoGhost`, `LinkedIsUp` and `OneDcs`: a repeater without CCS.  `FixedStays` and `CallRestores`: the hosts files know
  every reflector.  Section 3 ends with what happens otherwise.
* `Remembered`: `suspendLinks` runs at the command and again when the call is made, and a call may be followed by another
  at once; the link to restore is the one that was there at first.
* `CallRestores` speaks of calls that were established and whose reconnect timer was not running: that
  timer may relink during the call, or overwrite what was restored.
* `DExtraAgrees` holds although DExtra answers are matched by address alone; `PoolMatches` and `DcsReclaimed`, although
  objects are removed inside callbacks and acknowledgements get lost; `FarForgets` rests on the far
  end's inactivity timer only.
* `KeepsPromise`: a stream's route is fixed by its header or by the one answer to its lookup.  `RadioChannel` names the streams, so a
  route that changes while its stream goes on is no step of it, of the radio or relayed.
* `UplinkFramed`: a stream that is open at the gateway belongs to the over that is on the air, which may be heard and has asked to go
  there, so it ends with that over, or early when the user is timed out.  Whoever is heard at the gateway without an open stream has
  asked to stay local, or talks over what a withdrawn stop has left.
* `OverHeld` and `OneOnAir` hold of a repeater whose stops are carried out: `refused` excludes what a withdrawn one
  leaves behind, until the next shutdown.  `Freed` excludes the over whose end it made the controller miss (`Stranded`).
* `FreshList`, `Directory`: no stale list survives a reconnection, in spite of the unlocked state.  `Recovers` needs a server that stays.
* `ClockKeepsUsers` holds by a ratio nobody wrote down: the timers of user and group are restarted with the
  stream, and are more than two message delays long.

Each property has a mutation of the model that breaks it: the operators commented as *slips*, next
to the definitions they mutate.

### Findings

Three runs each check one statement of a comment or of a log text, which the code does not keep; TLC shows the shortest way.

| Run | Statement | What happens |
|---|---|---|
| `UserAnswered.cfg` | "User found, update the settings and send the header" | `resolveUser` has no caller (`IRCDDBGatewayThread.cpp:722`) |
| `DPlusReclaimed.cfg` | "D-Plus link to %s has failed to disconnect cleanly" | `unlink` stops the one timer that leads there: slot and port are lost for good with one acknowledgement (`DPlusHandler.cpp:419`) |
| `AllCleared.cfg` | "If none then clear all the data structures" | `m_repeaters.end()` stands for `clear()`: deleted entries stay in the list (`StarNetHandler.cpp:825`) |

### Observed while modelling

The models contain these behaviours, and the passing properties hold in spite of them; a property that
excludes one fails at once.

Repeater handler (`Common/RepeaterHandler.cpp`):

* an unknown reflector: "ignoring link request", but the links are taken down first (2156, 2171);
* Reconnect None "will not reconnect": `link` stops the timer and leaves its timeout, the next header starts it (586),
  during a CCS call too;
* "Have we linked to something else in the meantime?": a new link to the same callsign is taken for the old (1604);
* a link restored by the end of a call is overwritten by the same time-out (1462-1467);
* a duplicate link command stops the timer of the pending one (2044);
* `clockInt` returns at 1419 on every tick while a change of module relinks, before the watchdogs are looked at;
* an unlink leaves `m_linkRelink` set, and the next failure follows it (1597).  So `unlinkAll` or `suspendLinks` after a change
  of module may link a DExtra reflector again while it takes it down: there are two links at once, or a link beside a
  CCS call;
* with CCS and two DCS modules there may be two DCS links: the link is restored while the object of the suspended one
  waits for its acknowledgement;
* a query that runs out in LINKING_CCS after the call has become active, or a remote command during the call: `stopLink` restores the link, its
  caller clears the status (1462), and the object stays without a status;
* a Fixed command to another module of a callsign that ircDDB is still asked about is ignored (2044), and one to a
  reflector that no hosts file has leaves the old link and its status;
* a late CT_DTMFFOUND makes a repeater LINKED_CCS without a call (`CCSHandler.cpp:321`);
* a remote command during a call leaves `m_lastReflector` as it was, so a later call made from no link may end with a link
  that an earlier one suspended.

Link objects: a D-Plus disconnect while LINKED deletes the object without a word to the repeater
(`DPlusHandler.cpp:698`), and after its polls stop it relinks for ever (786); a DExtra or DCS disconnect while LINKING is
silent as well (`DExtraHandler.cpp:785`); a DCS object that is unlinking may go back to linking when the repeater
has linked to the same reflector again (`DCSHandler.cpp:722`).  `linkFailed` with a left-over `m_linkRelink` makes a new
object in the first free slot.  With one repeater that slot lies behind the object which has failed, so the walk over the table meets the new
object too, and a command to unlink takes it down; a table shared with other repeaters may put it before.

Controller (`DStarRepeater/DStarRepeater/DStarRepeaterTRXThread.cpp`): `processRadioHeader` returns true for a header
it has deleted, and the first frame uses a null `m_rxHeader` (578, 1427); a shutdown resets the network queues and not their
read and write numbers (257); a beacon may go out without its header when its queue is reset under it; a full
queue drops the end of a transmission (`DStarRepeater/Common/OutputQueue.cpp:91`); a network stream that begins while the one before still waits in its queue may overwrite it or
be played before it; a lost end keeps `m_inId` until the watchdog
(`DStarRepeater/Common/RepeaterProtocolHandler.cpp:379`); a stream whose frames never end keeps the repeater, for only
overs have a time limit.

An over that no list blocks and whose RPT2 is blank or the repeater's own sends no header (1351), and yet its frames and
its end go to the gateway (1488-1500, 1176-1181), under the identifier of the last header sent: the end closes a stream there twice, or
the one that a shutdown left unfinished.

Between the request for a stop and the shutdown itself `setRepeaterState` refuses every change (1111), and `startup()`
withdraws the request in any state (1775).  If the over ends in between, the repeater stays VALID, INVALID or TIMEOUT and
its receiver listens: the next over is taken for the rest of the last one, without a header at the gateway; INVALID and TIMEOUT have no
timer and wait for its end.  If a network stream ends in between, `endOfNetworkData` turns to the other queue and the state stays
NETWORK; the watchdog then adds an end to that queue, which has no header and is not the one being read.  A change of state that
is asked for in SHUTDOWN with a start pending starts the timers of beacon and announcement (1108) before the repeater is up.

ircDDB: `userLeave` of the server between a poll's read and its write of 7 is forgotten (`ircDDB/IRCDDBApp.cpp:1239`);
state 7 goes on as if on line after it finds no queue (1245); an item takes a repeater and a gateway from an answer without a
timestamp over a newer one (`ircDDB/IRCDDBMultiClient.h:90`), and may put one network's address beside another's gateway;
the comment "did all the clients respond or did we have an answer ?" stands at a test that only counts (`ircDDB/IRCDDBMultiClient.cpp:213`).

StarNet (`Common/StarNetHandler.cpp`): a remote logoff frees a user to whom a second stream points (792); a logoff stream that
ends late erases the user who has logged in again (719, 1042).

## 4. What is proved

For every value of the constants, from the assumptions of the modules, which TLC evaluates in the runs, and
the hypotheses that a theorem names.  Every invariant and action property of the passing runs, and the refinement, has
its theorem.

| Module | Theorem | States |
|---|---|---|
| `RepeaterHandlerProofs` | `TypeCorrect`, `Invariant` | `Spec => []TypeOK`, `Spec => []IInv` |
| | `StreamsExclude`, `StreamsGuarded` | `Spec => []Exclusive`, `Spec => []Guarded` |
| | `RoutesHaveResources`, `NothingOutlives` | `Spec => []RouteResources`, `Spec => []NothingLeft` |
| | `Implements` | `Spec => KeepsPromise`: the repeater implements `RadioChannel` |
| `LinkProofs` | `LinkIsSettled` | `Spec => []Settled(link, cache)` |
| | `FixedStaysHome` | `Resolvable`: `Spec => []FixedStays` |
| | `CcsCallAlone` | `SingleModules`: `Spec => []CcsAlone` |
| | `CallEndRestores` | `SingleModules`, `Reachable`: `Spec => CallRestores` |
| | `SuspendedIsRemembered` | `Spec => Remembered` |
| | `OneDcsAtATime` | `NoCcs`: `Spec => []OneDcs` |
| | `NoGhostLink`, `AnnouncedLinkIsUp` | `SingleModules`, `NoCcs`: `Spec => []NoGhost`, `Spec => []LinkedIsUp` |
| `ReflectorProofs` | `TypeCorrect` | `Spec => []TypeOK` |
| | `LinksUnique` | `Spec => []IncomingUnique` |
| | `PoolInStep`, `RepeaterAgrees` | `Spec => []PoolMatches`, `Spec => []DExtraAgrees` |
| `StarNetProofs` | `TypeCorrect` | `Spec => []TypeOK` |
| | `RelayIsKnown` | `Spec => []RelayKnown` |
| | `UsersOutliveStreams` | `Spec => ClockKeepsUsers` |
| `DStarRepeaterProofs` | `TypeCorrect` | `Spec => []TypeOK` |
| | `TimersRun`, `OversAreHeld`, `TakingEnds` | `Spec => []Timed`, `[]OverHeld`, `[]TakenHeld` |
| | `UplinkIsFramed`, `OneTransmission` | `Spec => []UplinkFramed`, `Spec => []OneOnAir` |
| `IRCDDBProofs` | `TypeCorrect` | `Spec => []TypeOK` |
| | `NoDanglingQueue`, `NoStaleList` | `Spec => []QueueLive`, `Spec => []FreshList` |
| | `ListIsTheChannel` | `Spec => []Directory` |
| `MultiClientProofs` | `TypeCorrect` | `Spec => []TypeOK` |
| | `QueriesCompletable` | `Spec => []Completable` |

*Repeater handler.*  `IInv == TypeOK /\ RadioInv`, where `RadioInv` is the conjunction of the four radio
facts.  No one of them is inductive alone: that the end of a frame clears a route needs to know which
pointers the route holds (`RouteResources`); that the watchdog's expiry is the end of a stream needs
`Guarded`, in both directions; that the clock does not end a stream twice needs `Exclusive`; and
`NothingLeft` is what lets a new header begin from silence.  The proof has one lemma per action.  Most
actions of the network are link operations inside `LinkChange`, so their case rests on the lemmas of
`LinkTyping`: each operator maps a record of type `LinkStates` to records of that type, and the
queued announcements follow `QueueStep`.  The lemmas `BeginStep`, `FrameStep` and `EndStep` are shared by
the handlers that begin, continue and end a stream; the clock is split by `ClockLeaves` into the branches
of `clockInt`.

*Refinement.*  `RadioChannel` is instantiated with `owner`, the stream named by the two identifiers, `route`
from `g2Status` and, while a lookup is on or answered, `g2Call`, and `queue` with `needed`.  `Implements`
shows that each step is `Begin`, `Relay`, `Queue`, `Settle`, `End` or a stutter.  `Begin` and `Relay` need a stream that
is not on the air; while one goes on only `Settle` may change the route, once, keeping the callsign that was looked up or
giving it up.  The invariant is needed for `End`, which must leave silence, and for `Settle`, which may only happen while a
stream is on the air.

*Links of a repeater.*  The induction over the actions is done once: a family of sets of link records is
`Closed` when every way in which a step changes the link leads from a member to a member, and `LinkSteps` shows that the
actions of `RepeaterHandler` change it in these ways only.  Each property then needs a predicate of one record
and the proof that the operations of `LinkControl`, `CCSHandler` and `LinkCommands` keep it.

* `Settled`: the kind of the status says what the name is, a query asks for what no hosts file has, and a Fixed
  repeater that is not at rest has its own reflector's name.  *`Resolvable`* says that the hosts files have every reflector, and that a
  callsign they lack has no second module.
* `Hushed`: no change of module is under way, and a CCS status has no link object beside it.  *`SingleModules`* says that
  no DExtra or DCS remote has a second module among the remotes: D-Plus, whose change of module keeps the object, may have.
* `SingleDcs`: the one DCS object is that of the reflector to which the repeater is linked, if any.  *`NoCcs`*: no repeater of the gateway is a CCS client.
* `Whole`: a DExtra object is that of the reflector to which the repeater is linked, up if it says so.
* `Remembered` is an action property.  The induction is stated for it of two families of sets, of which one `Leads` to the other
  (`LinkLeads`; a closed family leads to itself): from the records that differ from the present one in timers, every move leads
  to those that, if in a call, have what the present one has to come back to as the link to restore.
* `CallRestores` is an action property: every step from LINKED_CCS leaves the call on or ends in
  `restoreLinks` (`OnOrBack`).  *`Reachable`* says that what is restored can be linked to or asked for: the hosts files have every
  reflector, no protocol is off, and ircDDB is on.

*Link objects.*  `LinksUnique` assumes nothing of the near gateway or of the network: whatever datagram comes, an
operation of the far gateway either keeps the objects or adds one for a port and module that has none.
The other two are about the near gateway.  `Sound`: the ports in use are those of the objects, and no two objects share one.
`Steady`, of a DExtra gateway: one object at most, alive, whose module is the repeater's, up if the repeater says so;
and a left-over `relink` meets an object in the first slot only, so that the object which `linkFailed` makes lies
behind the one that has failed.  Both are shown of every operation on one object (`UnlinksOne`, `HearsNear`, `ExpiredKeeps`), then of the walks over
the table that `unlink` and `process` make.  The walks are folds; the library's induction theorems take an operator as their parameter,
which the provers cannot instantiate, but induction stated of sets (`Induction`, from the well-foundedness of finite
subsets) serves as well: `WalkExists` unfolds a `FoldLeft` over the slots into the function of its intermediate results, and the
two facts are then shown of each result in turn.

*StarNet.*  `ClockKeepsUsers` is an action property about a race of three timers.  The invariant behind it, `Paced`,
says that a stream is younger than its user and its group: what restarts its timer restarts theirs, except
its end, which may put it ahead by one message delay.  So neither timer is above the stream's `Age`, which is
its own timer, plus a delay once it has ended, and never reaches two delays.  With time-outs above that (`StarNetAssumption`;
`MESSAGE_DELAY` is 4 seconds, the others are half an hour and more, or never) the stream is settled
before user or group can expire.

*Controller.*  `IInv` adds to `Timed`, `OverHeld` and `TakenHeld` that the disable input, once acted upon, has shut the repeater down
(`DisabledIsDown`).  `Timed` rests on `SetRepeaterState`, whose refusals keep the old state with its old timers; the case
that needs care is VALID_WAIT to VALID, where the timeout timer is not started but still runs.
A refused call is the one thing that parts the two state machines: it sets `refused`, which nothing but the shutdown itself clears
(`RefusedStays`), so `OverHeld` needs no word about `shutdown`, which comes and goes.  `UplinkFramed` is inductive
together with `IInv`: a header opens the stream of an over that nothing takes elsewhere, and whatever ends the one ends the other.
`OneOnAir` follows from `TxInv`: an over and a network stream each build one transmission, which has
no end yet; the other queues are complete; one at most has begun to play, and of the network's only the one
that is read (`Sending`).  What a stop refuses may break that for good; the shutdown itself restores it by emptying
the queues (`Silenced`).

*ircDDB client.*  `FreshList` needs to know how the application winds down without a queue: three polls
take it to state 0 from any other, and the client sleeps longer before it connects (`WindsDown`), so a new connection starts
with a cleared application (`StartsFresh`, `Cleared`); a server has been chosen from state 3 on (`Started`); a download's answers belong to this
connection (`Downloads`); and WHO is answered before SENDLIST (`Ordered`), so the own nick is known by then.
`Directory` compares the list with the channel when nothing is on its way.  The invariant `Tracks` says it at all times: a server will be
in the list once the queue is read if and only if it is on the channel, where the last message about it decides, or else the list as it is (`Lasting`).  A message
that comes is added at the end of the queue and one that is read is taken from its start (`LastingGrows`, `LastingShifts`).

*Multi-client.*  `Completable`: a question that waits has enough answers on their way to be completed.  What is on its way are
the places in the networks' queues that hold a question or an answer for the callsign.  The proof counts them as a
finite set (`Spread`, `Places`): a question adds one place per network, a network's answer replaces one by another, and an answer that is
taken removes one while it counts one towards the item.

*Only model-checked.*  Liveness (`Released`, `ReturnsHome`, `FarForgets`, `DcsReclaimed`, `Freed`, `Recovers`, `Stops`, `Answered`,
`ComesToRest`), which is beyond the prover; and the three statements that TLC refutes.

## 5. Not modelled, and what comes next

1. `G2Handler`: the table of incoming routes and its time-outs; `EchoUnit` and `AudioUnit`: the playback units with
   `cancel` at every point; the outlet lock of `process(header, direction, source)` with two repeaters.
2. The receive-only, transmit-only and half-duplex variants of the controller, whose threads are smaller copies
   of the one that is modelled.
3. StarNet's link to a reflector, for builds with `DEXTRA_LINK` or `DCS_LINK`: `ReflectorLinks` has its object.
4. Links of several repeaters in one table, where the relinked object may lie before the failed one.
5. The reflector servers, which repeat the gateway's handlers in an earlier form, the FM controller
   `AnalogueRepeater`, and the parrot of `RepeaterExtras`.

Most of the repository's lines are configuration, windows, modem and sound drivers, encoders and
decoders of datagrams, and copies of the gateway's classes in sibling programs.  They are left out for good:
the first have no state a property would be about, and the copies would be the same modules again.

`PROJECT.json` lists the hazards of the code at their lines; those without a property say which action
models them and why a property would fail or wait.
