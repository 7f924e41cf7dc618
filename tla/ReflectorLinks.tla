------------------------------ MODULE ReflectorLinks ------------------------------
(***************************************************************************)
(* The link objects of CDExtraHandler, CDPlusHandler and CDCSHandler at    *)
(* both ends: a gateway whose repeater links to modules of a far gateway   *)
(* (outgoing objects, the port pool and the callbacks to the repeater),    *)
(* the far gateway's incoming objects, and the datagrams between them,     *)
(* which are delayed, reordered and, a bounded number of times, lost.      *)
(* One behaviour of the model uses one protocol.                           *)
(*                                                                         *)
(* An operation on the near gateway is a function on its record; the       *)
(* loops of the code over the table are folds in slot order, since a       *)
(* callback may link into the table being walked.  Abstracted: voice, the  *)
(* back-off of the try timer (a retry may go out on any clock), dongles of *)
(* DExtra, and changes of address.  The clocks of the two gateways are     *)
(* independent, so an object's timer is told only by what came between.    *)
(***************************************************************************)
EXTENDS CTimer, SequencesExt

CONSTANTS
  Protocols,          \* the protocols to choose from
  Modules,            \* callsigns of the far gateway's modules
  Unserved,           \* those the far gateway has no repeater for
  NoCall,
  Ports,              \* the pool: m_pool[i].m_port
  NearSlots, FarSlots,  \* m_maxReflectors at either end
  PollTimeout,        \* ticks of m_pollInactivityTimer
  Troubles,           \* bound: commands, restarts, refusals and losses in all, by protocol
  NetBound            \* bound: datagrams under way when one more is sent unasked

ASSUME NetworkAssumption ==
  /\ Protocols \subseteq {"DEXTRA", "DPLUS", "DCS"} /\ Unserved \subseteq Modules
  /\ IsFiniteSet(Modules) /\ NoCall \notin Modules
  /\ Ports \subseteq Nat /\ IsFiniteSet(Ports)
  /\ NearSlots \in Nat \ {0} /\ FarSlots \in Nat \ {0}
  /\ PollTimeout \in Nat \ {0, 1} /\ NetBound \in Nat /\ Troubles \in [Protocols -> Nat]

VARIABLES
  protocol,  \* the protocol in use
  near,      \* repeater, table and pool: a record of NearStates
  far,       \* the far table of incoming objects
  net,       \* datagrams under way
  troubles   \* how many commands, restarts, refusals and losses are to come

vars == <<protocol, near, far, net, troubles>>

Empty == [module |-> NoCall]

\* polling: m_pollTimer runs; trying: m_tryTimer runs
Links == [module : Modules, port : Ports, state : {"LINKING", "LINKED", "UNLINKING"},
          trying : BOOLEAN, polling : BOOLEAN, idle : 0..PollTimeout]

Incoming == [module : Modules \cup {NoCall}, port : Ports, state : {"LINKING", "LINKED"},
             idle : 0..PollTimeout]

Requests == {"LINK1", "LINK2", "UNLINK", "POLL"}
Answers == {"LINK1", "ACK", "NAK", "UNLINK", "POLL"}

Messages == [to : {"near", "far"}, port : Ports, module : Modules \cup {NoCall},
             type : Requests \cup Answers]

NearStates == [status : {"NONE", "LINKING", "LINKED"}, remote : Modules \cup {NoCall},
               relink : BOOLEAN, links : [1..NearSlots -> Links \cup {Empty}],
               inUse : SUBSET Ports, sent : {{}}]

To(end, type, port, module) == [to |-> end, type |-> type, port |-> port, module |-> module]

Send(g, types, o) ==
  [g EXCEPT !.sent = @ \cup
     {To("far", type, o.port, IF type = "LINK1" /\ protocol # "DPLUS" THEN o.module ELSE NoCall)
        : type \in types}]

Slots(g) == {i \in 1..NearSlots : g.links[i] # Empty}

WalkNear(Op(_, _), g) == FoldLeft(Op, g, [i \in 1..NearSlots |-> i])

Live(s) == s \in {"LINKING", "LINKED"}

-------------------------------------------------------------------------------
\* A slip of Free: the destructor does not give the port back.
FreeKeepsPort(g, i) == [g EXCEPT !.links[i] = Empty]

\* delete of an outgoing object: the destructor releases the port
Free(g, i) == [g EXCEPT !.links[i] = Empty, !.inUse = @ \ {g.links[i].port}]

(* link(): DCS refuses a second object; without a free port, or a free slot *)
(* (the new object is deleted again), nothing happens and nobody is told.   *)
AddLink(g, m) ==
  LET ports == Ports \ g.inUse
      slots == 1..NearSlots \ Slots(g)
      o == [module |-> m, port |-> Min(ports), state |-> "LINKING",
            trying |-> TRUE, polling |-> FALSE, idle |-> Started]
  IN IF \/ protocol = "DCS" /\ \E i \in Slots(g) : Live(g.links[i].state)
        \/ ports = {} \/ slots = {}
     THEN g
     ELSE Send([g EXCEPT !.links[Min(slots)] = o, !.inUse = @ \cup {o.port}], {"LINK1"}, o)

NotLinked(g) == [g EXCEPT !.status = "NONE", !.remote = NoCall]

\* A slip of LinkInt: it links to whatever m_linkRepeater holds.
LinkIntAny(g, m) == AddLink([g EXCEPT !.status = "LINKING", !.remote = m], m)

\* linkInt: the cache knows the modules; without ircDDB, no callsign leads nowhere
LinkInt(g, m) ==
  IF m = NoCall THEN NotLinked(g)
  ELSE AddLink([g EXCEPT !.status = "LINKING", !.remote = m], m)

LinkUp(g) == IF g.status = "LINKING" THEN [g EXCEPT !.status = "LINKED"] ELSE g

LinkRefused(g, m) == IF g.remote = m THEN NotLinked(g) ELSE g

\* linkFailed with isRecoverable false
LinkFailed(g, m) ==
  IF g.relink THEN LinkInt([g EXCEPT !.relink = FALSE], g.remote)
  ELSE IF g.status = "NONE" \/ g.remote # m THEN g ELSE NotLinked(g)

\* linkFailed with isRecoverable true: whether to keep the object
KeepsTrying(g, m) == g.status # "NONE" /\ g.remote = m

-------------------------------------------------------------------------------
\* A slip of UnlinkOne: DCS stops the inactivity timer, as D-Plus does.
UnlinkOneStops(g, i, gone) ==
  LET o == g.links[i]
      h == Send([g EXCEPT !.links[i].state = "UNLINKING"], {"UNLINK"}, o)
  IN IF o.module \notin gone \/ ~Live(o.state) THEN g
     ELSE IF protocol = "DEXTRA" THEN Free(LinkFailed(h, o.module), i)
     ELSE [h EXCEPT !.links[i].trying = TRUE, !.links[i].idle = Stopped]

(* unlink(): the objects that lead to gone.  A DExtra object calls the      *)
(* repeater back and is deleted; the others wait for the far end.           *)
UnlinkOne(g, i, gone) ==
  LET o == g.links[i]
      h == Send([g EXCEPT !.links[i].state = "UNLINKING"], {"UNLINK"}, o)
  IN CASE o.module \notin gone -> g
       [] o.module \in gone /\ protocol = "DEXTRA" ->
            Free(IF Live(o.state) THEN LinkFailed(h, o.module) ELSE g, i)
       [] o.module \in gone /\ protocol # "DEXTRA" /\ Live(o.state) ->
            [h EXCEPT !.links[i].trying = TRUE,
                      !.links[i].polling = @ /\ protocol = "DCS",
                      !.links[i].idle = IF protocol = "DPLUS" THEN Stopped ELSE @]
       [] OTHER -> g

Unlink(g, gone) == WalkNear(LAMBDA h, i : UnlinkOne(h, i, gone), g)

\* CDPlusHandler::relink
Rename(g, m) ==
  IF Slots(g) = {} THEN g ELSE [g EXCEPT !.links[Min(Slots(g))].module = m]

\* reflectorCommandHandler: another module of the same gateway, or a first link
LinkCommand(g, m) ==
  LET moved == [g EXCEPT !.remote = m] IN
  IF g.status = "NONE" THEN LinkInt(Unlink(g, Modules), m)
  ELSE IF protocol = "DPLUS" THEN Rename(moved, m)
  ELSE [Unlink([moved EXCEPT !.relink = TRUE], Modules \ {m}) EXCEPT !.status = "LINKING"]

-------------------------------------------------------------------------------
(* process(CConnectData&) and process(CPollData&) for one near object.      *)
(* DExtra does not compare the port a message came in on.                   *)
Mine(o, d) == o # Empty /\ (protocol = "DEXTRA" \/ o.port = d.port)

HearAck(g, i, d) ==
  LET o == g.links[i] IN
  IF ~(Mine(o, d) /\ o.state = "LINKING") THEN g
  ELSE [LinkUp(g) EXCEPT !.links[i] =
          [o EXCEPT !.state = "LINKED", !.trying = FALSE,
                    !.polling = protocol # "DCS",
                    !.idle = IF protocol = "DPLUS" THEN Started ELSE @]]

HearNak(g, i, d) ==
  LET o == g.links[i] IN
  CASE ~Mine(o, d) -> g
    [] Mine(o, d) /\ o.state = "LINKING" ->
         LET h == Free(LinkRefused(g, o.module), i)
         IN IF protocol = "DPLUS" THEN Send(h, {"UNLINK"}, o) ELSE h
    [] Mine(o, d) /\ o.state = "UNLINKING" /\ protocol = "DCS" -> Free(LinkFailed(g, o.module), i)
    [] OTHER -> IF protocol = "DPLUS" THEN Free(g, i) ELSE g

\* A slip of HearUnlink: the repeater hears of acknowledgements only.
HearUnlinkSilent(g, i, d) ==
  LET o == g.links[i] IN
  IF ~(Mine(o, d) /\ (protocol = "DPLUS" \/ o.module = d.module)) THEN g
  ELSE Free(IF o.state = "UNLINKING" THEN LinkFailed(g, o.module) ELSE g, i)

\* what the repeater hears: of a LINKED object's end from DExtra and DCS, and of an
\* acknowledged unlink from D-Plus
HearUnlink(g, i, d) ==
  LET o == g.links[i] IN
  IF ~(Mine(o, d) /\ (protocol = "DPLUS" \/ o.module = d.module)) THEN g
  ELSE Free(IF o.state = IF protocol = "DPLUS" THEN "UNLINKING" ELSE "LINKED"
            THEN LinkFailed(g, o.module) ELSE g, i)

\* the D-Plus far end answers the first half of the log-in
HearLink1(g, i, d) ==
  LET o == g.links[i] IN
  IF ~(protocol = "DPLUS" /\ Mine(o, d)) THEN g
  ELSE Send([g EXCEPT !.links[i].trying = FALSE], {"LINK2"}, o)

\* DCS answers a poll for this very link
HearPoll(g, i, d) ==
  LET o == g.links[i]
      h == [g EXCEPT !.links[i].idle = Started]
  IN CASE ~Mine(o, d) -> g
       [] Mine(o, d) /\ protocol = "DPLUS" -> h
       [] Mine(o, d) /\ protocol = "DEXTRA" -> IF o.state = "LINKED" THEN h ELSE g
       [] OTHER -> IF o.state = "LINKED" /\ o.module = d.module
                   THEN [h EXCEPT !.sent = @ \cup {To("far", "POLL", o.port, o.module)}]
                   ELSE g

HearNear(g, i, d) ==
  CASE d.type = "ACK" -> HearAck(g, i, d)
    [] d.type = "NAK" -> HearNak(g, i, d)
    [] d.type = "UNLINK" -> HearUnlink(g, i, d)
    [] d.type = "LINK1" -> HearLink1(g, i, d)
    [] OTHER -> HearPoll(g, i, d)

-------------------------------------------------------------------------------
(* The network.  A step takes received out and sends new; each datagram     *)
(* lost is a trouble, as are the spent others of the step.                  *)
Transmit(received, new, spent) ==
  \E lost \in SUBSET new :
    LET flying == (net \ received) \cup (new \ lost)
        cost   == spent + Cardinality(lost)
    IN /\ cost <= troubles /\ troubles' = troubles - cost
       /\ received = {} =>
            Cardinality({d \in flying : d.to = "far" \/ d.port \in near.inUse}) <= NetBound
       /\ net' = flying

\* the near gateway becomes g and what it sent is under way
Become(g, received, spent) ==
  /\ near' = [g EXCEPT !.sent = {}]
  /\ Transmit(received, g.sent, spent)
  /\ UNCHANGED <<protocol, far>>

Command ==
  \/ \E m \in Modules : /\ near.status # "NONE" => m # near.remote
                        /\ Become(LinkCommand(near, m), {}, 1)
  \/ near.status # "NONE" /\ Become(NotLinked(Unlink(near, Modules)), {}, 1)
  \* the remote control unlinks one remote, and the repeater hears of it by callback
  \/ \E m \in Modules : Become(Unlink(near, {m}), {}, 1)

\* the pool reads the sockets of the ports in use
NearHears(port, type) ==
  \E d \in net : /\ d.to = "near" /\ d.port = port /\ d.type = type /\ port \in near.inUse
                 /\ Become(WalkNear(LAMBDA g, i : HearNear(g, i, d), near), {d}, 0)

(* clockInt of one near object.                                             *)
NearClock(i) ==
  LET o == near.links[i]
      g == [near EXCEPT !.links[i].idle = Tick(@, PollTimeout)]
      again == [near EXCEPT !.status = "LINKING",
                            !.links[i] = [o EXCEPT !.state = "LINKING", !.trying = TRUE,
                                                   !.idle = Started]]
      polls == IF o.polling /\ (protocol = "DPLUS" \/ o.state = "LINKED")
               THEN {"POLL"} ELSE {}
      tries == IF ~o.trying \/ (protocol = "DEXTRA" /\ o.state # "LINKING") THEN {}
               ELSE CASE o.state = "LINKING" -> {"LINK1"}
                      [] o.state = "UNLINKING" -> {"UNLINK"}
                      [] OTHER -> {}
  IN /\ o # Empty
     /\ IF HasExpired(g.links[i].idle, PollTimeout)
        THEN Become(IF KeepsTrying(near, o.module) THEN Send(again, {"LINK1"}, o)
                    ELSE Free(near, i), {}, 0)
        ELSE \E due \in SUBSET tries :
               Become(Send(g, due \cup polls, o), {}, 0)

\* the gateway is stopped, which unlinks all, and started again
NearStops ==
  Become([NotLinked(near) EXCEPT
            !.relink = FALSE, !.links = [i \in 1..NearSlots |-> Empty], !.inUse = {},
            !.sent = {To("far", "UNLINK", near.links[i].port, NoCall) : i \in Slots(near)}], {}, 1)

-------------------------------------------------------------------------------
(* The far gateway: incoming objects, found by the sender's port.           *)
FarBecome(table, received, new, spent) ==
  /\ far' = table
  /\ Transmit(received, new, spent)
  /\ UNCHANGED <<protocol, near>>

FarTaken == {j \in 1..FarSlots : far[j] # Empty}
From(port) == {j \in FarTaken : far[j].port = port}

\* A slip of Duplicates: only an established link counts.
LinkedDuplicates(d) == \E j \in From(d.port) : far[j].state = "LINKED" /\ far[j].module = d.module

\* process(CConnectData&) knows the link already; a D-Plus object has no module
Duplicates(d) == \E j \in From(d.port) : far[j].module = d.module

FarReply(d, type) == To("near", type, d.port, NoCall)

(* LINK1: a duplicate is not answered; DExtra and DCS link at once, D-Plus  *)
(* goes through a log-in.                                                   *)
FarLinks(d) ==
  LET free == 1..FarSlots \ FarTaken
      o == [module |-> d.module, port |-> d.port, idle |-> Started,
            state |-> IF protocol = "DPLUS" THEN "LINKING" ELSE "LINKED"]
      answers == CASE protocol = "DPLUS" -> {"LINK1"} [] protocol = "DCS" -> {"ACK"}
                   [] OTHER -> {"ACK", "POLL"}
  IN CASE Duplicates(d) -> FarBecome(far, {d}, {}, 0)
       [] ~Duplicates(d) /\ d.module \notin Unserved /\ free # {} ->
            FarBecome([far EXCEPT ![Min(free)] = o], {d}, {FarReply(d, a) : a \in answers}, 0)
       [] OTHER -> FarBecome(far, {d}, IF protocol = "DPLUS" THEN {} ELSE {FarReply(d, "NAK")}, 0)

\* LINK2: D-Plus reflectors outside this repository may refuse
FarLogsIn(d) ==
  IF From(d.port) = {} THEN FarBecome(far, {d}, {}, 0)
  ELSE \/ FarBecome([j \in 1..FarSlots |-> IF j \in From(d.port)
                                           THEN [far[j] EXCEPT !.state = "LINKED"] ELSE far[j]],
                    {d}, {FarReply(d, "ACK")}, 0)
       \/ FarBecome(far, {d}, {FarReply(d, "NAK")}, 1)

\* only D-Plus acknowledges, and only while it has the link
FarUnlinks(d) ==
  FarBecome([j \in 1..FarSlots |-> IF j \in From(d.port) THEN Empty ELSE far[j]], {d},
            IF protocol = "DPLUS" /\ \E j \in From(d.port) : far[j].state = "LINKED"
            THEN {FarReply(d, "UNLINK")} ELSE {}, 0)

(* A poll keeps an object alive, told by callsign and port: every module    *)
(* linked from that port in DExtra, the first in DCS.                       *)
FarPolled(d) ==
  LET heard == {j \in From(d.port) : protocol = "DPLUS" \/ far[j].state = "LINKED"}
      fresh == IF protocol = "DCS" THEN {j \in heard : j = Min(heard)} ELSE heard
  IN FarBecome([j \in 1..FarSlots |-> IF j \in fresh THEN [far[j] EXCEPT !.idle = Started]
                                      ELSE far[j]], {d}, {}, 0)

FarHears(port, type) ==
  \E d \in net : /\ d.to = "far" /\ d.port = port /\ d.type = type
                 /\ CASE d.type = "LINK1" -> FarLinks(d)
                      [] d.type = "LINK2" -> FarLogsIn(d)
                      [] d.type = "UNLINK" -> FarUnlinks(d)
                      [] OTHER -> FarPolled(d)

\* A slip of FarClock: the inactivity timer is not looked at.
FarClockPatient(j) ==
  /\ far[j] # Empty
  /\ FarBecome(far, {}, {To("near", "POLL", far[j].port, far[j].module)}, 0)

(* clockInt of an incoming object. *)
FarClock(j) ==
  LET o == far[j]
      idle == Tick(o.idle, PollTimeout)
  IN /\ o # Empty
     /\ IF HasExpired(idle, PollTimeout) THEN FarBecome([far EXCEPT ![j] = Empty], {}, {}, 0)
        ELSE FarBecome([far EXCEPT ![j].idle = idle], {},
                       {To("near", "POLL", o.port, IF protocol = "DCS" THEN o.module ELSE NoCall)}, 0)

FarStops ==
  FarBecome([j \in 1..FarSlots |-> Empty], {},
            {To("near", "UNLINK", far[j].port, far[j].module) : j \in FarTaken}, 1)

Init ==
  /\ protocol \in Protocols
  /\ near = [status |-> "NONE", remote |-> NoCall, relink |-> FALSE,
             links |-> [i \in 1..NearSlots |-> Empty], inUse |-> {}, sent |-> {}]
  /\ far = [j \in 1..FarSlots |-> Empty]
  /\ net = {} /\ troubles = Troubles[protocol]

Clocks == (\E i \in 1..NearSlots : NearClock(i)) \/ (\E j \in 1..FarSlots : FarClock(j))

Hears == \E port \in Ports : \/ \E type \in Answers : NearHears(port, type)
                             \/ \E type \in Requests : FarHears(port, type)

Next == Command \/ NearStops \/ FarStops \/ Hears \/ Clocks

(* Both gateways go on running their clocks and reading their sockets; a    *)
(* clock is strongly fair since NetBound, which the code does not have, may *)
(* hold it up.  Nothing obliges a user to do anything.                      *)
Spec ==
  /\ Init /\ [][Next]_vars
  /\ \A i \in 1..NearSlots : SF_vars(NearClock(i))
  /\ \A j \in 1..FarSlots : SF_vars(FarClock(j))
  /\ \A port \in Ports : /\ \A type \in Answers : WF_vars(NearHears(port, type))
                         /\ \A type \in Requests : WF_vars(FarHears(port, type))

-------------------------------------------------------------------------------
TypeOK ==
  /\ protocol \in Protocols /\ near \in NearStates /\ net \subseteq Messages
  /\ far \in [1..FarSlots -> Incoming \cup {Empty}] /\ troubles \in 0..Troubles[protocol]

(* CDExtraProtocolHandlerPool and its siblings hand out and take back the   *)
(* ports of the objects in the table: none leaks, and none has two users.   *)
PoolMatches ==
  /\ near.inUse = {near.links[i].port : i \in Slots(near)}
  /\ \A i, j \in Slots(near) : near.links[i].port = near.links[j].port => i = j

(* However often LINK1 is repeated or delayed, the far gateway keeps one    *)
(* object for a link.                                                       *)
IncomingUnique ==
  \A i, j \in FarTaken : far[i].port = far[j].port /\ far[i].module = far[j].module => i = j

(* A DExtra repeater that is LINKED has the object that makes it so, one    *)
(* that is not linked has none at work, and no repeater ever has two.       *)
DExtraAgrees ==
  protocol = "DEXTRA" =>
    LET live == {i \in Slots(near) : Live(near.links[i].state)} IN
    /\ \A i, j \in live : i = j
    /\ near.status = "NONE" => live = {}
    /\ near.status = "LINKED" =>
         \E i \in live : near.links[i].state = "LINKED" /\ near.links[i].module = near.remote

(* Whatever is lost on the way, the far gateway forgets the links of a port *)
(* that is given back for good.                                             *)
FarForgets ==
  \A p \in Ports : p \notin near.inUse ~> (p \in near.inUse \/ From(p) = {})

\* a link that is being taken down is gone at last, or in use again
Reclaimed(p, i) ==
  (protocol = p /\ i \in Slots(near) /\ ~Live(near.links[i].state))
    ~> (i \in Slots(near) => Live(near.links[i].state))

(* "DCS link to %s has failed to disconnect cleanly" (DCSHandler.cpp): with *)
(* the far end's answer lost, the slot and the port come back all the same. *)
DcsReclaimed == \A i \in 1..NearSlots : Reclaimed("DCS", i)

(* "D-Plus link to %s has failed to disconnect cleanly" (DPlusHandler.cpp), *)
(* the same promise for D-Plus, which the code does not keep: unlink stops  *)
(* the inactivity timer that would come to that line.                       *)
DPlusReclaimed == \A i \in 1..NearSlots : Reclaimed("DPLUS", i)
===============================================================================
