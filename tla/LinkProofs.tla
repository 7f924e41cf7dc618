------------------------------- MODULE LinkProofs -------------------------------
(***************************************************************************)
(* Theorems about the link of a repeater, LinkProperties.tla, for every    *)
(* value of the constants that a named hypothesis admits. The link's state *)
(* machine has dozens of actions, so that one induction per property would *)
(* repeat itself. It is done once, about sets of link records that are     *)
(* Closed under every way a step changes a link (LinkStarts, LinkSteps);   *)
(* then each invariant is a predicate of one record that is shown to be    *)
(* closed: Settled, Hushed, SingleDcs and Whole, in this order.            *)
(* What one step may make of a link is two such sets, of which one Leads to *)
(* the other (LinkLeads).                                                  *)
(*                                                                         *)
(* The hypotheses: Resolvable and SingleModules are about the hosts files, *)
(* Reachable about what a restored link needs, NoCcs about the             *)
(* configuration. README.md says what happens without them.                *)
(***************************************************************************)
EXTENDS LinkProperties, RepeaterHandlerProofs

\* the caches a run may see: nothing is ever taken out
Caches == {k \in SUBSET Remote : Known \subseteq k}

(* m differs from l in neither the link to restore, nor the configuration,  *)
(* nor the CCS client.                                                      *)
Side(l, m) ==
  /\ m.last = l.last /\ m.startup = l.startup /\ m.mode = l.mode
  /\ m.ccs = l.ccs /\ m.dir = l.dir

\* no change of module is under way
Quiet(l) == l.relink = FALSE

(* The same link: m differs from l in its timers and in what is to be       *)
(* announced only.                                                          *)
Alike(l, m) ==
  /\ Side(l, m)
  /\ m.status = l.status /\ m.repeater = l.repeater /\ (Quiet(m) <=> Quiet(l))
  /\ m.out = l.out /\ m.up = l.up /\ m.closing = l.closing

(* The remote r cannot be linked to: its protocol is off, or it is unknown  *)
(* and there is no ircDDB to ask.                                           *)
Barred(r, k) == IF r \in k THEN r \in Disabled ELSE ~IrcEnabled

(* Announcing the state of the link and setting its timers leave the link as*)
(* it is.                                                                   *)
LEMMA AlikeFacts ==
  ASSUME NEW l \in LinkStates
  PROVE  /\ Alike(l, l) /\ Alike(l, Inform(l)) /\ Alike(l, StartReconnect(l))
         /\ \A t : Alike(l, [l EXCEPT !.query = t])
         /\ \A t : Alike(l, [l EXCEPT !.reconnect = t])
         /\ \A b : Alike(l, [l EXCEPT !.info = b])
BY DEF LinkStates, Alike, Quiet, Side, Inform, StartReconnect

(* Setting the status to LS_NONE clears the name of the reflector and       *)
(* touches no link object.                                                  *)
LEMMA NotLinkedEffect ==
  ASSUME NEW l \in LinkStates
  PROVE  /\ Side(l, NotLinked(l))
         /\ NotLinked(l).status = "NONE" /\ NotLinked(l).repeater = NoCall
         /\ (Quiet(NotLinked(l)) <=> Quiet(l)) /\ NotLinked(l).out = l.out
         /\ NotLinked(l).up = l.up /\ NotLinked(l).closing = l.closing
BY DEF LinkStates, Quiet, Side, NotLinked

(* What linkInt makes of l when it is asked for r: a link object is created,*)
(* the question is sent to ircDDB, the link is refused, or (a reflector that*)
(* no hosts file has) nothing happens.                                      *)
Linking(l, k, r, m) ==
  /\ Side(l, m) /\ m.up = l.up /\ m.closing = l.closing
  /\ \/ /\ r \in k \ Disabled /\ m.status = "LINKING" /\ m.repeater = r
        /\ m.out = AddObject(l.out, r)
     \/ /\ r \notin k \cup Reflectors /\ IrcEnabled
        /\ m.status = "PENDING" /\ m.repeater = r /\ m.out = l.out
     \/ Barred(r, k) /\ m.status = "NONE" /\ m.repeater = r /\ m.out = l.out
     \/ /\ r \in Reflectors \ k
        /\ m.status = l.status /\ m.repeater = l.repeater /\ m.out = l.out

(* CRepeaterHandler::linkInt does one of the four, and leaves a change of   *)
(* module under way.                                                        *)
LEMMA LinkIntEffect ==
  ASSUME NEW l \in LinkStates, NEW k, NEW r
  PROVE  Linking(l, k, r, LinkInt(l, k, r)) /\ (Quiet(LinkInt(l, k, r)) <=> Quiet(l))
<1>1. CASE r \in Reflectors \ k
  BY <1>1 DEF LinkStates, LinkInt, Linking, Inform, Side, Quiet
<1>2. CASE r \notin Reflectors \ k
  <2>1. LinkInt(l, k, r) = LinkTo(l, k, r)
    BY <1>2 DEF LinkInt
  <2>2. CASE r \in k /\ r \notin Disabled
    BY <2>1, <2>2 DEF LinkTo, LinkStates, Linking, Inform, Side, Quiet
  <2>3. CASE r \notin k /\ IrcEnabled
    BY <1>2, <2>1, <2>3 DEF LinkTo, LinkStates, Linking, Inform, Side, Quiet
  <2>4. CASE Barred(r, k)
    BY <2>1, <2>4 DEF LinkTo, LinkStates, Linking, Inform, Side, Quiet, Barred
  <2> QED
    BY <2>2, <2>3, <2>4 DEF Barred
<1> QED
  BY <1>1, <1>2

(* CRepeaterHandler::linkFailed: during a change of module it links again to*)
(* the same name, otherwise it clears the link if it is the failed one's.   *)
LEMMA LinkFailedEffect ==
  ASSUME NEW l \in LinkStates, NEW k, NEW o
  PROVE  LET m == LinkFailed(l, k, o) IN
         /\ Side(l, m) /\ Quiet(m) /\ m.up = l.up /\ m.closing = l.closing
         /\ ~Quiet(l) => Linking(l, k, l.repeater, m)
         /\ Quiet(l) => /\ m.out = l.out
                         /\ \/ Alike(l, m)
                            \/ l.repeater = o /\ m.status = "NONE" /\ m.repeater = NoCall
         /\ Quiet(l) /\ l.repeater = o => m.status = "NONE"
<1> DEFINE n == [l EXCEPT !.relink = FALSE]
<1>1. CASE ~Quiet(l)
  <2>1. n \in LinkStates
    BY DEF LinkStates
  <2>2. /\ Quiet(n) /\ Side(l, n) /\ n.up = l.up /\ n.closing = l.closing
        /\ n.out = l.out /\ n.status = l.status /\ n.repeater = l.repeater
    BY DEF LinkStates, Side, Quiet
  <2>3. LinkFailed(l, k, o) = LinkInt(n, k, l.repeater)
    BY <1>1 DEF LinkFailed, Quiet, LinkStates
  <2> HIDE DEF n
  <2>4. Linking(n, k, l.repeater, LinkInt(n, k, l.repeater)) /\ Quiet(LinkInt(n, k, l.repeater))
    BY <2>1, <2>2, LinkIntEffect
  <2> QED
    BY <1>1, <2>2, <2>3, <2>4 DEF Linking, Side
<1>2. CASE Quiet(l) /\ (l.status = "NONE" \/ l.repeater # o)
  BY <1>2, AlikeFacts DEF LinkFailed, Alike, LinkStates, Quiet
<1>3. CASE Quiet(l) /\ l.status # "NONE" /\ l.repeater = o
  <2>1. LinkFailed(l, k, o) = Inform(NotLinked(l))
    BY <1>3 DEF LinkFailed, Quiet
  <2> QED
    BY <1>3, <2>1 DEF NotLinked, Inform, Alike, Side, LinkStates, Quiet
<1> QED
  BY <1>1, <1>2, <1>3 DEF LinkStates

(* Link objects that are deleted leave the repeater's other state as it is. *)
LEMMA DropEffect ==
  ASSUME NEW l \in LinkStates, NEW gone
  PROVE  LET m == Drop(l, gone) IN
         /\ Side(l, m) /\ m.status = l.status /\ m.repeater = l.repeater
         /\ (Quiet(m) <=> Quiet(l)) /\ m.closing = l.closing
         /\ m.out = l.out \ gone /\ m.up = l.up \ gone
BY DEF Drop, LinkStates, Side, Quiet

(* The link objects of a protocol that a handler's unlink removes, all but  *)
(* the kept ones.                                                           *)
Gone(l, protocol, kept) == {o \in l.out \ kept : Proto[o] = protocol}

(* unlink of the D-Plus and DCS handlers: the objects leave the link and    *)
(* wait for the acknowledgement.                                            *)
LEMMA UnlinkEffect ==
  ASSUME NEW l \in LinkStates, NEW protocol, NEW kept
  PROVE  LET m == Unlink(l, protocol, kept)
             gone == Gone(l, protocol, kept) IN
         /\ m \in LinkStates
         /\ Side(l, m) /\ m.status = l.status /\ m.repeater = l.repeater
         /\ (Quiet(m) <=> Quiet(l)) /\ m.closing = l.closing \cup gone
         /\ m.out = l.out \ gone /\ m.up = l.up \ gone
<1> DEFINE gone == Gone(l, protocol, kept)
           d == Drop(l, gone)
           m == [d EXCEPT !.closing = @ \cup gone]
<1>1. Unlink(l, protocol, kept) = m
  BY DEF Unlink, Gone
<1>2. /\ d \in LinkStates /\ Side(l, d) /\ d.status = l.status /\ d.repeater = l.repeater
      /\ (Quiet(d) <=> Quiet(l)) /\ d.closing = l.closing
      /\ d.out = l.out \ gone /\ d.up = l.up \ gone
  BY DropType, DropEffect
<1> HIDE DEF gone, d
<1>3. /\ Side(d, m) /\ m.status = d.status /\ m.repeater = d.repeater
      /\ (Quiet(m) <=> Quiet(d)) /\ m.closing = d.closing \cup gone
      /\ m.out = d.out /\ m.up = d.up
  BY <1>2 DEF LinkStates, Side, Quiet
<1> QED
  BY <1>1, <1>2, <1>3, UnlinkType DEF gone, Side

(* unlink of the DExtra handler while no change of module is under way: it  *)
(* calls back linkFailed for every object it deletes, so the link is cleared*)
(* if it was one of them.                                                   *)
LEMMA UnlinkDExtraQuiet ==
  ASSUME NEW l \in LinkStates, NEW k, NEW kept, Quiet(l),
         NEW x \in UnlinkDExtra(l, k, kept)
  PROVE  LET gone == Gone(l, "DEXTRA", kept) IN
         /\ Side(l, x) /\ Quiet(x) /\ x.closing = l.closing
         /\ x.out = l.out \ gone /\ x.up = l.up \ gone
         /\ \/ x.status = l.status /\ x.repeater = l.repeater
            \/ x.status = "NONE" /\ x.repeater = NoCall
         /\ l.repeater \in gone => x.status = "NONE"
<1> DEFINE gone == Gone(l, "DEXTRA", kept)
           m == Drop(l, gone)
<1>1. \/ gone = {} /\ x = l
      \/ l.repeater \in gone /\ x = LinkFailed(m, k, l.repeater)
      \/ l.repeater \notin gone /\ x = m
  BY DEF UnlinkDExtra, Gone, Quiet
<1>2. /\ m \in LinkStates /\ Side(l, m) /\ m.status = l.status /\ m.repeater = l.repeater
      /\ (Quiet(m) <=> Quiet(l)) /\ m.closing = l.closing
      /\ m.out = l.out \ gone /\ m.up = l.up \ gone
  BY DropType, DropEffect
<1> HIDE DEF gone, m
<1>3. CASE gone = {} /\ x = l
  BY <1>3 DEF Side, gone, LinkStates
<1>4. CASE l.repeater \in gone /\ x = LinkFailed(m, k, l.repeater)
  <2>1. /\ Side(m, x) /\ Quiet(x) /\ x.up = m.up /\ x.closing = m.closing
        /\ x.out = m.out
        /\ \/ Alike(m, x)
           \/ x.status = "NONE" /\ x.repeater = NoCall
        /\ x.status = "NONE"
    BY <1>2, <1>4, LinkFailedEffect
  <2> QED
    BY <1>2, <2>1 DEF Side, Alike, gone
<1>5. CASE l.repeater \notin gone /\ x = m
  BY <1>2, <1>5 DEF gone
<1> QED
  BY <1>1, <1>3, <1>4, <1>5

(* The three handlers' unlink, while no change of module is under way: no   *)
(* link object is left.                                                     *)
LEMMA UnlinkAllQuiet ==
  ASSUME NEW l \in LinkStates, NEW k \in SUBSET Remote, Quiet(l), NEW x \in UnlinkAll(l, k)
  PROVE  /\ x \in LinkStates /\ Side(l, x) /\ Quiet(x)
         /\ x.out = {} /\ x.up = l.up \ l.out
         /\ x.closing \subseteq l.closing \cup {o \in l.out : Proto[o] # "DEXTRA"}
         /\ \/ x.status = l.status /\ x.repeater = l.repeater
            \/ x.status = "NONE" /\ x.repeater = NoCall
         /\ l.repeater \in l.out /\ Proto[l.repeater] = "DEXTRA" => x.status = "NONE"
<1>1. PICK y \in UnlinkDExtra(l, k, {}) : x = Unlink(Unlink(y, "DPLUS", {}), "DCS", {})
  BY DEF UnlinkAll
<1>2. y \in LinkStates
  BY <1>1, UnlinkDExtraType
<1> DEFINE z == Unlink(y, "DPLUS", {})
<1>3. /\ Side(l, y) /\ Quiet(y) /\ y.closing = l.closing
      /\ y.out = l.out \ Gone(l, "DEXTRA", {}) /\ y.up = l.up \ Gone(l, "DEXTRA", {})
      /\ \/ y.status = l.status /\ y.repeater = l.repeater
         \/ y.status = "NONE" /\ y.repeater = NoCall
      /\ l.repeater \in Gone(l, "DEXTRA", {}) => y.status = "NONE"
  BY UnlinkDExtraQuiet
<1>4. /\ z \in LinkStates /\ Side(y, z) /\ z.status = y.status /\ z.repeater = y.repeater
      /\ (Quiet(z) <=> Quiet(y)) /\ z.closing = y.closing \cup Gone(y, "DPLUS", {})
      /\ z.out = y.out \ Gone(y, "DPLUS", {}) /\ z.up = y.up \ Gone(y, "DPLUS", {})
  BY <1>2, UnlinkEffect
<1>5. x = Unlink(z, "DCS", {})
  BY <1>1
<1> HIDE DEF z
<1>6. /\ x \in LinkStates /\ Side(z, x) /\ x.status = z.status /\ x.repeater = z.repeater
      /\ (Quiet(x) <=> Quiet(z)) /\ x.closing = z.closing \cup Gone(z, "DCS", {})
      /\ x.out = z.out \ Gone(z, "DCS", {}) /\ x.up = z.up \ Gone(z, "DCS", {})
  BY <1>4, <1>5, UnlinkEffect
<1>7. l.out \in SUBSET Remote /\ \A o \in Remote : Proto[o] \in {"DEXTRA", "DPLUS", "DCS"}
  BY CallsAssumption DEF LinkStates, Protocols
<1>8. x.out = {} /\ x.up = l.up \ l.out
  BY <1>3, <1>4, <1>6, <1>7 DEF Gone
<1>9. x.closing \subseteq l.closing \cup {o \in l.out : Proto[o] # "DEXTRA"}
  BY <1>3, <1>4, <1>6, <1>7 DEF Gone
<1> QED
  BY <1>3, <1>4, <1>6, <1>8, <1>9 DEF Side, Gone

(* CRepeaterHandler::suspendLinks, while no change of module is under way:  *)
(* no link object is left and the status is LS_NONE.                        *)
LEMMA SuspendLinksQuiet ==
  ASSUME NEW l \in LinkStates, NEW k \in SUBSET Remote, Quiet(l), NEW x \in SuspendLinks(l, k)
  PROVE  /\ x \in LinkStates /\ Quiet(x) /\ x.out = {}
         /\ x.status = "NONE" /\ x.repeater = NoCall
         /\ x.startup = l.startup /\ x.mode = l.mode /\ x.ccs = l.ccs /\ x.dir = l.dir
<1> DEFINE m == [l EXCEPT !.last = IF l.status \in ReflectorStatus THEN l.repeater ELSE @]
           u == Unlink(m, "DPLUS", {})
<1>1. /\ m \in LinkStates /\ Quiet(m) /\ m.out = l.out
      /\ m.startup = l.startup /\ m.mode = l.mode /\ m.ccs = l.ccs /\ m.dir = l.dir
  BY DEF LinkStates, Quiet
<1>2. PICK y \in UnlinkDExtra(u, k, {}) :
        x = [NotLinked(Unlink(y, "DCS", {})) EXCEPT !.reconnect = Stopped]
  BY DEF SuspendLinks
<1> HIDE DEF m
<1>3. /\ u \in LinkStates /\ Side(m, u) /\ (Quiet(u) <=> Quiet(m))
      /\ u.out = m.out \ Gone(m, "DPLUS", {})
  BY <1>1, UnlinkEffect
<1> HIDE DEF u
<1>4. /\ y \in LinkStates /\ Side(u, y) /\ Quiet(y) /\ y.out = u.out \ Gone(u, "DEXTRA", {})
  BY <1>1, <1>2, <1>3, UnlinkDExtraQuiet, UnlinkDExtraType
<1> DEFINE z == Unlink(y, "DCS", {})
<1>5. /\ z \in LinkStates /\ Side(y, z) /\ Quiet(z) /\ z.out = y.out \ Gone(y, "DCS", {})
  BY <1>4, UnlinkEffect
<1> HIDE DEF z
<1>6. /\ NotLinked(z) \in LinkStates /\ Side(z, NotLinked(z)) /\ Quiet(NotLinked(z))
      /\ NotLinked(z).out = z.out /\ NotLinked(z).status = "NONE"
      /\ NotLinked(z).repeater = NoCall
  BY <1>5, NotLinkedEffect, NotLinkedType
<1>7. /\ x \in LinkStates /\ Alike(NotLinked(z), x)
  BY <1>2, <1>6, AlikeFacts, SuspendLinksType DEF z
<1>8. l.out \in SUBSET Remote /\ \A o \in Remote : Proto[o] \in {"DEXTRA", "DPLUS", "DCS"}
  BY CallsAssumption DEF LinkStates, Protocols
<1>9. z.out = {}
  BY <1>1, <1>3, <1>4, <1>5, <1>8 DEF Gone
<1> QED
  BY <1>1, <1>3, <1>4, <1>5, <1>6, <1>7, <1>9 DEF Side, Alike

-------------------------------------------------------------------------------

(* A command on the air or the reconnect timer asks for r, which is not the *)
(* reflector that is linked to; a Fixed repeater is only asked to go to its *)
(* own.                                                                     *)
Sought(l, k, r, m) ==
  /\ l.status = "NONE" \/ l.repeater # r
  /\ Fixed(l) => r = l.startup
  /\ m \in IF l.status # "NONE" /\ SameBase(l.repeater, r) THEN ChangeModule(l, k, r)
           ELSE {LinkInt(x, k, r) : x \in UnlinkAll(l, k)}

(* What a link object may report or do: acknowledged, refused, failed, lost,*)
(* timed out, unlinked.                                                     *)
ObjectMoved(l, k, m) ==
  \/ \E o \in l.out \ l.up : m = ObjectUp(l, o) \/ m = ObjectRefused(l, o)
  \/ \E o \in l.up : Proto[o] # "DPLUS" /\ m = ObjectFailed(l, k, o)
  \/ \E o \in l.out \ l.up : m = Drop(l, {o})
  \/ \E o \in l.up : Proto[o] = "DPLUS" /\ m = Drop(l, {o})
  \/ \E o \in l.out : m = ObjectTimedOut(l, Drop(l, {o}), o)
  \/ \E o \in l.closing : \/ m = Forget(l, o)
                          \/ m = ObjectTimedOut(l, Forget(l, o), o)
                          \/ m = UnlinkAcknowledged(l, k, o)

(* What the CCS client may do to the link: a command on the air, an incoming*)
(* call, an answer of the server or of the DTMF query, a poll that finds the*)
(* call over, the query time-out.                                           *)
CcsMoved(l, k, m) ==
  \/ \E cmd : m \in CcsCommand(l, k, cmd)
  \/ m = StopLink(l, k)
  \/ l.ccs = "CONNECTED" /\ m \in IncomingCall(l, k)
  \/ l.ccs = "CONNECTING" /\ \E ack \in BOOLEAN : m = ServerAnswers(l, ack)
  \/ l.ccs # "DISABLED" /\ (m \in DtmfFound(l, k) \/ m = DtmfNotFound(l, k))
  \/ l.ccs \in {"CONNECTED", "ACTIVE"} /\ m = PollInactivity(l, k)
  \/ l.status = "LINKING_CCS" /\ m = RestoreLinks(NotLinked(StopLink(l, k)), k)

(* Every way a step of the program may change more of a link than its       *)
(* timers.                                                                  *)
Moved(l, k, m) ==
  \/ \E x \in UnlinkAll(l, k) : m = NotLinked(x)
  \/ \E r \in Remote : Sought(l, k, r, m)
  \/ \E c \in RemoteLinks : m \in RemoteLink(l, k, c.mode, c.arg)
  \/ \E r \in Remote : m \in RemoteUnlink(l, k, r)
  \/ \E r \in Remote, found \in BOOLEAN : m = ResolveLink(l, r, found)
  \/ l.status = "PENDING" /\ m = NotLinked(l)
  \/ ObjectMoved(l, k, m)
  \/ CcsMoved(l, k, m)

(* S gives a set of link records for every content of the cache. It is      *)
(* closed when no move of the link leaves it and no addition to the cache   *)
(* shrinks it: if it also has the records a repeater may start with, it has *)
(* all that can be reached.                                                 *)
Closed(S) ==
  /\ S \in [Caches -> SUBSET LinkStates]
  /\ \A k \in Caches : \A l \in S[k], m \in LinkStates : Alike(l, m) \/ Moved(l, k, m) => m \in S[k]
  /\ IrcEnabled => \A k \in Caches, r \in Remote : S[k] \subseteq S[k \cup {r}]

(* A tick of the link's timers gives a link record.                         *)
LEMMA TickedType ==
  ASSUME NEW l \in LinkStates
  PROVE  Ticked(l) \in LinkStates
<1>1. l.query \in 0..QueryTimeout /\ l.reconnect \in 0..ReconnectTimeout
  BY DEF LinkStates
<1>2. /\ Tick(l.query, QueryTimeout) \in 0..QueryTimeout
      /\ Tick(l.reconnect, ReconnectTimeout) \in 0..ReconnectTimeout
  BY <1>1, TimeoutAssumption DEF Tick, IsRunning
<1> QED
  BY <1>2 DEF Ticked, LinkStates

(* Timers and announcements may be changed at will.                         *)
LEMMA TimersAlike ==
  ASSUME NEW l \in LinkStates,
         NEW m \in {l, Inform(l), StartReconnect(l), [l EXCEPT !.query = Stopped],
                    [l EXCEPT !.query = Started], [l EXCEPT !.info = FALSE], Ticked(l)}
  PROVE  m \in LinkStates /\ Alike(l, m)
<1>1. /\ Inform(l) \in LinkStates /\ StartReconnect(l) \in LinkStates
      /\ [l EXCEPT !.query = Stopped] \in LinkStates
      /\ [l EXCEPT !.query = Started] \in LinkStates
      /\ [l EXCEPT !.info = FALSE] \in LinkStates
  BY InformType, StartReconnectType, QueryType DEF LinkStates
<1>2. Ticked(l) \in LinkStates /\ Alike(l, Ticked(l))
  BY TickedType DEF Ticked, Alike, Side, Quiet, LinkStates
<1> QED
  BY <1>1, <1>2, AlikeFacts

(* The move of a time-out that may follow another in one call of clockInt:  *)
(* ircDDB or the CCS server has not answered.                               *)
GivesUp(l, k, m) ==
  \/ l.status = "PENDING" /\ m = NotLinked(l)
  \/ l.status = "LINKING_CCS" /\ m = RestoreLinks(NotLinked(StopLink(l, k)), k)

(* What one step makes of a link, told by two such sets: a record of S is   *)
(* moved to one of T, where the step may only give up afterwards.           *)
Leads(S, T) ==
  /\ S \in [Caches -> SUBSET LinkStates] /\ T \in [Caches -> SUBSET LinkStates]
  /\ \A k \in Caches : S[k] \subseteq T[k]
  /\ \A k \in Caches : \A l \in S[k], m \in LinkStates :
       (Alike(l, m) => m \in S[k]) /\ (Moved(l, k, m) => m \in T[k])
  /\ \A k \in Caches : \A l \in T[k], m \in LinkStates :
       Alike(l, m) \/ GivesUp(l, k, m) => m \in T[k]
  /\ IrcEnabled => \A k \in Caches, r \in Remote : T[k] \subseteq T[k \cup {r}]

(* Steps lead from a closed set to itself.                                  *)
LEMMA ClosedLeads ==
  ASSUME NEW S, Closed(S)
  PROVE  Leads(S, S)
<1>1. ASSUME NEW l, NEW k, NEW m, GivesUp(l, k, m)
      PROVE  Moved(l, k, m)
  BY <1>1 DEF GivesUp, Moved, CcsMoved
<1> QED
  BY <1>1 DEF Leads, Closed

(* A record before the move.                                                *)
LEMMA FromFacts ==
  ASSUME NEW S, NEW T, Leads(S, T), NEW k \in Caches, NEW l \in S[k]
  PROVE  /\ l \in LinkStates /\ k \in SUBSET Remote /\ l \in T[k]
         /\ \A m \in LinkStates : Moved(l, k, m) => m \in T[k]
         /\ Inform(l) \in S[k] /\ StartReconnect(l) \in S[k]
         /\ [l EXCEPT !.query = Stopped] \in S[k]
         /\ [l EXCEPT !.query = Started] \in S[k]
         /\ [l EXCEPT !.info = FALSE] \in S[k]
         /\ Ticked(l) \in S[k]
<1>1. l \in LinkStates /\ k \in SUBSET Remote /\ l \in T[k]
  BY DEF Leads, Caches
<1>2. \A m \in LinkStates : (Alike(l, m) => m \in S[k]) /\ (Moved(l, k, m) => m \in T[k])
  BY DEF Leads
<1> QED
  BY <1>1, <1>2, TimersAlike

(* A record after it.                                                       *)
LEMMA ToFacts ==
  ASSUME NEW S, NEW T, Leads(S, T), NEW k \in Caches, NEW l \in T[k]
  PROVE  /\ l \in LinkStates /\ k \in SUBSET Remote
         /\ \A m \in LinkStates : GivesUp(l, k, m) => m \in T[k]
         /\ Inform(l) \in T[k] /\ StartReconnect(l) \in T[k]
         /\ [l EXCEPT !.query = Stopped] \in T[k]
         /\ [l EXCEPT !.info = FALSE] \in T[k]
<1>1. l \in LinkStates /\ k \in SUBSET Remote
  BY DEF Leads, Caches
<1>2. \A m \in LinkStates : Alike(l, m) \/ GivesUp(l, k, m) => m \in T[k]
  BY DEF Leads
<1> QED
  BY <1>1, <1>2, TimersAlike

(* Unlinking, with its announcement, leads on.                              *)
LEMMA LeaveIn ==
  ASSUME NEW S, NEW T, Leads(S, T), NEW k \in Caches, NEW l \in S[k], NEW x \in UnlinkAll(l, k)
  PROVE  Inform(NotLinked(x)) \in T[k]
<1>1. NotLinked(x) \in LinkStates /\ l \in LinkStates /\ k \in SUBSET Remote
  BY FromFacts, UnlinkAllType, NotLinkedType
<1>2. NotLinked(x) \in T[k]
  BY <1>1, FromFacts DEF Moved
<1> QED
  BY <1>2, ToFacts

(* Going to another reflector, with its announcement, leads on.             *)
LEMMA SoughtIn ==
  ASSUME NEW S, NEW T, Leads(S, T), NEW k \in Caches, NEW l \in S[k], NEW r \in Remote, NEW m, Sought(l, k, r, m)
  PROVE  m \in T[k]
<1>1. l \in LinkStates /\ k \in SUBSET Remote
  BY FromFacts
<1>2. m \in LinkStates
  BY <1>1, ChangeModuleType, UnlinkThenLinkTypes DEF Sought, Calls
<1> QED
  BY <1>2, FromFacts DEF Moved

(* A reflector command on the air (link, unlink, startup) leads on.         *)
LEMMA ReflectorCommandIn ==
  ASSUME NEW S, NEW T, Leads(S, T), NEW k \in Caches, NEW l \in S[k],
         NEW cmd \in Remote \cup {Self, "unlink", "startup", "none"}
  PROVE  ReflectorCommand(l, k, cmd) \subseteq T[k]
<1> DEFINE m == [l EXCEPT !.query = Stopped]
           r == IF cmd = "startup" THEN l.startup ELSE cmd
           idle == IF cmd = "unlink" THEN l.status = "NONE"
                   ELSE cmd = "none" \/ r = NoCall \/ (l.status # "NONE" /\ r = l.repeater)
<1>0. m \in S[k] /\ m \in T[k] /\ l \in LinkStates /\ l \in T[k]
  BY FromFacts, ToFacts
<1>1. m.status = l.status /\ m.repeater = l.repeater /\ m.mode = l.mode
  BY <1>0 DEF LinkStates
<1>2. ASSUME cmd # "unlink", ~idle, r # Self
      PROVE  r \in Remote /\ (m.status = "NONE" \/ m.repeater # r)
  BY <1>0, <1>1, <1>2 DEF LinkStates
<1>3. \A x \in UnlinkAll(m, k) : Inform(NotLinked(x)) \in T[k]
  BY <1>0, LeaveIn
<1>4. ASSUME cmd # "unlink", ~idle, r # Self, ~Ignores(l),
             NEW y \in IF l.status # "NONE" /\ SameBase(l.repeater, r) THEN ChangeModule(m, k, r)
                       ELSE {LinkInt(x, k, r) : x \in UnlinkAll(m, k)}
      PROVE  y \in T[k]
  <2>1. ~Fixed(m)
    BY <1>1, <1>4 DEF Ignores, Fixed
  <2> HIDE DEF m, r, idle
  <2>2. Sought(m, k, r, y)
    BY <1>1, <1>2, <1>4, <2>1 DEF Sought
  <2> QED
    BY <1>0, <1>2, <1>4, <2>2, SoughtIn
<1>5. Inform(m) \in T[k]
  BY <1>0, ToFacts
<1>6. ReflectorCommand(l, k, cmd) =
        IF Ignores(l) THEN {l}
        ELSE IF idle THEN {m}
        ELSE IF cmd = "unlink" THEN {Inform(NotLinked(x)) : x \in UnlinkAll(m, k)}
        ELSE IF r = Self THEN {Inform(m)}
        ELSE IF l.status # "NONE" /\ SameBase(l.repeater, r) THEN ChangeModule(m, k, r)
        ELSE {LinkInt(x, k, r) : x \in UnlinkAll(m, k)}
  BY DEF ReflectorCommand
<1> HIDE DEF m, r, idle
<1> QED
  BY <1>0, <1>3, <1>4, <1>5, <1>6

(* The reconnect timer, however it is set, leads on.                        *)
LEMMA ReconnectExpiredIn ==
  ASSUME NEW S, NEW T, Leads(S, T), NEW k \in Caches, NEW l \in S[k]
  PROVE  ReconnectExpired(l, k) \subseteq T[k]
<1>0. l \in LinkStates
  BY FromFacts
<1>1. l.startup \in Remote \cup {NoCall}
  BY <1>0 DEF LinkStates
<1>2. ASSUME ChangeOfPort(l), NEW m \in ChangeModule(l, k, l.startup)
      PROVE  m \in T[k]
  <2>1. l.startup \in Remote /\ Sought(l, k, l.startup, m)
    BY <1>1, <1>2 DEF Sought, ChangeOfPort
  <2> QED
    BY <2>1, SoughtIn
<1>3. ASSUME ~ChangeOfPort(l), Astray(l), NEW x \in UnlinkAll(l, k)
      PROVE  StartReconnect(LinkInt(x, k, l.startup)) \in T[k]
  <2>1. l.startup \in Remote /\ Sought(l, k, l.startup, LinkInt(x, k, l.startup))
    BY <1>1, <1>3 DEF Sought, ChangeOfPort, Astray
  <2>2. LinkInt(x, k, l.startup) \in T[k]
    BY <2>1, SoughtIn
  <2> QED
    BY <2>2, ToFacts
<1>4. ASSUME NEW x \in UnlinkAll(l, k)
      PROVE  StartReconnect(Inform(NotLinked(x))) \in T[k]
  BY LeaveIn, ToFacts
<1>5. l \in T[k] /\ StartReconnect(l) \in T[k]
  BY FromFacts, ToFacts
<1> QED
  BY <1>2, <1>3, <1>4, <1>5 DEF ReconnectExpired

(* Every command in a header or in DTMF leads on.                           *)
LEMMA AirCommandIn ==
  ASSUME NEW S, NEW T, Leads(S, T), cache \in Caches, NEW l \in S[cache],
         NEW y \in YourCalls \cup DtmfCommands
  PROVE  AirCommand(l, y) \subseteq T[cache]
<1>1. ASSUME NEW cmd, NEW m \in CcsCommand(l, cache, cmd)
      PROVE  m \in T[cache]
  <2>1. l \in LinkStates /\ cache \in SUBSET Remote
    BY FromFacts
  <2>2. m \in LinkStates
    BY <1>1, <2>1, CcsCommandType
  <2> QED
    BY <1>1, <2>2, FromFacts DEF Moved, CcsMoved
<1>2. CASE y.kind = "CCS"
  BY <1>1, <1>2 DEF AirCommand
<1>3. CASE y.kind # "CCS"
  BY <1>3, InputAssumption, ReflectorCommandIn DEF AirCommand
<1> QED
  BY <1>2, <1>3

(* A step that sets the link to a record it may lead to and keeps the cache.*)
LEMMA SetLinkIn ==
  ASSUME NEW S, NEW T, Leads(S, T), NEW k \in Caches, NEW m \in T[k], SetLink(m)
  PROVE  link' \in T[k]
BY ToFacts DEF SetLink

(* A step that moves the link once and keeps the cache.                     *)
LEMMA LinkChangeIn ==
  ASSUME NEW S, NEW T, Leads(S, T), cache \in Caches, link \in S[cache],
         NEW m \in LinkStates, Alike(link, m) \/ Moved(link, cache, m), LinkChange({m})
  PROVE  cache' \in Caches /\ link' \in T[cache']
<1>1. m \in T[cache]
  BY DEF Leads
<1> QED
  BY <1>1, SetLinkIn DEF LinkChange

(* The steps that a header, a frame or an end from the radio takes.         *)
LEMMA RadioStepIn ==
  ASSUME NEW S, NEW T, Leads(S, T), cache \in Caches, link \in S[cache], Radio
  PROVE  cache' \in Caches /\ link' \in T[cache']
<1>1. HeaderLink \in S[cache] /\ [HeaderLink EXCEPT !.query = Started] \in S[cache]
  <2>1. StartReconnect(link) \in S[cache] /\ StartReconnect(link) \in LinkStates
    BY FromFacts
  <2>2. ASSUME g2Status \in Lookups
        PROVE  HeaderLink \in S[cache]
    BY <2>1, <2>2, FromFacts DEF HeaderLink
  <2>3. ASSUME g2Status \notin Lookups
        PROVE  HeaderLink \in S[cache]
    <3>1. HeaderLink = StartReconnect(link)
      BY <2>1, <2>3 DEF HeaderLink, LinkStates
    <3> QED
      BY <2>1, <3>1
  <2>4. HeaderLink \in S[cache]
    BY <2>2, <2>3
  <2> QED
    BY <2>4, FromFacts
<1>0. HeaderLink \in T[cache] /\ [HeaderLink EXCEPT !.query = Started] \in T[cache]
  BY <1>1 DEF Leads
<1>2. ASSUME RepeaterHeader
      PROVE  cache' = cache /\ link' \in T[cache]
  <2>1. PICK y \in YourCalls, id \in StreamIds \ {repeaterId}, r \in Restrictions :
          \/ BusyMessage(y)
          \/ DirectHeader(id, y, r)
          \/ StarNetHeader(id, y, r)
          \/ PlainHeader(id, y, r)
          \/ r /\ RestrictedHeader(id, y)
          \/ ~r /\ CommandHeader(id, y)
          \/ ~r /\ RouteHeader(id, y)
    BY <1>2 DEF RepeaterHeader
  <2>2. CASE BusyMessage(y)
    BY <2>2, FromFacts DEF BusyMessage
  <2>3. CASE DirectHeader(id, y, r)
    BY <1>0, <2>3, SetLinkIn DEF DirectHeader, NewStream
  <2>4. CASE StarNetHeader(id, y, r)
    BY <1>0, <2>4, SetLinkIn DEF StarNetHeader, NewStream
  <2>5. CASE PlainHeader(id, y, r)
    BY <1>0, <2>5, SetLinkIn DEF PlainHeader, NewStream
  <2>6. CASE RestrictedHeader(id, y)
    BY <1>0, <2>6, SetLinkIn DEF RestrictedHeader, NewStream
  <2>7. CASE CommandHeader(id, y)
    <3>1. PICK m \in AirCommand(HeaderLink, y) : SetLink(m) /\ cache' = cache
      BY <2>7 DEF CommandHeader, NewStream
    <3>2. m \in T[cache]
      BY <1>1, <3>1, AirCommandIn
    <3> QED
      BY <3>1, <3>2, SetLinkIn
  <2>8. CASE RouteHeader(id, y)
    BY <1>0, <2>8, SetLinkIn DEF RouteHeader, NewStream
  <2> QED
    BY <2>1, <2>2, <2>3, <2>4, <2>5, <2>6, <2>7, <2>8
<1>3. ASSUME NEW l \in S[cache], NEW y \in DtmfCommands \cup {NoCommand},
             NEW m \in Dialled(l, y)
      PROVE  m \in T[cache]
  BY <1>3, FromFacts, AirCommandIn DEF Dialled, Obeyed
<1>4. ASSUME RepeaterFrame
      PROVE  cache' = cache /\ link' \in T[cache]
  <2>1. PICK y \in DtmfCommands \cup {NoCommand} :
          \E m \in Dialled(StartReconnect(link), y) :
            SetLink(EndLookup(m, g2Status)) \/ SetLink(m)
    BY <1>4 DEF RepeaterFrame
  <2>2. PICK m \in Dialled(StartReconnect(link), y) :
          SetLink(EndLookup(m, g2Status)) \/ SetLink(m)
    BY <2>1
  <2>3. StartReconnect(link) \in S[cache]
    BY FromFacts
  <2>4. m \in T[cache]
    BY <1>3, <2>2, <2>3
  <2>5. EndLookup(m, g2Status) \in T[cache]
    BY <2>4, ToFacts DEF EndLookup
  <2>6. link' \in T[cache]
    BY <2>2, <2>4, <2>5, SetLinkIn
  <2> QED
    BY <1>4, <2>6 DEF RepeaterFrame
<1>5. ASSUME BusyHeader
      PROVE  cache' = cache /\ link' \in T[cache]
  <2>1. PICK y \in YourCalls, r \in Restrictions :
          \E m \in IF r \/ y.kind \in {"CQ", "ECHO", "INFO"} THEN {link}
                   ELSE AirCommand(link, y) : SetLink(m)
    BY <1>5 DEF BusyHeader
  <2>2. PICK m : m \in {link} \cup AirCommand(link, y) /\ SetLink(m)
    BY <2>1
  <2>3. m \in T[cache]
    BY <2>2, FromFacts, AirCommandIn
  <2>4. link' \in T[cache]
    BY <2>2, <2>3, SetLinkIn
  <2> QED
    BY <1>5, <2>4 DEF BusyHeader
<1>6. ASSUME BusyFrame
      PROVE  cache' = cache /\ link' \in T[cache]
  <2>1. PICK y \in DtmfCommands \cup {NoCommand} : \E m \in Dialled(link, y) : SetLink(m)
    BY <1>6 DEF BusyFrame
  <2>2. link' \in T[cache]
    BY <1>3, <2>1, SetLinkIn
  <2> QED
    BY <1>6, <2>2 DEF BusyFrame
<1> QED
  BY <1>2, <1>4, <1>5, <1>6 DEF Radio

(* The steps that a reflector, the CCS server, ircDDB or the remote control *)
(* takes.                                                                   *)
LEMMA NetworkStepIn ==
  ASSUME NEW S, NEW T, Leads(S, T), cache \in Caches, link \in S[cache], Network
  PROVE  cache' \in Caches /\ link' \in T[cache']
<1>0. /\ link \in LinkStates /\ cache \in SUBSET Remote
      /\ link.out \in SUBSET Remote /\ link.up \in SUBSET Remote
      /\ link.closing \in SUBSET Remote
  <2>1. link \in LinkStates /\ cache \in SUBSET Remote
    BY FromFacts
  <2> QED
    BY <2>1 DEF LinkStates
<1>1. ASSUME NEW outcomes, LinkChange(outcomes)
      PROVE  \E m \in outcomes : LinkChange({m})
  BY <1>1 DEF LinkChange
<1>2. CASE IrcUser
  BY <1>2, FromFacts DEF IrcUser
<1>3. CASE IrcRepeater
  <2>1. PICK r \in Remote \ Reflectors, found \in BOOLEAN :
          /\ SetLink(ResolveLink(IF Waited(r) THEN [link EXCEPT !.query = Stopped] ELSE link,
                                 r, found))
          /\ IrcEnabled /\ cache' = IF found THEN cache \cup {r} ELSE cache
    BY <1>3 DEF IrcRepeater
  <2> DEFINE l == IF Waited(r) THEN [link EXCEPT !.query = Stopped] ELSE link
             m == ResolveLink(l, r, found)
  <2>2. l \in S[cache]
    BY FromFacts
  <2> HIDE DEF l
  <2>3. l \in LinkStates
    BY <2>2, FromFacts
  <2>4. m \in LinkStates
    BY <2>3, ResolveLinkType
  <2>5. m \in T[cache]
    <3>1. Moved(l, cache, m)
      BY <2>1 DEF Moved
    <3> QED
      BY <2>2, <2>4, <3>1, FromFacts
  <2>6. link' \in T[cache]
    <3>1. SetLink(m)
      BY <2>1 DEF l
    <3> QED
      BY <2>5, <3>1, SetLinkIn
  <2>7. cache' \in Caches /\ T[cache] \subseteq T[cache']
    BY <2>1 DEF Leads, Caches
  <2> QED
    BY <2>6, <2>7
<1>4. CASE RemoteLinked
  <2>1. PICK c \in RemoteLinks : LinkChange(RemoteLink(link, cache, c.mode, c.arg))
    BY <1>4 DEF RemoteLinked
  <2>2. c.mode \in Reconnect /\ c.arg \in Remote \cup {NoCall}
    BY InputAssumption
  <2>3. PICK m \in RemoteLink(link, cache, c.mode, c.arg) : LinkChange({m})
    BY <1>1, <2>1
  <2>4. m \in LinkStates
    BY <1>0, <2>2, <2>3, RemoteLinkType
  <2> QED
    BY <2>3, <2>4, LinkChangeIn DEF Moved
<1>5. CASE RemoteUnlinked
  <2>1. PICK r \in Remote : LinkChange(RemoteUnlink(link, cache, r))
    BY <1>5 DEF RemoteUnlinked
  <2>2. PICK m \in RemoteUnlink(link, cache, r) : LinkChange({m})
    BY <1>1, <2>1
  <2>3. m \in LinkStates
    BY <1>0, <2>2, RemoteUnlinkType
  <2> QED
    BY <2>2, <2>3, LinkChangeIn DEF Moved
<1>6. CASE RemoteUnlinkedCcs \/ CcsEnds
  <2>1. StopLink(link, cache) \in LinkStates
    BY <1>0, StopLinkType
  <2> QED
    BY <1>6, <2>1, LinkChangeIn DEF RemoteUnlinkedCcs, CcsEnds, Moved, CcsMoved
<1>7. ASSUME NEW m \in LinkStates, ObjectMoved(link, cache, m), LinkChange({m})
      PROVE  cache' \in Caches /\ link' \in T[cache']
  BY <1>7, LinkChangeIn DEF Moved
<1>8. CASE LinkAcknowledged \/ LinkRefusal \/ LinkDisconnected \/ LinkUnlinked
  <2>1. PICK o, m :
          /\ o \in Remote /\ LinkChange({m}) /\ ObjectMoved(link, cache, m)
          /\ m \in {ObjectUp(link, o), ObjectRefused(link, o), ObjectFailed(link, cache, o),
                    UnlinkAcknowledged(link, cache, o)}
    BY <1>0, <1>8
    DEF LinkAcknowledged, LinkRefusal, LinkDisconnected, LinkUnlinked, ObjectMoved
  <2> QED
    BY <1>0, <1>7, <2>1, ObjectTypes
<1>9. CASE LinkDropped
  <2>1. CASE \E o \in link.out \ link.up : LinkChange({Drop(link, {o})})
    <3>1. PICK o \in link.out \ link.up : LinkChange({Drop(link, {o})})
      BY <2>1
    <3>2. ObjectMoved(link, cache, Drop(link, {o}))
      BY DEF ObjectMoved
    <3> QED
      BY <1>0, <1>7, <3>1, <3>2, DropType
  <2>2. CASE \E o \in link.up : Proto[o] = "DPLUS" /\ LinkChange({Drop(link, {o})})
    <3>1. PICK o \in link.up : Proto[o] = "DPLUS" /\ LinkChange({Drop(link, {o})})
      BY <2>2
    <3>2. ObjectMoved(link, cache, Drop(link, {o}))
      BY <3>1 DEF ObjectMoved
    <3> QED
      BY <1>0, <1>7, <3>1, <3>2, DropType
  <2>3. CASE \E o \in link.closing : LinkChange({Forget(link, o)})
    <3>1. PICK o \in link.closing : LinkChange({Forget(link, o)})
      BY <2>3
    <3>2. ObjectMoved(link, cache, Forget(link, o))
      BY DEF ObjectMoved
    <3> QED
      BY <1>0, <1>7, <3>1, <3>2, ObjectTypes
  <2> QED
    BY <1>9, <2>1, <2>2, <2>3 DEF LinkDropped
<1>10. CASE LinkTimedOut
  <2>1. PICK o, m :
          /\ o \in Remote /\ LinkChange({m}) /\ ObjectMoved(link, cache, m)
          /\ m \in {ObjectTimedOut(link, Drop(link, {o}), o),
                    ObjectTimedOut(link, Forget(link, o), o)}
    BY <1>0, <1>10 DEF LinkTimedOut, ObjectMoved
  <2>2. /\ ObjectTimedOut(link, Drop(link, {o}), o) \in LinkStates
        /\ ObjectTimedOut(link, Forget(link, o), o) \in LinkStates
    BY <1>0, <2>1, ObjectTypes, DropType, ObjectTimedOutType
  <2> QED
    BY <1>7, <2>1, <2>2
<1>11. ASSUME NEW m \in LinkStates, CcsMoved(link, cache, m), LinkChange({m})
       PROVE  cache' \in Caches /\ link' \in T[cache']
  BY <1>11, LinkChangeIn DEF Moved
<1>12. CASE CcsAnswers
  BY <1>0, <1>11, <1>12, ServerTypes DEF CcsAnswers, CcsMoved
<1>13. CASE CcsCall
  <2>1. PICK m \in IncomingCall(link, cache) : LinkChange({m}) /\ link.ccs = "CONNECTED"
    BY <1>1, <1>13 DEF CcsCall
  <2>2. m \in LinkStates
    BY <1>0, <2>1, ServerTypes
  <2> QED
    BY <1>11, <2>1, <2>2 DEF CcsMoved
<1>14. CASE CcsFound
  <2>1. PICK m \in DtmfFound(link, cache) : LinkChange({m}) /\ link.ccs # "DISABLED"
    BY <1>1, <1>14 DEF CcsFound
  <2>2. m \in LinkStates
    BY <1>0, <2>1, ServerTypes
  <2> QED
    BY <1>11, <2>1, <2>2 DEF CcsMoved
<1>15. CASE CcsUnknown
  BY <1>0, <1>11, <1>15, ServerTypes DEF CcsUnknown, CcsMoved
<1>16. CASE CcsSilent
  BY <1>0, <1>11, <1>16, ServerTypes DEF CcsSilent, CcsMoved
<1> QED
  BY <1>2, <1>3, <1>4, <1>5, <1>6, <1>8, <1>9, <1>10, <1>12, <1>13, <1>14, <1>15, <1>16
  DEF Network

(* The steps that the clock takes.                                          *)
LEMMA ClockStepIn ==
  ASSUME NEW S, NEW T, Leads(S, T), cache \in Caches, link \in S[cache], Clock
  PROVE  cache' \in Caches /\ link' \in T[cache']
<1> DEFINE l == Ticked(link)
<1>1. l \in S[cache] /\ l \in T[cache] /\ cache' = cache
  <2>1. link \in LinkStates /\ l \in S[cache]
    BY FromFacts
  <2> QED
    BY <2>1, FromFacts DEF Clock
<1> HIDE DEF l
<1>2. ASSUME NEW m \in T[cache]
      PROVE  LinkQueryExpired(m, cache) \in T[cache]
  <2> DEFINE s == [m EXCEPT !.query = Stopped]
  <2>1. s \in T[cache] /\ m \in LinkStates /\ s \in LinkStates /\ cache \in SUBSET Remote
    <3>1. s \in T[cache]
      BY ToFacts
    <3> QED
      BY <3>1, ToFacts
  <2>2. s.status = m.status
    BY <2>1 DEF LinkStates
  <2> HIDE DEF s
  <2>3. CASE m.status = "PENDING"
    <3>1. NotLinked(s) \in LinkStates
      BY <2>1, NotLinkedType
    <3>2. NotLinked(s) \in T[cache]
      BY <2>1, <2>2, <2>3, <3>1, ToFacts DEF GivesUp
    <3> QED
      BY <2>3, <3>2, ToFacts DEF LinkQueryExpired, s
  <2>4. CASE m.status = "LINKING_CCS"
    <3> DEFINE n == RestoreLinks(NotLinked(StopLink(s, cache)), cache)
    <3>1. n \in LinkStates
      BY <2>1, StopLinkType, NotLinkedType, RestoreLinksType
    <3>2. GivesUp(s, cache, n)
      BY <2>2, <2>4 DEF GivesUp
    <3> HIDE DEF n
    <3>3. n \in T[cache]
      BY <2>1, <3>1, <3>2, ToFacts
    <3> QED
      BY <2>4, <3>3 DEF LinkQueryExpired, s, n
  <2> QED
    BY <2>1, <2>3, <2>4 DEF LinkQueryExpired, s
<1>3. CASE ClockReturns(l)
  <2>1. PICK m \in ReconnectExpired(l, cache) : SetLink(m)
    BY <1>3 DEF ClockReturns
  <2>2. m \in T[cache]
    BY <1>1, <2>1, ReconnectExpiredIn
  <2> QED
    BY <1>1, <2>1, <2>2, SetLinkIn
<1>4. CASE ClockRuns(l)
  <2>1. PICK m \in IF MustReconnect(l) THEN ReconnectExpired(l, cache) ELSE {l} :
          \E n, status :
            /\ n \in {m, [m EXCEPT !.query = Stopped], LinkQueryExpired(m, cache)}
            /\ SetLink(EndLookup(n, status)) \/ SetLink(n)
    BY <1>4 DEF ClockRuns
  <2>2. m \in T[cache]
    BY <1>1, <2>1, ReconnectExpiredIn
  <2>3. PICK n, status :
          /\ n \in {m, [m EXCEPT !.query = Stopped], LinkQueryExpired(m, cache)}
          /\ SetLink(EndLookup(n, status)) \/ SetLink(n)
    BY <2>1
  <2>4. n \in T[cache]
    BY <1>2, <2>2, <2>3, ToFacts
  <2>5. EndLookup(n, status) \in T[cache]
    BY <2>4, ToFacts DEF EndLookup
  <2> QED
    BY <1>1, <2>3, <2>4, <2>5, SetLinkIn
<1> QED
  BY <1>3, <1>4 DEF Clock, l

(* The link of a repeater after addRepeater and startup with the            *)
(* configuration s.                                                         *)
FirstLink(s) ==
  LET l == StartingLink(s)
  IN IF s.atStartup /\ s.arg # NoCall THEN LinkTo(l, Known, s.arg) ELSE l

(* No link object is there before startup, and at most the one of the       *)
(* reflector to link to at startup after it.                                *)
LEMMA FirstLinkEffect ==
  ASSUME NEW s \in Startups
  PROVE  LET l == StartingLink(s)
             m == FirstLink(s) IN
         /\ l \in LinkStates /\ Quiet(l) /\ l.out = {} /\ l.up = {} /\ l.closing = {}
         /\ l.status = "NONE" /\ l.repeater = NoCall /\ l.last = NoCall
         /\ l.ccs = IF s.ccs THEN "CONNECTING" ELSE "DISABLED"
         /\ m \in LinkStates
         /\ \/ m = l
            \/ /\ l.startup \in Remote
               /\ m.repeater = l.startup /\ m.up = {} /\ m.closing = {}
               /\ Side(l, m) /\ Quiet(m)
               /\ \/ /\ m.status = "LINKING" /\ m.out = AddObject({}, l.startup)
                     /\ l.startup \in Known
                  \/ m.status = "PENDING" /\ m.out = {} /\ l.startup \notin Known
                  \/ m.status = "NONE" /\ m.out = {} /\ Barred(l.startup, Known)
<1> DEFINE l == StartingLink(s)
           m == FirstLink(s)
<1>1. /\ s.mode \in Reconnect /\ s.arg \in Remote \cup {NoCall}
      /\ s.atStartup \in BOOLEAN /\ s.ccs \in BOOLEAN
  BY InputAssumption
<1>2. l \in LinkStates
  BY <1>1, TimeoutAssumption
  DEF StartingLink, LinkStates, LinkStatus, ReflectorStatus, CcsStatus, Calls, Started, Stopped
<1>3. /\ Quiet(l) /\ l.out = {} /\ l.up = {} /\ l.closing = {} /\ l.startup = s.arg
      /\ l.status = "NONE" /\ l.repeater = NoCall /\ l.last = NoCall
      /\ l.ccs = IF s.ccs THEN "CONNECTING" ELSE "DISABLED"
  BY DEF StartingLink, Quiet
<1> HIDE DEF l
<1>4. m = l \/ (s.arg \in Remote /\ m = LinkTo(l, Known, s.arg))
  BY <1>1 DEF FirstLink, l
<1> HIDE DEF m
<1>5. ASSUME s.arg \in Remote, m = LinkTo(l, Known, s.arg)
      PROVE  /\ m \in LinkStates /\ Side(l, m) /\ Quiet(m)
             /\ m.repeater = s.arg /\ m.up = {} /\ m.closing = {}
             /\ \/ m.status = "LINKING" /\ m.out = AddObject({}, s.arg) /\ s.arg \in Known
                \/ m.status = "PENDING" /\ m.out = {} /\ s.arg \notin Known
                \/ m.status = "NONE" /\ m.out = {} /\ Barred(s.arg, Known)
  <2>1. m \in LinkStates
    BY <1>2, <1>5, CallsAssumption, LinkToType DEF Calls
  <2>2. /\ Side(l, m) /\ Quiet(m) /\ m.repeater = s.arg /\ m.up = {} /\ m.closing = {}
    BY <1>2, <1>3, <1>5 DEF LinkTo, LinkStates, Inform, Side, Quiet
  <2>3. \/ m.status = "LINKING" /\ m.out = AddObject({}, s.arg) /\ s.arg \in Known
        \/ m.status = "PENDING" /\ m.out = {} /\ s.arg \notin Known
        \/ m.status = "NONE" /\ m.out = {} /\ Barred(s.arg, Known)
    BY <1>2, <1>3, <1>5 DEF LinkTo, LinkStates, Inform, Barred
  <2> QED
    BY <2>1, <2>2, <2>3
<1> QED
  BY <1>2, <1>3, <1>4, <1>5 DEF l, m

(* The program starts in every closed set that has the links of all         *)
(* configurations.                                                          *)
LEMMA LinkStarts ==
  ASSUME NEW S, Closed(S), \A s \in Startups : FirstLink(s) \in S[Known], Init
  PROVE  cache \in Caches /\ link \in S[cache]
<1>1. cache = Known /\ Known \in Caches
  BY CallsAssumption DEF Init, Caches
<1>2. PICK s \in Startups : link = [FirstLink(s) EXCEPT !.info = FALSE]
  BY DEF Init, FirstLink
<1>3. FirstLink(s) \in S[Known]
  OBVIOUS
<1>4. Leads(S, S)
  BY ClosedLeads
<1> QED
  BY <1>1, <1>2, <1>3, <1>4, FromFacts

(* Every step of the program leads on.                                      *)
LEMMA LinkLeads ==
  ASSUME NEW S, NEW T, Leads(S, T), cache \in Caches, link \in S[cache], [Next]_vars
  PROVE  cache' \in Caches /\ link' \in T[cache']
<1>1. CASE UNCHANGED vars
  BY <1>1 DEF vars, Leads
<1>2. CASE Next
  BY <1>2, RadioStepIn, NetworkStepIn, ClockStepIn DEF Next
<1> QED
  BY <1>1, <1>2

(* No step of the program leaves a closed set. With LinkStarts this is the  *)
(* induction for all invariants of the link: each of them need only be shown*)
(* to be closed.                                                            *)
LEMMA LinkSteps ==
  ASSUME NEW S, Closed(S), cache \in Caches, link \in S[cache], [Next]_vars
  PROVE  cache' \in Caches /\ link' \in S[cache']
BY ClosedLeads, LinkLeads

-------------------------------------------------------------------------------

(* The repeater is linked to nothing and is not about to be.                *)
Idle(m) == m.status = "NONE" /\ m.repeater = NoCall

(* The status and the name of the reflector are the same.                   *)
Steady(l, m) == m.status = l.status /\ m.repeater = l.repeater

(* The repeater goes to r: it links, it asks ircDDB, or it has been refused.*)
Led(k, r, m) ==
  /\ m.repeater = r
  /\ \/ r \in k \ Disabled /\ m.status = "LINKING"
     \/ r \notin k \cup Reflectors /\ IrcEnabled /\ m.status = "PENDING"
     \/ Barred(r, k) /\ m.status = "NONE"

(* The repeater stays where it is, goes there again, or is cleared.         *)
Kept(l, k, m) == Side(l, m) /\ (Steady(l, m) \/ Idle(m) \/ Led(k, l.repeater, m))

(* linkInt leads to the reflector it is asked for, or (none in the hosts    *)
(* files) does nothing.                                                     *)
LEMMA LinkIntLeads ==
  ASSUME NEW l \in LinkStates, NEW k, NEW r
  PROVE  /\ Side(l, LinkInt(l, k, r))
         /\ \/ Led(k, r, LinkInt(l, k, r))
            \/ r \in Reflectors \ k /\ Steady(l, LinkInt(l, k, r))
BY LinkIntEffect DEF Linking, Led, Steady

(* A failed link never leads to another reflector.                          *)
LEMMA LinkFailedKeeps ==
  ASSUME NEW l \in LinkStates, NEW k, NEW o
  PROVE  Kept(l, k, LinkFailed(l, k, o))
BY LinkFailedEffect DEF Linking, Led, Steady, Kept, Idle, Alike

(* Neither does the DExtra handler's unlink, though it may link again to the*)
(* old one.                                                                 *)
LEMMA UnlinkDExtraKeeps ==
  ASSUME NEW l \in LinkStates, NEW k \in SUBSET Remote, NEW kept, NEW x \in UnlinkDExtra(l, k, kept)
  PROVE  x \in LinkStates /\ Kept(l, k, x)
<1> DEFINE gone == {o \in l.out \ kept : Proto[o] = "DEXTRA"}
           m == Drop(l, gone)
           y == LinkFailed(m, k, l.repeater)
           n == Drop(y, {l.repeater})
           z == LinkFailed(n, k, l.repeater)
<1>1. x \in LinkStates /\ (x = l \/ x = m \/ x = y \/ x = z)
  BY UnlinkDExtraType DEF UnlinkDExtra
<1>2. m \in LinkStates /\ Side(l, m) /\ Steady(l, m)
  BY DropType, DropEffect DEF Steady
<1> HIDE DEF m
<1>3. y \in LinkStates /\ Kept(m, k, y)
  BY <1>2, LinkFailedType, LinkFailedKeeps
<1> HIDE DEF y
<1>4. n \in LinkStates /\ Side(y, n) /\ Steady(y, n) /\ (Quiet(n) <=> Quiet(y))
  BY <1>3, DropType, DropEffect DEF Steady
<1>5. Quiet(y)
  BY <1>2, LinkFailedEffect DEF y
<1> HIDE DEF n
<1>6. Side(n, z) /\ (Steady(n, z) \/ Idle(z))
  BY <1>4, <1>5, LinkFailedEffect DEF Steady, Idle, Alike
<1> HIDE DEF z
<1>7. Kept(l, k, l) /\ Kept(l, k, m)
  BY <1>2 DEF Kept, Side, Steady
<1>8. Kept(l, k, y)
  BY <1>2, <1>3 DEF Kept, Side, Steady, Led, Idle
<1>9. Kept(l, k, z)
  BY <1>4, <1>6, <1>8 DEF Kept, Side, Steady, Led, Idle
<1> QED
  BY <1>1, <1>7, <1>8, <1>9

(* Nor does unlinkAll, after which no DCS link is left.                     *)
LEMMA UnlinkAllKeeps ==
  ASSUME NEW l \in LinkStates, NEW k \in SUBSET Remote, NEW x \in UnlinkAll(l, k)
  PROVE  x \in LinkStates /\ Kept(l, k, x) /\ \A o \in x.out : Proto[o] # "DCS"
<1>1. PICK y \in UnlinkDExtra(l, k, {}) : x = Unlink(Unlink(y, "DPLUS", {}), "DCS", {})
  BY DEF UnlinkAll
<1>2. y \in LinkStates /\ Kept(l, k, y)
  BY <1>1, UnlinkDExtraKeeps
<1> DEFINE z == Unlink(y, "DPLUS", {})
<1>3. z \in LinkStates /\ Side(y, z) /\ Steady(y, z)
  BY <1>2, UnlinkEffect DEF Steady
<1>4. x = Unlink(z, "DCS", {})
  BY <1>1
<1> HIDE DEF z
<1>5. /\ x \in LinkStates /\ Side(z, x) /\ Steady(z, x)
      /\ x.out = z.out \ Gone(z, "DCS", {})
  BY <1>3, <1>4, UnlinkEffect DEF Steady
<1>6. Kept(l, k, x)
  BY <1>2, <1>3, <1>5 DEF Kept, Side, Steady, Led, Idle
<1> QED
  BY <1>5, <1>6 DEF Gone

(* relink of the D-Plus handler changes only D-Plus objects.                *)
LEMMA RelinkEffect ==
  ASSUME NEW l \in LinkStates, NEW r \in Remote, Proto[r] = "DPLUS", NEW x \in Relink(l, r)
  PROVE  /\ x \in LinkStates /\ Side(l, x) /\ Steady(l, x) /\ (Quiet(x) <=> Quiet(l))
         /\ \A o \in Remote : Proto[o] # "DPLUS" =>
              /\ o \in x.out <=> o \in l.out
              /\ o \in x.up <=> o \in l.up
              /\ o \in x.closing <=> o \in l.closing
         /\ l.up \subseteq l.out => x.up \subseteq x.out
         /\ l.out = {} => x.out = {}
<1>1. \/ x = l
      \/ \E o \in l.out : /\ Proto[o] = "DPLUS"
                          /\ x = [l EXCEPT !.out = Renamed(@, o, r), !.up = Renamed(@, o, r)]
      \/ \E o \in l.closing : /\ Proto[o] = "DPLUS"
                              /\ x = [l EXCEPT !.closing = Renamed(@, o, r)]
  BY DEF Relink
<1>2. x \in LinkStates
  BY RelinkType
<1>3. CASE x = l
  BY <1>2, <1>3 DEF Side, Steady
<1>4. CASE \E o \in l.out : /\ Proto[o] = "DPLUS"
                           /\ x = [l EXCEPT !.out = Renamed(@, o, r), !.up = Renamed(@, o, r)]
  <2>1. PICK o \in l.out : /\ Proto[o] = "DPLUS"
                          /\ x = [l EXCEPT !.out = Renamed(@, o, r), !.up = Renamed(@, o, r)]
    BY <1>4
  <2>2. /\ Side(l, x) /\ Steady(l, x) /\ (Quiet(x) <=> Quiet(l))
        /\ x.out = Renamed(l.out, o, r) /\ x.up = Renamed(l.up, o, r) /\ x.closing = l.closing
    BY <2>1 DEF LinkStates, Side, Steady, Quiet
  <2>3. \A q \in Remote : \A t : Proto[q] # "DPLUS" => (q \in Renamed(t, o, r) <=> q \in t)
    BY <2>1 DEF Renamed
  <2>4. l.up \subseteq l.out => x.up \subseteq x.out
    BY <2>1, <2>2 DEF Renamed
  <2> QED
    BY <1>2, <2>1, <2>2, <2>3, <2>4
<1>5. CASE \E o \in l.closing : /\ Proto[o] = "DPLUS"
                               /\ x = [l EXCEPT !.closing = Renamed(@, o, r)]
  <2>1. PICK o \in l.closing : /\ Proto[o] = "DPLUS"
                              /\ x = [l EXCEPT !.closing = Renamed(@, o, r)]
    BY <1>5
  <2>2. /\ Side(l, x) /\ Steady(l, x) /\ (Quiet(x) <=> Quiet(l))
        /\ x.out = l.out /\ x.up = l.up /\ x.closing = Renamed(l.closing, o, r)
    BY <2>1 DEF LinkStates, Side, Steady, Quiet
  <2>3. \A q \in Remote : \A t : Proto[q] # "DPLUS" => (q \in Renamed(t, o, r) <=> q \in t)
    BY <2>1 DEF Renamed
  <2> QED
    BY <1>2, <2>2, <2>3
<1> QED
  BY <1>1, <1>3, <1>4, <1>5

(* A change of module leads to the module asked for, unless the link is     *)
(* neither up nor on its way (LS_PENDING, for one): then it is ignored.     *)
LEMMA ChangeModuleLeads ==
  ASSUME NEW l \in LinkStates, NEW k \in SUBSET Remote, NEW r \in Remote,
         NEW x \in ChangeModule(l, k, r)
  PROVE  /\ x \in LinkStates
         /\ \/ x = l /\ l.status \notin ReflectorStatus
            \/ Side(l, x) /\ x.status \in ReflectorStatus /\ x.repeater = r
<1> DEFINE m == [l EXCEPT !.repeater = r]
           n == [m EXCEPT !.relink = TRUE]
<1>0. x \in LinkStates
  BY ChangeModuleType
<1>1. /\ m \in LinkStates /\ Side(l, m) /\ m.repeater = r /\ m.status = l.status
      /\ n \in LinkStates /\ Side(l, n) /\ n.repeater = r /\ n.out = l.out /\ ~Quiet(n)
  BY DEF LinkStates, Calls, Side, Quiet
<1>2. \/ x = l /\ l.status \notin ReflectorStatus
      \/ /\ l.status \in ReflectorStatus /\ Proto[r] = "DPLUS"
         /\ \E y \in Relink(m, r) : x = Inform(y)
      \/ x = Inform([Unlink(n, "DCS", {r}) EXCEPT !.status = "LINKING"])
      \/ \E y \in UnlinkDExtra(n, k, {r}) : x = Inform([y EXCEPT !.status = "LINKING"])
  BY DEF ChangeModule
<1> HIDE DEF m, n
<1>3. ASSUME NEW y \in LinkStates, Side(l, y), y.repeater = r, x = Inform([y EXCEPT !.status = "LINKING"])
      PROVE  Side(l, x) /\ x.status \in ReflectorStatus /\ x.repeater = r
  BY <1>3 DEF Inform, LinkStates, Side, ReflectorStatus
<1>4. ASSUME l.status \in ReflectorStatus, Proto[r] = "DPLUS", NEW y \in Relink(m, r), x = Inform(y)
      PROVE  Side(l, x) /\ x.status \in ReflectorStatus /\ x.repeater = r
  <2>1. y \in LinkStates /\ Side(m, y) /\ Steady(m, y)
    BY <1>1, <1>4, RelinkEffect
  <2>2. Alike(y, x)
    BY <1>4, <2>1, AlikeFacts
  <2> QED
    BY <1>1, <1>4, <2>1, <2>2 DEF Side, Steady, Alike
<1>5. ASSUME x = Inform([Unlink(n, "DCS", {r}) EXCEPT !.status = "LINKING"])
      PROVE  Side(l, x) /\ x.status \in ReflectorStatus /\ x.repeater = r
  <2> DEFINE y == Unlink(n, "DCS", {r})
  <2>1. y \in LinkStates /\ Side(n, y) /\ y.repeater = r
    BY <1>1, UnlinkEffect
  <2>2. x = Inform([y EXCEPT !.status = "LINKING"])
    BY <1>5
  <2> HIDE DEF y
  <2>3. Side(l, y)
    BY <1>1, <2>1 DEF Side
  <2> QED
    BY <1>3, <2>1, <2>2, <2>3
<1>6. ASSUME NEW y \in UnlinkDExtra(n, k, {r}), x = Inform([y EXCEPT !.status = "LINKING"])
      PROVE  Side(l, x) /\ x.status \in ReflectorStatus /\ x.repeater = r
  <2> DEFINE gone == {o \in n.out \ {r} : Proto[o] = "DEXTRA"}
             d == Drop(n, gone)
  <2>1. y = n \/ y = LinkFailed(d, k, n.repeater)
    BY <1>1 DEF UnlinkDExtra, Quiet
  <2>2. d \in LinkStates /\ Side(n, d) /\ d.repeater = r /\ ~Quiet(d)
    BY <1>1, DropType, DropEffect
  <2> HIDE DEF d
  <2>3. ASSUME y = LinkFailed(d, k, n.repeater)
        PROVE  y \in LinkStates /\ Side(l, y) /\ y.repeater = r
    <3>1. y \in LinkStates /\ Linking(d, k, r, y)
      BY <2>2, <2>3, LinkFailedType, LinkFailedEffect
    <3> QED
      BY <1>1, <2>2, <3>1 DEF Linking, Side
  <2> QED
    BY <1>1, <1>3, <1>6, <2>1, <2>3
<1> QED
  BY <1>0, <1>2, <1>3, <1>4, <1>5, <1>6

-------------------------------------------------------------------------------

(* The reflector at startup and the reconnect mode are the same.            *)
Config(l, m) == m.startup = l.startup /\ m.mode = l.mode

\* the same link, whatever the state of the CCS client
Near(l, m) ==
  /\ Config(l, m) /\ Steady(l, m) /\ m.last = l.last
  /\ (Quiet(m) <=> Quiet(l)) /\ m.out = l.out

(* The reflector to come back to after a call.                              *)
ToRestore(l) == IF l.status \in ReflectorStatus THEN l.repeater ELSE l.last

(* The configuration is kept, the reflector to come back to is remembered,  *)
(* and no link object is left unless a change of module was under way.      *)
Suspended(l, m) ==
  /\ Config(l, m) /\ m.last = ToRestore(l)
  /\ Quiet(l) => Quiet(m) /\ m.out = {}

(* A CCS call has the repeater.                                             *)
Called(l, m) == Suspended(l, m) /\ m.status \in CcsStatus /\ m.repeater = CcsPeer

(* The repeater goes back to the link to restore, or to its own reflector if*)
(* it is Fixed.                                                             *)
Back(l, k, m) ==
  LET r == IF Fixed(l) THEN l.startup ELSE l.last IN
  /\ Config(l, m) /\ (Quiet(m) <=> Quiet(l))
  /\ \/ Idle(m) /\ (l.last = NoCall \/ r \in Reflectors \ k)
     \/ Led(k, r, m)

(* CRepeaterHandler::suspendLinks clears the link and leaves the CCS client *)
(* alone.                                                                   *)
LEMMA SuspendLinksEffect ==
  ASSUME NEW l \in LinkStates, NEW k \in SUBSET Remote, NEW x \in SuspendLinks(l, k)
  PROVE  /\ x \in LinkStates /\ Suspended(l, x) /\ Idle(x)
         /\ x.ccs = l.ccs /\ x.dir = l.dir
<1> DEFINE m == [l EXCEPT !.last = IF l.status \in ReflectorStatus THEN l.repeater ELSE @]
           u == Unlink(m, "DPLUS", {})
<1>1. /\ m \in LinkStates /\ Config(l, m) /\ m.ccs = l.ccs /\ m.dir = l.dir
      /\ m.last = ToRestore(l)
  BY DEF LinkStates, Config, ToRestore
<1>2. PICK y \in UnlinkDExtra(u, k, {}) :
        x = [NotLinked(Unlink(y, "DCS", {})) EXCEPT !.reconnect = Stopped]
  BY DEF SuspendLinks
<1> HIDE DEF m
<1>3. u \in LinkStates /\ Side(m, u)
  BY <1>1, UnlinkEffect
<1> HIDE DEF u
<1>4. y \in LinkStates /\ Side(u, y)
  BY <1>2, <1>3, UnlinkDExtraKeeps DEF Kept
<1> DEFINE z == NotLinked(Unlink(y, "DCS", {}))
<1>5. z \in LinkStates /\ Side(y, z) /\ Idle(z)
  BY <1>4, UnlinkEffect, NotLinkedEffect, NotLinkedType DEF Side, Idle
<1> HIDE DEF z
<1>6. x \in LinkStates /\ Alike(z, x)
  BY <1>2, <1>5, AlikeFacts, SuspendLinksType DEF z
<1> QED
  BY <1>1, <1>3, <1>4, <1>5, <1>6, SuspendLinksQuiet
  DEF Side, Alike, Config, Suspended, Idle

(* CRepeaterHandler::restoreLinks goes back, and leaves the CCS client      *)
(* alone.                                                                   *)
LEMMA RestoreLinksEffect ==
  ASSUME NEW l \in LinkStates, NEW k \in SUBSET Remote, Idle(l)
  PROVE  LET m == RestoreLinks(l, k) IN
         m \in LinkStates /\ Back(l, k, m) /\ m.ccs = l.ccs /\ m.dir = l.dir
<1> DEFINE n == IF l.mode = "TIMED" THEN StartReconnect(l) ELSE l
           r == IF l.mode = "FIXED" THEN l.startup ELSE l.last
           y == LinkInt(n, k, r)
           m == [y EXCEPT !.last = NoCall]
<1>1. n \in LinkStates /\ Alike(l, n)
  BY StartReconnectType, AlikeFacts
<1> HIDE DEF n
<1>2. /\ y \in LinkStates /\ Side(n, y) /\ (Quiet(y) <=> Quiet(n))
      /\ (Led(k, r, y) \/ (r \in Reflectors \ k /\ Steady(n, y)))
  <2>1. r \in Calls
    BY DEF LinkStates, Calls
  <2> HIDE DEF r
  <2>2. y \in LinkStates
    BY <1>1, <2>1, LinkIntType
  <2>3. Quiet(y) <=> Quiet(n)
    BY <1>1, LinkIntEffect
  <2>4. Side(n, y) /\ (Led(k, r, y) \/ (r \in Reflectors \ k /\ Steady(n, y)))
    BY <1>1, LinkIntLeads
  <2> QED
    BY <2>2, <2>3, <2>4
<1>3. RestoreLinks(l, k) = IF l.last = NoCall THEN n ELSE m
  BY DEF RestoreLinks, n
<1> HIDE DEF y, r
<1>4. /\ m.status = y.status /\ m.repeater = y.repeater /\ Config(y, m)
      /\ m.ccs = y.ccs /\ m.dir = y.dir /\ (Quiet(m) <=> Quiet(y))
  BY <1>2 DEF LinkStates, Config, Quiet
<1>5. Back(l, k, n) \/ l.last # NoCall
  BY <1>1 DEF Back, Idle, Alike, Side, Config
<1>6. r = IF Fixed(l) THEN l.startup ELSE l.last
  BY DEF r, Fixed
<1>7. Back(l, k, m)
  BY <1>1, <1>2, <1>4, <1>6 DEF Back, Idle, Alike, Side, Config, Led, Steady
<1>8. RestoreLinks(l, k) \in LinkStates
  BY RestoreLinksType
<1> HIDE DEF m
<1> QED
  BY <1>1, <1>2, <1>3, <1>4, <1>5, <1>7, <1>8 DEF Alike, Side

(* ccsLinkMade takes the repeater for an outgoing call and ignores an       *)
(* incoming one.                                                            *)
LEMMA CcsLinkMadeEffect ==
  ASSUME NEW l \in LinkStates, NEW k \in SUBSET Remote, NEW x \in CcsLinkMade(l, k)
  PROVE  /\ x \in LinkStates
         /\ Alike(l, x) \/ (Called(l, x) /\ x.status = "LINKED_CCS")
<1>0. x \in LinkStates
  BY CcsLinkMadeType
<1>1. CASE l.dir = "INCOMING"
  BY <1>0, <1>1, AlikeFacts DEF CcsLinkMade
<1>2. CASE l.dir # "INCOMING"
  <2>1. PICK m \in SuspendLinks(l, k) :
          x = Inform([m EXCEPT !.status = "LINKED_CCS", !.repeater = CcsPeer, !.query = Stopped])
    BY <1>2 DEF CcsLinkMade
  <2>2. m \in LinkStates /\ Suspended(l, m)
    BY <2>1, SuspendLinksEffect
  <2>3. /\ x.status = "LINKED_CCS" /\ x.repeater = CcsPeer /\ x.out = m.out
        /\ (Quiet(x) <=> Quiet(m)) /\ Config(m, x) /\ x.last = m.last
    BY <2>1, <2>2 DEF LinkStates, Inform, Quiet, Config
  <2> QED
    BY <1>0, <2>2, <2>3 DEF Called, Suspended, Config, CcsStatus
<1> QED
  BY <1>1, <1>2

(* The end of a CCS call, refused, failed or ended: the link comes back     *)
(* after an outgoing call and is untouched after an incoming one.           *)
LEMMA CcsLinkEndedEffect ==
  ASSUME NEW l \in LinkStates, NEW k \in SUBSET Remote
  PROVE  LET m == CcsLinkEnded(l, k) IN
         /\ m \in LinkStates /\ m.ccs = l.ccs /\ m.dir = l.dir
         /\ IF l.dir = "INCOMING" THEN Alike(l, m) ELSE Back(l, k, m)
<1> DEFINE n == [NotLinked(l) EXCEPT !.query = Stopped]
           m == CcsLinkEnded(l, k)
<1>0. m \in LinkStates
  BY CcsLinkEndedType
<1>1. CASE l.dir = "INCOMING"
  BY <1>0, <1>1, AlikeFacts DEF CcsLinkEnded, Alike, Side
<1>2. CASE l.dir # "INCOMING"
  <2>1. NotLinked(l) \in LinkStates /\ Side(l, NotLinked(l)) /\ Idle(NotLinked(l))
        /\ (Quiet(NotLinked(l)) <=> Quiet(l))
    BY NotLinkedType, NotLinkedEffect DEF Idle
  <2>2. n \in LinkStates /\ Alike(NotLinked(l), n)
    BY <2>1, QueryType, AlikeFacts
  <2>3. m = Inform(RestoreLinks(n, k))
    BY <1>2 DEF CcsLinkEnded
  <2> HIDE DEF n, m
  <2>4. Idle(n) /\ Side(l, n) /\ (Quiet(n) <=> Quiet(l))
    BY <2>1, <2>2 DEF Alike, Idle, Side
  <2> DEFINE y == RestoreLinks(n, k)
  <2>5. y \in LinkStates /\ Back(n, k, y) /\ y.ccs = n.ccs /\ y.dir = n.dir
    BY <2>2, <2>4, RestoreLinksEffect
  <2> HIDE DEF y
  <2>6. Alike(y, m)
    BY <2>3, <2>5, AlikeFacts DEF y
  <2>7. Back(l, k, m)
    BY <2>4, <2>5, <2>6 DEF Back, Alike, Side, Config, Idle, Led, Fixed
  <2> QED
    BY <1>0, <1>2, <2>4, <2>5, <2>6, <2>7 DEF Alike, Side, m
<1> QED
  BY <1>1, <1>2

(* The repeater is cleared or goes to some callsign, its own reflector if it*)
(* is Fixed.                                                                *)
Sent(l, k, m) ==
  /\ Config(l, m) /\ (Quiet(m) <=> Quiet(l))
  /\ Idle(m) \/ \E r \in Calls : (Fixed(l) => r = l.startup) /\ Led(k, r, m)

(* Going back is one way of being sent somewhere.                           *)
LEMMA BackSent ==
  ASSUME NEW l \in LinkStates, NEW k, NEW m, Back(l, k, m)
  PROVE  Sent(l, k, m)
<1>1. l.startup \in Calls /\ l.last \in Calls
  BY DEF LinkStates, Calls
<1> QED
  BY <1>1 DEF Back, Sent

(* CCCSHandler::stopLink keeps the link or, if it ends an outgoing call,    *)
(* brings the suspended one back.                                           *)
LEMMA StopLinkEffect ==
  ASSUME NEW l \in LinkStates, NEW k \in SUBSET Remote
  PROVE  LET m == StopLink(l, k) IN
         m \in LinkStates /\ (Near(l, m) \/ Back(l, k, m))
<1> DEFINE n == [l EXCEPT !.ccs = "CONNECTED"]
<1>1. n \in LinkStates /\ Near(l, n)
  BY CcsFieldType DEF Near, Config, Steady, Quiet, LinkStates
<1> HIDE DEF n
<1>2. /\ CcsLinkEnded(n, k) \in LinkStates
      /\ Alike(n, CcsLinkEnded(n, k)) \/ Back(n, k, CcsLinkEnded(n, k))
  BY <1>1, CcsLinkEndedEffect
<1>3. Near(l, CcsLinkEnded(n, k)) \/ Back(l, k, CcsLinkEnded(n, k))
  BY <1>1, <1>2 DEF Near, Back, Alike, Side, Config, Steady, Fixed
<1>4. Near(l, l)
  BY DEF Near, Config, Steady
<1> QED
  BY <1>2, <1>3, <1>4 DEF StopLink, n

(* CCCSHandler::startLink keeps the call or drops what is there for it.     *)
LEMMA StartLinkEffect ==
  ASSUME NEW l \in LinkStates, NEW k \in SUBSET Remote, l.status \in CcsStatus,
         NEW x \in StartLink(l, k)
  PROVE  x \in LinkStates /\ (Near(l, x) \/ Called(l, x))
<1>1. ASSUME NEW m \in LinkStates, NEW d
      PROVE  Near(m, Activate(m, d)) /\ Near(m, [Activate(m, d) EXCEPT !.asked = TRUE])
  BY DEF Near, Config, Steady, Quiet, LinkStates, Activate
<1>2. \/ x = l
      \/ \E m \in CcsLinkMade(l, k) : x = Activate(m, "OUTGOING")
      \/ x = [Activate(l, "OUTGOING") EXCEPT !.asked = TRUE]
  BY DEF StartLink
<1>3. ASSUME NEW m \in CcsLinkMade(l, k), x = Activate(m, "OUTGOING")
      PROVE  Near(l, x) \/ Called(l, x)
  <2>1. m \in LinkStates /\ (Alike(l, m) \/ Called(l, m))
    BY CcsLinkMadeEffect
  <2>2. Near(m, x)
    BY <1>1, <1>3, <2>1
  <2> QED
    BY <2>1, <2>2 DEF Near, Called, Suspended, ToRestore, Alike, Side, Config, Steady
<1>4. Near(l, l)
  BY DEF Near, Config, Steady
<1> QED
  BY <1>1, <1>2, <1>3, <1>4, StartLinkType

(* A CCS command on the air ends the call, is ignored, or (the client idle) *)
(* starts one.                                                              *)
LEMMA CcsCommandEffect ==
  ASSUME NEW l \in LinkStates, NEW k \in SUBSET Remote, NEW cmd, NEW x \in CcsCommand(l, k, cmd)
  PROVE  \/ cmd = "CA" /\ x = StopLink(l, k)
         \/ x = l
         \/ l.ccs = "CONNECTED" /\ Called(l, x)
<1> DEFINE wanted(m) == [m EXCEPT !.query = Started, !.status = "LINKING_CCS", !.repeater = CcsPeer]
<1>1. \/ cmd = "CA" /\ x = StopLink(l, k)
      \/ x = l
      \/ /\ l.ccs = "CONNECTED"
         /\ \E m \in SuspendLinks(l, k) : x \in StartLink(wanted(m), k)
  BY DEF CcsCommand
<1>2. ASSUME NEW m \in SuspendLinks(l, k), x \in StartLink(wanted(m), k)
      PROVE  Called(l, x)
  <2> DEFINE w == wanted(m)
  <2>1. m \in LinkStates /\ Suspended(l, m)
    BY SuspendLinksEffect
  <2>2. /\ w.status = "LINKING_CCS" /\ w.repeater = CcsPeer /\ w.out = m.out
        /\ (Quiet(w) <=> Quiet(m)) /\ Config(m, w) /\ w.last = m.last
    BY <2>1 DEF LinkStates, Quiet, Config
  <2>3. w \in LinkStates
    <3>1. [m EXCEPT !.query = Started] \in LinkStates
      BY <2>1, QueryType
    <3>2. w = [[m EXCEPT !.query = Started] EXCEPT !.status = "LINKING_CCS", !.repeater = CcsPeer]
      BY <2>1 DEF LinkStates
    <3> QED
      BY <3>1, <3>2 DEF LinkStates, LinkStatus, CcsStatus, Calls
  <2>4. Called(l, w)
    BY <2>1, <2>2 DEF Called, Suspended, Config, CcsStatus
  <2> HIDE DEF w
  <2>5. Near(w, x) \/ Called(w, x)
    BY <1>2, <2>3, <2>4, StartLinkEffect DEF w, Called
  <2> QED
    BY <2>2, <2>4, <2>5
    DEF Near, Called, Suspended, ToRestore, Config, Steady, ReflectorStatus
<1> QED
  BY <1>1, <1>2

(* Whatever the CCS client does: the link stays, a call takes the repeater, *)
(* or the link comes back; only the query time-out of a call may leave      *)
(* something else.                                                          *)
LEMMA CcsMovedBack ==
  ASSUME NEW l \in LinkStates, NEW k \in SUBSET Remote, NEW m, CcsMoved(l, k, m)
  PROVE  \/ Near(l, m) \/ Called(l, m) \/ Back(l, k, m)
         \/ l.status = "LINKING_CCS" /\ Sent(l, k, m)
<1>1. Near(l, l)
  BY DEF Near, Config, Steady
<1>2. ASSUME m = StopLink(l, k)
      PROVE  Near(l, m) \/ Back(l, k, m)
  BY <1>2, StopLinkEffect
<1>3. CASE \E cmd : m \in CcsCommand(l, k, cmd)
  BY <1>1, <1>2, <1>3, CcsCommandEffect
<1>4. ASSUME NEW n \in LinkStates, Near(l, n), m \in CcsLinkMade(n, k)
      PROVE  Near(l, m) \/ Called(l, m)
  <2>1. Alike(n, m) \/ Called(n, m)
    BY <1>4, CcsLinkMadeEffect
  <2> QED
    BY <1>4, <2>1 DEF Near, Called, Suspended, ToRestore, Alike, Side, Config, Steady
<1>5. ASSUME NEW n \in LinkStates, Near(l, n), m = CcsLinkEnded(n, k)
      PROVE  Near(l, m) \/ Back(l, k, m)
  <2>1. Alike(n, m) \/ Back(n, k, m)
    BY <1>5, CcsLinkEndedEffect
  <2>2. Alike(n, m) \/ Back(l, k, m)
    BY <1>5, <2>1 DEF Back, Near, Config, Fixed
  <2> QED
    BY <1>5, <2>2 DEF Near, Alike, Side, Config, Steady
<1>6. CASE m \in IncomingCall(l, k)
  <2>1. Activate(l, "INCOMING") \in LinkStates
    BY CcsFieldType
  <2>2. Near(l, Activate(l, "INCOMING"))
    BY DEF Near, Config, Steady, Quiet, LinkStates, Activate
  <2> QED
    BY <1>4, <1>6, <2>1, <2>2 DEF IncomingCall
<1>7. CASE \E ack \in BOOLEAN : m = ServerAnswers(l, ack)
  BY <1>7 DEF ServerAnswers, Near, Config, Steady, Quiet, LinkStates
<1>8. CASE m \in DtmfFound(l, k)
  <2>1. \A b \in BOOLEAN : /\ [l EXCEPT !.mapped = b, !.asked = FALSE] \in LinkStates
                           /\ Near(l, [l EXCEPT !.mapped = b, !.asked = FALSE])
    BY DEF Near, Config, Steady, Quiet, LinkStates
  <2>2. (l.mapped \/ l.dir = "OUTGOING") \in BOOLEAN
    OBVIOUS
  <2> QED
    BY <1>4, <1>8, <2>1, <2>2 DEF DtmfFound
<1>9. CASE m = DtmfNotFound(l, k)
  <2>1. /\ [l EXCEPT !.ccs = "CONNECTED", !.asked = FALSE] \in LinkStates
        /\ Near(l, [l EXCEPT !.ccs = "CONNECTED", !.asked = FALSE])
    BY DEF Near, Config, Steady, Quiet, LinkStates
  <2> QED
    BY <1>5, <1>9, <2>1 DEF DtmfNotFound
<1>10. CASE m = PollInactivity(l, k)
  <2> DEFINE n == IF l.ccs = "ACTIVE" THEN CcsLinkEnded(l, k) ELSE l
  <2>1. n \in LinkStates /\ (Near(l, n) \/ Back(l, k, n))
    BY <1>1, CcsLinkEndedEffect DEF Near, Alike, Side, Config, Steady
  <2>2. m = [n EXCEPT !.ccs = "CONNECTING"]
    BY <1>10 DEF PollInactivity
  <2> HIDE DEF n
  <2>3. Near(n, m)
    BY <2>1, <2>2 DEF Near, Config, Steady, Quiet, LinkStates
  <2>4. Near(l, m) \/ Back(l, k, m)
    BY <2>1, <2>3 DEF Near, Back, Config, Steady, Idle, Led
  <2> QED
    BY <2>4
<1>11. CASE l.status = "LINKING_CCS" /\ m = RestoreLinks(NotLinked(StopLink(l, k)), k)
  <2> DEFINE s == StopLink(l, k)
             n == NotLinked(s)
  <2>1. s \in LinkStates /\ Config(l, s) /\ (Quiet(s) <=> Quiet(l))
    BY StopLinkEffect DEF Near, Back
  <2> HIDE DEF s
  <2>2. n \in LinkStates /\ Idle(n) /\ Config(l, n) /\ (Quiet(n) <=> Quiet(l))
    BY <2>1, NotLinkedType, NotLinkedEffect DEF Idle, Side, Config
  <2>3. m = RestoreLinks(n, k)
    BY <1>11 DEF s
  <2> HIDE DEF n
  <2>4. Back(n, k, m)
    BY <2>2, <2>3, RestoreLinksEffect
  <2>5. Sent(n, k, m)
    BY <2>2, <2>4, BackSent
  <2> QED
    BY <1>11, <2>2, <2>5 DEF Sent, Config, Fixed
<1> QED
  BY <1>2, <1>3, <1>6, <1>7, <1>8, <1>9, <1>10, <1>11 DEF CcsMoved

(* The same, with what the query time-out leaves not told apart.            *)
LEMMA CcsMovedEffect ==
  ASSUME NEW l \in LinkStates, NEW k \in SUBSET Remote, NEW m, CcsMoved(l, k, m)
  PROVE  Near(l, m) \/ Called(l, m) \/ Sent(l, k, m)
BY CcsMovedBack, BackSent

-------------------------------------------------------------------------------

(* The inductive part of what a link's status says: a reflector status has a*)
(* remote, a CCS status the CCS peer; ircDDB is asked only for what the     *)
(* hosts files lack; a name without a link is that of a refused remote.     *)
Based(l, k) ==
  /\ l.status \in ReflectorStatus => l.repeater \in Remote
  /\ l.status \in CcsStatus => l.repeater = CcsPeer
  /\ l.status = "PENDING" /\ l.repeater \in Remote => l.repeater \notin Known
  /\ l.status = "NONE" /\ l.repeater \in Remote => Barred(l.repeater, k)

(* The hosts files have every reflector, and a callsign they lack shares its*)
(* base with no other remote: a change of module is never asked of a link   *)
(* that is LS_PENDING.                                                      *)
Resolvable ==
  /\ Reflectors \subseteq Known
  /\ \A r \in Remote \ Known, s \in Remote : Base[r] = Base[s] => r = s

(* A Fixed repeater with a link, or on its way to one, has its own          *)
(* reflector's name.                                                        *)
FixedHome(l) ==
  Fixed(l) /\ l.status # "NONE" /\ l.repeater \in Remote => l.repeater = l.startup

(* The inductive invariant behind FixedStays.                               *)
Settled(l, k) == Based(l, k) /\ (Resolvable => FixedHome(l))

(* A cleared link is settled.                                               *)
LEMMA IdleSettled ==
  ASSUME NEW k, NEW m, Idle(m)
  PROVE  Settled(m, k)
BY CallsAssumption DEF Idle, Settled, Based, FixedHome, ReflectorStatus, CcsStatus

(* What keeps status, name and configuration stays settled.                 *)
LEMMA SteadySettled ==
  ASSUME NEW l, NEW k, NEW m, Settled(l, k), Config(l, m), Steady(l, m)
  PROVE  Settled(m, k)
BY DEF Config, Steady, Settled, Based, FixedHome, Fixed

(* A repeater that goes to r, its own reflector if it is Fixed, is settled. *)
LEMMA LedSettled ==
  ASSUME NEW k \in Caches, NEW m, NEW r \in Calls, Led(k, r, m), Fixed(m) => r = m.startup
  PROVE  Settled(m, k)
<1>1. k \in SUBSET Remote /\ Known \subseteq k
  BY DEF Caches
<1>2. Based(m, k)
  BY <1>1 DEF Led, Based, ReflectorStatus, CcsStatus
<1>3. FixedHome(m)
  BY DEF Led, FixedHome
<1> QED
  BY <1>2, <1>3 DEF Settled

(* What stays where it is, or goes there again, stays settled.              *)
LEMMA KeptSettled ==
  ASSUME NEW l \in LinkStates, NEW k \in Caches, NEW m, Settled(l, k), Kept(l, k, m)
  PROVE  Settled(m, k)
<1>1. k \in SUBSET Remote /\ Known \subseteq k /\ l.repeater \in Calls
  BY DEF Caches, LinkStates
<1>2. Config(l, m)
  BY DEF Kept, Side, Config
<1>3. ASSUME Led(k, l.repeater, m)
      PROVE  Settled(m, k)
  <2>1. Based(m, k)
    BY <1>1, <1>3 DEF Led, Based, ReflectorStatus, CcsStatus
  <2>2. ASSUME Resolvable
        PROVE  FixedHome(m)
    BY <1>1, <1>2, <1>3, <2>2, CallsAssumption, IrcAssumption
    DEF Settled, Based, FixedHome, Led, Barred, Config, Fixed
  <2> QED
    BY <2>1, <2>2 DEF Settled
<1> QED
  BY <1>2, <1>3, IdleSettled, SteadySettled DEF Kept

(* What the link objects report keeps the link settled.                     *)
LEMMA ObjectsSettled ==
  ASSUME NEW l \in LinkStates, NEW k \in Caches, NEW m, Settled(l, k), ObjectMoved(l, k, m)
  PROVE  Settled(m, k)
<1>1. ASSUME NEW n \in LinkStates, Config(l, n), Steady(l, n), NEW o, m = LinkFailed(n, k, o)
      PROVE  Settled(m, k)
  BY <1>1, SteadySettled, LinkFailedKeeps, KeptSettled
<1>2. ASSUME NEW gone
      PROVE  /\ Drop(l, gone) \in LinkStates
             /\ Config(l, Drop(l, gone)) /\ Steady(l, Drop(l, gone))
  BY DropType, DropEffect DEF Side, Config, Steady
<1>3. ASSUME NEW o
      PROVE  /\ Forget(l, o) \in LinkStates
             /\ Config(l, Forget(l, o)) /\ Steady(l, Forget(l, o))
  BY DEF Forget, LinkStates, Config, Steady
<1>4. ASSUME NEW o \in Remote, m = ObjectUp(l, o)
      PROVE  Settled(m, k)
  <2>1. \/ Steady(l, m) /\ Config(l, m)
        \/ /\ l.status \in ReflectorStatus /\ m.status \in ReflectorStatus
           /\ m.repeater = l.repeater /\ Config(l, m)
    BY <1>4 DEF ObjectUp, LinkUp, Inform, LinkStates, Steady, Config, ReflectorStatus
  <2> QED
    BY <2>1, SteadySettled
    DEF Settled, Based, FixedHome, Fixed, Config, ReflectorStatus, CcsStatus
<1>5. ASSUME NEW o \in Remote, m = ObjectRefused(l, o)
      PROVE  Settled(m, k)
  <2>1. (Steady(l, m) /\ Config(l, m)) \/ Idle(m)
    BY <1>5 DEF ObjectRefused, LinkRefused, Drop, Inform, NotLinked, LinkStates, Steady, Config, Idle
  <2> QED
    BY <2>1, SteadySettled, IdleSettled
<1>6. ASSUME NEW o \in Remote, m = ObjectFailed(l, k, o)
      PROVE  Settled(m, k)
  <2>1. CASE Proto[o] = "DCS"
    <3> DEFINE n == LinkFailed(l, k, o)
    <3>1. n \in LinkStates /\ Settled(n, k)
      BY LinkFailedType, LinkFailedKeeps, KeptSettled DEF Caches
    <3>2. m = Drop(n, {o})
      BY <1>6, <2>1 DEF ObjectFailed
    <3> HIDE DEF n
    <3>3. Config(n, m) /\ Steady(n, m)
      BY <3>1, <3>2, DropEffect DEF Side, Config, Steady
    <3> QED
      BY <3>1, <3>3, SteadySettled
  <2>2. CASE Proto[o] # "DCS"
    BY <1>1, <1>2, <1>6, <2>2 DEF ObjectFailed
  <2> QED
    BY <2>1, <2>2
<1>7. ASSUME NEW rest \in LinkStates, Config(l, rest), Steady(l, rest), NEW o,
             m = ObjectTimedOut(l, rest, o)
      PROVE  Settled(m, k)
  <2>1. \/ Steady(l, m) /\ Config(l, m)
        \/ /\ l.status \in ReflectorStatus /\ m.status \in ReflectorStatus
           /\ m.repeater = l.repeater /\ Config(l, m)
    BY <1>7 DEF ObjectTimedOut, LinkStates, Steady, Config, ReflectorStatus
  <2> QED
    BY <2>1, SteadySettled
    DEF Settled, Based, FixedHome, Fixed, Config, ReflectorStatus, CcsStatus
<1>8. l.out \in SUBSET Remote /\ l.up \in SUBSET Remote
  BY DEF LinkStates
<1>9. ASSUME NEW o, m = UnlinkAcknowledged(l, k, o)
      PROVE  Settled(m, k)
  BY <1>1, <1>3, <1>9 DEF UnlinkAcknowledged
<1>10. ASSUME NEW o, m = ObjectTimedOut(l, Drop(l, {o}), o) \/ m = ObjectTimedOut(l, Forget(l, o), o)
       PROVE  Settled(m, k)
  BY <1>2, <1>3, <1>7, <1>10
<1>11. ASSUME NEW o, m = Drop(l, {o}) \/ m = Forget(l, o)
       PROVE  Settled(m, k)
  BY <1>2, <1>3, <1>11, SteadySettled
<1> QED
  BY <1>4, <1>5, <1>6, <1>8, <1>9, <1>10, <1>11 DEF ObjectMoved

(* What the CCS client does keeps the link settled.                         *)
LEMMA CcsSettled ==
  ASSUME NEW l \in LinkStates, NEW k \in Caches, NEW m, Settled(l, k), CcsMoved(l, k, m)
  PROVE  Settled(m, k)
<1>1. k \in SUBSET Remote
  BY DEF Caches
<1>2. CASE Near(l, m)
  BY <1>2, SteadySettled DEF Near
<1>3. CASE Called(l, m)
  BY <1>3, CallsAssumption
  DEF Called, Settled, Based, FixedHome, CcsStatus, ReflectorStatus
<1>4. CASE Sent(l, k, m)
  BY <1>4, LedSettled, IdleSettled DEF Sent, Config, Fixed
<1> QED
  BY <1>1, <1>2, <1>3, <1>4, CcsMovedEffect

(* linkInt settles the link: with every reflector in the hosts files it     *)
(* never leaves the link as it was.                                         *)
LEMMA LinkIntSettled ==
  ASSUME NEW l \in LinkStates, NEW k \in Caches, NEW r \in Calls,
         Based(l, k), Fixed(l) => r = l.startup
  PROVE  Settled(LinkInt(l, k, r), k)
<1> DEFINE m == LinkInt(l, k, r)
<1>1. Config(l, m) /\ (Led(k, r, m) \/ (r \in Reflectors \ k /\ Steady(l, m)))
  BY LinkIntLeads DEF Side, Config
<1> HIDE DEF m
<1>2. ASSUME Led(k, r, m)
      PROVE  Settled(m, k)
  BY <1>1, <1>2, LedSettled DEF Config, Fixed
<1>3. ASSUME r \in Reflectors \ k, Steady(l, m)
      PROVE  Settled(m, k)
  <2>1. ~Resolvable
    BY <1>3 DEF Resolvable, Caches
  <2> QED
    BY <1>1, <1>3, <2>1 DEF Settled, Based, Steady
<1> QED
  BY <1>1, <1>2, <1>3 DEF m

(* What is asked for on the air or by the reconnect timer settles the link. *)
LEMMA SoughtSettled ==
  ASSUME NEW l \in LinkStates, NEW k \in Caches, NEW r \in Remote, NEW m,
         Settled(l, k), Sought(l, k, r, m)
  PROVE  Settled(m, k)
<1>1. k \in SUBSET Remote /\ r \in Calls
  BY DEF Caches, Calls
<1>2. ASSUME m \in ChangeModule(l, k, r)
      PROVE  Settled(m, k)
  <2>1. CASE m = l
    BY <2>1
  <2>2. CASE Side(l, m) /\ m.status \in ReflectorStatus /\ m.repeater = r
    BY <2>2 DEF Sought, Settled, Based, FixedHome, Fixed, Side, ReflectorStatus, CcsStatus
  <2> QED
    BY <1>1, <1>2, <2>1, <2>2, ChangeModuleLeads
<1>3. ASSUME NEW x \in UnlinkAll(l, k), m = LinkInt(x, k, r)
      PROVE  Settled(m, k)
  <2>1. x \in LinkStates /\ Kept(l, k, x)
    BY <1>1, UnlinkAllKeeps
  <2>2. Settled(x, k)
    BY <2>1, KeptSettled
  <2>3. Fixed(x) => r = x.startup
    BY <2>1 DEF Sought, Kept, Side, Fixed
  <2> QED
    BY <1>1, <1>3, <2>1, <2>2, <2>3, LinkIntSettled DEF Settled
<1> QED
  BY <1>2, <1>3 DEF Sought

(* What the remote control asks for settles the link: the reflector becomes *)
(* the repeater's own before the link is changed.                           *)
LEMMA RemoteLinkSettled ==
  ASSUME NEW l \in LinkStates, NEW k \in Caches, NEW mode \in Reconnect,
         NEW r \in Remote \cup {NoCall}, NEW y \in RemoteLink(l, k, mode, r), Settled(l, k)
  PROVE  Settled(y, k)
<1> DEFINE dropped == [NotLinked(StopLink(l, k)) EXCEPT !.query = Stopped]
           n == IF l.status \in CcsStatus THEN dropped ELSE l
           m == [n EXCEPT !.startup = r, !.mode = mode, !.timed = @ \/ mode = "TIMED",
                          !.reconnect = IF mode = "TIMED" THEN Started ELSE Stopped]
<1>0. k \in SUBSET Remote /\ Known \subseteq k /\ r \in Calls
  BY DEF Caches, Calls
<1>1. n \in LinkStates /\ (Steady(l, n) \/ Idle(n)) /\ n.status \notin CcsStatus
  <2> DEFINE s == StopLink(l, k)
  <2>1. s \in LinkStates
    BY <1>0, StopLinkType
  <2> HIDE DEF s
  <2>2. NotLinked(s) \in LinkStates /\ Idle(NotLinked(s))
    BY <2>1, NotLinkedType, NotLinkedEffect DEF Idle
  <2>3. [NotLinked(s) EXCEPT !.query = Stopped] \in LinkStates
        /\ Alike(NotLinked(s), [NotLinked(s) EXCEPT !.query = Stopped])
    BY <2>2, QueryType, AlikeFacts
  <2>4. dropped \in LinkStates /\ Idle(dropped)
    BY <2>2, <2>3 DEF s, Idle, Alike
  <2> HIDE DEF dropped
  <2> QED
    BY <2>4 DEF Steady, Idle, CcsStatus
<1> HIDE DEF n
<1>2. /\ m \in LinkStates /\ Steady(n, m) /\ m.startup = r
      /\ m.status = n.status /\ m.repeater = n.repeater
  <2>1. (IF mode = "TIMED" THEN Started ELSE Stopped) \in 0..ReconnectTimeout
    BY TimeoutAssumption DEF Started, Stopped
  <2>2. (n.timed \/ mode = "TIMED") \in BOOLEAN
    OBVIOUS
  <2>3. \A t \in BOOLEAN, c \in 0..ReconnectTimeout :
          LET w == [n EXCEPT !.startup = r, !.mode = mode, !.timed = t, !.reconnect = c]
          IN w \in LinkStates /\ Steady(n, w) /\ w.startup = r
    BY <1>1 DEF LinkStates, Steady
  <2>4. m \in LinkStates /\ Steady(n, m) /\ m.startup = r
    BY <2>1, <2>2, <2>3
  <2> QED
    BY <2>4 DEF Steady
<1>3. RemoteLink(l, k, mode, r) =
        IF IF m.status = "NONE" THEN r = NoCall ELSE r = m.repeater THEN {m}
        ELSE IF r = NoCall THEN {Inform(NotLinked(x)) : x \in UnlinkAll(m, k)}
        ELSE IF m.status # "NONE" /\ SameBase(m.repeater, r) THEN ChangeModule(m, k, r)
        ELSE {LinkInt(x, k, r) : x \in UnlinkAll(m, k)}
  BY DEF RemoteLink, n
<1> HIDE DEF m
<1>4. Based(m, k)
  <2>1. Based(n, k)
    BY <1>1, IdleSettled DEF Steady, Settled, Based
  <2> QED
    BY <1>2, <2>1 DEF Steady, Based
<1>5. ASSUME IF m.status = "NONE" THEN r = NoCall ELSE r = m.repeater
      PROVE  Settled(m, k)
  BY <1>2, <1>4, <1>5 DEF Settled, FixedHome
<1>6. ASSUME NEW x \in UnlinkAll(m, k)
      PROVE  Settled(Inform(NotLinked(x)), k)
  <2>1. x \in LinkStates
    BY <1>0, <1>2, UnlinkAllType
  <2>2. NotLinked(x) \in LinkStates /\ Idle(NotLinked(x))
    BY <2>1, NotLinkedType, NotLinkedEffect DEF Idle
  <2>3. Idle(Inform(NotLinked(x)))
    BY <2>2, AlikeFacts DEF Alike, Idle
  <2> QED
    BY <2>3, IdleSettled
<1>7. ASSUME m.status # "NONE", r # m.repeater, SameBase(m.repeater, r), y \in ChangeModule(m, k, r)
      PROVE  Settled(y, k)
  <2>1. r \in Remote
    BY <1>7 DEF SameBase
  <2>2. CASE y = m /\ m.status \notin ReflectorStatus
    <3>1. m.status = "PENDING"
      BY <1>1, <1>2, <1>7, <2>2 DEF LinkStates, LinkStatus
    <3>2. m.repeater \in Remote \ Known
      BY <1>4, <1>7, <3>1 DEF Based, SameBase
    <3>3. ~Resolvable
      BY <1>7, <2>1, <3>2 DEF Resolvable, SameBase
    <3> QED
      BY <1>4, <2>2, <3>3 DEF Settled
  <2>3. CASE Side(m, y) /\ y.status \in ReflectorStatus /\ y.repeater = r
    BY <1>2, <2>1, <2>3 DEF Side, Settled, Based, FixedHome, ReflectorStatus, CcsStatus
  <2> QED
    BY <1>0, <1>2, <1>7, <2>1, <2>2, <2>3, ChangeModuleLeads
<1>8. ASSUME NEW x \in UnlinkAll(m, k), r \in Remote, y = LinkInt(x, k, r)
      PROVE  Settled(y, k)
  <2>1. x \in LinkStates /\ Kept(m, k, x)
    BY <1>0, <1>2, UnlinkAllKeeps
  <2>2. Based(x, k)
    <3>1. CASE Steady(m, x)
      BY <1>4, <3>1 DEF Steady, Based
    <3>2. CASE Idle(x)
      BY <3>2, IdleSettled DEF Settled
    <3>3. CASE Led(k, m.repeater, x)
      BY <1>0, <3>3 DEF Led, Based, ReflectorStatus, CcsStatus
    <3> QED
      BY <2>1, <3>1, <3>2, <3>3 DEF Kept
  <2>3. x.startup = r
    BY <1>2, <2>1 DEF Kept, Side
  <2> QED
    BY <1>0, <1>8, <2>1, <2>2, <2>3, LinkIntSettled
<1> QED
  BY <1>3, <1>5, <1>6, <1>7, <1>8

(* Every move keeps the link settled.                                       *)
LEMMA MovedSettled ==
  ASSUME NEW l \in LinkStates, NEW k \in Caches, NEW m, Settled(l, k), Moved(l, k, m)
  PROVE  Settled(m, k)
<1>1. k \in SUBSET Remote
  BY DEF Caches
<1>2. CASE \E x \in UnlinkAll(l, k) : m = NotLinked(x)
  <2>1. PICK x \in UnlinkAll(l, k) : m = NotLinked(x)
    BY <1>2
  <2>2. x \in LinkStates
    BY <1>1, UnlinkAllType
  <2> QED
    BY <2>1, <2>2, NotLinkedEffect, IdleSettled DEF Idle
<1>3. CASE \E c \in RemoteLinks : m \in RemoteLink(l, k, c.mode, c.arg)
  <2>1. PICK c \in RemoteLinks : m \in RemoteLink(l, k, c.mode, c.arg)
    BY <1>3
  <2>2. c.mode \in Reconnect /\ c.arg \in Remote \cup {NoCall}
    BY InputAssumption
  <2> QED
    BY <2>1, <2>2, RemoteLinkSettled
<1>4. CASE \E r \in Remote : m \in RemoteUnlink(l, k, r)
  <2>1. PICK r \in Remote : m \in RemoteUnlink(l, k, r)
    BY <1>4
  <2>2. CASE m = Unlink(l, Proto[r], Remote \ {r})
    BY <2>2, UnlinkEffect, SteadySettled DEF Side, Config, Steady
  <2>3. CASE m \in UnlinkDExtra(l, k, Remote \ {r})
    BY <1>1, <2>3, UnlinkDExtraKeeps, KeptSettled
  <2> QED
    BY <2>1, <2>2, <2>3 DEF RemoteUnlink
<1>5. CASE \E r \in Remote, found \in BOOLEAN : m = ResolveLink(l, r, found)
  <2>1. PICK r \in Remote, found \in BOOLEAN : m = ResolveLink(l, r, found)
    BY <1>5
  <2> DEFINE n == [l EXCEPT !.query = Stopped]
  <2>2. n \in LinkStates /\ Alike(l, n)
    BY QueryType, AlikeFacts
  <2>3. \/ m = l
        \/ /\ l.status = "PENDING" /\ l.repeater = r
           /\ m = [n EXCEPT !.status = "LINKING", !.out = @ \cup {r}]
        \/ m = Inform(NotLinked(n))
    BY <2>1 DEF ResolveLink
  <2> HIDE DEF n
  <2>4. Idle(Inform(NotLinked(n)))
    BY <2>2, NotLinkedType, NotLinkedEffect, AlikeFacts DEF Idle, Alike
  <2>5. ASSUME l.status = "PENDING", l.repeater = r,
               m = [n EXCEPT !.status = "LINKING", !.out = @ \cup {r}]
        PROVE  Settled(m, k)
    <3>1. m.status = "LINKING" /\ m.repeater = n.repeater /\ Config(n, m)
      BY <2>2, <2>5 DEF LinkStates, Config
    <3> QED
      BY <2>2, <2>5, <3>1
      DEF Settled, Based, FixedHome, Fixed, Config, Alike, Side, ReflectorStatus, CcsStatus
  <2> QED
    BY <2>3, <2>4, <2>5, IdleSettled
<1>6. CASE m = NotLinked(l)
  BY <1>6, NotLinkedEffect, IdleSettled DEF Idle
<1> QED
  BY <1>2, <1>3, <1>4, <1>5, <1>6, SoughtSettled, ObjectsSettled, CcsSettled DEF Moved

(* The closed set of the settled links.                                     *)
SettledLinks == [k \in Caches |-> {l \in LinkStates : Settled(l, k)}]

(* The settled links are closed under the moves of a link.                  *)
LEMMA SettledClosed == Closed(SettledLinks)
<1>1. SettledLinks \in [Caches -> SUBSET LinkStates]
  BY DEF SettledLinks
<1>2. ASSUME NEW k \in Caches, NEW l \in SettledLinks[k], NEW m \in LinkStates,
             Alike(l, m) \/ Moved(l, k, m)
      PROVE  m \in SettledLinks[k]
  <2>1. l \in LinkStates /\ Settled(l, k)
    BY DEF SettledLinks
  <2>2. Settled(m, k)
    BY <1>2, <2>1, SteadySettled, MovedSettled DEF Alike, Side, Config, Steady
  <2> QED
    BY <2>2 DEF SettledLinks
<1>3. ASSUME IrcEnabled, NEW k \in Caches, NEW r \in Remote, NEW l \in SettledLinks[k]
      PROVE  l \in SettledLinks[k \cup {r}]
  <2>1. l \in LinkStates /\ Settled(l, k) /\ k \cup {r} \in Caches
    BY DEF SettledLinks, Caches
  <2>2. Settled(l, k \cup {r})
    BY <1>3, <2>1 DEF Settled, Based, Barred
  <2> QED
    BY <2>1, <2>2 DEF SettledLinks
<1> QED
  BY <1>1, <1>2, <1>3 DEF Closed

(* A repeater starts settled.                                               *)
LEMMA FirstSettled ==
  ASSUME NEW s \in Startups
  PROVE  FirstLink(s) \in SettledLinks[Known]
<1> DEFINE l == StartingLink(s)
           m == FirstLink(s)
<1>1. Known \in Caches /\ m \in LinkStates
  BY CallsAssumption, FirstLinkEffect DEF Caches
<1>2. Settled(m, Known)
  <2>1. CASE m = l
    BY <2>1, FirstLinkEffect, IdleSettled DEF Idle
  <2>2. CASE m # l
    BY <2>2, FirstLinkEffect
    DEF Side, Settled, Based, FixedHome, ReflectorStatus, CcsStatus
  <2> QED
    BY <2>1, <2>2
<1> QED
  BY <1>1, <1>2 DEF SettledLinks

(* In every state that can be reached, whatever the constants are, the      *)
(* status of a repeater's link says what the name of the reflector is: a    *)
(* reflector status a remote, a CCS status the CCS peer, a query to ircDDB  *)
(* what no hosts file has.                                                  *)
THEOREM LinkIsSettled == Spec => []Settled(link, cache)
<1> DEFINE Inv == cache \in Caches /\ link \in SettledLinks[cache]
<1>1. Init => Inv
  BY SettledClosed, FirstSettled, LinkStarts
<1>2. Inv /\ [Next]_vars => Inv'
  BY SettledClosed, LinkSteps
<1>3. Inv => Settled(link, cache)
  BY DEF SettledLinks
<1> QED
  BY <1>1, <1>2, <1>3, PTL DEF Spec

(* A repeater whose reconnect mode is Fixed is linked to no reflector but   *)
(* its own, whatever is commanded on the air, by the remote control or by   *)
(* the CCS client (linkInt, unlinkAll,                                      *)
(* CRepeaterHandler::reflectorCommandHandler). Without Resolvable it is     *)
(* false: a change of module that is asked of a link still LS_PENDING is    *)
(* ignored, and the answer then leads to the old module.                    *)
THEOREM FixedStaysHome ==
  ASSUME Resolvable
  PROVE  Spec => []FixedStays
<1>1. Settled(link, cache) => FixedStays
  BY DEF Settled, Based, FixedHome, FixedStays, Linked, ReflectorStatus
<1> QED
  BY <1>1, LinkIsSettled, PTL

-------------------------------------------------------------------------------
(* The remotes of the hosts files are such that only D-Plus reflectors have *)
(* more than one module: no relink to another module (m_linkRelink) is ever *)
(* under way.                                                               *)
SingleModules ==
  \A r, s \in Remote : Base[r] = Base[s] => r = s \/ Proto[r] = "DPLUS"

(* m is l but for its configuration.                                        *)
Untouched(l, m) ==
  /\ Steady(l, m) /\ (Quiet(m) <=> Quiet(l)) /\ m.last = l.last
  /\ m.ccs = l.ccs /\ m.dir = l.dir
  /\ m.out = l.out /\ m.up = l.up /\ m.closing = l.closing

(* What the remote control does next with the record m of the repeater it   *)
(* has configured to go to r.                                               *)
Commanded(m, k, r, y) ==
  \/ y = m
  \/ \E x \in UnlinkAll(m, k) : y = Inform(NotLinked(x))
  \/ /\ m.status # "NONE" /\ r # m.repeater /\ SameBase(m.repeater, r)
     /\ y \in ChangeModule(m, k, r)
  \/ r \in Remote /\ \E x \in UnlinkAll(m, k) : y = LinkInt(x, k, r)

(* CRepeaterHandler::link ends a CCS call first, then configures, then acts. *)
LEMMA RemoteLinkEffect ==
  ASSUME NEW l \in LinkStates, NEW k \in SUBSET Remote, NEW mode \in Reconnect,
         NEW r \in Remote \cup {NoCall}, NEW y \in RemoteLink(l, k, mode, r)
  PROVE  \E m \in LinkStates :
           /\ m.startup = r /\ m.status \notin CcsStatus /\ (Quiet(m) <=> Quiet(l))
           /\ l.status \notin CcsStatus => Untouched(l, m)
           /\ Commanded(m, k, r, y)
<1> DEFINE dropped == [NotLinked(StopLink(l, k)) EXCEPT !.query = Stopped]
           n == IF l.status \in CcsStatus THEN dropped ELSE l
           m == [n EXCEPT !.startup = r, !.mode = mode, !.timed = @ \/ mode = "TIMED",
                          !.reconnect = IF mode = "TIMED" THEN Started ELSE Stopped]
<1>1. /\ n \in LinkStates /\ n.status \notin CcsStatus /\ (Quiet(n) <=> Quiet(l))
      /\ l.status \notin CcsStatus => n = l
  <2> DEFINE s == StopLink(l, k)
  <2>1. s \in LinkStates /\ (Quiet(s) <=> Quiet(l))
    BY StopLinkEffect DEF Near, Back
  <2> HIDE DEF s
  <2>2. /\ NotLinked(s) \in LinkStates /\ Idle(NotLinked(s))
        /\ (Quiet(NotLinked(s)) <=> Quiet(l))
    BY <2>1, NotLinkedType, NotLinkedEffect DEF Idle
  <2>3. [NotLinked(s) EXCEPT !.query = Stopped] \in LinkStates
        /\ Alike(NotLinked(s), [NotLinked(s) EXCEPT !.query = Stopped])
    BY <2>2, QueryType, AlikeFacts
  <2>4. dropped \in LinkStates /\ Idle(dropped) /\ (Quiet(dropped) <=> Quiet(l))
    BY <2>2, <2>3 DEF s, Idle, Alike
  <2> HIDE DEF dropped
  <2> QED
    BY <2>4 DEF Idle, CcsStatus
<1>2. RemoteLink(l, k, mode, r) =
        IF IF m.status = "NONE" THEN r = NoCall ELSE r = m.repeater THEN {m}
        ELSE IF r = NoCall THEN {Inform(NotLinked(x)) : x \in UnlinkAll(m, k)}
        ELSE IF m.status # "NONE" /\ SameBase(m.repeater, r) THEN ChangeModule(m, k, r)
        ELSE {LinkInt(x, k, r) : x \in UnlinkAll(m, k)}
  BY DEF RemoteLink, n
<1> HIDE DEF n
<1>3. m \in LinkStates /\ Untouched(n, m) /\ m.startup = r
  <2>1. (IF mode = "TIMED" THEN Started ELSE Stopped) \in 0..ReconnectTimeout
    BY TimeoutAssumption DEF Started, Stopped
  <2>2. (n.timed \/ mode = "TIMED") \in BOOLEAN
    OBVIOUS
  <2>3. \A t \in BOOLEAN, c \in 0..ReconnectTimeout :
          LET w == [n EXCEPT !.startup = r, !.mode = mode, !.timed = t, !.reconnect = c]
          IN w \in LinkStates /\ Untouched(n, w) /\ w.startup = r
    BY <1>1 DEF LinkStates, Untouched, Steady, Quiet
  <2> QED
    BY <2>1, <2>2, <2>3
<1> HIDE DEF m
<1>4. Commanded(m, k, r, y)
  BY <1>2 DEF Commanded, SameBase
<1> QED
  BY <1>1, <1>3, <1>4 DEF Untouched, Steady

(* Nothing is relinked, and a CCS call has the repeater to itself.          *)
Hushed(l) == Quiet(l) /\ (l.status \in CcsStatus => l.out = {})

(* unlinkAll and then linkInt, or nothing, or a change of D-Plus module.    *)
LEMMA UnlinkAllHushed ==
  ASSUME NEW l \in LinkStates, NEW k \in SUBSET Remote, Quiet(l), NEW x \in UnlinkAll(l, k)
  PROVE  /\ Hushed(NotLinked(x)) /\ Hushed(Inform(NotLinked(x)))
         /\ \A r : Hushed(LinkInt(x, k, r))
<1>1. x \in LinkStates /\ Quiet(x) /\ x.out = {}
  BY UnlinkAllQuiet
<1>2. /\ NotLinked(x) \in LinkStates /\ Quiet(NotLinked(x)) /\ NotLinked(x).out = {}
  BY <1>1, NotLinkedType, NotLinkedEffect
<1>3. Quiet(Inform(NotLinked(x))) /\ Inform(NotLinked(x)).out = {}
  BY <1>2, AlikeFacts DEF Alike
<1>4. ASSUME NEW r
      PROVE  Hushed(LinkInt(x, k, r))
  BY <1>1, LinkIntEffect DEF Linking, Hushed, CcsStatus
<1> QED
  BY <1>2, <1>3, <1>4 DEF Hushed

(* "Just a change of port", of a D-Plus reflector.                          *)
LEMMA PortChangeHushed ==
  ASSUME SingleModules, NEW l \in LinkStates, NEW k \in SUBSET Remote, NEW r \in Remote,
         SameBase(l.repeater, r), l.repeater # r, Hushed(l), NEW m \in ChangeModule(l, k, r)
  PROVE  Hushed(m)
<1> DEFINE n == [l EXCEPT !.repeater = r]
<1>1. Proto[r] = "DPLUS"
  BY CallsAssumption DEF SingleModules, SameBase
<1>2. m = l \/ (l.status \in ReflectorStatus /\ \E x \in Relink(n, r) : m = Inform(x))
  BY <1>1 DEF ChangeModule
<1>3. n \in LinkStates /\ Quiet(n) /\ n.status = l.status
  BY DEF LinkStates, Calls, Hushed, Quiet
<1> HIDE DEF n
<1>4. ASSUME l.status \in ReflectorStatus, NEW x \in Relink(n, r), m = Inform(x)
      PROVE  Hushed(m)
  <2>1. x \in LinkStates /\ Quiet(x) /\ x.status = l.status
    BY <1>1, <1>3, RelinkEffect DEF Steady
  <2>2. Alike(x, m)
    BY <1>4, <2>1, AlikeFacts
  <2> QED
    BY <1>4, <2>1, <2>2 DEF Alike, Hushed, ReflectorStatus, CcsStatus
<1> QED
  BY <1>2, <1>4

(* What the link objects report.                                            *)
LEMMA ObjectsHushed ==
  ASSUME NEW l \in LinkStates, NEW k \in SUBSET Remote, NEW m, Hushed(l), ObjectMoved(l, k, m)
  PROVE  Hushed(m)
<1>1. ASSUME NEW n \in LinkStates, Hushed(n), NEW o
      PROVE  Hushed(LinkFailed(n, k, o))
  BY <1>1, LinkFailedEffect DEF Hushed, Alike, CcsStatus
<1>2. ASSUME NEW n \in LinkStates, Hushed(n), NEW gone
      PROVE  Drop(n, gone) \in LinkStates /\ Hushed(Drop(n, gone))
  BY <1>2, DropType, DropEffect DEF Hushed
<1>3. ASSUME NEW o
      PROVE  Forget(l, o) \in LinkStates /\ Hushed(Forget(l, o))
  BY DEF Forget, LinkStates, Hushed, Quiet
<1>4. ASSUME NEW o \in Remote
      PROVE  Hushed(ObjectUp(l, o))
  BY DEF ObjectUp, LinkUp, Inform, LinkStates, Hushed, Quiet, CcsStatus
<1>5. ASSUME NEW o \in Remote
      PROVE  Hushed(ObjectRefused(l, o))
  <2>1. LinkRefused(l, o) \in LinkStates /\ Hushed(LinkRefused(l, o))
    BY LinkRefusedType DEF LinkRefused, Inform, NotLinked, LinkStates, Hushed, Quiet, CcsStatus
  <2> QED
    BY <1>2, <2>1 DEF ObjectRefused
<1>6. ASSUME NEW o \in Remote
      PROVE  Hushed(ObjectFailed(l, k, o))
  BY <1>1, <1>2, LinkFailedType DEF ObjectFailed
<1>7. ASSUME NEW rest \in LinkStates, Hushed(rest), NEW o
      PROVE  Hushed(ObjectTimedOut(l, rest, o))
  BY <1>7 DEF ObjectTimedOut, LinkStates, Hushed, Quiet, CcsStatus
<1>8. ASSUME NEW o
      PROVE  Hushed(UnlinkAcknowledged(l, k, o))
  BY <1>1, <1>3 DEF UnlinkAcknowledged
<1>9. l.out \in SUBSET Remote /\ l.up \in SUBSET Remote
  BY DEF LinkStates
<1>10. ASSUME NEW o
       PROVE  /\ Hushed(ObjectTimedOut(l, Drop(l, {o}), o))
              /\ Hushed(ObjectTimedOut(l, Forget(l, o), o))
  BY <1>2, <1>3, <1>7
<1> QED
  BY <1>2, <1>3, <1>4, <1>5, <1>6, <1>8, <1>9, <1>10 DEF ObjectMoved

(* Every move of the link.                                                  *)
LEMMA MovedHushed ==
  ASSUME SingleModules, NEW l \in LinkStates, NEW k \in Caches, NEW m, Hushed(l), Moved(l, k, m)
  PROVE  Hushed(m)
<1>1. k \in SUBSET Remote
  BY DEF Caches
<1>2. CASE \E x \in UnlinkAll(l, k) : m = NotLinked(x)
  BY <1>1, <1>2, UnlinkAllHushed DEF Hushed
<1>3. CASE \E r \in Remote : Sought(l, k, r, m)
  <2>1. PICK r \in Remote : Sought(l, k, r, m)
    BY <1>3
  <2>2. CASE \E x \in UnlinkAll(l, k) : m = LinkInt(x, k, r)
    BY <1>1, <2>2, UnlinkAllHushed DEF Hushed
  <2>3. CASE l.status # "NONE" /\ SameBase(l.repeater, r) /\ m \in ChangeModule(l, k, r)
    BY <1>1, <2>1, <2>3, PortChangeHushed DEF Sought
  <2> QED
    BY <2>1, <2>2, <2>3 DEF Sought
<1>4. CASE \E c \in RemoteLinks : m \in RemoteLink(l, k, c.mode, c.arg)
  <2>1. PICK c \in RemoteLinks : m \in RemoteLink(l, k, c.mode, c.arg)
    BY <1>4
  <2>2. c.mode \in Reconnect /\ c.arg \in Remote \cup {NoCall}
    BY InputAssumption
  <2>3. PICK n \in LinkStates : n.status \notin CcsStatus /\ Quiet(n) /\ Commanded(n, k, c.arg, m)
    BY <1>1, <2>1, <2>2, RemoteLinkEffect DEF Hushed
  <2>4. Hushed(n)
    BY <2>3 DEF Hushed
  <2>5. CASE m = n
    BY <2>4, <2>5
  <2>6. CASE \E x \in UnlinkAll(n, k) : m = Inform(NotLinked(x)) \/ m = LinkInt(x, k, c.arg)
    BY <1>1, <2>3, <2>6, UnlinkAllHushed
  <2>7. CASE c.arg # n.repeater /\ SameBase(n.repeater, c.arg) /\ m \in ChangeModule(n, k, c.arg)
    <3>1. c.arg \in Remote
      BY <2>7 DEF SameBase
    <3> QED
      BY <1>1, <2>4, <2>7, <3>1, PortChangeHushed
  <2> QED
    BY <2>3, <2>5, <2>6, <2>7 DEF Commanded
<1>5. CASE \E r \in Remote : m \in RemoteUnlink(l, k, r)
  <2>1. PICK r \in Remote : m \in RemoteUnlink(l, k, r)
    BY <1>5
  <2>2. CASE m = Unlink(l, Proto[r], Remote \ {r})
    BY <2>2, UnlinkEffect DEF Hushed
  <2>3. CASE m \in UnlinkDExtra(l, k, Remote \ {r})
    BY <2>3, UnlinkDExtraQuiet DEF Hushed, CcsStatus
  <2> QED
    BY <2>1, <2>2, <2>3 DEF RemoteUnlink
<1>6. CASE \E r \in Remote, found \in BOOLEAN : m = ResolveLink(l, r, found)
  <2>1. PICK r \in Remote, found \in BOOLEAN : m = ResolveLink(l, r, found)
    BY <1>6
  <2> DEFINE n == [l EXCEPT !.query = Stopped]
  <2>2. n \in LinkStates /\ Alike(l, n)
    BY QueryType, AlikeFacts
  <2>3. \/ m = l
        \/ m = [n EXCEPT !.status = "LINKING", !.out = @ \cup {r}]
        \/ m = Inform(NotLinked(n))
    BY <2>1 DEF ResolveLink
  <2> HIDE DEF n
  <2>4. Hushed([n EXCEPT !.status = "LINKING", !.out = @ \cup {r}])
    BY <2>2 DEF Alike, LinkStates, Hushed, Quiet, CcsStatus
  <2>5. Hushed(Inform(NotLinked(n)))
    BY <2>2, NotLinkedType, NotLinkedEffect, AlikeFacts DEF Alike, Hushed, CcsStatus
  <2> QED
    BY <2>3, <2>4, <2>5
<1>7. CASE m = NotLinked(l)
  BY <1>7, NotLinkedEffect DEF Hushed, CcsStatus
<1>8. CASE CcsMoved(l, k, m)
  BY <1>1, <1>8, CcsMovedEffect
  DEF Near, Called, Suspended, Sent, Steady, Idle, Led, Hushed, CcsStatus
<1> QED
  BY <1>1, <1>2, <1>3, <1>4, <1>5, <1>6, <1>7, <1>8, ObjectsHushed DEF Moved

(* The closed set of the hushed links.                                      *)
HushedLinks == [k \in Caches |-> {l \in LinkStates : Hushed(l)}]

(* The hushed records are closed under the moves of a link.                 *)
LEMMA HushedClosed ==
  ASSUME SingleModules
  PROVE  Closed(HushedLinks)
<1>1. HushedLinks \in [Caches -> SUBSET LinkStates]
  BY DEF HushedLinks
<1>2. ASSUME NEW k \in Caches, NEW l \in HushedLinks[k], NEW m \in LinkStates,
             Alike(l, m) \/ Moved(l, k, m)
      PROVE  m \in HushedLinks[k]
  <2>1. l \in LinkStates /\ Hushed(l)
    BY DEF HushedLinks
  <2>2. Hushed(m)
    BY <1>2, <2>1, MovedHushed DEF Alike, Hushed
  <2> QED
    BY <2>2 DEF HushedLinks
<1>3. \A k \in Caches, r \in Remote : HushedLinks[k] \subseteq HushedLinks[k \cup {r}]
  BY DEF HushedLinks, Caches
<1> QED
  BY <1>1, <1>2, <1>3 DEF Closed

(* A repeater starts hushed.                                                *)
LEMMA FirstHushed ==
  ASSUME NEW s \in Startups
  PROVE  FirstLink(s) \in HushedLinks[Known]
<1>1. Known \in Caches
  BY CallsAssumption DEF Caches
<1>2. /\ FirstLink(s) \in LinkStates /\ Quiet(FirstLink(s))
      /\ FirstLink(s).status \notin CcsStatus
  BY FirstLinkEffect DEF CcsStatus
<1> QED
  BY <1>1, <1>2 DEF HushedLinks, Hushed

(* While a CCS call is set up or made, no reflector link carries the        *)
(* repeater's traffic as well (CcsAlone of LinkProperties.tla), whatever    *)
(* the commands, the far ends and the timers do.                            *)
THEOREM CcsCallAlone ==
  ASSUME SingleModules
  PROVE  Spec => []CcsAlone
<1> DEFINE Inv == cache \in Caches /\ link \in HushedLinks[cache]
<1>1. Init => Inv
  BY HushedClosed, FirstHushed, LinkStarts
<1>2. Inv /\ [Next]_vars => Inv'
  BY HushedClosed, LinkSteps
<1>3. Inv => CcsAlone
  BY DEF HushedLinks, Hushed, CcsAlone
<1> QED
  BY <1>1, <1>2, <1>3, PTL DEF Spec

-------------------------------------------------------------------------------
(* What one step may make of a call: it goes on, or its end restores the    *)
(* link it suspended.                                                       *)
OnOrBack(l, k, m) == m \in LinkStates /\ (m.status \in CcsStatus \/ Back(l, k, m))

(* Timers and announcements do not change that.                             *)
LEMMA OnOrBackAlike ==
  ASSUME NEW l, NEW k, NEW m \in LinkStates, NEW n \in LinkStates,
         OnOrBack(l, k, m), Alike(m, n)
  PROVE  OnOrBack(l, k, n)
BY DEF OnOrBack, Alike, Side, Back, Config, Idle, Led

(* A command on the air ends the call or is ignored.                        *)
LEMMA AirCommandBack ==
  ASSUME NEW l \in LinkStates, NEW k \in SUBSET Remote, NEW n \in LinkStates,
         l.status = "LINKED_CCS", Alike(l, n), cache = k,
         NEW y, NEW m \in AirCommand(n, y)
  PROVE  OnOrBack(l, k, m)
<1>1. n.status = "LINKED_CCS"
  BY DEF Alike
<1>2. m = n \/ \E cmd : m \in CcsCommand(n, k, cmd)
  BY <1>1 DEF AirCommand, ReflectorCommand, Ignores, CcsStatus
<1>3. m \in LinkStates
  BY <1>2, CcsCommandType
<1>4. m = n \/ Near(n, m) \/ Called(n, m) \/ Back(n, k, m)
  BY <1>1, <1>2, CcsMovedBack DEF CcsMoved
<1>5. ASSUME Back(n, k, m)
      PROVE  Back(l, k, m)
  BY <1>5 DEF Back, Alike, Side, Config, Fixed
<1> QED
  BY <1>1, <1>3, <1>4, <1>5 DEF OnOrBack, Near, Called, Steady, CcsStatus

(* Alike is transitive, as far as timers and announcements go.              *)
LEMMA StillAlike ==
  ASSUME NEW l \in LinkStates, NEW n \in LinkStates, Alike(l, n)
  PROVE  /\ Alike(l, Inform(n)) /\ Alike(l, StartReconnect(n))
         /\ \A t : Alike(l, [n EXCEPT !.query = t])
         /\ \A t : Alike(l, [n EXCEPT !.reconnect = t])
<1>1. ASSUME NEW p, Alike(n, p)
      PROVE  Alike(l, p)
  BY <1>1 DEF Alike, Side
<1> QED
  BY <1>1, AlikeFacts

(* What the radio does.                                                     *)
LEMMA RadioBack ==
  ASSUME NEW l \in LinkStates, NEW k \in SUBSET Remote,
         link = l, cache = k, l.status = "LINKED_CCS", Radio
  PROVE  OnOrBack(l, k, link')
<1>1. OnOrBack(l, k, l)
  BY DEF OnOrBack, CcsStatus
<1>2. ASSUME NEW m \in LinkStates, OnOrBack(l, k, m), SetLink(m)
      PROVE  OnOrBack(l, k, link')
  <2>1. [m EXCEPT !.info = FALSE] \in LinkStates
    BY DEF LinkStates
  <2> QED
    BY <1>2, <2>1, AlikeFacts, OnOrBackAlike DEF SetLink
<1>3. HeaderLink \in LinkStates /\ Alike(l, HeaderLink)
  <2>1. StartReconnect(l) \in LinkStates /\ Alike(l, StartReconnect(l))
    BY StartReconnectType, AlikeFacts
  <2>2. HeaderLink = StartReconnect(l) \/ HeaderLink = [StartReconnect(l) EXCEPT !.query = Stopped]
    BY <2>1 DEF HeaderLink, LinkStates
  <2>3. [StartReconnect(l) EXCEPT !.query = Stopped] \in LinkStates
    BY <2>1, QueryType
  <2> QED
    BY <2>1, <2>2, <2>3, StillAlike
<1>4. ASSUME NEW n \in LinkStates, Alike(l, n), NEW y, NEW m \in AirCommand(n, y)
      PROVE  m \in LinkStates /\ OnOrBack(l, k, m)
  BY <1>4, AirCommandBack DEF OnOrBack
<1>5. ASSUME NEW n \in LinkStates, Alike(l, n)
      PROVE  OnOrBack(l, k, n)
  BY <1>1, <1>5, OnOrBackAlike
<1>6. CASE RepeaterHeader
  <2>1. \/ UNCHANGED link
        \/ SetLink(HeaderLink)
        \/ SetLink([HeaderLink EXCEPT !.query = Started])
        \/ \E y : \E m \in AirCommand(HeaderLink, y) : SetLink(m)
    BY <1>6 DEF RepeaterHeader, BusyMessage, DirectHeader, StarNetHeader, PlainHeader,
                RestrictedHeader, CommandHeader, RouteHeader
  <2>2. /\ [HeaderLink EXCEPT !.query = Started] \in LinkStates
        /\ Alike(l, [HeaderLink EXCEPT !.query = Started])
    BY <1>3, QueryType, StillAlike
  <2> QED
    BY <1>1, <1>2, <1>3, <1>4, <1>5, <2>1, <2>2
<1>7. CASE RepeaterFrame
  <2>1. PICK y : \E m \in Dialled(StartReconnect(l), y) :
                   SetLink(EndLookup(m, g2Status)) \/ SetLink(m)
    BY <1>7 DEF RepeaterFrame
  <2>2. PICK m \in Dialled(StartReconnect(l), y) :
          SetLink(EndLookup(m, g2Status)) \/ SetLink(m)
    BY <2>1
  <2>3. StartReconnect(l) \in LinkStates /\ Alike(l, StartReconnect(l))
    BY StartReconnectType, AlikeFacts
  <2>4. m \in LinkStates /\ OnOrBack(l, k, m)
    BY <1>4, <1>5, <2>2, <2>3 DEF Dialled
  <2>5. EndLookup(m, g2Status) \in LinkStates /\ OnOrBack(l, k, EndLookup(m, g2Status))
    BY <2>4, QueryType, AlikeFacts, OnOrBackAlike DEF EndLookup
  <2> QED
    BY <1>2, <2>2, <2>4, <2>5
<1>8. CASE BusyHeader \/ BusyFrame
  <2>1. PICK y, m : m \in {l} \cup AirCommand(l, y) /\ SetLink(m)
    BY <1>8 DEF BusyHeader, BusyFrame, Dialled
  <2>2. m \in LinkStates /\ OnOrBack(l, k, m)
    BY <1>1, <1>4, <2>1, AlikeFacts
  <2> QED
    BY <1>2, <2>1, <2>2
<1> QED
  BY <1>6, <1>7, <1>8 DEF Radio

(* What a link object reports during a call, which has none of its own.     *)
LEMMA ObjectsBack ==
  ASSUME NEW l \in LinkStates, NEW k \in SUBSET Remote, l.status = "LINKED_CCS",
         Hushed(l), l.repeater = CcsPeer, NEW m \in LinkStates, ObjectMoved(l, k, m)
  PROVE  m.status \in CcsStatus
<1>0. /\ l.out = {} /\ Quiet(l) /\ l.up \in SUBSET Remote /\ l.closing \in SUBSET Remote
      /\ CcsPeer \notin Remote
  BY CallsAssumption DEF Hushed, CcsStatus, LinkStates
<1>1. ASSUME NEW n \in LinkStates, n.status = l.status, n.repeater = l.repeater, Quiet(n),
             NEW o \in Remote
      PROVE  LinkFailed(n, k, o).status = l.status
  BY <1>0, <1>1, LinkFailedEffect DEF Alike
<1>2. ASSUME NEW o
      PROVE  /\ Drop(l, {o}) \in LinkStates /\ Drop(l, {o}).status = l.status
             /\ Drop(l, {o}).repeater = l.repeater /\ Quiet(Drop(l, {o}))
             /\ Forget(l, o) \in LinkStates /\ Forget(l, o).status = l.status
             /\ Forget(l, o).repeater = l.repeater /\ Quiet(Forget(l, o))
  <2>1. /\ Drop(l, {o}) \in LinkStates /\ Drop(l, {o}).status = l.status
        /\ Drop(l, {o}).repeater = l.repeater /\ Quiet(Drop(l, {o}))
    BY <1>0, DropType, DropEffect
  <2> QED
    BY <1>0, <2>1 DEF Forget, LinkStates, Quiet
<1>3. ASSUME NEW o \in Remote
      PROVE  ObjectFailed(l, k, o).status = l.status
  <2>1. LinkFailed(l, k, o) \in LinkStates /\ LinkFailed(l, k, o).status = l.status
    BY <1>0, <1>1, LinkFailedType
  <2>2. Drop(LinkFailed(l, k, o), {o}).status = l.status
    BY <2>1, DropEffect
  <2>3. LinkFailed(Drop(l, {o}), k, o).status = l.status
    BY <1>1, <1>2
  <2> QED
    BY <2>2, <2>3 DEF ObjectFailed
<1>4. ASSUME NEW o
      PROVE  ObjectTimedOut(l, Forget(l, o), o) = Forget(l, o)
  BY DEF ObjectTimedOut, ReflectorStatus
<1>5. ASSUME NEW o \in Remote
      PROVE  UnlinkAcknowledged(l, k, o).status = l.status
  BY <1>1, <1>2 DEF UnlinkAcknowledged
<1>6. m.status = l.status
  <2>1. \/ \E o \in l.up : m = ObjectFailed(l, k, o)
        \/ \E o : m = Drop(l, {o})
        \/ \E o \in l.closing : \/ m = Forget(l, o)
                                \/ m = ObjectTimedOut(l, Forget(l, o), o)
                                \/ m = UnlinkAcknowledged(l, k, o)
    BY <1>0 DEF ObjectMoved
  <2>2. CASE \E o \in l.up : m = ObjectFailed(l, k, o)
    BY <1>0, <1>3, <2>2
  <2>3. CASE \E o : m = Drop(l, {o})
    BY <1>2, <2>3
  <2>4. CASE \E o \in l.closing : m = UnlinkAcknowledged(l, k, o)
    BY <1>0, <1>5, <2>4
  <2>5. CASE \E o : m = Forget(l, o) \/ m = ObjectTimedOut(l, Forget(l, o), o)
    BY <1>2, <1>4, <2>5
  <2> QED
    BY <2>1, <2>2, <2>3, <2>4, <2>5
<1> QED
  BY <1>6 DEF CcsStatus

(* What the network does, the remote control's command to link aside.       *)
LEMMA NetworkBack ==
  ASSUME NEW l \in LinkStates, NEW k \in SUBSET Remote,
         link = l, cache = k, l.status = "LINKED_CCS", Hushed(l), l.repeater = CcsPeer,
         Network, ~RemoteLinked
  PROVE  OnOrBack(l, k, link')
<1>1. ASSUME NEW m \in LinkStates, OnOrBack(l, k, m), SetLink(m)
      PROVE  OnOrBack(l, k, link')
  <2>1. [m EXCEPT !.info = FALSE] \in LinkStates
    BY DEF LinkStates
  <2> QED
    BY <1>1, <2>1, AlikeFacts, OnOrBackAlike DEF SetLink
<1>2. ASSUME NEW m \in LinkStates, CcsMoved(l, k, m)
      PROVE  OnOrBack(l, k, m)
  BY <1>2, CcsMovedBack DEF OnOrBack, Near, Called, Steady, CcsStatus
<1>3. ASSUME NEW m \in LinkStates, ObjectMoved(l, k, m)
      PROVE  OnOrBack(l, k, m)
  BY <1>3, ObjectsBack DEF OnOrBack
<1>4. OnOrBack(l, k, l)
  BY DEF OnOrBack, CcsStatus
<1>5. l.out \in SUBSET Remote /\ l.up \in SUBSET Remote /\ l.closing \in SUBSET Remote
  BY DEF LinkStates
<1>6. CASE IrcUser
  BY <1>4, <1>6 DEF IrcUser
<1>7. CASE IrcRepeater
  <2>1. PICK r, found, n : /\ n \in {l, [l EXCEPT !.query = Stopped]}
                           /\ SetLink(ResolveLink(n, r, found))
    BY <1>7 DEF IrcRepeater
  <2>2. n \in LinkStates /\ Alike(l, n)
    BY <2>1, QueryType, AlikeFacts
  <2>3. ResolveLink(n, r, found) = n
    BY <2>2 DEF ResolveLink, Alike
  <2> QED
    BY <1>1, <1>4, <2>1, <2>2, <2>3, OnOrBackAlike
<1>8. CASE RemoteUnlinked
  <2>1. PICK r, m : r \in Remote /\ m \in RemoteUnlink(l, k, r) /\ SetLink(m)
    BY <1>8 DEF RemoteUnlinked, LinkChange
  <2>2. m \in LinkStates
    BY <2>1, RemoteUnlinkType
  <2>3. m.status = l.status
    <3>1. CASE m = Unlink(l, Proto[r], Remote \ {r})
      BY <3>1, UnlinkEffect
    <3>2. CASE m \in UnlinkDExtra(l, k, Remote \ {r})
      BY <3>2 DEF UnlinkDExtra, Hushed, CcsStatus
    <3> QED
      BY <2>1, <3>1, <3>2 DEF RemoteUnlink
  <2> QED
    BY <1>1, <2>1, <2>2, <2>3 DEF OnOrBack, CcsStatus
<1>9. CASE RemoteUnlinkedCcs \/ CcsEnds
  <2>1. StopLink(l, k) \in LinkStates /\ CcsMoved(l, k, StopLink(l, k))
    BY StopLinkType DEF CcsMoved
  <2> QED
    BY <1>1, <1>2, <1>9, <2>1 DEF RemoteUnlinkedCcs, CcsEnds, LinkChange
<1>10. CASE LinkAcknowledged \/ LinkRefusal \/ LinkDisconnected \/ LinkUnlinked
  <2>1. PICK o, m :
          /\ o \in Remote /\ SetLink(m) /\ ObjectMoved(l, k, m)
          /\ m \in {ObjectUp(l, o), ObjectRefused(l, o), ObjectFailed(l, k, o),
                    UnlinkAcknowledged(l, k, o)}
    BY <1>5, <1>10 DEF LinkAcknowledged, LinkRefusal, LinkDisconnected, LinkUnlinked,
                       ObjectMoved, LinkChange
  <2> QED
    BY <1>1, <1>3, <2>1, ObjectTypes
<1>11. CASE LinkDropped
  <2>1. PICK o, m : o \in Remote /\ SetLink(m) /\ m \in {Drop(l, {o}), Forget(l, o)}
    BY <1>5, <1>11 DEF LinkDropped, LinkChange
  <2>2. m \in LinkStates /\ m.status = l.status
    BY <2>1, DropType, DropEffect, ObjectTypes DEF Forget, LinkStates
  <2> QED
    BY <1>1, <2>1, <2>2 DEF OnOrBack, CcsStatus
<1>12. CASE LinkTimedOut
  <2>1. PICK o, m :
          /\ o \in Remote /\ SetLink(m) /\ ObjectMoved(l, k, m)
          /\ m \in {ObjectTimedOut(l, Drop(l, {o}), o), ObjectTimedOut(l, Forget(l, o), o)}
    BY <1>5, <1>12 DEF LinkTimedOut, ObjectMoved, LinkChange
  <2>2. /\ ObjectTimedOut(l, Drop(l, {o}), o) \in LinkStates
        /\ ObjectTimedOut(l, Forget(l, o), o) \in LinkStates
    BY <2>1, ObjectTypes, DropType, ObjectTimedOutType
  <2> QED
    BY <1>1, <1>3, <2>1, <2>2
<1>13. CASE CcsAnswers \/ CcsCall \/ CcsFound \/ CcsUnknown \/ CcsSilent
  <2>1. PICK m : /\ SetLink(m) /\ CcsMoved(l, k, m)
                 /\ \/ m \in IncomingCall(l, k) \cup DtmfFound(l, k)
                    \/ m = DtmfNotFound(l, k) \/ m = PollInactivity(l, k)
                    \/ \E ack \in BOOLEAN : m = ServerAnswers(l, ack)
    BY <1>13 DEF CcsAnswers, CcsCall, CcsFound, CcsUnknown, CcsSilent, LinkChange, CcsMoved
  <2>2. m \in LinkStates
    BY <2>1, ServerTypes
  <2> QED
    BY <1>1, <1>2, <2>1, <2>2
<1> QED
  BY <1>6, <1>7, <1>8, <1>9, <1>10, <1>11, <1>12, <1>13 DEF Network

(* What the clock does while the reconnect timer stands still.              *)
LEMMA ClockBack ==
  ASSUME NEW l \in LinkStates, NEW k \in SUBSET Remote,
         link = l, cache = k, l.status = "LINKED_CCS", ~IsRunning(l.reconnect), Clock
  PROVE  OnOrBack(l, k, link')
<1> DEFINE t == Ticked(l)
<1>1. t \in LinkStates /\ t.status = l.status /\ t.reconnect = 0
  <2>1. t \in LinkStates
    BY TickedType
  <2>2. l.reconnect = 0
    BY TimeoutAssumption DEF LinkStates, IsRunning
  <2> QED
    BY <2>1, <2>2 DEF Ticked, LinkStates, Tick, IsRunning
<1>2. ~MustReconnect(t)
  BY <1>1 DEF MustReconnect, HasExpired
<1>3. LinkQueryExpired(t, k) = [t EXCEPT !.query = Stopped]
  BY <1>1 DEF LinkQueryExpired
<1>4. PICK n : /\ n \in {t, [t EXCEPT !.query = Stopped]}
               /\ SetLink(n) \/ SetLink([n EXCEPT !.query = Stopped])
  <2>1. ClockRuns(t)
    BY <1>2 DEF Clock, ClockReturns
  <2> HIDE DEF t
  <2> QED
    BY <1>2, <1>3, <2>1 DEF ClockRuns, EndLookup
<1> HIDE DEF t
<1>5. [t EXCEPT !.query = Stopped] \in LinkStates /\ n \in LinkStates
      /\ [n EXCEPT !.query = Stopped] \in LinkStates
  <2>1. [t EXCEPT !.query = Stopped] \in LinkStates
    BY <1>1, QueryType
  <2>2. n \in LinkStates
    BY <1>1, <1>4, <2>1
  <2> QED
    BY <2>1, <2>2, QueryType
<1>6. link' \in LinkStates /\ link'.status = l.status
  <2>1. n.status = l.status
    BY <1>1, <1>4 DEF LinkStates
  <2>2. \E p \in LinkStates : p.status = l.status /\ SetLink(p)
    <3>1. [n EXCEPT !.query = Stopped].status = l.status
      BY <1>5, <2>1 DEF LinkStates
    <3> QED
      BY <1>4, <1>5, <2>1, <3>1
  <2> QED
    BY <2>2 DEF SetLink, LinkStates
<1> QED
  BY <1>6 DEF OnOrBack, CcsStatus

(* The gateway can look up and link to whatever a call may have suspended.  *)
Reachable == Reflectors \subseteq Known /\ Disabled = {} /\ IrcEnabled

(* When a CCS call ends, however it ends, the link it suspended is sought   *)
(* again (CallRestores of LinkProperties.tla).                              *)
THEOREM CallEndRestores ==
  ASSUME SingleModules, Reachable
  PROVE  Spec => CallRestores
<1> DEFINE Inv == /\ cache \in Caches /\ link \in HushedLinks[cache]
                  /\ link \in SettledLinks[cache]
<1>1. Init => Inv
  BY HushedClosed, FirstHushed, SettledClosed, FirstSettled, LinkStarts
<1>2. Inv /\ [Next]_vars => Inv'
  BY HushedClosed, SettledClosed, LinkSteps
<1>3. Inv /\ [Next]_vars =>
        [ /\ link.status = "LINKED_CCS" /\ link.last # NoCall /\ ~IsRunning(link.reconnect)
          /\ link'.status \notin CcsStatus /\ ~RemoteLinked
          => Restored ]_vars
  <2> SUFFICES ASSUME Inv, Next, link.status = "LINKED_CCS", link.last # NoCall,
                      ~IsRunning(link.reconnect), link'.status \notin CcsStatus, ~RemoteLinked
               PROVE  Restored
    OBVIOUS
  <2>1. /\ link \in LinkStates /\ Hushed(link) /\ link.repeater = CcsPeer
        /\ cache \in SUBSET Remote /\ Known \subseteq cache
    BY DEF HushedLinks, SettledLinks, Settled, Based, Caches, CcsStatus
  <2>2. OnOrBack(link, cache, link')
    BY <2>1, RadioBack, NetworkBack, ClockBack DEF Next
  <2>3. Back(link, cache, link')
    BY <2>2 DEF OnOrBack
  <2> QED
    BY <2>1, <2>3 DEF Back, Led, Barred, Reachable, Restored, ReflectorStatus
<1> QED
  BY <1>1, <1>2, <1>3, PTL DEF Spec, CallRestores

-------------------------------------------------------------------------------
(* Only a CCS call that goes on is left of a move that starts none, and the *)
(* link it suspended is not touched.                                        *)
Uncalled(l, m) == m.status \in CcsStatus => l.status \in CcsStatus /\ m.last = l.last

(* A repeater in a call is to come back to where it was.                    *)
Remembers(l, m) == m.status \in CcsStatus => m.last = ToRestore(l)

(* What starts no call forgets no link.                                     *)
LEMMA UncalledRemembers ==
  ASSUME NEW l, NEW m, Uncalled(l, m)
  PROVE  Remembers(l, m)
BY DEF Uncalled, Remembers, ToRestore, CcsStatus, ReflectorStatus

(* Neither unlinkAll nor what follows it starts a call.                     *)
LEMMA UnlinkAllUncalled ==
  ASSUME NEW l \in LinkStates, NEW k \in SUBSET Remote, NEW x \in UnlinkAll(l, k)
  PROVE  /\ Uncalled(l, NotLinked(x)) /\ Uncalled(l, Inform(NotLinked(x)))
         /\ \A r : Uncalled(l, LinkInt(x, k, r))
<1>1. x \in LinkStates /\ Uncalled(l, x)
  BY UnlinkAllKeeps DEF Kept, Side, Steady, Idle, Led, Uncalled, CcsStatus
<1>2. NotLinked(x) \in LinkStates /\ Idle(NotLinked(x))
  BY <1>1, NotLinkedType, NotLinkedEffect DEF Idle
<1>3. Idle(Inform(NotLinked(x)))
  BY <1>2, AlikeFacts DEF Alike, Idle
<1>4. ASSUME NEW r
      PROVE  Uncalled(l, LinkInt(x, k, r))
  BY <1>1, LinkIntLeads DEF Side, Steady, Led, Uncalled, CcsStatus
<1> QED
  BY <1>2, <1>3, <1>4 DEF Idle, Uncalled, CcsStatus

(* Nor does a change of module.                                             *)
LEMMA ChangeModuleUncalled ==
  ASSUME NEW l \in LinkStates, NEW k \in SUBSET Remote, NEW r \in Remote,
         NEW x \in ChangeModule(l, k, r)
  PROVE  Uncalled(l, x)
BY ChangeModuleLeads DEF Uncalled, CcsStatus, ReflectorStatus

(* Nor does anything the link objects report.                               *)
LEMMA ObjectsUncalled ==
  ASSUME NEW l \in LinkStates, NEW k \in SUBSET Remote, NEW m, ObjectMoved(l, k, m)
  PROVE  Uncalled(l, m)
<1>0. l.out \in SUBSET Remote /\ l.up \in SUBSET Remote
  BY DEF LinkStates
<1>1. ASSUME NEW n \in LinkStates, Uncalled(l, n), NEW o
      PROVE  Uncalled(l, LinkFailed(n, k, o))
  BY <1>1, LinkFailedKeeps DEF Kept, Side, Steady, Idle, Led, Uncalled, CcsStatus
<1>2. ASSUME NEW n \in LinkStates, Uncalled(l, n), NEW gone
      PROVE  Drop(n, gone) \in LinkStates /\ Uncalled(l, Drop(n, gone))
  BY <1>2, DropType, DropEffect DEF Side, Uncalled
<1>3. Uncalled(l, l)
  BY DEF Uncalled
<1>4. ASSUME NEW o
      PROVE  Forget(l, o) \in LinkStates /\ Uncalled(l, Forget(l, o))
  BY DEF Forget, LinkStates, Uncalled
<1>5. ASSUME NEW o \in Remote
      PROVE  Uncalled(l, ObjectUp(l, o))
  BY DEF ObjectUp, LinkUp, Inform, LinkStates, Uncalled, CcsStatus
<1>6. ASSUME NEW o \in Remote
      PROVE  Uncalled(l, ObjectRefused(l, o))
  <2>1. LinkRefused(l, o) \in LinkStates /\ Uncalled(l, LinkRefused(l, o))
    BY LinkRefusedType DEF LinkRefused, Inform, NotLinked, LinkStates, Uncalled, CcsStatus
  <2> QED
    BY <1>2, <2>1 DEF ObjectRefused
<1>7. ASSUME NEW o \in Remote
      PROVE  Uncalled(l, ObjectFailed(l, k, o))
  BY <1>1, <1>2, <1>3, LinkFailedType DEF ObjectFailed
<1>8. ASSUME NEW rest \in LinkStates, Uncalled(l, rest), NEW o
      PROVE  Uncalled(l, ObjectTimedOut(l, rest, o))
  BY <1>8 DEF ObjectTimedOut, LinkStates, Uncalled, CcsStatus
<1>9. ASSUME NEW o
      PROVE  Uncalled(l, UnlinkAcknowledged(l, k, o))
  BY <1>1, <1>4 DEF UnlinkAcknowledged
<1>10. ASSUME NEW o
       PROVE  /\ Uncalled(l, ObjectTimedOut(l, Drop(l, {o}), o))
              /\ Uncalled(l, ObjectTimedOut(l, Forget(l, o), o))
  BY <1>2, <1>3, <1>4, <1>8
<1> QED
  BY <1>0, <1>2, <1>3, <1>4, <1>5, <1>6, <1>7, <1>9, <1>10 DEF ObjectMoved

(* Every move of the link leaves a call the link to restore.                *)
LEMMA MovedRemembers ==
  ASSUME NEW l \in LinkStates, NEW k \in Caches, NEW m, Moved(l, k, m)
  PROVE  Remembers(l, m)
<1>1. k \in SUBSET Remote
  BY DEF Caches
<1>2. CASE \E x \in UnlinkAll(l, k) : m = NotLinked(x)
  BY <1>1, <1>2, UnlinkAllUncalled, UncalledRemembers
<1>3. CASE \E r \in Remote : Sought(l, k, r, m)
  <2>1. PICK r \in Remote : Sought(l, k, r, m)
    BY <1>3
  <2>2. m \in ChangeModule(l, k, r) \/ \E x \in UnlinkAll(l, k) : m = LinkInt(x, k, r)
    BY <2>1 DEF Sought
  <2> QED
    BY <1>1, <2>2, ChangeModuleUncalled, UnlinkAllUncalled, UncalledRemembers
<1>4. CASE \E c \in RemoteLinks : m \in RemoteLink(l, k, c.mode, c.arg)
  <2>1. PICK c \in RemoteLinks : m \in RemoteLink(l, k, c.mode, c.arg)
    BY <1>4
  <2>2. c.mode \in Reconnect /\ c.arg \in Remote \cup {NoCall}
    BY InputAssumption
  <2>3. PICK n \in LinkStates : n.status \notin CcsStatus /\ Commanded(n, k, c.arg, m)
    BY <1>1, <2>1, <2>2, RemoteLinkEffect
  <2>4. ASSUME m \in ChangeModule(n, k, c.arg), SameBase(n.repeater, c.arg)
        PROVE  Uncalled(n, m)
    <3>1. c.arg \in Remote
      BY <2>4 DEF SameBase
    <3> QED
      BY <1>1, <2>4, <3>1, ChangeModuleUncalled
  <2>5. Uncalled(n, m)
    <3>1. CASE m = n
      BY <3>1 DEF Uncalled
    <3> QED
      BY <1>1, <2>3, <2>4, <3>1, UnlinkAllUncalled DEF Commanded
  <2> QED
    BY <2>3, <2>5 DEF Uncalled, Remembers
<1>5. CASE \E r \in Remote : m \in RemoteUnlink(l, k, r)
  <2>1. PICK r \in Remote : m \in RemoteUnlink(l, k, r)
    BY <1>5
  <2>2. CASE m = Unlink(l, Proto[r], Remote \ {r})
    BY <2>2, UnlinkEffect, UncalledRemembers DEF Side, Uncalled
  <2>3. CASE m \in UnlinkDExtra(l, k, Remote \ {r})
    <3>1. Kept(l, k, m)
      BY <1>1, <2>3, UnlinkDExtraKeeps
    <3>2. Uncalled(l, m)
      BY <3>1 DEF Kept, Side, Steady, Idle, Led, Uncalled, CcsStatus
    <3> QED
      BY <3>2, UncalledRemembers
  <2>4. CASE m = l
    BY <2>4, UncalledRemembers DEF Uncalled
  <2> QED
    BY <2>1, <2>2, <2>3, <2>4 DEF RemoteUnlink
<1>6. CASE \E r \in Remote, found \in BOOLEAN : m = ResolveLink(l, r, found)
  <2>1. PICK r \in Remote, found \in BOOLEAN : m = ResolveLink(l, r, found)
    BY <1>6
  <2> DEFINE n == [l EXCEPT !.query = Stopped]
  <2>2. n \in LinkStates
    BY QueryType
  <2>3. \/ m = l
        \/ m = [n EXCEPT !.status = "LINKING", !.out = @ \cup {r}]
        \/ m = Inform(NotLinked(n))
    BY <2>1 DEF ResolveLink
  <2> HIDE DEF n
  <2>4. Uncalled(l, [n EXCEPT !.status = "LINKING", !.out = @ \cup {r}])
    BY <2>2 DEF LinkStates, Uncalled, CcsStatus
  <2>5. Uncalled(l, Inform(NotLinked(n)))
    BY <2>2, NotLinkedType, NotLinkedEffect, AlikeFacts DEF Alike, Uncalled, CcsStatus
  <2>6. Uncalled(l, l)
    BY DEF Uncalled
  <2> QED
    BY <2>3, <2>4, <2>5, <2>6, UncalledRemembers
<1>7. CASE m = NotLinked(l)
  BY <1>7, NotLinkedEffect DEF Remembers, CcsStatus
<1>8. CASE CcsMoved(l, k, m)
  <2>1. Near(l, m) => Uncalled(l, m)
    BY DEF Near, Steady, Uncalled
  <2>2. Called(l, m) => Remembers(l, m)
    BY DEF Called, Suspended, Remembers
  <2>3. Back(l, k, m) \/ Sent(l, k, m) => m.status \notin CcsStatus
    BY DEF Back, Sent, Idle, Led, CcsStatus
  <2> QED
    BY <1>1, <1>8, <2>1, <2>2, <2>3, CcsMovedBack, UncalledRemembers DEF Remembers
<1>9. CASE ObjectMoved(l, k, m)
  BY <1>1, <1>9, ObjectsUncalled, UncalledRemembers
<1> QED
  BY <1>2, <1>3, <1>4, <1>5, <1>6, <1>7, <1>8, <1>9 DEF Moved

(* The query time-out leaves no call.                                       *)
LEMMA GivesUpUncalled ==
  ASSUME NEW l \in LinkStates, NEW k \in SUBSET Remote, NEW m, GivesUp(l, k, m)
  PROVE  m.status \notin CcsStatus
<1>1. CASE m = NotLinked(l)
  BY <1>1, NotLinkedEffect DEF CcsStatus
<1>2. CASE m = RestoreLinks(NotLinked(StopLink(l, k)), k)
  <2> DEFINE n == NotLinked(StopLink(l, k))
  <2>1. n \in LinkStates /\ Idle(n)
    BY StopLinkType, NotLinkedType, NotLinkedEffect DEF Idle
  <2> HIDE DEF n
  <2>2. Back(n, k, m)
    BY <1>2, <2>1, RestoreLinksEffect DEF n
  <2> QED
    BY <2>2 DEF Back, Idle, Led, CcsStatus
<1> QED
  BY <1>1, <1>2 DEF GivesUp

(* The records that differ from l in timers and announcements, and those    *)
(* that remember what l has to come back to.                                *)
AlikeLinks(l) == [k \in Caches |-> {m \in LinkStates : Alike(l, m)}]
RememberingLinks(l) == [k \in Caches |-> {m \in LinkStates : Remembers(l, m)}]

(* One step leads from the former to the latter.                            *)
LEMMA RemembersLeads ==
  ASSUME NEW l \in LinkStates
  PROVE  Leads(AlikeLinks(l), RememberingLinks(l))
<1> DEFINE S == AlikeLinks(l)
           T == RememberingLinks(l)
<1>1. S \in [Caches -> SUBSET LinkStates] /\ T \in [Caches -> SUBSET LinkStates]
  BY DEF AlikeLinks, RememberingLinks
<1>2. \A k \in Caches : S[k] = {m \in LinkStates : Alike(l, m)}
                        /\ T[k] = {m \in LinkStates : Remembers(l, m)}
  BY DEF AlikeLinks, RememberingLinks
<1> HIDE DEF S, T
<1>3. ASSUME NEW n, NEW m, Alike(l, n), Alike(n, m)
      PROVE  Alike(l, m)
  BY <1>3 DEF Alike, Side
<1>4. ASSUME NEW m, Alike(l, m)
      PROVE  Remembers(l, m) /\ ToRestore(m) = ToRestore(l)
  BY <1>4 DEF Alike, Side, Remembers, ToRestore, CcsStatus, ReflectorStatus
<1>5. ASSUME NEW k \in Caches, NEW n \in LinkStates, NEW m, Alike(l, n), Moved(n, k, m)
      PROVE  Remembers(l, m)
  BY <1>4, <1>5, MovedRemembers DEF Remembers
<1>6. ASSUME NEW n \in LinkStates, NEW m, Remembers(l, n), Alike(n, m)
      PROVE  Remembers(l, m)
  BY <1>6 DEF Remembers, Alike, Side
<1>7. ASSUME NEW k \in Caches, NEW n \in LinkStates, NEW m, GivesUp(n, k, m)
      PROVE  Remembers(l, m)
  BY <1>7, GivesUpUncalled DEF Remembers, Caches
<1>8. \A k \in Caches, r \in Remote : (k \cup {r}) \in Caches
  BY DEF Caches
<1>9. \A k \in Caches : S[k] \subseteq T[k]
  BY <1>2, <1>4
<1>10. \A k \in Caches : \A n \in S[k], m \in LinkStates :
         (Alike(n, m) => m \in S[k]) /\ (Moved(n, k, m) => m \in T[k])
  BY <1>2, <1>3, <1>5
<1>11. \A k \in Caches : \A n \in T[k], m \in LinkStates :
         Alike(n, m) \/ GivesUp(n, k, m) => m \in T[k]
  BY <1>2, <1>6, <1>7
<1>12. \A k \in Caches, r \in Remote : T[k] \subseteq T[k \cup {r}]
  BY <1>2, <1>8
<1>13. Leads(S, T)
  BY <1>1, <1>9, <1>10, <1>11, <1>12 DEF Leads
<1> QED
  BY <1>13 DEF S, T

(* The cache only grows.                                                    *)
LEMMA CachesStay == Spec => []((link \in LinkStates) /\ cache \in Caches)
<1> DEFINE Inv == cache \in Caches /\ link \in SettledLinks[cache]
<1>1. Init => Inv
  BY SettledClosed, FirstSettled, LinkStarts
<1>2. Inv /\ [Next]_vars => Inv'
  BY SettledClosed, LinkSteps
<1>3. Inv => (link \in LinkStates) /\ cache \in Caches
  BY DEF SettledLinks
<1> QED
  BY <1>1, <1>2, <1>3, PTL DEF Spec

(* Every step into or during a CCS call leaves the link that the call       *)
(* suspended as the one to restore, however often suspendLinks runs         *)
(* (Remembered of LinkProperties.tla).                                      *)
THEOREM SuspendedIsRemembered == Spec => Remembered
<1>1. ASSUME link \in LinkStates, cache \in Caches, [Next]_vars
      PROVE  Remembers(link, link')
  <2>1. Leads(AlikeLinks(link), RememberingLinks(link))
    BY <1>1, RemembersLeads
  <2>2. link \in AlikeLinks(link)[cache]
    BY <1>1, AlikeFacts DEF AlikeLinks
  <2>3. cache' \in Caches /\ link' \in RememberingLinks(link)[cache']
    BY <1>1, <2>1, <2>2, LinkLeads
  <2> QED
    BY <2>3 DEF RememberingLinks
<1>2. (link \in LinkStates /\ cache \in Caches) /\ [Next]_vars =>
        [ link'.status \in CcsStatus
          => link'.last = IF Linked THEN link.repeater ELSE link.last ]_vars
  BY <1>1 DEF Remembers, ToRestore, Linked
<1> QED
  BY <1>2, CachesStay, PTL DEF Spec, Remembered

-------------------------------------------------------------------------------
(* No repeater of this gateway is a client of a CCS server.                 *)
NoCcs == \A s \in Startups : ~s.ccs

(* What is kept keeps what it is based on.                                  *)
LEMMA KeptBased ==
  ASSUME NEW l \in LinkStates, NEW k \in Caches, NEW m, Based(l, k), Kept(l, k, m)
  PROVE  Based(m, k)
<1>1. k \in SUBSET Remote /\ Known \subseteq k
  BY DEF Caches
<1>2. CASE Steady(l, m)
  BY <1>2 DEF Steady, Based
<1>3. CASE Idle(m)
  BY <1>3, IdleSettled DEF Settled
<1>4. CASE Led(k, l.repeater, m)
  BY <1>1, <1>4 DEF Led, Based, ReflectorStatus, CcsStatus
<1> QED
  BY <1>2, <1>3, <1>4 DEF Kept

\* the repeater neither makes nor takes calls
Callless(l) == l.ccs = "DISABLED" /\ l.status \notin CcsStatus

(* One DCS link at most, and none but the one the repeater is linked to.    *)
SingleDcs(l) ==
  /\ Callless(l)
  /\ \A a, b \in l.out : Proto[a] = "DCS" /\ Proto[b] = "DCS" => a = b
  /\ l.status \in ReflectorStatus /\ Proto[l.repeater] = "DCS" =>
       \A o \in l.out : Proto[o] = "DCS" => o = l.repeater

(* Fewer links, and the same status or none.                                *)
LEMMA FewerDcs ==
  ASSUME NEW l, NEW m, SingleDcs(l), m.ccs = l.ccs, Steady(l, m) \/ Idle(m),
         \A o \in m.out : Proto[o] = "DCS" => o \in l.out
  PROVE  SingleDcs(m)
BY DEF SingleDcs, Callless, Steady, Idle, ReflectorStatus, CcsStatus

(* linkInt when there is no DCS link.                                       *)
LEMMA LinkIntDcs ==
  ASSUME NEW l \in LinkStates, NEW k \in SUBSET Remote, NEW r, Callless(l),
         \A o \in l.out : Proto[o] # "DCS"
  PROVE  SingleDcs(LinkInt(l, k, r))
<1> DEFINE m == LinkInt(l, k, r)
<1>1. Linking(l, k, r, m)
  BY LinkIntEffect
<1> HIDE DEF m
<1>2. m.ccs = l.ccs /\ m.status \notin CcsStatus
  BY <1>1 DEF Linking, Side, Callless, CcsStatus
<1>3. ASSUME m.status = "LINKING", m.repeater = r, m.out = AddObject(l.out, r)
      PROVE  SingleDcs(m)
  BY <1>2, <1>3 DEF AddObject, SingleDcs, Callless
<1>4. ASSUME m.out = l.out
      PROVE  SingleDcs(m)
  BY <1>2, <1>4 DEF SingleDcs, Callless
<1> QED
  BY <1>1, <1>3, <1>4 DEF Linking, m

(* linkFailed, which may link to another module.                            *)
LEMMA LinkFailedDcs ==
  ASSUME NEW l \in LinkStates, NEW k \in Caches, NEW o, Based(l, k), SingleDcs(l)
  PROVE  SingleDcs(LinkFailed(l, k, o))
<1> DEFINE m == LinkFailed(l, k, o)
<1>1. CASE Quiet(l)
  <2>1. m.out = l.out /\ Side(l, m) /\ (Alike(l, m) \/ Idle(m))
    BY <1>1, LinkFailedEffect DEF Idle
  <2> HIDE DEF m
  <2>2. SingleDcs(m)
    BY <2>1, FewerDcs DEF Side, Alike, Steady
  <2> QED
    BY <2>2 DEF m
<1>2. CASE ~Quiet(l)
  <2>1. Linking(l, k, l.repeater, m)
    BY <1>2, LinkFailedEffect
  <2> HIDE DEF m
  <2>2. Callless(m) /\ k \in SUBSET Remote /\ Known \subseteq k
    BY <2>1 DEF Linking, Side, SingleDcs, Callless, CcsStatus, Caches
  <2>3. ASSUME l.repeater \in k \ Disabled, m.status = "LINKING",
               m.repeater = l.repeater, m.out = AddObject(l.out, l.repeater)
        PROVE  SingleDcs(m)
    <3>1. CASE Proto[l.repeater] # "DCS"
      BY <2>2, <2>3, <3>1 DEF AddObject, SingleDcs
    <3>2. CASE Proto[l.repeater] = "DCS"
      <4>1. l.repeater \in Known /\ l.status \in LinkStatus
        BY <2>2, <2>3, <3>2, CallsAssumption DEF LinkStates
      <4>2. l.status # "NONE" /\ l.status # "PENDING" /\ l.status \notin CcsStatus
        BY <2>2, <2>3, <4>1 DEF Based, Barred, SingleDcs, Callless
      <4>3. l.status \in ReflectorStatus
        BY <4>1, <4>2 DEF LinkStatus
      <4> QED
        BY <2>2, <2>3, <3>2, <4>3 DEF AddObject, SingleDcs
    <3> QED
      BY <3>1, <3>2
  <2>4. ASSUME m.status \notin ReflectorStatus, m.out = l.out
        PROVE  SingleDcs(m)
    BY <2>2, <2>4 DEF SingleDcs
  <2>5. ASSUME m.status = l.status, m.repeater = l.repeater, m.out = l.out
        PROVE  SingleDcs(m)
    BY <2>2, <2>5 DEF SingleDcs
  <2>6. SingleDcs(m)
    BY <2>1, <2>3, <2>4, <2>5 DEF Linking, ReflectorStatus
  <2> QED
    BY <2>6 DEF m
<1> QED
  BY <1>1, <1>2

(* unlink of DExtra links, each of which calls linkFailed.                  *)
LEMMA UnlinkDExtraDcs ==
  ASSUME NEW l \in LinkStates, NEW k \in Caches, NEW kept, Based(l, k), SingleDcs(l),
         NEW x \in UnlinkDExtra(l, k, kept)
  PROVE  SingleDcs(x)
<1>0. k \in SUBSET Remote
  BY DEF Caches
<1>1. ASSUME NEW n \in LinkStates, Based(n, k), SingleDcs(n), NEW gone
      PROVE  /\ Drop(n, gone) \in LinkStates /\ Based(Drop(n, gone), k)
             /\ SingleDcs(Drop(n, gone))
  <2> DEFINE d == Drop(n, gone)
  <2>1. d \in LinkStates /\ Side(n, d) /\ Steady(n, d) /\ d.out = n.out \ gone
    BY DropType, DropEffect DEF Steady
  <2> HIDE DEF d
  <2>2. Based(d, k) /\ SingleDcs(d)
    BY <1>1, <2>1, FewerDcs DEF Steady, Based, Side
  <2> QED
    BY <2>1, <2>2 DEF d
<1>2. ASSUME NEW n \in LinkStates, Based(n, k), SingleDcs(n), NEW o
      PROVE  /\ LinkFailed(n, k, o) \in LinkStates /\ Based(LinkFailed(n, k, o), k)
             /\ SingleDcs(LinkFailed(n, k, o))
  BY <1>0, <1>2, LinkFailedType, LinkFailedKeeps, KeptBased, LinkFailedDcs
<1> DEFINE gone == {o \in l.out \ kept : Proto[o] = "DEXTRA"}
           m == Drop(l, gone)
           y == LinkFailed(m, k, l.repeater)
           n == Drop(y, {l.repeater})
           z == LinkFailed(n, k, l.repeater)
<1>3. x = l \/ x = m \/ x = y \/ x = z
  BY DEF UnlinkDExtra
<1>4. m \in LinkStates /\ Based(m, k) /\ SingleDcs(m)
  BY <1>1
<1> HIDE DEF m
<1>5. y \in LinkStates /\ Based(y, k) /\ SingleDcs(y)
  BY <1>2, <1>4
<1> HIDE DEF y
<1>6. n \in LinkStates /\ Based(n, k) /\ SingleDcs(n)
  BY <1>1, <1>5
<1> HIDE DEF n
<1>7. SingleDcs(z)
  BY <1>2, <1>6
<1> QED
  BY <1>3, <1>4, <1>5, <1>7

(* Without a CCS server nothing comes from the CCS client.                  *)
LEMMA CalllessStill ==
  ASSUME NEW l, NEW k, NEW m, Callless(l), CcsMoved(l, k, m)
  PROVE  m = l
<1>1. StopLink(l, k) = l /\ \A cmd : CcsCommand(l, k, cmd) = {l}
  BY DEF StopLink, CcsCommand, Callless
<1> QED
  BY <1>1 DEF CcsMoved, Callless, CcsStatus

(* What the link objects report.                                            *)
LEMMA ObjectsDcs ==
  ASSUME NEW l \in LinkStates, NEW k \in Caches, NEW m,
         Based(l, k), SingleDcs(l), ObjectMoved(l, k, m)
  PROVE  SingleDcs(m)
<1>0. k \in SUBSET Remote /\ l.out \in SUBSET Remote /\ l.up \in SUBSET Remote
  BY DEF Caches, LinkStates
<1>1. ASSUME NEW n \in LinkStates, SingleDcs(n), NEW gone
      PROVE  /\ Drop(n, gone) \in LinkStates /\ SingleDcs(Drop(n, gone))
             /\ Based(n, k) => Based(Drop(n, gone), k)
  <2> DEFINE d == Drop(n, gone)
  <2>1. d \in LinkStates /\ Side(n, d) /\ Steady(n, d) /\ d.out = n.out \ gone
    BY DropType, DropEffect DEF Steady
  <2> HIDE DEF d
  <2>2. SingleDcs(d) /\ (Based(n, k) => Based(d, k))
    BY <1>1, <2>1, FewerDcs DEF Steady, Based, Side
  <2> QED
    BY <2>1, <2>2 DEF d
<1>2. ASSUME NEW o
      PROVE  /\ Forget(l, o) \in LinkStates /\ Steady(l, Forget(l, o))
             /\ Forget(l, o).out = l.out /\ Forget(l, o).ccs = l.ccs
             /\ SingleDcs(Forget(l, o)) /\ Based(Forget(l, o), k)
  <2> DEFINE f == Forget(l, o)
  <2>1. f \in LinkStates /\ Steady(l, f) /\ f.out = l.out /\ f.ccs = l.ccs
    BY DEF Forget, LinkStates, Steady
  <2> HIDE DEF f
  <2>2. SingleDcs(f) /\ Based(f, k)
    BY <2>1, FewerDcs DEF Steady, Based
  <2> QED
    BY <2>1, <2>2 DEF f
<1>3. ASSUME NEW o \in Remote, m = ObjectUp(l, o)
      PROVE  SingleDcs(m)
  <2>1. /\ m.ccs = l.ccs /\ m.out = l.out /\ m.repeater = l.repeater
        /\ m.status = l.status \/ (l.status = "LINKING" /\ m.status = "LINKED")
    BY <1>3 DEF ObjectUp, LinkUp, Inform, LinkStates
  <2> QED
    BY <2>1 DEF SingleDcs, Callless, ReflectorStatus, CcsStatus
<1>4. ASSUME NEW o \in Remote, m = ObjectRefused(l, o)
      PROVE  SingleDcs(m)
  <2> DEFINE n == LinkRefused(l, o)
  <2>1. n \in LinkStates /\ n.ccs = l.ccs /\ n.out = l.out /\ (Steady(l, n) \/ Idle(n))
    BY LinkRefusedType DEF LinkRefused, Inform, NotLinked, LinkStates, Steady, Idle
  <2>2. m = Drop(n, {o})
    BY <1>4 DEF ObjectRefused
  <2> HIDE DEF n
  <2>3. SingleDcs(n)
    BY <2>1, FewerDcs
  <2> QED
    BY <1>1, <2>1, <2>2, <2>3
<1>5. ASSUME NEW o \in Remote, m = ObjectFailed(l, k, o)
      PROVE  SingleDcs(m)
  <2>1. SingleDcs(LinkFailed(l, k, o)) /\ LinkFailed(l, k, o) \in LinkStates
    BY <1>0, LinkFailedDcs, LinkFailedType
  <2>2. SingleDcs(Drop(LinkFailed(l, k, o), {o}))
    BY <1>1, <2>1
  <2>3. SingleDcs(LinkFailed(Drop(l, {o}), k, o))
    BY <1>1, LinkFailedDcs
  <2> QED
    BY <1>5, <2>2, <2>3 DEF ObjectFailed
<1>6. ASSUME NEW rest \in LinkStates, SingleDcs(rest), Steady(l, rest), rest.out \subseteq l.out,
             NEW o, m = ObjectTimedOut(l, rest, o)
      PROVE  SingleDcs(m)
  <2>1. CASE l.status \in ReflectorStatus /\ l.repeater = o
    <3>1. /\ m.status = "LINKING" /\ m.repeater = o /\ m.ccs = rest.ccs
          /\ m.out = rest.out \cup {o}
      BY <1>6, <2>1 DEF ObjectTimedOut, LinkStates, Steady
    <3> QED
      BY <1>6, <2>1, <3>1 DEF SingleDcs, Callless, CcsStatus
  <2>2. CASE ~(l.status \in ReflectorStatus /\ l.repeater = o)
    BY <1>6, <2>2 DEF ObjectTimedOut
  <2> QED
    BY <2>1, <2>2
<1>7. ASSUME NEW o, m = Drop(l, {o}) \/ m = ObjectTimedOut(l, Drop(l, {o}), o)
      PROVE  SingleDcs(m)
  <2>1. /\ Drop(l, {o}) \in LinkStates /\ SingleDcs(Drop(l, {o})) /\ Steady(l, Drop(l, {o}))
        /\ Drop(l, {o}).out \subseteq l.out
    BY <1>1, DropEffect DEF Steady
  <2> QED
    BY <1>6, <1>7, <2>1
<1>8. ASSUME NEW o, m = Forget(l, o) \/ m = ObjectTimedOut(l, Forget(l, o), o)
      PROVE  SingleDcs(m)
  BY <1>2, <1>6, <1>8
<1>9. ASSUME NEW o, m = UnlinkAcknowledged(l, k, o)
      PROVE  SingleDcs(m)
  BY <1>2, <1>9, LinkFailedDcs DEF UnlinkAcknowledged
<1> QED
  BY <1>0, <1>3, <1>4, <1>5, <1>7, <1>8, <1>9 DEF ObjectMoved

(* "Just a change of port": the other DCS modules are unlinked before the   *)
(* new one is linked to.                                                    *)
LEMMA ChangeModuleDcs ==
  ASSUME NEW l \in LinkStates, NEW k \in Caches, NEW r \in Remote, SameBase(l.repeater, r),
         Based(l, k), SingleDcs(l), NEW m \in ChangeModule(l, k, r)
  PROVE  SingleDcs(m)
<1> DEFINE p == [l EXCEPT !.repeater = r]
           n == [p EXCEPT !.relink = TRUE]
<1>0. /\ k \in SUBSET Remote /\ Proto[l.repeater] = Proto[r]
      /\ Proto[r] \in {"DEXTRA", "DPLUS", "DCS"} /\ l.out \in SUBSET Remote
  BY CallsAssumption DEF Caches, SameBase, Protocols, LinkStates
<1>1. /\ p \in LinkStates /\ p.repeater = r /\ p.status = l.status /\ p.out = l.out
      /\ p.ccs = l.ccs
      /\ n \in LinkStates /\ n.repeater = r /\ n.status = l.status /\ n.out = l.out
      /\ n.ccs = l.ccs
  BY DEF LinkStates, Calls
<1>2. \/ m = l
      \/ l.status \in ReflectorStatus /\ Proto[r] = "DPLUS" /\ \E x \in Relink(p, r) : m = Inform(x)
      \/ /\ l.status \in ReflectorStatus /\ Proto[r] = "DCS"
         /\ m = Inform([Unlink(n, "DCS", {r}) EXCEPT !.status = "LINKING"])
      \/ /\ l.status \in ReflectorStatus /\ Proto[r] # "DPLUS" /\ Proto[r] # "DCS"
         /\ \E x \in UnlinkDExtra(n, k, {r}) : m = Inform([x EXCEPT !.status = "LINKING"])
  BY DEF ChangeModule
<1> HIDE DEF p, n
<1>3. ASSUME l.status \in ReflectorStatus, Proto[r] = "DPLUS", NEW x \in Relink(p, r), m = Inform(x)
      PROVE  SingleDcs(m)
  <2>1. /\ x \in LinkStates /\ Side(p, x) /\ Steady(p, x)
        /\ \A o \in Remote : Proto[o] # "DPLUS" => (o \in x.out <=> o \in p.out)
    BY <1>1, <1>3, RelinkEffect
  <2>2. Alike(x, m) /\ x.out \in SUBSET Remote
    BY <1>3, <2>1, AlikeFacts DEF LinkStates
  <2>3. /\ m.ccs = l.ccs /\ m.status = l.status /\ m.repeater = r
        /\ \A o \in m.out : Proto[o] = "DCS" => o \in l.out
    BY <1>1, <2>1, <2>2 DEF Alike, Side, Steady
  <2> QED
    BY <1>3, <2>3 DEF SingleDcs, Callless
<1>4. ASSUME NEW x \in LinkStates, m = Inform([x EXCEPT !.status = "LINKING"])
      PROVE  /\ m.status = "LINKING" /\ m.repeater = x.repeater /\ m.out = x.out
             /\ m.ccs = x.ccs
  BY <1>4 DEF Inform, LinkStates
<1>5. ASSUME l.status \in ReflectorStatus, Proto[r] = "DCS",
             m = Inform([Unlink(n, "DCS", {r}) EXCEPT !.status = "LINKING"])
      PROVE  SingleDcs(m)
  <2> DEFINE x == Unlink(n, "DCS", {r})
  <2>1. /\ x \in LinkStates /\ Side(n, x) /\ x.repeater = r
        /\ x.out = n.out \ Gone(n, "DCS", {r})
    BY <1>1, UnlinkEffect
  <2>2. m = Inform([x EXCEPT !.status = "LINKING"])
    BY <1>5
  <2> HIDE DEF x
  <2>3. /\ m.status = "LINKING" /\ m.repeater = r /\ m.ccs = l.ccs
        /\ \A o \in m.out : Proto[o] = "DCS" => o = r
    BY <1>1, <1>4, <2>1, <2>2 DEF Side, Gone
  <2> QED
    BY <2>3 DEF SingleDcs, Callless, CcsStatus
<1>6. ASSUME l.status \in ReflectorStatus, Proto[r] # "DPLUS", Proto[r] # "DCS",
             NEW x \in UnlinkDExtra(n, k, {r}), m = Inform([x EXCEPT !.status = "LINKING"])
      PROVE  SingleDcs(m)
  <2>1. Based(n, k)
    BY <1>1, <1>6 DEF Based, ReflectorStatus, CcsStatus
  <2>2. SingleDcs(n)
    BY <1>0, <1>1, <1>6 DEF SingleDcs, Callless
  <2>3. x \in LinkStates /\ SingleDcs(x)
    BY <1>0, <1>1, <1>6, <2>1, <2>2, UnlinkDExtraDcs, UnlinkDExtraType
  <2>4. m.repeater = r
    BY <1>0, <1>1, <1>6, ChangeModuleLeads DEF ReflectorStatus
  <2>5. m.status = "LINKING" /\ m.out = x.out /\ m.ccs = x.ccs
    BY <1>4, <1>6, <2>3
  <2> QED
    BY <1>6, <2>3, <2>4, <2>5 DEF SingleDcs, Callless, CcsStatus
<1> QED
  BY <1>2, <1>3, <1>5, <1>6

(* unlinkAll, and what may follow it.                                       *)
LEMMA UnlinkAllDcs ==
  ASSUME NEW l \in LinkStates, NEW k \in SUBSET Remote, Callless(l), NEW x \in UnlinkAll(l, k)
  PROVE  /\ SingleDcs(NotLinked(x)) /\ SingleDcs(Inform(NotLinked(x)))
         /\ \A r : SingleDcs(LinkInt(x, k, r))
<1>1. x \in LinkStates /\ Kept(l, k, x) /\ \A o \in x.out : Proto[o] # "DCS"
  BY UnlinkAllKeeps
<1>2. Callless(x)
  BY <1>1 DEF Kept, Side, Steady, Idle, Led, Callless, CcsStatus
<1>3. /\ NotLinked(x) \in LinkStates /\ Side(x, NotLinked(x)) /\ NotLinked(x).out = x.out
      /\ NotLinked(x).status = "NONE"
  BY <1>1, NotLinkedType, NotLinkedEffect
<1>4. SingleDcs(NotLinked(x))
  BY <1>1, <1>2, <1>3 DEF Side, SingleDcs, Callless, ReflectorStatus, CcsStatus
<1>5. SingleDcs(Inform(NotLinked(x)))
  BY <1>3, <1>4, AlikeFacts, FewerDcs DEF Alike, Side, Steady
<1> QED
  BY <1>1, <1>2, <1>4, <1>5, LinkIntDcs

(* Every move of the link of a repeater that is no client of a CCS server.  *)
LEMMA MovedDcs ==
  ASSUME NEW l \in LinkStates, NEW k \in Caches, NEW m,
         Based(l, k), SingleDcs(l), Moved(l, k, m)
  PROVE  SingleDcs(m)
<1>0. k \in SUBSET Remote /\ Callless(l)
  BY DEF Caches, SingleDcs
<1>1. CASE \E x \in UnlinkAll(l, k) : m = NotLinked(x)
  BY <1>0, <1>1, UnlinkAllDcs
<1>2. CASE \E r \in Remote : Sought(l, k, r, m)
  BY <1>0, <1>2, UnlinkAllDcs, ChangeModuleDcs DEF Sought
<1>3. CASE \E c \in RemoteLinks : m \in RemoteLink(l, k, c.mode, c.arg)
  <2>1. PICK c \in RemoteLinks : m \in RemoteLink(l, k, c.mode, c.arg)
    BY <1>3
  <2>2. c.mode \in Reconnect /\ c.arg \in Remote \cup {NoCall}
    BY InputAssumption
  <2>3. PICK n \in LinkStates : Untouched(l, n) /\ Commanded(n, k, c.arg, m)
    BY <1>0, <2>1, <2>2, RemoteLinkEffect DEF Callless
  <2>4. SingleDcs(n) /\ Callless(n) /\ Based(n, k)
    BY <2>3, FewerDcs DEF Untouched, Steady, Based, SingleDcs
  <2>5. CASE \E x \in UnlinkAll(n, k) : m = Inform(NotLinked(x)) \/ m = LinkInt(x, k, c.arg)
    BY <1>0, <2>4, <2>5, UnlinkAllDcs
  <2>6. CASE SameBase(n.repeater, c.arg) /\ m \in ChangeModule(n, k, c.arg)
    <3>1. c.arg \in Remote
      BY <2>6 DEF SameBase
    <3> QED
      BY <2>4, <2>6, <3>1, ChangeModuleDcs
  <2> QED
    BY <2>3, <2>4, <2>5, <2>6 DEF Commanded
<1>4. CASE \E r \in Remote : m \in RemoteUnlink(l, k, r)
  <2>1. PICK r \in Remote : m \in RemoteUnlink(l, k, r)
    BY <1>4
  <2>2. CASE m = Unlink(l, Proto[r], Remote \ {r})
    <3>1. /\ Side(l, m) /\ Steady(l, m) /\ m.out \subseteq l.out
      BY <2>2, UnlinkEffect DEF Steady
    <3> QED
      BY <3>1, FewerDcs DEF Side
  <2>3. CASE m \in UnlinkDExtra(l, k, Remote \ {r})
    BY <2>3, UnlinkDExtraDcs
  <2> QED
    BY <2>1, <2>2, <2>3 DEF RemoteUnlink
<1>5. CASE \E r \in Remote, found \in BOOLEAN : m = ResolveLink(l, r, found)
  <2>1. PICK r \in Remote, found \in BOOLEAN : m = ResolveLink(l, r, found)
    BY <1>5
  <2> DEFINE n == [l EXCEPT !.query = Stopped]
  <2>2. n \in LinkStates /\ Alike(l, n)
    BY QueryType, AlikeFacts
  <2>3. \/ m = l
        \/ /\ l.status = "PENDING" /\ l.repeater = r
           /\ m = [n EXCEPT !.status = "LINKING", !.out = @ \cup {r}]
        \/ m = Inform(NotLinked(n))
    BY <2>1 DEF ResolveLink
  <2> HIDE DEF n
  <2>4. ASSUME l.status = "PENDING", l.repeater = r,
               m = [n EXCEPT !.status = "LINKING", !.out = @ \cup {r}]
        PROVE  SingleDcs(m)
    <3>1. Proto[r] = "DEXTRA"
      BY <2>4, CallsAssumption DEF Based
    <3>2. /\ m.status = "LINKING" /\ m.repeater = r /\ m.out = l.out \cup {r} /\ m.ccs = l.ccs
      BY <2>2, <2>4 DEF Alike, Side, LinkStates
    <3> QED
      BY <3>1, <3>2 DEF SingleDcs, Callless, CcsStatus
  <2>5. ASSUME m = Inform(NotLinked(n))
        PROVE  SingleDcs(m)
    <3>1. /\ NotLinked(n) \in LinkStates /\ Side(n, NotLinked(n)) /\ Idle(NotLinked(n))
          /\ NotLinked(n).out = n.out
      BY <2>2, NotLinkedType, NotLinkedEffect DEF Idle
    <3>2. Alike(NotLinked(n), m)
      BY <2>5, <3>1, AlikeFacts
    <3>3. m.ccs = l.ccs /\ Idle(m) /\ m.out = l.out
      BY <2>2, <3>1, <3>2 DEF Alike, Side, Idle
    <3> QED
      BY <3>3, FewerDcs
  <2> QED
    BY <2>3, <2>4, <2>5
<1>6. CASE m = NotLinked(l)
  BY <1>6, NotLinkedEffect, FewerDcs DEF Side, Idle
<1> QED
  BY <1>0, <1>1, <1>2, <1>3, <1>4, <1>5, <1>6, ObjectsDcs, CalllessStill DEF Moved

(* The closed set of the links with one DCS object at most.                 *)
SingleDcsLinks == [k \in Caches |-> {l \in LinkStates : Settled(l, k) /\ SingleDcs(l)}]

(* The records with a single DCS link are closed under the moves of a link. *)
LEMMA SingleDcsClosed == Closed(SingleDcsLinks)
<1>1. SingleDcsLinks \in [Caches -> SUBSET LinkStates]
  BY DEF SingleDcsLinks
<1>2. ASSUME NEW k \in Caches, NEW l \in SingleDcsLinks[k], NEW m \in LinkStates,
             Alike(l, m) \/ Moved(l, k, m)
      PROVE  m \in SingleDcsLinks[k]
  <2>1. l \in LinkStates /\ Settled(l, k) /\ SingleDcs(l) /\ Based(l, k)
    BY DEF SingleDcsLinks, Settled
  <2>2. CASE Alike(l, m)
    <3>1. Settled(m, k) /\ SingleDcs(m)
      BY <2>1, <2>2, SteadySettled, FewerDcs DEF Alike, Side, Config, Steady
    <3> QED
      BY <3>1 DEF SingleDcsLinks
  <2>3. CASE Moved(l, k, m)
    <3>1. Settled(m, k) /\ SingleDcs(m)
      BY <2>1, <2>3, MovedSettled, MovedDcs
    <3> QED
      BY <3>1 DEF SingleDcsLinks
  <2> QED
    BY <1>2, <2>2, <2>3
<1>3. ASSUME IrcEnabled, NEW k \in Caches, NEW r \in Remote, NEW l \in SingleDcsLinks[k]
      PROVE  l \in SingleDcsLinks[k \cup {r}]
  <2>1. l \in LinkStates /\ Settled(l, k) /\ SingleDcs(l) /\ k \cup {r} \in Caches
    BY DEF SingleDcsLinks, Caches
  <2>2. Settled(l, k \cup {r})
    BY <1>3, <2>1 DEF Settled, Based, Barred
  <2> QED
    BY <2>1, <2>2 DEF SingleDcsLinks
<1> QED
  BY <1>1, <1>2, <1>3 DEF Closed

(* A repeater that is no client of a CCS server starts there.               *)
LEMMA FirstSingleDcs ==
  ASSUME NoCcs, NEW s \in Startups
  PROVE  FirstLink(s) \in SingleDcsLinks[Known]
<1> DEFINE m == FirstLink(s)
           l == StartingLink(s)
<1>1. Known \in Caches /\ m \in LinkStates /\ Settled(m, Known)
  BY CallsAssumption, FirstSettled DEF Caches, SettledLinks
<1>2. SingleDcs(l)
  BY FirstLinkEffect DEF NoCcs, SingleDcs, Callless, CcsStatus
<1>3. ASSUME m # l
      PROVE  SingleDcs(m)
  <2>1. /\ Side(l, m)
        /\ m.status \in {"LINKING", "PENDING", "NONE"}
        /\ m.out = {} \/ (m.repeater = l.startup /\ m.out = AddObject({}, l.startup))
    BY <1>3, FirstLinkEffect
  <2> HIDE DEF l, m
  <2> QED
    BY <1>2, <2>1 DEF Side, SingleDcs, Callless, CcsStatus, AddObject
<1> QED
  BY <1>1, <1>2, <1>3 DEF SingleDcsLinks

(* A repeater of a gateway without CCS is in one DCS reflector at a time    *)
(* (OneDcs of LinkProperties.tla), whatever modules are asked for.          *)
THEOREM OneDcsAtATime ==
  ASSUME NoCcs
  PROVE  Spec => []OneDcs
<1> DEFINE Inv == cache \in Caches /\ link \in SingleDcsLinks[cache]
<1>1. Init => Inv
  BY SingleDcsClosed, FirstSingleDcs, LinkStarts
<1>2. Inv /\ [Next]_vars => Inv'
  BY SingleDcsClosed, LinkSteps
<1>3. Inv => OneDcs
  BY DEF SingleDcsLinks, SingleDcs, OneDcs
<1> QED
  BY <1>1, <1>2, <1>3, PTL DEF Spec

-------------------------------------------------------------------------------
(* The DExtra links of a repeater are what it believes: none but the one it *)
(* is linked, or linking, to, and that one up when it says so.              *)
Whole(l) ==
  /\ Quiet(l) /\ Callless(l)
  /\ \A o \in l.out : Proto[o] = "DEXTRA" => l.status \in ReflectorStatus /\ o = l.repeater
  /\ l.status = "LINKED" /\ Proto[l.repeater] = "DEXTRA" => l.repeater \in l.up
  /\ l.up \subseteq l.out
  /\ \A o \in l.closing : Proto[o] # "DEXTRA"

(* The same link with some object gone that is not the DExtra one.          *)
LEMMA FewerWhole ==
  ASSUME NEW l, NEW m, NEW gone, Whole(l), Side(l, m), Quiet(m), Steady(l, m),
         m.out = l.out \ gone, m.up = l.up \ gone,
         \A o \in m.closing : Proto[o] # "DEXTRA",
         l.status = "LINKED" /\ Proto[l.repeater] = "DEXTRA" => l.repeater \notin gone
  PROVE  Whole(m)
BY DEF Whole, Callless, Side, Steady

(* No link at all, or none of DExtra.                                       *)
LEMMA IdleWhole ==
  ASSUME NEW m, Quiet(m), m.ccs = "DISABLED", Idle(m), m.up \subseteq m.out,
         \A o \in m.out \cup m.closing : Proto[o] # "DEXTRA"
  PROVE  Whole(m)
BY DEF Whole, Callless, Idle, CcsStatus

(* unlinkAll, and what may follow it.                                       *)
LEMMA UnlinkAllWhole ==
  ASSUME NEW l \in LinkStates, NEW k \in SUBSET Remote, Whole(l), NEW x \in UnlinkAll(l, k)
  PROVE  /\ Whole(NotLinked(x)) /\ Whole(Inform(NotLinked(x)))
         /\ \A r : Whole(LinkInt(x, k, r))
<1>1. /\ x \in LinkStates /\ Side(l, x) /\ Quiet(x) /\ x.out = {} /\ x.up = {}
      /\ Callless(x) /\ \A o \in x.closing : Proto[o] # "DEXTRA"
      /\ x.status = "LINKED" => Proto[x.repeater] # "DEXTRA"
  <2>1. /\ x \in LinkStates /\ Side(l, x) /\ Quiet(x) /\ x.out = {} /\ x.up = l.up \ l.out
        /\ x.closing \subseteq l.closing \cup {o \in l.out : Proto[o] # "DEXTRA"}
        /\ Steady(l, x) \/ Idle(x)
        /\ l.repeater \in l.out /\ Proto[l.repeater] = "DEXTRA" => x.status = "NONE"
    BY UnlinkAllQuiet DEF Whole, Steady, Idle
  <2> QED
    BY <2>1 DEF Whole, Callless, Side, Steady, Idle, CcsStatus
<1>2. /\ NotLinked(x) \in LinkStates /\ Side(x, NotLinked(x)) /\ Idle(NotLinked(x))
      /\ NotLinked(x).out = {} /\ NotLinked(x).up = {} /\ NotLinked(x).closing = x.closing
      /\ Quiet(NotLinked(x))
  BY <1>1, NotLinkedType, NotLinkedEffect DEF Idle
<1>3. Whole(NotLinked(x))
  BY <1>1, <1>2, IdleWhole DEF Side, Callless
<1>4. Whole(Inform(NotLinked(x)))
  BY <1>1, <1>2, AlikeFacts, IdleWhole DEF Alike, Side, Callless, Idle
<1>5. ASSUME NEW r
      PROVE  Whole(LinkInt(x, k, r))
  <2> DEFINE m == LinkInt(x, k, r)
  <2>1. Linking(x, k, r, m) /\ Quiet(m)
    BY <1>1, LinkIntEffect
  <2> HIDE DEF m
  <2>2. Whole(m)
    BY <1>1, <2>1
    DEF Linking, Side, Whole, Callless, AddObject, ReflectorStatus, CcsStatus
  <2> QED
    BY <2>2 DEF m
<1> QED
  BY <1>3, <1>4, <1>5

(* "Just a change of port", of a D-Plus reflector.                          *)
LEMMA PortChangeWhole ==
  ASSUME SingleModules, NEW l \in LinkStates, NEW k \in SUBSET Remote, NEW r \in Remote,
         SameBase(l.repeater, r), l.repeater # r, Whole(l), NEW m \in ChangeModule(l, k, r)
  PROVE  Whole(m)
<1> DEFINE n == [l EXCEPT !.repeater = r]
<1>1. Proto[r] = "DPLUS" /\ Proto[l.repeater] = "DPLUS"
  BY CallsAssumption DEF SingleModules, SameBase
<1>2. m = l \/ \E x \in Relink(n, r) : m = Inform(x)
  BY <1>1 DEF ChangeModule
<1>3. /\ n \in LinkStates /\ Quiet(n) /\ Side(l, n) /\ n.status = l.status /\ n.repeater = r
      /\ n.out = l.out /\ n.up = l.up /\ n.closing = l.closing
  BY DEF LinkStates, Calls, Whole, Quiet, Side
<1> HIDE DEF n
<1>4. ASSUME NEW x \in Relink(n, r), m = Inform(x)
      PROVE  Whole(m)
  <2>1. /\ x \in LinkStates /\ Side(n, x) /\ Quiet(x) /\ Steady(n, x)
        /\ \A o \in Remote : Proto[o] # "DPLUS" =>
             /\ o \in x.out <=> o \in n.out
             /\ o \in x.closing <=> o \in n.closing
        /\ x.up \subseteq x.out
    BY <1>1, <1>3, RelinkEffect DEF Whole
  <2>2. Alike(x, m) /\ x.out \in SUBSET Remote /\ x.closing \in SUBSET Remote
    BY <1>4, <2>1, AlikeFacts DEF LinkStates
  <2>3. /\ Quiet(m) /\ m.ccs = l.ccs /\ m.status = l.status /\ m.repeater = r
        /\ m.up \subseteq m.out
    BY <1>3, <2>1, <2>2 DEF Alike, Side, Steady
  <2>4. \A o \in m.out \cup m.closing : Proto[o] # "DEXTRA"
    BY <1>1, <1>3, <2>1, <2>2 DEF Alike, Whole
  <2> QED
    BY <1>1, <2>3, <2>4 DEF Whole, Callless
<1> QED
  BY <1>2, <1>4

(* What the link objects report.                                            *)
LEMMA ObjectsWhole ==
  ASSUME NEW l \in LinkStates, NEW k \in SUBSET Remote, NEW m, Whole(l), ObjectMoved(l, k, m)
  PROVE  Whole(m)
<1>0. /\ l.out \in SUBSET Remote /\ l.up \in SUBSET Remote /\ l.closing \in SUBSET Remote
      /\ Quiet(l) /\ l.up \subseteq l.out
  BY DEF LinkStates, Whole
<1>1. ASSUME NEW gone
      PROVE  /\ Drop(l, gone) \in LinkStates /\ Side(l, Drop(l, gone))
             /\ Quiet(Drop(l, gone)) /\ Steady(l, Drop(l, gone))
             /\ Drop(l, gone).closing = l.closing
             /\ Drop(l, gone).out = l.out \ gone /\ Drop(l, gone).up = l.up \ gone
  BY <1>0, DropType, DropEffect DEF Steady
<1>2. ASSUME NEW o
      PROVE  /\ Forget(l, o) \in LinkStates /\ Side(l, Forget(l, o)) /\ Quiet(Forget(l, o))
             /\ Steady(l, Forget(l, o)) /\ Forget(l, o).closing = l.closing \ {o}
             /\ Forget(l, o).out = l.out /\ Forget(l, o).up = l.up
  BY <1>0 DEF Forget, LinkStates, Side, Steady, Quiet
<1>3. ASSUME NEW o \in l.out \ l.up, m = ObjectUp(l, o)
      PROVE  Whole(m)
  <2>1. /\ Side(l, m) /\ Quiet(m) /\ m.out = l.out /\ m.up = l.up \cup {o}
        /\ m.repeater = l.repeater /\ m.closing = l.closing
        /\ \/ m.status = l.status
           \/ /\ l.status = "LINKING" /\ m.status = "LINKED"
              /\ Proto[l.repeater] = Proto[o]
    BY <1>0, <1>3 DEF ObjectUp, LinkUp, Inform, LinkStates, Side, Quiet
  <2> QED
    BY <1>3, <2>1 DEF Whole, Callless, Side, ReflectorStatus, CcsStatus
<1>4. ASSUME NEW o \in l.out \ l.up, m = ObjectRefused(l, o)
      PROVE  Whole(m)
  <2> DEFINE n == LinkRefused(l, o)
  <2>1. /\ n \in LinkStates /\ Side(l, n) /\ Quiet(n) /\ n.out = l.out /\ n.up = l.up
        /\ n.closing = l.closing
        /\ \/ l.repeater # o /\ Steady(l, n)
           \/ l.repeater = o /\ Idle(n)
    BY <1>0, LinkRefusedType
    DEF LinkRefused, Inform, NotLinked, LinkStates, Side, Quiet, Steady, Idle
  <2>2. m = Drop(n, {o})
    BY <1>4 DEF ObjectRefused
  <2> HIDE DEF n
  <2>3. /\ Side(n, m) /\ Quiet(m) /\ Steady(n, m) /\ m.closing = n.closing
        /\ m.out = n.out \ {o} /\ m.up = n.up \ {o}
    BY <2>1, <2>2, DropEffect DEF Steady
  <2> QED
    BY <1>4, <2>1, <2>3 DEF Whole, Callless, Side, Steady, Idle, CcsStatus
<1>5. ASSUME NEW o \in l.up, m = ObjectFailed(l, k, o)
      PROVE  Whole(m)
  <2>1. CASE Proto[o] = "DCS"
    <3> DEFINE n == LinkFailed(l, k, o)
    <3>1. n \in LinkStates
      BY <1>0, LinkFailedType
    <3>2. /\ Side(l, n) /\ Quiet(n) /\ n.out = l.out /\ n.up = l.up /\ n.closing = l.closing
          /\ Steady(l, n) \/ (l.repeater = o /\ Idle(n))
      BY <1>0, LinkFailedEffect DEF Alike, Steady, Idle
    <3>3. m = Drop(n, {o})
      BY <1>5, <2>1 DEF ObjectFailed
    <3> HIDE DEF n
    <3>4. /\ Side(n, m) /\ Quiet(m) /\ Steady(n, m) /\ m.closing = n.closing
          /\ m.out = n.out \ {o} /\ m.up = n.up \ {o}
      BY <3>1, <3>2, <3>3, DropEffect DEF Steady
    <3> QED
      BY <2>1, <3>2, <3>4 DEF Whole, Callless, Side, Steady, Idle, CcsStatus
  <2>2. CASE Proto[o] # "DCS"
    <3> DEFINE n == Drop(l, {o})
    <3>1. /\ n \in LinkStates /\ Side(l, n) /\ Quiet(n) /\ Steady(l, n)
          /\ n.closing = l.closing /\ n.out = l.out \ {o} /\ n.up = l.up \ {o}
      BY <1>1
    <3>2. m = LinkFailed(n, k, o)
      BY <1>5, <2>2 DEF ObjectFailed
    <3> HIDE DEF n
    <3>3. /\ Side(n, m) /\ Quiet(m) /\ m.out = n.out /\ m.up = n.up /\ m.closing = n.closing
          /\ Steady(n, m) \/ (n.repeater = o /\ Idle(m))
          /\ n.repeater = o => m.status = "NONE"
      BY <3>1, <3>2, LinkFailedEffect DEF Alike, Steady, Idle
    <3> QED
      BY <3>1, <3>3 DEF Whole, Callless, Side, Steady, Idle, CcsStatus
  <2> QED
    BY <2>1, <2>2
<1>6. ASSUME NEW o \in l.out, o \notin l.up \/ Proto[o] # "DEXTRA", m = Drop(l, {o})
      PROVE  Whole(m)
  <2>1. /\ Side(l, m) /\ Quiet(m) /\ Steady(l, m) /\ m.closing = l.closing
        /\ m.out = l.out \ {o} /\ m.up = l.up \ {o}
    BY <1>1, <1>6
  <2>2. l.status = "LINKED" /\ Proto[l.repeater] = "DEXTRA" => l.repeater \notin {o}
    BY <1>6 DEF Whole
  <2>3. \A q \in m.closing : Proto[q] # "DEXTRA"
    BY <2>1 DEF Whole
  <2> QED
    BY <2>1, <2>2, <2>3, FewerWhole
<1>7. ASSUME NEW o \in l.out, m = ObjectTimedOut(l, Drop(l, {o}), o)
      PROVE  Whole(m)
  <2>1. CASE l.status \in ReflectorStatus /\ l.repeater = o
    <3> DEFINE n == Drop(l, {o})
    <3>1. /\ n \in LinkStates /\ Side(l, n) /\ Quiet(n) /\ n.closing = l.closing
          /\ n.repeater = o /\ n.out = l.out \ {o} /\ n.up = l.up \ {o}
      BY <1>1, <2>1 DEF Steady
    <3>2. m = [n EXCEPT !.status = "LINKING", !.out = @ \cup {o},
                        !.info = @ \/ l.status = "LINKED"]
      BY <1>7, <2>1 DEF ObjectTimedOut
    <3> HIDE DEF n
    <3>3. /\ Side(n, m) /\ Quiet(m) /\ m.status = "LINKING" /\ m.repeater = o
          /\ m.out = n.out \cup {o} /\ m.up = n.up /\ m.closing = n.closing
      BY <3>1, <3>2 DEF LinkStates, Side, Quiet
    <3>4. /\ Side(l, m) /\ Quiet(m) /\ m.status = "LINKING" /\ m.repeater = o
          /\ m.out = l.out \cup {o} /\ m.up = l.up \ {o} /\ m.closing = l.closing
      BY <3>1, <3>3 DEF Side
    <3> QED
      BY <2>1, <3>4 DEF Whole, Callless, Side, ReflectorStatus, CcsStatus
  <2>2. CASE ~(l.status \in ReflectorStatus /\ l.repeater = o)
    <3>1. m = Drop(l, {o}) /\ Proto[o] # "DEXTRA"
      BY <1>7, <2>2 DEF ObjectTimedOut, Whole
    <3> QED
      BY <1>6, <3>1
  <2> QED
    BY <2>1, <2>2
<1>8. ASSUME NEW o \in l.closing, m = Forget(l, o)
      PROVE  Whole(m)
  BY <1>2, <1>8, FewerWhole DEF Whole, Callless, Side, Steady
<1>9. ASSUME NEW o \in l.closing, m = ObjectTimedOut(l, Forget(l, o), o)
      PROVE  Whole(m)
  <2>1. CASE l.status \in ReflectorStatus /\ l.repeater = o
    <3>1. /\ Side(l, m) /\ Quiet(m) /\ m.status = "LINKING" /\ m.repeater = o
          /\ m.out = l.out \cup {o} /\ m.up = l.up /\ m.closing = l.closing \ {o}
      BY <1>2, <1>9, <2>1 DEF ObjectTimedOut, LinkStates, Side, Steady, Quiet
    <3> QED
      BY <2>1, <3>1 DEF Whole, Callless, Side, ReflectorStatus, CcsStatus
  <2>2. CASE ~(l.status \in ReflectorStatus /\ l.repeater = o)
    BY <1>8, <1>9, <2>2 DEF ObjectTimedOut
  <2> QED
    BY <2>1, <2>2
<1>10. ASSUME NEW o \in l.closing, m = UnlinkAcknowledged(l, k, o)
       PROVE  Whole(m)
  <2> DEFINE n == Forget(l, o)
  <2>1. /\ n \in LinkStates /\ Side(l, n) /\ Quiet(n) /\ Steady(l, n)
        /\ n.closing = l.closing \ {o} /\ n.out = l.out /\ n.up = l.up
    BY <1>2
  <2>2. m = LinkFailed(n, k, o)
    BY <1>10 DEF UnlinkAcknowledged
  <2> HIDE DEF n
  <2>3. /\ Side(n, m) /\ Quiet(m) /\ m.out = n.out /\ m.up = n.up /\ m.closing = n.closing
        /\ Steady(n, m) \/ (n.repeater = o /\ Idle(m))
    BY <2>1, <2>2, LinkFailedEffect DEF Alike, Steady, Idle
  <2> QED
    BY <2>1, <2>3 DEF Whole, Callless, Side, Steady, Idle, CcsStatus
<1> QED
  BY <1>0, <1>3, <1>4, <1>5, <1>6, <1>7, <1>8, <1>9, <1>10 DEF ObjectMoved

(* Every move of the link.                                                  *)
LEMMA MovedWhole ==
  ASSUME SingleModules, NEW l \in LinkStates, NEW k \in Caches, NEW m, Whole(l), Moved(l, k, m)
  PROVE  Whole(m)
<1>0. k \in SUBSET Remote /\ Quiet(l) /\ Callless(l)
  BY DEF Caches, Whole
<1>1. CASE \E x \in UnlinkAll(l, k) : m = NotLinked(x)
  BY <1>0, <1>1, UnlinkAllWhole
<1>2. CASE \E r \in Remote : Sought(l, k, r, m)
  <2>1. PICK r \in Remote : Sought(l, k, r, m)
    BY <1>2
  <2>2. CASE \E x \in UnlinkAll(l, k) : m = LinkInt(x, k, r)
    BY <1>0, <2>2, UnlinkAllWhole
  <2>3. CASE l.status # "NONE" /\ SameBase(l.repeater, r) /\ m \in ChangeModule(l, k, r)
    BY <1>0, <2>1, <2>3, PortChangeWhole DEF Sought
  <2> QED
    BY <2>1, <2>2, <2>3 DEF Sought
<1>3. CASE \E c \in RemoteLinks : m \in RemoteLink(l, k, c.mode, c.arg)
  <2>1. PICK c \in RemoteLinks : m \in RemoteLink(l, k, c.mode, c.arg)
    BY <1>3
  <2>2. c.mode \in Reconnect /\ c.arg \in Remote \cup {NoCall}
    BY InputAssumption
  <2>3. PICK n \in LinkStates : Untouched(l, n) /\ Commanded(n, k, c.arg, m)
    BY <1>0, <2>1, <2>2, RemoteLinkEffect DEF Callless
  <2>4. Whole(n)
    BY <2>3 DEF Untouched, Steady, Whole, Callless
  <2>5. CASE \E x \in UnlinkAll(n, k) : m = Inform(NotLinked(x)) \/ m = LinkInt(x, k, c.arg)
    BY <1>0, <2>4, <2>5, UnlinkAllWhole
  <2>6. CASE c.arg # n.repeater /\ SameBase(n.repeater, c.arg) /\ m \in ChangeModule(n, k, c.arg)
    <3>1. c.arg \in Remote
      BY <2>6 DEF SameBase
    <3> QED
      BY <1>0, <2>4, <2>6, <3>1, PortChangeWhole
  <2> QED
    BY <2>3, <2>4, <2>5, <2>6 DEF Commanded
<1>4. CASE \E r \in Remote : m \in RemoteUnlink(l, k, r)
  <2>1. PICK r \in Remote : m \in RemoteUnlink(l, k, r)
    BY <1>4
  <2>2. CASE m = l
    BY <2>2
  <2>3. CASE Proto[r] # "DEXTRA" /\ m = Unlink(l, Proto[r], Remote \ {r})
    <3> DEFINE gone == Gone(l, Proto[r], Remote \ {r})
    <3>1. /\ Side(l, m) /\ Steady(l, m) /\ Quiet(m) /\ m.closing = l.closing \cup gone
          /\ m.out = l.out \ gone /\ m.up = l.up \ gone
      BY <1>0, <2>3, UnlinkEffect DEF Steady
    <3>2. \A o \in gone : Proto[o] # "DEXTRA"
      BY <2>3 DEF Gone
    <3> HIDE DEF gone
    <3> QED
      BY <3>1, <3>2, FewerWhole DEF Whole
  <2>4. CASE Proto[r] = "DEXTRA" /\ m \in UnlinkDExtra(l, k, Remote \ {r})
    <3> DEFINE gone == Gone(l, "DEXTRA", Remote \ {r})
    <3>1. /\ Side(l, m) /\ Quiet(m) /\ m.closing = l.closing
          /\ m.out = l.out \ gone /\ m.up = l.up \ gone
          /\ Steady(l, m) \/ Idle(m)
          /\ l.repeater \in gone => m.status = "NONE"
      <4> DEFINE kept == Remote \ {r}
      <4>1. m \in UnlinkDExtra(l, k, kept)
        BY <2>4
      <4> HIDE DEF kept
      <4>2. LET g == Gone(l, "DEXTRA", kept) IN
            /\ Side(l, m) /\ Quiet(m) /\ m.closing = l.closing
            /\ m.out = l.out \ g /\ m.up = l.up \ g
            /\ \/ m.status = l.status /\ m.repeater = l.repeater
               \/ m.status = "NONE" /\ m.repeater = NoCall
            /\ l.repeater \in g => m.status = "NONE"
        BY <1>0, <4>1, UnlinkDExtraQuiet
      <4> QED
        BY <4>2 DEF Steady, Idle, kept
    <3>2. \A o \in gone : o \in l.out /\ o = l.repeater
      BY DEF Whole, Gone
    <3>3. gone = {} => m = l
      BY <2>4 DEF UnlinkDExtra, Gone
    <3> HIDE DEF gone
    <3>4. CASE gone = {}
      BY <3>3, <3>4
    <3>5. CASE gone # {}
      <4>1. l.repeater \in gone /\ m.status = "NONE"
        BY <3>1, <3>2, <3>5
      <4> QED
        BY <3>1, <3>2, <4>1 DEF Whole, Callless, Side, CcsStatus
    <3> QED
      BY <3>4, <3>5
  <2> QED
    BY <2>1, <2>2, <2>3, <2>4 DEF RemoteUnlink
<1>5. CASE \E r \in Remote, found \in BOOLEAN : m = ResolveLink(l, r, found)
  <2>1. PICK r \in Remote, found \in BOOLEAN : m = ResolveLink(l, r, found)
    BY <1>5
  <2> DEFINE n == [l EXCEPT !.query = Stopped]
  <2>2. n \in LinkStates /\ Alike(l, n)
    BY QueryType, AlikeFacts
  <2>3. \/ m = l
        \/ /\ l.status = "PENDING" /\ l.repeater = r
           /\ m = [n EXCEPT !.status = "LINKING", !.out = @ \cup {r}]
        \/ l.status = "PENDING" /\ m = Inform(NotLinked(n))
    BY <2>1 DEF ResolveLink
  <2> HIDE DEF n
  <2>4. ASSUME l.status = "PENDING", l.repeater = r,
               m = [n EXCEPT !.status = "LINKING", !.out = @ \cup {r}]
        PROVE  Whole(m)
    <3>1. /\ Side(n, m) /\ (Quiet(m) <=> Quiet(n)) /\ m.status = "LINKING"
          /\ m.repeater = n.repeater /\ m.out = n.out \cup {r} /\ m.up = n.up
          /\ m.closing = n.closing
      BY <2>2, <2>4 DEF LinkStates, Side, Quiet
    <3> QED
      BY <2>2, <2>4, <3>1 DEF Alike, Side, Whole, Callless, ReflectorStatus, CcsStatus
  <2>5. ASSUME l.status = "PENDING", m = Inform(NotLinked(n))
        PROVE  Whole(m)
    <3>1. /\ NotLinked(n) \in LinkStates /\ Side(n, NotLinked(n)) /\ Idle(NotLinked(n))
          /\ (Quiet(NotLinked(n)) <=> Quiet(n)) /\ NotLinked(n).out = n.out
          /\ NotLinked(n).up = n.up /\ NotLinked(n).closing = n.closing
      BY <2>2, NotLinkedType, NotLinkedEffect DEF Idle
    <3>2. Alike(NotLinked(n), m)
      BY <2>5, <3>1, AlikeFacts
    <3> QED
      BY <2>2, <2>5, <3>1, <3>2
      DEF Alike, Side, Idle, Whole, Callless, ReflectorStatus, CcsStatus
  <2> QED
    BY <2>3, <2>4, <2>5
<1>6. CASE l.status = "PENDING" /\ m = NotLinked(l)
  BY <1>6, NotLinkedEffect DEF Side, Whole, Callless, ReflectorStatus, CcsStatus
<1> QED
  BY <1>0, <1>1, <1>2, <1>3, <1>4, <1>5, <1>6, ObjectsWhole, CalllessStill DEF Moved

(* The closed set of the whole links.                                       *)
WholeLinks == [k \in Caches |-> {l \in LinkStates : Whole(l)}]

(* The whole records are closed under the moves of a link.                  *)
LEMMA WholeClosed ==
  ASSUME SingleModules
  PROVE  Closed(WholeLinks)
<1>1. WholeLinks \in [Caches -> SUBSET LinkStates]
  BY DEF WholeLinks
<1>2. ASSUME NEW k \in Caches, NEW l \in WholeLinks[k], NEW m \in LinkStates,
             Alike(l, m) \/ Moved(l, k, m)
      PROVE  m \in WholeLinks[k]
  <2>1. l \in LinkStates /\ Whole(l)
    BY DEF WholeLinks
  <2>2. Whole(m)
    BY <1>2, <2>1, MovedWhole DEF Alike, Side, Whole, Callless
  <2> QED
    BY <2>2 DEF WholeLinks
<1>3. \A k \in Caches, r \in Remote : WholeLinks[k] \subseteq WholeLinks[k \cup {r}]
  BY DEF WholeLinks, Caches
<1> QED
  BY <1>1, <1>2, <1>3 DEF Closed

(* A repeater that is no client of a CCS server starts there.               *)
LEMMA FirstWhole ==
  ASSUME NoCcs, NEW s \in Startups
  PROVE  FirstLink(s) \in WholeLinks[Known]
<1> DEFINE m == FirstLink(s)
           l == StartingLink(s)
<1>1. Known \in Caches /\ m \in LinkStates
  BY CallsAssumption, FirstLinkEffect DEF Caches
<1>2. Whole(l)
  BY FirstLinkEffect DEF NoCcs, Whole, Callless, CcsStatus
<1>3. ASSUME m # l
      PROVE  Whole(m)
  <2>1. /\ Side(l, m) /\ Quiet(m) /\ m.up = {} /\ m.closing = {}
        /\ m.status \in {"LINKING", "PENDING", "NONE"}
        /\ \/ m.out = {}
           \/ /\ m.status = "LINKING" /\ m.repeater = l.startup
              /\ m.out = AddObject({}, l.startup)
    BY <1>3, FirstLinkEffect
  <2> HIDE DEF l, m
  <2> QED
    BY <1>2, <2>1
    DEF Side, Whole, Callless, ReflectorStatus, CcsStatus, AddObject
<1> QED
  BY <1>1, <1>2, <1>3 DEF WholeLinks

(* The link of a repeater of a gateway without CCS is whole at any time.    *)
LEMMA LinkIsWhole ==
  ASSUME SingleModules, NoCcs
  PROVE  Spec => []Whole(link)
<1> DEFINE Inv == cache \in Caches /\ link \in WholeLinks[cache]
<1>1. Init => Inv
  BY WholeClosed, FirstWhole, LinkStarts
<1>2. Inv /\ [Next]_vars => Inv'
  BY WholeClosed, LinkSteps
<1>3. Inv => Whole(link)
  BY DEF WholeLinks
<1> QED
  BY <1>1, <1>2, <1>3, PTL DEF Spec

(* No DExtra link outlives the repeater's knowledge of it (NoGhost of       *)
(* LinkProperties.tla): whatever was asked for, refused, lost or timed out, *)
(* in any order, the objects that remain are that of the reflector the      *)
(* repeater names in its status.                                            *)
THEOREM NoGhostLink ==
  ASSUME SingleModules, NoCcs
  PROVE  Spec => []NoGhost
<1>1. Whole(link) => NoGhost
  BY DEF Whole, NoGhost, Linked
<1> QED
  BY <1>1, LinkIsWhole, PTL

(* A repeater that announces a DExtra link has it up, acknowledged by the   *)
(* far end and not yet lost (LinkedIsUp of LinkProperties.tla).             *)
THEOREM AnnouncedLinkIsUp ==
  ASSUME SingleModules, NoCcs
  PROVE  Spec => []LinkedIsUp
<1>1. Whole(link) => LinkedIsUp
  BY DEF Whole, LinkedIsUp
<1> QED
  BY <1>1, LinkIsWhole, PTL

===============================================================================
