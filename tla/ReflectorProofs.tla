------------------------------ MODULE ReflectorProofs ------------------------------
(* For every number of slots, ports, modules and troubles.  First the far   *)
(* gateway: it keeps one object for a link, whatever datagrams arrive;      *)
(* nothing is assumed of the near gateway or of the network.  Then the near *)
(* gateway: its pool is in step with its table (Sound), and a DExtra        *)
(* repeater has at most the one object that it believes it has (Steady),    *)
(* after every operation and at every slot of a walk over the table.  Those *)
(* walks are folds; what holds along them is shown by induction over the    *)
(* slots, with an induction principle about sets (Induction).               *)
EXTENDS ReflectorLinks, FiniteSetTheorems, TLAPS

\* A record with the fields of an incoming object.
Shaped(o) == o = [module |-> o.module, port |-> o.port, state |-> o.state, idle |-> o.idle]

\* a shaped object for the same link as p
Kin(o, p) == Shaped(o) /\ o.port = p.port /\ o.module = p.module

\* a table of objects, one for each port and module
Table(t) ==
  /\ t = [j \in 1..FarSlots |-> t[j]]
  /\ \A j \in 1..FarSlots : t[j] # Empty => Shaped(t[j])
  /\ \A i, j \in 1..FarSlots :
       t[i] # Empty /\ t[j] # Empty /\ t[i].port = t[j].port /\ t[i].module = t[j].module => i = j

\* An operation that changes states and timers, or removes objects, keeps the table one.
LEMMA Updates ==
  ASSUME Table(far), NEW t, t = [j \in 1..FarSlots |-> t[j]],
         \A j \in 1..FarSlots :
           t[j] = Empty \/ t[j] = far[j] \/ (far[j] # Empty /\ Kin(t[j], far[j]))
  PROVE  Table(t)
BY DEF Table, Kin

\* A change of one field of a shaped object.
LEMMA Fields ==
  ASSUME NEW o, Shaped(o), NEW s, NEW n
  PROVE  /\ Shaped([o EXCEPT !.state = s]) /\ Shaped([o EXCEPT !.idle = n])
         /\ [o EXCEPT !.state = s].port = o.port /\ [o EXCEPT !.state = s].module = o.module
         /\ [o EXCEPT !.idle = n].port = o.port /\ [o EXCEPT !.idle = n].module = o.module
<1> DEFINE r == [module |-> o.module, port |-> o.port, state |-> o.state, idle |-> o.idle]
<1>1. o = r  BY DEF Shaped
<1>2. /\ Shaped([r EXCEPT !.state = s]) /\ Shaped([r EXCEPT !.idle = n])
      /\ [r EXCEPT !.state = s].port = o.port /\ [r EXCEPT !.state = s].module = o.module
      /\ [r EXCEPT !.idle = n].port = o.port /\ [r EXCEPT !.idle = n].module = o.module
  BY DEF Shaped
<1> QED  BY <1>1, <1>2

\* A LINK1 adds an object only when no other has its port and module.
LEMMA LinksKeep == ASSUME Table(far), NEW d, FarLinks(d) PROVE Table(far')
<1> DEFINE n == Min(1..FarSlots \ FarTaken)
           o == [module |-> d.module, port |-> d.port, idle |-> Started,
                 state |-> IF protocol = "DPLUS" THEN "LINKING" ELSE "LINKED"]
<1>1. far' = far \/ (~Duplicates(d) /\ far' = [far EXCEPT ![n] = o])
  BY DEF FarLinks, FarBecome
<1>2. CASE far' = far  BY <1>2
<1>3. CASE ~Duplicates(d) /\ far' = [far EXCEPT ![n] = o]
  <2>1. Shaped(o) /\ o.port = d.port /\ o.module = d.module  BY DEF Shaped
  <2>2. \A j \in 1..FarSlots : far[j] # Empty /\ far[j].port = d.port => far[j].module # d.module
    BY <1>3 DEF Duplicates, From, FarTaken
  <2> HIDE DEF o, n
  <2>3. \A j \in 1..FarSlots : far'[j] = IF j = n THEN o ELSE far[j]  BY <1>3 DEF Table
  <2>4. far' = [j \in 1..FarSlots |-> far'[j]]  BY <1>3 DEF Table
  <2> QED  BY <2>1, <2>2, <2>3, <2>4 DEF Table
<1> QED  BY <1>1, <1>2, <1>3

\* The other steps of the far gateway.
LEMMA OthersKeep ==
  ASSUME Table(far), NEW d, NEW j \in 1..FarSlots,
         FarLogsIn(d) \/ FarUnlinks(d) \/ FarPolled(d) \/ FarClock(j) \/ FarStops
  PROVE  Table(far')
<1>1. CASE FarLogsIn(d)
  <2>1. far' = far \/ far' = [i \in 1..FarSlots |-> IF i \in From(d.port)
                              THEN [far[i] EXCEPT !.state = "LINKED"] ELSE far[i]]
    BY <1>1 DEF FarLogsIn, FarBecome
  <2>2. CASE far' = far  BY <2>2
  <2>3. CASE far' = [i \in 1..FarSlots |-> IF i \in From(d.port)
                              THEN [far[i] EXCEPT !.state = "LINKED"] ELSE far[i]]
    <3>1. \A i \in From(d.port) : Kin(far'[i], far[i]) /\ far[i] # Empty
      BY <2>3, Fields DEF Table, From, FarTaken, Kin
    <3>2. \A i \in 1..FarSlots : i \in From(d.port) \/ far'[i] = far[i]  BY <2>3
    <3>3. far' = [i \in 1..FarSlots |-> far'[i]]  BY <2>3
    <3> QED  BY <3>1, <3>2, <3>3, Updates
  <2> QED  BY <2>1, <2>2, <2>3
<1>2. CASE FarUnlinks(d)
  <2>1. far' = [i \in 1..FarSlots |-> IF i \in From(d.port) THEN Empty ELSE far[i]]
    BY <1>2 DEF FarUnlinks, FarBecome
  <2> QED  BY <2>1, Updates DEF Table
<1>3. CASE FarPolled(d)
  <2>1. PICK fresh \in SUBSET From(d.port) :
          far' = [i \in 1..FarSlots |-> IF i \in fresh THEN [far[i] EXCEPT !.idle = Started] ELSE far[i]]
    BY <1>3 DEF FarPolled, FarBecome
  <2>2. \A i \in fresh : Kin(far'[i], far[i]) /\ far[i] # Empty
    BY <2>1, Fields DEF Table, From, FarTaken, Kin
  <2>3. \A i \in 1..FarSlots : i \in fresh \/ far'[i] = far[i]  BY <2>1
  <2>4. far' = [i \in 1..FarSlots |-> far'[i]]  BY <2>1
  <2> QED  BY <2>2, <2>3, <2>4, Updates
<1>4. CASE FarClock(j)
  <2>1. PICK n : far[j] # Empty /\ (far' = [far EXCEPT ![j] = Empty] \/ far' = [far EXCEPT ![j].idle = n])
    BY <1>4 DEF FarClock, FarBecome
  <2>2. \A i \in 1..FarSlots : far'[i] = IF i = j THEN far'[j] ELSE far[i]  BY <2>1 DEF Table
  <2>3. far'[j] = Empty \/ far'[j] = [far[j] EXCEPT !.idle = n]  BY <2>1 DEF Table
  <2>4. far' = [i \in 1..FarSlots |-> far'[i]]  BY <2>1 DEF Table
  <2>5. far'[j] = Empty \/ Kin(far'[j], far[j])  
    <3>1. Shaped(far[j])  BY <2>1 DEF Table
    <3>2. Kin([far[j] EXCEPT !.idle = n], far[j])  BY <3>1, Fields DEF Kin
    <3> QED  BY <2>3, <3>2
  <2> QED  BY <2>1, <2>2, <2>4, <2>5, Updates
<1>5. CASE FarStops  BY <1>5, Updates DEF FarStops, FarBecome, Table
<1> QED  BY <1>1, <1>2, <1>3, <1>4, <1>5

(* IncomingUnique: however often a link request is repeated, delayed or     *)
(* overtaken, one link has one object at the far gateway.                   *)
THEOREM LinksUnique == Spec => []IncomingUnique
<1>1. Init => Table(far)  BY DEF Init, Table
<1>2. Table(far) /\ [Next]_vars => Table(far)'
  <2> SUFFICES ASSUME Table(far), [Next]_vars PROVE Table(far')  OBVIOUS
  <2>1. CASE UNCHANGED far  BY <2>1
  <2>2. CASE Command \/ NearStops  BY <2>1, <2>2 DEF Command, NearStops, Become
  <2>3. CASE Hears
    <3>1. CASE \E port \in Ports, type \in Answers : NearHears(port, type)
      BY <2>1, <3>1 DEF NearHears, Become
    <3>2. CASE \E port \in Ports, type \in Requests : FarHears(port, type)
      <4>1. PICK d : FarLinks(d) \/ FarLogsIn(d) \/ FarUnlinks(d) \/ FarPolled(d)
        BY <3>2 DEF FarHears
      <4>2. 1 \in 1..FarSlots  BY NetworkAssumption
      <4> QED  BY <4>1, <4>2, LinksKeep, OthersKeep
    <3> QED  BY <2>3, <3>1, <3>2 DEF Hears
  <2>4. CASE FarStops
    <3>1. 1 \in 1..FarSlots  BY NetworkAssumption
    <3> QED  BY <2>4, <3>1, OthersKeep
  <2>5. CASE Clocks
    <3>1. CASE \E i \in 1..NearSlots : NearClock(i)  BY <2>1, <3>1 DEF NearClock, Become
    <3>2. CASE \E j \in 1..FarSlots : FarClock(j)  BY <3>2, OthersKeep
    <3> QED  BY <2>5, <3>1, <3>2 DEF Clocks
  <2> QED  BY <2>1, <2>2, <2>3, <2>4, <2>5 DEF Next, vars
<1>3. Table(far) => IncomingUnique  BY DEF Table, IncomingUnique, FarTaken
<1> QED  BY <1>1, <1>2, <1>3, PTL DEF Spec
-------------------------------------------------------------------------------
(* The naturals are well ordered, and so induction over them holds, stated  *)
(* with sets: the sets 1 .. n are ordered as their bounds are, and the      *)
(* finite sets are well founded under inclusion.                            *)
LEMMA LeastOne ==
  ASSUME NEW T \in SUBSET Nat, T # {}
  PROVE  \E x \in T : \A y \in T : x <= y
<1> DEFINE R == StrictSubsetOrdering(Nat)
           F == FiniteSubsetsOf(Nat)
           U == {1..n : n \in T}
<1>1. IsWellFoundedOn(R, F)  BY FS_StrictSubsetOrderingWellFounded
<1>2. U \subseteq F /\ U # {}
  <2>1. ASSUME NEW n \in T PROVE 1..n \in F
    <3>1. n \in Int /\ 1 \in Int  OBVIOUS
    <3>2. IsFiniteSet(1..n)  BY <3>1, FS_Interval
    <3>3. 1..n \subseteq Nat  OBVIOUS
    <3> QED  BY <3>2, <3>3 DEF FiniteSubsetsOf
  <2> QED  BY <2>1
<1> HIDE DEF F
<1>3. PICK X \in U : \A Y \in U : ~(<<Y, X>> \in R)  BY <1>1, <1>2, WFMin, Zenon
<1>4. PICK x \in T : X = 1..x  BY <1>3
<1>5. ASSUME NEW y \in T, y < x PROVE FALSE
  <2>1. 1..y \in U  OBVIOUS
  <2>2. 1..y \subseteq 1..x /\ 1..y # 1..x  BY <1>5
  <2>3. 1..y \in SUBSET Nat /\ 1..x \in SUBSET Nat  BY <1>5
  <2>4. <<1..y, X>> \in R  BY <1>4, <2>2, <2>3 DEF StrictSubsetOrdering
  <2> QED  BY <1>3, <2>1, <2>4
<1> QED  BY <1>5

\* What holds of 0, and of n + 1 whenever of n, holds of all naturals.
LEMMA Induction ==
  ASSUME NEW S, 0 \in S, \A n \in Nat : n \in S => n + 1 \in S
  PROVE  Nat \subseteq S
<1> SUFFICES ASSUME Nat \ S # {} PROVE FALSE  OBVIOUS
<1>1. PICK x \in Nat \ S : \A y \in Nat \ S : x <= y  BY LeastOne
<1>2. x # 0  BY <1>1
<1>3. x - 1 \in Nat /\ ~(x <= x - 1)  BY <1>1, <1>2
<1>4. x - 1 \in S  BY <1>1, <1>3
<1> QED  BY <1>1, <1>3, <1>4

\* The least number of a set, and the greatest of an interval.
LEMMA MinIsLeast ==
  ASSUME NEW T \in SUBSET Nat, T # {}
  PROVE  Min(T) \in T /\ \A y \in T : Min(T) <= y
BY LeastOne DEF Min

\* The greatest of some of the first n + 1 numbers, the last one among them.
LEMMA MaxOfInterval ==
  ASSUME NEW n \in Nat, NEW s \in SUBSET (1..n + 1), n + 1 \in s
  PROVE  Max(s) = n + 1
<1>1. \A y \in s : n + 1 >= y  OBVIOUS
<1>2. \A x \in s : (\A y \in s : x >= y) => x = n + 1  OBVIOUS
<1> QED  BY <1>1, <1>2 DEF Max

\* An interval without its last number.
LEMMA NextInterval ==
  ASSUME NEW n \in Nat
  PROVE  (1..n + 1) \ {n + 1} = 1..n /\ 1..n + 1 # {}
<1>1. n + 1 \in 1..n + 1  OBVIOUS
<1>2. \A x : x \in (1..n + 1) \ {n + 1} <=> x \in 1..n  OBVIOUS
<1>3. (1..n + 1) \ {n + 1} = 1..n  BY <1>2
<1> QED  BY <1>1, <1>3

-------------------------------------------------------------------------------
\* The states the near gateway is in between two operations on its record.
Nears == [status : {"NONE", "LINKING", "LINKED"}, remote : Modules \cup {NoCall},
          relink : BOOLEAN, links : [1..NearSlots -> Links \cup {Empty}],
          inUse : SUBSET Ports, sent : SUBSET Messages]

\* ... with the pool in step with the table
Sound(g) ==
  /\ g \in Nears
  /\ g.inUse = {g.links[i].port : i \in Slots(g)}
  /\ \A i, j \in Slots(g) : g.links[i].port = g.links[j].port => i = j

\* What the pool does not depend on may change.
LEMMA SoundStill ==
  ASSUME NEW g, Sound(g), NEW h \in Nears, h.links = g.links, h.inUse = g.inUse
  PROVE  Sound(h) /\ Slots(h) = Slots(g)
BY DEF Sound, Slots

\* An object is told from an empty slot by its module.
LEMMA TakenSlots ==
  /\ Empty \notin Links /\ \A o \in Links : o.module \in Modules /\ o.module # NoCall
  /\ \A g \in Nears : /\ \A i \in Slots(g) : i \in 1..NearSlots /\ g.links[i] \in Links
                      /\ \A i \in 1..NearSlots : i \notin Slots(g) => g.links[i] = Empty
<1>1. Empty.module = NoCall  BY DEF Empty
<1>2. \A o \in Links : o.module \in Modules /\ o.module # NoCall  BY NetworkAssumption DEF Links
<1> QED  BY <1>1, <1>2 DEF Nears, Slots

\* Sending changes nothing but what is sent.
LEMMA Sends ==
  ASSUME NEW g, Sound(g), NEW o \in Links, NEW types \in SUBSET Requests,
         NEW h, h = Send(g, types, o)
  PROVE  /\ Sound(h) /\ Slots(h) = Slots(g) /\ h.links = g.links
         /\ h.status = g.status /\ h.remote = g.remote /\ h.relink = g.relink
<1> DEFINE M == {To("far", type, o.port, IF type = "LINK1" /\ protocol # "DPLUS" THEN o.module
                                          ELSE NoCall) : type \in types}
<1>1. M \subseteq Messages  BY DEF M, To, Messages, Links, Requests
<1>2. h = [g EXCEPT !.sent = @ \cup M]  BY DEF Send
<1> HIDE DEF M
<1>3. g \in Nears  BY DEF Sound
<1>4. /\ h \in Nears /\ h.links = g.links /\ h.inUse = g.inUse
      /\ h.status = g.status /\ h.remote = g.remote /\ h.relink = g.relink
  BY <1>1, <1>2, <1>3 DEF Nears
<1> QED  BY <1>4, SoundStill

\* h is g with o for the object in slot i.
Alters(g, h, i, o) == h = [g EXCEPT !.links[i] = o]

\* An object changes, but keeps its port.
LEMMA Changes ==
  ASSUME NEW g, Sound(g), NEW i \in Slots(g), NEW o \in Links, o.port = g.links[i].port,
         NEW h, Alters(g, h, i, o)
  PROVE  /\ Sound(h) /\ Slots(h) = Slots(g) /\ h.links = [g.links EXCEPT ![i] = o]
         /\ h.status = g.status /\ h.remote = g.remote /\ h.relink = g.relink
<1>1. g \in Nears /\ i \in 1..NearSlots  BY DEF Sound, Slots
<1>2. /\ h \in Nears /\ h.links = [g.links EXCEPT ![i] = o] /\ h.inUse = g.inUse
      /\ h.status = g.status /\ h.remote = g.remote /\ h.relink = g.relink
  BY <1>1 DEF Nears, Alters
<1>3. \A j \in 1..NearSlots : h.links[j] = IF j = i THEN o ELSE g.links[j]
  BY <1>1, <1>2 DEF Nears
<1>4. Slots(h) = Slots(g)  BY <1>1, <1>3, TakenSlots DEF Slots
<1>5. \A j \in Slots(g) : h.links[j].port = g.links[j].port  BY <1>3 DEF Slots
<1>6. {h.links[j].port : j \in Slots(h)} = {g.links[j].port : j \in Slots(g)}  BY <1>4, <1>5
<1>7. \A j, k \in Slots(h) : h.links[j].port = h.links[k].port => j = k
  BY <1>4, <1>5 DEF Sound
<1> QED  BY <1>2, <1>4, <1>6, <1>7 DEF Sound

\* The deletion of an object.
LEMMA Frees ==
  ASSUME NEW g, Sound(g), NEW i \in Slots(g), NEW h, h = Free(g, i)
  PROVE  /\ Sound(h) /\ Slots(h) = Slots(g) \ {i} /\ h.links = [g.links EXCEPT ![i] = Empty]
         /\ h.status = g.status /\ h.remote = g.remote /\ h.relink = g.relink
<1>1. g \in Nears /\ i \in 1..NearSlots  BY DEF Sound, Slots
<1>2. /\ h \in Nears /\ h.links = [g.links EXCEPT ![i] = Empty]
      /\ h.inUse = g.inUse \ {g.links[i].port}
      /\ h.status = g.status /\ h.remote = g.remote /\ h.relink = g.relink
  BY <1>1 DEF Nears, Free
<1>3. \A j \in 1..NearSlots : h.links[j] = IF j = i THEN Empty ELSE g.links[j]
  BY <1>1, <1>2 DEF Nears
<1>4. Slots(h) = Slots(g) \ {i}  BY <1>1, <1>3 DEF Slots
<1>5. \A j \in Slots(h) : h.links[j].port = g.links[j].port /\ h.links[j].port # g.links[i].port
  BY <1>3, <1>4 DEF Slots, Sound
<1>6. h.inUse = {h.links[j].port : j \in Slots(h)}
  BY <1>2, <1>4, <1>5 DEF Sound
<1>7. \A j, k \in Slots(h) : h.links[j].port = h.links[k].port => j = k
  BY <1>4, <1>5 DEF Sound
<1> QED  BY <1>2, <1>4, <1>6, <1>7 DEF Sound


\* h has what g has, and perhaps one object more: for m, in the first free slot.
Extends(g, h, m) ==
  \/ h.links = g.links
  \/ \E j \in 1..NearSlots, o \in Links :
       /\ j \notin Slots(g) /\ \A k \in 1..NearSlots : k \notin Slots(g) => j <= k
       /\ o.module = m /\ o.state = "LINKING"
       /\ h.links = [g.links EXCEPT ![j] = o]

\* link() takes a port and a slot that are free, or changes nothing.
LEMMA Adds ==
  ASSUME NEW g, Sound(g), NEW m \in Modules, NEW h, h = AddLink(g, m)
  PROVE  /\ Sound(h) /\ Extends(g, h, m)
         /\ h.status = g.status /\ h.remote = g.remote /\ h.relink = g.relink
<1> DEFINE ports == Ports \ g.inUse
           slots == 1..NearSlots \ Slots(g)
           p == Min(ports)
           j == Min(slots)
           o == [module |-> m, port |-> p, state |-> "LINKING",
                 trying |-> TRUE, polling |-> FALSE, idle |-> Started]
           f == [g EXCEPT !.links[j] = o, !.inUse = @ \cup {p}]
<1>1. CASE h = g  BY <1>1 DEF Extends
<1>2. CASE ports # {} /\ slots # {} /\ h = Send(f, {"LINK1"}, o)
  <2>1. p \in ports /\ j \in slots /\ \A k \in slots : j <= k
    <3>1. ports \in SUBSET Nat /\ slots \in SUBSET Nat
      <4>1. Ports \subseteq Nat /\ 1..NearSlots \subseteq Nat  BY NetworkAssumption
      <4> QED  BY <4>1
    <3> HIDE DEF ports, slots
    <3> QED  BY <1>2, <3>1, MinIsLeast
  <2> HIDE DEF p, j
  <2>2. o \in Links /\ o.port = p /\ o.module = m /\ o.state = "LINKING"
    BY <2>1, NetworkAssumption DEF Links, Started
  <2> HIDE DEF o
  <2>3. g \in Nears  BY DEF Sound
  <2>4. /\ f \in Nears /\ f.links = [g.links EXCEPT ![j] = o] /\ f.inUse = g.inUse \cup {p}
        /\ f.status = g.status /\ f.remote = g.remote /\ f.relink = g.relink
    BY <2>1, <2>2, <2>3 DEF Nears
  <2> HIDE DEF f
  <2>5. \A k \in 1..NearSlots : f.links[k] = IF k = j THEN o ELSE g.links[k]
    BY <2>1, <2>3, <2>4 DEF Nears
  <2>6. Slots(f) = Slots(g) \cup {j}  BY <2>1, <2>2, <2>5, TakenSlots DEF Slots
  <2>7. \A k \in Slots(g) : f.links[k].port = g.links[k].port /\ g.links[k].port # p /\ k # j
    BY <2>1, <2>5 DEF Slots, Sound
  <2>8. f.links[j].port = p  BY <2>1, <2>2, <2>5
  <2>9. f.inUse = {f.links[k].port : k \in Slots(f)}
    BY <2>4, <2>6, <2>7, <2>8 DEF Sound
  <2>10. \A k, l \in Slots(f) : f.links[k].port = f.links[l].port => k = l
    BY <2>6, <2>7, <2>8 DEF Sound
  <2>11. Sound(f)  BY <2>4, <2>9, <2>10 DEF Sound
  <2>12. {"LINK1"} \in SUBSET Requests  BY DEF Requests
  <2>13. /\ Sound(h) /\ h.links = f.links
         /\ h.status = f.status /\ h.remote = f.remote /\ h.relink = f.relink
    BY <1>2, <2>2, <2>11, <2>12, Sends
  <2>14. Extends(g, h, m)  BY <2>1, <2>2, <2>4, <2>13 DEF Extends
  <2> QED  BY <2>4, <2>13, <2>14
<1> QED  BY <1>1, <1>2 DEF AddLink

-------------------------------------------------------------------------------
\* The callbacks of the repeater.
LEMMA NotLinkedKeeps ==
  ASSUME NEW g, Sound(g), NEW h, h = NotLinked(g)
  PROVE  /\ Sound(h) /\ Slots(h) = Slots(g) /\ h.links = g.links
         /\ h.status = "NONE" /\ h.remote = NoCall /\ h.relink = g.relink
<1>1. g \in Nears  BY DEF Sound
<1>2. /\ h \in Nears /\ h.links = g.links /\ h.inUse = g.inUse
      /\ h.status = "NONE" /\ h.remote = NoCall /\ h.relink = g.relink
  BY <1>1 DEF Nears, NotLinked
<1> QED  BY <1>2, SoundStill

\* linkInt links, or leads nowhere.
LEMMA LinkIntKeeps ==
  ASSUME NEW g, Sound(g), NEW m \in Modules \cup {NoCall}, NEW h, h = LinkInt(g, m)
  PROVE  /\ Sound(h) /\ h.relink = g.relink /\ h.remote = m
         /\ m = NoCall => h.links = g.links /\ h.status = "NONE"
         /\ m # NoCall => Extends(g, h, m) /\ h.status = "LINKING"
<1>1. CASE m = NoCall  BY <1>1, NotLinkedKeeps DEF LinkInt
<1>2. CASE m # NoCall
  <2> DEFINE f == [g EXCEPT !.status = "LINKING", !.remote = m]
  <2>1. g \in Nears  BY DEF Sound
  <2>2. /\ f \in Nears /\ f.links = g.links /\ f.inUse = g.inUse
        /\ f.status = "LINKING" /\ f.remote = m /\ f.relink = g.relink
    BY <1>2, <2>1 DEF Nears
  <2>3. h = AddLink(f, m)  BY <1>2 DEF LinkInt
  <2> HIDE DEF f
  <2>4. Sound(f) /\ Slots(f) = Slots(g)  BY <2>2, SoundStill
  <2>5. /\ Sound(h) /\ Extends(f, h, m)
        /\ h.status = f.status /\ h.remote = f.remote /\ h.relink = f.relink
    BY <1>2, <2>3, <2>4, Adds
  <2>6. Extends(g, h, m)  BY <2>2, <2>4, <2>5 DEF Extends
  <2> QED  BY <1>2, <2>2, <2>5, <2>6
<1> QED  BY <1>1, <1>2

\* linkUp changes the status only.
LEMMA LinkUpKeeps ==
  ASSUME NEW g, Sound(g), NEW h, h = LinkUp(g)
  PROVE  /\ Sound(h) /\ Slots(h) = Slots(g) /\ h.links = g.links
         /\ h.remote = g.remote /\ h.relink = g.relink /\ (h.status = "NONE" => g.status = "NONE")
<1>1. CASE h = g  BY <1>1
<1>2. CASE h = [g EXCEPT !.status = "LINKED"]
  <2>1. g \in Nears  BY DEF Sound
  <2>2. /\ h \in Nears /\ h.links = g.links /\ h.inUse = g.inUse
        /\ h.status = "LINKED" /\ h.remote = g.remote /\ h.relink = g.relink
    BY <1>2, <2>1 DEF Nears
  <2> QED  BY <2>2, SoundStill
<1> QED  BY <1>1, <1>2 DEF LinkUp

\* linkRefused clears the status when it is about this link.
LEMMA RefusedKeeps ==
  ASSUME NEW g, Sound(g), NEW m, NEW h, h = LinkRefused(g, m)
  PROVE  /\ Sound(h) /\ Slots(h) = Slots(g) /\ h.links = g.links
         /\ g.remote = m => h.status = "NONE"
         /\ h.relink = g.relink
BY NotLinkedKeeps DEF LinkRefused

\* linkFailed links again when it was told to, which ends the telling.
LEMMA FailedKeeps ==
  ASSUME NEW g, Sound(g), NEW m, NEW h, h = LinkFailed(g, m)
  PROVE  /\ Sound(h) /\ ~h.relink
         /\ \/ /\ g.relink /\ h.remote = g.remote
               /\ g.remote = NoCall => h.links = g.links /\ h.status = "NONE"
               /\ g.remote # NoCall => Extends(g, h, g.remote) /\ h.status = "LINKING"
            \/ /\ ~g.relink /\ h.links = g.links
               /\ \/ h.status = "NONE"
                  \/ g.remote # m /\ h.status = g.status /\ h.remote = g.remote
<1>1. g \in Nears  BY DEF Sound
<1>2. CASE g.relink
  <2> DEFINE f == [g EXCEPT !.relink = FALSE]
  <2>1. /\ f \in Nears /\ f.links = g.links /\ f.inUse = g.inUse /\ ~f.relink
        /\ f.status = g.status /\ f.remote = g.remote
    BY <1>1 DEF Nears
  <2>2. h = LinkInt(f, g.remote)  BY <1>2 DEF LinkFailed
  <2> HIDE DEF f
  <2>3. Sound(f) /\ Slots(f) = Slots(g)  BY <2>1, SoundStill
  <2>4. g.remote \in Modules \cup {NoCall}  BY <1>1 DEF Nears
  <2>5. /\ Sound(h) /\ h.relink = f.relink /\ h.remote = g.remote
        /\ g.remote = NoCall => h.links = f.links /\ h.status = "NONE"
        /\ g.remote # NoCall => Extends(f, h, g.remote) /\ h.status = "LINKING"
    BY <2>2, <2>3, <2>4, LinkIntKeeps
  <2> QED  BY <1>2, <2>1, <2>3, <2>5 DEF Extends
<1>3. CASE ~g.relink
  <2>1. CASE h = g /\ (g.status = "NONE" \/ g.remote # m)  BY <1>3, <2>1
  <2>2. CASE h = NotLinked(g)  BY <1>3, <2>2, NotLinkedKeeps
  <2> QED  BY <1>3, <2>1, <2>2 DEF LinkFailed
<1> QED  BY <1>2, <1>3


-------------------------------------------------------------------------------
\* Object i is gone, and the rest of the table is as it was.
Without(g, h, i) == \A k \in 1..NearSlots : h.links[k] = IF k = i THEN Empty ELSE g.links[k]

\* ... but for an object to module m in the first of the slots that were free
Exchanged(g, h, i, m) ==
  \E j \in 1..NearSlots, o \in Links :
    /\ j \notin Slots(g) /\ \A k \in 1..NearSlots : k \notin Slots(g) => j <= k
    /\ o.module = m /\ o.state = "LINKING"
    /\ \A k \in 1..NearSlots :
         h.links[k] = IF k = i THEN Empty ELSE IF k = j THEN o ELSE g.links[k]

\* The repeater was told that its link has failed, and then object i was deleted.
Dropped(g, h, i) ==
  /\ i \in Slots(g) /\ ~h.relink
  /\ \/ /\ g.relink /\ h.remote = g.remote
        /\ g.remote = NoCall => Without(g, h, i) /\ h.status = "NONE"
        /\ g.remote # NoCall =>
             h.status = "LINKING" /\ (Without(g, h, i) \/ Exchanged(g, h, i, g.remote))
     \/ /\ ~g.relink /\ Without(g, h, i)
        /\ \/ h.status = "NONE"
           \/ g.remote # g.links[i].module /\ h.status = g.status /\ h.remote = g.remote

\* f0 is g with another state of object i.
LEMMA Drops ==
  ASSUME NEW g, Sound(g), NEW i \in Slots(g), NEW f0, Sound(f0), Slots(f0) = Slots(g),
         f0.status = g.status, f0.remote = g.remote, f0.relink = g.relink,
         \A k \in 1..NearSlots : k # i => f0.links[k] = g.links[k],
         NEW f, f = LinkFailed(f0, g.links[i].module), NEW h, h = Free(f, i)
  PROVE  Sound(h) /\ Dropped(g, h, i)
<1>1. i \in 1..NearSlots /\ i \in Slots(f0) /\ f0 \in Nears /\ g \in Nears  BY DEF Slots, Sound
<1>2. /\ Sound(f) /\ ~f.relink
      /\ \/ /\ f0.relink /\ f.remote = f0.remote
            /\ f0.remote = NoCall => f.links = f0.links /\ f.status = "NONE"
            /\ f0.remote # NoCall => Extends(f0, f, f0.remote) /\ f.status = "LINKING"
         \/ /\ ~f0.relink /\ f.links = f0.links
            /\ \/ f.status = "NONE"
               \/ g.remote # g.links[i].module /\ f.status = g.status /\ f.remote = g.remote
  BY FailedKeeps
<1>3. i \in Slots(f)
  <2>1. f.links = f0.links \/ Extends(f0, f, f0.remote)  BY <1>2
  <2>2. f.links[i] = f0.links[i]  BY <1>1, <2>1 DEF Extends, Nears
  <2> QED  BY <1>1, <2>2 DEF Slots
<1>4. /\ Sound(h) /\ h.links = [f.links EXCEPT ![i] = Empty]
      /\ h.status = f.status /\ h.remote = f.remote /\ h.relink = f.relink
  BY <1>2, <1>3, Frees
<1>5. f \in Nears  BY <1>2 DEF Sound
<1>6. \A k \in 1..NearSlots : h.links[k] = IF k = i THEN Empty ELSE f.links[k]
  BY <1>4, <1>5 DEF Nears
<1>7. f.links = f0.links => Without(g, h, i)  BY <1>6 DEF Without
<1>8. ASSUME Extends(f0, f, g.remote), f.links # f0.links PROVE Exchanged(g, h, i, g.remote)
  <2>1. PICK j \in 1..NearSlots, o \in Links :
          /\ j \notin Slots(f0) /\ \A k \in 1..NearSlots : k \notin Slots(f0) => j <= k
          /\ o.module = g.remote /\ o.state = "LINKING"
          /\ f.links = [f0.links EXCEPT ![j] = o]
    BY <1>8 DEF Extends
  <2>2. \A k \in 1..NearSlots : f.links[k] = IF k = j THEN o ELSE f0.links[k]
    BY <1>1, <2>1 DEF Nears
  <2>3. \A k \in 1..NearSlots :
          h.links[k] = IF k = i THEN Empty ELSE IF k = j THEN o ELSE g.links[k]
    BY <1>6, <2>2
  <2> QED  BY <2>1, <2>3 DEF Exchanged
<1>9. Dropped(g, h, i)  BY <1>2, <1>4, <1>7, <1>8 DEF Dropped
<1> QED  BY <1>4, <1>9

\* What one object does when it is to unlink.
LEMMA UnlinksOne ==
  ASSUME NEW g, Sound(g), NEW i \in 1..NearSlots, NEW gone \in SUBSET Modules,
         NEW h, h = UnlinkOne(g, i, gone)
  PROVE  /\ Sound(h)
         /\ g.links[i].module \notin gone => h = g
         /\ /\ protocol = "DEXTRA" /\ i \in Slots(g) /\ g.links[i].module \in gone
            /\ Live(g.links[i].state)
            => Dropped(g, h, i)
<1> DEFINE o == g.links[i]
           q == [o EXCEPT !.state = "UNLINKING"]
           e == [g EXCEPT !.links[i] = q]
           h0 == Send(e, {"UNLINK"}, o)
           h1 == [h0 EXCEPT !.links[i].trying = TRUE,
                            !.links[i].polling = @ /\ protocol = "DCS",
                            !.links[i].idle = IF protocol = "DPLUS" THEN Stopped ELSE @]
<1>1. CASE o.module \notin gone  BY <1>1 DEF UnlinkOne
<1>2. CASE o.module \in gone
  <2>1. i \in Slots(g) /\ o \in Links
    <3>1. o.module \in Modules  BY <1>2
    <3>2. o # Empty  BY <3>1, NetworkAssumption DEF Empty
    <3> QED  BY <3>2, TakenSlots DEF Slots, Sound
  <2>2. q \in Links /\ q.port = o.port  BY <2>1 DEF Links
  <2>3. /\ Sound(e) /\ Slots(e) = Slots(g) /\ e.links = [g.links EXCEPT ![i] = q]
        /\ e.status = g.status /\ e.remote = g.remote /\ e.relink = g.relink
    <3>1. Alters(g, e, i, q)  BY DEF Alters
    <3> HIDE DEF e, q
    <3> QED  BY <2>1, <2>2, <3>1, Changes
  <2>4. {"UNLINK"} \in SUBSET Requests  BY DEF Requests
  <2> HIDE DEF e
  <2>5. /\ Sound(h0) /\ Slots(h0) = Slots(e) /\ h0.links = e.links
        /\ h0.status = e.status /\ h0.remote = e.remote /\ h0.relink = e.relink
    BY <2>1, <2>3, <2>4, Sends
  <2>6. \/ h = g /\ (protocol # "DEXTRA" \/ ~Live(o.state))
        \/ protocol = "DEXTRA" /\ ~Live(o.state) /\ h = Free(g, i)
        \/ protocol = "DEXTRA" /\ Live(o.state) /\ h = Free(LinkFailed(h0, o.module), i)
        \/ protocol # "DEXTRA" /\ h = h1
    BY <1>2 DEF UnlinkOne, e
  <2> HIDE DEF h0
  <2>7. CASE h = g /\ (protocol # "DEXTRA" \/ ~Live(o.state))  BY <1>2, <2>7
  <2>8. CASE protocol = "DEXTRA" /\ ~Live(o.state) /\ h = Free(g, i)
    BY <1>2, <2>1, <2>8, Frees
  <2>9. CASE protocol = "DEXTRA" /\ Live(o.state) /\ h = Free(LinkFailed(h0, o.module), i)
    <3>1. g \in Nears  BY DEF Sound
    <3>2. \A k \in 1..NearSlots : k # i => h0.links[k] = g.links[k]
      BY <2>3, <2>5, <3>1 DEF Nears
    <3>3. Sound(h) /\ Dropped(g, h, i)  BY <2>1, <2>3, <2>5, <2>9, <3>2, Drops
    <3> QED  BY <1>2, <3>3
  <2>10. CASE protocol # "DEXTRA" /\ h = h1
    <3>1. g \in Nears /\ h0 \in Nears  BY <2>5 DEF Sound
    <3>2. h0.links[i] = q  BY <2>3, <2>5, <3>1 DEF Nears
    <3> DEFINE r == [q EXCEPT !.trying = TRUE, !.polling = @ /\ protocol = "DCS",
                              !.idle = IF protocol = "DPLUS" THEN Stopped ELSE @]
    <3>3. r \in Links /\ r.port = q.port
      <4>1. Stopped \in 0..PollTimeout  BY NetworkAssumption DEF Stopped
      <4> QED  BY <2>2, <4>1 DEF Links
    <3> HIDE DEF q
    <3>4. h1 = [h0 EXCEPT !.links[i] = r]  BY <3>1, <3>2 DEF Nears
    <3> HIDE DEF r, h1
    <3>5. i \in Slots(h0) /\ r.port = h0.links[i].port /\ Alters(h0, h, i, r)
      BY <2>1, <2>3, <2>5, <2>10, <3>2, <3>3, <3>4 DEF Alters
    <3>6. Sound(h)  BY <2>5, <3>3, <3>5, Changes
    <3> QED  BY <1>2, <2>10, <3>6
  <2> QED  BY <2>6, <2>7, <2>8, <2>9, <2>10
<1> QED  BY <1>1, <1>2


-------------------------------------------------------------------------------
(* A DExtra repeater has one object at most, which leads where it is to     *)
(* lead.  An order to link again that was left over is there only while the *)
(* first slot is free or its own: the object linkFailed then makes comes    *)
(* behind the one that is deleted, where the walk over the table meets it.  *)
Steady(g) ==
  /\ \A i, j \in Slots(g) : i = j
  /\ \A i \in Slots(g) :
       Live(g.links[i].state) /\ g.links[i].module = g.remote /\ g.status # "NONE"
  /\ g.status = "LINKED" => \E i \in Slots(g) : g.links[i].state = "LINKED"
  /\ g.relink => Slots(g) \subseteq {1}

\* Nothing is added or taken away.
LEMMA SteadyKept ==
  ASSUME NEW g, Steady(g), NEW h, Slots(h) = Slots(g), h.remote = g.remote,
         h.relink => g.relink \/ Slots(g) = {},
         h.status = "NONE" => g.status = "NONE" \/ Slots(g) = {},
         \A i \in Slots(g) : h.links[i].module = g.links[i].module /\ Live(h.links[i].state),
         h.status = "LINKED" => \E i \in Slots(g) : h.links[i].state = "LINKED"
  PROVE  Steady(h)
BY DEF Steady

\* The object is taken away.
LEMMA SteadyWithout ==
  ASSUME NEW g, Steady(g), NEW h, NEW i \in Slots(g), Without(g, h, i), h.status # "LINKED"
  PROVE  Steady(h) /\ Slots(h) = {}
<1>1. Slots(h) = {}  BY DEF Without, Slots, Steady
<1> QED  BY <1>1 DEF Steady

\* The repeater is told, and links again if it was to: behind the object that goes.
LEMMA SteadyDropped ==
  ASSUME NEW g, Sound(g), Steady(g), NEW h, NEW i, Dropped(g, h, i)
  PROVE  Steady(h) /\ \A k \in Slots(h) : k > i
<1>1. /\ i \in Slots(g) /\ i \in 1..NearSlots /\ g.remote = g.links[i].module
      /\ g.remote # NoCall /\ g \in Nears
  BY TakenSlots DEF Dropped, Sound, Steady, Slots
<1>2. CASE Without(g, h, i) /\ h.status # "LINKED"
  BY <1>1, <1>2, SteadyWithout
<1>3. CASE g.relink /\ h.status = "LINKING" /\ h.remote = g.remote /\ Exchanged(g, h, i, g.remote)
  <2>1. PICK j \in 1..NearSlots, o \in Links :
          /\ j \notin Slots(g) /\ \A k \in 1..NearSlots : k \notin Slots(g) => j <= k
          /\ o.module = g.remote /\ o.state = "LINKING"
          /\ \A k \in 1..NearSlots :
               h.links[k] = IF k = i THEN Empty ELSE IF k = j THEN o ELSE g.links[k]
    BY <1>3 DEF Exchanged
  <2>2. i = 1 /\ j # i /\ j > i  BY <1>1, <1>3, <2>1 DEF Steady
  <2>3. \A k \in 1..NearSlots : k # i => g.links[k] = Empty
    BY <1>1 DEF Steady, Slots
  <2>4. Slots(h) = {j} /\ h.links[j] = o
    BY <2>1, <2>2, <2>3, TakenSlots DEF Slots
  <2>5. ~h.relink  BY DEF Dropped
  <2> QED  BY <1>3, <2>1, <2>2, <2>4, <2>5 DEF Steady, Live
<1> QED  BY <1>1, <1>2, <1>3 DEF Dropped

-------------------------------------------------------------------------------
\* What one object does with a datagram.
LEMMA HearsAck ==
  ASSUME NEW g, Sound(g), NEW i \in 1..NearSlots, NEW d, NEW h, h = HearAck(g, i, d)
  PROVE  Sound(h) /\ (Steady(g) => Steady(h))
<1> DEFINE o == g.links[i]
           q == [o EXCEPT !.state = "LINKED", !.trying = FALSE, !.polling = protocol # "DCS",
                          !.idle = IF protocol = "DPLUS" THEN Started ELSE @]
           e == LinkUp(g)
<1>1. CASE h = g  BY <1>1
<1>2. CASE o # Empty /\ o.state = "LINKING" /\ h = [e EXCEPT !.links[i] = q]
  <2>1. i \in Slots(g) /\ o \in Links  BY <1>2, TakenSlots DEF Slots, Sound
  <2>2. q \in Links /\ q.port = o.port /\ q.module = o.module /\ q.state = "LINKED"
    <3>1. Started \in 0..PollTimeout  BY NetworkAssumption DEF Started
    <3> QED  BY <2>1, <3>1 DEF Links
  <2>3. /\ Sound(e) /\ Slots(e) = Slots(g) /\ e.links = g.links
        /\ e.remote = g.remote /\ e.relink = g.relink /\ (e.status = "NONE" => g.status = "NONE")
    BY LinkUpKeeps
  <2>4. Alters(e, h, i, q)  BY <1>2 DEF Alters
  <2> HIDE DEF e, q
  <2>5. /\ Sound(h) /\ Slots(h) = Slots(e) /\ h.links = [e.links EXCEPT ![i] = q]
        /\ h.status = e.status /\ h.remote = e.remote /\ h.relink = e.relink
    BY <2>1, <2>2, <2>3, <2>4, Changes
  <2>6. \A k \in 1..NearSlots : h.links[k] = IF k = i THEN q ELSE g.links[k]
    <3>1. g \in Nears  BY DEF Sound
    <3> QED  BY <2>3, <2>5, <3>1 DEF Nears
  <2>7. ASSUME Steady(g) PROVE Steady(h)
    <3>1. \A k \in Slots(g) : h.links[k].module = g.links[k].module /\ Live(h.links[k].state)
      BY <2>2, <2>6, <2>7 DEF Steady, Live, Slots
    <3>2. h.links[i].state = "LINKED"  BY <2>2, <2>6
    <3> QED  BY <2>1, <2>3, <2>5, <2>7, <3>1, <3>2, SteadyKept
  <2> QED  BY <2>5, <2>7
<1> QED  BY <1>1, <1>2 DEF HearAck, Mine

\* A refusal deletes the object, and the repeater knows.
LEMMA HearsNak ==
  ASSUME NEW g, Sound(g), NEW i \in 1..NearSlots, NEW d, NEW h, h = HearNak(g, i, d)
  PROVE  Sound(h) /\ (protocol = "DEXTRA" /\ Steady(g) => Steady(h))
<1> DEFINE o == g.links[i]
           e == LinkRefused(g, o.module)
           f == Free(e, i)
<1>1. CASE h = g  BY <1>1
<1>2. CASE i \in Slots(g) /\ o.state = "LINKING" /\ h = IF protocol = "DPLUS" THEN Send(f, {"UNLINK"}, o) ELSE f
  <2>1. o \in Links  BY <1>2, TakenSlots DEF Sound
  <2>2. /\ Sound(e) /\ Slots(e) = Slots(g) /\ e.links = g.links
        /\ g.remote = o.module => e.status = "NONE"
    BY RefusedKeeps
  <2> HIDE DEF e
  <2>3. Sound(f) /\ f.links = [e.links EXCEPT ![i] = Empty] /\ f.status = e.status
    BY <1>2, <2>2, Frees
  <2> HIDE DEF f
  <2>4. protocol = "DPLUS" => Sound(h)
    <3>1. {"UNLINK"} \in SUBSET Requests  BY DEF Requests
    <3>2. protocol = "DPLUS" => h = Send(f, {"UNLINK"}, o)  BY <1>2
    <3> QED  BY <2>1, <2>3, <3>1, <3>2, Sends
  <2>5. ASSUME protocol = "DEXTRA", Steady(g) PROVE Steady(h)
    <3>1. h = f  BY <1>2, <2>5
    <3>2. Without(g, h, i)
      <4>1. g \in Nears  BY DEF Sound
      <4> QED  BY <2>2, <2>3, <3>1, <4>1 DEF Nears, Without
    <3>3. h.status = "NONE"  BY <1>2, <2>2, <2>3, <2>5, <3>1 DEF Steady
    <3> QED  BY <1>2, <2>5, <3>2, <3>3, SteadyWithout
  <2> QED  BY <1>2, <2>3, <2>4, <2>5
<1>3. CASE i \in Slots(g) /\ protocol = "DCS" /\ h = Free(LinkFailed(g, o.module), i)
  BY <1>3, Drops
<1>4. CASE i \in Slots(g) /\ protocol = "DPLUS" /\ h = Free(g, i)
  BY <1>4, Frees
<1> QED  BY <1>1, <1>2, <1>3, <1>4 DEF HearNak, Mine, Slots

\* The far end unlinks, or acknowledges that the near end did.
LEMMA HearsUnlink ==
  ASSUME NEW g, Sound(g), NEW i \in 1..NearSlots, NEW d, NEW h, h = HearUnlink(g, i, d)
  PROVE  Sound(h) /\ (protocol = "DEXTRA" /\ Steady(g) => Steady(h))
<1> DEFINE o == g.links[i]
<1>1. CASE h = g  BY <1>1
<1>2. CASE i \in Slots(g) /\ h = Free(LinkFailed(g, o.module), i)
  <2>1. Sound(h) /\ Dropped(g, h, i)  BY <1>2, Drops
  <2> QED  BY <2>1, SteadyDropped
<1>3. CASE i \in Slots(g) /\ h = Free(g, i) /\ (protocol = "DEXTRA" => o.state # "LINKED")
  <2>1. Sound(h) /\ h.links = [g.links EXCEPT ![i] = Empty] /\ h.status = g.status
    BY <1>3, Frees
  <2>2. ASSUME protocol = "DEXTRA", Steady(g) PROVE Steady(h)
    <3>1. Without(g, h, i)
      <4>1. g \in Nears  BY DEF Sound
      <4> QED  BY <2>1, <4>1 DEF Nears, Without
    <3>2. h.status # "LINKED"  BY <1>3, <2>1, <2>2 DEF Steady
    <3> QED  BY <1>3, <2>2, <3>1, <3>2, SteadyWithout
  <2> QED  BY <2>1, <2>2
<1> QED  BY <1>1, <1>2, <1>3 DEF HearUnlink, Mine, Slots


\* The first half of the D-Plus log-in.
LEMMA HearsLink1 ==
  ASSUME NEW g, Sound(g), NEW i \in 1..NearSlots, NEW d, NEW h, h = HearLink1(g, i, d)
  PROVE  Sound(h) /\ (protocol = "DEXTRA" => h = g)
<1> DEFINE o == g.links[i]
           q == [o EXCEPT !.trying = FALSE]
           e == [g EXCEPT !.links[i] = q]
<1>1. CASE h = g  BY <1>1
<1>2. CASE protocol = "DPLUS" /\ i \in Slots(g) /\ h = Send(e, {"LINK2"}, o)
  <2>1. o \in Links  BY <1>2, TakenSlots DEF Sound
  <2>2. q \in Links /\ q.port = o.port  BY <2>1 DEF Links
  <2>3. Alters(g, e, i, q)  BY DEF Alters
  <2>4. {"LINK2"} \in SUBSET Requests  BY DEF Requests
  <2> HIDE DEF e, q
  <2>5. Sound(e)  BY <1>2, <2>2, <2>3, Changes
  <2>6. Sound(h)  BY <1>2, <2>1, <2>4, <2>5, Sends
  <2> QED  BY <1>2, <2>6
<1> QED  BY <1>1, <1>2 DEF HearLink1, Mine, Slots

\* A poll restarts the inactivity timer.
LEMMA HearsPoll ==
  ASSUME NEW g, Sound(g), NEW i \in 1..NearSlots, NEW d, NEW h, h = HearPoll(g, i, d)
  PROVE  Sound(h) /\ (protocol = "DEXTRA" /\ Steady(g) => Steady(h))
<1> DEFINE o == g.links[i]
           q == [o EXCEPT !.idle = Started]
           e == [g EXCEPT !.links[i].idle = Started]
           m == To("far", "POLL", o.port, o.module)
<1>1. CASE h = g  BY <1>1
<1>2. CASE i \in Slots(g) /\ (h = e \/ (protocol # "DEXTRA" /\ h = [e EXCEPT !.sent = @ \cup {m}]))
  <2>1. o \in Links  BY <1>2, TakenSlots DEF Sound
  <2>2. q \in Links /\ q.port = o.port /\ q.module = o.module /\ q.state = o.state
    <3>1. Started \in 0..PollTimeout  BY NetworkAssumption DEF Started
    <3> QED  BY <2>1, <3>1 DEF Links
  <2>3. Alters(g, e, i, q)
    <3>1. g \in Nears  BY DEF Sound
    <3> QED  BY <1>2, <2>1, <3>1 DEF Alters, Nears
  <2>4. m \in Messages  BY <2>1 DEF Messages, To, Links, Requests
  <2> HIDE DEF e, q, m
  <2>5. /\ Sound(e) /\ Slots(e) = Slots(g) /\ e.links = [g.links EXCEPT ![i] = q]
        /\ e.status = g.status /\ e.remote = g.remote /\ e.relink = g.relink
    BY <1>2, <2>2, <2>3, Changes
  <2>6. CASE h = e
    <3>1. ASSUME Steady(g) PROVE Steady(h)
      <4>1. \A k \in Slots(g) : h.links[k].module = g.links[k].module /\ h.links[k].state = g.links[k].state
        <5>1. g \in Nears  BY DEF Sound
        <5>2. \A k \in 1..NearSlots : h.links[k] = IF k = i THEN q ELSE g.links[k]
          BY <2>5, <2>6, <5>1 DEF Nears
        <5> QED  BY <2>2, <5>2 DEF Slots
      <4> QED  BY <2>5, <2>6, <3>1, <4>1 DEF Steady
    <3> QED  BY <2>5, <2>6, <3>1
  <2>7. CASE protocol # "DEXTRA" /\ h = [e EXCEPT !.sent = @ \cup {m}]
    <3>1. e \in Nears  BY <2>5 DEF Sound
    <3>2. h \in Nears /\ h.links = e.links /\ h.inUse = e.inUse  BY <2>4, <2>7, <3>1 DEF Nears
    <3>3. Sound(h)  BY <2>5, <3>2, SoundStill
    <3> QED  BY <2>7, <3>3
  <2> QED  BY <1>2, <2>6, <2>7
<1>3. \/ h = g
      \/ o # Empty /\ (h = e \/ (protocol # "DEXTRA" /\ h = [e EXCEPT !.sent = @ \cup {m}]))
  <2>1. CASE protocol \in {"DPLUS", "DEXTRA"}  BY <2>1 DEF HearPoll, Mine
  <2>2. CASE protocol \notin {"DPLUS", "DEXTRA"}
    <3>1. h = g \/ (Mine(o, d) /\ h = [e EXCEPT !.sent = @ \cup {m}])  BY <2>2 DEF HearPoll
    <3> QED  BY <2>2, <3>1 DEF Mine
  <2> QED  BY <2>1, <2>2
<1>4. o # Empty => i \in Slots(g)  BY DEF Slots
<1> QED  BY <1>1, <1>2, <1>3, <1>4

\* Whatever an object hears, its gateway stays sound.
LEMMA HearsNear ==
  ASSUME NEW g, Sound(g), NEW i \in 1..NearSlots, NEW d, NEW h, h = HearNear(g, i, d)
  PROVE  Sound(h) /\ (protocol = "DEXTRA" /\ Steady(g) => Steady(h))
<1>1. \/ h = HearAck(g, i, d) \/ h = HearNak(g, i, d) \/ h = HearUnlink(g, i, d)
      \/ h = HearLink1(g, i, d) \/ h = HearPoll(g, i, d)
  BY DEF HearNear
<1> QED  BY <1>1, HearsAck, HearsNak, HearsUnlink, HearsLink1, HearsPoll

-------------------------------------------------------------------------------
\* A walk over the slots, as FoldLeft makes it, has a result for every operation F.
Walked(w, n, F, g) ==
  w = [s \in SUBSET (1..n) |-> IF s = {} THEN g ELSE F[<<w[s \ {Max(s)}], Max(s)>>]]

\* By induction over the slots.
LEMMA WalkExists ==
  ASSUME NEW D, NEW F \in [D \X (1..NearSlots) -> D], NEW g \in D
  PROVE  \E w : Walked(w, NearSlots, F, g) /\ \A s \in SUBSET (1..NearSlots) : w[s] \in D
<1> DEFINE S == {n \in Nat : n <= NearSlots =>
                   \E w : Walked(w, n, F, g) /\ \A s \in SUBSET (1..n) : w[s] \in D}
<1>1. 0 \in S
  <2> DEFINE w == [s \in SUBSET (1..0) |-> g]
  <2>1. \A s \in SUBSET (1..0) : s = {} /\ w[s] = g  OBVIOUS
  <2>2. w = [s \in SUBSET (1..0) |-> IF s = {} THEN g ELSE F[<<w[s \ {Max(s)}], Max(s)>>]]
    BY <2>1
  <2> HIDE DEF w
  <2>3. Walked(w, 0, F, g)  BY <2>2 DEF Walked
  <2> QED  BY <2>1, <2>3
<1>2. ASSUME NEW n \in Nat, n \in S PROVE n + 1 \in S
  <2>1. SUFFICES ASSUME n + 1 <= NearSlots
                 PROVE  \E v : Walked(v, n + 1, F, g) /\ \A s \in SUBSET (1..n + 1) : v[s] \in D
    OBVIOUS
  <2>2. n <= NearSlots /\ n + 1 \in 1..NearSlots  BY <2>1, NetworkAssumption
  <2>3. PICK w : Walked(w, n, F, g) /\ \A s \in SUBSET (1..n) : w[s] \in D  BY <1>2, <2>2
  <2> DEFINE v == [s \in SUBSET (1..n + 1) |->
                     IF n + 1 \in s THEN F[<<w[s \ {n + 1}], n + 1>>] ELSE w[s]]
  <2>4. \A s \in SUBSET (1..n) : w[s] = IF s = {} THEN g ELSE F[<<w[s \ {Max(s)}], Max(s)>>]
    BY <2>3 DEF Walked
  <2>5. ASSUME NEW s \in SUBSET (1..n + 1)
        PROVE  v[s] \in D /\ v[s] = IF s = {} THEN g ELSE F[<<v[s \ {Max(s)}], Max(s)>>]
    <3>1. CASE n + 1 \in s
      <4>1. Max(s) = n + 1  BY <3>1, MaxOfInterval
      <4>2. s \ {n + 1} \in SUBSET (1..n) /\ n + 1 \notin s \ {n + 1} /\ s # {}  BY <3>1
      <4>3. v[s \ {n + 1}] = w[s \ {n + 1}]  BY <4>2
      <4>4. v[s] = F[<<w[s \ {n + 1}], n + 1>>]  BY <3>1
      <4>5. v[s] \in D  BY <2>2, <2>3, <4>2, <4>4
      <4> QED  BY <4>1, <4>2, <4>3, <4>4, <4>5
    <3>2. CASE n + 1 \notin s
      <4>1. s \in SUBSET (1..n)  BY <3>2
      <4>2. \A t \in SUBSET s : v[t] = w[t]  BY <3>2, <4>1
      <4>3. s \ {Max(s)} \in SUBSET s /\ s \in SUBSET s  OBVIOUS
      <4> HIDE DEF v
      <4> QED  BY <2>3, <2>4, <4>1, <4>2, <4>3
    <3> QED  BY <3>1, <3>2
  <2>6. v = [s \in SUBSET (1..n + 1) |-> IF s = {} THEN g ELSE F[<<v[s \ {Max(s)}], Max(s)>>]]
    <3>1. v = [s \in SUBSET (1..n + 1) |-> v[s]]  OBVIOUS
    <3> HIDE DEF v
    <3> QED  BY <2>5, <3>1
  <2> HIDE DEF v
  <2> QED  BY <2>5, <2>6 DEF Walked
<1> HIDE DEF S
<1>3. Nat \subseteq S  BY <1>1, <1>2, Induction
<1>4. NearSlots \in S /\ NearSlots <= NearSlots  BY <1>3, NetworkAssumption
<1> QED  BY <1>4 DEF S


\* The greatest of some of the slots is one of them.
LEMMA MaxIsSlot ==
  ASSUME NEW s \in SUBSET (1..NearSlots), s # {}
  PROVE  Max(s) \in s
<1> DEFINE T == {NearSlots - x : x \in s}
<1>1. NearSlots \in Nat  BY NetworkAssumption
<1>2. T \in SUBSET Nat /\ T # {}
  <2>1. \A x \in s : NearSlots - x \in Nat  BY <1>1
  <2> QED  BY <2>1
<1>3. PICK y \in T : \A z \in T : y <= z  BY <1>2, LeastOne
<1>4. PICK x \in s : y = NearSlots - x  BY <1>3
<1>5. \A z \in s : x >= z
  <2> SUFFICES ASSUME NEW z \in s PROVE x >= z  OBVIOUS
  <2>1. NearSlots - x <= NearSlots - z  BY <1>3, <1>4
  <2> QED  BY <1>1, <2>1
<1> QED  BY <1>4, <1>5 DEF Max

\* The states of the gateway along the walk of Unlink.
LEMMA UnlinkWalks ==
  ASSUME NEW g, Sound(g), NEW gone \in SUBSET Modules
  PROVE  \E v : /\ v[0] = g /\ v[NearSlots] = Unlink(g, gone)
                /\ \A n \in Nat : n + 1 <= NearSlots => v[n + 1] = UnlinkOne(v[n], n + 1, gone)
<1> DEFINE D == {x \in Nears : Sound(x)}
           F == [x \in D \X (1..NearSlots) |-> UnlinkOne(x[1], x[2], gone)]
           slot == [i \in 1..NearSlots |-> i]
           Walk(w) == w = [s \in SUBSET DOMAIN slot |->
                             IF s = {} THEN g
                             ELSE UnlinkOne(w[s \ {Max(s)}], slot[Max(s)], gone)]
<1>1. /\ F \in [D \X (1..NearSlots) -> D] /\ g \in D
      /\ \A x \in D, i \in 1..NearSlots : F[<<x, i>>] = UnlinkOne(x, i, gone)
  BY UnlinksOne DEF Sound
<1> HIDE DEF D, F
<1>2. PICK w : Walked(w, NearSlots, F, g) /\ \A s \in SUBSET (1..NearSlots) : w[s] \in D
  BY <1>1, WalkExists
<1>3. /\ DOMAIN slot = 1..NearSlots /\ \A i \in 1..NearSlots : slot[i] = i
  OBVIOUS
<1> HIDE DEF slot
<1>4. ASSUME NEW s \in SUBSET (1..NearSlots), s # {}
      PROVE  F[<<w[s \ {Max(s)}], Max(s)>>] = UnlinkOne(w[s \ {Max(s)}], slot[Max(s)], gone)
  <2>1. Max(s) \in 1..NearSlots  BY <1>4, MaxIsSlot
  <2>2. w[s \ {Max(s)}] \in D  BY <1>2
  <2> QED  BY <1>1, <1>3, <2>1, <2>2
<1>5. Walk(w)
  <2>1. w = [s \in SUBSET (1..NearSlots) |->
               IF s = {} THEN g ELSE F[<<w[s \ {Max(s)}], Max(s)>>]]
    BY <1>2 DEF Walked
  <2> QED  BY <1>3, <1>4, <2>1
<1>6. PICK u : Walk(u) /\ Unlink(g, gone) = u[DOMAIN slot]
  BY <1>5 DEF Unlink, WalkNear, FoldLeft, MapThenFoldSet, slot
<1>7. \A s \in SUBSET (1..NearSlots) :
        u[s] = IF s = {} THEN g ELSE UnlinkOne(u[s \ {Max(s)}], slot[Max(s)], gone)
  BY <1>3, <1>6
<1> HIDE DEF Walk
<1> DEFINE v == [n \in Nat |-> u[1..n]]
<1>8. v[0] = g
  <2>1. 1..0 = {} /\ {} \in SUBSET (1..NearSlots)  OBVIOUS
  <2> QED  BY <1>7, <2>1
<1>9. ASSUME NEW n \in Nat, n + 1 <= NearSlots PROVE v[n + 1] = UnlinkOne(v[n], n + 1, gone)
  <2>1. 1..n + 1 \in SUBSET (1..NearSlots) /\ n + 1 \in 1..NearSlots
    BY <1>9, NetworkAssumption
  <2>2. Max(1..n + 1) = n + 1
    <3>1. 1..n + 1 \in SUBSET (1..n + 1) /\ n + 1 \in 1..n + 1  OBVIOUS
    <3> QED  BY <3>1, MaxOfInterval
  <2>3. (1..n + 1) \ {n + 1} = 1..n /\ 1..n + 1 # {}  BY NextInterval
  <2>4. u[1..n + 1] = UnlinkOne(u[1..n], slot[n + 1], gone)  BY <1>7, <2>1, <2>2, <2>3
  <2> QED  BY <1>3, <2>1, <2>4
<1>10. v[NearSlots] = Unlink(g, gone)  BY <1>3, <1>6, NetworkAssumption
<1> HIDE DEF v
<1> QED  BY <1>8, <1>9, <1>10

\* what NearHears makes of the gateway
Heard(g, d) == WalkNear(LAMBDA x, i : HearNear(x, i, d), g)

\* ... and along the walk of a datagram.
LEMMA HearWalks ==
  ASSUME NEW g, Sound(g), NEW d
  PROVE  \E v : /\ v[0] = g /\ v[NearSlots] = Heard(g, d)
                /\ \A n \in Nat : n + 1 <= NearSlots => v[n + 1] = HearNear(v[n], n + 1, d)
<1> DEFINE D == {x \in Nears : Sound(x)}
           F == [x \in D \X (1..NearSlots) |-> HearNear(x[1], x[2], d)]
           slot == [i \in 1..NearSlots |-> i]
           Walk(w) == w = [s \in SUBSET DOMAIN slot |->
                             IF s = {} THEN g
                             ELSE HearNear(w[s \ {Max(s)}], slot[Max(s)], d)]
<1>1. /\ F \in [D \X (1..NearSlots) -> D] /\ g \in D
      /\ \A x \in D, i \in 1..NearSlots : F[<<x, i>>] = HearNear(x, i, d)
  BY HearsNear DEF Sound
<1> HIDE DEF D, F
<1>2. PICK w : Walked(w, NearSlots, F, g) /\ \A s \in SUBSET (1..NearSlots) : w[s] \in D
  BY <1>1, WalkExists
<1>3. /\ DOMAIN slot = 1..NearSlots /\ \A i \in 1..NearSlots : slot[i] = i
  OBVIOUS
<1> HIDE DEF slot
<1>4. ASSUME NEW s \in SUBSET (1..NearSlots), s # {}
      PROVE  F[<<w[s \ {Max(s)}], Max(s)>>] = HearNear(w[s \ {Max(s)}], slot[Max(s)], d)
  <2>1. Max(s) \in 1..NearSlots  BY <1>4, MaxIsSlot
  <2>2. w[s \ {Max(s)}] \in D  BY <1>2
  <2> QED  BY <1>1, <1>3, <2>1, <2>2
<1>5. Walk(w)
  <2>1. w = [s \in SUBSET (1..NearSlots) |->
               IF s = {} THEN g ELSE F[<<w[s \ {Max(s)}], Max(s)>>]]
    BY <1>2 DEF Walked
  <2> QED  BY <1>3, <1>4, <2>1
<1>6. PICK u : Walk(u) /\ Heard(g, d) = u[DOMAIN slot]
  BY <1>5 DEF Heard, WalkNear, FoldLeft, MapThenFoldSet, slot
<1>7. \A s \in SUBSET (1..NearSlots) :
        u[s] = IF s = {} THEN g ELSE HearNear(u[s \ {Max(s)}], slot[Max(s)], d)
  BY <1>3, <1>6
<1> HIDE DEF Walk
<1> DEFINE v == [n \in Nat |-> u[1..n]]
<1>8. v[0] = g
  <2>1. 1..0 = {} /\ {} \in SUBSET (1..NearSlots)  OBVIOUS
  <2> QED  BY <1>7, <2>1
<1>9. ASSUME NEW n \in Nat, n + 1 <= NearSlots PROVE v[n + 1] = HearNear(v[n], n + 1, d)
  <2>1. 1..n + 1 \in SUBSET (1..NearSlots) /\ n + 1 \in 1..NearSlots
    BY <1>9, NetworkAssumption
  <2>2. Max(1..n + 1) = n + 1
    <3>1. 1..n + 1 \in SUBSET (1..n + 1) /\ n + 1 \in 1..n + 1  OBVIOUS
    <3> QED  BY <3>1, MaxOfInterval
  <2>3. (1..n + 1) \ {n + 1} = 1..n /\ 1..n + 1 # {}  BY NextInterval
  <2>4. u[1..n + 1] = HearNear(u[1..n], slot[n + 1], d)  BY <1>7, <2>1, <2>2, <2>3
  <2> QED  BY <1>3, <2>1, <2>4
<1>10. v[NearSlots] = Heard(g, d)
  BY <1>3, <1>6, NetworkAssumption
<1> HIDE DEF v
<1> QED  BY <1>8, <1>9, <1>10


\* A datagram, heard by every object in turn.
LEMMA DatagramKeeps ==
  ASSUME NEW g, Sound(g), NEW d, NEW h, h = Heard(g, d)
  PROVE  Sound(h) /\ (protocol = "DEXTRA" /\ Steady(g) => Steady(h))
<1>1. PICK v : /\ v[0] = g /\ v[NearSlots] = h
               /\ \A n \in Nat : n + 1 <= NearSlots => v[n + 1] = HearNear(v[n], n + 1, d)
  BY HearWalks
<1> DEFINE P(x) == Sound(x) /\ (protocol = "DEXTRA" /\ Steady(g) => Steady(x))
           S == {n \in Nat : n <= NearSlots => P(v[n])}
<1>2. 0 \in S  BY <1>1
<1>3. ASSUME NEW n \in Nat, n \in S PROVE n + 1 \in S
  <2>1. SUFFICES ASSUME n + 1 <= NearSlots PROVE P(v[n + 1])  OBVIOUS
  <2>2. P(v[n]) /\ n + 1 \in 1..NearSlots  BY <1>3, <2>1, NetworkAssumption
  <2>3. v[n + 1] = HearNear(v[n], n + 1, d)  BY <1>1, <2>1
  <2> QED  BY <2>2, <2>3, HearsNear
<1> HIDE DEF P
<1>4. Nat \subseteq S  BY <1>2, <1>3, Induction
<1>5. P(v[NearSlots])  BY <1>4, NetworkAssumption
<1> QED  BY <1>1, <1>5 DEF P

\* Unlinking leaves no DExtra object that leads to gone.
LEMMA UnlinkKeeps ==
  ASSUME NEW g, Sound(g), NEW gone \in SUBSET Modules, NEW h, h = Unlink(g, gone)
  PROVE  /\ Sound(h)
         /\ protocol = "DEXTRA" /\ Steady(g) =>
              Steady(h) /\ \A i \in Slots(h) : h.links[i].module \notin gone
<1>1. PICK v : /\ v[0] = g /\ v[NearSlots] = h
               /\ \A n \in Nat : n + 1 <= NearSlots => v[n + 1] = UnlinkOne(v[n], n + 1, gone)
  BY UnlinkWalks
<1> DEFINE P(x, n) == /\ Sound(x)
                      /\ protocol = "DEXTRA" /\ Steady(g) =>
                           Steady(x) /\ \A i \in Slots(x) : i <= n => x.links[i].module \notin gone
           S == {n \in Nat : n <= NearSlots => P(v[n], n)}
<1>2. 0 \in S
  <2>1. \A i \in Slots(g) : ~(i <= 0)  BY NetworkAssumption DEF Slots
  <2> QED  BY <1>1, <2>1
<1>3. ASSUME NEW n \in Nat, n \in S PROVE n + 1 \in S
  <2>1. SUFFICES ASSUME n + 1 <= NearSlots PROVE P(v[n + 1], n + 1)  OBVIOUS
  <2>2. P(v[n], n) /\ n + 1 \in 1..NearSlots  BY <1>3, <2>1, NetworkAssumption
  <2> DEFINE x == v[n]
             y == v[n + 1]
  <2>3. y = UnlinkOne(x, n + 1, gone)  BY <1>1, <2>1
  <2>4. /\ Sound(y)
        /\ x.links[n + 1].module \notin gone => y = x
        /\ /\ protocol = "DEXTRA" /\ n + 1 \in Slots(x) /\ x.links[n + 1].module \in gone
           /\ Live(x.links[n + 1].state)
           => Dropped(x, y, n + 1)
    BY <2>2, <2>3, UnlinksOne
  <2>5. ASSUME protocol = "DEXTRA", Steady(g)
        PROVE  Steady(y) /\ \A i \in Slots(y) : i <= n + 1 => y.links[i].module \notin gone
    <3>1. Steady(x) /\ \A i \in Slots(x) : i <= n => x.links[i].module \notin gone
      BY <2>2, <2>5
    <3>2. CASE x.links[n + 1].module \notin gone
      <4>1. \A i \in Slots(x) : i \in Nat  BY NetworkAssumption DEF Slots
      <4>2. \A i \in Slots(x) : i <= n + 1 => x.links[i].module \notin gone
        BY <3>1, <3>2, <4>1
      <4> QED  BY <2>4, <3>1, <3>2, <4>2
    <3>3. CASE x.links[n + 1].module \in gone
      <4>1. n + 1 \in Slots(x)
        <5>1. x.links[n + 1] # Empty  BY <3>3, NetworkAssumption DEF Empty
        <5> QED  BY <2>2, <5>1 DEF Slots
      <4>2. Live(x.links[n + 1].state)  BY <3>1, <4>1 DEF Steady
      <4>3. Dropped(x, y, n + 1)  BY <2>4, <2>5, <3>3, <4>1, <4>2
      <4>4. Steady(y) /\ \A k \in Slots(y) : k > n + 1  BY <2>2, <3>1, <4>3, SteadyDropped
      <4>5. \A k \in Slots(y) : k \in Nat  BY NetworkAssumption DEF Slots
      <4> QED  BY <4>4, <4>5
    <3> QED  BY <3>2, <3>3
  <2> QED  BY <2>4, <2>5
<1> HIDE DEF P
<1>4. Nat \subseteq S  BY <1>2, <1>3, Induction
<1>5. P(v[NearSlots], NearSlots)  BY <1>4, NetworkAssumption
<1>6. \A i \in Slots(h) : i <= NearSlots  BY NetworkAssumption DEF Slots
<1> QED  BY <1>1, <1>5, <1>6 DEF P

\* A DExtra gateway that is to leave its module for m.
Leaving(g, m) ==
  /\ Sound(g) /\ g.remote = m /\ g.relink /\ \A i, j \in Slots(g) : i = j
  /\ \A i \in Slots(g) : Live(g.links[i].state) /\ g.links[i].module # m

(* An order to link again, given while the object leads to another module:  *)
(* afterwards there is at most the object to the new module.                *)
LEMMA RelinkKeeps ==
  ASSUME NEW g, NEW m \in Modules, protocol = "DEXTRA", Leaving(g, m), NEW h, h = Unlink(g, Modules \ {m})
  PROVE  /\ Sound(h) /\ h.remote = m /\ (h.relink => Slots(h) = {})
         /\ \A i, j \in Slots(h) : i = j
         /\ \A i \in Slots(h) : Live(h.links[i].state) /\ h.links[i].module = m
<1> DEFINE gone == Modules \ {m}
<1>2. gone \in SUBSET Modules /\ m \notin gone /\ NoCall \notin gone /\ m # NoCall
      /\ \A c \in Modules : c # m => c \in gone
  BY NetworkAssumption
<1> HIDE DEF gone
<1>1. PICK v : /\ v[0] = g /\ v[NearSlots] = h
               /\ \A n \in Nat : n + 1 <= NearSlots => v[n + 1] = UnlinkOne(v[n], n + 1, gone)
  <2>1. h = Unlink(g, gone)  BY DEF gone
  <2> QED  BY <1>2, <2>1, UnlinkWalks DEF Leaving
<1> DEFINE Changed(x) == /\ ~x.relink /\ x.remote = m
                         /\ \A i, j \in Slots(x) : i = j
                         /\ \A i \in Slots(x) : Live(x.links[i].state) /\ x.links[i].module = m
           P(x, n) == Sound(x) /\ ((x = g /\ \A k \in Slots(g) : k > n) \/ Changed(x))
           S == {n \in Nat : n <= NearSlots => P(v[n], n)}
<1>3. 0 \in S
  <2>1. \A i \in Slots(g) : i > 0  BY NetworkAssumption DEF Slots
  <2> QED  BY <1>1, <2>1 DEF Leaving
<1>4. ASSUME NEW n \in Nat, n \in S PROVE n + 1 \in S
  <2>1. SUFFICES ASSUME n + 1 <= NearSlots PROVE P(v[n + 1], n + 1)  OBVIOUS
  <2>2. P(v[n], n) /\ n + 1 \in 1..NearSlots  BY <1>4, <2>1, NetworkAssumption
  <2> DEFINE x == v[n]
             y == v[n + 1]
  <2>3. y = UnlinkOne(x, n + 1, gone)  BY <1>1, <2>1
  <2>4. /\ Sound(y)
        /\ x.links[n + 1].module \notin gone => y = x
        /\ /\ protocol = "DEXTRA" /\ n + 1 \in Slots(x) /\ x.links[n + 1].module \in gone
           /\ Live(x.links[n + 1].state)
           => Dropped(x, y, n + 1)
    BY <1>2, <2>2, <2>3, UnlinksOne
  <2>5. n + 1 \notin Slots(x) => x.links[n + 1].module = NoCall  BY <2>2 DEF Slots, Empty
  <2>6. CASE Changed(x)
    <3>1. x.links[n + 1].module \in {m, NoCall}  BY <2>5, <2>6
    <3>2. y = x  BY <1>2, <2>4, <3>1
    <3> QED  BY <2>4, <2>6, <3>2
  <2>7. CASE x = g /\ (\A k \in Slots(g) : k > n) /\ n + 1 \notin Slots(g)
    <3>1. y = x  BY <1>2, <2>4, <2>5, <2>7
    <3>2. \A k \in Slots(g) : k \in Nat /\ k # n + 1  BY <2>7, NetworkAssumption DEF Slots
    <3>3. \A k \in Slots(g) : k > n + 1  BY <2>7, <3>2
    <3> QED  BY <2>4, <2>7, <3>1, <3>3
  <2>8. CASE x = g /\ n + 1 \in Slots(g)
    <3>1. x.links[n + 1].module \in gone
      <4>1. g.links[n + 1].module \in Modules  BY <2>8, TakenSlots DEF Sound, Leaving
      <4> QED  BY <1>2, <2>8, <4>1 DEF Leaving
    <3>2. Dropped(g, y, n + 1)  BY <2>4, <2>8, <3>1 DEF Leaving
    <3>3. /\ ~y.relink /\ y.remote = m
          /\ Without(g, y, n + 1) \/ Exchanged(g, y, n + 1, m)
      BY <1>2, <3>2 DEF Dropped, Leaving
    <3>4. \A k \in 1..NearSlots : k # n + 1 => g.links[k] = Empty  BY <2>8 DEF Slots, Leaving
    <3>5. CASE Without(g, y, n + 1)
      <4>1. Slots(y) = {}  BY <3>4, <3>5 DEF Without, Slots
      <4> QED  BY <2>4, <3>3, <4>1
    <3>6. CASE Exchanged(g, y, n + 1, m)
      <4>1. PICK j \in 1..NearSlots, o \in Links :
              /\ j \notin Slots(g) /\ o.module = m /\ o.state = "LINKING"
              /\ \A k \in 1..NearSlots :
                   y.links[k] = IF k = n + 1 THEN Empty ELSE IF k = j THEN o ELSE g.links[k]
        BY <3>6 DEF Exchanged
      <4>2. j # n + 1  BY <2>8, <4>1
      <4>3. Slots(y) = {j} /\ y.links[j] = o  BY <3>4, <4>1, <4>2, TakenSlots DEF Slots
      <4> QED  BY <2>4, <3>3, <4>1, <4>3 DEF Live
    <3> QED  BY <3>3, <3>5, <3>6
  <2> QED  BY <2>2, <2>6, <2>7, <2>8
<1> HIDE DEF P
<1>5. Nat \subseteq S  BY <1>3, <1>4, Induction
<1>6. P(h, NearSlots)  BY <1>1, <1>5, NetworkAssumption
<1>7. \A i \in Slots(g) : i <= NearSlots  BY NetworkAssumption DEF Slots
<1>8. (\A k \in Slots(g) : k > NearSlots) => Slots(g) = {}
  <2>1. \A k \in Slots(g) : k \in Nat  BY NetworkAssumption DEF Slots
  <2> QED  BY <1>7, <2>1, NetworkAssumption
<1> QED  BY <1>6, <1>8 DEF P, Leaving


-------------------------------------------------------------------------------
\* The record keeps to its rules: the pool's always, and those of DExtra.
Kept(g) == Sound(g) /\ (protocol = "DEXTRA" => Steady(g))

\* The repeater is linked to another module, or for the first time.
LEMMA LinkCommandKeeps ==
  ASSUME NEW g, Kept(g), NEW m \in Modules, g.status # "NONE" => m # g.remote,
         NEW h, h = LinkCommand(g, m)
  PROVE  Kept(h)
<1> DEFINE moved == [g EXCEPT !.remote = m]
           bound == [moved EXCEPT !.relink = TRUE]
           u == Unlink(bound, Modules \ {m})
<1>1. g \in Nears /\ Sound(g) /\ m # NoCall  BY NetworkAssumption DEF Kept, Sound
<1>2. CASE g.status = "NONE"
  <2> DEFINE e == Unlink(g, Modules)
  <2>1. /\ Sound(e)
        /\ protocol = "DEXTRA" => Steady(e) /\ \A i \in Slots(e) : e.links[i].module \notin Modules
    BY UnlinkKeeps DEF Kept
  <2>2. h = LinkInt(e, m)  BY <1>2 DEF LinkCommand
  <2> HIDE DEF e
  <2>3. protocol = "DEXTRA" => Slots(e) = {}  BY <2>1, TakenSlots DEF Sound
  <2>4. Sound(h) /\ h.relink = e.relink /\ h.remote = m /\ Extends(e, h, m) /\ h.status = "LINKING"
    BY <1>1, <2>1, <2>2, LinkIntKeeps
  <2>5. ASSUME protocol = "DEXTRA" PROVE Steady(h)
    <3>1. CASE h.links = e.links
      <4>1. Slots(h) = {}  BY <2>3, <2>5, <3>1 DEF Slots
      <4> QED  BY <2>4, <4>1 DEF Steady
    <3>2. CASE h.links # e.links
      <4>1. PICK j \in 1..NearSlots, o \in Links :
              /\ \A k \in 1..NearSlots : k \notin Slots(e) => j <= k
              /\ o.module = m /\ o.state = "LINKING" /\ h.links = [e.links EXCEPT ![j] = o]
        BY <2>4, <3>2 DEF Extends
      <4>2. \A k \in 1..NearSlots : h.links[k] = IF k = j THEN o ELSE Empty
        BY <2>1, <2>3, <2>5, <4>1 DEF Sound, Nears, Slots
      <4>3. Slots(h) = {j} /\ h.links[j] = o  BY <4>2, TakenSlots DEF Slots
      <4>4. j = 1
        <5>1. 1 \in 1..NearSlots  BY NetworkAssumption
        <5> QED  BY <2>3, <2>5, <4>1, <5>1
      <4> QED  BY <2>4, <4>1, <4>3, <4>4 DEF Steady, Live
    <3> QED  BY <3>1, <3>2
  <2> QED  BY <2>4, <2>5 DEF Kept
<1>3. CASE g.status # "NONE" /\ protocol = "DPLUS"
  <2>1. moved \in Nears /\ moved.links = g.links /\ moved.inUse = g.inUse  BY <1>1 DEF Nears
  <2>2. h = Rename(moved, m)  BY <1>3 DEF LinkCommand
  <2> HIDE DEF moved
  <2>3. Sound(moved) /\ Slots(moved) = Slots(g)  BY <1>1, <2>1, SoundStill
  <2>4. CASE Slots(moved) = {}  BY <1>3, <2>2, <2>3, <2>4 DEF Rename, Kept
  <2>5. CASE Slots(moved) # {}
    <3> DEFINE n == Min(Slots(moved))
               q == [moved.links[n] EXCEPT !.module = m]
    <3>1. n \in Slots(moved)
      <4>1. Slots(moved) \in SUBSET Nat  BY NetworkAssumption DEF Slots
      <4> QED  BY <2>5, <4>1, MinIsLeast
    <3> HIDE DEF n
    <3>2. n \in 1..NearSlots /\ moved.links[n] \in Links  BY <2>3, <3>1, TakenSlots DEF Sound
    <3>3. q \in Links /\ q.port = moved.links[n].port  BY <3>2 DEF Links
    <3>4. h = [moved EXCEPT !.links[n].module = m]  BY <2>2, <2>5 DEF Rename, n
    <3>5. Alters(moved, h, n, q)  BY <2>1, <3>2, <3>4 DEF Alters, Nears
    <3> HIDE DEF q
    <3>6. Sound(h)  BY <2>3, <3>1, <3>3, <3>5, Changes
    <3> QED  BY <1>3, <3>6 DEF Kept
  <2> QED  BY <2>4, <2>5
<1>4. CASE g.status # "NONE" /\ protocol # "DPLUS"
  <2>1. /\ bound \in Nears /\ bound.links = g.links /\ bound.inUse = g.inUse
        /\ bound.remote = m /\ bound.relink
    BY <1>1 DEF Nears
  <2>2. h = [u EXCEPT !.status = "LINKING"]  BY <1>4 DEF LinkCommand
  <2>3. u = Unlink(bound, Modules \ {m})  OBVIOUS
  <2> HIDE DEF bound, u
  <2>4. Sound(bound) /\ Slots(bound) = Slots(g)  BY <1>1, <2>1, SoundStill
  <2>5. Modules \ {m} \in SUBSET Modules  OBVIOUS
  <2>6. Sound(u)  BY <2>3, <2>4, <2>5, UnlinkKeeps
  <2>7. /\ h \in Nears /\ h.links = u.links /\ h.inUse = u.inUse
        /\ h.status = "LINKING" /\ h.remote = u.remote /\ h.relink = u.relink
    BY <2>2, <2>6 DEF Sound, Nears
  <2>8. Sound(h) /\ Slots(h) = Slots(u)  BY <2>6, <2>7, SoundStill
  <2>9. ASSUME protocol = "DEXTRA" PROVE Steady(h)
    <3>1. Steady(g)  BY <2>9 DEF Kept
    <3>2. /\ \A i, j \in Slots(bound) : i = j
          /\ \A i \in Slots(bound) : Live(bound.links[i].state) /\ bound.links[i].module # m
      BY <1>4, <2>1, <2>4, <3>1 DEF Steady
    <3>3. /\ u.remote = m /\ (u.relink => Slots(u) = {})
          /\ \A i, j \in Slots(u) : i = j
          /\ \A i \in Slots(u) : Live(u.links[i].state) /\ u.links[i].module = m
      <4>1. Leaving(bound, m)  BY <2>1, <2>4, <3>2 DEF Leaving
      <4> QED  BY <2>3, <2>9, <4>1, RelinkKeeps
    <3> QED  BY <2>7, <2>8, <3>3 DEF Steady
  <2> QED  BY <2>8, <2>9 DEF Kept
<1> QED  BY <1>2, <1>3, <1>4

\* The user's unlink: afterwards the repeater has no object that works.
LEMMA UnlinkCommandKeeps ==
  ASSUME NEW g, Kept(g), NEW h, h = NotLinked(Unlink(g, Modules))
  PROVE  Kept(h)
<1> DEFINE e == Unlink(g, Modules)
<1>1. /\ Sound(e)
      /\ protocol = "DEXTRA" => Steady(e) /\ \A i \in Slots(e) : e.links[i].module \notin Modules
  BY UnlinkKeeps DEF Kept
<1>2. h = NotLinked(e)  OBVIOUS
<1> HIDE DEF e
<1>3. /\ Sound(h) /\ Slots(h) = Slots(e) /\ h.status = "NONE"
  BY <1>1, <1>2, NotLinkedKeeps
<1>4. protocol = "DEXTRA" => Slots(h) = {}  BY <1>1, <1>3, TakenSlots DEF Sound
<1> QED  BY <1>3, <1>4 DEF Kept, Steady


\* The clock of one object, with the inactivity timer expired or not; the gateway's own stop.
Expires(g, i, h) ==
  LET e == [g EXCEPT !.status = "LINKING",
                     !.links[i] = [g.links[i] EXCEPT !.state = "LINKING", !.trying = TRUE,
                                                     !.idle = Started]]
  IN h = IF KeepsTrying(g, g.links[i].module) THEN Send(e, {"LINK1"}, g.links[i]) ELSE Free(g, i)

\* The clock goes on, and sends what is due.
Ticks(g, i, types, h) ==
  h = Send([g EXCEPT !.links[i].idle = Tick(@, PollTimeout)], types, g.links[i])

\* The gateway is stopped.
Stops(g, sent, h) ==
  h = [NotLinked(g) EXCEPT !.relink = FALSE, !.links = [i \in 1..NearSlots |-> Empty],
                           !.inUse = {}, !.sent = sent]

\* An object that heard nothing for too long starts anew, or goes.
LEMMA ExpiredKeeps ==
  ASSUME NEW g, Kept(g), NEW i \in Slots(g), NEW h, Expires(g, i, h)
  PROVE  Kept(h)
<1> DEFINE o == g.links[i]
<1>1. Sound(g) /\ g \in Nears /\ o \in Links /\ i \in 1..NearSlots
  BY TakenSlots DEF Kept, Sound
<1>2. CASE KeepsTrying(g, o.module)
  <2> DEFINE q == [o EXCEPT !.state = "LINKING", !.trying = TRUE, !.idle = Started]
             e == [g EXCEPT !.status = "LINKING", !.links[i] = q]
             f == [g EXCEPT !.links[i] = q]
  <2>1. q \in Links /\ q.port = o.port /\ q.module = o.module /\ q.state = "LINKING"
    <3>1. Started \in 0..PollTimeout  BY NetworkAssumption DEF Started
    <3> QED  BY <1>1, <3>1 DEF Links
  <2>2. Alters(g, f, i, q)  BY DEF Alters
  <2>3. {"LINK1"} \in SUBSET Requests /\ h = Send(e, {"LINK1"}, o)
    BY <1>2 DEF Requests, Expires
  <2> HIDE DEF q
  <2>4. /\ e \in Nears /\ e.links = f.links /\ e.inUse = f.inUse
        /\ e.status = "LINKING" /\ e.remote = g.remote /\ e.relink = g.relink
    BY <1>1, <2>1 DEF Nears
  <2> HIDE DEF e, f
  <2>5. Sound(f) /\ Slots(f) = Slots(g) /\ f.links = [g.links EXCEPT ![i] = q]
    BY <1>1, <2>1, <2>2, Changes
  <2>6. Sound(e) /\ Slots(e) = Slots(g)  BY <2>4, <2>5, SoundStill
  <2>7. /\ Sound(h) /\ Slots(h) = Slots(e) /\ h.links = e.links
        /\ h.status = e.status /\ h.remote = e.remote /\ h.relink = e.relink
    BY <1>1, <2>3, <2>6, Sends
  <2>8. ASSUME protocol = "DEXTRA" PROVE Steady(h)
    <3>1. Steady(g)  BY <2>8 DEF Kept
    <3>2. \A k \in 1..NearSlots : h.links[k] = IF k = i THEN q ELSE g.links[k]
      <4>1. h.links = [g.links EXCEPT ![i] = q]  BY <2>4, <2>5, <2>7
      <4>2. g.links = [k \in 1..NearSlots |-> g.links[k]]  BY <1>1 DEF Nears
      <4> QED  BY <4>1, <4>2
    <3>3. \A k \in Slots(g) : h.links[k].module = g.links[k].module /\ Live(h.links[k].state)
      BY <2>1, <3>1, <3>2 DEF Steady, Slots, Live
    <3> QED  BY <2>4, <2>6, <2>7, <3>1, <3>3, SteadyKept
  <2> QED  BY <2>7, <2>8 DEF Kept
<1>3. CASE ~KeepsTrying(g, o.module)
  <2>1. h = Free(g, i)  BY <1>3 DEF Expires
  <2>2. Sound(h)  BY <1>1, <2>1, Frees
  <2>3. protocol # "DEXTRA"  BY <1>3 DEF Kept, Steady, KeepsTrying
  <2> QED  BY <2>2, <2>3 DEF Kept
<1> QED  BY <1>2, <1>3

\* A tick changes no more than a timer.
LEMMA TickKeeps ==
  ASSUME NEW g, Kept(g), NEW i \in Slots(g), NEW types \in SUBSET Requests,
         NEW h, Ticks(g, i, types, h)
  PROVE  Kept(h)
<1> DEFINE o == g.links[i]
           q == [o EXCEPT !.idle = Tick(@, PollTimeout)]
           e == [g EXCEPT !.links[i].idle = Tick(@, PollTimeout)]
<1>1. Sound(g) /\ g \in Nears /\ o \in Links /\ i \in 1..NearSlots
  BY TakenSlots DEF Kept, Sound
<1>2. q \in Links /\ q.port = o.port /\ q.module = o.module /\ q.state = o.state
  <2>1. o.idle \in 0..PollTimeout  BY <1>1 DEF Links
  <2>2. Tick(o.idle, PollTimeout) \in 0..PollTimeout
    BY <2>1, NetworkAssumption DEF Tick, IsRunning
  <2> QED  BY <1>1, <2>2 DEF Links
<1>3. Alters(g, e, i, q) /\ h = Send(e, types, o)  BY <1>1 DEF Alters, Nears, Ticks
<1> HIDE DEF q, e
<1>4. /\ Sound(e) /\ Slots(e) = Slots(g) /\ e.links = [g.links EXCEPT ![i] = q]
      /\ e.status = g.status /\ e.remote = g.remote /\ e.relink = g.relink
  BY <1>1, <1>2, <1>3, Changes
<1>5. /\ Sound(h) /\ Slots(h) = Slots(e) /\ h.links = e.links
      /\ h.status = e.status /\ h.remote = e.remote /\ h.relink = e.relink
  BY <1>1, <1>3, <1>4, Sends
<1>6. ASSUME protocol = "DEXTRA" PROVE Steady(h)
  <2>1. \A k \in 1..NearSlots : h.links[k] = IF k = i THEN q ELSE g.links[k]
    BY <1>1, <1>4, <1>5 DEF Nears
  <2>2. \A k \in Slots(g) : h.links[k].module = g.links[k].module /\ h.links[k].state = g.links[k].state
    BY <1>2, <2>1 DEF Slots
  <2> QED  BY <1>4, <1>5, <1>6, <2>2 DEF Kept, Steady
<1> QED  BY <1>5, <1>6 DEF Kept

\* After a stop there are no objects and no ports in use.
LEMMA StopKeeps ==
  ASSUME NEW g, Kept(g), NEW sent \in SUBSET Messages, NEW h, Stops(g, sent, h)
  PROVE  Kept(h)
<1> DEFINE e == NotLinked(g)
<1>1. e \in Nears /\ e.status = "NONE"  BY NotLinkedKeeps DEF Kept, Sound
<1>2. h = [e EXCEPT !.relink = FALSE, !.links = [i \in 1..NearSlots |-> Empty], !.inUse = {},
                    !.sent = sent]
  BY DEF Stops
<1> HIDE DEF e
<1>3. /\ h.inUse = {} /\ ~h.relink /\ h.links = [i \in 1..NearSlots |-> Empty]
      /\ h.status = "NONE"
  BY <1>1, <1>2 DEF Nears
<1>4. h \in Nears  BY <1>1, <1>2 DEF Nears
<1>5. Slots(h) = {}  BY <1>3 DEF Slots
<1> QED  BY <1>3, <1>4, <1>5 DEF Kept, Sound, Steady

-------------------------------------------------------------------------------
\* The datagrams a step can send are finitely many.
LEMMA MessagesFinite == IsFiniteSet(Messages)
<1> DEFINE A == {"near", "far"} \X Ports
           B == (Modules \cup {NoCall}) \X (Requests \cup Answers)
           make == [x \in A \X B |-> [to |-> x[1][1], port |-> x[1][2],
                                      module |-> x[2][1], type |-> x[2][2]]]
<1>1. IsFiniteSet({"near", "far"}) /\ IsFiniteSet(Requests \cup Answers)
  <2>1. IsFiniteSet({})  BY FS_EmptySet
  <2>2. IsFiniteSet({"near"}) /\ IsFiniteSet({"LINK1"})  BY FS_Singleton
  <2>3. IsFiniteSet({"near"} \cup {"far"}) /\ IsFiniteSet({"LINK1"} \cup {"LINK2"})
    BY <2>2, FS_AddElement
  <2>4. IsFiniteSet(({"LINK1"} \cup {"LINK2"}) \cup {"UNLINK"})  BY <2>3, FS_AddElement
  <2>5. IsFiniteSet((({"LINK1"} \cup {"LINK2"}) \cup {"UNLINK"}) \cup {"POLL"})
    BY <2>4, FS_AddElement
  <2>6. IsFiniteSet(((({"LINK1"} \cup {"LINK2"}) \cup {"UNLINK"}) \cup {"POLL"}) \cup {"ACK"})
    BY <2>5, FS_AddElement
  <2>7. IsFiniteSet((((({"LINK1"} \cup {"LINK2"}) \cup {"UNLINK"}) \cup {"POLL"}) \cup {"ACK"})
                    \cup {"NAK"})
    BY <2>6, FS_AddElement
  <2>8. /\ {"near", "far"} = {"near"} \cup {"far"}
        /\ Requests \cup Answers =
             (((({"LINK1"} \cup {"LINK2"}) \cup {"UNLINK"}) \cup {"POLL"}) \cup {"ACK"})
               \cup {"NAK"}
    BY DEF Requests, Answers
  <2> QED  BY <2>3, <2>7, <2>8
<1>2. IsFiniteSet(Modules \cup {NoCall})  BY NetworkAssumption, FS_AddElement
<1>3. IsFiniteSet(A)  BY <1>1, NetworkAssumption, FS_Product
<1>4. IsFiniteSet(B)  BY <1>1, <1>2, FS_Product
<1>5. IsFiniteSet(A \X B)  BY <1>3, <1>4, FS_Product
<1>6. make \in Surjection(A \X B, Messages)
  <2>1. \A x \in A \X B : make[x] \in Messages  BY DEF Messages
  <2>2. ASSUME NEW d \in Messages PROVE \E x \in A \X B : make[x] = d
    <3>1. /\ <<d.to, d.port>> \in A /\ <<d.module, d.type>> \in B  BY <2>2 DEF Messages
    <3>2. make[<<<<d.to, d.port>>, <<d.module, d.type>>>>] = d  BY <2>2, <3>1 DEF Messages
    <3> QED  BY <3>1, <3>2
  <2> QED  BY <2>1, <2>2 DEF Surjection
<1> HIDE DEF make, A, B
<1> QED  BY <1>5, <1>6, FS_Surjection

\* What a step of either gateway leaves of the network.
LEMMA TransmitKeeps ==
  ASSUME TypeOK, NEW received, NEW new \in SUBSET Messages, NEW spent \in Nat,
         Transmit(received, new, spent)
  PROVE  net' \subseteq Messages /\ troubles' \in 0..Troubles[protocol]
<1>1. PICK lost \in SUBSET new :
        LET flying == (net \ received) \cup (new \ lost)
            cost   == spent + Cardinality(lost)
        IN cost <= troubles /\ troubles' = troubles - cost /\ net' = flying
  BY DEF Transmit
<1>2. Cardinality(lost) \in Nat
  BY MessagesFinite, FS_Subset, FS_CardinalityType
<1>3. Troubles[protocol] \in Nat  BY NetworkAssumption DEF TypeOK
<1>4. troubles \in 0..Troubles[protocol] /\ net \subseteq Messages  BY DEF TypeOK
<1> QED  BY <1>1, <1>2, <1>3, <1>4


-------------------------------------------------------------------------------
\* What every reachable state satisfies.
IInv == TypeOK /\ Kept(near)

\* A step of the near gateway that makes it h.
LEMMA Becomes ==
  ASSUME IInv, NEW h, Kept(h), NEW received, NEW spent \in Nat, Become(h, received, spent)
  PROVE  IInv'
<1>1. h \in Nears /\ Sound(h)  BY DEF Kept, Sound
<1>2. h.sent \in SUBSET Messages  BY <1>1 DEF Nears
<1>3. net' \subseteq Messages /\ troubles' \in 0..Troubles[protocol]
  BY <1>2, TransmitKeeps DEF Become, IInv
<1>4. near' = [h EXCEPT !.sent = {}] /\ protocol' = protocol /\ far' = far  BY DEF Become
<1> DEFINE e == [h EXCEPT !.sent = {}]
<1>5. /\ e \in Nears /\ e.links = h.links /\ e.inUse = h.inUse /\ e.sent = {}
      /\ e.status = h.status /\ e.remote = h.remote /\ e.relink = h.relink
  BY <1>1 DEF Nears
<1>6. e \in NearStates  BY <1>1 DEF Nears, NearStates
<1> HIDE DEF e
<1>7. Sound(e) /\ Slots(e) = Slots(h)  BY <1>1, <1>5, SoundStill
<1>8. protocol = "DEXTRA" => Steady(e)  BY <1>5, <1>7 DEF Kept, Steady
<1>9. near' = e  BY <1>4 DEF e
<1>10. TypeOK'  BY <1>3, <1>4, <1>6, <1>9 DEF TypeOK, IInv
<1>11. Sound(near)'  BY <1>7, <1>9 DEF Sound, Slots
<1>12. (protocol = "DEXTRA" => Steady(near))'  BY <1>4, <1>8, <1>9 DEF Steady, Slots
<1> QED  BY <1>10, <1>11, <1>12 DEF IInv, Kept

\* A step of the far gateway.
LEMMA FarBecomes ==
  ASSUME IInv, NEW t \in [1..FarSlots -> Incoming \cup {Empty}], NEW received,
         NEW new \in SUBSET Messages, NEW spent \in Nat, FarBecome(t, received, new, spent)
  PROVE  IInv'
<1>1. net' \subseteq Messages /\ troubles' \in 0..Troubles[protocol]
  BY TransmitKeeps DEF FarBecome, IInv
<1>2. far' = t /\ protocol' = protocol /\ near' = near  BY DEF FarBecome
<1>3. TypeOK'  BY <1>1, <1>2 DEF TypeOK, IInv
<1>4. Kept(near)'  BY <1>2 DEF IInv, Kept, Sound, Steady, Slots
<1> QED  BY <1>3, <1>4 DEF IInv


\* The commands of the user and of the remote control.
LEMMA CommandStep == ASSUME IInv, Command PROVE IInv'
<1>1. Kept(near)  BY DEF IInv
<1>2. ASSUME NEW m \in Modules, near.status # "NONE" => m # near.remote,
             Become(LinkCommand(near, m), {}, 1)
      PROVE  IInv'
  <2>1. Kept(LinkCommand(near, m))  BY <1>1, <1>2, LinkCommandKeeps
  <2> QED  BY <1>2, <2>1, Becomes
<1>3. ASSUME Become(NotLinked(Unlink(near, Modules)), {}, 1) PROVE IInv'
  <2>1. Kept(NotLinked(Unlink(near, Modules)))  BY <1>1, UnlinkCommandKeeps
  <2> QED  BY <1>3, <2>1, Becomes
<1>4. ASSUME NEW m \in Modules, Become(Unlink(near, {m}), {}, 1) PROVE IInv'
  <2>1. {m} \in SUBSET Modules  OBVIOUS
  <2>2. Kept(Unlink(near, {m}))  BY <1>1, <2>1, UnlinkKeeps DEF Kept
  <2> QED  BY <1>4, <2>2, Becomes
<1> QED  BY <1>2, <1>3, <1>4 DEF Command

\* A datagram for the near gateway.
LEMMA NearHearsStep ==
  ASSUME IInv, NEW port, NEW type, NearHears(port, type)
  PROVE  IInv'
<1>1. PICK d \in net : Become(Heard(near, d), {d}, 0)  BY DEF NearHears, Heard
<1>2. Kept(Heard(near, d))  BY DatagramKeeps DEF IInv, Kept
<1> QED  BY <1>1, <1>2, Becomes

\* The clock of a near object.
LEMMA NearClockStep == ASSUME IInv, NEW i \in 1..NearSlots, NearClock(i) PROVE IInv'
<1> DEFINE o == near.links[i]
           e == [near EXCEPT !.status = "LINKING",
                             !.links[i] = [o EXCEPT !.state = "LINKING", !.trying = TRUE,
                                                    !.idle = Started]]
           expired == IF KeepsTrying(near, o.module) THEN Send(e, {"LINK1"}, o) ELSE Free(near, i)
           ticked(types) == Send([near EXCEPT !.links[i].idle = Tick(@, PollTimeout)], types, o)
<1>1. Kept(near) /\ i \in Slots(near)  BY DEF IInv, NearClock, Slots
<1>2. \/ Become(expired, {}, 0)
      \/ \E types \in SUBSET Requests : Become(ticked(types), {}, 0)
  <2> DEFINE polls == IF o.polling /\ (protocol = "DPLUS" \/ o.state = "LINKED")
                      THEN {"POLL"} ELSE {}
             tries == IF ~o.trying \/ (protocol = "DEXTRA" /\ o.state # "LINKING") THEN {}
                      ELSE CASE o.state = "LINKING" -> {"LINK1"}
                             [] o.state = "UNLINKING" -> {"UNLINK"}
                             [] OTHER -> {}
  <2>1. \/ Become(expired, {}, 0)
        \/ \E due \in SUBSET tries : Become(ticked(due \cup polls), {}, 0)
    BY DEF NearClock
  <2>2. polls \subseteq Requests /\ tries \subseteq Requests  BY DEF Requests
  <2> HIDE DEF polls, tries, expired, ticked
  <2> QED  BY <2>1, <2>2
<1>3. CASE Become(expired, {}, 0)
  <2>1. Expires(near, i, expired)  BY DEF Expires
  <2> HIDE DEF expired
  <2>2. Kept(expired)  BY <1>1, <2>1, ExpiredKeeps
  <2> QED  BY <1>3, <2>2, Becomes
<1>4. ASSUME NEW types \in SUBSET Requests, Become(ticked(types), {}, 0) PROVE IInv'
  <2>1. Ticks(near, i, types, ticked(types))  BY DEF Ticks
  <2> HIDE DEF ticked
  <2>2. Kept(ticked(types))  BY <1>1, <2>1, TickKeeps
  <2> QED  BY <1>4, <2>2, Becomes
<1> HIDE DEF expired, ticked
<1> QED  BY <1>2, <1>3, <1>4

\* The near gateway is stopped and started.
LEMMA NearStopsStep == ASSUME IInv, NearStops PROVE IInv'
<1> DEFINE sent == {To("far", "UNLINK", near.links[i].port, NoCall) : i \in Slots(near)}
           h == [NotLinked(near) EXCEPT
                   !.relink = FALSE, !.links = [i \in 1..NearSlots |-> Empty], !.inUse = {},
                   !.sent = sent]
<1>1. sent \in SUBSET Messages
  <2>1. \A i \in Slots(near) : near.links[i].port \in Ports
    BY TakenSlots DEF IInv, Kept, Sound, Links
  <2> QED  BY <2>1 DEF To, Messages, Requests
<1>2. Become(h, {}, 1)  BY DEF NearStops
<1> HIDE DEF sent
<1>3. Stops(near, sent, h)  BY DEF Stops
<1> HIDE DEF h
<1>4. Kept(h)  BY <1>1, <1>3, StopKeeps DEF IInv
<1> QED  BY <1>2, <1>4, Becomes

\* The tables the far gateway's steps leave.
LEMMA FarHearsStep ==
  ASSUME IInv, NEW port \in Ports, NEW type, FarHears(port, type)
  PROVE  IInv'
<1>1. PICK d \in net : /\ d.port = port
                       /\ FarLinks(d) \/ FarLogsIn(d) \/ FarUnlinks(d) \/ FarPolled(d)
  BY DEF FarHears
<1>2. /\ far \in [1..FarSlots -> Incoming \cup {Empty}] /\ d.port \in Ports
      /\ d.module \in Modules \cup {NoCall}
  BY <1>1 DEF IInv, TypeOK, Messages
<1>3. \A j \in 1..FarSlots : far[j] # Empty => far[j] \in Incoming  BY <1>2
<1>4. {} \in SUBSET Messages /\ \A a \in Answers : FarReply(d, a) \in Messages
  BY <1>2 DEF FarReply, To, Messages
<1>5. Started \in 0..PollTimeout  BY NetworkAssumption DEF Started
<1>6. CASE FarLinks(d)
  <2> DEFINE free == 1..FarSlots \ FarTaken
             n == Min(free)
             o == [module |-> d.module, port |-> d.port, idle |-> Started,
                   state |-> IF protocol = "DPLUS" THEN "LINKING" ELSE "LINKED"]
             t == [far EXCEPT ![n] = o]
             answers == CASE protocol = "DPLUS" -> {"LINK1"} [] protocol = "DCS" -> {"ACK"}
                          [] OTHER -> {"ACK", "POLL"}
  <2>1. \/ FarBecome(far, {d}, {}, 0) \/ FarBecome(far, {d}, {FarReply(d, "NAK")}, 0)
        \/ free # {} /\ FarBecome(t, {d}, {FarReply(d, a) : a \in answers}, 0)
    BY <1>6 DEF FarLinks
  <2>2. free # {} => n \in 1..FarSlots
    <3>1. free \in SUBSET Nat /\ free \subseteq 1..FarSlots  BY NetworkAssumption
    <3> HIDE DEF free
    <3> QED  BY <3>1, MinIsLeast
  <2>3. o \in Incoming  BY <1>2, <1>5 DEF Incoming
  <2> HIDE DEF free, o, n
  <2>4. free # {} => t \in [1..FarSlots -> Incoming \cup {Empty}]  BY <1>2, <2>2, <2>3
  <2>5. answers \subseteq Answers  BY DEF Answers
  <2> HIDE DEF answers, t
  <2>6. {FarReply(d, a) : a \in answers} \in SUBSET Messages  BY <1>4, <2>5
  <2>7. {FarReply(d, "NAK")} \in SUBSET Messages  BY <1>4 DEF Answers
  <2> QED  BY <1>2, <1>4, <2>1, <2>4, <2>6, <2>7, FarBecomes
<1>7. CASE FarLogsIn(d)
  <2> DEFINE t == [j \in 1..FarSlots |-> IF j \in From(d.port)
                                         THEN [far[j] EXCEPT !.state = "LINKED"] ELSE far[j]]
  <2>1. \/ FarBecome(far, {d}, {}, 0) \/ FarBecome(far, {d}, {FarReply(d, "NAK")}, 1)
        \/ FarBecome(t, {d}, {FarReply(d, "ACK")}, 0)
    BY <1>7 DEF FarLogsIn
  <2>2. t \in [1..FarSlots -> Incoming \cup {Empty}]
    <3>1. \A o \in Incoming : [o EXCEPT !.state = "LINKED"] \in Incoming  BY DEF Incoming
    <3> QED  BY <1>2, <1>3, <3>1 DEF From, FarTaken
  <2> HIDE DEF t
  <2>3. {FarReply(d, "NAK")} \in SUBSET Messages /\ {FarReply(d, "ACK")} \in SUBSET Messages
    BY <1>4 DEF Answers
  <2> QED  BY <1>2, <1>4, <2>1, <2>2, <2>3, FarBecomes
<1>8. CASE FarUnlinks(d)
  <2> DEFINE t == [j \in 1..FarSlots |-> IF j \in From(d.port) THEN Empty ELSE far[j]]
  <2>1. PICK new \in {{FarReply(d, "UNLINK")}, {}} : FarBecome(t, {d}, new, 0)
    BY <1>8 DEF FarUnlinks
  <2>2. t \in [1..FarSlots -> Incoming \cup {Empty}]  BY <1>2
  <2> HIDE DEF t
  <2>3. new \in SUBSET Messages  BY <1>4, <2>1 DEF Answers
  <2> QED  BY <2>1, <2>2, <2>3, FarBecomes
<1>9. CASE FarPolled(d)
  <2>1. PICK fresh \in SUBSET From(d.port) :
          FarBecome([j \in 1..FarSlots |-> IF j \in fresh THEN [far[j] EXCEPT !.idle = Started]
                                           ELSE far[j]], {d}, {}, 0)
    BY <1>9 DEF FarPolled
  <2> DEFINE t == [j \in 1..FarSlots |-> IF j \in fresh THEN [far[j] EXCEPT !.idle = Started]
                                         ELSE far[j]]
  <2>2. t \in [1..FarSlots -> Incoming \cup {Empty}]
    <3>1. \A o \in Incoming : [o EXCEPT !.idle = Started] \in Incoming  BY <1>5 DEF Incoming
    <3> QED  BY <1>2, <1>3, <2>1, <3>1 DEF From, FarTaken
  <2>3. FarBecome(t, {d}, {}, 0)  BY <2>1
  <2> HIDE DEF t
  <2> QED  BY <1>4, <2>2, <2>3, FarBecomes
<1> QED  BY <1>1, <1>6, <1>7, <1>8, <1>9

\* The clock of an incoming object.
LEMMA FarClockStep == ASSUME IInv, NEW j \in 1..FarSlots, FarClock(j) PROVE IInv'
<1> DEFINE o == far[j]
           idle == Tick(o.idle, PollTimeout)
           answer == To("near", "POLL", o.port, IF protocol = "DCS" THEN o.module ELSE NoCall)
           gone == [far EXCEPT ![j] = Empty]
           later == [far EXCEPT ![j].idle = idle]
<1>1. far \in [1..FarSlots -> Incoming \cup {Empty}] /\ o \in Incoming
  BY DEF FarClock, IInv, TypeOK
<1>2. idle \in 0..PollTimeout
  <2>1. o.idle \in 0..PollTimeout  BY <1>1 DEF Incoming
  <2> QED  BY <2>1, NetworkAssumption DEF Tick, IsRunning
<1>3. FarBecome(gone, {}, {}, 0) \/ FarBecome(later, {}, {answer}, 0)  BY DEF FarClock
<1> HIDE DEF idle
<1>4. gone \in [1..FarSlots -> Incoming \cup {Empty}]  BY <1>1
<1>5. later \in [1..FarSlots -> Incoming \cup {Empty}]
  <2>1. [o EXCEPT !.idle = idle] \in Incoming  BY <1>1, <1>2 DEF Incoming
  <2> QED  BY <1>1, <2>1
<1>6. {answer} \in SUBSET Messages  BY <1>1 DEF To, Messages, Incoming, Answers
<1> HIDE DEF gone, later, answer
<1>7. {} \in SUBSET Messages  OBVIOUS
<1> QED  BY <1>3, <1>4, <1>5, <1>6, <1>7, FarBecomes

\* The far gateway is stopped and started.
LEMMA FarStopsStep == ASSUME IInv, FarStops PROVE IInv'
<1> DEFINE t == [j \in 1..FarSlots |-> Empty]
           new == {To("near", "UNLINK", far[j].port, far[j].module) : j \in FarTaken}
<1>1. t \in [1..FarSlots -> Incoming \cup {Empty}]  OBVIOUS
<1>2. new \in SUBSET Messages
  <2>1. \A j \in FarTaken : far[j] \in Incoming  BY DEF FarTaken, IInv, TypeOK
  <2> QED  BY <2>1 DEF To, Messages, Incoming, Answers
<1>3. FarBecome(t, {}, new, 1)  BY DEF FarStops
<1> HIDE DEF t, new
<1> QED  BY <1>1, <1>2, <1>3, FarBecomes

\* The invariant holds at first.
LEMMA Start == Init => IInv
<1> SUFFICES ASSUME Init PROVE IInv  OBVIOUS
<1>1. Troubles[protocol] \in Nat  BY NetworkAssumption DEF Init
<1>2. TypeOK  BY <1>1, NetworkAssumption DEF Init, TypeOK, NearStates
<1>3. near \in Nears /\ near.inUse = {} /\ Slots(near) = {} /\ near.status = "NONE"
  BY DEF Init, Nears, Slots
<1>4. Kept(near)  BY <1>3 DEF Kept, Sound, Steady
<1> QED  BY <1>2, <1>4 DEF IInv

\* Every step keeps it.
LEMMA Inductive == IInv /\ [Next]_vars => IInv'
<1> SUFFICES ASSUME IInv, [Next]_vars PROVE IInv'  OBVIOUS
<1>1. CASE Command  BY <1>1, CommandStep
<1>2. CASE NearStops  BY <1>2, NearStopsStep
<1>3. CASE FarStops  BY <1>3, FarStopsStep
<1>4. CASE Hears  BY <1>4, NearHearsStep, FarHearsStep DEF Hears
<1>5. CASE Clocks  BY <1>5, NearClockStep, FarClockStep DEF Clocks
<1>6. CASE UNCHANGED vars
  BY <1>6 DEF vars, IInv, TypeOK, Kept, Sound, Steady, Slots
<1> QED  BY <1>1, <1>2, <1>3, <1>4, <1>5, <1>6 DEF Next

\* It holds at all times.
LEMMA Always == Spec => []IInv
BY Start, Inductive, PTL DEF Spec

(* TypeOK: whatever arrives at whatever time, the records of both gateways  *)
(* hold what they are to hold, and no more troubles are spent than there    *)
(* are.                                                                     *)
THEOREM TypeCorrect == Spec => []TypeOK
<1>1. IInv => TypeOK  BY DEF IInv
<1> QED  BY <1>1, Always, PTL

(* PoolMatches: a port is in use as long as there is an object that has it, *)
(* and no two objects have the same one, for every protocol, every size of  *)
(* the pool and of the table, and whatever is lost or late.                 *)
THEOREM PoolInStep == Spec => []PoolMatches
<1>1. IInv => PoolMatches  BY DEF IInv, Kept, Sound, PoolMatches
<1> QED  BY <1>1, Always, PTL

(* DExtraAgrees: what a DExtra repeater thinks of its link agrees with the  *)
(* objects that there are, also when a callback has linked into the table   *)
(* that was being walked.                                                   *)
THEOREM RepeaterAgrees == Spec => []DExtraAgrees
<1>1. IInv => DExtraAgrees
  <2> SUFFICES ASSUME IInv, protocol = "DEXTRA"
               PROVE  LET live == {i \in Slots(near) : Live(near.links[i].state)} IN
                      /\ \A i, j \in live : i = j
                      /\ near.status = "NONE" => live = {}
                      /\ near.status = "LINKED" =>
                           \E i \in live : /\ near.links[i].state = "LINKED"
                                           /\ near.links[i].module = near.remote
    BY DEF DExtraAgrees
  <2>1. Steady(near)  BY DEF IInv, Kept
  <2> QED  BY <2>1 DEF Steady
<1> QED  BY <1>1, Always, PTL
====================================================================================
