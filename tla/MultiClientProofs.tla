-------------------------- MODULE MultiClientProofs --------------------------
(***************************************************************************)
(* For any number of networks, callsigns, questions and broadcasts: a      *)
(* query that waits has enough answers on their way to be completed.  What *)
(* is on its way are the places in the queues of the networks that hold a  *)
(* question or an answer for the callsign; the first half of this module   *)
(* counts them.                                                            *)
(***************************************************************************)
EXTENDS IRCDDBMultiClient, FiniteSetTheorems, TLAPS

-----------------------------------------------------------------------------
(* Counting.                                                               *)

\* The places of a queue that hold an element of K.
At(q, K) == {i \in DOMAIN q : q[i] \in K}

\* The elements of a family of sets, told apart by their index.
Spread(F) == UNION {{x} \X F[x] : x \in DOMAIN F}

\* A family of finite sets over a finite index set.
FiniteFamily(F) == IsFiniteSet(DOMAIN F) /\ \A x \in DOMAIN F : IsFiniteSet(F[x])

\* Only finitely many places.
LEMMA PlacesFinite ==
  ASSUME NEW S, NEW q \in Seq(S), NEW K
  PROVE  IsFiniteSet(At(q, K))
<1>1. IsFiniteSet(1 .. Len(q))
  BY FS_Interval
<1>2. At(q, K) \in SUBSET (1 .. Len(q))
  BY DEF At
<1> QED
  BY <1>1, <1>2, FS_Subset

\* What is appended leaves the places before it as they are.
LEMMA AppendPlaces ==
  ASSUME NEW S, NEW q \in Seq(S), NEW a \in S, NEW K
  PROVE  /\ At(q, K) \subseteq At(Append(q, a), K)
         /\ Len(q) + 1 \notin At(q, K)
         /\ a \in K => Len(q) + 1 \in At(Append(q, a), K)
         /\ Cardinality(At(Append(q, a), K)) =
              Cardinality(At(q, K)) + IF a \in K THEN 1 ELSE 0
<1>1. /\ DOMAIN Append(q, a) = 1 .. Len(q) + 1 /\ DOMAIN q = 1 .. Len(q) /\ Len(q) \in Nat
      /\ \A i \in 1 .. Len(q) : Append(q, a)[i] = q[i]
      /\ Append(q, a)[Len(q) + 1] = a
  OBVIOUS
<1>2. At(Append(q, a), K) = IF a \in K THEN At(q, K) \cup {Len(q) + 1} ELSE At(q, K)
  BY <1>1 DEF At
<1>3. Len(q) + 1 \notin At(q, K)
  BY <1>1 DEF At
<1>4. IsFiniteSet(At(q, K)) /\ Cardinality(At(q, K)) \in Nat
  BY PlacesFinite, FS_CardinalityType
<1>5. Cardinality(At(q, K) \cup {Len(q) + 1}) = Cardinality(At(q, K)) + 1
  BY <1>3, <1>4, FS_AddElement
<1> QED
  BY <1>1, <1>2, <1>3, <1>4, <1>5

\* What is taken from the front is counted no more, the rest moves up.
LEMMA TailPlaces ==
  ASSUME NEW S, NEW q \in Seq(S), q /= <<>>, NEW K
  PROVE  Cardinality(At(Tail(q), K)) =
           Cardinality(At(q, K)) - IF Head(q) \in K THEN 1 ELSE 0
<1> DEFINE Rest == At(q, K) \ {1}
           f == [i \in Rest |-> i - 1]
<1>1. /\ Tail(q) \in Seq(S) /\ DOMAIN Tail(q) = 1 .. Len(q) - 1 /\ DOMAIN q = 1 .. Len(q)
      /\ Len(q) \in Nat \ {0} /\ Head(q) = q[1]
      /\ \A i \in 1 .. Len(q) - 1 : Tail(q)[i] = q[i + 1]
  OBVIOUS
<1>2. f \in Bijection(Rest, At(Tail(q), K))
  <2>1. Rest = {i \in 2 .. Len(q) : q[i] \in K}
    BY <1>1 DEF At
  <2>2. At(Tail(q), K) = {i \in 1 .. Len(q) - 1 : q[i + 1] \in K}
    BY <1>1 DEF At
  <2>3. \A i \in Rest : i \in Int /\ i - 1 \in At(Tail(q), K)
    BY <1>1, <2>1, <2>2
  <2>4. \A j \in At(Tail(q), K) : j + 1 \in Rest /\ (j + 1) - 1 = j
    BY <1>1, <2>1, <2>2
  <2>5. f \in [Rest -> At(Tail(q), K)]
    BY <2>3
  <2>6. \A j \in At(Tail(q), K) : \E i \in Rest : f[i] = j
    BY <2>4
  <2>7. \A i, j \in Rest : f[i] = f[j] => i = j
    BY <2>3
  <2> QED
    BY <2>5, <2>6, <2>7 DEF Bijection, Injection, Surjection, IsInjective
<1>3. IsFiniteSet(At(q, K)) /\ Cardinality(At(q, K)) \in Nat
  BY PlacesFinite, FS_CardinalityType
<1>4. /\ IsFiniteSet(Rest)
      /\ Cardinality(Rest) = Cardinality(At(q, K)) - IF 1 \in At(q, K) THEN 1 ELSE 0
  BY <1>3, FS_RemoveElement
<1>5. Cardinality(At(Tail(q), K)) = Cardinality(Rest)
  <2>1. ExistsBijection(Rest, At(Tail(q), K))
    BY <1>2 DEF ExistsBijection
  <2> QED
    BY <1>4, <2>1, FS_Bijection
<1>6. 1 \in At(q, K) <=> Head(q) \in K
  BY <1>1 DEF At
<1> QED
  BY <1>4, <1>5, <1>6

\* A finite family of finite sets has finitely many elements.
LEMMA SpreadFinite ==
  ASSUME NEW F, FiniteFamily(F) PROVE IsFiniteSet(Spread(F))
<1> DEFINE Parts == {{x} \X F[x] : x \in DOMAIN F}
           f == [x \in DOMAIN F |-> {x} \X F[x]]
<1>1. f \in Surjection(DOMAIN F, Parts)
  BY DEF Surjection
<1>2. IsFiniteSet(Parts)
  BY <1>1, FS_Surjection DEF FiniteFamily
<1>3. \A x \in DOMAIN F : IsFiniteSet({x} \X F[x])
  BY FS_Singleton, FS_Product DEF FiniteFamily
<1>4. \A T \in Parts : IsFiniteSet(T)
  BY <1>3
<1>5. IsFiniteSet(UNION Parts)
  BY <1>2, <1>4, FS_UNION
<1> QED
  BY <1>5 DEF Spread

\* A family that grows has more elements.
LEMMA SpreadGrows ==
  ASSUME NEW F, NEW G, FiniteFamily(G), DOMAIN F = DOMAIN G,
         \A x \in DOMAIN F : F[x] \subseteq G[x]
  PROVE  Spread(F) \subseteq Spread(G) /\ Cardinality(Spread(F)) <= Cardinality(Spread(G))
<1>1. Spread(F) \subseteq Spread(G)
  BY DEF Spread
<1> QED
  BY <1>1, SpreadFinite, FS_Subset

\* Where one set of a family is replaced, the count changes as that set does.
LEMMA SpreadChanges ==
  ASSUME NEW F, NEW G, FiniteFamily(F), FiniteFamily(G), DOMAIN F = DOMAIN G,
         NEW c \in DOMAIN F, \A x \in DOMAIN F \ {c} : G[x] = F[x]
  PROVE  Cardinality(Spread(G)) =
           Cardinality(Spread(F)) - Cardinality(F[c]) + Cardinality(G[c])
<1> DEFINE H == [x \in DOMAIN F \ {c} |-> F[x]]
<1>1. FiniteFamily(H)
  <2>1. IsFiniteSet(DOMAIN F \ {c})
    BY FS_RemoveElement DEF FiniteFamily
  <2> QED
    BY <2>1 DEF FiniteFamily
<1>2. IsFiniteSet(Spread(H)) /\ Cardinality(Spread(H)) \in Nat
  BY <1>1, SpreadFinite, FS_CardinalityType
<1>3. ASSUME NEW E, FiniteFamily(E), DOMAIN E = DOMAIN F,
             \A x \in DOMAIN F \ {c} : E[x] = F[x]
      PROVE  Cardinality(Spread(E)) = Cardinality(Spread(H)) + Cardinality(E[c])
  <2> DEFINE P == {c} \X E[c]
  <2>1. Spread(E) = Spread(H) \cup P
    <3>1. \A y : y \in Spread(E) <=> \E x \in DOMAIN E : y \in {x} \X E[x]
      BY DEF Spread
    <3>2. \A y : y \in Spread(H) <=> \E x \in DOMAIN F \ {c} : y \in {x} \X F[x]
      BY DEF Spread
    <3> QED
      BY <1>3, <3>1, <3>2
  <2>2. Spread(H) \cap P = {}
    BY DEF Spread
  <2>3. IsFiniteSet(E[c]) /\ Cardinality(E[c]) \in Nat
    BY <1>3, FS_CardinalityType DEF FiniteFamily
  <2>4. IsFiniteSet(P) /\ Cardinality(P) = Cardinality(E[c])
    <3>1. IsFiniteSet({c}) /\ Cardinality({c}) = 1
      BY FS_Singleton
    <3>2. IsFiniteSet(P) /\ Cardinality(P) = Cardinality({c}) * Cardinality(E[c])
      BY <2>3, <3>1, FS_Product
    <3> QED
      BY <2>3, <3>1, <3>2
  <2>5. Cardinality(Spread(E)) =
          Cardinality(Spread(H)) + Cardinality(P) - Cardinality(Spread(H) \cap P)
    BY <1>2, <2>1, <2>4, FS_Union
  <2> QED
    <3>1. Cardinality(Spread(H) \cap P) = 0
      BY <2>2, FS_EmptySet
    <3> HIDE DEF P
    <3> QED
      BY <1>2, <2>3, <2>4, <2>5, <3>1
<1>4. Cardinality(F[c]) \in Nat /\ Cardinality(G[c]) \in Nat
  BY FS_CardinalityType DEF FiniteFamily
<1> QED
  BY <1>2, <1>3, <1>4


-----------------------------------------------------------------------------
(* Types.                                                                  *)

\* Answers that name no one, and those that come from a table.
LEMMA AnswerTypes ==
  /\ \A k \in Keys : NotFound(k) \in Answers /\ NotFound(k).key = k
  /\ \A k \in Keys, n \in Networks : \A a \in Found(k, n) : a \in Answers /\ a.key = k
<1>1. N \in Nat \ {0} /\ MaxStamp \in Nat
  BY MultiAssumption
<1>2. ASSUME NEW k \in Keys PROVE NotFound(k) \in Answers /\ NotFound(k).key = k
  BY <1>1 DEF NotFound, Answers
<1>3. ASSUME NEW k \in Keys, NEW n \in Networks, NEW a \in Found(k, n)
      PROVE  a \in Answers /\ a.key = k
  BY <1>1 DEF Found, Answers, Networks
<1> QED
  BY <1>2, <1>3

\* A fresh query is an item, and pushing it harms no other.
LEMMA PushTypes ==
  ASSUME TypeOK, NEW k \in Keys, pending' = Pushed(pending, k, NewQuery)
  PROVE  /\ DOMAIN pending' = DOMAIN pending \cup {k}
         /\ \A x \in DOMAIN pending : pending'[x] = pending[x]
         /\ k \notin DOMAIN pending => pending'[k] = NewQuery
         /\ \A x \in DOMAIN pending' : pending'[x] \in Items
<1>1. NewQuery \in Items
  BY MultiAssumption DEF NewQuery, Items
<1> QED
  BY <1>1 DEF TypeOK, Pushed

\* getMessageType moves an answer into its item, or the item into the response
\* queue; the other items stay.
LEMMA TakesMoves ==
  ASSUME TypeOK, NEW a \in Answers, Takes(a)
  PROVE  /\ DOMAIN pending' \subseteq DOMAIN pending
         /\ response' \in Seq(Answers)
         /\ \A k \in DOMAIN pending' :
              /\ pending'[k] \in Items
              /\ pending'[k].count = pending[k].count + IF k = a.key THEN 1 ELSE 0
<1>0. /\ N \in Nat \ {0} /\ MaxStamp \in Nat /\ response \in Seq(Answers)
      /\ DOMAIN pending \subseteq Keys /\ \A k \in DOMAIN pending : pending[k] \in Items
  BY MultiAssumption DEF TypeOK
<1>1. \A i \in Items : i.count \in Int
  BY <1>0 DEF Items
<1>2. CASE a.key \notin DOMAIN pending
  BY <1>0, <1>1, <1>2 DEF Takes
<1>3. CASE a.key \in DOMAIN pending
  <2> DEFINE old  == pending[a.key]
             item == Updated(old, a)
             rest == Popped(pending, a.key)
  <2>1. item \in Items /\ item.count = old.count
    BY <1>0, <1>3 DEF Updated, Items, Answers
  <2>2. rest = [k \in DOMAIN pending \ {a.key} |-> pending[k]]
    BY DEF Popped
  <2>3. Response(a.key, item) \in Answers
    BY <2>1, <1>0, <1>3 DEF Response, Items, Answers
  <2>4. CASE Complete(item.count + 1)
    <3>1. response' = Append(response, Response(a.key, item)) /\ pending' = rest
      BY <1>3, <2>4 DEF Takes
    <3> HIDE DEF item
    <3> QED
      BY <1>0, <1>1, <2>2, <2>3, <3>1
  <2>5. CASE ~Complete(item.count + 1)
    <3>1. pending' = Pushed(rest, a.key, Counted(item)) /\ response' = response
      BY <1>3, <2>5 DEF Takes
    <3>2. Counted(item) \in Items /\ Counted(item).count = old.count + 1
      BY <1>0, <2>1, <2>5 DEF Complete, Counted, Items
    <3> HIDE DEF item, old
    <3>3. /\ DOMAIN pending' = DOMAIN pending /\ pending'[a.key] = Counted(item)
          /\ \A k \in DOMAIN pending \ {a.key} : pending'[k] = pending[k]
      BY <1>3, <2>2, <3>1 DEF Pushed
    <3> QED
      BY <1>0, <1>1, <3>1, <3>2, <3>3 DEF old
  <2> QED
    BY <2>4, <2>5
<1> QED
  BY <1>2, <1>3

\* The heads and tails of the queues are what the queues are made of.
LEMMA QueueParts ==
  ASSUME NEW S, NEW q \in Seq(S), q /= <<>>
  PROVE  Head(q) \in S /\ Tail(q) \in Seq(S) /\ Len(q) \in Nat \ {0}
OBVIOUS

\* Every step keeps the types.
LEMMA TypeStep == TypeOK /\ [Next]_vars => TypeOK'
<1> SUFFICES ASSUME TypeOK, [Next]_vars PROVE TypeOK'
  OBVIOUS
<1> USE MultiAssumption DEF TypeOK
<1>1. ASSUME NEW k \in Users, FindUser(k) PROVE TypeOK'
  <2>1. k \in Keys
    BY DEF Keys
  <2>2. DOMAIN pending' \subseteq Keys /\ \A x \in DOMAIN pending' : pending'[x] \in Items
    BY <1>1, <2>1, PushTypes DEF FindUser
  <2>3. asked' \in [Networks -> Seq(Users)] /\ replies' \in [Networks -> Seq(Answers)]
    BY <1>1, <2>1, AnswerTypes DEF FindUser
  <2> QED
    BY <1>1, <2>2, <2>3 DEF FindUser
<1>2. ASSUME NEW k \in Repeaters, FindRepeater(k) PROVE TypeOK'
  <2>1. k \in Keys
    BY DEF Keys
  <2>2. DOMAIN pending' \subseteq Keys /\ \A x \in DOMAIN pending' : pending'[x] \in Items
    BY <1>2, <2>1, PushTypes DEF FindRepeater
  <2>3. replies' \in [Networks -> Seq(Answers)]
    BY <1>2, <2>1, AnswerTypes DEF FindRepeater
  <2> QED
    BY <1>2, <2>2, <2>3 DEF FindRepeater
<1>3. CASE Starts
  BY <1>3 DEF Starts
<1>4. CASE PollsClient
  <2>1. turn \in Networks /\ turn' \in 0 .. N + 1
    BY <1>4 DEF PollsClient, Networks
  <2>2. CASE replies[turn] = <<>>
    BY <1>4, <2>1, <2>2 DEF PollsClient
  <2>3. CASE replies[turn] /= <<>>
    <3>1. Head(replies[turn]) \in Answers /\ Tail(replies[turn]) \in Seq(Answers)
      BY <2>1, <2>3, QueueParts
    <3>2. Takes(Head(replies[turn])) /\ replies' = [replies EXCEPT ![turn] = Tail(@)]
      BY <1>4, <2>3 DEF PollsClient
    <3>3. /\ DOMAIN pending' \subseteq Keys /\ \A x \in DOMAIN pending' : pending'[x] \in Items
          /\ response' \in Seq(Answers)
      BY <3>1, <3>2, TakesMoves
    <3> QED
      BY <1>4, <2>1, <3>1, <3>2, <3>3 DEF PollsClient
  <2> QED
    BY <2>2, <2>3
<1>5. CASE Returns
  <2>1. response' \in Seq(Answers)
    <3>1. CASE response = <<>>
      BY <1>5, <3>1 DEF Returns
    <3>2. CASE response /= <<>>
      <4>1. Tail(response) \in Seq(Answers)
        BY <3>2
      <4> QED
        BY <1>5, <3>2, <4>1 DEF Returns
    <3> QED
      BY <3>1, <3>2
  <2> QED
    BY <1>5, <2>1 DEF Returns
<1>6. ASSUME NEW n \in Networks, Serves(n) PROVE TypeOK'
  <2>1. Head(asked[n]) \in Users /\ Tail(asked[n]) \in Seq(Users) /\ Head(asked[n]) \in Keys
    BY <1>6, QueueParts DEF Serves, Keys
  <2>2. PICK a \in Found(Head(asked[n]), n) \cup {NotFound(Head(asked[n]))} :
           replies' = [replies EXCEPT ![n] = Append(@, a)]
    BY <1>6 DEF Serves
  <2>3. a \in Answers
    BY <2>1, <2>2, AnswerTypes
  <2> QED
    BY <1>6, <2>1, <2>2, <2>3 DEF Serves
<1>7. ASSUME NEW n \in Networks, Loses(n) PROVE TypeOK'
  BY <1>7, QueueParts DEF Loses
<1>8. ASSUME NEW n \in Networks, Broadcasts(n) PROVE TypeOK'
  <2>1. PICK k \in Keys : \E a \in Found(k, n) : replies' = [replies EXCEPT ![n] = Append(@, a)]
    BY <1>8 DEF Broadcasts
  <2>2. PICK a \in Found(k, n) : replies' = [replies EXCEPT ![n] = Append(@, a)]
    BY <2>1
  <2>3. a \in Answers
    BY <2>2, AnswerTypes
  <2> QED
    BY <1>8, <2>2, <2>3 DEF Broadcasts
<1>9. CASE UNCHANGED vars
  BY <1>9 DEF vars
<1> QED
  BY <1>1, <1>2, <1>3, <1>4, <1>5, <1>6, <1>7, <1>8, <1>9 DEF Next, Gateway

\* The initial state is well typed.
LEMMA TypeInit == Init => TypeOK
BY MultiAssumption DEF Init, TypeOK

\* What waits, what is asked and what is answered are what the code stores.
THEOREM TypeCorrect == Spec => []TypeOK
<1> QED
  BY TypeInit, TypeStep, PTL DEF Spec


-----------------------------------------------------------------------------
(* What is on its way.                                                     *)

\* The answers for k.
OfKey(k) == {a \in Answers : a.key = k}

\* The places for k in the queues as of questions and rs of answers.
Places(k, as, rs) ==
  [x \in Networks \X {"ask", "reply"} |->
     IF x[2] = "ask" THEN At(as[x[1]], {k}) ELSE At(rs[x[1]], OfKey(k))]

\* How many they are.
Total(k, as, rs) == Cardinality(Spread(Places(k, as, rs)))

\* The queues of the networks.
QuestionQueues == [Networks -> Seq(Users)]

\* The reply queues of the networks.
AnswerQueues == [Networks -> Seq(Answers)]

\* A queue has stayed or got one element more.
Grew(q, r, S) == r = q \/ \E a \in S : r = Append(q, a)

\* r is q with the queue of network n replaced by v.
Replaced(q, r, n, v) == r[n] = v /\ \A m \in Networks \ {n} : r[m] = q[m]

\* The places are finitely many, two sets of them for every network.
LEMMA PlacesFacts ==
  ASSUME NEW k, NEW as \in QuestionQueues, NEW rs \in AnswerQueues
  PROVE  /\ FiniteFamily(Places(k, as, rs))
         /\ DOMAIN Places(k, as, rs) = Networks \X {"ask", "reply"}
         /\ \A n \in Networks : /\ Places(k, as, rs)[<<n, "ask">>] = At(as[n], {k})
                                /\ Places(k, as, rs)[<<n, "reply">>] = At(rs[n], OfKey(k))
         /\ Total(k, as, rs) \in Nat
<1>1. DOMAIN Places(k, as, rs) = Networks \X {"ask", "reply"}
  BY DEF Places
<1>2. \A n \in Networks : /\ Places(k, as, rs)[<<n, "ask">>] = At(as[n], {k})
                          /\ Places(k, as, rs)[<<n, "reply">>] = At(rs[n], OfKey(k))
  BY DEF Places
<1>3. IsFiniteSet(Networks \X {"ask", "reply"})
  <2>1. IsFiniteSet(Networks)
    BY MultiAssumption, FS_Interval DEF Networks
  <2>2. IsFiniteSet({"ask"}) /\ {"ask", "reply"} = {"ask"} \cup {"reply"}
    BY FS_Singleton
  <2>3. IsFiniteSet({"ask", "reply"})
    BY <2>2, FS_AddElement
  <2> QED
    BY <2>1, <2>3, FS_Product
<1>4. \A n \in Networks : IsFiniteSet(At(as[n], {k})) /\ IsFiniteSet(At(rs[n], OfKey(k)))
  BY PlacesFinite DEF QuestionQueues, AnswerQueues
<1>5. FiniteFamily(Places(k, as, rs))
  <2>1. ASSUME NEW n \in Networks, NEW w \in {"ask", "reply"}
        PROVE  IsFiniteSet(Places(k, as, rs)[<<n, w>>])
    BY <1>2, <1>4
  <2>2. \A x \in Networks \X {"ask", "reply"} : \E n \in Networks, w \in {"ask", "reply"} : x = <<n, w>>
    OBVIOUS
  <2>3. \A x \in Networks \X {"ask", "reply"} : IsFiniteSet(Places(k, as, rs)[x])
    BY <2>1, <2>2
  <2> QED
    BY <1>1, <1>3, <2>3 DEF FiniteFamily
<1>6. Total(k, as, rs) \in Nat
  BY <1>5, SpreadFinite, FS_CardinalityType DEF Total
<1> QED
  BY <1>1, <1>2, <1>5, <1>6

\* Outstanding counts these places, before and after a step.
LEMMA OutstandingIs ==
  ASSUME TypeOK, TypeOK', NEW k
  PROVE  /\ Outstanding(k) = Total(k, asked, replies)
         /\ Outstanding(k)' = Total(k, asked', replies')
         /\ asked \in QuestionQueues /\ asked' \in QuestionQueues
         /\ replies \in AnswerQueues /\ replies' \in AnswerQueues
<1>1. /\ asked \in QuestionQueues /\ asked' \in QuestionQueues
      /\ replies \in AnswerQueues /\ replies' \in AnswerQueues
  BY DEF TypeOK, QuestionQueues, AnswerQueues
<1>2. ASSUME NEW as \in QuestionQueues, NEW rs \in AnswerQueues, NEW n \in Networks
      PROVE  /\ {i \in DOMAIN as[n] : as[n][i] = k} = At(as[n], {k})
             /\ {i \in DOMAIN rs[n] : rs[n][i].key = k} = At(rs[n], OfKey(k))
  <2>1. \A i \in DOMAIN rs[n] : rs[n][i] \in Answers
    BY DEF AnswerQueues
  <2> QED
    BY <2>1 DEF At, OfKey
<1>3. Awaited(k) = Places(k, asked, replies)
  BY <1>1, <1>2 DEF Awaited, Places
<1>4. Awaited(k)' = Places(k, asked', replies')
  BY <1>1, <1>2 DEF Awaited, Places
<1> QED
  BY <1>1, <1>3, <1>4 DEF Outstanding, Total, Spread

\* Nothing that is put into a queue takes anything off its way.
LEMMA TotalGrows ==
  ASSUME NEW k, NEW as \in QuestionQueues, NEW rs \in AnswerQueues,
         NEW as2 \in QuestionQueues, NEW rs2 \in AnswerQueues,
         \A n \in Networks : Grew(as[n], as2[n], Users) /\ Grew(rs[n], rs2[n], Answers)
  PROVE  Total(k, as, rs) <= Total(k, as2, rs2)
<1>1. \A S : \A q \in Seq(S) : \A r, K : Grew(q, r, S) => At(q, K) \subseteq At(r, K)
  BY AppendPlaces DEF Grew
<1>2. ASSUME NEW n \in Networks
      PROVE  /\ At(as[n], {k}) \subseteq At(as2[n], {k})
             /\ At(rs[n], OfKey(k)) \subseteq At(rs2[n], OfKey(k))
  BY <1>1 DEF QuestionQueues, AnswerQueues
<1>3. ASSUME NEW n \in Networks, NEW w \in {"ask", "reply"}
      PROVE  Places(k, as, rs)[<<n, w>>] \subseteq Places(k, as2, rs2)[<<n, w>>]
  <2> DEFINE F == Places(k, as, rs)
             G == Places(k, as2, rs2)
  <2>1. F[<<n, "ask">>] = At(as[n], {k}) /\ F[<<n, "reply">>] = At(rs[n], OfKey(k))
    BY PlacesFacts
  <2>2. G[<<n, "ask">>] = At(as2[n], {k}) /\ G[<<n, "reply">>] = At(rs2[n], OfKey(k))
    BY PlacesFacts
  <2> HIDE DEF F, G
  <2>3. F[<<n, w>>] \subseteq G[<<n, w>>]
    BY <1>2, <2>1, <2>2
  <2> QED
    BY <2>3 DEF F, G
<1>4. \A x \in Networks \X {"ask", "reply"} : \E n \in Networks, w \in {"ask", "reply"} : x = <<n, w>>
  OBVIOUS
<1>5. /\ DOMAIN Places(k, as, rs) = Networks \X {"ask", "reply"}
      /\ DOMAIN Places(k, as2, rs2) = Networks \X {"ask", "reply"}
      /\ FiniteFamily(Places(k, as2, rs2))
  BY PlacesFacts
<1>6. \A x \in DOMAIN Places(k, as, rs) : Places(k, as, rs)[x] \subseteq Places(k, as2, rs2)[x]
  BY <1>3, <1>4, <1>5
<1> QED
  BY <1>5, <1>6, SpreadGrows DEF Total

\* Where the questions of one network change, the total follows.
LEMMA QuestionsChange ==
  ASSUME NEW k, NEW as \in QuestionQueues, NEW rs \in AnswerQueues,
         NEW as2 \in QuestionQueues, NEW n \in Networks,
         \A m \in Networks \ {n} : as2[m] = as[m]
  PROVE  Total(k, as2, rs) =
           Total(k, as, rs) - Cardinality(At(as[n], {k})) + Cardinality(At(as2[n], {k}))
<1> DEFINE F == Places(k, as, rs)
           G == Places(k, as2, rs)
           c == <<n, "ask">>
<1>1. /\ FiniteFamily(F) /\ FiniteFamily(G)
      /\ DOMAIN F = Networks \X {"ask", "reply"} /\ DOMAIN G = Networks \X {"ask", "reply"}
      /\ \A m \in Networks : F[<<m, "ask">>] = At(as[m], {k}) /\ F[<<m, "reply">>] = At(rs[m], OfKey(k))
  BY PlacesFacts
<1>2. \A m \in Networks : /\ G[<<m, "ask">>] = At(as2[m], {k})
                          /\ G[<<m, "reply">>] = At(rs[m], OfKey(k))
  BY PlacesFacts
<1>3. c \in Networks \X {"ask", "reply"} /\ F[c] = At(as[n], {k}) /\ G[c] = At(as2[n], {k})
  BY <1>1, <1>2
<1> HIDE DEF F, G
<1>4. ASSUME NEW x \in DOMAIN F \ {c} PROVE G[x] = F[x]
  <2>1. PICK m \in Networks, v \in {"ask", "reply"} : x = <<m, v>>
    BY <1>1
  <2>2. v = "ask" => m \in Networks \ {n}
    BY <2>1
  <2> QED
    BY <1>1, <1>2, <2>1, <2>2
<1>5. c \in DOMAIN F /\ DOMAIN F = DOMAIN G
  BY <1>1, <1>3
<1> HIDE DEF c
<1>6. Cardinality(Spread(G)) = Cardinality(Spread(F)) - Cardinality(F[c]) + Cardinality(G[c])
  BY <1>1, <1>4, <1>5, SpreadChanges
<1> QED
  BY <1>3, <1>6 DEF Total, F, G

\* Where the answers of one network change, the total follows.
LEMMA AnswersChange ==
  ASSUME NEW k, NEW as \in QuestionQueues, NEW rs \in AnswerQueues,
         NEW rs2 \in AnswerQueues, NEW n \in Networks,
         \A m \in Networks \ {n} : rs2[m] = rs[m]
  PROVE  Total(k, as, rs2) =
           Total(k, as, rs) - Cardinality(At(rs[n], OfKey(k))) + Cardinality(At(rs2[n], OfKey(k)))
<1> DEFINE F == Places(k, as, rs)
           G == Places(k, as, rs2)
           c == <<n, "reply">>
<1>1. /\ FiniteFamily(F) /\ FiniteFamily(G)
      /\ DOMAIN F = Networks \X {"ask", "reply"} /\ DOMAIN G = Networks \X {"ask", "reply"}
      /\ \A m \in Networks : F[<<m, "ask">>] = At(as[m], {k}) /\ F[<<m, "reply">>] = At(rs[m], OfKey(k))
  BY PlacesFacts
<1>2. \A m \in Networks : /\ G[<<m, "ask">>] = At(as[m], {k})
                          /\ G[<<m, "reply">>] = At(rs2[m], OfKey(k))
  BY PlacesFacts
<1>3. c \in Networks \X {"ask", "reply"} /\ F[c] = At(rs[n], OfKey(k)) /\ G[c] = At(rs2[n], OfKey(k))
  BY <1>1, <1>2
<1> HIDE DEF F, G
<1>4. ASSUME NEW x \in DOMAIN F \ {c} PROVE G[x] = F[x]
  <2>1. PICK m \in Networks, v \in {"ask", "reply"} : x = <<m, v>>
    BY <1>1
  <2>2. v = "reply" => m \in Networks \ {n}
    BY <2>1
  <2> QED
    BY <1>1, <1>2, <2>1, <2>2
<1>5. c \in DOMAIN F /\ DOMAIN F = DOMAIN G
  BY <1>1, <1>3
<1> HIDE DEF c
<1>6. Cardinality(Spread(G)) = Cardinality(Spread(F)) - Cardinality(F[c]) + Cardinality(G[c])
  BY <1>1, <1>4, <1>5, SpreadChanges
<1> QED
  BY <1>3, <1>6 DEF Total, F, G

\* A question that every network has been asked is on its way N times.
LEMMA AskedEverywhere ==
  ASSUME NEW k, NEW as \in QuestionQueues, NEW rs \in AnswerQueues,
         NEW as2 \in QuestionQueues, NEW rs2 \in AnswerQueues,
         \A n \in Networks : \/ k \in Users /\ as2[n] = Append(as[n], k)
                             \/ \E a \in OfKey(k) : rs2[n] = Append(rs[n], a)
  PROVE  Total(k, as2, rs2) >= N
<1> DEFINE F == Places(k, as2, rs2)
           f == [n \in Networks |-> IF k \in Users /\ as2[n] = Append(as[n], k)
                                    THEN <<<<n, "ask">>, Len(as[n]) + 1>>
                                    ELSE <<<<n, "reply">>, Len(rs[n]) + 1>>]
<1>1. ASSUME NEW n \in Networks PROVE f[n] \in Spread(F)
  <2>1. \A x \in DOMAIN F : \A i \in F[x] : <<x, i>> \in Spread(F)
    BY DEF Spread
  <2>2. <<n, "ask">> \in DOMAIN F /\ <<n, "reply">> \in DOMAIN F
    BY PlacesFacts
  <2>3. F[<<n, "ask">>] = At(as2[n], {k}) /\ F[<<n, "reply">>] = At(rs2[n], OfKey(k))
    BY PlacesFacts
  <2>4. as[n] \in Seq(Users) /\ rs[n] \in Seq(Answers)
    BY DEF QuestionQueues, AnswerQueues
  <2> HIDE DEF F
  <2>5. CASE k \in Users /\ as2[n] = Append(as[n], k)
    <3>1. Len(as[n]) + 1 \in At(as2[n], {k})
      <4> DEFINE K == {k}
      <4>1. k \in K /\ k \in Users
        BY <2>5
      <4> HIDE DEF K
      <4>2. Len(as[n]) + 1 \in At(Append(as[n], k), K)
        BY <2>4, <4>1, AppendPlaces
      <4> QED
        BY <2>5, <4>2 DEF K
    <3> QED
      BY <2>1, <2>2, <2>3, <2>5, <3>1
  <2>6. CASE ~(k \in Users /\ as2[n] = Append(as[n], k))
    <3>1. PICK a \in OfKey(k) : rs2[n] = Append(rs[n], a)
      BY <2>6
    <3>2. Len(rs[n]) + 1 \in At(rs2[n], OfKey(k))
      BY <2>4, <3>1, AppendPlaces DEF OfKey
    <3> QED
      BY <2>1, <2>2, <2>3, <2>6, <3>2
  <2> QED
    BY <2>5, <2>6
<1>2. f \in Injection(Networks, Spread(F))
  <2>1. \A m, n \in Networks : f[m] = f[n] => m = n
    OBVIOUS
  <2>2. f \in [Networks -> Spread(F)]
    BY <1>1
  <2> QED
    BY <2>1, <2>2 DEF Injection, IsInjective
<1>3. IsFiniteSet(Spread(F))
  BY PlacesFacts, SpreadFinite
<1>4. Cardinality(Networks) = N
  BY MultiAssumption, FS_Interval DEF Networks
<1>5. Cardinality(Networks) <= Cardinality(Spread(F))
  BY <1>2, <1>3, FS_Injection
<1>6. Total(k, as2, rs2) \in Nat /\ Total(k, as2, rs2) = Cardinality(Spread(F)) /\ N \in Nat
  BY PlacesFacts, MultiAssumption DEF Total
<1> QED
  BY <1>4, <1>5, <1>6


\* A question that leaves its queue is on its way no more.
LEMMA QuestionLeaves ==
  ASSUME NEW k, NEW as \in QuestionQueues, NEW rs \in AnswerQueues,
         NEW n \in Networks, as[n] /= <<>>,
         NEW as2 \in QuestionQueues, Replaced(as, as2, n, Tail(as[n]))
  PROVE  Total(k, as2, rs) = Total(k, as, rs) - IF Head(as[n]) = k THEN 1 ELSE 0
<1> DEFINE t  == Total(k, as, rs)
           t2 == Total(k, as2, rs)
           K  == {k}
           c1 == Cardinality(At(as[n], K))
           c2 == Cardinality(At(as2[n], K))
<1>1. /\ as[n] \in Seq(Users) /\ as2[n] = Tail(as[n])
      /\ \A m \in Networks \ {n} : as2[m] = as[m]
  BY DEF QuestionQueues, Replaced
<1>2. Head(as[n]) \in K <=> Head(as[n]) = k
  BY <1>1, QueueParts DEF OfKey
<1>3. t2 = t - c1 + c2
  BY <1>1, QuestionsChange
<1>4. t \in Nat
  BY PlacesFacts
<1> HIDE DEF K
<1>5. c2 = c1 - IF Head(as[n]) \in K THEN 1 ELSE 0
  BY <1>1, TailPlaces
<1>6. c1 \in Nat
  BY <1>1, PlacesFinite, FS_CardinalityType
<1> HIDE DEF c1, c2, t, t2
<1>7. t2 = t - IF Head(as[n]) = k THEN 1 ELSE 0
  <2>1. CASE Head(as[n]) = k
    <3>1. c2 = c1 - 1
      BY <1>2, <1>5, <2>1
    <3> QED
      BY <1>3, <1>4, <1>6, <2>1, <3>1
  <2>2. CASE Head(as[n]) /= k
    <3>1. c2 = c1 - 0
      BY <1>2, <1>5, <2>2
    <3> QED
      BY <1>3, <1>4, <1>6, <2>2, <3>1
  <2> QED
    BY <2>1, <2>2
<1> QED
  BY <1>7 DEF t, t2

\* An answer that leaves its queue is on its way no more.
LEMMA AnswerLeaves ==
  ASSUME NEW k, NEW as \in QuestionQueues, NEW rs \in AnswerQueues,
         NEW n \in Networks, rs[n] /= <<>>,
         NEW rs2 \in AnswerQueues, Replaced(rs, rs2, n, Tail(rs[n]))
  PROVE  Total(k, as, rs2) = Total(k, as, rs) - IF Head(rs[n]).key = k THEN 1 ELSE 0
<1> DEFINE t  == Total(k, as, rs)
           t2 == Total(k, as, rs2)
           K  == OfKey(k)
           c1 == Cardinality(At(rs[n], K))
           c2 == Cardinality(At(rs2[n], K))
<1>1. /\ rs[n] \in Seq(Answers) /\ rs2[n] = Tail(rs[n])
      /\ \A m \in Networks \ {n} : rs2[m] = rs[m]
  BY DEF AnswerQueues, Replaced
<1>2. Head(rs[n]) \in K <=> Head(rs[n]).key = k
  BY <1>1, QueueParts DEF OfKey
<1>3. t2 = t - c1 + c2
  BY <1>1, AnswersChange
<1>4. t \in Nat
  BY PlacesFacts
<1> HIDE DEF K
<1>5. c2 = c1 - IF Head(rs[n]) \in K THEN 1 ELSE 0
  BY <1>1, TailPlaces
<1>6. c1 \in Nat
  BY <1>1, PlacesFinite, FS_CardinalityType
<1> HIDE DEF c1, c2, t, t2
<1>7. t2 = t - IF Head(rs[n]).key = k THEN 1 ELSE 0
  BY <1>2, <1>3, <1>4, <1>5, <1>6
<1> QED
  BY <1>7 DEF t, t2

\* An answer that is put into its queue is one more on its way.
LEMMA AnswerComes ==
  ASSUME NEW k, NEW as \in QuestionQueues, NEW rs \in AnswerQueues,
         NEW n \in Networks, NEW a \in Answers,
         NEW rs2 \in AnswerQueues, Replaced(rs, rs2, n, Append(rs[n], a))
  PROVE  Total(k, as, rs2) = Total(k, as, rs) + IF a.key = k THEN 1 ELSE 0
<1> DEFINE t  == Total(k, as, rs)
           t2 == Total(k, as, rs2)
           K  == OfKey(k)
           c1 == Cardinality(At(rs[n], K))
           c2 == Cardinality(At(rs2[n], K))
<1>1. /\ rs[n] \in Seq(Answers) /\ rs2[n] = Append(rs[n], a)
      /\ \A m \in Networks \ {n} : rs2[m] = rs[m]
  BY DEF AnswerQueues, Replaced
<1>2. a \in K <=> a.key = k
  BY <1>1, QueueParts DEF OfKey
<1>3. t2 = t - c1 + c2
  BY <1>1, AnswersChange
<1>4. t \in Nat
  BY PlacesFacts
<1> HIDE DEF K
<1>5. c2 = c1 + IF a \in K THEN 1 ELSE 0
  BY <1>1, AppendPlaces
<1>6. c1 \in Nat
  BY <1>1, PlacesFinite, FS_CardinalityType
<1> HIDE DEF c1, c2, t, t2
<1>7. t2 = t + IF a.key = k THEN 1 ELSE 0
  BY <1>2, <1>3, <1>4, <1>5, <1>6
<1> QED
  BY <1>7 DEF t, t2

-----------------------------------------------------------------------------
(* Enough answers are on their way.                                        *)

\* A new question is asked of every network, and takes nothing from another.
LEMMA FindStep ==
  ASSUME TypeOK, TypeOK', Completable, NEW f \in Keys,
         pending' = Pushed(pending, f, NewQuery), lost' = lost,
         \A n \in Networks :
           \/ f \in Users /\ asked'[n] = Append(asked[n], f) /\ replies'[n] = replies[n]
           \/ asked'[n] = asked[n] /\ \E a \in OfKey(f) : replies'[n] = Append(replies[n], a)
  PROVE  Completable'
<1> SUFFICES ASSUME NEW k \in DOMAIN pending' \ lost'
             PROVE  pending'[k].count + Outstanding(k)' >= N
  BY DEF Completable
<1>1. /\ Outstanding(k) = Total(k, asked, replies)
      /\ Outstanding(k)' = Total(k, asked', replies')
      /\ asked \in QuestionQueues /\ asked' \in QuestionQueues
      /\ replies \in AnswerQueues /\ replies' \in AnswerQueues
  BY OutstandingIs
<1>2. Total(k, asked, replies) \in Nat /\ Total(k, asked', replies') \in Nat
  BY <1>1, PlacesFacts
<1>3. CASE k \in DOMAIN pending
  <2>1. pending'[k] = pending[k]
    BY <1>3, PushTypes
  <2>2. \A n \in Networks : /\ Grew(asked[n], asked'[n], Users)
                            /\ Grew(replies[n], replies'[n], Answers)
    BY DEF Grew, OfKey
  <2>3. Total(k, asked, replies) <= Total(k, asked', replies')
    BY <1>1, <2>2, TotalGrows
  <2>4. pending[k].count + Outstanding(k) >= N /\ pending[k].count \in Int /\ N \in Int
    BY <1>3, MultiAssumption DEF Completable, TypeOK, Items
  <2> QED
    BY <1>1, <1>2, <2>1, <2>3, <2>4
<1>4. CASE k \notin DOMAIN pending
  <2>1. k = f /\ pending'[k].count = 0
    <3>1. k = f /\ pending'[k] = NewQuery
      BY <1>4, PushTypes
    <3> QED
      BY <3>1 DEF NewQuery
  <2>2. Total(k, asked', replies') >= N
    BY <1>1, <2>1, AskedEverywhere
  <2> QED
    BY <1>1, <1>2, <2>1, <2>2
<1> QED
  BY <1>3, <1>4

\* A query that waits still has enough answers on their way after any step.
LEMMA CompletableStep ==
  TypeOK /\ TypeOK' /\ Completable /\ [Next]_vars => Completable'
<1> SUFFICES ASSUME TypeOK, TypeOK', Completable, [Next]_vars PROVE Completable'
  OBVIOUS
<1>1. ASSUME NEW f \in Users, FindUser(f) PROVE Completable'
  <2>1. /\ pending' = Pushed(pending, f, NewQuery) /\ lost' = lost /\ f \in Keys
    BY <1>1 DEF FindUser, Keys
  <2>2. PICK up \in SUBSET Networks :
          /\ asked' = [n \in Networks |->
                         IF n \in up THEN Append(asked[n], f) ELSE asked[n]]
          /\ replies' = [n \in Networks |->
                           IF n \in up THEN replies[n] ELSE Append(replies[n], NotFound(f))]
    BY <1>1 DEF FindUser
  <2>3. NotFound(f) \in OfKey(f)
    BY <2>1, AnswerTypes DEF OfKey
  <2> QED
    BY <2>1, <2>2, <2>3, FindStep
<1>2. ASSUME NEW f \in Repeaters, FindRepeater(f) PROVE Completable'
  <2>1. /\ pending' = Pushed(pending, f, NewQuery) /\ lost' = lost /\ f \in Keys
        /\ asked' = asked
    BY <1>2 DEF FindRepeater, Keys
  <2>2. PICK a \in [Networks -> UNION {Found(f, n) : n \in Networks} \cup {NotFound(f)}] :
          /\ \A n \in Networks : a[n] \in Found(f, n) \cup {NotFound(f)}
          /\ replies' = [n \in Networks |-> Append(replies[n], a[n])]
    BY <1>2 DEF FindRepeater
  <2>3. \A n \in Networks : a[n] \in OfKey(f)
    BY <2>1, <2>2, AnswerTypes DEF OfKey
  <2> QED
    BY <2>1, <2>2, <2>3, FindStep
<1> SUFFICES ASSUME \/ Gateway \/ UNCHANGED vars
                    \/ \E n \in Networks : Serves(n) \/ Loses(n) \/ Broadcasts(n),
                    NEW k \in DOMAIN pending' \ lost'
             PROVE  pending'[k].count + Outstanding(k)' >= N
  BY <1>1, <1>2 DEF Next, Completable
<1>4. /\ Outstanding(k) = Total(k, asked, replies)
      /\ Outstanding(k)' = Total(k, asked', replies')
      /\ asked \in QuestionQueues /\ asked' \in QuestionQueues
      /\ replies \in AnswerQueues /\ replies' \in AnswerQueues
  BY OutstandingIs
<1>5. Total(k, asked, replies) \in Nat /\ Total(k, asked', replies') \in Nat /\ N \in Int
  <2>1. N \in Int
    BY MultiAssumption
  <2>2. \A as \in QuestionQueues, rs \in AnswerQueues : Total(k, as, rs) \in Nat
    BY PlacesFacts
  <2> QED
    BY <1>4, <2>1, <2>2
<1>6. k \in DOMAIN pending \ lost =>
        pending[k].count + Total(k, asked, replies) >= N /\ pending[k].count \in Int
  BY <1>4 DEF Completable, TypeOK, Items
<1>7. CASE Starts \/ Returns \/ UNCHANGED vars
  <2>1. UNCHANGED <<pending, asked, replies, lost>>
    BY <1>7 DEF Starts, Returns, vars
  <2> QED
    BY <1>4, <1>6, <2>1
<1>8. CASE PollsClient
  <2>1. turn \in Networks /\ asked' = asked /\ lost' = lost
    BY <1>8 DEF PollsClient
  <2>2. CASE replies[turn] = <<>>
    <3>1. pending' = pending /\ replies' = replies
      BY <1>8, <2>2 DEF PollsClient
    <3> QED
      BY <1>4, <1>6, <2>1, <3>1
  <2>3. CASE replies[turn] /= <<>>
    <3> DEFINE a == Head(replies[turn])
    <3>1. Takes(a) /\ replies' = [replies EXCEPT ![turn] = Tail(@)]
      BY <1>8, <2>3 DEF PollsClient
    <3>2. a \in Answers
      BY <1>4, <2>1, <2>3, QueueParts DEF AnswerQueues
    <3>3. /\ k \in DOMAIN pending
          /\ pending'[k].count = pending[k].count + IF k = a.key THEN 1 ELSE 0
      BY <3>1, <3>2, TakesMoves
    <3>4. Total(k, asked, replies') = Total(k, asked, replies) - IF a.key = k THEN 1 ELSE 0
      <4>1. Replaced(replies, replies', turn, Tail(replies[turn]))
        BY <1>4, <2>1, <3>1 DEF AnswerQueues, Replaced
      <4>2. /\ asked \in QuestionQueues /\ replies \in AnswerQueues
            /\ replies' \in AnswerQueues /\ replies[turn] /= <<>> /\ turn \in Networks
        BY <1>4, <2>1, <2>3
      <4> QED
        BY <4>1, <4>2, AnswerLeaves
    <3> HIDE DEF a
    <3> QED
      BY <1>4, <1>5, <1>6, <2>1, <3>3, <3>4
  <2> QED
    BY <2>2, <2>3
<1>9. ASSUME NEW n \in Networks, Serves(n) PROVE pending'[k].count + Outstanding(k)' >= N
  <2> DEFINE h == Head(asked[n])
  <2>1. /\ asked[n] /= <<>> /\ asked' = [asked EXCEPT ![n] = Tail(@)]
        /\ pending' = pending /\ lost' = lost
    BY <1>9 DEF Serves
  <2>2. PICK a \in Found(h, n) \cup {NotFound(h)} : replies' = [replies EXCEPT ![n] = Append(@, a)]
    BY <1>9 DEF Serves
  <2>3. h \in Keys
    BY <1>4, <2>1, QueueParts DEF QuestionQueues, Keys
  <2>4. a \in Answers /\ a.key = h
    BY <2>2, <2>3, AnswerTypes
  <2>5. Total(k, asked', replies) = Total(k, asked, replies) - IF h = k THEN 1 ELSE 0
    <3>1. Replaced(asked, asked', n, Tail(asked[n]))
      BY <1>4, <2>1 DEF QuestionQueues, Replaced
    <3>2. /\ asked \in QuestionQueues /\ asked' \in QuestionQueues /\ asked[n] /= <<>>
          /\ replies \in AnswerQueues /\ n \in Networks
      BY <1>4, <2>1
    <3> QED
      BY <3>1, <3>2, QuestionLeaves
  <2>6. Total(k, asked', replies') = Total(k, asked', replies) + IF a.key = k THEN 1 ELSE 0
    <3>1. Replaced(replies, replies', n, Append(replies[n], a))
      BY <1>4, <2>2 DEF AnswerQueues, Replaced
    <3> QED
      BY <1>4, <2>4, <3>1, AnswerComes
  <2> HIDE DEF h
  <2> QED
    BY <1>4, <1>5, <1>6, <2>1, <2>4, <2>5, <2>6
<1>10. ASSUME NEW n \in Networks, Loses(n) PROVE pending'[k].count + Outstanding(k)' >= N
  <2>1. /\ asked[n] /= <<>> /\ asked' = [asked EXCEPT ![n] = Tail(@)] /\ replies' = replies
        /\ pending' = pending /\ lost' = lost \cup {Head(asked[n])}
    BY <1>10 DEF Loses
  <2>2. Head(asked[n]) /= k
    BY <2>1
  <2>3. Total(k, asked', replies) =
          Total(k, asked, replies) - IF Head(asked[n]) = k THEN 1 ELSE 0
    <3>1. Replaced(asked, asked', n, Tail(asked[n]))
      BY <1>4, <2>1 DEF QuestionQueues, Replaced
    <3>2. /\ asked \in QuestionQueues /\ asked' \in QuestionQueues /\ asked[n] /= <<>>
          /\ replies \in AnswerQueues /\ n \in Networks
      BY <1>4, <2>1
    <3> QED
      BY <3>1, <3>2, QuestionLeaves
  <2> QED
    BY <1>4, <1>5, <1>6, <2>1, <2>2, <2>3
<1>11. ASSUME NEW n \in Networks, Broadcasts(n) PROVE pending'[k].count + Outstanding(k)' >= N
  <2>1. pending' = pending /\ lost' = lost /\ asked' = asked
    BY <1>11 DEF Broadcasts
  <2>2. PICK c \in Keys : \E a \in Found(c, n) : replies' = [replies EXCEPT ![n] = Append(@, a)]
    BY <1>11 DEF Broadcasts
  <2>3. PICK a \in Found(c, n) : replies' = [replies EXCEPT ![n] = Append(@, a)]
    BY <2>2
  <2>4. a \in Answers
    BY <2>3, AnswerTypes
  <2>5. Total(k, asked, replies') = Total(k, asked, replies) + IF a.key = k THEN 1 ELSE 0
    <3>1. Replaced(replies, replies', n, Append(replies[n], a))
      BY <1>4, <2>3 DEF AnswerQueues, Replaced
    <3>2. /\ asked \in QuestionQueues /\ replies \in AnswerQueues
          /\ replies' \in AnswerQueues /\ a \in Answers /\ n \in Networks
      BY <1>4, <2>4
    <3> QED
      BY <3>1, <3>2, AnswerComes
  <2> QED
    BY <1>4, <1>5, <1>6, <2>1, <2>5
<1> QED
  BY <1>7, <1>8, <1>9, <1>10, <1>11 DEF Gateway

\* Nothing waits at the start.
LEMMA CompletableInit == Init => Completable
BY DEF Init, Completable

\* A question that waits can always still be completed, unless a network has
\* lost a question about its callsign: however questions are repeated, answers
\* and broadcasts interleave, getMessageType never counts an answer for one
\* item that another item needs.
THEOREM QueriesCompletable == Spec => []Completable
<1> QED
  BY CompletableInit, CompletableStep, TypeInit, TypeStep, PTL DEF Spec
=============================================================================
