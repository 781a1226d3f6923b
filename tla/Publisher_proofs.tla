-------------------------- MODULE Publisher_proofs --------------------------
(***************************************************************************)
(* Proofs about Publisher for every number of points, producers and breaks *)
(* of the connection and every size of the buffer: types, one home for     *)
(* each point that is not settled, nothing handed to the client twice, and *)
(* the bounded statistics of topics.                                       *)
(***************************************************************************)
EXTENDS Publisher, SequenceTheorems, TLAPS

Elems(q) == {q[i] : i \in 1..Len(q)}
Distinct(q) == \A i, j \in 1..Len(q) : q[i] = q[j] => i = j

\* Where processBuffer has a point, and where it has not yet given it to the client.
Holding == {"taken", "publish", "drained", "flush"}
Untried == {"taken", "drained"}
Buffering == {"buffer", "full", "retry"}

\* The points that wait or are published have one home each, and those alone are open.
HomeInv ==
    /\ Distinct(buffer)
    /\ hand \notin Elems(buffer)
    /\ hand # Nothing <=> workerPc \in Holding
    /\ \A g \in Producers :
          /\ call[g].pc = "idle" <=> call[g].point = Nothing
          /\ call[g].point \notin Elems(buffer)
          /\ call[g].point # Nothing =>
                /\ call[g].point # hand
                /\ \A h \in Producers : call[h].point = call[g].point => h = g
    /\ \A p \in Points :
          /\ fate[p] = "open" <=> \/ p \in Elems(buffer) \cup {hand}
                                  \/ \E g \in Producers : call[g].point = p
          /\ fate[p] = "new" <=> p > offered

\* What still waits for its turn has not been given to the client.
HandedInv ==
    /\ Distinct(handed)
    /\ Elems(handed) \cap Elems(buffer) = {}
    /\ workerPc \in Untried => hand \notin Elems(handed)
    /\ \A g \in Producers : call[g].pc \in Buffering => call[g].point \notin Elems(handed)
    /\ \A p \in Elems(handed) : p <= offered

\* The statistics are bounded, and forget only when they are full.
TopicsInv == Len(tracked) <= MaxTopics /\ TopicsForgottenWhenFull

-----------------------------------------------------------------------------
(* Sequences.                                                              *)

LEMMA AppendFacts ==
  ASSUME NEW S, NEW q \in Seq(S), NEW x \in S
  PROVE  /\ Append(q, x) \in Seq(S) /\ Len(Append(q, x)) = Len(q) + 1
         /\ Elems(Append(q, x)) = Elems(q) \cup {x}
         /\ Distinct(q) /\ x \notin Elems(q) => Distinct(Append(q, x))
  <1> DEFINE r == Append(q, x)
  <1>1. /\ r \in Seq(S) /\ Len(q) \in Nat /\ Len(r) = Len(q) + 1
        /\ \A i \in 1..Len(q) : r[i] = q[i]
        /\ r[Len(q) + 1] = x
    OBVIOUS
  <1> HIDE DEF r
  <1>2. /\ \A i \in 1..Len(r) : i \in 1..Len(q) \/ i = Len(q) + 1
        /\ 1..Len(q) \subseteq 1..Len(r)
        /\ Len(q) + 1 \in 1..Len(r)
    BY <1>1
  <1>3. Elems(r) = Elems(q) \cup {x}
    BY <1>1, <1>2 DEF Elems
  <1>4. ASSUME Distinct(q), x \notin Elems(q) PROVE Distinct(r)
    <2> SUFFICES ASSUME NEW i \in 1..Len(r), NEW j \in 1..Len(r), r[i] = r[j] PROVE i = j
      BY DEF Distinct
    <2>1. CASE i \in 1..Len(q) /\ j \in 1..Len(q)
      BY <1>1, <1>4, <2>1 DEF Distinct
    <2>2. CASE i \in 1..Len(q) /\ j = Len(q) + 1
      BY <1>1, <1>4, <2>2 DEF Elems
    <2>3. CASE i = Len(q) + 1 /\ j \in 1..Len(q)
      BY <1>1, <1>4, <2>3 DEF Elems
    <2>4. QED
      BY <1>2, <2>1, <2>2, <2>3
  <1>5. QED
    BY <1>1, <1>3, <1>4 DEF r

LEMMA TailFacts ==
  ASSUME NEW S, NEW q \in Seq(S), q # <<>>
  PROVE  /\ Head(q) \in S /\ Tail(q) \in Seq(S) /\ Len(Tail(q)) = Len(q) - 1
         /\ Elems(q) = Elems(Tail(q)) \cup {Head(q)}
         /\ Distinct(q) => Distinct(Tail(q)) /\ Head(q) \notin Elems(Tail(q))
  <1> DEFINE r == Tail(q)
  <1>1. /\ Head(q) \in S /\ r \in Seq(S) /\ Len(q) \in Nat /\ Len(q) >= 1 /\ Len(r) = Len(q) - 1
        /\ \A i \in 1..Len(r) : r[i] = q[i + 1]
        /\ Head(q) = q[1]
    OBVIOUS
  <1> HIDE DEF r
  <1>2. /\ \A i \in 1..Len(q) : i = 1 \/ (i - 1 \in 1..Len(r) /\ r[i - 1] = q[i])
        /\ \A i \in 1..Len(r) : i + 1 \in 1..Len(q)
        /\ 1 \in 1..Len(q)
    BY <1>1
  <1>3. Elems(q) \subseteq Elems(r) \cup {Head(q)}
    BY <1>1, <1>2 DEF Elems
  <1>4. Elems(r) \cup {Head(q)} \subseteq Elems(q)
    BY <1>1, <1>2 DEF Elems
  <1>5. ASSUME Distinct(q) PROVE Distinct(r) /\ Head(q) \notin Elems(r)
    <2>1. Distinct(r)
      BY <1>1, <1>2, <1>5 DEF Distinct
    <2>2. \A i \in 1..Len(r) : r[i] # q[1]
      BY <1>1, <1>2, <1>5 DEF Distinct
    <2>3. QED
      BY <1>1, <2>1, <2>2 DEF Elems
  <1>6. QED
    BY <1>1, <1>3, <1>4, <1>5 DEF r

\* Taking one element out, and dropping the first n.
LEMMA RemoveFacts ==
  ASSUME NEW S, NEW q \in Seq(S), NEW i \in 1..Len(q), Distinct(q)
  PROVE  LET r == SubSeq(q, 1, i - 1) \o SubSeq(q, i + 1, Len(q)) IN
         /\ r \in Seq(S) /\ Len(r) = Len(q) - 1
         /\ Distinct(r) /\ q[i] \notin Elems(r) /\ Elems(q) \subseteq Elems(r) \cup {q[i]}
  <1> DEFINE a == SubSeq(q, 1, i - 1)
             b == SubSeq(q, i + 1, Len(q))
             r == a \o b
  <1>0. Len(q) \in Nat /\ i \in Nat /\ 1 <= i /\ i <= Len(q)
    OBVIOUS
  <1>1. a \in Seq(S) /\ Len(a) = i - 1 /\ \A k \in 1..(i - 1) : a[k] = q[k]
    BY <1>0
  <1>2. b \in Seq(S) /\ Len(b) = Len(q) - i /\ \A k \in 1..(Len(q) - i) : b[k] = q[k + i]
    BY <1>0
  <1>3. /\ r \in Seq(S) /\ Len(r) = Len(q) - 1
        /\ \A k \in 1..(Len(q) - 1) : r[k] = IF k < i THEN q[k] ELSE q[k + 1]
    <2>1. /\ r \in Seq(S) /\ Len(r) = Len(a) + Len(b)
          /\ \A k \in 1..(Len(a) + Len(b)) : r[k] = IF k <= Len(a) THEN a[k] ELSE b[k - Len(a)]
      BY <1>1, <1>2, ConcatProperties
    <2>2. Len(a) + Len(b) = Len(q) - 1
      <3> HIDE DEF a, b
      <3>1. QED
        BY <1>0, <1>1, <1>2
    <2>3. ASSUME NEW k \in 1..(Len(q) - 1)
          PROVE  r[k] = IF k < i THEN q[k] ELSE q[k + 1]
      <3> HIDE DEF a, b, r
      <3>1. CASE k < i
        BY <1>0, <1>1, <2>1, <2>2, <3>1
      <3>2. CASE k >= i
        <4>1. k - Len(a) \in 1..(Len(q) - i) /\ (k - Len(a)) + i = k + 1 /\ ~(k <= Len(a))
          BY <1>0, <1>1, <3>2
        <4>2. r[k] = b[k - Len(a)]
          BY <2>1, <2>2, <4>1
        <4>3. QED
          BY <1>0, <1>2, <3>2, <4>1, <4>2
      <3>3. QED
        BY <1>0, <3>1, <3>2
    <2>4. QED
      BY <2>1, <2>2, <2>3
  <1> HIDE DEF r
  <1>4. Distinct(r)
    <2> SUFFICES ASSUME NEW k \in 1..(Len(q) - 1), NEW l \in 1..(Len(q) - 1), r[k] = r[l]
                 PROVE  k = l
      BY <1>3 DEF Distinct
    <2> DEFINE at(n) == IF n < i THEN n ELSE n + 1
    <2>1. /\ at(k) \in 1..Len(q) /\ r[k] = q[at(k)]
          /\ at(l) \in 1..Len(q) /\ r[l] = q[at(l)]
      BY <1>0, <1>3
    <2>2. at(k) = at(l)
      <3> HIDE DEF at
      <3>1. QED
        BY <2>1 DEF Distinct
    <2>3. QED
      BY <1>0, <2>2
  <1>5. q[i] \notin Elems(r)
    BY <1>0, <1>3 DEF Elems, Distinct
  <1>6. ASSUME NEW k \in 1..Len(q), k # i PROVE q[k] \in Elems(r)
    <2>1. CASE k < i
      BY <1>0, <1>3, <2>1 DEF Elems
    <2>2. CASE k > i
      <3>1. k - 1 \in 1..Len(r) /\ r[k - 1] = q[k]
        BY <1>0, <1>3, <2>2
      <3>2. QED
        BY <3>1 DEF Elems
    <2>3. QED
      BY <1>6, <2>1, <2>2, <1>0
  <1>7. QED
    BY <1>3, <1>4, <1>5, <1>6 DEF r, Elems

LEMMA EvictFacts ==
  ASSUME NEW S, NEW q \in Seq(S), NEW n \in 0..Len(q), Distinct(q)
  PROVE  LET r == SubSeq(q, n + 1, Len(q)) IN
         r \in Seq(S) /\ Len(r) = Len(q) - n /\ Distinct(r) /\ Elems(r) \subseteq Elems(q)
  <1> DEFINE r == SubSeq(q, n + 1, Len(q))
  <1>1. /\ Len(q) \in Nat /\ n \in Nat /\ r \in Seq(S) /\ Len(r) = Len(q) - n
        /\ \A k \in 1..(Len(q) - n) : r[k] = q[k + n]
    OBVIOUS
  <1> HIDE DEF r
  <1>2. \A k \in 1..Len(r) : k + n \in 1..Len(q) /\ r[k] = q[k + n]
    BY <1>1
  <1>3. Distinct(r)
    BY <1>1, <1>2 DEF Distinct
  <1>4. Elems(r) \subseteq Elems(q)
    BY <1>2 DEF Elems
  <1>5. QED
    BY <1>1, <1>3, <1>4 DEF r

-----------------------------------------------------------------------------
(* The steps.                                                              *)

\* The places and the fates of points.
Places == <<buffer, call, hand, offered, fate, handed>>

\* Points are not "nothing".
LEMMA PointFacts ==
  /\ Nothing \notin Points /\ Points \subseteq Nat /\ 0..MaxPoints \subseteq Nat
  /\ \A n \in 0..MaxPoints : n < MaxPoints => n + 1 \in Points /\ n + 1 \in 0..MaxPoints
  BY PublisherAssumption DEF Points, Nothing

\* The steps that move a point, and the others.
Quiet ==
    /\ UNCHANGED Places
    /\ workerPc' # workerPc => workerPc \notin Holding /\ workerPc' \notin Holding
BufferSteps(g) == Buffered(g) \/ BufferFull(g) \/ DropOldest(g) \/ GiveUp(g)

LEMMA StepKinds ==
  ASSUME [Next]_vars
  PROVE  \/ Quiet
         \/ \E g \in Producers : Publish(g) \/ PublishReturns(g) \/ BufferSteps(g)
         \/ TakeMessage \/ DrainMessage
         \/ PublishBuffered \/ FlushMessage
         \/ Rebuffer \/ BufferedPublishEnds \/ DiscardMessage
  <1> USE DEF Quiet, Places, Holding, vars, linkVars, workVars, traceVars
  <1>1. CASE Connection
    BY <1>1 DEF Connection, LinkBreaks, LinkReturns, FlagFollows
  <1>2. CASE CloseDone \/ DisconnectReturns
    BY <1>2 DEF CloseDone, DisconnectReturns
  <1>3. CASE SeeDone \/ BackoffEnds \/ LeaveInBackoff \/ DrainEnds \/ DrainTimesOut
    BY <1>3 DEF SeeDone, BackoffEnds, LeaveInBackoff, DrainEnds, Drained, DrainTimesOut
  <1>4. CASE Idle \/ UNCHANGED vars
    BY <1>4 DEF Idle
  <1>5. QED
    BY <1>1, <1>2, <1>3, <1>4 DEF Next, Worker, Returns, BufferSteps

\* The record of topics stays distinct and bounded; it gains t and loses a topic
\* only when it is full.
LEMMA RecordFacts ==
  ASSUME tracked \in Seq(Topics), Distinct(tracked), Len(tracked) <= MaxTopics,
         NEW t \in Topics, RecordTopic(t)
  PROVE  /\ tracked' \in Seq(Topics) /\ Distinct(tracked') /\ Len(tracked') <= MaxTopics
         /\ t \in Elems(tracked')
         /\ \/ Len(tracked') >= Len(tracked) /\ Elems(tracked) \subseteq Elems(tracked')
            \/ Len(tracked') = MaxTopics - EvictCount + 1
  <1> USE PublisherAssumption
  <1>0. Len(tracked) \in Nat
    OBVIOUS
  <1>1. ASSUME NEW i \in 1..Len(tracked), tracked[i] = t,
               tracked' = Append(SubSeq(tracked, 1, i - 1) \o SubSeq(tracked, i + 1, Len(tracked)), t)
        PROVE  /\ tracked' \in Seq(Topics) /\ Distinct(tracked') /\ Len(tracked') = Len(tracked)
               /\ t \in Elems(tracked') /\ Elems(tracked) \subseteq Elems(tracked')
    <2> DEFINE r == SubSeq(tracked, 1, i - 1) \o SubSeq(tracked, i + 1, Len(tracked))
    <2>1. /\ r \in Seq(Topics) /\ Len(r) = Len(tracked) - 1
          /\ Distinct(r) /\ t \notin Elems(r) /\ Elems(tracked) \subseteq Elems(r) \cup {t}
      BY <1>1, RemoveFacts
    <2>2. tracked' = Append(r, t)
      BY <1>1
    <2> HIDE DEF r
    <2>3. QED
      BY <1>0, <2>1, <2>2, AppendFacts
  <1>2. ASSUME \A i \in 1..Len(tracked) : tracked[i] # t, Len(tracked) < MaxTopics,
               tracked' = Append(tracked, t)
        PROVE  /\ tracked' \in Seq(Topics) /\ Distinct(tracked') /\ Len(tracked') = Len(tracked) + 1
               /\ t \in Elems(tracked') /\ Elems(tracked) \subseteq Elems(tracked')
    <2>1. t \notin Elems(tracked)
      BY <1>2 DEF Elems
    <2>2. QED
      BY <1>2, <2>1, AppendFacts
  <1>3. ASSUME \A i \in 1..Len(tracked) : tracked[i] # t, Len(tracked) >= MaxTopics,
               tracked' = Append(Evict(tracked), t)
        PROVE  /\ tracked' \in Seq(Topics) /\ Distinct(tracked') /\ t \in Elems(tracked')
               /\ Len(tracked') = MaxTopics - EvictCount + 1
    <2> DEFINE r == SubSeq(tracked, EvictCount + 1, Len(tracked))
    <2>1. Len(tracked) = MaxTopics /\ EvictCount \in 0..Len(tracked)
      BY <1>0, <1>3
    <2>2. /\ r \in Seq(Topics) /\ Len(r) = MaxTopics - EvictCount
          /\ Distinct(r) /\ Elems(r) \subseteq Elems(tracked)
      BY <2>1, EvictFacts
    <2>3. t \notin Elems(r)
      BY <1>3, <2>2 DEF Elems
    <2>4. tracked' = Append(r, t)
      BY <1>3 DEF Evict
    <2> HIDE DEF r
    <2>5. /\ Append(r, t) \in Seq(Topics) /\ Len(Append(r, t)) = Len(r) + 1
          /\ Elems(Append(r, t)) = Elems(r) \cup {t} /\ Distinct(Append(r, t))
      BY <2>2, <2>3, AppendFacts
    <2>6. QED
      BY <2>2, <2>4, <2>5
  <1>4. CASE \E i \in 1..Len(tracked) :
               /\ tracked[i] = t
               /\ tracked' = Append(SubSeq(tracked, 1, i - 1) \o SubSeq(tracked, i + 1, Len(tracked)), t)
    <2>1. /\ tracked' \in Seq(Topics) /\ Distinct(tracked') /\ Len(tracked') = Len(tracked)
          /\ t \in Elems(tracked') /\ Elems(tracked) \subseteq Elems(tracked')
      BY <1>1, <1>4
    <2>2. QED
      BY <1>0, <2>1
  <1>5. CASE Len(tracked) < MaxTopics /\ \A i \in 1..Len(tracked) : tracked[i] # t
    <2>a. ~(Len(tracked) >= MaxTopics)
      BY <1>0, <1>5
    <2>1. tracked' = Append(tracked, t)
      BY <1>5, <2>a, Zenon DEF RecordTopic
    <2>2. /\ tracked' \in Seq(Topics) /\ Distinct(tracked') /\ Len(tracked') = Len(tracked) + 1
          /\ t \in Elems(tracked') /\ Elems(tracked) \subseteq Elems(tracked')
      BY <1>2, <1>5, <2>1
    <2>3. QED
      BY <1>0, <1>5, <2>2
  <1>6. CASE Len(tracked) >= MaxTopics /\ \A i \in 1..Len(tracked) : tracked[i] # t
    <2>1. tracked' = Append(Evict(tracked), t)
      BY <1>6, Zenon DEF RecordTopic
    <2>2. /\ tracked' \in Seq(Topics) /\ Distinct(tracked') /\ t \in Elems(tracked')
          /\ Len(tracked') = MaxTopics - EvictCount + 1
      BY <1>3, <1>6, <2>1
    <2>3. QED
      BY <2>2
  <1>7. Len(tracked) < MaxTopics \/ Len(tracked) >= MaxTopics
    BY <1>0
  <1>8. QED
    BY <1>4, <1>5, <1>6, <1>7, Zenon DEF RecordTopic

\* The points that the steps pick are points.
LEMMA PickedPoints ==
  ASSUME TypeOK, HomeInv
  PROVE  /\ buffer # <<>> => Head(buffer) \in Points
         /\ workerPc \in Holding => hand \in Points
         /\ \A g \in Producers : call[g].pc # "idle" => call[g].point \in Points
  <1>1. buffer # <<>> => Head(buffer) \in Points
    BY DEF TypeOK
  <1>2. workerPc \in Holding => hand \in Points
    BY DEF TypeOK, HomeInv
  <1>3. ASSUME NEW g \in Producers, call[g].pc # "idle" PROVE call[g].point \in Points
    BY <1>3 DEF TypeOK, HomeInv
  <1>4. QED
    BY <1>1, <1>2, <1>3

\* Every step keeps the types of all variables but the topics'.
Types ==
    /\ link \in BOOLEAN /\ connected \in BOOLEAN /\ breaks \in 0..Breaks
    /\ mainPc \in {"running", "closing", "stopped"}
    /\ workerPc \in {"select", "taken", "publish", "backoff", "drain", "drained",
                     "flush", "gone"}
    /\ ending \in {"none", "drained", "timedOut", "inBackoff"}
PointTypes ==
    /\ buffer \in Seq(Points) /\ Len(buffer) <= BufferSize
    /\ call \in [Producers -> [pc : {"idle", "publish", "buffer", "full", "retry"},
                               point : Points \cup {Nothing}]]
    /\ hand \in Points \cup {Nothing}
    /\ offered \in 0..MaxPoints
    /\ fate \in [Points -> Fates]
    /\ handed \in Seq(Points)

LEMMA TypeParts == TypeOK <=> Types /\ PointTypes /\ tracked \in Seq(Topics)
  BY DEF TypeOK, Types, PointTypes

LEMMA NextTypes == Types /\ [Next]_vars => Types'
  <1> SUFFICES ASSUME Types, [Next]_vars PROVE Types'
    OBVIOUS
  <1>0. Breaks \in Nat
    BY PublisherAssumption
  <1> USE DEF Types, linkVars, workVars, traceVars
  <1>1. CASE Connection
    <2>1. CASE LinkBreaks
      <3>1. breaks' \in 0..Breaks
        BY <1>0, <2>1 DEF LinkBreaks
      <3>2. QED
        BY <2>1, <3>1 DEF LinkBreaks
    <2>2. CASE LinkReturns
      BY <2>2 DEF LinkReturns
    <2>3. CASE FlagFollows
      BY <2>3 DEF FlagFollows
    <2>4. QED
      BY <1>1, <2>1, <2>2, <2>3 DEF Connection
  <1>2. CASE CloseDone \/ DisconnectReturns
    BY <1>2 DEF CloseDone, DisconnectReturns
  <1>3. CASE TakeMessage \/ SeeDone \/ PublishBuffered \/ Rebuffer \/ BackoffEnds
    BY <1>3 DEF TakeMessage, SeeDone, PublishBuffered, Rebuffer, BackoffEnds, Take
  <1>4. CASE LeaveInBackoff \/ BufferedPublishEnds \/ DrainMessage \/ FlushMessage
    BY <1>4 DEF LeaveInBackoff, BufferedPublishEnds, DrainMessage, FlushMessage, Take
  <1>5. CASE DiscardMessage \/ DrainEnds \/ DrainTimesOut
    BY <1>5 DEF DiscardMessage, DrainEnds, DrainTimesOut
  <1>6. ASSUME NEW g \in Producers, Publish(g) \/ Returns(g) PROVE Types'
    BY <1>6 DEF Publish, Returns, PublishReturns, Buffered, BufferFull, DropOldest, GiveUp
  <1>7. CASE Idle \/ UNCHANGED vars
    BY <1>7 DEF Idle, vars
  <1>8. QED
    BY <1>1, <1>2, <1>3, <1>4, <1>5, <1>6, <1>7 DEF Next, Worker

LEMMA NextPointTypes == TypeOK /\ HomeInv /\ [Next]_vars => PointTypes'
  <1> SUFFICES ASSUME TypeOK, HomeInv, [Next]_vars PROVE PointTypes'
    OBVIOUS
  <1>0. PointTypes
    BY TypeParts
  <1>a. \A p \in Points, f \in Fates : [fate EXCEPT ![p] = f] \in [Points -> Fates]
    BY <1>0 DEF PointTypes
  <1>b. {"new", "open", "published", "failed", "dropped"} \subseteq Fates
    BY DEF Fates
  <1>c. \A p \in Points : Append(handed, p) \in Seq(Points)
    BY <1>0 DEF PointTypes
  <1>d. \A p \in Points : HasRoom => Append(buffer, p) \in Seq(Points)
                                     /\ Len(Append(buffer, p)) <= BufferSize
    BY <1>0, PublisherAssumption DEF PointTypes, HasRoom
  <1>e. buffer # <<>> => /\ Head(buffer) \in Points
                         /\ Tail(buffer) \in Seq(Points) /\ Len(Tail(buffer)) <= BufferSize
    BY <1>0, PublisherAssumption DEF PointTypes
  <1> USE <1>0, <1>b, PickedPoints DEF PointTypes, linkVars, workVars, traceVars
  <1>1. CASE Quiet
    BY <1>1 DEF Quiet, Places
  <1>2. ASSUME NEW g \in Producers, Publish(g) PROVE PointTypes'
    <2>1. offered' \in Points /\ offered' \in 0..MaxPoints
      BY <1>2, PointFacts DEF Publish
    <2>2. handed' \in Seq(Points)
      BY <1>2, <1>c, <2>1 DEF Publish, HandOver
    <2>3. fate' \in [Points -> Fates]
      BY <1>2, <1>a, <2>1 DEF Publish, Settle
    <2>4. QED
      BY <1>2, <2>1, <2>2, <2>3 DEF Publish
  <1>3. ASSUME NEW g \in Producers, PublishReturns(g) PROVE PointTypes'
    <2>1. call[g].point \in Points
      BY <1>3 DEF PublishReturns
    <2>2. fate' \in [Points -> Fates]
      BY <1>3, <1>a, <2>1 DEF PublishReturns, PublishEnds, Settle
    <2>3. QED
      BY <1>3, <2>2 DEF PublishReturns, Return, NoCall
  <1>4. ASSUME NEW g \in Producers, Buffered(g) PROVE PointTypes'
    <2>1. call[g].point \in Points
      BY <1>4 DEF Buffered
    <2>2. QED
      BY <1>4, <1>d, <2>1 DEF Buffered, Return, NoCall
  <1>5. ASSUME NEW g \in Producers, BufferFull(g) PROVE PointTypes'
    BY <1>5 DEF BufferFull, SetCall
  <1>6. ASSUME NEW g \in Producers, DropOldest(g) PROVE PointTypes'
    <2>1. fate' \in [Points -> Fates] /\ buffer' \in Seq(Points) /\ Len(buffer') <= BufferSize
      BY <1>6, <1>a, <1>e DEF DropOldest, Settle, Rest
    <2>2. QED
      BY <1>6, <2>1 DEF DropOldest, SetCall
  <1>7. ASSUME NEW g \in Producers, GiveUp(g) PROVE PointTypes'
    <2>1. call[g].point \in Points
      BY <1>7 DEF GiveUp
    <2>2. fate' \in [Points -> Fates]
      BY <1>7, <1>a, <2>1 DEF GiveUp, Settle
    <2>3. QED
      BY <1>7, <2>2 DEF GiveUp, Return, NoCall
  <1>8. CASE TakeMessage \/ DrainMessage
    BY <1>8, <1>e DEF TakeMessage, DrainMessage, Take
  <1>9. CASE PublishBuffered \/ FlushMessage
    BY <1>9, <1>c DEF PublishBuffered, FlushMessage, HandOver, Holding
  <1>10. CASE Rebuffer
    <2>1. hand \in Points
      BY <1>10 DEF Rebuffer, Holding
    <2>2. buffer' \in Seq(Points) /\ Len(buffer') <= BufferSize
      BY <1>10, <1>d, <2>1 DEF Rebuffer
    <2>3. fate' \in [Points -> Fates]
      BY <1>10, <1>a, <2>1 DEF Rebuffer, Settle
    <2>4. QED
      BY <1>10, <2>2, <2>3 DEF Rebuffer
  <1>11. CASE BufferedPublishEnds \/ DiscardMessage
    <2>1. hand \in Points
      BY <1>11 DEF BufferedPublishEnds, DiscardMessage, Holding
    <2>2. fate' \in [Points -> Fates]
      BY <1>11, <1>a, <2>1 DEF BufferedPublishEnds, DiscardMessage, PublishEnds, Settle
    <2>3. QED
      BY <1>11, <2>2 DEF BufferedPublishEnds, DiscardMessage
  <1>12. QED
    BY <1>1, <1>2, <1>3, <1>4, <1>5, <1>6, <1>7, <1>8, <1>9, <1>10, <1>11, StepKinds
       DEF BufferSteps

-----------------------------------------------------------------------------
(* One home for each point.                                                *)

\* A point that leaves its home is settled; one that moves is at home again.
LEMMA NextHome == TypeOK /\ HomeInv /\ [Next]_vars => HomeInv'
  <1> SUFFICES ASSUME TypeOK, HomeInv, [Next]_vars PROVE HomeInv'
    OBVIOUS
  <1>0. PointTypes
    BY TypeParts
  <1>a. \A p \in Points : HasRoom =>
              /\ Elems(Append(buffer, p)) = Elems(buffer) \cup {p}
              /\ p \notin Elems(buffer) => Distinct(Append(buffer, p))
    BY <1>0, AppendFacts DEF PointTypes, HomeInv
  <1>b. buffer # <<>> =>
              /\ Elems(buffer) = Elems(Tail(buffer)) \cup {Head(buffer)}
              /\ Head(buffer) \notin Elems(Tail(buffer)) /\ Distinct(Tail(buffer))
    BY <1>0, TailFacts DEF PointTypes, HomeInv
  <1>c. Elems(buffer) \subseteq Points
    BY <1>0 DEF PointTypes, Elems
  <1>d. offered \in Nat /\ Points \subseteq Nat /\ Nothing \notin Points
    BY <1>0, PointFacts DEF PointTypes
  <1> USE <1>0, <1>c, <1>d, PickedPoints DEF HomeInv, PointTypes, linkVars, workVars, traceVars
  <1>1. CASE Quiet
    BY <1>1 DEF Quiet, Places
  <1>2. ASSUME NEW g \in Producers, Publish(g) PROVE HomeInv'
    <2>1. /\ offered' = offered + 1 /\ offered' \in Points /\ fate[offered'] = "new"
          /\ fate' = [fate EXCEPT ![offered'] = "open"]
      BY <1>2, PointFacts DEF Publish, Settle
    <2>2. /\ offered' \notin Elems(buffer) \cup {hand}
          /\ \A h \in Producers : call[h].point # offered'
      BY <2>1
    <2>3. /\ call'[g].point = offered' /\ call'[g].pc \in {"publish", "buffer"}
          /\ \A h \in Producers : h # g => call'[h] = call[h]
          /\ call[g].point = Nothing
      BY <1>2 DEF Publish, NoCall
    <2>4. UNCHANGED <<buffer, hand, workerPc>>
      BY <1>2 DEF Publish
    <2>5. \A p \in Points : /\ fate'[p] = IF p = offered' THEN "open" ELSE fate[p]
                            /\ p > offered' <=> p > offered /\ p # offered'
      BY <2>1
    <2>6. \A p \in Points : fate'[p] = "new" <=> p > offered'
      BY <2>5
    <2>7. \A p \in Points : (\E h \in Producers : call'[h].point = p)
                              <=> p = offered' \/ \E h \in Producers : call[h].point = p
      BY <2>3
    <2>8. \A p \in Points : fate'[p] = "open" <=>
             p \in Elems(buffer') \cup {hand'} \/ \E h \in Producers : call'[h].point = p
      BY <2>4, <2>5, <2>7
    <2>9. QED
      BY <2>2, <2>3, <2>4, <2>6, <2>8
  \* A producer g whose call ends with point p: settled, or in the buffer.
  <1>3. ASSUME NEW g \in Producers, PublishReturns(g) \/ Buffered(g) \/ GiveUp(g) PROVE HomeInv'
    <2>1. PICK p \in Points : p = call[g].point
      BY <1>3 DEF PublishReturns, Buffered, GiveUp
    <2>2. /\ call'[g].point = Nothing /\ call'[g].pc = "idle"
          /\ \A h \in Producers : h # g => call'[h] = call[h]
      BY <1>3 DEF PublishReturns, Buffered, GiveUp, Return, NoCall
    <2>3. UNCHANGED <<hand, workerPc, offered>>
      BY <1>3 DEF PublishReturns, Buffered, GiveUp
    <2>4. /\ p \notin Elems(buffer) \cup {hand} /\ fate[p] = "open"
          /\ \A h \in Producers : call[h].point = p => h = g
      BY <2>1
    <2>5. \/ /\ UNCHANGED buffer
             /\ \E f \in {"published", "failed"} : fate' = [fate EXCEPT ![p] = f]
          \/ /\ fate' = fate
             /\ Elems(buffer') = Elems(buffer) \cup {p} /\ Distinct(buffer')
      <3>1. CASE PublishReturns(g)
        BY <2>1, <3>1 DEF PublishReturns, PublishEnds, Settle
      <3>2. CASE Buffered(g)
        BY <1>a, <2>1, <2>4, <3>2 DEF Buffered
      <3>3. CASE GiveUp(g)
        BY <2>1, <3>3 DEF GiveUp, Settle
      <3>4. QED
        BY <1>3, <3>1, <3>2, <3>3
    <2>6. \A q \in Points : (\E h \in Producers : call'[h].point = q)
                               <=> q # p /\ \E h \in Producers : call[h].point = q
      <3>1. ASSUME NEW q \in Points, NEW h \in Producers, call'[h].point = q
            PROVE  q # p /\ call[h].point = q
        BY <2>1, <2>2, <2>4, <3>1
      <3>2. ASSUME NEW q \in Points, NEW h \in Producers, call[h].point = q, q # p
            PROVE  call'[h].point = q
        BY <2>1, <2>2, <3>2
      <3>3. QED
        BY <3>1, <3>2
    <2>7. CASE UNCHANGED buffer /\ \E f \in {"published", "failed"} : fate' = [fate EXCEPT ![p] = f]
      <3>1. \A q \in Points : /\ q # p => fate'[q] = fate[q]
                              /\ fate'[p] \in {"published", "failed"}
        BY <2>1, <2>7
      <3>2. \A q \in Points : fate'[q] = "open" <=>
               q \in Elems(buffer') \cup {hand'} \/ \E h \in Producers : call'[h].point = q
        <4> SUFFICES ASSUME NEW q \in Points
                     PROVE  fate'[q] = "open" <=>
                              q \in Elems(buffer') \cup {hand'} \/ \E h \in Producers : call'[h].point = q
          OBVIOUS
        <4>1. CASE q = p
          BY <2>3, <2>4, <2>6, <2>7, <3>1, <4>1
        <4>2. CASE q # p
          BY <2>3, <2>6, <2>7, <3>1, <4>2
        <4>3. QED
          BY <4>1, <4>2
      <3>3. \A q \in Points : fate'[q] = "new" <=> q > offered'
        BY <2>1, <2>3, <2>4, <3>1
      <3>4. ASSUME NEW h \in Producers
            PROVE  /\ call'[h].pc = "idle" <=> call'[h].point = Nothing
                   /\ call'[h].point \notin Elems(buffer')
                   /\ call'[h].point # Nothing =>
                         /\ call'[h].point # hand'
                         /\ \A k \in Producers : call'[k].point = call'[h].point => k = h
        <4>1. CASE h = g
          BY <2>2, <2>7, <4>1
        <4>2. CASE h # g
          <5>1. call'[h] = call[h]
            BY <2>2, <4>2
          <5>2. ASSUME NEW k \in Producers, call'[k].point = call'[h].point, call[h].point # Nothing
                PROVE  k = h
            <6>1. k # g
              BY <2>2, <5>1, <5>2
            <6>2. call'[k] = call[k]
              BY <2>2, <6>1
            <6>3. QED
              BY <5>1, <5>2, <6>2
          <5>3. QED
            BY <2>3, <2>7, <5>1, <5>2
        <4>3. QED
          BY <4>1, <4>2
      <3>5. QED
        BY <2>3, <2>7, <3>2, <3>3, <3>4
    <2>8. CASE fate' = fate /\ Elems(buffer') = Elems(buffer) \cup {p} /\ Distinct(buffer')
      <3>1. \A q \in Points : fate'[q] = "open" <=>
               q \in Elems(buffer') \cup {hand'} \/ \E h \in Producers : call'[h].point = q
        BY <2>1, <2>3, <2>4, <2>6, <2>8
      <3>2. \A h \in Producers : h # g => call[h].point # p
        BY <2>4
      <3>3. QED
        BY <2>1, <2>2, <2>3, <2>4, <2>8, <3>1, <3>2
    <2>9. QED
      BY <2>5, <2>7, <2>8
  <1>4. ASSUME NEW g \in Producers, BufferFull(g) \/ DropOldest(g) PROVE HomeInv'
    <2>1. /\ call[g].pc # "idle" /\ call'[g].pc # "idle"
          /\ \A h \in Producers : /\ call'[h].point = call[h].point
                                  /\ h # g => call'[h].pc = call[h].pc
      BY <1>4 DEF BufferFull, DropOldest, SetCall
    <2>2. UNCHANGED <<hand, workerPc, offered>>
      BY <1>4 DEF BufferFull, DropOldest
    <2>a. \A h \in Producers :
             /\ call'[h].pc = "idle" <=> call'[h].point = Nothing
             /\ call'[h].point # Nothing =>
                   /\ call'[h].point # hand'
                   /\ \A k \in Producers : call'[k].point = call'[h].point => k = h
      <3>1. \A h \in Producers : call'[h].pc = "idle" <=> call[h].pc = "idle"
        BY <2>1
      <3>2. QED
        BY <2>1, <2>2, <3>1
    <2>3. CASE UNCHANGED <<buffer, fate>>
      <3>1. \A h \in Producers : call'[h].point \notin Elems(buffer')
        BY <2>1, <2>3
      <3>2. \A q \in Points : /\ fate'[q] = "new" <=> q > offered'
                              /\ fate'[q] = "open" <=>
                                    \/ q \in Elems(buffer') \cup {hand'}
                                    \/ \E h \in Producers : call'[h].point = q
        BY <2>1, <2>2, <2>3
      <3>3. QED
        BY <2>2, <2>3, <2>a, <3>1, <3>2
    <2>4. CASE /\ buffer # <<>> /\ buffer' = Tail(buffer)
               /\ fate' = [fate EXCEPT ![Head(buffer)] = "dropped"]
      <3> DEFINE p == Head(buffer)
      <3>1. /\ p \in Points /\ Elems(buffer) = Elems(buffer') \cup {p}
            /\ p \notin Elems(buffer') /\ Distinct(buffer')
        BY <1>b, <2>4
      <3>2. /\ fate[p] = "open" /\ p # hand
            /\ \A h \in Producers : call[h].point # p
        BY <3>1
      <3>3. \A q \in Points : fate'[q] = IF q = p THEN "dropped" ELSE fate[q]
        BY <2>4
      <3> HIDE DEF p
      <3>4. \A q \in Points : fate'[q] = "open" <=>
               q \in Elems(buffer') \cup {hand'} \/ \E h \in Producers : call'[h].point = q
        BY <2>1, <2>2, <3>1, <3>2, <3>3
      <3>5. \A q \in Points : fate'[q] = "new" <=> q > offered'
        BY <2>2, <3>1, <3>2, <3>3
      <3>6. \A h \in Producers : call'[h].point \notin Elems(buffer')
        BY <2>1, <3>1
      <3>7. hand' \notin Elems(buffer')
        BY <2>2, <3>1
      <3>8. QED
        BY <2>2, <2>a, <3>1, <3>4, <3>5, <3>6, <3>7
    <2>5. CASE BufferFull(g)
      BY <2>3, <2>5 DEF BufferFull
    <2>6. CASE DropOldest(g) /\ buffer = <<>>
      BY <2>3, <2>6 DEF DropOldest
    <2>7. CASE DropOldest(g) /\ buffer # <<>>
      <3>1. buffer' = Tail(buffer) /\ fate' = [fate EXCEPT ![Head(buffer)] = "dropped"]
        BY <2>7 DEF DropOldest, Settle, Rest
      <3>2. QED
        BY <2>4, <2>7, <3>1
    <2>8. QED
      BY <1>4, <2>5, <2>6, <2>7
  <1>5. CASE TakeMessage \/ DrainMessage
    <2>1. /\ buffer # <<>> /\ hand' = Head(buffer) /\ buffer' = Tail(buffer)
          /\ workerPc \notin Holding /\ workerPc' \in Holding
          /\ UNCHANGED <<call, offered, fate>>
      BY <1>5 DEF TakeMessage, DrainMessage, Take, Holding
    <2>2. /\ Elems(buffer) = Elems(buffer') \cup {hand'} /\ hand' \in Points
          /\ hand' \notin Elems(buffer') /\ Distinct(buffer')
      BY <1>b, <2>1
    <2>3. hand = Nothing
      BY <2>1
    <2>4. \A q \in Points : fate'[q] = "open" <=>
             q \in Elems(buffer') \cup {hand'} \/ \E h \in Producers : call'[h].point = q
      BY <2>1, <2>2, <2>3
    <2>5. QED
      BY <2>1, <2>2, <2>4
  <1>6. CASE PublishBuffered \/ FlushMessage
    BY <1>6 DEF PublishBuffered, FlushMessage, Holding
  <1>7. CASE Rebuffer \/ BufferedPublishEnds \/ DiscardMessage
    <2>1. /\ workerPc \in Holding /\ workerPc' \notin Holding /\ hand' = Nothing
          /\ UNCHANGED <<call, offered>>
      BY <1>7 DEF Rebuffer, BufferedPublishEnds, DiscardMessage, Holding
    <2>2. /\ hand \in Points /\ hand \notin Elems(buffer) /\ fate[hand] = "open"
          /\ \A h \in Producers : call[h].point # hand
      BY <2>1
    <2>3. \/ /\ UNCHANGED buffer
             /\ \E f \in {"published", "failed", "dropped"} : fate' = [fate EXCEPT ![hand] = f]
          \/ /\ fate' = fate
             /\ Elems(buffer') = Elems(buffer) \cup {hand} /\ Distinct(buffer')
      <3>1. CASE Rebuffer
        <4>1. CASE HasRoom /\ buffer' = Append(buffer, hand) /\ UNCHANGED fate
          BY <1>a, <2>2, <4>1
        <4>2. CASE ~HasRoom /\ Settle(hand, "dropped") /\ UNCHANGED buffer
          BY <4>2 DEF Settle
        <4>3. QED
          BY <3>1, <4>1, <4>2 DEF Rebuffer
      <3>2. CASE BufferedPublishEnds
        BY <3>2 DEF BufferedPublishEnds, PublishEnds, Settle
      <3>3. CASE DiscardMessage
        BY <3>3 DEF DiscardMessage, Settle
      <3>4. QED
        BY <1>7, <3>1, <3>2, <3>3
    <2>4. CASE /\ UNCHANGED buffer
               /\ \E f \in {"published", "failed", "dropped"} : fate' = [fate EXCEPT ![hand] = f]
      <3>1. \A q \in Points : /\ q # hand => fate'[q] = fate[q]
                              /\ fate'[hand] \in {"published", "failed", "dropped"}
        BY <2>2, <2>4
      <3>2. \A q \in Points : fate'[q] = "open" <=>
               q \in Elems(buffer') \cup {hand'} \/ \E h \in Producers : call'[h].point = q
        BY <2>1, <2>2, <2>4, <3>1
      <3>3. \A q \in Points : fate'[q] = "new" <=> q > offered'
        BY <2>1, <2>2, <3>1
      <3>4. QED
        BY <2>1, <2>4, <3>2, <3>3
    <2>5. CASE fate' = fate /\ Elems(buffer') = Elems(buffer) \cup {hand} /\ Distinct(buffer')
      BY <2>1, <2>2, <2>5
    <2>6. QED
      BY <2>3, <2>4, <2>5
  <1>8. QED
    BY <1>1, <1>2, <1>3, <1>4, <1>5, <1>6, <1>7, StepKinds DEF BufferSteps

-----------------------------------------------------------------------------
(* Handed over once.                                                       *)

LEMMA NextHanded == TypeOK /\ HomeInv /\ HandedInv /\ [Next]_vars => HandedInv'
  <1> SUFFICES ASSUME TypeOK, HomeInv, HandedInv, [Next]_vars PROVE HandedInv'
    OBVIOUS
  <1>0. PointTypes
    BY TypeParts
  <1>a. \A p \in Points :
           /\ Elems(Append(handed, p)) = Elems(handed) \cup {p}
           /\ p \notin Elems(handed) => Distinct(Append(handed, p))
           /\ Elems(Append(buffer, p)) = Elems(buffer) \cup {p}
    BY <1>0, AppendFacts DEF PointTypes, HandedInv
  <1>b. buffer # <<>> => Elems(buffer) = Elems(Tail(buffer)) \cup {Head(buffer)}
    BY <1>0, TailFacts DEF PointTypes
  <1>c. Elems(buffer) \subseteq Points /\ Elems(handed) \subseteq Points
    BY <1>0 DEF PointTypes, Elems
  <1>d. offered \in Nat /\ Points \subseteq Nat /\ Nothing \notin Points
    BY <1>0, PointFacts DEF PointTypes
  <1> USE <1>c, <1>d DEF HandedInv, linkVars, workVars, traceVars
  <1>1. CASE Quiet
    BY <1>1 DEF Quiet, Places, Holding, Untried
  <1>2. ASSUME NEW g \in Producers, Publish(g) PROVE HandedInv'
    <2>1. offered' = offered + 1 /\ offered' \in Points /\ offered' \notin Elems(handed) \cup Elems(buffer)
      <3>1. offered' = offered + 1 /\ offered' \in Points
        BY <1>0, <1>2, PointFacts DEF Publish, PointTypes
      <3>2. offered' \notin Elems(handed)
        BY <3>1
      <3>3. fate[offered'] = "new"
        BY <3>1 DEF HomeInv
      <3>4. offered' \notin Elems(buffer)
        BY <3>1, <3>3 DEF HomeInv
      <3>5. QED
        BY <3>1, <3>2, <3>4
    <2>2. \A h \in Producers : h # g => call'[h] = call[h]
      BY <1>0, <1>2 DEF Publish, PointTypes
    <2>3. UNCHANGED <<buffer, hand, workerPc>>
      BY <1>2 DEF Publish
    <2>4. workerPc \in Untried => hand \in Points /\ fate[hand] = "open"
      BY <1>0, PickedPoints DEF HomeInv, Untried, Holding
    <2>5. hand # offered' \/ workerPc \notin Untried
      BY <2>1, <2>4 DEF HomeInv
    <2>6. \A h \in Producers : call[h].point # offered'
      <3>1. fate[offered'] = "new"
        BY <2>1 DEF HomeInv
      <3>2. QED
        BY <2>1, <3>1 DEF HomeInv
    <2>7. CASE connected
      <3>1. /\ call'[g].pc = "publish"
            /\ Elems(handed') = Elems(handed) \cup {offered'} /\ Distinct(handed')
        <4>1. handed' = Append(handed, offered')
          BY <1>2, <2>7 DEF Publish, HandOver
        <4>2. call'[g].pc = "publish"
          BY <1>0, <1>2, <2>7 DEF Publish, PointTypes
        <4>3. QED
          BY <1>a, <2>1, <4>1, <4>2
      <3>2. \A h \in Producers : call'[h].pc \in Buffering => call'[h].point \notin Elems(handed')
        BY <2>2, <2>6, <3>1 DEF Buffering
      <3>3. \A p \in Elems(handed') : p <= offered'
        <4>1. ASSUME NEW p \in Elems(handed) PROVE p <= offered + 1
          <5>1. p \in Nat
            BY <1>c, <1>d
          <5>2. p <= offered
            BY DEF HandedInv
          <5>3. QED
            BY <1>d, <5>1, <5>2
        <4>2. offered' <= offered'
          BY <2>1
        <4>3. QED
          BY <2>1, <3>1, <4>1, <4>2
      <3>4. Elems(handed') \cap Elems(buffer') = {}
        BY <2>1, <2>3, <3>1
      <3>5. workerPc' \in Untried => hand' \notin Elems(handed')
        BY <2>3, <2>5, <3>1
      <3>6. QED
        BY <3>1, <3>2, <3>3, <3>4, <3>5
    <2>8. CASE ~connected
      <3>1. call'[g].point = offered' /\ handed' = handed
        BY <1>0, <1>2, <2>8 DEF Publish, PointTypes
      <3>2. \A h \in Producers : call'[h].pc \in Buffering => call'[h].point \notin Elems(handed')
        BY <2>1, <2>2, <3>1
      <3>3. \A p \in Elems(handed') : p <= offered'
        <4>1. ASSUME NEW p \in Elems(handed) PROVE p <= offered + 1
          <5>1. p \in Nat
            BY <1>c, <1>d
          <5>2. p <= offered
            BY DEF HandedInv
          <5>3. QED
            BY <1>d, <5>1, <5>2
        <4>2. offered' <= offered'
          BY <2>1
        <4>3. QED
          BY <2>1, <3>1, <4>1, <4>2
      <3>4. QED
        BY <2>3, <3>1, <3>2, <3>3
    <2>9. QED
      BY <2>7, <2>8
  <1>3. ASSUME NEW g \in Producers, PublishReturns(g) \/ Buffered(g) \/ GiveUp(g) PROVE HandedInv'
    <2>1. /\ call'[g].pc = "idle"
          /\ \A h \in Producers : h # g => call'[h] = call[h]
      BY <1>0, <1>3 DEF PublishReturns, Buffered, GiveUp, Return, NoCall, PointTypes
    <2>2. UNCHANGED <<hand, workerPc, offered, handed>>
      BY <1>3 DEF PublishReturns, Buffered, GiveUp
    <2>3. \A h \in Producers : call'[h].pc \in Buffering => call'[h].point \notin Elems(handed')
      BY <2>1, <2>2 DEF Buffering
    <2>4. CASE UNCHANGED buffer
      BY <2>2, <2>3, <2>4
    <2>5. CASE Buffered(g)
      <3>1. call[g].point \in Points /\ call[g].pc \in Buffering
        BY <2>5, PickedPoints DEF Buffered, Buffering
      <3>2. Elems(buffer') = Elems(buffer) \cup {call[g].point}
        BY <1>a, <2>5, <3>1 DEF Buffered
      <3>3. QED
        BY <2>2, <2>3, <3>1, <3>2
    <2>6. QED
      BY <1>3, <2>4, <2>5 DEF PublishReturns, GiveUp
  <1>4. ASSUME NEW g \in Producers, BufferFull(g) \/ DropOldest(g) PROVE HandedInv'
    <2>1. \A h \in Producers : call'[h].pc \in Buffering =>
             call[h].pc \in Buffering /\ call'[h].point = call[h].point
      BY <1>0, <1>4 DEF BufferFull, DropOldest, SetCall, Buffering, PointTypes
    <2>2. Elems(buffer') \subseteq Elems(buffer)
      BY <1>4, <1>b DEF BufferFull, DropOldest, Rest
    <2>3. UNCHANGED <<hand, workerPc, offered, handed>>
      BY <1>4 DEF BufferFull, DropOldest
    <2>4. QED
      BY <2>1, <2>2, <2>3
  <1>5. CASE TakeMessage \/ DrainMessage
    <2>1. /\ buffer # <<>> /\ hand' = Head(buffer) /\ buffer' = Tail(buffer)
          /\ UNCHANGED <<call, offered, handed>>
      BY <1>5 DEF TakeMessage, DrainMessage, Take
    <2>2. Elems(buffer') \subseteq Elems(buffer) /\ hand' \in Elems(buffer)
      BY <1>b, <2>1
    <2>3. QED
      BY <2>1, <2>2
  <1>6. CASE PublishBuffered \/ FlushMessage
    <2>1. /\ handed' = Append(handed, hand) /\ workerPc' \notin Untried
          /\ workerPc \in Untried
          /\ UNCHANGED <<call, offered, buffer>>
      BY <1>6 DEF PublishBuffered, FlushMessage, HandOver, Untried
    <2>2. /\ hand \in Points /\ hand \notin Elems(handed) /\ hand \notin Elems(buffer)
          /\ \A h \in Producers : call[h].point # hand
      BY <2>1, PickedPoints DEF HomeInv, Untried, Holding
    <2>3. hand <= offered
      <3>1. fate[hand] # "new"
        BY <2>2 DEF HomeInv
      <3>2. QED
        BY <2>2, <3>1 DEF HomeInv
    <2>4. QED
      BY <1>a, <2>1, <2>2, <2>3
  <1>7. CASE Rebuffer \/ BufferedPublishEnds \/ DiscardMessage
    <2>1. /\ workerPc' \notin Untried /\ UNCHANGED <<call, offered, handed>>
      BY <1>7 DEF Rebuffer, BufferedPublishEnds, DiscardMessage, Untried
    <2>2. CASE UNCHANGED buffer
      BY <2>1, <2>2
    <2>3. CASE Rebuffer /\ buffer' = Append(buffer, hand)
      <3>1. hand \in Points /\ workerPc \in Untried
        BY <2>3, PickedPoints DEF Rebuffer, Untried, Holding
      <3>2. QED
        BY <1>a, <2>1, <2>3, <3>1
    <2>4. QED
      BY <1>7, <2>2, <2>3 DEF Rebuffer, BufferedPublishEnds, DiscardMessage
  <1>8. QED
    BY <1>1, <1>2, <1>3, <1>4, <1>5, <1>6, <1>7, StepKinds DEF BufferSteps

-----------------------------------------------------------------------------
(* The topics.                                                             *)

\* A step records the topic of the point that it publishes, or publishes none.
LEMMA TopicSteps ==
  ASSUME TypeOK, HomeInv, [Next]_vars
  PROVE  \/ /\ UNCHANGED tracked
            /\ \A p \in Points : fate'[p] = "published" => fate[p] = "published"
         \/ \E p \in Points : /\ RecordTopic(TopicOf[p])
                              /\ \A q \in Points \ {p} : fate'[q] = fate[q]
  <1>0. PointTypes
    BY TypeParts
  <1>1. ASSUME NEW p \in Points, PublishEnds(p)
        PROVE  \/ /\ UNCHANGED tracked
                  /\ \A q \in Points : fate'[q] = "published" => fate[q] = "published"
               \/ /\ RecordTopic(TopicOf[p])
                  /\ \A q \in Points \ {p} : fate'[q] = fate[q]
    BY <1>0, <1>1 DEF PublishEnds, Settle, PointTypes
  <1>2. ASSUME NEW g \in Producers, PublishReturns(g)
        PROVE  \E p \in Points : PublishEnds(p)
    BY <1>2, PickedPoints DEF PublishReturns
  <1>3. BufferedPublishEnds => \E p \in Points : PublishEnds(p)
    BY PickedPoints DEF BufferedPublishEnds, Holding
  <1> USE <1>0 DEF PointTypes, linkVars, workVars, traceVars
  <1>4. ASSUME NEW g \in Producers, Publish(g) \/ BufferSteps(g)
        PROVE  /\ UNCHANGED tracked
               /\ \A q \in Points : fate'[q] = "published" => fate[q] = "published"
    BY <1>4 DEF Publish, BufferSteps, Buffered, BufferFull, DropOldest, GiveUp, Settle
  <1>5. ASSUME Rebuffer \/ DiscardMessage
        PROVE  /\ UNCHANGED tracked
               /\ \A q \in Points : fate'[q] = "published" => fate[q] = "published"
    BY <1>5 DEF Rebuffer, DiscardMessage, Settle
  <1>6. ASSUME TakeMessage \/ DrainMessage \/ PublishBuffered \/ FlushMessage
        PROVE  UNCHANGED <<tracked, fate>>
    BY <1>6 DEF TakeMessage, DrainMessage, PublishBuffered, FlushMessage
  <1>7. ASSUME Connection \/ CloseDone \/ DisconnectReturns
        PROVE  UNCHANGED <<tracked, fate>>
    BY <1>7 DEF Connection, LinkBreaks, LinkReturns, FlagFollows, CloseDone, DisconnectReturns
  <1>8. ASSUME SeeDone \/ BackoffEnds \/ LeaveInBackoff \/ DrainEnds \/ DrainTimesOut
        PROVE  UNCHANGED <<tracked, fate>>
    BY <1>8 DEF SeeDone, BackoffEnds, LeaveInBackoff, DrainEnds, DrainTimesOut
  <1>9. ASSUME Idle \/ UNCHANGED vars PROVE UNCHANGED <<tracked, fate>>
    BY <1>9 DEF Idle, vars
  <1>10. QED
    BY <1>1, <1>2, <1>3, <1>4, <1>5, <1>6, <1>7, <1>8, <1>9
       DEF Next, Worker, Returns, BufferSteps

\* What TopicsForgottenWhenFull says, in terms of sets.
Listed(p) == TopicOf[p] \in Elems(tracked)

LEMMA TopicsAsSets ==
  TopicsForgottenWhenFull <=>
     /\ Distinct(tracked)
     /\ (\E p \in Points : fate[p] = "published" /\ ~Listed(p))
           => Len(tracked) \in (MaxTopics - EvictCount + 1)..MaxTopics
  BY DEF TopicsForgottenWhenFull, Distinct, Listed, Elems

LEMMA NextTopics ==
  TypeOK /\ HomeInv /\ TopicsInv /\ [Next]_vars => TopicsInv' /\ tracked' \in Seq(Topics)
  <1> SUFFICES ASSUME TypeOK, HomeInv, TopicsInv, [Next]_vars
               PROVE  TopicsInv' /\ tracked' \in Seq(Topics)
    OBVIOUS
  <1>0. /\ tracked \in Seq(Topics) /\ Len(tracked) \in Nat
        /\ Distinct(tracked) /\ Len(tracked) <= MaxTopics
    BY TopicsAsSets DEF TypeOK, TopicsInv
  <1>a. (\E p \in Points : fate[p] = "published" /\ ~Listed(p))
           => Len(tracked) \in (MaxTopics - EvictCount + 1)..MaxTopics
    BY TopicsAsSets DEF TopicsInv
  <1>b. MaxTopics \in Nat /\ EvictCount \in 1..MaxTopics
    BY PublisherAssumption
  <1>1. CASE /\ UNCHANGED tracked
             /\ \A p \in Points : fate'[p] = "published" => fate[p] = "published"
    <2>1. (\E p \in Points : fate'[p] = "published" /\ ~Listed(p)')
            => Len(tracked') \in (MaxTopics - EvictCount + 1)..MaxTopics
      BY <1>1, <1>a DEF Listed
    <2>2. TopicsForgottenWhenFull'
      BY <1>0, <1>1, <2>1 DEF TopicsForgottenWhenFull, Distinct, Listed, Elems
    <2>3. QED
      BY <1>0, <1>1, <2>2 DEF TopicsInv
  <1>2. ASSUME NEW p \in Points, RecordTopic(TopicOf[p]),
               \A q \in Points \ {p} : fate'[q] = fate[q]
        PROVE  TopicsInv' /\ tracked' \in Seq(Topics)
    <2>1. TopicOf[p] \in Topics
      BY DEF Topics
    <2>2. /\ tracked' \in Seq(Topics) /\ Distinct(tracked') /\ Len(tracked') <= MaxTopics
          /\ TopicOf[p] \in Elems(tracked')
          /\ \/ Len(tracked') >= Len(tracked) /\ Elems(tracked) \subseteq Elems(tracked')
             \/ Len(tracked') = MaxTopics - EvictCount + 1
      BY <1>0, <1>2, <2>1, RecordFacts
    <2>3. ASSUME NEW q \in Points, fate'[q] = "published", TopicOf[q] \notin Elems(tracked')
          PROVE  Len(tracked') \in (MaxTopics - EvictCount + 1)..MaxTopics
      <3>0. Len(tracked') \in Nat
        BY <2>2
      <3>1. q # p
        BY <2>2, <2>3
      <3>2. CASE Elems(tracked) \subseteq Elems(tracked') /\ Len(tracked') >= Len(tracked)
        <4>1. fate[q] = "published" /\ ~Listed(q)
          BY <1>2, <2>3, <3>1, <3>2 DEF Listed
        <4>2. QED
          BY <1>0, <1>a, <1>b, <2>2, <3>0, <3>2, <4>1
      <3>3. CASE Len(tracked') = MaxTopics - EvictCount + 1
        BY <1>b, <2>2, <3>0, <3>3
      <3>4. QED
        BY <2>2, <3>2, <3>3
    <2>4. TopicsForgottenWhenFull'
      BY <2>2, <2>3 DEF TopicsForgottenWhenFull, Distinct, Elems
    <2>5. QED
      BY <2>2, <2>4 DEF TopicsInv
  <1>3. QED
    BY <1>1, <1>2, TopicSteps

-----------------------------------------------------------------------------
(* The theorems.                                                           *)

\* The inductive invariant.
IInv == TypeOK /\ HomeInv /\ HandedInv /\ TopicsInv

LEMMA InitInv == Init => IInv
  <1> SUFFICES ASSUME Init PROVE IInv
    OBVIOUS
  <1> USE DEF Init
  <1>1. Types
    BY PublisherAssumption DEF Types
  <1>2. PointTypes /\ tracked \in Seq(Topics)
    <2>1. buffer \in Seq(Points) /\ Len(buffer) = 0 /\ handed \in Seq(Points) /\ tracked \in Seq(Topics)
      OBVIOUS
    <2>2. BufferSize \in Nat /\ offered \in 0..MaxPoints
      BY PublisherAssumption
    <2>3. fate \in [Points -> Fates]
      BY DEF Fates
    <2>4. QED
      BY <2>1, <2>2, <2>3 DEF PointTypes, NoCall
  <1>3. Elems(buffer) = {} /\ Elems(handed) = {} /\ Distinct(buffer) /\ Distinct(handed)
    BY DEF Elems, Distinct
  <1>4. HomeInv
    <2>1. \A p \in Points : p > offered /\ p # Nothing
      BY DEF Points, Nothing
    <2>2. \A p \in Points : fate[p] = "new"
      OBVIOUS
    <2>3. \A g \in Producers : call[g].pc = "idle" /\ call[g].point = Nothing
      BY DEF NoCall
    <2>4. QED
      BY <1>3, <2>1, <2>2, <2>3 DEF HomeInv, Holding
  <1>5. HandedInv
    BY <1>3 DEF HandedInv, NoCall, Buffering
  <1>6. TopicsInv
    BY PublisherAssumption DEF TopicsInv, TopicsForgottenWhenFull
  <1>7. QED
    BY <1>1, <1>2, <1>4, <1>5, <1>6, TypeParts DEF IInv

LEMMA NextInv == IInv /\ [Next]_vars => IInv'
  <1> SUFFICES ASSUME IInv, [Next]_vars PROVE IInv'
    OBVIOUS
  <1>1. Types' /\ PointTypes' /\ (tracked \in Seq(Topics))'
    BY NextTypes, NextPointTypes, NextTopics, TypeParts DEF IInv
  <1>2. TypeOK'
    BY <1>1 DEF TypeOK, Types, PointTypes
  <1>3. QED
    BY <1>2, NextHome, NextHanded, NextTopics DEF IInv

\* The inductive invariant: the types, where each point is, what was handed to the
\* client and which topics are counted (publisher.go: Publish, bufferMessage,
\* processBuffer, drainBuffer, recordTopicPublish).
THEOREM PublisherCorrect == Spec => []IInv
  BY InitInv, NextInv, PTL DEF Spec

\* Types, one home for each unsettled point and truthful statistics of topics
\* (publisher.go: bufferMessage, processBuffer, drainBuffer, recordTopicPublish).
THEOREM AlwaysBufferSafe == Spec => []BufferSafe
  <1>1. IInv => PointHasOneHome
    <2> SUFFICES ASSUME IInv, NEW p \in Points
                 PROVE  /\ fate[p] = "open" => \E h \in Homes(p) : Homes(p) = {h}
                        /\ fate[p] # "open" => Homes(p) = {}
      BY DEF PointHasOneHome
    <2>0. p # Nothing
      BY PointFacts
    <2>1. CASE fate[p] # "open"
      <3>1. /\ \A j \in 1..Len(buffer) : buffer[j] # p
            /\ \A g \in Producers : call[g].point # p
            /\ hand # p
        BY <2>1 DEF IInv, HomeInv, Elems
      <3>2. QED
        BY <2>1, <3>1 DEF Homes
    <2>2. CASE fate[p] = "open" /\ p \in Elems(buffer)
      <3>1. PICK i \in 1..Len(buffer) : buffer[i] = p
        BY <2>2 DEF Elems
      <3>2. {j \in 1..Len(buffer) : buffer[j] = p} = {i}
        BY <3>1 DEF IInv, HomeInv, Distinct
      <3>3. {h \in Producers : call[h].point = p} = {} /\ {hand} \cap {p} = {}
        BY <2>2 DEF IInv, HomeInv
      <3>4. Homes(p) = {<<"buffer", i>>}
        BY <3>2, <3>3 DEF Homes
      <3>5. QED
        BY <2>2, <3>4
    <2>3. CASE fate[p] = "open" /\ p = hand
      <3>1. {j \in 1..Len(buffer) : buffer[j] = p} = {}
        BY <2>3 DEF IInv, HomeInv, Elems
      <3>2. {h \in Producers : call[h].point = p} = {} /\ {hand} \cap {p} = {p}
        BY <2>0, <2>3 DEF IInv, HomeInv
      <3>3. Homes(p) = {<<"worker", p>>}
        BY <3>1, <3>2 DEF Homes
      <3>4. QED
        BY <2>3, <3>3
    <2>4. ASSUME fate[p] = "open", NEW g \in Producers, call[g].point = p
          PROVE  \E h \in Homes(p) : Homes(p) = {h}
      <3>1. {j \in 1..Len(buffer) : buffer[j] = p} = {}
        BY <2>4 DEF IInv, HomeInv, Elems
      <3>2. {h \in Producers : call[h].point = p} = {g} /\ {hand} \cap {p} = {}
        BY <2>0, <2>4 DEF IInv, HomeInv
      <3>3. Homes(p) = {<<"call", g>>}
        BY <3>1, <3>2 DEF Homes
      <3>4. QED
        BY <3>3
    <2>5. QED
      BY <2>1, <2>2, <2>3, <2>4 DEF IInv, HomeInv
  <1>2. IInv => BufferSafe
    BY <1>1 DEF IInv, BufferSafe, TopicsInv
  <1>3. QED
    BY <1>2, PublisherCorrect, PTL

\* No point is given to the client twice, nor given and kept (publisher.go:
\* Publish, bufferMessage, processBuffer).
THEOREM AlwaysHandedOverOnce == Spec => []HandedOverOnce
  <1>1. IInv => HandedOverOnce
    BY DEF IInv, HandedInv, HandedOverOnce, Distinct, Elems
  <1>2. QED
    BY <1>1, PublisherCorrect, PTL
=============================================================================
