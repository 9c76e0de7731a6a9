-------------------------- MODULE AodvQueueProofs --------------------------
(***************************************************************************)
(* The request queue of AodvSoftState keeps the order of its packets and   *)
(* implements AodvPacketBuffer, for all packets, limits and time-outs.     *)
(***************************************************************************)
EXTENDS AodvSoftStateProofs, FunctionTheorems, FiniteSetTheorems, WellFoundedInduction

\* A finite set of integers that is not empty has a smallest element: the one
\* with a minimal set of elements below it.
LEMMA LeastElement ==
    ASSUME NEW S, S \subseteq Int, IsFiniteSet(S), S # {}
    PROVE  \E x \in S : \A y \in S : x <= y
<1> DEFINE Below(x) == {y \in S : y < x}
           F == {Below(x) : x \in S}
<1>1. F \subseteq FiniteSubsetsOf(S)
    BY FS_Subset DEF FiniteSubsetsOf
<1>2. F # {}
    OBVIOUS
<1>3. \E T \in F : \A U \in F : ~(<<U, T>> \in StrictSubsetOrdering(S))
    BY <1>1, <1>2, FS_StrictSubsetOrderingWellFounded, WFMin
<1>4. PICK x \in S : \A U \in F : ~(<<U, Below(x)>> \in StrictSubsetOrdering(S))
    BY <1>3
<1>5. ASSUME NEW y \in S, y < x PROVE FALSE
    <2>1. y \in Below(x) BY <1>5
    <2>2. y \notin Below(y) BY <1>5
    <2>3. ASSUME NEW z \in Below(y) PROVE z \in Below(x)
        <3>1. z \in S /\ z < y BY <2>3
        <3>2. z \in Int /\ y \in Int /\ x \in Int BY <3>1, <1>4, <1>5
        <3>3. z < x BY <3>1, <3>2, <1>5
        <3> QED BY <3>1, <3>3
    <2>4. Below(y) \subseteq S /\ Below(x) \subseteq S /\ Below(y) \in F OBVIOUS
    <2> HIDE DEF Below, F
    <2>5. Below(y) \subseteq Below(x) /\ Below(y) # Below(x) BY <2>1, <2>2, <2>3
    <2>6. <<Below(y), Below(x)>> \in StrictSubsetOrdering(S)
        BY <2>4, <2>5 DEF StrictSubsetOrdering
    <2> QED BY <1>4, <2>4, <2>6
<1> QED BY <1>5

-----------------------------------------------------------------------------
\* Entries have numbers of their own, smaller than the next one, and so have
\* the waits that are over.
QueueInv ==
    /\ queue \subseteq QueueEntries
    /\ IsFiniteSet(queue)
    /\ arrivals \in Nat
    /\ maxLen \in Nat \ {0}
    /\ queueTimeout \in Nat
    /\ \A e \in queue : e.arrival < arrivals
    /\ \A e, f \in queue : e.arrival = f.arrival => e = f
    /\ sent \subseteq Packets \X Nat
    /\ failed \subseteq Packets \X Nat
    /\ \A w \in sent \cup failed : w[2] < arrivals
    /\ SentInOrder

\* There is a most aged entry among those that wait.
LEMMA MostAgedExists ==
    ASSUME QueueInv, NEW E, E \subseteq queue, E # {}
    PROVE  MostAged(E) \in E /\ \A f \in E : MostAged(E).arrival <= f.arrival
<1> DEFINE A == {e.arrival : e \in E}
<1>1. IsFiniteSet(E) BY FS_Subset DEF QueueInv
<1>2. IsFiniteSet(A)
    <2> DEFINE g == [e \in E |-> e.arrival]
    <2>1. g \in Surjection(E, A) BY DEF Surjection
    <2> HIDE DEF A, g
    <2> QED BY <1>1, <2>1, FS_Surjection
<1>3. A \subseteq Int /\ A # {} BY DEF QueueInv, QueueEntries
<1>4. PICK x \in A : \A y \in A : x <= y
    <2> HIDE DEF A
    <2> QED BY <1>2, <1>3, LeastElement
<1>5. \E e \in E : \A f \in E : e.arrival <= f.arrival BY <1>4
<1> QED BY <1>5 DEF MostAged

\* Entries have different waits, ...
LEMMA WaitsMinus ==
    ASSUME QueueInv, NEW X, X \subseteq queue
    PROVE  Waits(queue \ X) = Waits(queue) \ Waits(X)
<1>1. \A e, f \in queue : Wait(e) = Wait(f) => e = f
    BY DEF QueueInv, Wait
<1> QED BY <1>1 DEF Waits

\* ... so that there are as many waits as entries.
LEMMA WaitsCardinality ==
    ASSUME NEW Q, IsFiniteSet(Q), \A e, f \in Q : e.arrival = f.arrival => e = f
    PROVE  Cardinality(Waits(Q)) = Cardinality(Q)
<1> DEFINE g == [e \in Q |-> Wait(e)]
<1>1. \A a, b \in Q : g[a] = g[b] => a = b
    BY DEF Wait
<1>2. g \in [Q -> Waits(Q)] /\ \A t \in Waits(Q) : \E s \in Q : g[s] = t
    BY DEF Waits
<1> HIDE DEF g
<1>3. g \in Bijection(Q, Waits(Q))
    BY <1>1, <1>2, Fun_IsBij
<1>4. ExistsBijection(Q, Waits(Q)) BY <1>3 DEF ExistsBijection
<1> QED BY <1>4, FS_Bijection

\* The buffer counts as the queue does.
LEMMA BufferCardinality ==
    ASSUME NEW S
    PROVE  Buffer!Cardinality(S) = Cardinality(S)
BY DEF Buffer!Cardinality, Cardinality

\* A wait of an entry is a packet with a number.
LEMMA WaitsType ==
    ASSUME QueueInv, NEW E, E \subseteq queue
    PROVE  Waits(E) \subseteq Packets \X Nat /\ \A w \in Waits(E) : w[2] < arrivals
BY DEF QueueInv, QueueEntries, Waits, Wait

\* What Purge() and a call that gives up the entries X leave.
LEMMA GivesUp ==
    ASSUME QueueInv, NEW X, X \subseteq queue, queue' = queue \ X, Drop(X),
           UNCHANGED <<arrivals, maxLen, queueTimeout, sent>>
    PROVE  QueueInv' /\ Buffer!Next
<1>1. QueueInv'
    <2>1. failed' \subseteq Packets \X Nat /\ \A w \in failed' : w[2] < arrivals
        BY WaitsType DEF QueueInv, Drop
    <2>2. IsFiniteSet(queue') BY FS_Subset DEF QueueInv
    <2> QED BY <2>1, <2>2 DEF QueueInv, SentInOrder
<1>2. Waits(X) \in SUBSET Waits(queue) BY DEF Waits
<1>3. Waits(queue') = Waits(queue) \ Waits(X) BY WaitsMinus
<1>4. Waits(queue)' = Waits(queue') BY DEF Waits
<1>5. Buffer!GiveUp(Waits(X))
    BY <1>3, <1>4 DEF Buffer!GiveUp, Drop
<1> QED BY <1>1, <1>2, <1>5 DEF Buffer!Next

\* Enqueue of a packet that is not there: a new wait, within the limit.
LEMMA EnqueueNewStep ==
    ASSUME now \in Nat, QueueInv, NEW p \in Packets, EnqueueNew(p)
    PROVE  QueueInv' /\ Buffer!Next
<1> DEFINE aged == IF Cardinality(Live) = maxLen THEN {MostAged(Live)} ELSE {}
           entry == [packet |-> p, expire |-> now + queueTimeout, arrival |-> arrivals]
           X == Expired \cup aged
           w == <<p, arrivals>>
<1>1. /\ queue' = (Live \ aged) \cup {entry}
      /\ arrivals' = arrivals + 1
      /\ failed' = failed \cup Waits(X)
      /\ \A e \in Live : e.packet # p
      /\ UNCHANGED <<maxLen, queueTimeout, sent>>
    BY DEF EnqueueNew, Drop
<1>2. Live \subseteq queue /\ Expired \subseteq queue /\ IsFiniteSet(Live)
    <2>1. Live \subseteq queue /\ Expired \subseteq queue BY DEF Live, Expired
    <2> QED BY <2>1, FS_Subset DEF QueueInv
<1>3. aged \subseteq Live
    <2>1. CASE Cardinality(Live) = maxLen
        <3>1. Live # {} BY <2>1, FS_EmptySet DEF QueueInv
        <3> QED BY <1>2, <3>1, MostAgedExists
    <2>2. CASE Cardinality(Live) # maxLen BY <2>2
    <2> QED BY <2>1, <2>2
<1>4. X \subseteq queue /\ Live \ aged = queue \ X /\ entry \notin queue
    <2>1. X \subseteq queue BY <1>2, <1>3
    <2>2. Live \ aged = queue \ X
        <3> HIDE DEF aged
        <3> QED BY DEF Live
    <2>3. entry \notin queue
        <3>1. entry.arrival = arrivals OBVIOUS
        <3> HIDE DEF entry
        <3> QED BY <3>1 DEF QueueInv
    <2> QED BY <2>1, <2>2, <2>3
<1>5. entry \in QueueEntries /\ entry.arrival = arrivals /\ Wait(entry) = w /\ entry.packet = p
    BY DEF QueueInv, QueueEntries, Wait
<1>6. Cardinality(queue) <= maxLen => Cardinality(queue') <= maxLen
    <2>1. IsFiniteSet(queue) /\ maxLen \in Nat BY DEF QueueInv
    <2>2. Cardinality(Live) <= Cardinality(queue) /\ Cardinality(Live) \in Nat
          /\ Cardinality(queue) \in Nat
        BY <1>2, <2>1, FS_Subset, FS_CardinalityType
    <2>3. CASE Cardinality(Live) = maxLen
        <3>1. aged = {MostAged(Live)} BY <2>3
        <3>2. Cardinality(Live \ aged) = Cardinality(Live) - 1 /\ IsFiniteSet(Live \ aged)
            BY <1>2, <1>3, <3>1, FS_RemoveElement
        <3> HIDE DEF aged, entry
        <3>3. \/ Cardinality(queue') = Cardinality(Live \ aged) + 1
              \/ Cardinality(queue') = Cardinality(Live \ aged)
            BY <1>1, <3>2, FS_AddElement
        <3> QED BY <2>1, <2>2, <2>3, <3>2, <3>3, FS_CardinalityType
    <2>4. CASE Cardinality(Live) # maxLen
        <3>1. Live \ aged = Live BY <2>4
        <3>2. Cardinality(queue') = Cardinality(Live) + 1 \/ Cardinality(queue') = Cardinality(Live)
            BY <1>1, <1>2, <3>1, FS_AddElement
        <3> QED BY <2>1, <2>2, <2>4, <3>2
    <2> QED BY <2>3, <2>4
<1> HIDE DEF aged, entry, X
<1>7. QueueInv'
    <2>1. failed' \subseteq Packets \X Nat /\ \A v \in failed' : v[2] < arrivals
        BY <1>1, <1>4, WaitsType DEF QueueInv
    <2>2. IsFiniteSet(queue')
        <3>1. IsFiniteSet(Live \ aged) BY <1>2, FS_Subset
        <3> QED BY <1>1, <3>1, FS_AddElement
    <2>3. queue' \subseteq queue \cup {entry} BY <1>1, <1>4
    <2>4. \A e \in queue' : e.arrival < arrivals' /\ e \in QueueEntries
        BY <1>1, <1>5, <2>3 DEF QueueInv, QueueEntries
    <2>5. \A e, f \in queue' : e.arrival = f.arrival => e = f
        BY <1>5, <2>3 DEF QueueInv, QueueEntries
    <2>6. \A v \in sent \cup failed' : v[2] < arrivals'
        <3>1. \A v \in sent \cup failed' : v[2] \in Nat /\ v[2] < arrivals
            BY <2>1 DEF QueueInv
        <3> QED BY <1>1, <3>1 DEF QueueInv
    <2>7. SentInOrder'
        <3> SUFFICES ASSUME NEW v \in sent, NEW e \in queue', v[1].dst = e.packet.dst
                     PROVE  v[2] < e.arrival
            BY <1>1 DEF SentInOrder
        <3>1. CASE e \in queue BY <3>1 DEF QueueInv, SentInOrder
        <3>2. CASE e = entry BY <1>5, <3>2 DEF QueueInv
        <3> QED BY <2>3, <3>1, <3>2
    <2> QED BY <1>1, <2>1, <2>2, <2>4, <2>5, <2>6, <2>7 DEF QueueInv
<1>8. Waits(queue') = (Waits(queue) \ Waits(X)) \cup {w}
    <2>1. Waits(queue') = Waits(queue \ X) \cup {w}
        BY <1>1, <1>4, <1>5 DEF Waits
    <2> QED BY <1>4, <2>1, WaitsMinus
<1>9. Waits(X) \in SUBSET Waits(queue) BY <1>4 DEF Waits
<1>10. w \in Packets \X Nat BY DEF QueueInv
<1>11. \A v \in Waits(queue) \cup sent \cup failed : v[2] # w[2]
    BY WaitsType DEF QueueInv
<1>12. \A v \in Waits(queue) \ Waits(X) : v[1] # w[1]
    <2>1. Waits(queue) \ Waits(X) = Waits(Live \ aged) BY <1>4, WaitsMinus
    <2> QED BY <1>1, <2>1 DEF Waits, Wait
<1>13. Cardinality(Waits(queue)) <= maxLen => Cardinality(Waits(queue')) <= maxLen
    <2>1. Cardinality(Waits(queue)) = Cardinality(queue)
        BY WaitsCardinality DEF QueueInv
    <2>2. Cardinality(Waits(queue')) = Cardinality(queue')
        BY <1>7, WaitsCardinality DEF QueueInv
    <2> QED BY <1>6, <2>1, <2>2
<1> HIDE DEF w
<1>14. Waits(queue)' = Waits(queue') BY DEF Waits
<1>15. Buffer!Take(w, Waits(X))
    <2>1. Waits(queue)' = (Waits(queue) \ Waits(X)) \cup {w} BY <1>8, <1>14
    <2>2. /\ Buffer!Cardinality(Waits(queue)) = Cardinality(Waits(queue))
          /\ Buffer!Cardinality(Waits(queue)') = Cardinality(Waits(queue'))
        BY <1>14, BufferCardinality
    <2> QED BY <1>1, <1>10, <1>11, <1>12, <1>13, <2>1, <2>2 DEF Buffer!Take
<1>16. w \in Waits(queue)' BY <1>8, <1>14
<1> QED BY <1>7, <1>9, <1>15, <1>16 DEF Buffer!Next

\* Dequeue of a packet: the one that came first.
LEMMA DequeueStep ==
    ASSUME QueueInv, NEW d, DequeueFound(d)
    PROVE  QueueInv' /\ Buffer!Next
<1> DEFINE E == WithDst(Live, d)
           m == MostAged(E)
<1>1. /\ E # {} /\ queue' = Live \ {m}
      /\ sent' = sent \cup {Wait(m)}
      /\ failed' = failed \cup Waits(Expired)
      /\ UNCHANGED <<arrivals, maxLen, queueTimeout>>
    BY DEF DequeueFound, Drop
<1>2. E \subseteq Live /\ Live \subseteq queue /\ Expired \subseteq queue /\ Expired \cap Live = {}
    BY DEF WithDst, Live, Expired
<1>3. m \in E /\ \A f \in E : m.arrival <= f.arrival
    BY <1>1, <1>2, MostAgedExists
<1>4. \A e \in Live : e.packet.dst = d <=> e \in E BY DEF WithDst
<1>5. queue' = queue \ (Expired \cup {m}) BY <1>1, <1>2 DEF Live
<1> HIDE DEF m, E
<1>6. Waits({m}) = {Wait(m)} /\ Wait(m) = <<m.packet, m.arrival>> BY DEF Waits, Wait
<1>7. m \in queue /\ m \notin Expired /\ m \in Live BY <1>2, <1>3
<1>8. QueueInv'
    <2>1. failed' \subseteq Packets \X Nat /\ \A v \in failed' : v[2] < arrivals
        BY <1>1, <1>2, WaitsType DEF QueueInv
    <2>2. sent' \subseteq Packets \X Nat /\ \A v \in sent' : v[2] < arrivals
        BY <1>1, <1>6, <1>7, WaitsType DEF QueueInv
    <2>3. IsFiniteSet(queue') BY <1>5, FS_Subset DEF QueueInv
    <2>4. SentInOrder'
        <3> SUFFICES ASSUME NEW v \in sent', NEW e \in queue', v[1].dst = e.packet.dst
                     PROVE  v[2] < e.arrival
            BY DEF SentInOrder
        <3>1. CASE v \in sent BY <1>5, <3>1 DEF QueueInv, SentInOrder
        <3>2. CASE v = Wait(m)
            <4>1. m.packet.dst = d BY <1>3, <1>4, <1>7
            <4>2. e \in E /\ e # m /\ e \in queue BY <1>1, <1>2, <1>4, <1>6, <3>2, <4>1
            <4>3. m.arrival <= e.arrival /\ m.arrival # e.arrival
                BY <1>3, <1>7, <4>2 DEF QueueInv
            <4>4. m.arrival \in Nat /\ e.arrival \in Nat
                BY <1>7, <4>2 DEF QueueInv, QueueEntries
            <4> QED BY <1>6, <3>2, <4>3, <4>4
        <3> QED BY <1>1, <3>1, <3>2
    <2> QED BY <1>1, <1>5, <2>1, <2>2, <2>3, <2>4 DEF QueueInv
<1>9. Waits(queue') = Waits(queue) \ (Waits(Expired) \cup {Wait(m)})
    <2>1. Expired \cup {m} \subseteq queue BY <1>2, <1>7
    <2>2. Waits(Expired \cup {m}) = Waits(Expired) \cup {Wait(m)} BY DEF Waits
    <2> QED BY <1>5, <2>1, <2>2, WaitsMinus
<1>10. Wait(m) \in Waits(queue) /\ Wait(m) \notin Waits(Expired)
    <2>1. \A f \in queue : Wait(m) = Wait(f) => m = f BY <1>7 DEF QueueInv, Wait
    <2> QED BY <1>2, <1>7, <2>1 DEF Waits
<1>11. Waits(Expired) \in SUBSET Waits(queue) BY <1>2 DEF Waits
<1>12. Waits(queue)' = Waits(queue') BY DEF Waits
<1>13. Buffer!HandOut(Wait(m), Waits(Expired))
    BY <1>1, <1>9, <1>10, <1>12 DEF Buffer!HandOut
<1> QED BY <1>8, <1>10, <1>11, <1>13 DEF Buffer!Next

-----------------------------------------------------------------------------
\* Each step of the queue keeps its invariant and is one of the buffer.
LEMMA QueueStep ==
    ASSUME now \in Nat, QueueInv, QueueNext \/ UNCHANGED queueVars
    PROVE  QueueInv' /\ [Buffer!Next]_(Buffer!bufferVars)
<1>0. Expired \subseteq queue /\ Live = queue \ Expired BY DEF Expired, Live
<1>1. ASSUME NEW p \in Packets, EnqueueDuplicate(p) PROVE QueueInv' /\ Buffer!Next
    BY <1>0, <1>1, GivesUp DEF EnqueueDuplicate
<1>2. ASSUME NEW p \in Packets, EnqueueNew(p) PROVE QueueInv' /\ Buffer!Next
    BY <1>2, EnqueueNewStep
<1>3. ASSUME NEW p \in Packets, DropPacketWithDst(p.dst) PROVE QueueInv' /\ Buffer!Next
    <2> DEFINE X == Expired \cup WithDst(Live, p.dst)
    <2>1. X \subseteq queue /\ queue' = queue \ X /\ Drop(X)
          /\ UNCHANGED <<arrivals, maxLen, queueTimeout, sent>>
        BY <1>0, <1>3 DEF DropPacketWithDst, WithDst
    <2> HIDE DEF X
    <2> QED BY <2>1, GivesUp
<1>4. ASSUME NEW p \in Packets, DequeueFound(p.dst) PROVE QueueInv' /\ Buffer!Next
    BY <1>4, DequeueStep
<1>5. PurgeQueue => QueueInv' /\ Buffer!Next
    BY <1>0, GivesUp DEF PurgeQueue
<1>6. ASSUME NEW t \in QueueTimeouts, SetQueueTimeout(t)
      PROVE  QueueInv' /\ UNCHANGED Buffer!bufferVars
    <2>1. UNCHANGED Buffer!bufferVars
        BY <1>6 DEF SetQueueTimeout, Buffer!bufferVars, Waits
    <2> QED BY <1>6, <2>1, QueueAssumption DEF SetQueueTimeout, QueueInv, SentInOrder
<1>7. ASSUME NEW len \in MaxQueueLens, SetMaxQueueLen(len) PROVE QueueInv' /\ Buffer!Next
    <2>1. QueueInv' BY <1>7, QueueAssumption DEF SetMaxQueueLen, QueueInv, SentInOrder
    <2>2. Buffer!SetLimit
        BY <1>7, QueueAssumption DEF SetMaxQueueLen, Buffer!SetLimit, Waits
    <2> QED BY <2>1, <2>2 DEF Buffer!Next
<1>8. UNCHANGED queueVars => QueueInv' /\ UNCHANGED Buffer!bufferVars
    BY DEF queueVars, QueueInv, SentInOrder, Buffer!bufferVars, Waits
<1> QED BY <1>1, <1>2, <1>3, <1>4, <1>5, <1>6, <1>7, <1>8 DEF QueueNext

LEMMA QueueInitial == Init => now \in Nat /\ QueueInv /\ Buffer!Init
<1>1. Init => now \in Nat /\ QueueInv
    BY QueueAssumption, FS_EmptySet DEF Init, QueueInit, QueueInv, SentInOrder
<1>2. Init => Buffer!Init
    BY QueueAssumption DEF Init, QueueInit, Buffer!Init, Waits
<1> QED BY <1>1, <1>2

LEMMA QueueInvariant == Spec => [](now \in Nat /\ QueueInv)
<1>1. now \in Nat /\ QueueInv /\ [Next]_vars => (now \in Nat /\ QueueInv)'
    BY Steps, QueueStep
<1> QED BY <1>1, QueueInitial, PTL DEF Spec

\* Whatever calls, expiry and changes of the time-out come in between, a packet
\* leaves before those that came later for its destination.
THEOREM PacketsSentInOrder == Spec => []SentInOrder
<1>1. QueueInv => SentInOrder BY DEF QueueInv
<1> QED BY <1>1, QueueInvariant, PTL

\* The request queue implements the buffer that the protocol modules rely on,
\* for every set of packets, every limit and every time-out.
THEOREM QueueImplementsBuffer == Spec => QueueIsBuffer
<1>1. now \in Nat /\ QueueInv /\ [Next]_vars => [Buffer!Next]_(Buffer!bufferVars)
    BY Steps, QueueStep
<1> QED BY <1>1, QueueInitial, QueueInvariant, PTL DEF Spec, QueueIsBuffer, Buffer!Spec
=============================================================================
