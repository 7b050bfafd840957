---------------------------- MODULE MonitoringProofs ----------------------------
(***************************************************************************)
(* What the SMF shows of itself: proofs about Metrics, for any finite number*)
(* of workers and any number of jobs and requests, and about Dashboard, for *)
(* any number of browsers and events and any capacity of the channels.      *)
(***************************************************************************)
EXTENDS Metrics, Dashboard, FiniteSetTheorems, TLAPS

-----------------------------------------------------------------------------
(* The reporter and the counters: the inductive invariant. *)

In(state) == {w \in Worker : at[w] = state}

(* As ThroughputAddsUp, for the latencies. *)
LatencyAddsUp ==
  taken.latency + latencySum = taken.tps + InHand + tpsCounter + Cardinality(In("measured"))

(* What the reporter has in hand is covered by what it has read so far, and *)
(* by what it has still to read.                                            *)
TickKeepsUp ==
  LET total == taken.tps + tps IN
  /\ reporter = "tps" => total <= successCounter + failCounter + Cardinality(Worker)
  /\ reporter = "success" => total <= success + failCounter + Cardinality(Worker)
  /\ reporter = "failed" => total <= success + failed + Cardinality(Worker)

MInv ==
  /\ MetricsTypeOK
  /\ ThroughputAddsUp
  /\ LatencyAddsUp
  /\ LatencyCoversThroughput
  /\ TickKeepsUp
  /\ OutcomesKeepUp

-----------------------------------------------------------------------------
(* At most all workers are in a state. *)
LEMMA InBound ==
  ASSUME NEW state
  PROVE  /\ IsFiniteSet(In(state))
         /\ Cardinality(In(state)) \in Nat
         /\ Cardinality(Worker) \in Nat
         /\ Cardinality(In(state)) <= Cardinality(Worker)
<1>1. In(state) \subseteq Worker
  BY DEF In
<1> QED
  BY <1>1, MetricsAssumption, FS_Subset, FS_CardinalityType

(* A worker that moves on is counted in one state less and in one more. *)
LEMMA MoveCounts ==
  ASSUME MetricsTypeOK, NEW w \in Worker, NEW from, NEW to, from # to, Proceed(w, from, to)
  PROVE  /\ Cardinality(In(from))' = Cardinality(In(from)) - 1
         /\ Cardinality(In(to))' = Cardinality(In(to)) + 1
         /\ \A state : state # from /\ state # to => In(state)' = In(state)
<1>1. /\ at[w] = from /\ at'[w] = to
      /\ \A v \in Worker \ {w} : at'[v] = at[v]
  BY DEF Proceed, MetricsTypeOK
<1>2. /\ w \in In(from) /\ In(from)' = In(from) \ {w}
      /\ w \notin In(to) /\ In(to)' = In(to) \cup {w}
      /\ \A state : state # from /\ state # to => In(state)' = In(state)
  BY <1>1 DEF In
<1>3. Cardinality(In(from))' = Cardinality(In(from)) - 1
  <2>1. Cardinality(In(from) \ {w}) = Cardinality(In(from)) - 1
    BY <1>2, InBound, FS_RemoveElement
  <2> QED
    BY <1>2, <2>1
<1>4. Cardinality(In(to))' = Cardinality(In(to)) + 1
  <2>1. Cardinality(In(to) \cup {w}) = Cardinality(In(to)) + 1
    BY <1>2, InBound, FS_AddElement
  <2> QED
    BY <1>2, <2>1
<1> QED
  BY <1>2, <1>3, <1>4

-----------------------------------------------------------------------------
(* Every variable keeps its type. *)
LEMMA MetricsTypeStep ==
  ASSUME MetricsTypeOK, [MetricsNext]_metricsVars
  PROVE  MetricsTypeOK'
<1> USE MetricsAssumption DEF MetricsTypeOK
<1>1. ASSUME NEW w \in Worker,
             StartJob(w) \/ AddLatency(w) \/ AddThroughput(w) \/ AddOutcome(w)
      PROVE  MetricsTypeOK'
  BY <1>1 DEF StartJob, AddLatency, AddThroughput, AddOutcome, Proceed, counters, reporterVars
<1>2. CASE Shed
  BY <1>2 DEF Shed, reporterVars
<1>3. CASE TakeThroughput \/ LoadSuccess \/ LoadFailed
  BY <1>3 DEF TakeThroughput, LoadSuccess, LoadFailed, Advance, counters, workerVars
<1>4. CASE TakeLatency
  BY <1>4 DEF TakeLatency, Advance, workerVars
<1>5. CASE UNCHANGED metricsVars
  BY <1>5 DEF metricsVars, counters, workerVars, reporterVars
<1> QED
  BY <1>1, <1>2, <1>3, <1>4, <1>5 DEF MetricsNext

(* The sums stay balanced: each step moves one unit from one place to       *)
(* another or adds it on both sides.                                        *)
LEMMA BalanceStep ==
  ASSUME MetricsTypeOK, ThroughputAddsUp, LatencyAddsUp, [MetricsNext]_metricsVars
  PROVE  ThroughputAddsUp' /\ LatencyAddsUp'
<1> USE DEF MetricsTypeOK, ThroughputAddsUp, LatencyAddsUp, InHand
<1> DEFINE counted == Cardinality(In("counted"))
           measured == Cardinality(In("measured"))
<1>0. /\ counted \in Nat /\ measured \in Nat
      /\ counted = Cardinality({w \in Worker : at[w] = "counted"})
      /\ shed \in Nat
  <2>1. counted \in Nat /\ measured \in Nat
    BY InBound
  <2>2. counted = Cardinality({w \in Worker : at[w] = "counted"})
    BY DEF In
  <2>3. shed \in Nat
    BY MetricsAssumption
  <2> QED
    BY <2>1, <2>2, <2>3
<1>1. ASSUME UNCHANGED at
      PROVE  counted' = counted /\ measured' = measured
  BY <1>1 DEF In
<1>2. ASSUME NEW w \in Worker, StartJob(w)
      PROVE  ThroughputAddsUp' /\ LatencyAddsUp'
  <2>1. counted' = counted /\ measured' = measured
    BY <1>2, MoveCounts DEF StartJob
  <2> QED
    BY <1>0, <1>2, <2>1 DEF StartJob, counters, reporterVars, In
<1>3. ASSUME NEW w \in Worker, AddLatency(w)
      PROVE  ThroughputAddsUp' /\ LatencyAddsUp'
  <2>1. counted' = counted /\ measured' = measured + 1
    BY <1>3, MoveCounts DEF AddLatency
  <2> QED
    BY <1>0, <1>3, <2>1 DEF AddLatency, reporterVars, In
<1>4. ASSUME NEW w \in Worker, AddThroughput(w)
      PROVE  ThroughputAddsUp' /\ LatencyAddsUp'
  <2>1. counted' = counted + 1 /\ measured' = measured - 1
    BY <1>4, MoveCounts DEF AddThroughput
  <2> QED
    BY <1>0, <1>4, <2>1 DEF AddThroughput, reporterVars, In
<1>5. ASSUME NEW w \in Worker, AddOutcome(w)
      PROVE  ThroughputAddsUp' /\ LatencyAddsUp'
  <2>1. counted' = counted - 1 /\ measured' = measured
    BY <1>5, MoveCounts DEF AddOutcome
  <2> QED
    BY <1>0, <1>5, <2>1 DEF AddOutcome, reporterVars, In
<1>6. CASE Shed
  BY <1>0, <1>1, <1>6 DEF Shed, reporterVars, In
<1>7. CASE TakeThroughput
  BY <1>0, <1>1, <1>7 DEF TakeThroughput, Advance, workerVars, In
<1>8. CASE LoadSuccess \/ LoadFailed
  BY <1>0, <1>1, <1>8 DEF LoadSuccess, LoadFailed, Advance, counters, workerVars, In
<1>9. CASE TakeLatency
  BY <1>0, <1>1, <1>9 DEF TakeLatency, Advance, workerVars, In
<1>10. CASE UNCHANGED metricsVars
  BY <1>0, <1>1, <1>10 DEF metricsVars, counters, workerVars, reporterVars, In
<1> QED
  BY <1>2, <1>3, <1>4, <1>5, <1>6, <1>7, <1>8, <1>9, <1>10 DEF MetricsNext

(* The sums the reporter has taken compare as they should. *)
LEMMA ReportStep ==
  ASSUME MInv, [MetricsNext]_metricsVars
  PROVE  LatencyCoversThroughput' /\ TickKeepsUp' /\ OutcomesKeepUp'
<1> USE DEF MInv, MetricsTypeOK, LatencyCoversThroughput, TickKeepsUp, OutcomesKeepUp
<1>0. /\ Cardinality(Worker) \in Nat /\ Cardinality(Worker)' = Cardinality(Worker)
      /\ Cardinality(In("counted")) \in Nat /\ Cardinality(In("measured")) \in Nat
      /\ Cardinality(In("counted")) <= Cardinality(Worker)
      /\ shed \in Nat
  BY InBound, MetricsAssumption
<1>1. ASSUME NEW w \in Worker,
             StartJob(w) \/ AddLatency(w) \/ AddThroughput(w) \/ AddOutcome(w)
      PROVE  LatencyCoversThroughput' /\ TickKeepsUp' /\ OutcomesKeepUp'
  BY <1>0, <1>1 DEF StartJob, AddLatency, AddThroughput, AddOutcome, counters, reporterVars
<1>2. CASE Shed
  BY <1>0, <1>2 DEF Shed, reporterVars
<1>3. CASE TakeThroughput
  BY <1>0, <1>3 DEF TakeThroughput, Advance, ThroughputAddsUp, InHand, In
<1>4. CASE LoadSuccess \/ LoadFailed
  BY <1>0, <1>4 DEF LoadSuccess, LoadFailed, Advance, counters
<1>5. CASE TakeLatency
  BY <1>0, <1>5 DEF TakeLatency, Advance, LatencyAddsUp, InHand
<1>6. CASE UNCHANGED metricsVars
  BY <1>0, <1>6 DEF metricsVars, counters, reporterVars
<1> QED
  BY <1>1, <1>2, <1>3, <1>4, <1>5, <1>6 DEF MetricsNext

(* The invariant holds from the start on. *)
LEMMA MetricsInvariance == MetricsSpec => []MInv
<1>1. MetricsInit => MInv
  <2> SUFFICES ASSUME MetricsInit
               PROVE  MInv
    OBVIOUS
  <2>1. MetricsTypeOK
    BY MetricsAssumption DEF MetricsInit, MetricsTypeOK
  <2>2. In("measured") = {} /\ {w \in Worker : at[w] = "counted"} = {}
    BY DEF MetricsInit, In
  <2>3. Cardinality({}) = 0 /\ Cardinality(Worker) \in Nat
    BY FS_EmptySet, MetricsAssumption, FS_CardinalityType
  <2> QED
    BY <2>1, <2>2, <2>3 DEF MetricsInit, MInv, ThroughputAddsUp, LatencyAddsUp, InHand,
       LatencyCoversThroughput, TickKeepsUp, OutcomesKeepUp
<1>2. MInv /\ [MetricsNext]_metricsVars => MInv'
  BY MetricsTypeStep, BalanceStep, ReportStep DEF MInv
<1> QED
  BY <1>1, <1>2, PTL DEF MetricsSpec

-----------------------------------------------------------------------------
(* Every counter and every worker keeps its type. *)
THEOREM MetricsTypeCorrect == MetricsSpec => []MetricsTypeOK
BY MetricsInvariance, PTL DEF MInv

(* No job is lost or counted twice by the reporter, however its steps and   *)
(* those of the workers fall.                                               *)
THEOREM NoJobIsLost == MetricsSpec => []ThroughputAddsUp
BY MetricsInvariance, PTL DEF MInv

(* The throughput reported never runs ahead of the latency taken.           *)
THEOREM LatencyIsComplete == MetricsSpec => []LatencyCoversThroughput
BY MetricsInvariance, PTL DEF MInv

(* The reports lag behind the outcomes by one job per worker at most.       *)
THEOREM ReportsAreConsistent == MetricsSpec => []OutcomesKeepUp
BY MetricsInvariance, PTL DEF MInv

-----------------------------------------------------------------------------
(* The inductive invariant: along the way of an event, from `broadcast' by  *)
(* the hub and a channel to a handler, numbers only go down.                *)

Increasing(s) == \A i, j \in 1 .. Len(s) : i < j => s[i] < s[j]
Within(s, low, high) == \A i \in 1 .. Len(s) : low < s[i] /\ s[i] <= high

BroadcastInOrder ==
  /\ message <= events
  /\ Increasing(broadcast)
  /\ Within(broadcast, message, events)

BufferInOrder ==
  \A c \in Client :
    /\ shown[c] <= message
    /\ Increasing(buffer[c])
    /\ Within(buffer[c], shown[c], message)
    /\ c \in todo => shown[c] < message /\ \A i \in 1 .. Len(buffer[c]) : buffer[c][i] < message

DInv == TypeOK /\ RegisteredIsOpen /\ BroadcastInOrder /\ BufferInOrder

-----------------------------------------------------------------------------
(* Appending a later event keeps the order. *)
LEMMA AppendInOrder ==
  ASSUME NEW s \in Seq(Event), NEW e \in Event, NEW low \in Nat,
         Increasing(s), low < e, \A i \in 1 .. Len(s) : low < s[i] /\ s[i] < e
  PROVE  Increasing(Append(s, e)) /\ Within(Append(s, e), low, e)
<1>0. e \in Nat /\ \A i \in 1 .. Len(s) : s[i] \in Nat
  BY DashboardAssumption DEF Event
<1>1. Len(Append(s, e)) = Len(s) + 1 /\ Append(s, e)[Len(s) + 1] = e
  OBVIOUS
<1>2. \A i \in 1 .. Len(s) : Append(s, e)[i] = s[i]
  OBVIOUS
<1>3. Len(s) \in Nat
  OBVIOUS
<1>4. Within(Append(s, e), low, e)
  BY <1>0, <1>1, <1>2, <1>3 DEF Within
<1>5. Increasing(Append(s, e))
  <2> SUFFICES ASSUME NEW i \in 1 .. Len(s) + 1, NEW j \in 1 .. Len(s) + 1, i < j
               PROVE  Append(s, e)[i] < Append(s, e)[j]
    BY <1>1 DEF Increasing
  <2>1. i \in 1 .. Len(s)
    BY <1>3
  <2>2. CASE j = Len(s) + 1
    BY <1>0, <1>1, <1>2, <2>1, <2>2
  <2>3. CASE j # Len(s) + 1
    BY <1>2, <1>3, <2>1, <2>3 DEF Increasing
  <2> QED
    BY <2>2, <2>3
<1> QED
  BY <1>4, <1>5

(* Taking the first event leaves the others in order, behind it. *)
LEMMA TailInOrder ==
  ASSUME NEW s \in Seq(Event), s # <<>>, NEW low \in Nat, NEW high \in Nat,
         Increasing(s), Within(s, low, high)
  PROVE  /\ low < Head(s) /\ Head(s) <= high
         /\ Increasing(Tail(s)) /\ Within(Tail(s), Head(s), high)
<1>1. Len(s) \in Nat \ {0} /\ Head(s) = s[1]
  OBVIOUS
<1>2. Len(Tail(s)) = Len(s) - 1 /\ \A i \in 1 .. Len(s) - 1 : Tail(s)[i] = s[i + 1]
  OBVIOUS
<1>3. \A i \in 1 .. Len(s) - 1 : i + 1 \in 1 .. Len(s)
  BY <1>1
<1>4. low < Head(s) /\ Head(s) <= high
  BY <1>1 DEF Within
<1>5. Increasing(Tail(s))
  BY <1>1, <1>2, <1>3 DEF Increasing
<1>6. Within(Tail(s), Head(s), high)
  BY <1>1, <1>2, <1>3 DEF Increasing, Within
<1> QED
  BY <1>4, <1>5, <1>6

-----------------------------------------------------------------------------
(* Every variable keeps its type. *)
LEMMA HubTypeStep ==
  ASSUME TypeOK, BufferInOrder, [Next]_vars
  PROVE  TypeOK'
<1> USE DashboardAssumption DEF TypeOK, Event, HandlerState
<1>1. CASE BroadcastEvent
  <2>1. broadcast' \in Seq(Event)
    <3>1. events + 1 \in Event
      BY <1>1 DEF BroadcastEvent
    <3>2. Append(broadcast, events + 1) \in Seq(Event)
      BY <3>1
    <3> QED
      BY <1>1, <3>2 DEF BroadcastEvent
  <2> QED
    BY <1>1, <2>1 DEF BroadcastEvent, hubVars, handlerVars
<1>2. CASE TakeEvent
  <2>1. broadcast' \in Seq(Event) /\ message' \in Event
    BY <1>2 DEF TakeEvent
  <2> QED
    BY <1>2, <2>1 DEF TakeEvent, handlerVars
<1>3. ASSUME NEW c \in Client, Register(c) \/ Unregister(c)
      PROVE  TypeOK'
  BY <1>3 DEF Register, Unregister, Goto
<1>4. ASSUME NEW c \in Client, Offer(c)
      PROVE  TypeOK'
  <2>1. buffer' \in [Client -> Seq(Event)]
    <3>1. CASE UNCHANGED buffer
      BY <3>1
    <3>2. CASE buffer' = [buffer EXCEPT ![c] = Append(@, message)]
      <4>1. message \in Event
        BY <1>4 DEF Offer, BufferInOrder
      <4>2. Append(buffer[c], message) \in Seq(Event)
        BY <4>1
      <4> QED
        BY <3>2, <4>2
    <3> QED
      BY <1>4, <3>1, <3>2 DEF Offer
  <2> QED
    BY <1>4, <2>1 DEF Offer, handlerVars
<1>5. ASSUME NEW c \in Client, Receive(c)
      PROVE  TypeOK'
  <2>1. Head(buffer[c]) \in Event /\ Tail(buffer[c]) \in Seq(Event)
    BY <1>5 DEF Receive
  <2> QED
    BY <1>5, <2>1 DEF Receive, Goto, hubVars
<1>6. ASSUME NEW c \in Client, Connect(c) \/ Disconnect(c) \/ Written(c) \/ Leave(c)
      PROVE  TypeOK'
  BY <1>6 DEF Connect, Disconnect, Written, Leave, Goto, hubVars
<1>7. CASE UNCHANGED vars
  BY <1>7 DEF vars, hubVars, handlerVars
<1> QED
  BY <1>1, <1>2, <1>3, <1>4, <1>5, <1>6, <1>7 DEF Next, HubStep, HandlerStep

(* A channel is registered exactly while its handler serves. *)
LEMMA RegisteredStep ==
  ASSUME TypeOK, RegisteredIsOpen, [Next]_vars
  PROVE  RegisteredIsOpen'
<1> USE DEF TypeOK, HandlerState, RegisteredIsOpen, Serving
<1>1. CASE BroadcastEvent
  BY <1>1 DEF BroadcastEvent, hubVars, handlerVars
<1>2. CASE TakeEvent
  BY <1>2 DEF TakeEvent, handlerVars
<1>3. ASSUME NEW c \in Client, Register(c)
      PROVE  RegisteredIsOpen'
  BY <1>3 DEF Register, Goto, AtSelect
<1>4. ASSUME NEW c \in Client, Unregister(c)
      PROVE  RegisteredIsOpen'
  BY <1>4 DEF Unregister, Goto, AtSelect
<1>5. ASSUME NEW c \in Client, Offer(c)
      PROVE  RegisteredIsOpen'
  BY <1>5 DEF Offer, handlerVars
<1>6. ASSUME NEW c \in Client, Connect(c) \/ Written(c) \/ Leave(c) \/ Receive(c)
      PROVE  RegisteredIsOpen'
  BY <1>6 DEF Connect, Written, Leave, Receive, Goto, hubVars
<1>7. ASSUME NEW c \in Client, Disconnect(c)
      PROVE  RegisteredIsOpen'
  BY <1>7 DEF Disconnect, hubVars
<1>8. CASE UNCHANGED vars
  BY <1>8 DEF vars, hubVars, handlerVars
<1> QED
  BY <1>1, <1>2, <1>3, <1>4, <1>5, <1>6, <1>7, <1>8 DEF Next, HubStep, HandlerStep

(* The hub's queue stays in order, and behind the event in hand. *)
LEMMA BroadcastStep ==
  ASSUME TypeOK, BroadcastInOrder, [Next]_vars
  PROVE  BroadcastInOrder' /\ message <= message'
<1> USE DashboardAssumption DEF TypeOK
<1>0. events \in Nat /\ message \in Nat /\ MaxEvents \in Nat
  OBVIOUS
<1>1. CASE BroadcastEvent /\ UNCHANGED broadcast
  BY <1>0, <1>1 DEF BroadcastEvent, BroadcastInOrder, Increasing, Within, hubVars, Event
<1>2. CASE BroadcastEvent /\ broadcast' = Append(broadcast, events + 1)
  <2>1. events + 1 \in Event /\ events' = events + 1 /\ message' = message
    BY <1>2 DEF BroadcastEvent, hubVars, Event
  <2>2. \A i \in 1 .. Len(broadcast) : message < broadcast[i] /\ broadcast[i] < events + 1
    <3>1. \A i \in 1 .. Len(broadcast) : broadcast[i] \in Nat
      BY DEF Event
    <3> QED
      BY <1>0, <3>1 DEF BroadcastInOrder, Within
  <2>3. Increasing(broadcast') /\ Within(broadcast', message, events + 1)
    <3>1. Increasing(broadcast) /\ message < events + 1
      BY <1>0 DEF BroadcastInOrder
    <3>2. Increasing(Append(broadcast, events + 1))
          /\ Within(Append(broadcast, events + 1), message, events + 1)
      BY <1>0, <2>1, <2>2, <3>1, AppendInOrder
    <3> QED
      BY <1>2, <3>2
  <2> QED
    BY <1>0, <2>1, <2>3 DEF BroadcastInOrder
<1>3. CASE TakeEvent
  <2>1. message < Head(broadcast) /\ Head(broadcast) <= events
        /\ Increasing(Tail(broadcast)) /\ Within(Tail(broadcast), Head(broadcast), events)
    BY <1>0, <1>3, TailInOrder DEF TakeEvent, BroadcastInOrder
  <2>2. Head(broadcast) \in Nat
    BY <1>3 DEF TakeEvent, Event
  <2> QED
    BY <1>0, <1>3, <2>1, <2>2 DEF TakeEvent, BroadcastInOrder
<1>4. ASSUME UNCHANGED <<events, broadcast, message>>
      PROVE  BroadcastInOrder' /\ message <= message'
  BY <1>0, <1>4 DEF BroadcastInOrder, Increasing, Within
<1>5. ASSUME NEW c \in Client, HandlerStep(c) \/ Register(c) \/ Unregister(c) \/ Offer(c)
      PROVE  UNCHANGED <<events, broadcast, message>>
  BY <1>5 DEF HandlerStep, Connect, Disconnect, Receive, Written, Leave, Register, Unregister,
              Offer, hubVars
<1>6. CASE UNCHANGED vars
  BY <1>4, <1>6 DEF vars, hubVars
<1> QED
  BY <1>1, <1>2, <1>3, <1>4, <1>5, <1>6 DEF Next, HubStep, BroadcastEvent

(* A channel stays in order, between what its handler has shown and the     *)
(* event the hub has in hand.                                               *)
LEMMA BufferStep ==
  ASSUME TypeOK, RegisteredIsOpen, BroadcastInOrder, BufferInOrder, [Next]_vars
  PROVE  BufferInOrder'
<1> USE DashboardAssumption DEF TypeOK
<1>0. message \in Nat /\ \A c \in Client : shown[c] \in Nat /\ buffer[c] \in Seq(Event)
  OBVIOUS
<1>1. ASSUME UNCHANGED <<message, todo, buffer, shown>>
      PROVE  BufferInOrder'
  BY <1>1 DEF BufferInOrder, Increasing, Within
<1>2. CASE TakeEvent
  <2>1. message < Head(broadcast) /\ Head(broadcast) \in Nat
    <3>1. Head(broadcast) = broadcast[1] /\ 1 \in 1 .. Len(broadcast) /\ broadcast[1] \in Event
      BY <1>2 DEF TakeEvent
    <3> QED
      BY <3>1 DEF BroadcastInOrder, Within, Event
  <2>2. message' = Head(broadcast) /\ UNCHANGED <<buffer, shown>>
    BY <1>2 DEF TakeEvent, handlerVars
  <2>3. \A c \in Client : \A i \in 1 .. Len(buffer[c]) : buffer[c][i] \in Nat
    BY DEF Event
  <2> QED
    BY <1>0, <2>1, <2>2, <2>3 DEF BufferInOrder, Increasing, Within
<1>3. ASSUME NEW c \in Client, Offer(c)
      PROVE  BufferInOrder'
  <2>1. shown[c] < message /\ message \in Event
        /\ \A i \in 1 .. Len(buffer[c]) : shown[c] < buffer[c][i] /\ buffer[c][i] < message
    BY <1>0, <1>3 DEF Offer, BufferInOrder, Within, Event
  <2>2. UNCHANGED <<message, shown>> /\ todo' = todo \ {c}
    BY <1>3 DEF Offer, handlerVars
  <2>3. CASE UNCHANGED buffer
    BY <1>0, <2>2, <2>3 DEF BufferInOrder, Increasing, Within
  <2>4. CASE buffer' = [buffer EXCEPT ![c] = Append(@, message)]
    <3>1. Increasing(buffer'[c]) /\ Within(buffer'[c], shown[c], message)
      BY <1>0, <2>1, <2>4, AppendInOrder DEF BufferInOrder
    <3>2. \A d \in Client \ {c} : buffer'[d] = buffer[d]
      BY <2>4
    <3> QED
      BY <1>0, <2>2, <3>1, <3>2 DEF BufferInOrder, Increasing, Within
  <2> QED
    BY <1>3, <2>3, <2>4 DEF Offer
<1>4. ASSUME NEW c \in Client, Receive(c)
      PROVE  BufferInOrder'
  <2>1. Head(buffer[c]) <= message
        /\ Increasing(Tail(buffer[c])) /\ Within(Tail(buffer[c]), Head(buffer[c]), message)
    BY <1>0, <1>4, TailInOrder DEF Receive, BufferInOrder
  <2>2. buffer[c] # <<>> /\ UNCHANGED <<message, todo>>
        /\ shown' = [shown EXCEPT ![c] = Head(buffer[c])]
        /\ buffer' = [buffer EXCEPT ![c] = Tail(@)]
    BY <1>4 DEF Receive, hubVars
  <2>3. Head(buffer[c]) = buffer[c][1] /\ 1 \in 1 .. Len(buffer[c])
        /\ Len(Tail(buffer[c])) = Len(buffer[c]) - 1
        /\ \A i \in 1 .. Len(buffer[c]) - 1 :
             i + 1 \in 1 .. Len(buffer[c]) /\ Tail(buffer[c])[i] = buffer[c][i + 1]
    BY <1>0, <2>2
  <2>4. c \in todo => Head(buffer[c]) < message
          /\ \A i \in 1 .. Len(Tail(buffer[c])) : Tail(buffer[c])[i] < message
    BY <2>3 DEF BufferInOrder
  <2>5. \A d \in Client \ {c} : buffer'[d] = buffer[d] /\ shown'[d] = shown[d]
    BY <2>2
  <2>6. buffer'[c] = Tail(buffer[c]) /\ shown'[c] = Head(buffer[c])
    BY <2>2
  <2> QED
    BY <2>1, <2>2, <2>4, <2>5, <2>6 DEF BufferInOrder, Increasing, Within
<1>5. ASSUME NEW c \in Client, Register(c) \/ Unregister(c)
      PROVE  UNCHANGED <<message, todo, buffer, shown>>
  BY <1>5 DEF Register, Unregister
<1>6. ASSUME NEW c \in Client, Connect(c) \/ Disconnect(c) \/ Written(c) \/ Leave(c)
      PROVE  UNCHANGED <<message, todo, buffer, shown>>
  BY <1>6 DEF Connect, Disconnect, Written, Leave, hubVars
<1>7. CASE BroadcastEvent \/ UNCHANGED vars
  BY <1>1, <1>7 DEF BroadcastEvent, vars, hubVars, handlerVars
<1> QED
  BY <1>1, <1>2, <1>3, <1>4, <1>5, <1>6, <1>7 DEF Next, HubStep, HandlerStep

(* The invariant holds from the start on. *)
LEMMA HubInvariance == Spec => []DInv
<1>1. Init => DInv
  <2> SUFFICES ASSUME Init
               PROVE  DInv
    OBVIOUS
  <2>1. TypeOK
    <3>1. <<>> \in Seq(Event)
      OBVIOUS
    <3> QED
      BY <3>1, DashboardAssumption DEF Init, TypeOK, HandlerState
  <2>2. RegisteredIsOpen
    BY DEF Init, RegisteredIsOpen, Serving
  <2>3. BroadcastInOrder /\ BufferInOrder
    BY DEF Init, BroadcastInOrder, BufferInOrder, Increasing, Within
  <2> QED
    BY <2>1, <2>2, <2>3 DEF DInv
<1>2. DInv /\ [Next]_vars => DInv'
  BY HubTypeStep, RegisteredStep, BroadcastStep, BufferStep DEF DInv
<1> QED
  BY <1>1, <1>2, PTL DEF Spec

-----------------------------------------------------------------------------
(* Every variable of the hub and the handlers keeps its type. *)
THEOREM HubTypeCorrect == Spec => []TypeOK
BY HubInvariance, PTL DEF DInv

(* However many browsers come and go, the hub never sends to a closed       *)
(* channel and closes each once.                                            *)
THEOREM HubSendsToOpenChannels == Spec => []RegisteredIsOpen
BY HubInvariance, PTL DEF DInv

(* Whatever is dropped, a browser sees events in the order of broadcast.    *)
THEOREM StreamsAreInOrder == Spec => ShownInOrder
<1>1. DInv /\ [Next]_vars =>
        [\A c \in Client : pc[c] = "streaming" /\ pc'[c] = "writing" => shown[c] < shown'[c]]_vars
  <2> SUFFICES ASSUME DInv, Next, NEW c \in Client, pc[c] = "streaming", pc'[c] = "writing"
               PROVE  shown[c] < shown'[c]
    OBVIOUS
  <2>1. Receive(c)
    <3> USE DEF DInv, TypeOK
    <3>1. ~BroadcastEvent /\ ~TakeEvent
      BY DEF BroadcastEvent, TakeEvent, handlerVars
    <3>2. \A d \in Client : ~Register(d) /\ ~Unregister(d) /\ ~Offer(d)
      BY DEF Register, Unregister, Offer, Goto, handlerVars
    <3>3. \A d \in Client : ~Connect(d) /\ ~Disconnect(d) /\ ~Written(d) /\ ~Leave(d)
      BY DEF Connect, Disconnect, Written, Leave, Goto
    <3>4. \A d \in Client : Receive(d) => d = c
      BY DEF Receive, Goto
    <3> QED
      BY <3>1, <3>2, <3>3, <3>4 DEF Next, HubStep, HandlerStep
  <2>2. Head(buffer[c]) = buffer[c][1] /\ 1 \in 1 .. Len(buffer[c])
    BY <2>1 DEF Receive, DInv, TypeOK
  <2>3. shown'[c] = Head(buffer[c])
    BY <2>1 DEF Receive, DInv, TypeOK
  <2> QED
    BY <2>2, <2>3 DEF DInv, BufferInOrder, Within
<1> QED
  BY <1>1, HubInvariance, PTL DEF Spec, ShownInOrder
=============================================================================
