------------------------ MODULE EarlyAnalyze_proofs ------------------------
(***************************************************************************)
(* For every set of tables and threads, every capacity of the queue and    *)
(* every number of strikes, whatever myloader does and prints: no table    *)
(* is lost by the counters of the pool or analyzed twice, and none is      *)
(* offered before as many polls in a row have missed it as strikes are     *)
(* asked for.                                                              *)
(***************************************************************************)
EXTENDS EarlyAnalyze, FiniteSetTheorems, TLAPS

\* A thread holds a table from the queue to the end of its analysis, and the
\* table is counted as in progress while it is marked and analyzed.
Hands ==
    /\ \A w \in Thread : thread[w].table # Nothing <=> thread[w].at \in AtTable \cup {"got"}
    /\ \A v, w \in Thread : thread[v].table = thread[w].table /\ thread[v].table # Nothing => v = w
    /\ \A t \in Table : t \in busy <=> \E w \in Thread : /\ thread[w].table = t
                                                         /\ thread[w].at \in {"mark", "analyze"}

\* A table is offered once: it is in the queue once, or in one thread's hands.
Offered ==
    /\ \A i \in DOMAIN queue : queue[i] # Stop =>
          /\ queue[i] \in queued
          /\ \A k \in DOMAIN queue : queue[k] = queue[i] => k = i
          /\ \A w \in Thread : thread[w].table # queue[i]
    /\ \A w \in Thread : thread[w].table # Nothing => thread[w].table \in queued

ActiveCounts == active = Cardinality({w \in Thread : thread[w].at \in AtTable})

EAInv == EATypes /\ Hands /\ Offered /\ ActiveCounts /\ TablesBalance

-----------------------------------------------------------------------------
(* The tables in the queue, and how many they are *)

InQueue(q) == {i \in DOMAIN q : q[i] # Stop}

LEMMA InQueueFinite ==
  ASSUME NEW q \in Seq(Table \cup {Stop})
  PROVE  IsFiniteSet(InQueue(q)) /\ Cardinality(InQueue(q)) \in Nat
<1>1. IsFiniteSet(1 .. Len(q)) /\ InQueue(q) \subseteq 1 .. Len(q)
  BY FS_Interval DEF InQueue
<1> QED BY <1>1, FS_Subset, FS_CardinalityType

\* Offering a table adds one.
LEMMA InQueueAppend ==
  ASSUME NEW q \in Seq(Table \cup {Stop}), NEW t \in Table
  PROVE  Cardinality(InQueue(Append(q, t))) = Cardinality(InQueue(q)) + 1
<1>1. InQueue(Append(q, t)) = InQueue(q) \cup {Len(q) + 1} /\ Len(q) + 1 \notin InQueue(q)
  BY LoadTypes DEF InQueue
<1> QED BY <1>1, InQueueFinite, FS_AddElement

\* Sentinels add none.
LEMMA InQueueSentinels ==
  ASSUME NEW q \in Seq(Table \cup {Stop}), NEW n \in Int
  PROVE  /\ q \o [i \in 1..n |-> Stop] \in Seq(Table \cup {Stop})
         /\ \A i \in DOMAIN (q \o [k \in 1..n |-> Stop]) :
               LET r == q \o [k \in 1..n |-> Stop]
               IN  r[i] # Stop => i \in DOMAIN q /\ r[i] = q[i]
         /\ InQueue(q \o [i \in 1..n |-> Stop]) = InQueue(q)
<1> DEFINE stops == [i \in 1..n |-> Stop]
           r == q \o stops
           m == IF n < 0 THEN 0 ELSE n
<1>1. stops \in Seq(Table \cup {Stop}) /\ Len(stops) = m /\ m \in Nat
  <2>1. 1..n = 1..m /\ m \in Nat
    OBVIOUS
  <2>2. stops = [i \in 1..m |-> Stop]
    BY <2>1
  <2> HIDE DEF m
  <2>3. [i \in 1..m |-> Stop] \in Seq(Table \cup {Stop}) /\ Len([i \in 1..m |-> Stop]) = m
    BY <2>1
  <2> HIDE DEF stops
  <2> QED BY <2>1, <2>2, <2>3
<1>2. \A i \in 1..m : stops[i] = Stop
  OBVIOUS
<1> HIDE DEF stops, m
<1>3. /\ r \in Seq(Table \cup {Stop}) /\ Len(r) = Len(q) + m
      /\ \A i \in 1 .. Len(q) : r[i] = q[i]
      /\ \A i \in Len(q) + 1 .. Len(q) + m : r[i] = Stop
  BY <1>1, <1>2
<1> HIDE DEF r
<1>4. \A i \in DOMAIN r : r[i] # Stop => i \in DOMAIN q /\ r[i] = q[i]
  BY <1>1, <1>3
<1>5. InQueue(r) = InQueue(q)
  BY <1>1, <1>3, <1>4 DEF InQueue
<1> QED BY <1>3, <1>4, <1>5 DEF r, stops

\* Taking the head takes one, or none if it is a sentinel.
LEMMA InQueueTail ==
  ASSUME NEW q \in Seq(Table \cup {Stop}), q # <<>>
  PROVE  Cardinality(InQueue(q)) =
            Cardinality(InQueue(Tail(q))) + (IF Head(q) # Stop THEN 1 ELSE 0)
<1> DEFINE rest == InQueue(q) \ {1}
           f == [i \in InQueue(Tail(q)) |-> i + 1]
<1>1. /\ Tail(q) \in Seq(Table \cup {Stop}) /\ Len(Tail(q)) = Len(q) - 1 /\ Len(q) \in Nat \ {0}
      /\ \A i \in 1 .. Len(q) - 1 : Tail(q)[i] = q[i + 1]
      /\ Head(q) = q[1]
  OBVIOUS
<1>2. f \in Bijection(InQueue(Tail(q)), rest)
  <2>1. \A i \in InQueue(Tail(q)) : i + 1 \in rest
    BY <1>1 DEF InQueue
  <2>2. \A k \in rest : k - 1 \in InQueue(Tail(q)) /\ (k - 1) + 1 = k
    BY <1>1 DEF InQueue
  <2>3. \A i, k \in InQueue(Tail(q)) : i + 1 = k + 1 => i = k
    BY <1>1 DEF InQueue
  <2>4. f \in [InQueue(Tail(q)) -> rest]
    BY <2>1
  <2>5. \A k \in rest : \E i \in InQueue(Tail(q)) : f[i] = k
    BY <2>2
  <2>6. \A i, k \in InQueue(Tail(q)) : f[i] = f[k] => i = k
    BY <2>3
  <2> QED BY <2>4, <2>5, <2>6 DEF Bijection, Injection, Surjection, IsInjective
<1>3. Cardinality(rest) = Cardinality(InQueue(Tail(q)))
  BY <1>1, <1>2, InQueueFinite, FS_Bijection DEF ExistsBijection
<1>4. CASE Head(q) # Stop
  <2>1. 1 \in InQueue(q)
    BY <1>1, <1>4 DEF InQueue
  <2>2. Cardinality(rest) = Cardinality(InQueue(q)) - 1
    BY <2>1, InQueueFinite, FS_RemoveElement
  <2>3. Cardinality(InQueue(q)) \in Nat
    BY InQueueFinite
  <2> HIDE DEF rest
  <2> QED BY <1>3, <1>4, <2>2, <2>3
<1>5. CASE Head(q) = Stop
  <2>1. rest = InQueue(q)
    BY <1>1, <1>5 DEF InQueue
  <2>2. Cardinality(InQueue(q)) \in Nat
    BY InQueueFinite
  <2> HIDE DEF rest
  <2> QED BY <1>3, <1>5, <2>1, <2>2
<1> QED BY <1>4, <1>5
-----------------------------------------------------------------------------
(* Types *)

LEMMA InitEA == LoadInit => EAInv
<1> SUFFICES ASSUME LoadInit PROVE EAInv
  OBVIOUS
<1> USE DEF LoadInit, LoadInitWith, Untracked
<1>1. EATypes
  BY LoadTypes DEF EATypes, PollPhase, Track, ThreadPhase, MainPhase, Nothing
<1>2. Hands
  BY DEF Hands, AtTable
<1>3. Offered
  BY DEF Offered
<1>4. ActiveCounts
  <2>1. {w \in Thread : thread[w].at \in AtTable} = {}
    BY DEF AtTable
  <2> QED BY <2>1, FS_EmptySet DEF ActiveCounts
<1>5. TablesBalance
  <2>1. {i \in DOMAIN queue : queue[i] # Stop} = {} /\ {w \in Thread : thread[w].at = "got"} = {}
    OBVIOUS
  <2>2. Cardinality({}) = 0
    BY FS_EmptySet
  <2>3. stats.queued = 0 /\ stats.done = 0 /\ busy = {} /\ poll.at # "count"
    OBVIOUS
  <2>4. stats.queued + 0 = stats.done + 0 + 0 + 0
    BY <2>3
  <2> QED BY ONLY <2>1, <2>2, <2>3, <2>4 DEF TablesBalance
<1> QED BY <1>1, <1>2, <1>3, <1>4, <1>5 DEF EAInv

LEMMA PolledType ==
  ASSUME EATypes, NEW t \in Table
  PROVE  /\ Polled(t) \in Track
         /\ Finalized(tracker[t]) \in Track
<1>1. tracker[t] \in Track /\ Strikes \in Nat /\ Fallback \in Nat
  BY LoadTypes DEF EATypes
<1>2. Seen(tracker[t]) \in Track /\ Finalized(tracker[t]) \in Track
  <2>1. Finalized(tracker[t]) \in Track
    BY <1>1 DEF Finalized, Track
  <2>2. Seen(tracker[t]) \in Track
    <3> DEFINE range == 0 .. Fallback
    <3>1. 0 \in range
      BY <1>1
    <3>2. Track = [seen : BOOLEAN, strikes : range, data : BOOLEAN,
                   index : BOOLEAN, complete : BOOLEAN]
      BY DEF Track
    <3> HIDE DEF range
    <3> QED BY <1>1, <3>1, <3>2 DEF Seen
  <2> QED BY <2>1, <2>2
<1>3. Struck(tracker[t]) \in Track
  <2> DEFINE r == tracker[t]
             n == IF r.strikes < Fallback THEN r.strikes + 1 ELSE r.strikes
             s == [r EXCEPT !.strikes = n]
  <2>1. n \in 0 .. Fallback
    BY <1>1 DEF Track
  <2>2. s \in Track
    BY <1>1, <2>1 DEF Track
  <2>3. [s EXCEPT !.data = TRUE, !.index = TRUE] \in Track
    BY <2>2 DEF Track
  <2> HIDE DEF s
  <2> QED BY <2>2, <2>3 DEF Struck, s
<1> QED BY <1>1, <1>2, <1>3 DEF Polled

PollType == [at : PollPhase, seen : SUBSET Table, emit : SUBSET Table]

LEMMA TrackExcept ==
  ASSUME NEW r \in Track
  PROVE  /\ [r EXCEPT !.seen = TRUE] \in Track
         /\ [r EXCEPT !.data = TRUE] \in Track
         /\ [r EXCEPT !.index = TRUE, !.data = TRUE, !.complete = FALSE] \in Track
         /\ [r EXCEPT !.complete = TRUE] \in Track
BY DEF Track

\* The steps of myloader, of the monitor and of the restore's thread keep types.
LEMMA LoadTypesKept ==
  ASSUME EATypes, \/ \E t \in Table : LoadTable(t) \/ Line(t)
                  \/ LoadFails \/ LoadEnds
  PROVE  EATypes'
<1>1. ASSUME NEW t \in Table, LoadTable(t) PROVE EATypes'
  <2>1. load' \subseteq Table
    BY <1>1 DEF LoadTable, EATypes
  <2> QED BY <1>1, <2>1 DEF LoadTable, poolVars, EATypes
<1>2. ASSUME NEW t \in Table, Line(t) PROVE EATypes'
  <2>1. tracker[t] \in Track /\ tracker \in [Table -> Track]
    BY DEF EATypes
  <2>2. tracker' \in [Table -> Track]
    BY <1>2, <2>1, TrackExcept DEF Line
  <2> QED BY <1>2, <2>2 DEF Line, poolVars, EATypes
<1>3. CASE LoadFails
  BY <1>3 DEF LoadFails, poolVars, EATypes, MainPhase
<1>4. CASE LoadEnds
  <2>1. tracker' \in [Table -> Track]
    BY <1>4, PolledType DEF LoadEnds
  <2> QED BY <1>4, <2>1 DEF LoadEnds, poolVars, EATypes, MainPhase
<1> QED BY <1>1, <1>2, <1>3, <1>4

LEMMA MonitorTypesKept ==
  ASSUME EATypes, MonitorStep
  PROVE  EATypes'
<1>1. poll \in PollType
  BY DEF EATypes, PollType
<1>2. CASE PollRead
  <2>1. missed' \in [Table -> 0..Fallback]
    <3>1. \A t \in Table : missed[t] \in 0..Fallback
      BY DEF EATypes
    <3>2. Fallback \in Nat
      BY LoadTypes
    <3> QED BY <1>2, <3>1, <3>2 DEF PollRead
  <2>2. poll' \in PollType
    BY <1>1, <1>2 DEF PollRead, PollType, PollPhase, EATypes
  <2> QED BY <1>2, <2>1, <2>2 DEF PollRead, poolVars, EATypes, PollType
<1>3. CASE PollApply
  <2>1. tracker' \in [Table -> Track]
    BY <1>3, PolledType DEF PollApply
  <2>2. poll' \in PollType
    BY <1>1, <1>3 DEF PollApply, PollType, PollPhase
  <2> QED BY <1>3, <2>1, <2>2 DEF PollApply, poolVars, EATypes, PollType
<1>4. CASE EmitCount
  <2>1. poll' \in PollType
    BY <1>1, <1>4 DEF EmitCount, PollType, PollPhase
  <2>2. stats' \in [queued : Nat, done : Nat]
    <3>1. stats \in [queued : Nat, done : Nat]
      BY DEF EATypes
    <3> QED BY <1>4, <3>1 DEF EmitCount
  <2> QED BY <1>4, <2>1, <2>2 DEF EmitCount, EATypes, PollType
<1>5. CASE PollEnd
  <2>1. Cardinality(poll.seen) \in Nat
    BY <1>1, LoadTypes, FS_Subset, FS_CardinalityType DEF PollType
  <2>2. poll' \in PollType
    BY <1>1, <1>5 DEF PollEnd, PollType, PollPhase
  <2>3. control' \in [loading : Nat, complete : BOOLEAN, monitorStop : BOOLEAN,
                      stopping : BOOLEAN, allDone : BOOLEAN]
    BY <1>5, <2>1 DEF PollEnd, EATypes
  <2> QED BY <1>5, <2>2, <2>3 DEF PollEnd, poolVars, EATypes, PollType
<1>6. ASSUME NEW t \in Table, EmitPut(t) PROVE EATypes'
  <2>1. poll' \in PollType
    <3>1. \/ poll' = [poll EXCEPT !.emit = @ \ {t}]
          \/ poll' = [poll EXCEPT !.emit = @ \ {t}, !.at = "count"]
      BY <1>6 DEF EmitPut
    <3>2. poll.emit \ {t} \subseteq Table /\ "count" \in PollPhase
      BY <1>1 DEF PollType, PollPhase
    <3> QED BY <1>1, <3>1, <3>2 DEF PollType
  <2>2. queued' \subseteq Table /\ queue' \in Seq(Table \cup {Stop})
    <3>1. queued \subseteq Table /\ queue \in Seq(Table \cup {Stop})
      BY DEF EATypes
    <3>2. Append(queue, t) \in Seq(Table \cup {Stop})
      BY <3>1
    <3> QED BY <1>6, <3>1, <3>2 DEF EmitPut
  <2> QED BY <1>6, <2>1, <2>2 DEF EmitPut, EATypes, PollType
<1> QED BY <1>2, <1>3, <1>4, <1>5, <1>6 DEF MonitorStep

LEMMA MainTypesKept ==
  ASSUME EATypes, MainStep
  PROVE  EATypes'
<1> DEFINE ControlType == [loading : Nat, complete : BOOLEAN, monitorStop : BOOLEAN,
                           stopping : BOOLEAN, allDone : BOOLEAN]
<1>1. control \in ControlType /\ AllDone \in BOOLEAN
  BY DEF EATypes, AllDone
<1>2. CASE LoadEnds
  BY <1>2, LoadTypesKept
<1>3. CASE NotifyMyloaderComplete \/ WaitCheck \/ StopMonitor \/ SetStopping
  <2>1. control' \in ControlType
    <3>1. \/ control' = [control EXCEPT !.complete = TRUE, !.loading = 0]
          \/ control' = [control EXCEPT !.allDone = AllDone]
          \/ control' = [control EXCEPT !.monitorStop = TRUE]
          \/ control' = [control EXCEPT !.stopping = TRUE]
          \/ control' = control
      BY <1>3 DEF NotifyMyloaderComplete, WaitCheck, StopMonitor, SetStopping
    <3>2. /\ [control EXCEPT !.complete = TRUE, !.loading = 0] \in ControlType
          /\ [control EXCEPT !.monitorStop = TRUE] \in ControlType
          /\ [control EXCEPT !.stopping = TRUE] \in ControlType
      BY <1>1
    <3>3. [control EXCEPT !.allDone = AllDone] \in ControlType
      BY <1>1
    <3> HIDE DEF ControlType
    <3> QED BY <1>1, <3>1, <3>2, <3>3
  <2>2. main' \in MainPhase
    BY <1>3 DEF NotifyMyloaderComplete, WaitCheck, StopMonitor, SetStopping, MainPhase, EATypes
  <2> QED BY <1>3, <2>1, <2>2 DEF NotifyMyloaderComplete, WaitCheck, StopMonitor, SetStopping,
                 poolVars, EATypes
<1>4. CASE WaitForCompletion \/ Join
  BY <1>4 DEF WaitForCompletion, Join, poolVars, EATypes, MainPhase
<1>5. CASE PutSentinels
  <2>1. queue' \in Seq(Table \cup {Stop})
    <3> DEFINE room == Capacity - Len(queue)
               n == IF room < Cardinality(Thread) THEN room ELSE Cardinality(Thread)
    <3>1. Cardinality(Thread) \in Nat /\ Len(queue) \in Nat /\ Capacity \in Nat
      BY LoadTypes, FS_CardinalityType DEF EATypes
    <3>2. n \in Int
      BY <3>1
    <3> HIDE DEF n
    <3> QED BY <1>5, <3>2, InQueueSentinels DEF PutSentinels, n, EATypes
  <2> QED BY <1>5, <2>1 DEF PutSentinels, EATypes, MainPhase
<1> QED BY <1>2, <1>3, <1>4, <1>5 DEF MainStep
-----------------------------------------------------------------------------
(* The pool *)

Got == {w \in Thread : thread[w].at = "got"}

LEMMA PoolFinite ==
  ASSUME EATypes
  PROVE  /\ IsFiniteSet(Got) /\ Cardinality(Got) \in Nat
         /\ IsFiniteSet(busy) /\ Cardinality(busy) \in Nat
         /\ IsFiniteSet(InQueue(queue)) /\ Cardinality(InQueue(queue)) \in Nat
         /\ stats.queued \in Nat /\ stats.done \in Nat
<1>1. queue \in Seq(Table \cup {Stop}) /\ busy \subseteq Table /\ Got \subseteq Thread
  BY DEF EATypes, Got
<1>2. stats.queued \in Nat /\ stats.done \in Nat
  BY DEF EATypes
<1> QED BY <1>1, <1>2, InQueueFinite, LoadTypes, FS_Subset, FS_CardinalityType

\* The balance, as the lemmas above count it.
LEMMA Balance ==
  TablesBalance <=>
    stats.queued + (IF poll.at = "count" THEN 1 ELSE 0)
      = stats.done + Cardinality(busy) + Cardinality(InQueue(queue)) + Cardinality(Got)
BY DEF TablesBalance, InQueue, Got

\* A step that leaves the pool alone, and counts no table, keeps the invariant.
LEMMA PoolKept ==
  ASSUME EAInv, EATypes', UNCHANGED poolVars, poll.at = "count" <=> poll'.at = "count"
  PROVE  EAInv'
<1>1. Hands' /\ Offered' /\ ActiveCounts'
  BY DEF poolVars, EAInv, Hands, Offered, ActiveCounts
<1>2. TablesBalance'
  BY DEF poolVars, EAInv, TablesBalance
<1> QED BY <1>1, <1>2 DEF EAInv

LEMMA MyloaderKeepsEA ==
  ASSUME EAInv, MyloaderStep
  PROVE  EAInv'
<1>1. EATypes'
  BY LoadTypesKept DEF MyloaderStep, EAInv
<1> QED BY <1>1, PoolKept DEF MyloaderStep, LoadTable, Line, LoadFails

LEMMA MainKeepsEA ==
  ASSUME EAInv, MainStep
  PROVE  EAInv'
<1>1. EATypes /\ EATypes'
  BY MainTypesKept DEF EAInv
<1>2. CASE UNCHANGED poolVars
  <2>1. poll' = poll
    BY DEF MainStep, LoadEnds, NotifyMyloaderComplete, WaitCheck, WaitForCompletion, StopMonitor,
           SetStopping, PutSentinels, Join
  <2> QED BY <1>1, <1>2, <2>1, PoolKept
<1>3. CASE PutSentinels
  <2>1. PICK n \in Int : queue' = queue \o [i \in 1..n |-> Stop]
    <3> DEFINE room == Capacity - Len(queue)
               n == IF room < Cardinality(Thread) THEN room ELSE Cardinality(Thread)
    <3>1. Cardinality(Thread) \in Nat /\ Len(queue) \in Nat /\ Capacity \in Nat
      BY <1>1, LoadTypes, FS_CardinalityType DEF EATypes
    <3>2. n \in Int
      BY <3>1
    <3>3. queue' = queue \o [i \in 1..n |-> Stop]
      BY <1>3 DEF PutSentinels
    <3> HIDE DEF n
    <3> QED BY <3>2, <3>3
  <2>2. /\ queue \in Seq(Table \cup {Stop})
        /\ \A i \in DOMAIN queue' : queue'[i] # Stop => i \in DOMAIN queue /\ queue'[i] = queue[i]
        /\ InQueue(queue') = InQueue(queue)
    <3>1. queue \in Seq(Table \cup {Stop})
      BY <1>1 DEF EATypes
    <3> QED BY ONLY <2>1, <3>1, InQueueSentinels
  <2>3. UNCHANGED <<queued, stats, busy, active, thread, poll>>
    BY <1>3 DEF PutSentinels
  <2>4. Hands' /\ ActiveCounts'
    BY <2>3 DEF EAInv, Hands, ActiveCounts
  <2>5. Offered'
    BY <2>2, <2>3 DEF EAInv, Offered
  <2>6. TablesBalance'
    <3>1. TablesBalance
      BY DEF EAInv
    <3> QED BY <2>2, <2>3, <3>1 DEF TablesBalance, InQueue
  <2> QED BY <1>1, <2>4, <2>5, <2>6 DEF EAInv
<1> QED BY <1>2, <1>3 DEF MainStep, LoadEnds, NotifyMyloaderComplete, WaitCheck, WaitForCompletion,
              StopMonitor, SetStopping, Join

\* The monitor offers a table once, and counts it after the put.
LEMMA MonitorKeepsEA ==
  ASSUME EAInv, MonitorStep
  PROVE  EAInv'
<1>1. EATypes /\ EATypes'
  BY MonitorTypesKept DEF EAInv
<1>2. CASE PollRead \/ PollApply \/ PollEnd
  <2>1. poll.at # "count" /\ poll'.at # "count"
    BY <1>1, <1>2 DEF PollRead, PollApply, PollEnd, EATypes
  <2> QED BY <1>1, <1>2, <2>1, PoolKept DEF PollRead, PollApply, PollEnd
<1>3. CASE EmitCount
  <2>1. UNCHANGED <<queue, queued, busy, active, thread>>
    BY <1>3 DEF EmitCount
  <2>2. /\ poll.at = "count" /\ poll'.at = "put"
        /\ stats'.queued = stats.queued + 1 /\ stats'.done = stats.done
    BY <1>1, <1>3 DEF EmitCount, EATypes
  <2>3. Hands' /\ Offered' /\ ActiveCounts'
    BY <2>1 DEF EAInv, Hands, Offered, ActiveCounts
  <2>4. TablesBalance'
    <3>1. stats.queued + 1 = stats.done + Cardinality(busy) + Cardinality(InQueue(queue)) + Cardinality(Got)
      BY <2>2, Balance DEF EAInv
    <3>2. stats'.queued + 0 = stats'.done + Cardinality(busy) + Cardinality(InQueue(queue)) + Cardinality(Got)
      BY <1>1, <2>2, <3>1, PoolFinite
    <3> QED BY <2>1, <2>2, <3>2 DEF TablesBalance, InQueue, Got
  <2> QED BY <1>1, <2>3, <2>4 DEF EAInv
<1>4. ASSUME NEW t \in Table, EmitPut(t) PROVE EAInv'
  <2>1. UNCHANGED <<stats, busy, active, thread>> /\ poll.at = "put"
    BY <1>4 DEF EmitPut
  <2>2. CASE queue' = queue
    <3>1. queued \subseteq queued' /\ poll'.at # "count"
      <4>1. /\ queue \in Seq(Table \cup {Stop})
            /\ poll \in [at : PollPhase, seen : SUBSET Table, emit : SUBSET Table]
        BY <1>1 DEF EATypes
      <4>2. Len(Append(queue, t)) # Len(queue)
        BY <4>1
      <4>3. queued \subseteq queued' /\ poll' = [poll EXCEPT !.emit = @ \ {t}]
        BY <1>4, <2>2, <4>2 DEF EmitPut
      <4> QED BY <2>1, <4>1, <4>3
    <3>2. Hands' /\ Offered' /\ ActiveCounts'
      BY <2>1, <2>2, <3>1 DEF EAInv, Hands, Offered, ActiveCounts
    <3>3. TablesBalance'
      BY <2>1, <2>2, <3>1 DEF EAInv, TablesBalance
    <3> QED BY <1>1, <3>2, <3>3 DEF EAInv
  <2>3. CASE queue' # queue
    <3>1. /\ t \notin queued /\ queued' = queued \cup {t}
          /\ queue' = Append(queue, t) /\ poll'.at = "count"
      <4>1. /\ t \notin queued /\ queued' = queued \cup {t}
            /\ queue' = Append(queue, t)
            /\ poll' = [poll EXCEPT !.emit = @ \ {t}, !.at = "count"]
        BY <1>4, <2>3 DEF EmitPut
      <4>2. poll \in [at : PollPhase, seen : SUBSET Table, emit : SUBSET Table]
        BY <1>1 DEF EATypes
      <4> QED BY <4>1, <4>2
    <3>2. /\ queue \in Seq(Table \cup {Stop})
          /\ Len(queue') = Len(queue) + 1 /\ queue'[Len(queue) + 1] = t
          /\ \A i \in DOMAIN queue : i \in 1 .. Len(queue) /\ queue'[i] = queue[i]
          /\ DOMAIN queue' = DOMAIN queue \cup {Len(queue) + 1}
      BY <1>1, <3>1 DEF EATypes
    <3>3. /\ \A i \in DOMAIN queue : queue[i] # t
          /\ \A w \in Thread : thread[w].table # t
      <4>1. t # Stop /\ Nothing = Stop
        BY LoadTypes DEF Nothing
      <4> QED BY <3>1, <4>1 DEF EAInv, Offered
    <3>4. Hands' /\ ActiveCounts'
      BY <2>1 DEF EAInv, Hands, ActiveCounts
    <3>5. Offered'
      <4>1. ASSUME NEW i \in DOMAIN queue', queue'[i] # Stop
            PROVE  /\ queue'[i] \in queued'
                   /\ \A k \in DOMAIN queue' : queue'[k] = queue'[i] => k = i
                   /\ \A w \in Thread : thread'[w].table # queue'[i]
        <5>1. CASE i = Len(queue) + 1
          BY <2>1, <3>1, <3>2, <3>3, <5>1
        <5>2. CASE i \in DOMAIN queue
          BY <2>1, <3>1, <3>2, <3>3, <4>1, <5>2 DEF EAInv, Offered
        <5> QED BY <3>2, <5>1, <5>2
      <4>2. \A w \in Thread : thread'[w].table # Nothing => thread'[w].table \in queued'
        BY <2>1, <3>1 DEF EAInv, Offered
      <4> QED BY <4>1, <4>2 DEF Offered
    <3>6. TablesBalance'
      <4>1. stats.queued + 0 = stats.done + Cardinality(busy) + Cardinality(InQueue(queue)) + Cardinality(Got)
        BY <2>1, Balance DEF EAInv
      <4>2. Cardinality(InQueue(queue')) = Cardinality(InQueue(queue)) + 1
        BY <3>1, <3>2, InQueueAppend
      <4>3. stats.queued + 1 = stats.done + Cardinality(busy) + Cardinality(InQueue(queue')) + Cardinality(Got)
        BY <1>1, <4>1, <4>2, PoolFinite
      <4> QED BY <2>1, <3>1, <4>3 DEF TablesBalance, InQueue, Got
    <3> QED BY <1>1, <3>4, <3>5, <3>6 DEF EAInv
  <2> QED BY <2>2, <2>3
<1> QED BY <1>2, <1>3, <1>4 DEF MonitorStep

-----------------------------------------------------------------------------
(* The threads *)

\* A step of one thread that keeps the table it has, if any.
LEMMA MoveFacts ==
  ASSUME EATypes, NEW w \in Thread, NEW at, Move(w, at)
  PROVE  /\ \A v \in Thread \ {w} : thread'[v] = thread[v]
         /\ thread'[w].at = at /\ thread'[w].table = thread[w].table
         /\ at \in ThreadPhase => thread' \in [Thread -> [at : ThreadPhase, table : Table \cup {Nothing}]]
<1>1. thread \in [Thread -> [at : ThreadPhase, table : Table \cup {Nothing}]]
  BY DEF EATypes
<1>2. thread[w] \in [at : ThreadPhase, table : Table \cup {Nothing}]
  BY <1>1
<1>3. thread' = [thread EXCEPT ![w] = [thread[w] EXCEPT !.at = at]]
  BY <1>1 DEF Move
<1> QED BY <1>1, <1>2, <1>3

LEMMA ThreadTypesKept ==
  ASSUME EATypes, NEW w \in Thread, ThreadStep(w), thread[w].at \in AtTable \cup {"got"} => thread[w].table \in Table
  PROVE  EATypes'
<1>1. /\ thread \in [Thread -> [at : ThreadPhase, table : Table \cup {Nothing}]]
      /\ tracker \in [Table -> Track]
      /\ {"idle", "ready", "got", "ended", "mark", "analyze", "marked", "finish"} \subseteq ThreadPhase
  BY DEF EATypes, ThreadPhase, AtTable
<1>2. CASE Proceed(w)
  <2>1. thread' \in [Thread -> [at : ThreadPhase, table : Table \cup {Nothing}]]
    BY <1>1, <1>2, MoveFacts DEF Proceed
  <2> QED BY <1>2, <2>1 DEF Proceed, EATypes
<1>3. CASE Get(w)
  <2>1. /\ queue' = queue /\ taken' = taken /\ Move(w, "idle")
        \/ /\ queue # <<>> /\ queue' = Tail(queue)
           /\ \/ Move(w, "ended") /\ taken' = taken
              \/ /\ thread' = [thread EXCEPT ![w] = [at |-> "got", table |-> Head(queue)]]
                 /\ Head(queue) # Stop /\ taken' = taken \cup {Head(queue)}
    BY <1>3 DEF Get
  <2>2. queue \in Seq(Table \cup {Stop}) /\ taken \subseteq Table
    BY DEF EATypes
  <2>3. queue # <<>> => Tail(queue) \in Seq(Table \cup {Stop}) /\ Head(queue) \in Table \cup {Stop}
    BY <2>2
  <2>4. thread' \in [Thread -> [at : ThreadPhase, table : Table \cup {Nothing}]]
    BY <1>1, <2>1, <2>3, MoveFacts
  <2>5. queue' \in Seq(Table \cup {Stop}) /\ taken' \subseteq Table
    BY <2>1, <2>2, <2>3
  <2> QED BY <1>3, <2>4, <2>5 DEF Get, EATypes
<1>4. CASE Register(w)
  <2>1. thread' \in [Thread -> [at : ThreadPhase, table : Table \cup {Nothing}]]
    BY <1>1, <1>4, MoveFacts DEF Register
  <2>2. active' \in Int /\ busy' \subseteq Table
    BY <1>4 DEF Register, EATypes
  <2> QED BY <1>4, <2>1, <2>2 DEF Register, EATypes
<1>5. CASE MarkAnalyzing(w) \/ MarkAnalyzed(w)
  <2>1. thread' \in [Thread -> [at : ThreadPhase, table : Table \cup {Nothing}]]
    BY <1>1, <1>5, MoveFacts DEF MarkAnalyzing, MarkAnalyzed
  <2>2. thread[w].table \in Table
    BY <1>5 DEF MarkAnalyzing, MarkAnalyzed, AtTable
  <2>3. tracker' \in [Table -> Track]
    <3> DEFINE r == tracker[thread[w].table]
    <3>1. \/ tracker' = [tracker EXCEPT ![thread[w].table]
                            = [r EXCEPT !.index = TRUE, !.data = TRUE, !.complete = FALSE]]
          \/ tracker' = [tracker EXCEPT ![thread[w].table] = [r EXCEPT !.complete = TRUE]]
      BY <1>1, <1>5, <2>2 DEF MarkAnalyzing, MarkAnalyzed
    <3>2. r \in Track
      BY <1>1, <2>2
    <3> HIDE DEF r
    <3> QED BY <1>1, <2>2, <3>1, <3>2, TrackExcept
  <2> QED BY <1>5, <2>1, <2>3 DEF MarkAnalyzing, MarkAnalyzed, EATypes
<1>6. CASE Analyze(w)
  <2>1. thread' \in [Thread -> [at : ThreadPhase, table : Table \cup {Nothing}]]
    BY <1>1, <1>6, MoveFacts DEF Analyze
  <2>2. stats' \in [queued : Nat, done : Nat] /\ busy' \subseteq Table
    <3>1. stats \in [queued : Nat, done : Nat] /\ busy \subseteq Table
      BY DEF EATypes
    <3> QED BY <1>6, <3>1 DEF Analyze
  <2> QED BY <1>6, <2>1, <2>2 DEF Analyze, EATypes
<1>7. CASE Finish(w)
  <2>1. thread' \in [Thread -> [at : ThreadPhase, table : Table \cup {Nothing}]]
    BY <1>1, <1>7 DEF Finish
  <2>2. control' \in [loading : Nat, complete : BOOLEAN, monitorStop : BOOLEAN,
                      stopping : BOOLEAN, allDone : BOOLEAN]
    <3>1. control \in [loading : Nat, complete : BOOLEAN, monitorStop : BOOLEAN,
                       stopping : BOOLEAN, allDone : BOOLEAN] /\ AllDone \in BOOLEAN
      BY DEF EATypes, AllDone
    <3> QED BY <1>7, <3>1 DEF Finish
  <2>3. active' \in Int
    BY <1>7 DEF Finish, EATypes
  <2> QED BY <1>7, <2>1, <2>2, <2>3 DEF Finish, EATypes
<1> QED BY <1>2, <1>3, <1>4, <1>5, <1>6, <1>7 DEF ThreadStep, MarkStep

\* A thread that holds a table holds one of the backup.
LEMMA HeldTable ==
  ASSUME EAInv, NEW w \in Thread, thread[w].at \in AtTable \cup {"got"}
  PROVE  thread[w].table \in Table /\ thread[w].table # Nothing
<1>1. thread[w].table # Nothing
  BY DEF EAInv, Hands
<1>2. thread[w] \in [at : ThreadPhase, table : Table \cup {Nothing}]
  BY DEF EAInv, EATypes
<1> QED BY <1>1, <1>2

\* What remains in the queue after its head was there before, one place back.
LEMMA TailFacts ==
  ASSUME NEW q \in Seq(Table \cup {Stop}), q # <<>>
  PROVE  /\ Head(q) = q[1] /\ 1 \in DOMAIN q
         /\ \A i \in DOMAIN Tail(q) : i + 1 \in DOMAIN q /\ i + 1 # 1 /\ Tail(q)[i] = q[i + 1]
         /\ \A i, k \in DOMAIN Tail(q) : i + 1 = k + 1 => i = k
OBVIOUS

\* Steps of a thread that has no table, and takes none.
LEMMA FreeKeepsEA ==
  ASSUME EAInv, NEW w \in Thread, Proceed(w) \/ (Get(w) /\ thread'[w].at # "got")
  PROVE  EAInv'
<1>1. EATypes /\ EATypes'
  BY ThreadTypesKept, HeldTable DEF EAInv, ThreadStep
<1>2. PICK at \in {"idle", "ready", "ended"} : Move(w, at)
  <2>1. \A t : thread' = [thread EXCEPT ![w] = [at |-> "got", table |-> t]] => thread'[w].at = "got"
    BY <1>1 DEF EATypes
  <2> QED BY <2>1 DEF Proceed, Get
<1>3. /\ thread[w].at \in {"idle", "ready"}
      /\ thread[w].at \notin AtTable \cup {"got"} /\ at \notin AtTable \cup {"got"}
  BY DEF Proceed, Get, AtTable
<1>4. /\ \A v \in Thread \ {w} : thread'[v] = thread[v]
      /\ thread'[w].at = at /\ thread'[w].table = thread[w].table
  BY <1>1, <1>2, MoveFacts
<1>5. UNCHANGED <<stats, busy, active, queued, poll>>
  BY DEF Proceed, Get
<1>6. \/ queue' = queue
      \/ queue # <<>> /\ queue' = Tail(queue) /\ Head(queue) = Stop
  <2>1. \A t : thread' = [thread EXCEPT ![w] = [at |-> "got", table |-> t]] => thread'[w].at = "got"
    BY <1>1 DEF EATypes
  <2> QED BY <2>1 DEF Proceed, Get
<1>7. queue \in Seq(Table \cup {Stop})
  BY <1>1 DEF EATypes
<1>8. queue' \in Seq(Table \cup {Stop})
  BY <1>1 DEF EATypes
<1>9. Hands'
  BY <1>3, <1>4, <1>5 DEF EAInv, Hands, AtTable
<1>10. Offered'
  <2>1. CASE queue' = queue
    BY <1>4, <1>5, <2>1 DEF EAInv, Offered
  <2>2. CASE queue # <<>> /\ queue' = Tail(queue)
    BY <1>4, <1>5, <1>7, <2>2, TailFacts DEF EAInv, Offered
  <2> QED BY <1>6, <2>1, <2>2
<1>11. {v \in Thread : thread'[v].at \in AtTable} = {v \in Thread : thread[v].at \in AtTable}
  BY <1>3, <1>4
<1>12. Got' = Got
  BY <1>3, <1>4 DEF Got
<1>13. ActiveCounts'
  BY <1>5, <1>11 DEF EAInv, ActiveCounts
<1>14. TablesBalance'
  <2>1. Cardinality(InQueue(queue')) = Cardinality(InQueue(queue))
    <3>1. CASE queue' = queue
      BY <3>1
    <3>2. CASE queue # <<>> /\ queue' = Tail(queue) /\ Head(queue) = Stop
      <4>1. Cardinality(InQueue(queue')) \in Nat
        BY <1>8, InQueueFinite
      <4>2. Cardinality(InQueue(queue)) = Cardinality(InQueue(Tail(queue))) + 0
        BY <1>7, <3>2, InQueueTail
      <4>3. Cardinality(InQueue(queue')) = Cardinality(InQueue(Tail(queue)))
        BY <3>2
      <4> QED BY <4>1, <4>2, <4>3
    <3> QED BY <1>6, <3>1, <3>2
  <2>2. stats.queued + (IF poll.at = "count" THEN 1 ELSE 0)
          = stats.done + Cardinality(busy) + Cardinality(InQueue(queue')) + Cardinality(Got')
    BY <1>12, <2>1, Balance DEF EAInv
  <2> QED BY <1>5, <2>2 DEF TablesBalance, InQueue, Got
<1> QED BY <1>1, <1>9, <1>10, <1>13, <1>14 DEF EAInv

\* A thread takes a table that is nowhere else.
LEMMA TakeKeepsEA ==
  ASSUME EAInv, NEW w \in Thread, Get(w), thread'[w].at = "got"
  PROVE  EAInv'
<1>1. EATypes /\ EATypes'
  BY ThreadTypesKept, HeldTable DEF EAInv, ThreadStep, Get, AtTable
<1> DEFINE t == Head(queue)
<1>2. /\ queue # <<>> /\ t # Stop /\ queue' = Tail(queue)
      /\ thread' = [thread EXCEPT ![w] = [at |-> "got", table |-> t]]
  <2>1. ~Move(w, "idle") /\ ~Move(w, "ended")
    BY <1>1, MoveFacts
  <2> QED BY <2>1 DEF Get
<1>3. /\ \A v \in Thread \ {w} : thread'[v] = thread[v]
      /\ thread'[w].at = "got" /\ thread'[w].table = t
      /\ thread[w].at = "ready"
  BY <1>1, <1>2 DEF EATypes, Get
<1>4. UNCHANGED <<stats, busy, active, queued, poll>>
  BY DEF Get
<1>5. queue \in Seq(Table \cup {Stop})
  BY <1>1 DEF EATypes
<1>6. /\ t \in queued /\ t # Nothing
      /\ \A v \in Thread : thread[v].table # t
      /\ \A i \in DOMAIN queue : i # 1 => queue[i] # t
  BY <1>2, <1>5, TailFacts DEF EAInv, Offered, Nothing
<1>7. Hands'
  <2>1. \A v \in Thread : thread'[v].table # Nothing <=> thread'[v].at \in AtTable \cup {"got"}
    BY <1>3, <1>6 DEF EAInv, Hands
  <2>2. \A u, v \in Thread : thread'[u].table = thread'[v].table /\ thread'[u].table # Nothing => u = v
    BY <1>3, <1>6 DEF EAInv, Hands
  <2>3. \A s \in Table : s \in busy <=> \E v \in Thread : /\ thread'[v].table = s
                                                           /\ thread'[v].at \in {"mark", "analyze"}
    BY <1>3 DEF EAInv, Hands
  <2> QED BY <1>4, <2>1, <2>2, <2>3 DEF Hands
<1>8. Offered'
  <2>1. ASSUME NEW i \in DOMAIN queue', queue'[i] # Stop
        PROVE  /\ queue'[i] \in queued
               /\ \A k \in DOMAIN queue' : queue'[k] = queue'[i] => k = i
               /\ \A v \in Thread : thread'[v].table # queue'[i]
    <3>1. i + 1 \in DOMAIN queue /\ i + 1 # 1 /\ queue'[i] = queue[i + 1]
      BY <1>2, <1>5, <2>1, TailFacts
    <3>2. /\ queue[i + 1] \in queued /\ queue[i + 1] # t
          /\ \A k \in DOMAIN queue : queue[k] = queue[i + 1] => k = i + 1
          /\ \A v \in Thread : thread[v].table # queue[i + 1]
      BY <1>6, <2>1, <3>1 DEF EAInv, Offered
    <3>3. \A k \in DOMAIN queue' : k + 1 \in DOMAIN queue /\ queue'[k] = queue[k + 1]
                                   /\ (k + 1 = i + 1 => k = i)
      BY <1>2, <1>5, <2>1, TailFacts
    <3> QED BY <1>3, <3>1, <3>2, <3>3
  <2>2. \A v \in Thread : thread'[v].table # Nothing => thread'[v].table \in queued
    BY <1>3, <1>6 DEF EAInv, Offered
  <2> QED BY <1>4, <2>1, <2>2 DEF Offered
<1>9. {v \in Thread : thread'[v].at \in AtTable} = {v \in Thread : thread[v].at \in AtTable}
  BY <1>3 DEF AtTable
<1>10. Got' = Got \cup {w} /\ w \notin Got
  BY <1>3 DEF Got
<1>11. ActiveCounts'
  BY <1>4, <1>9 DEF EAInv, ActiveCounts
<1>12. TablesBalance'
  <2>1. Cardinality(InQueue(queue)) = Cardinality(InQueue(queue')) + 1
    BY <1>2, <1>5, InQueueTail
  <2>2. Cardinality(Got') = Cardinality(Got) + 1
    BY <1>1, <1>10, PoolFinite, FS_AddElement
  <2>3. Cardinality(InQueue(queue')) \in Nat
    <3>1. queue' \in Seq(Table \cup {Stop})
      BY <1>1 DEF EATypes
    <3> QED BY <3>1, InQueueFinite
  <2>4. stats.queued + (IF poll.at = "count" THEN 1 ELSE 0)
          = stats.done + Cardinality(busy) + Cardinality(InQueue(queue')) + Cardinality(Got')
    BY <1>1, <2>1, <2>2, <2>3, Balance, PoolFinite DEF EAInv
  <2> QED BY <1>4, <2>4 DEF TablesBalance, InQueue, Got
<1> QED BY <1>1, <1>7, <1>8, <1>11, <1>12 DEF EAInv

\* A thread counts itself, and its table as in progress.
LEMMA RegisterKeepsEA ==
  ASSUME EAInv, NEW w \in Thread, Register(w)
  PROVE  EAInv'
<1>1. thread[w].at = "got" /\ thread[w].table \in Table /\ thread[w].table # Nothing
  BY HeldTable DEF Register
<1>2. EATypes /\ EATypes'
  BY <1>1, ThreadTypesKept DEF EAInv, ThreadStep
<1>3. /\ \A v \in Thread \ {w} : thread'[v] = thread[v]
      /\ thread'[w].at = "mark" /\ thread'[w].table = thread[w].table
  BY <1>2, MoveFacts DEF Register
<1>4. UNCHANGED <<stats, queue, queued, poll>>
  BY DEF Register
<1>5. active' = active + 1 /\ busy' = busy \cup {thread[w].table} /\ thread[w].table \notin busy
  <2>1. thread[w].table \notin busy
    BY <1>1 DEF EAInv, Hands
  <2> QED BY <2>1 DEF Register
<1>6. Hands'
  <2>1. \A v \in Thread : thread'[v].table # Nothing <=> thread'[v].at \in AtTable \cup {"got"}
    BY <1>1, <1>3 DEF EAInv, Hands, AtTable
  <2>2. \A u, v \in Thread : thread'[u].table = thread'[v].table /\ thread'[u].table # Nothing => u = v
    BY <1>3 DEF EAInv, Hands
  <2>3. \A s \in Table : s \in busy' <=> \E v \in Thread : /\ thread'[v].table = s
                                                           /\ thread'[v].at \in {"mark", "analyze"}
    BY <1>1, <1>3, <1>5 DEF EAInv, Hands
  <2> QED BY <2>1, <2>2, <2>3 DEF Hands
<1>7. Offered'
  BY <1>3, <1>4 DEF EAInv, Offered
<1>8. ActiveCounts'
  <2> DEFINE A == {v \in Thread : thread[v].at \in AtTable}
             B == {v \in Thread : thread'[v].at \in AtTable}
  <2>1. B = A \cup {w} /\ w \notin A /\ A \subseteq Thread
    BY <1>1, <1>3 DEF AtTable
  <2>2. active = Cardinality(A)
    BY DEF EAInv, ActiveCounts
  <2> HIDE DEF A, B
  <2>3. Cardinality(B) = Cardinality(A) + 1
    BY <2>1, LoadTypes, FS_Subset, FS_AddElement
  <2>4. active' = Cardinality(B)
    BY <1>5, <2>2, <2>3
  <2> QED BY <2>4 DEF ActiveCounts, B
<1>9. TablesBalance'
  <2>1. Got' = Got \ {w} /\ w \in Got
    BY <1>1, <1>3 DEF Got
  <2>2. Cardinality(Got') = Cardinality(Got) - 1
    BY <1>2, <2>1, PoolFinite, FS_RemoveElement
  <2>3. Cardinality(busy') = Cardinality(busy) + 1
    BY <1>2, <1>5, PoolFinite, FS_AddElement
  <2>4. stats.queued + (IF poll.at = "count" THEN 1 ELSE 0)
          = stats.done + Cardinality(busy') + Cardinality(InQueue(queue)) + Cardinality(Got')
    BY <1>2, <2>2, <2>3, Balance, PoolFinite DEF EAInv
  <2> QED BY <1>4, <2>4 DEF TablesBalance, InQueue, Got
<1> QED BY <1>2, <1>6, <1>7, <1>8, <1>9 DEF EAInv

\* The tracker's marks, before and after the statement.
LEMMA MarkKeepsEA ==
  ASSUME EAInv, NEW w \in Thread, MarkStep(w)
  PROVE  EAInv'
<1>1. PICK at \in {"analyze", "finish"} :
         /\ Move(w, at)
         /\ at = "analyze" => thread[w].at = "mark"
         /\ at = "finish" => thread[w].at = "marked"
  BY DEF MarkStep, MarkAnalyzing, MarkAnalyzed
<1>2. thread[w].at \in AtTable /\ at \in AtTable /\ thread[w].at # "got" /\ at # "got"
  BY <1>1 DEF AtTable
<1>3. thread[w].table \in Table
  BY <1>2, HeldTable
<1>4. EATypes /\ EATypes'
  BY <1>3, ThreadTypesKept DEF EAInv, ThreadStep
<1>5. /\ \A v \in Thread \ {w} : thread'[v] = thread[v]
      /\ thread'[w].at = at /\ thread'[w].table = thread[w].table
  BY <1>1, <1>4, MoveFacts
<1>6. UNCHANGED <<stats, busy, active, queue, queued, poll>>
  BY DEF MarkStep, MarkAnalyzing, MarkAnalyzed
<1>7. thread[w].at \in {"mark", "analyze"} <=> at \in {"mark", "analyze"}
  BY <1>1
<1>8. Hands'
  <2>1. \A v \in Thread : thread'[v].table # Nothing <=> thread'[v].at \in AtTable \cup {"got"}
    BY <1>2, <1>5 DEF EAInv, Hands
  <2>2. \A u, v \in Thread : thread'[u].table = thread'[v].table /\ thread'[u].table # Nothing => u = v
    BY <1>5 DEF EAInv, Hands
  <2>3. \A s \in Table : s \in busy' <=> \E v \in Thread : /\ thread'[v].table = s
                                                           /\ thread'[v].at \in {"mark", "analyze"}
    BY <1>5, <1>6, <1>7 DEF EAInv, Hands
  <2> QED BY <2>1, <2>2, <2>3 DEF Hands
<1>9. Offered'
  BY <1>5, <1>6 DEF EAInv, Offered
<1>10. {v \in Thread : thread'[v].at \in AtTable} = {v \in Thread : thread[v].at \in AtTable}
  BY <1>2, <1>5
<1>11. Got' = Got
  BY <1>2, <1>5 DEF Got
<1>12. ActiveCounts'
  BY <1>6, <1>10 DEF EAInv, ActiveCounts
<1>13. TablesBalance'
  <2>1. stats.queued + (IF poll.at = "count" THEN 1 ELSE 0)
          = stats.done + Cardinality(busy) + Cardinality(InQueue(queue)) + Cardinality(Got')
    BY <1>11, Balance DEF EAInv
  <2> QED BY <1>6, <2>1 DEF TablesBalance, InQueue, Got
<1> QED BY <1>4, <1>8, <1>9, <1>12, <1>13 DEF EAInv

\* A table that is done is no longer in progress.
LEMMA AnalyzeKeepsEA ==
  ASSUME EAInv, NEW w \in Thread, Analyze(w)
  PROVE  EAInv'
<1>1. thread[w].at = "analyze" /\ thread[w].table \in Table /\ thread[w].table # Nothing
  BY HeldTable DEF Analyze, AtTable
<1>2. EATypes /\ EATypes'
  BY <1>1, ThreadTypesKept DEF EAInv, ThreadStep
<1>3. /\ \A v \in Thread \ {w} : thread'[v] = thread[v]
      /\ thread'[w].at = "marked" /\ thread'[w].table = thread[w].table
  BY <1>2, MoveFacts DEF Analyze
<1>4. /\ UNCHANGED <<active, queue, queued, poll>>
      /\ stats'.queued = stats.queued /\ stats'.done = stats.done + 1
  BY <1>2 DEF Analyze, EATypes
<1>5. busy' = busy \ {thread[w].table} /\ thread[w].table \in busy
  <2>1. thread[w].table \in busy
    BY <1>1 DEF EAInv, Hands
  <2> QED BY <2>1 DEF Analyze
<1>6. Hands'
  <2>1. \A v \in Thread : thread'[v].table # Nothing <=> thread'[v].at \in AtTable \cup {"got"}
    BY <1>1, <1>3 DEF EAInv, Hands, AtTable
  <2>2. \A u, v \in Thread : thread'[u].table = thread'[v].table /\ thread'[u].table # Nothing => u = v
    BY <1>3 DEF EAInv, Hands
  <2>3. \A v \in Thread \ {w} : thread[v].table # thread[w].table
    BY <1>1 DEF EAInv, Hands
  <2>4. \A s \in Table : s \in busy' <=> \E v \in Thread : /\ thread'[v].table = s
                                                           /\ thread'[v].at \in {"mark", "analyze"}
    BY <1>1, <1>3, <1>5, <2>3 DEF EAInv, Hands
  <2> QED BY <2>1, <2>2, <2>4 DEF Hands
<1>7. Offered'
  BY <1>3, <1>4 DEF EAInv, Offered
<1>8. {v \in Thread : thread'[v].at \in AtTable} = {v \in Thread : thread[v].at \in AtTable}
  BY <1>1, <1>3 DEF AtTable
<1>9. ActiveCounts'
  BY <1>4, <1>8 DEF EAInv, ActiveCounts
<1>10. TablesBalance'
  <2>1. Got' = Got
    BY <1>1, <1>3 DEF Got
  <2>2. Cardinality(busy') = Cardinality(busy) - 1
    BY <1>2, <1>5, PoolFinite, FS_RemoveElement
  <2>3. stats'.queued + (IF poll.at = "count" THEN 1 ELSE 0)
          = stats'.done + Cardinality(busy') + Cardinality(InQueue(queue)) + Cardinality(Got')
    BY <1>2, <1>4, <2>1, <2>2, Balance, PoolFinite DEF EAInv
  <2> QED BY <1>4, <2>3 DEF TablesBalance, InQueue, Got
<1> QED BY <1>2, <1>6, <1>7, <1>9, <1>10 DEF EAInv

\* A thread that has finished with its table leaves the budget.
LEMMA FinishKeepsEA ==
  ASSUME EAInv, NEW w \in Thread, Finish(w)
  PROVE  EAInv'
<1>1. thread[w].at = "finish" /\ thread[w].table \in Table
  BY HeldTable DEF Finish, AtTable
<1>2. EATypes /\ EATypes'
  BY <1>1, ThreadTypesKept DEF EAInv, ThreadStep
<1>3. /\ \A v \in Thread \ {w} : thread'[v] = thread[v]
      /\ thread'[w].at = "idle" /\ thread'[w].table = Nothing
  BY <1>2 DEF Finish, EATypes
<1>4. UNCHANGED <<stats, busy, queue, queued, poll>> /\ active' = active - 1
  BY DEF Finish
<1>5. Hands'
  <2>1. \A v \in Thread : thread'[v].table # Nothing <=> thread'[v].at \in AtTable \cup {"got"}
    BY <1>3 DEF EAInv, Hands, AtTable
  <2>2. \A u, v \in Thread : thread'[u].table = thread'[v].table /\ thread'[u].table # Nothing => u = v
    BY <1>3 DEF EAInv, Hands
  <2>3. \A s \in Table : s \in busy' <=> \E v \in Thread : /\ thread'[v].table = s
                                                           /\ thread'[v].at \in {"mark", "analyze"}
    BY <1>1, <1>3, <1>4 DEF EAInv, Hands
  <2> QED BY <2>1, <2>2, <2>3 DEF Hands
<1>6. Offered'
  <2>1. \A i \in DOMAIN queue : queue[i] # Stop => \A v \in Thread : thread'[v].table # queue[i]
    BY <1>3 DEF EAInv, Offered, Nothing
  <2>2. \A v \in Thread : thread'[v].table # Nothing => thread'[v].table \in queued
    BY <1>3 DEF EAInv, Offered
  <2> QED BY <1>4, <2>1, <2>2 DEF EAInv, Offered
<1>7. ActiveCounts'
  <2> DEFINE A == {v \in Thread : thread[v].at \in AtTable}
             B == {v \in Thread : thread'[v].at \in AtTable}
  <2>1. B = A \ {w} /\ w \in A /\ A \subseteq Thread
    BY <1>1, <1>3 DEF AtTable
  <2>2. active = Cardinality(A)
    BY DEF EAInv, ActiveCounts
  <2> HIDE DEF A, B
  <2>3. Cardinality(B) = Cardinality(A) - 1
    BY <2>1, LoadTypes, FS_Subset, FS_RemoveElement
  <2>4. active' = Cardinality(B)
    BY <1>4, <2>2, <2>3
  <2> QED BY <2>4 DEF ActiveCounts, B
<1>8. TablesBalance'
  <2>1. Got' = Got
    BY <1>1, <1>3 DEF Got
  <2>2. stats.queued + (IF poll.at = "count" THEN 1 ELSE 0)
          = stats.done + Cardinality(busy) + Cardinality(InQueue(queue)) + Cardinality(Got')
    BY <2>1, Balance DEF EAInv
  <2> QED BY <1>4, <2>2 DEF TablesBalance, InQueue, Got
<1> QED BY <1>2, <1>5, <1>6, <1>7, <1>8 DEF EAInv

LEMMA EAStep ==
  ASSUME EAInv, [LoadNext]_loadVars
  PROVE  EAInv'
<1>1. ASSUME NEW w \in Thread, ThreadStep(w) PROVE EAInv'
  <2>1. Get(w) => EAInv'
    BY FreeKeepsEA, TakeKeepsEA
  <2> QED BY <1>1, <2>1, FreeKeepsEA, RegisterKeepsEA, MarkKeepsEA, AnalyzeKeepsEA, FinishKeepsEA
             DEF ThreadStep
<1>2. CASE UNCHANGED loadVars
  <2>1. EATypes'
    BY <1>2 DEF loadVars, EAInv, EATypes
  <2> QED BY <1>2, <2>1, PoolKept DEF loadVars, poolVars
<1> QED BY <1>1, <1>2, MyloaderKeepsEA, MonitorKeepsEA, MainKeepsEA DEF LoadNext

-----------------------------------------------------------------------------
(* Tables that are offered *)

\* A table that does not count as built is not offered, and has no more strikes
\* than polls that missed it; while a poll is applied that missed it, missed
\* already counts that poll, or counts no further.
AbsentLongEnough ==
    \A t \in Table :
        /\ t \in poll.emit \cup queued => tracker[t].index /\ Strikes <= missed[t]
        /\ ~tracker[t].index =>
              /\ poll.at # "apply" => tracker[t].strikes <= missed[t]
              /\ poll.at = "apply" /\ t \notin poll.seen
                    => tracker[t].strikes + 1 <= missed[t] \/ missed[t] = Fallback

\* What applying a poll does to one record.
LEMMA PolledFacts ==
  ASSUME EATypes, NEW t \in Table
  PROVE  /\ tracker[t].index => Polled(t) = tracker[t]
         /\ t \in poll.seen /\ ~tracker[t].index => Polled(t).strikes = 0 /\ ~Polled(t).index
         /\ t \notin poll.seen =>
               /\ Polled(t).strikes <= tracker[t].strikes + 1
               /\ Polled(t).index /\ ~tracker[t].index =>
                     \/ Strikes <= tracker[t].strikes + 1
                     \/ Fallback <= tracker[t].strikes + 1
<1> DEFINE r == tracker[t]
<1>1. r \in Track /\ Strikes \in Nat /\ Fallback \in Nat /\ r.strikes \in Nat
  <2>1. r \in Track /\ Strikes \in Nat /\ Fallback \in Nat
    BY LoadTypes DEF EATypes
  <2>2. r.strikes \in 0 .. Fallback
    BY <2>1 DEF Track
  <2> QED BY <2>1, <2>2
<1>2. /\ Seen(r).strikes = 0 /\ Seen(r).index = r.index /\ Seen(r).complete = r.complete
  BY <1>1 DEF Seen, Track
<1>3. /\ Struck(r).complete = r.complete /\ Struck(r).seen = r.seen
      /\ r.index => Struck(r).index
      /\ Struck(r).strikes <= r.strikes + 1
      /\ Struck(r).index /\ ~r.index => Required(r) <= r.strikes + 1
  <2> DEFINE n == IF r.strikes < Fallback THEN r.strikes + 1 ELSE r.strikes
             s == [r EXCEPT !.strikes = n]
             u == [s EXCEPT !.data = TRUE, !.index = TRUE]
  <2>1. n <= r.strikes + 1 /\ n \in Nat
    BY <1>1
  <2>2. /\ s.complete = r.complete /\ s.seen = r.seen /\ s.index = r.index /\ s.strikes = n
    <3> HIDE DEF n
    <3> QED BY <1>1 DEF Track
  <2>3. u.complete = s.complete /\ u.seen = s.seen /\ u.index = TRUE /\ u.strikes = s.strikes
    <3>1. s \in [seen : BOOLEAN, strikes : {n}, data : BOOLEAN, index : BOOLEAN, complete : BOOLEAN]
      <4> HIDE DEF n
      <4> QED BY <1>1 DEF Track
    <3> HIDE DEF s, n
    <3> QED BY <3>1
  <2>4. Struck(r) = IF n >= Required(r) /\ ~r.index THEN u ELSE s
    BY DEF Struck
  <2>5. Required(r) \in Nat
    BY <1>1 DEF Required
  <2> HIDE DEF n, s, u
  <2> QED BY <1>1, <2>1, <2>2, <2>3, <2>4, <2>5
<1>4. Required(r) \in {Strikes, Fallback}
  BY DEF Required
<1>5. /\ r.index => Polled(t) = r
      /\ t \in poll.seen /\ ~r.index => Polled(t) = Seen(r)
      /\ t \notin poll.seen => Polled(t) \in {r, Struck(r)}
  BY DEF Polled
<1> HIDE DEF r
<1>6. t \in poll.seen /\ ~r.index => Polled(t).strikes = 0 /\ ~Polled(t).index
  BY <1>2, <1>5
<1>7. ASSUME t \notin poll.seen
      PROVE  /\ Polled(t).strikes <= r.strikes + 1
             /\ Polled(t).index /\ ~r.index => Strikes <= r.strikes + 1 \/ Fallback <= r.strikes + 1
  <2>1. CASE Polled(t) = r
    BY <1>1, <2>1
  <2>2. CASE Polled(t) = Struck(r)
    BY <1>3, <1>4, <2>2
  <2> QED BY <1>5, <1>7, <2>1, <2>2
<1> QED BY <1>5, <1>6, <1>7 DEF r

LEMMA InitAbsent == LoadInit => AbsentLongEnough
BY LoadTypes DEF LoadInit, LoadInitWith, Untracked, AbsentLongEnough

\* Elsewhere than in a poll no strikes are counted, and indexes only get built.
LEMMA TrackerAdvances ==
  ASSUME AbsentLongEnough, UNCHANGED <<poll, queued, missed>>,
         \A t \in Table : /\ tracker[t].index => tracker'[t].index
                          /\ ~tracker'[t].index => tracker'[t].strikes = tracker[t].strikes
  PROVE  AbsentLongEnough'
BY DEF AbsentLongEnough

LEMMA MyloaderKeepsAbsent ==
  ASSUME EAInv, AbsentLongEnough, MyloaderStep
  PROVE  AbsentLongEnough'
<1>1. UNCHANGED <<poll, queued, missed>>
  BY DEF MyloaderStep, LoadTable, Line, LoadFails, poolVars
<1>2. ASSUME NEW t \in Table, Line(t) PROVE AbsentLongEnough'
  <2>1. tracker \in [Table -> Track] /\ tracker[t] \in Track
    BY DEF EAInv, EATypes
  <2>2. \/ tracker' = [tracker EXCEPT ![t] = [tracker[t] EXCEPT !.seen = TRUE]]
        \/ tracker' = [tracker EXCEPT ![t] = [tracker[t] EXCEPT !.data = TRUE]]
    BY <1>2, <2>1 DEF Line
  <2>3. /\ tracker'[t].strikes = tracker[t].strikes /\ tracker'[t].index = tracker[t].index
        /\ \A s \in Table \ {t} : tracker'[s] = tracker[s]
    BY <2>1, <2>2 DEF Track
  <2> QED BY <1>1, <2>3, TrackerAdvances
<1>3. CASE tracker' = tracker
  BY <1>1, <1>3, TrackerAdvances
<1> QED BY <1>2, <1>3 DEF MyloaderStep, LoadTable, LoadFails

LEMMA PollReadKeepsAbsent ==
  ASSUME EAInv, AbsentLongEnough, PollRead
  PROVE  AbsentLongEnough'
<1>1. /\ UNCHANGED <<tracker, queued>> /\ poll.at = "idle"
      /\ poll'.at = "apply" /\ poll'.seen = load /\ poll'.emit = poll.emit
  BY DEF PollRead, poolVars, EAInv, EATypes
<1>2. ASSUME NEW t \in Table
      PROVE  /\ missed[t] \in 0..Fallback /\ Fallback \in Nat /\ tracker[t].strikes \in Nat
             /\ tracker[t].index => missed'[t] = missed[t]
             /\ ~tracker[t].index /\ t \notin load =>
                   missed'[t] = IF missed[t] < Fallback THEN missed[t] + 1 ELSE missed[t]
  <2>1. missed[t] \in 0..Fallback /\ Fallback \in Nat /\ tracker[t] \in Track
    BY LoadTypes DEF EAInv, EATypes
  <2>2. tracker[t].strikes \in 0..Fallback
    BY <2>1 DEF Track
  <2> QED BY <2>1, <2>2 DEF PollRead
<1>3. ASSUME NEW t \in Table, ~tracker[t].index, t \notin load
      PROVE  tracker[t].strikes + 1 <= missed'[t] \/ missed'[t] = Fallback
  <2>1. tracker[t].strikes <= missed[t]
    BY <1>1, <1>3 DEF AbsentLongEnough
  <2> QED BY <1>2, <1>3, <2>1
<1> QED BY <1>1, <1>2, <1>3 DEF AbsentLongEnough

LEMMA PollApplyKeepsAbsent ==
  ASSUME EAInv, AbsentLongEnough, PollApply
  PROVE  AbsentLongEnough'
<1>1. /\ UNCHANGED <<missed, queued>> /\ poll.at = "apply"
      /\ poll'.at = "put"
      /\ poll'.emit = {s \in Table : Polled(s).index /\ ~tracker[s].index}
      /\ \A s \in Table : tracker'[s] = Polled(s)
  BY DEF PollApply, poolVars, EAInv, EATypes
<1> SUFFICES ASSUME NEW t \in Table
             PROVE  /\ t \in poll'.emit \cup queued => Polled(t).index /\ Strikes <= missed[t]
                    /\ ~Polled(t).index => Polled(t).strikes <= missed[t]
  BY <1>1 DEF AbsentLongEnough
<1>2. EATypes
  BY DEF EAInv
<1>3. /\ missed[t] \in 0..Fallback /\ tracker[t].strikes \in Nat /\ Polled(t).strikes \in 0..Fallback
      /\ Strikes \in Nat /\ Fallback \in Nat /\ Strikes <= Fallback
  <2>1. tracker[t] \in Track /\ Polled(t) \in Track
    BY <1>2, PolledType DEF EATypes
  <2>2. tracker[t].strikes \in 0..Fallback /\ Polled(t).strikes \in 0..Fallback
    BY <2>1 DEF Track
  <2> QED BY <1>2, <2>2, LoadTypes DEF EATypes
<1>4. t \in queued => Polled(t).index /\ Strikes <= missed[t]
  BY <1>2, PolledFacts DEF AbsentLongEnough
<1>5. ASSUME ~tracker[t].index
      PROVE  /\ Polled(t).index => Strikes <= missed[t]
             /\ Polled(t).strikes <= missed[t]
  <2>1. CASE t \in poll.seen
    BY <1>2, <1>3, <1>5, <2>1, PolledFacts
  <2>2. CASE t \notin poll.seen
    <3>1. tracker[t].strikes + 1 <= missed[t] \/ missed[t] = Fallback
      BY <1>1, <1>5, <2>2 DEF AbsentLongEnough
    <3>2. /\ Polled(t).strikes <= tracker[t].strikes + 1
          /\ Polled(t).index => Strikes <= tracker[t].strikes + 1 \/ Fallback <= tracker[t].strikes + 1
      BY <1>2, <1>5, <2>2, PolledFacts
    <3> QED BY <1>3, <3>1, <3>2
  <2> QED BY <2>1, <2>2
<1>6. tracker[t].index => Polled(t).index
  BY <1>2, PolledFacts
<1> QED BY <1>1, <1>4, <1>5, <1>6

LEMMA MonitorKeepsAbsent ==
  ASSUME EAInv, AbsentLongEnough, MonitorStep
  PROVE  AbsentLongEnough'
<1>1. poll \in PollType
  BY DEF EAInv, EATypes, PollType
<1>2. ASSUME NEW t \in Table, EmitPut(t) PROVE AbsentLongEnough'
  <2>1. /\ UNCHANGED <<tracker, missed>> /\ queued' \subseteq queued \cup {t}
        /\ t \in poll.emit /\ poll.at = "put"
        /\ \/ poll' = [poll EXCEPT !.emit = @ \ {t}]
           \/ poll' = [poll EXCEPT !.emit = @ \ {t}, !.at = "count"]
    BY <1>2 DEF EmitPut
  <2>2. /\ poll'.at \in {"put", "count"} /\ poll'.seen = poll.seen /\ poll'.emit \subseteq poll.emit
    BY <1>1, <2>1 DEF PollType
  <2> QED BY <2>1, <2>2 DEF AbsentLongEnough
<1>3. CASE EmitCount
  <2>1. /\ poll.at = "count" /\ poll'.at = "put" /\ poll'.seen = poll.seen /\ poll'.emit = poll.emit
        /\ UNCHANGED <<missed, tracker, queued>>
    BY <1>1, <1>3 DEF EmitCount, PollType
  <2> QED BY <2>1 DEF AbsentLongEnough
<1>4. CASE PollEnd
  <2>1. /\ poll.at = "put" /\ poll'.at = "idle" /\ poll'.emit = poll.emit
        /\ UNCHANGED <<missed, tracker, queued>>
    BY <1>1, <1>4 DEF PollEnd, PollType, poolVars
  <2> QED BY <2>1 DEF AbsentLongEnough
<1> QED BY <1>2, <1>3, <1>4, PollReadKeepsAbsent, PollApplyKeepsAbsent DEF MonitorStep

\* A thread has a table that was offered, whose indexes count as built.
LEMMA ThreadKeepsAbsent ==
  ASSUME EAInv, AbsentLongEnough, NEW w \in Thread, ThreadStep(w)
  PROVE  AbsentLongEnough'
<1>1. UNCHANGED <<missed, poll, queued>>
  BY DEF ThreadStep, MarkStep, Proceed, Get, Register, Analyze, Finish, MarkAnalyzing, MarkAnalyzed
<1>2. CASE MarkStep(w)
  <2> DEFINE t == thread[w].table
  <2>1. t \in Table /\ t \in queued
    <3>1. thread[w].at \in AtTable
      BY <1>2 DEF MarkStep, MarkAnalyzing, MarkAnalyzed, AtTable
    <3> QED BY <3>1, HeldTable DEF EAInv, Offered
  <2>2. tracker[t] \in Track /\ tracker \in [Table -> Track]
    BY <2>1 DEF EAInv, EATypes
  <2>3. \/ tracker' = [tracker EXCEPT ![t] = [tracker[t] EXCEPT !.index = TRUE, !.data = TRUE, !.complete = FALSE]]
        \/ tracker' = [tracker EXCEPT ![t] = [tracker[t] EXCEPT !.complete = TRUE]]
    BY <1>2, <2>1, <2>2 DEF MarkStep, MarkAnalyzing, MarkAnalyzed
  <2>4. tracker[t].index
    BY <2>1 DEF AbsentLongEnough
  <2> HIDE DEF t
  <2>5. tracker'[t].index /\ \A s \in Table \ {t} : tracker'[s] = tracker[s]
    BY <2>1, <2>2, <2>3, <2>4 DEF Track
  <2> QED BY <1>1, <2>5, TrackerAdvances
<1>3. CASE tracker' = tracker
  BY <1>1, <1>3, TrackerAdvances
<1> QED BY <1>2, <1>3 DEF ThreadStep, Proceed, Get, Register, Analyze, Finish

LEMMA MainKeepsAbsent ==
  ASSUME EAInv, AbsentLongEnough, MainStep
  PROVE  AbsentLongEnough'
<1>1. UNCHANGED <<missed, poll, queued>>
  BY DEF MainStep, LoadEnds, NotifyMyloaderComplete, WaitCheck, WaitForCompletion, StopMonitor,
         SetStopping, PutSentinels, Join, poolVars
<1>2. CASE LoadEnds
  <2>1. ASSUME NEW t \in Table
        PROVE  /\ tracker[t].index => tracker'[t].index
               /\ ~tracker'[t].index => tracker'[t].strikes = tracker[t].strikes
    <3>1. tracker[t] \in Track /\ tracker'[t] = Finalized(tracker[t])
      BY <1>2 DEF LoadEnds, EAInv, EATypes
    <3> QED BY <3>1 DEF Finalized, Track
  <2> QED BY <1>1, <2>1, TrackerAdvances
<1>3. CASE tracker' = tracker
  BY <1>1, <1>3, TrackerAdvances
<1> QED BY <1>2, <1>3 DEF MainStep, NotifyMyloaderComplete, WaitCheck, WaitForCompletion, StopMonitor,
                          SetStopping, PutSentinels, Join

LEMMA AbsentStep ==
  ASSUME EAInv, AbsentLongEnough, [LoadNext]_loadVars
  PROVE  AbsentLongEnough'
<1>1. CASE UNCHANGED loadVars
  BY <1>1, TrackerAdvances DEF loadVars
<1> QED BY <1>1, MyloaderKeepsAbsent, MonitorKeepsAbsent, ThreadKeepsAbsent, MainKeepsAbsent DEF LoadNext

-----------------------------------------------------------------------------
(* Theorems *)

\* The strengthened invariant holds in every state.
THEOREM EAInvHolds == LoadSpec => []EAInv
<1>1. LoadInit => EAInv
  BY InitEA
<1>2. EAInv /\ [LoadNext]_loadVars => EAInv'
  BY EAStep
<1> QED BY <1>1, <1>2, PTL DEF LoadSpec

\* The variables keep their types, the budget of EarlyAnalyzeWorker counts the
\* threads at a table, and no two threads have the same table.
THEOREM LoadTypeCorrect == LoadSpec => []EATypeOK
<1>1. EAInv => EATypeOK
  BY DEF EAInv, Hands, ActiveCounts, EATypeOK
<1> QED BY <1>1, EAInvHolds, PTL

\* No table is lost by the counters of EarlyAnalyzeStats, from which the restore
\* decides that nothing is left.
THEOREM TablesAreBalanced == LoadSpec => []TablesBalance
<1>1. EAInv => TablesBalance
  BY DEF EAInv
<1> QED BY <1>1, EAInvHolds, PTL

\* A table is offered for analysis only after Strikes polls in a row have missed
\* it, whatever order the polls, the output and the statements come in.
THEOREM OffersWhatIsAbsent == LoadSpec => []OfferedWhenAbsent
<1>1. LoadInit => AbsentLongEnough
  BY InitAbsent
<1>2. EAInv /\ AbsentLongEnough /\ [LoadNext]_loadVars => AbsentLongEnough'
  BY AbsentStep
<1>3. EAInv /\ AbsentLongEnough => OfferedWhenAbsent
  <2> SUFFICES ASSUME EAInv, AbsentLongEnough, NEW t \in queued PROVE missed[t] >= Strikes
    BY DEF OfferedWhenAbsent
  <2>1. t \in Table /\ missed[t] \in 0..Fallback /\ Strikes \in Nat
    <3>1. t \in Table
      BY DEF EAInv, EATypes
    <3> QED BY <3>1, LoadTypes DEF EAInv, EATypes
  <2> QED BY <2>1 DEF AbsentLongEnough
<1> QED BY <1>1, <1>2, <1>3, EAInvHolds, PTL DEF LoadSpec
=============================================================================
