------------------------- MODULE PipelineQueueProofs -------------------------
(***************************************************************************)
(* Proofs about PipelineQueue for every set of tasks and every             *)
(* concurrency: the slot accounting, work conservation, that no task is    *)
(* started twice, that shutdown leaves nothing in flight, and that the     *)
(* queue implements TaskPool.                                              *)
(***************************************************************************)
EXTENDS PipelineQueue, FiniteSetTheorems, TLAPS

Elems(q) == {q[i] : i \in DOMAIN q}
Unique(q) == \A i, k \in DOMAIN q : q[i] = q[k] => i = k

(***************************************************************************)
(* The inductive invariant.  The properties alone are not inductive: that  *)
(* shutdown waits for everything in flight needs executing \subseteq       *)
(* activePromises before it, and executing \subseteq awaited during it.    *)
(***************************************************************************)
InFlightTracked ==
    /\ executing \subseteq activePromises
    /\ destroyed <=> phase # "up"
    /\ phase = "draining" => executing \subseteq awaited

IInv ==
    /\ TypeOK
    /\ IsFiniteSet(executing)
    /\ SlotsAccounted
    /\ WorkConserving
    /\ NoTaskTwice
    /\ InFlightTracked
    /\ QuietWhenClosed

-----------------------------------------------------------------------------
(* What shift and push do to the elements of a queue without duplicates.   *)
LEMMA ShiftFacts ==
    ASSUME NEW q \in Seq(Tasks), q # <<>>, Unique(q)
    PROVE  /\ Head(q) \in Elems(q)
           /\ Head(q) \in Tasks
           /\ Tail(q) \in Seq(Tasks)
           /\ Unique(Tail(q))
           /\ Elems(Tail(q)) = Elems(q) \ {Head(q)}
<1>1. Len(q) \in Nat /\ Len(q) > 0 /\ DOMAIN q = 1..Len(q)
  OBVIOUS
<1>2. /\ Tail(q) \in Seq(Tasks)
      /\ Len(Tail(q)) = Len(q) - 1
      /\ DOMAIN Tail(q) = 1..(Len(q) - 1)
      /\ \A i \in 1..(Len(q) - 1) : Tail(q)[i] = q[i + 1]
  BY <1>1
<1>3. Head(q) = q[1] /\ Head(q) \in Tasks
  BY <1>1
<1>4. Head(q) \in Elems(q)
  BY <1>1, <1>3 DEF Elems
<1>5. Unique(Tail(q))
  <2> SUFFICES ASSUME NEW i \in 1..(Len(q) - 1), NEW k \in 1..(Len(q) - 1),
                      Tail(q)[i] = Tail(q)[k]
               PROVE  i = k
    BY <1>2 DEF Unique
  <2>1. q[i + 1] = q[k + 1] /\ i + 1 \in DOMAIN q /\ k + 1 \in DOMAIN q
    BY <1>1, <1>2
  <2>2. i + 1 = k + 1
    BY <2>1 DEF Unique
  <2> QED BY <2>2
<1>6. ASSUME NEW x \in Elems(Tail(q)) PROVE x \in Elems(q) \ {Head(q)}
  <2>1. PICK i \in 1..(Len(q) - 1) : x = Tail(q)[i]
    BY <1>2, <1>6 DEF Elems
  <2>2. x = q[i + 1] /\ i + 1 \in DOMAIN q /\ 1 \in DOMAIN q /\ i + 1 # 1
    BY <1>1, <1>2, <2>1
  <2>3. x # q[1]
    BY <2>2 DEF Unique
  <2> QED BY <1>3, <2>2, <2>3 DEF Elems
<1>7. ASSUME NEW x \in Elems(q) \ {Head(q)} PROVE x \in Elems(Tail(q))
  <2>1. PICK i \in 1..Len(q) : x = q[i]
    BY <1>1, <1>7 DEF Elems
  <2>2. i # 1
    BY <1>3, <1>7, <2>1
  <2>3. i - 1 \in 1..(Len(q) - 1) /\ Tail(q)[i - 1] = q[(i - 1) + 1]
    BY <1>1, <1>2, <2>1, <2>2
  <2>4. (i - 1) + 1 = i
    BY <1>1
  <2> QED BY <1>2, <2>1, <2>3, <2>4 DEF Elems
<1> QED BY <1>2, <1>3, <1>4, <1>5, <1>6, <1>7

LEMMA PushFacts ==
    ASSUME NEW q \in Seq(Tasks), Unique(q), NEW t \in Tasks, t \notin Elems(q)
    PROVE  /\ Append(q, t) \in Seq(Tasks)
           /\ Append(q, t) # <<>>
           /\ Unique(Append(q, t))
           /\ Elems(Append(q, t)) = Elems(q) \cup {t}
<1> DEFINE a == Append(q, t)
<1>1. Len(q) \in Nat /\ DOMAIN q = 1..Len(q)
  OBVIOUS
<1>2. /\ a \in Seq(Tasks)
      /\ DOMAIN a = 1..(Len(q) + 1)
      /\ \A i \in 1..Len(q) : a[i] = q[i]
      /\ a[Len(q) + 1] = t
      /\ a # <<>>
  BY <1>1
<1> HIDE DEF a
<1>3. Unique(a)
  BY <1>1, <1>2 DEF Unique, Elems
<1>4. Elems(a) = Elems(q) \cup {t}
  BY <1>1, <1>2 DEF Elems
<1> QED BY <1>2, <1>3, <1>4 DEF a

(***************************************************************************)
(* processNext, whatever its caller hands it: it keeps the slot counter    *)
(* exact, and leaves a task waiting only when every slot is taken.         *)
(***************************************************************************)
LEMMA ProcessNextFacts ==
    ASSUME NEW q \in Seq(Tasks), Unique(q),
           NEW r \in 0..MaxConcurrency,
           NEW ex \in SUBSET Tasks, IsFiniteSet(ex), r = Cardinality(ex),
           Elems(q) \cap ex = {},
           activePromises \in SUBSET Tasks, ex \subseteq activePromises,
           processNext(q, r, ex)
    PROVE  /\ pending' \in Seq(Tasks) /\ Unique(pending')
           /\ running' \in 0..MaxConcurrency
           /\ executing' \in SUBSET Tasks /\ IsFiniteSet(executing')
           /\ running' = Cardinality(executing')
           /\ activePromises' \in SUBSET Tasks
           /\ executing' \subseteq activePromises'
           /\ Elems(pending') \cap executing' = {}
           /\ Elems(pending') \cup executing' = Elems(q) \cup ex
           /\ ~destroyed /\ pending' # <<>> /\ (\/ Len(q) <= 1 \/ r = MaxConcurrency
                                                \/ r + 1 = MaxConcurrency)
                => running' = MaxConcurrency
           /\ ex \subseteq executing'
           /\ destroyed => executing' = ex
<1> USE ConcurrencyAssumption
<1>1. CASE CanStart(q, r)
  <2>1. /\ pending' = Tail(q) /\ running' = r + 1 /\ executing' = ex \cup {Head(q)}
        /\ activePromises' = activePromises \cup {Head(q)}
        /\ ~destroyed /\ r < MaxConcurrency /\ q # <<>>
    BY <1>1 DEF processNext, CanStart, Item, Shifted
  <2>2. /\ Head(q) \in Elems(q) /\ Head(q) \in Tasks
        /\ Tail(q) \in Seq(Tasks) /\ Unique(Tail(q))
        /\ Elems(Tail(q)) = Elems(q) \ {Head(q)}
    BY <2>1, ShiftFacts
  <2>3. IsFiniteSet(executing') /\ Cardinality(executing') = r + 1
    BY <2>1, <2>2, FS_AddElement
  <2>4. ~destroyed /\ pending' # <<>> /\ (\/ Len(q) <= 1 \/ r = MaxConcurrency
                                          \/ r + 1 = MaxConcurrency)
          => running' = MaxConcurrency
    <3>1. Len(q) <= 1 => Tail(q) = <<>>
      BY <2>1
    <3> QED BY <2>1, <3>1
  <2> QED BY <2>1, <2>2, <2>3, <2>4
<1>2. CASE ~CanStart(q, r)
  <2>1. pending' = q /\ running' = r /\ executing' = ex /\ activePromises' = activePromises
    BY <1>2 DEF processNext
  <2>2. ~destroyed /\ q # <<>> => r = MaxConcurrency
    BY <1>2 DEF CanStart
  <2> QED BY <2>1, <2>2
<1> QED BY <1>1, <1>2

-----------------------------------------------------------------------------
(* What the two callbacks that run processNext do to a state that          *)
(* satisfies the invariant.                                                *)
QueueOK ==
    /\ pending \in Seq(Tasks) /\ Unique(pending)
    /\ running \in 0..MaxConcurrency
    /\ executing \in SUBSET Tasks /\ IsFiniteSet(executing)
    /\ running = Cardinality(executing)
    /\ activePromises \in SUBSET Tasks
    /\ executing \subseteq activePromises
    /\ Elems(pending) \cap executing = {}
    /\ ~destroyed /\ pending # <<>> => running = MaxConcurrency

WhatAcceptDoes(t) ==
    /\ QueueOK'
    /\ ~destroyed
    /\ UNCHANGED <<finished, dropped, destroyed, awaited, phase>>
    /\ t \notin Elems(pending) \cup executing \cup finished \cup dropped
    /\ Elems(pending') \cup executing' = Elems(pending) \cup {t} \cup executing
    /\ executing \subseteq executing'

WhatSettleDoes(t) ==
    /\ QueueOK'
    /\ UNCHANGED <<dropped, destroyed, awaited, phase>>
    /\ t \in executing
    /\ finished' = finished \cup {t}
    /\ Elems(pending') \cup executing' = Elems(pending) \cup (executing \ {t})
    /\ executing \ {t} \subseteq executing'
    /\ destroyed => executing' = executing \ {t}

LEMMA AcceptFacts ==
    ASSUME IInv, NEW t \in Tasks, t \notin Accepted \cup dropped, Accept(t)
    PROVE  WhatAcceptDoes(t)
<1> DEFINE q == Append(pending, t)
<1>0. TypeOK /\ IsFiniteSet(executing) /\ SlotsAccounted /\ WorkConserving
      /\ NoTaskTwice /\ InFlightTracked
  BY DEF IInv
<1>1. Waiting = Elems(pending) /\ Unique(pending)
  BY <1>0 DEF Waiting, Elems, Unique, NoTaskTwice
<1>2. t \notin Elems(pending) /\ t \notin executing /\ t \notin finished /\ t \notin dropped
  BY <1>1 DEF Accepted
<1>3. q \in Seq(Tasks) /\ Unique(q) /\ Elems(q) = Elems(pending) \cup {t}
  BY <1>0, <1>1, <1>2, PushFacts DEF TypeOK
<1>4. Len(q) = Len(pending) + 1
  BY <1>0 DEF TypeOK
<1>5. running \in 0..MaxConcurrency /\ executing \in SUBSET Tasks /\ IsFiniteSet(executing)
      /\ running = Cardinality(executing) /\ activePromises \in SUBSET Tasks
      /\ executing \subseteq activePromises
  BY <1>0 DEF TypeOK, SlotsAccounted, InFlightTracked
<1>6. processNext(q, running, executing) /\ ~destroyed
      /\ UNCHANGED <<finished, dropped, destroyed, awaited, phase>>
  BY DEF Accept
<1> HIDE DEF q
<1>7. Elems(q) \cap executing = {}
  BY <1>0, <1>1, <1>2, <1>3 DEF NoTaskTwice
<1>8. /\ pending' \in Seq(Tasks) /\ Unique(pending')
      /\ running' \in 0..MaxConcurrency
      /\ executing' \in SUBSET Tasks /\ IsFiniteSet(executing')
      /\ running' = Cardinality(executing')
      /\ activePromises' \in SUBSET Tasks
      /\ executing' \subseteq activePromises'
      /\ Elems(pending') \cap executing' = {}
      /\ Elems(pending') \cup executing' = Elems(q) \cup executing
      /\ ~destroyed /\ pending' # <<>> /\ (\/ Len(q) <= 1 \/ running = MaxConcurrency
                                           \/ running + 1 = MaxConcurrency)
           => running' = MaxConcurrency
      /\ executing \subseteq executing'
  BY <1>3, <1>5, <1>6, <1>7, ProcessNextFacts
<1>9. Len(q) <= 1 \/ running = MaxConcurrency
  <2>1. CASE pending = <<>>
    BY <1>4, <2>1
  <2>2. CASE pending # <<>>
    BY <1>0, <1>6, <2>2 DEF WorkConserving
  <2> QED BY <2>1, <2>2
<1>10. QueueOK'
  BY <1>6, <1>8, <1>9 DEF QueueOK, Unique, Elems
<1> QED BY <1>2, <1>3, <1>6, <1>8, <1>10 DEF WhatAcceptDoes

LEMMA SettleFacts ==
    ASSUME IInv, NEW t \in Tasks, Settle(t)
    PROVE  WhatSettleDoes(t)
<1> USE ConcurrencyAssumption
<1> DEFINE ex == executing \ {t}
           r == running - 1
<1>0. TypeOK /\ IsFiniteSet(executing) /\ SlotsAccounted /\ WorkConserving
      /\ NoTaskTwice /\ InFlightTracked
  BY DEF IInv
<1>1. Waiting = Elems(pending) /\ Unique(pending)
  BY <1>0 DEF Waiting, Elems, Unique, NoTaskTwice
<1>2. t \in executing /\ finished' = finished \cup {t}
      /\ UNCHANGED <<dropped, destroyed, awaited, phase>>
      /\ processNext(pending, r, ex)
  BY DEF Settle
<1>3. running \in 0..MaxConcurrency /\ executing \in SUBSET Tasks /\ IsFiniteSet(executing)
      /\ running = Cardinality(executing) /\ activePromises \in SUBSET Tasks
      /\ executing \subseteq activePromises /\ pending \in Seq(Tasks)
  BY <1>0 DEF TypeOK, SlotsAccounted, InFlightTracked
<1>4. IsFiniteSet(ex) /\ Cardinality(ex) = r
  BY <1>2, <1>3, FS_RemoveElement
<1>5. Cardinality(ex) \in Nat
  BY <1>4, FS_CardinalityType
<1>6. r \in 0..MaxConcurrency /\ r + 1 = running
  BY <1>3, <1>4, <1>5
<1>7. ex \in SUBSET Tasks /\ ex \subseteq activePromises /\ Elems(pending) \cap ex = {}
  BY <1>0, <1>1, <1>3 DEF NoTaskTwice
<1> HIDE DEF ex, r
<1>8. /\ pending' \in Seq(Tasks) /\ Unique(pending')
      /\ running' \in 0..MaxConcurrency
      /\ executing' \in SUBSET Tasks /\ IsFiniteSet(executing')
      /\ running' = Cardinality(executing')
      /\ activePromises' \in SUBSET Tasks
      /\ executing' \subseteq activePromises'
      /\ Elems(pending') \cap executing' = {}
      /\ Elems(pending') \cup executing' = Elems(pending) \cup ex
      /\ ~destroyed /\ pending' # <<>> /\ (\/ Len(pending) <= 1 \/ r = MaxConcurrency
                                           \/ r + 1 = MaxConcurrency)
           => running' = MaxConcurrency
      /\ ex \subseteq executing'
      /\ destroyed => executing' = ex
  BY <1>1, <1>2, <1>3, <1>4, <1>6, <1>7, ProcessNextFacts
<1>9. ~destroyed => Len(pending) <= 1 \/ r + 1 = MaxConcurrency
  <2>1. CASE pending = <<>>
    BY <2>1
  <2>2. CASE pending # <<>>
    BY <1>0, <1>6, <2>2 DEF WorkConserving
  <2> QED BY <2>1, <2>2
<1>10. QueueOK'
  BY <1>2, <1>8, <1>9 DEF QueueOK, Unique, Elems
<1> QED BY <1>2, <1>8, <1>10 DEF WhatSettleDoes, ex

-----------------------------------------------------------------------------
LEMMA InitIInv == Init => IInv
<1> SUFFICES ASSUME Init PROVE IInv
  OBVIOUS
<1> USE ConcurrencyAssumption DEF Init
<1>1. TypeOK
  <2>1. <<>> \in Seq(Tasks) /\ 0 \in 0..MaxConcurrency
    OBVIOUS
  <2> QED BY <2>1 DEF TypeOK
<1>2. IsFiniteSet(executing) /\ Cardinality(executing) = 0
  BY FS_EmptySet
<1>3. SlotsAccounted
  BY <1>2 DEF SlotsAccounted
<1> QED BY <1>1, <1>2, <1>3
        DEF IInv, WorkConserving, NoTaskTwice, InFlightTracked, QuietWhenClosed,
            Waiting, Accepted

(***************************************************************************)
(* Every callback keeps the invariant.                                     *)
(***************************************************************************)
LEMMA NextIInv == IInv /\ [Next]_vars => IInv'
<1> SUFFICES ASSUME IInv, [Next]_vars PROVE IInv'
  OBVIOUS
<1> USE ConcurrencyAssumption
<1>0. /\ TypeOK /\ IsFiniteSet(executing) /\ SlotsAccounted /\ WorkConserving
      /\ NoTaskTwice /\ InFlightTracked /\ QuietWhenClosed
  BY DEF IInv
<1>q. Waiting = Elems(pending) /\ Unique(pending)
  BY <1>0 DEF Waiting, Elems, Unique, NoTaskTwice
<1>a. ASSUME Elems(pending') = Waiting', Unique(pending'), running' = Cardinality(executing'),
             TypeOK', IsFiniteSet(executing'), WorkConserving', InFlightTracked',
             QuietWhenClosed', Waiting' \cap executing' = {},
             finished' \cap (Waiting' \cup executing') = {},
             dropped' \cap (Waiting' \cup executing' \cup finished') = {}
      PROVE  IInv'
  BY <1>a DEF IInv, SlotsAccounted, NoTaskTwice, Accepted, Unique, TypeOK
<1>b. Elems(pending') = Waiting'
  BY DEF Waiting, Elems
<1>1. ASSUME NEW t \in Tasks, t \notin Accepted \cup dropped, Drop(t) PROVE IInv'
  <2>1. TypeOK' /\ IsFiniteSet(executing') /\ running' = Cardinality(executing')
        /\ Unique(pending')
    BY <1>0, <1>1, <1>q DEF Drop, TypeOK, SlotsAccounted
  <2>2. WorkConserving' /\ InFlightTracked' /\ QuietWhenClosed'
    BY <1>0, <1>1 DEF Drop, WorkConserving, InFlightTracked, QuietWhenClosed
  <2>3. Waiting' = Waiting /\ executing' = executing /\ finished' = finished
        /\ dropped' = dropped \cup {t} /\ t \notin Waiting \cup executing \cup finished
    BY <1>1 DEF Drop, Waiting, Accepted
  <2>4. Waiting \cap executing = {} /\ finished \cap (Waiting \cup executing) = {}
        /\ dropped \cap (Waiting \cup executing \cup finished) = {}
    BY <1>0 DEF NoTaskTwice, Accepted
  <2> QED BY <1>a, <1>b, <2>1, <2>2, <2>3, <2>4
<1>2. ASSUME NEW t \in Tasks, t \notin Accepted \cup dropped, Accept(t) PROVE IInv'
  <2>1. WhatAcceptDoes(t)
    BY <1>2, AcceptFacts
  <2>2. TypeOK' /\ WorkConserving'
    BY <1>0, <2>1 DEF WhatAcceptDoes, QueueOK, TypeOK, WorkConserving
  <2>3. InFlightTracked' /\ QuietWhenClosed'
    BY <1>0, <2>1 DEF WhatAcceptDoes, QueueOK, InFlightTracked, QuietWhenClosed
  <2>4. finished \cap (Elems(pending) \cup executing) = {}
        /\ dropped \cap (Elems(pending) \cup executing \cup finished) = {}
    BY <1>0, <1>q DEF NoTaskTwice, Accepted
  <2>5. finished' \cap (Elems(pending') \cup executing') = {}
        /\ dropped' \cap (Elems(pending') \cup executing' \cup finished') = {}
    BY <2>1, <2>4 DEF WhatAcceptDoes
  <2> QED BY <1>a, <1>b, <2>1, <2>2, <2>3, <2>5 DEF WhatAcceptDoes, QueueOK
<1>3. ASSUME NEW t \in Tasks, Settle(t) PROVE IInv'
  <2>1. WhatSettleDoes(t)
    BY <1>3, SettleFacts
  <2>2. TypeOK' /\ WorkConserving'
    BY <1>0, <2>1 DEF WhatSettleDoes, QueueOK, TypeOK, WorkConserving
  <2>3. InFlightTracked' /\ QuietWhenClosed'
    BY <1>0, <2>1 DEF WhatSettleDoes, QueueOK, InFlightTracked, QuietWhenClosed
  <2>4. finished \cap (Elems(pending) \cup executing) = {}
        /\ dropped \cap (Elems(pending) \cup executing \cup finished) = {}
        /\ Elems(pending) \cap executing = {}
    BY <1>0, <1>q DEF NoTaskTwice, Accepted
  <2>5. finished' \cap (Elems(pending') \cup executing') = {}
        /\ dropped' \cap (Elems(pending') \cup executing' \cup finished') = {}
    BY <2>1, <2>4 DEF WhatSettleDoes
  <2> QED BY <1>a, <1>b, <2>1, <2>2, <2>3, <2>5 DEF WhatSettleDoes, QueueOK
<1>4. ASSUME NEW t \in Tasks, Forget(t) PROVE IInv'
  <2>1. /\ t \notin executing /\ activePromises' = activePromises \ {t}
        /\ UNCHANGED <<pending, running, executing, finished, dropped, destroyed, awaited, phase>>
    BY <1>4 DEF Forget
  <2> QED BY <1>0, <2>1
          DEF IInv, TypeOK, SlotsAccounted, WorkConserving, NoTaskTwice, InFlightTracked,
              QuietWhenClosed, Waiting, Accepted
<1>5. ASSUME onModuleDestroy PROVE IInv'
  <2>1. /\ phase = "up" /\ destroyed'
        /\ UNCHANGED <<pending, running, activePromises, executing, finished, dropped>>
    BY <1>5 DEF onModuleDestroy
  <2>2. CASE Len(pending) + running = 0
    <3>1. awaited' = {} /\ phase' = "closed"
      BY <1>5, <2>2 DEF onModuleDestroy
    <3>2. running = 0
      <4>1. pending \in Seq(Tasks) /\ running \in Nat
        BY <1>0 DEF TypeOK
      <4>2. Len(pending) \in Nat
        BY <4>1
      <4> QED BY <2>2, <4>1, <4>2
    <3>3. executing = {}
      BY <1>0, <3>2, FS_EmptySet DEF SlotsAccounted
    <3> QED BY <1>0, <2>1, <3>1, <3>2, <3>3
            DEF IInv, TypeOK, SlotsAccounted, WorkConserving, NoTaskTwice, InFlightTracked,
                QuietWhenClosed, Waiting, Accepted
  <2>3. CASE Len(pending) + running # 0
    <3>1. awaited' = activePromises /\ phase' = "draining"
      BY <1>5, <2>3 DEF onModuleDestroy, Awaits
    <3> QED BY <1>0, <2>1, <3>1
            DEF IInv, TypeOK, SlotsAccounted, WorkConserving, NoTaskTwice, InFlightTracked,
                QuietWhenClosed, Waiting, Accepted
  <2> QED BY <2>2, <2>3
<1>6. ASSUME Drained PROVE IInv'
  <2>1. /\ phase = "draining" /\ awaited \subseteq finished /\ phase' = "closed"
        /\ UNCHANGED <<pending, running, activePromises, executing, finished, dropped,
                       destroyed, awaited>>
    BY <1>6 DEF Drained
  <2>2. executing = {}
    BY <1>0, <2>1 DEF InFlightTracked, NoTaskTwice
  <2>3. running = 0
    BY <1>0, <2>2, FS_EmptySet DEF SlotsAccounted
  <2> QED BY <1>0, <2>1, <2>2, <2>3
          DEF IInv, TypeOK, SlotsAccounted, WorkConserving, NoTaskTwice, InFlightTracked,
              QuietWhenClosed, Waiting, Accepted
<1>7. ASSUME UNCHANGED vars PROVE IInv'
  BY <1>0, <1>7
     DEF vars, IInv, TypeOK, SlotsAccounted, WorkConserving, NoTaskTwice, InFlightTracked,
         QuietWhenClosed, Waiting, Accepted
<1> QED BY <1>1, <1>2, <1>3, <1>4, <1>5, <1>6, <1>7 DEF Next, enqueue

LEMMA InvariantHolds == Spec => []IInv
BY InitIInv, NextIInv, PTL DEF Spec

-----------------------------------------------------------------------------
(* The state of the queue service always has its type.                     *)
THEOREM TypeCorrect == Spec => []TypeOK
BY InvariantHolds, PTL DEF IInv

(* The slot counter is exact and bounded, for every concurrency.           *)
THEOREM SlotAccounting == Spec => []SlotsAccounted
BY InvariantHolds, PTL DEF IInv

(* No slot idles while a task waits and the service is up.                 *)
THEOREM WorkConservation == Spec => []WorkConserving
BY InvariantHolds, PTL DEF IInv

(* No task is ever at two places, started twice or started after settling. *)
THEOREM StartedOnce == Spec => []NoTaskTwice
BY InvariantHolds, PTL DEF IInv

(* Shutdown returns only when nothing is in flight.                        *)
THEOREM QuietShutdown == Spec => []QuietWhenClosed
BY InvariantHolds, PTL DEF IInv

-----------------------------------------------------------------------------
(***************************************************************************)
(* The implementation proof: under the invariant a task is in at most one  *)
(* of the sets its status is computed from, so every callback is a step of *)
(* TaskPool.                                                               *)
(***************************************************************************)
Disjoint ==
    /\ Elems(pending) \cap executing = {}
    /\ finished \cap (Elems(pending) \cup executing) = {}
    /\ dropped \cap (Elems(pending) \cup executing \cup finished) = {}

LEMMA DisjointFacts ==
    ASSUME IInv
    PROVE  Disjoint /\ Waiting = Elems(pending)
<1>1. Waiting = Elems(pending)
  BY DEF Waiting, Elems
<1> QED BY <1>1 DEF Disjoint, IInv, NoTaskTwice, Accepted

(* The status of a task, read back from the sets.                          *)
StatusMap ==
    \A t \in Tasks :
      /\ StatusOf(t) \in Pool!Statuses
      /\ StatusOf(t) = "finished" <=> t \in finished
      /\ StatusOf(t) = "executing" <=> t \in executing
      /\ StatusOf(t) = "waiting" <=> t \in Elems(pending)
      /\ StatusOf(t) = "refused" <=> t \in dropped

LEMMA StatusFacts == IInv => StatusMap
<1> SUFFICES ASSUME IInv, NEW t \in Tasks
             PROVE  /\ StatusOf(t) \in Pool!Statuses
                    /\ StatusOf(t) = "finished" <=> t \in finished
                    /\ StatusOf(t) = "executing" <=> t \in executing
                    /\ StatusOf(t) = "waiting" <=> t \in Elems(pending)
                    /\ StatusOf(t) = "refused" <=> t \in dropped
  BY DEF StatusMap
<1>0. Disjoint /\ Waiting = Elems(pending)
  BY DisjointFacts
<1>1. CASE t \in finished
  <2>1. StatusOf(t) = "finished"
    BY <1>0, <1>1 DEF StatusOf, Disjoint
  <2> QED BY <1>0, <1>1, <2>1 DEF Disjoint, Pool!Statuses
<1>2. CASE t \notin finished /\ t \in executing
  <2>1. StatusOf(t) = "executing"
    BY <1>0, <1>2 DEF StatusOf, Disjoint
  <2> QED BY <1>0, <1>2, <2>1 DEF Disjoint, Pool!Statuses
<1>3. CASE t \notin finished \cup executing /\ t \in Waiting
  <2>1. StatusOf(t) = "waiting"
    BY <1>0, <1>3 DEF StatusOf, Disjoint
  <2> QED BY <1>0, <1>3, <2>1 DEF Disjoint, Pool!Statuses
<1>4. CASE t \notin finished \cup executing \cup Waiting /\ t \in dropped
  <2>1. StatusOf(t) = "refused"
    BY <1>0, <1>4 DEF StatusOf, Disjoint
  <2> QED BY <1>0, <1>4, <2>1 DEF Disjoint, Pool!Statuses
<1>5. CASE t \notin finished \cup executing \cup Waiting \cup dropped
  <2>1. StatusOf(t) = "new"
    BY <1>0, <1>5 DEF StatusOf, Disjoint
  <2> QED BY <1>0, <1>5, <2>1 DEF Disjoint, Pool!Statuses
<1> QED BY <1>1, <1>2, <1>3, <1>4, <1>5

LEMMA PoolInit == Init => Pool!Init
BY DEF Init, Pool!Init, StatusOf, Waiting

(* A step that moves each task along one of the pool's moves, or not at    *)
(* all, is a step of the pool.                                             *)
LEMMA PoolAdvance ==
    ASSUME IInv, IInv', destroyed' = destroyed,
           \A t \in Tasks : \/ StatusOf(t)' = StatusOf(t)
                            \/ <<StatusOf(t), StatusOf(t)'>> \in Pool!Moves
    PROVE  Pool!Advance
<1> DEFINE st == [t \in Tasks |-> StatusOf(t)]
<1>1. StatusMap'
  BY StatusFacts, PTL
<1>2. st' = [t \in Tasks |-> StatusOf(t)']
  OBVIOUS
<1>3. st' \in [Tasks -> Pool!Statuses]
  BY <1>1, <1>2 DEF StatusMap
<1>4. \A t \in Tasks : st'[t] = st[t] \/ <<st[t], st'[t]>> \in Pool!Moves
  BY <1>2
<1>5. {t \in Tasks : st'[t] = "executing"} = executing'
  BY <1>1, <1>2 DEF StatusMap, IInv, TypeOK
<1>6. Cardinality({t \in Tasks : st'[t] = "executing"}) <= MaxConcurrency
  BY <1>5 DEF IInv, SlotsAccounted
<1>7. Pool!Cardinality({t \in Tasks : st'[t] = "executing"}) <= MaxConcurrency
  BY <1>6 DEF Cardinality, Pool!Cardinality
<1> QED BY <1>3, <1>4, <1>7 DEF Pool!Advance

LEMMA PoolStep ==
    IInv /\ IInv' /\ [Next]_vars
      => [Pool!Next]_<<[t \in Tasks |-> StatusOf(t)], ~destroyed>>
<1> SUFFICES ASSUME IInv, IInv', [Next]_vars
             PROVE  [Pool!Next]_<<[t \in Tasks |-> StatusOf(t)], ~destroyed>>
  OBVIOUS
<1>0. StatusMap /\ StatusMap'
  BY StatusFacts, PTL
<1>1. ASSUME destroyed' = destroyed,
             \A t \in Tasks : \/ StatusOf(t)' = StatusOf(t)
                              \/ <<StatusOf(t), StatusOf(t)'>> \in Pool!Moves
      PROVE  Pool!Next
  BY <1>1, PoolAdvance DEF Pool!Next
<1>2. ASSUME UNCHANGED <<pending, executing, finished, dropped>>
      PROVE  \A t \in Tasks : StatusOf(t)' = StatusOf(t)
  BY <1>2 DEF StatusOf, Waiting
<1>3. ASSUME NEW t \in Tasks, Drop(t), t \notin Accepted \cup dropped PROVE Pool!Next
  <2>1. /\ UNCHANGED <<pending, executing, finished, destroyed>>
        /\ dropped' = dropped \cup {t} /\ destroyed
    BY <1>3 DEF Drop
  <2>2. t \notin Elems(pending) \cup executing \cup finished
    BY <1>3, DisjointFacts DEF Accepted
  <2>3. ASSUME NEW u \in Tasks
        PROVE  \/ StatusOf(u)' = StatusOf(u)
               \/ <<StatusOf(u), StatusOf(u)'>> \in Pool!Moves
    <3>1. CASE u = t
      <4>1. StatusOf(u) = "new"
        BY <1>0, <1>3, <2>2, <3>1 DEF StatusMap, Pool!Statuses
      <4>2. StatusOf(u)' = "refused"
        BY <1>0, <2>1, <3>1 DEF StatusMap
      <4> QED BY <2>1, <4>1, <4>2 DEF Pool!Moves
    <3>2. CASE u # t
      BY <2>1, <3>2 DEF StatusOf, Waiting
    <3> QED BY <3>1, <3>2
  <2> QED BY <1>1, <2>1, <2>3
<1>4. ASSUME NEW t \in Tasks, Accept(t), t \notin Accepted \cup dropped PROVE Pool!Next
  <2>1. WhatAcceptDoes(t)
    BY <1>4, AcceptFacts
  <2>2. ASSUME NEW u \in Tasks
        PROVE  \/ StatusOf(u)' = StatusOf(u)
               \/ <<StatusOf(u), StatusOf(u)'>> \in Pool!Moves
    <3>1. CASE u = t
      <4>1. StatusOf(u) = "new"
        BY <1>0, <2>1, <3>1 DEF StatusMap, Pool!Statuses, WhatAcceptDoes
      <4>2. StatusOf(u)' \in {"waiting", "executing"}
        BY <1>0, <2>1, <3>1 DEF StatusMap, WhatAcceptDoes
      <4> QED BY <2>1, <4>1, <4>2 DEF Pool!Moves, WhatAcceptDoes
    <3>2. CASE u # t /\ u \in Elems(pending)
      <4>1. StatusOf(u) = "waiting" /\ StatusOf(u)' \in {"waiting", "executing"}
        BY <1>0, <2>1, <3>2 DEF StatusMap, WhatAcceptDoes
      <4> QED BY <2>1, <4>1 DEF Pool!Moves, WhatAcceptDoes
    <3>3. CASE u # t /\ u \notin Elems(pending)
      <4>1. /\ StatusOf(u)' \in Pool!Statuses /\ StatusOf(u) \in Pool!Statuses
            /\ \A s \in {"executing", "finished", "refused"} :
                 StatusOf(u) = s <=> StatusOf(u)' = s
            /\ StatusOf(u) # "waiting"
        BY <1>0, <2>1, <3>3 DEF StatusMap, WhatAcceptDoes
      <4>2. StatusOf(u)' # "waiting"
        <5>1. u \in Elems(pending') => u \in executing
          BY <2>1, <3>3 DEF WhatAcceptDoes
        <5> QED BY <1>0, <2>1, <5>1 DEF StatusMap, WhatAcceptDoes, QueueOK
      <4> QED BY <4>1, <4>2 DEF Pool!Statuses
    <3> QED BY <3>1, <3>2, <3>3
  <2> QED BY <1>1, <2>1, <2>2 DEF WhatAcceptDoes
<1>5. ASSUME NEW t \in Tasks, Settle(t) PROVE Pool!Next
  <2>1. WhatSettleDoes(t)
    BY <1>5, SettleFacts
  <2>2. Elems(pending) \cap executing = {}
    BY DisjointFacts DEF Disjoint
  <2>3. ASSUME NEW u \in Tasks
        PROVE  \/ StatusOf(u)' = StatusOf(u)
               \/ <<StatusOf(u), StatusOf(u)'>> \in Pool!Moves
    <3>1. CASE u = t
      <4>1. StatusOf(u) = "executing" /\ StatusOf(u)' = "finished"
        BY <1>0, <2>1, <3>1 DEF StatusMap, WhatSettleDoes
      <4> QED BY <4>1 DEF Pool!Moves
    <3>2. CASE u # t /\ u \in Elems(pending)
      <4>1. StatusOf(u) = "waiting" /\ StatusOf(u)' \in {"waiting", "executing"}
        BY <1>0, <2>1, <3>2 DEF StatusMap, WhatSettleDoes
      <4>2. destroyed => StatusOf(u)' # "executing"
        BY <1>0, <2>1, <2>2, <3>2 DEF StatusMap, WhatSettleDoes
      <4> QED BY <2>1, <4>1, <4>2 DEF Pool!Moves, WhatSettleDoes
    <3>3. CASE u # t /\ u \notin Elems(pending)
      <4>1. /\ u \notin Elems(pending')
            /\ u \in executing <=> u \in executing'
            /\ u \in finished <=> u \in finished'
            /\ u \in dropped <=> u \in dropped'
        BY <2>1, <3>3 DEF WhatSettleDoes, QueueOK
      <4> QED BY <1>0, <3>3, <4>1 DEF StatusMap, Pool!Statuses
    <3> QED BY <3>1, <3>2, <3>3
  <2> QED BY <1>1, <2>1, <2>3 DEF WhatSettleDoes
<1>6. ASSUME NEW t \in Tasks, Forget(t) PROVE Pool!Next
  BY <1>1, <1>2, <1>6 DEF Forget
<1>7. CASE onModuleDestroy
  <2>1. ~destroyed /\ destroyed' /\ UNCHANGED <<pending, executing, finished, dropped>>
    BY <1>7 DEF onModuleDestroy, IInv, InFlightTracked
  <2>2. [t \in Tasks |-> StatusOf(t)]' = [t \in Tasks |-> StatusOf(t)]
    BY <1>2, <2>1
  <2> QED BY <2>1, <2>2 DEF Pool!Next, Pool!Shut
<1>8. CASE Drained
  BY <1>1, <1>2, <1>8 DEF Drained
<1>9. CASE UNCHANGED vars
  BY <1>1, <1>2, <1>9 DEF vars
<1> QED BY <1>3, <1>4, <1>5, <1>6, <1>7, <1>8, <1>9 DEF Next, enqueue

(* The queue implements the bounded task pool, for every set of tasks and  *)
(* every concurrency.                                                      *)
THEOREM ImplementsPool == Spec => KeepsPoolPromise
<1>1. Init => Pool!Init
  BY PoolInit
<1>2. IInv /\ IInv' /\ [Next]_vars
        => [Pool!Next]_<<[t \in Tasks |-> StatusOf(t)], ~destroyed>>
  BY PoolStep
<1> QED BY <1>1, <1>2, InvariantHolds, PTL DEF Spec, KeepsPoolPromise, Pool!Spec

-----------------------------------------------------------------------------
(* Tasks start in the order they were accepted.                            *)
THEOREM FirstComeFirstServed == Spec => StartsInOrder
<1>1. ASSUME IInv, [Next]_vars
      PROVE  [\A t \in Waiting : t \in executing' => t = Head(pending)]_vars
  <2>0. Waiting \cap executing = {}
    BY <1>1 DEF IInv, NoTaskTwice
  <2>1. ASSUME NEW q, NEW r, NEW ex, processNext(q, r, ex), NEW u \in executing', u \notin ex
        PROVE  u = Head(q)
    BY <2>1 DEF processNext, Item
  <2>2. ASSUME NEW t \in Tasks, NEW u \in Waiting, u \in executing', Accept(t)
        PROVE  u = Head(pending)
    <3>1. processNext(Append(pending, t), running, executing)
      BY <2>2 DEF Accept
    <3>2. u = Head(Append(pending, t))
      BY <2>0, <2>1, <2>2, <3>1
    <3>3. pending \in Seq(Tasks) /\ pending # <<>>
      BY <1>1, <2>2 DEF IInv, TypeOK, Waiting
    <3>4. Head(Append(pending, t)) = Head(pending)
      BY <3>3
    <3> QED BY <3>2, <3>4
  <2>3. ASSUME NEW t \in Tasks, NEW u \in Waiting, u \in executing', Settle(t)
        PROVE  u = Head(pending)
    BY <2>0, <2>1, <2>3 DEF Settle
  <2>4. ASSUME executing' = executing, NEW u \in Waiting, u \in executing'
        PROVE  FALSE
    BY <2>0, <2>4
  <2> QED BY <1>1, <2>2, <2>3, <2>4
          DEF Next, enqueue, Drop, Forget, onModuleDestroy, Drained, vars
<1> QED BY <1>1, InvariantHolds, PTL DEF Spec, StartsInOrder
=============================================================================
