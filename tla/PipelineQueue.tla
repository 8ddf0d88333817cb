--------------------------- MODULE PipelineQueue ---------------------------
(***************************************************************************)
(* The in-process background queue of device-api                           *)
(* (cloud/apps/device-api/src/jobs/pipeline-queue.service.ts).             *)
(*                                                                         *)
(* JavaScript runs one callback at a time, so each callback (a call of     *)
(* enqueue, a settled task's finally, the start of onModuleDestroy, ...)   *)
(* is one action; the interleaving of callbacks is what TLC explores.      *)
(* A task is one call of enqueue: its fn and its labels are not told apart.*)
(***************************************************************************)
EXTENDS Naturals, Sequences, FiniteSets

CONSTANTS
    Tasks,          \* the calls of enqueue that may happen
    MaxConcurrency  \* maxConcurrency, PIPELINE_QUEUE_CONCURRENCY clamped to 1..16

ASSUME ConcurrencyAssumption == MaxConcurrency \in Nat \ {0}

VARIABLES
    pending,         \* this.pending: accepted, not started, oldest first
    running,         \* this.running
    activePromises,  \* this.activePromises, by task
    executing,       \* tasks whose fn() was called and has not settled
    finished,        \* tasks whose fn() settled (a rejection is caught)
    dropped,         \* tasks refused by enqueue after destruction
    destroyed,       \* this.destroyed
    awaited,         \* promises onModuleDestroy waits for in Promise.all
    phase            \* "up", "draining" (inside onModuleDestroy), "closed"

vars == <<pending, running, activePromises, executing, finished, dropped,
          destroyed, awaited, phase>>

Waiting == {pending[i] : i \in DOMAIN pending}
Accepted == Waiting \cup executing \cup finished

TypeOK ==
    /\ pending \in Seq(Tasks)
    /\ running \in 0..MaxConcurrency
    /\ activePromises \in SUBSET Tasks
    /\ executing \in SUBSET Tasks
    /\ finished \in SUBSET Tasks
    /\ dropped \in SUBSET Tasks
    /\ destroyed \in BOOLEAN
    /\ awaited \in SUBSET Tasks
    /\ phase \in {"up", "draining", "closed"}

Init ==
    /\ pending = <<>>
    /\ running = 0
    /\ activePromises = {}
    /\ executing = {}
    /\ finished = {}
    /\ dropped = {}
    /\ destroyed = FALSE
    /\ awaited = {}
    /\ phase = "up"

(***************************************************************************)
(* processNext: start the head of the queue q when a slot is free.  r and  *)
(* ex are running and executing as its caller left them.                   *)
(***************************************************************************)
BadCanStartSlots(q, r) == ~destroyed /\ r <= MaxConcurrency /\ q # <<>>
BadCanStartDestroyed(q, r) == r < MaxConcurrency /\ q # <<>>
CanStart(q, r) == ~destroyed /\ r < MaxConcurrency /\ q # <<>>

(* pending.shift(): the task taken, and what it leaves                     *)
BadItem(q) == q[Len(q)]
Item(q) == Head(q)
BadShifted(q) == q
Shifted(q) == Tail(q)

processNext(q, r, ex) ==
    IF CanStart(q, r)
    THEN /\ pending' = Shifted(q)
         /\ running' = r + 1
         /\ executing' = ex \cup {Item(q)}
         /\ activePromises' = activePromises \cup {Item(q)}
    ELSE /\ pending' = q
         /\ running' = r
         /\ executing' = ex
         /\ UNCHANGED activePromises

Drop(t) ==
    /\ destroyed
    /\ dropped' = dropped \cup {t}
    /\ UNCHANGED <<pending, running, activePromises, executing, finished,
                   destroyed, awaited, phase>>

Accept(t) ==
    /\ ~destroyed
    /\ processNext(Append(pending, t), running, executing)
    /\ UNCHANGED <<finished, dropped, destroyed, awaited, phase>>

enqueue(t) ==
    /\ t \notin Accepted \cup dropped
    /\ Drop(t) \/ Accept(t)

BadSettle(t) ==
    /\ t \in executing
    /\ finished' = finished \cup {t}
    /\ running' = running - 1
    /\ executing' = executing \ {t}
    /\ UNCHANGED <<pending, activePromises, dropped, destroyed, awaited, phase>>

(* fn() settled: .catch swallows a rejection, then .finally frees the slot *)
Settle(t) ==
    /\ t \in executing
    /\ finished' = finished \cup {t}
    /\ processNext(pending, running - 1, executing \ {t})
    /\ UNCHANGED <<dropped, destroyed, awaited, phase>>

(* the second .finally, a later microtask: forget the resolved promise     *)
Forget(t) ==
    /\ t \in activePromises \ executing
    /\ activePromises' = activePromises \ {t}
    /\ UNCHANGED <<pending, running, executing, finished, dropped, destroyed,
                   awaited, phase>>

(* What Promise.all is given                                               *)
BadAwaits == activePromises \cup Waiting
Awaits == activePromises

onModuleDestroy ==
    /\ phase = "up"
    /\ destroyed' = TRUE
    /\ IF Len(pending) + running = 0
       THEN awaited' = {} /\ phase' = "closed"
       ELSE awaited' = Awaits /\ phase' = "draining"
    /\ UNCHANGED <<pending, running, activePromises, executing, finished, dropped>>

(* Promise.all over the promises that were active when it began resolves   *)
Drained ==
    /\ phase = "draining"
    /\ awaited \subseteq finished
    /\ phase' = "closed"
    /\ UNCHANGED <<pending, running, activePromises, executing, finished,
                   dropped, destroyed, awaited>>

Next ==
    \/ \E t \in Tasks : enqueue(t)
    \/ \E t \in Tasks : Settle(t)
    \/ \E t \in Tasks : Forget(t)
    \/ onModuleDestroy
    \/ Drained

(***************************************************************************)
(* Fairness: a task settles (every vendor call in it has a timeout and its *)
(* rejection is caught), and the event loop runs ready callbacks.  Nothing *)
(* forces a client to enqueue or the process to shut down.                 *)
(***************************************************************************)
Fairness ==
    /\ \A t \in Tasks : WF_vars(Settle(t))
    /\ WF_vars(Drained)

Spec == Init /\ [][Next]_vars
FairSpec == Spec /\ Fairness

-----------------------------------------------------------------------------
(* The slot counter is exactly the number of tasks in flight and never     *)
(* exceeds the configured concurrency, whatever order tasks are enqueued,  *)
(* settle and are refused in.                                              *)
SlotsAccounted ==
    /\ running = Cardinality(executing)
    /\ running <= MaxConcurrency

(* Until shutdown no slot idles while a task waits: processNext is called  *)
(* by everything that adds a task or frees a slot.                         *)
WorkConserving == ~destroyed /\ pending # <<>> => running = MaxConcurrency

(* A task is at one place of its life: waiting once, or in flight, or      *)
(* settled, or refused.  None is started twice or lost by a callback.      *)
NoTaskTwice ==
    /\ Waiting \cap executing = {}
    /\ finished \cap (Waiting \cup executing) = {}
    /\ dropped \cap Accepted = {}
    /\ \A i, k \in DOMAIN pending : pending[i] = pending[k] => i = k

(* When onModuleDestroy has returned no task is still in flight: the       *)
(* promises it waited for cover every slot, and none was refilled.         *)
QuietWhenClosed == phase = "closed" => executing = {} /\ running = 0

(* Tasks start in the order they were accepted.                            *)
StartsInOrder ==
    [][\A t \in Waiting : t \in executing' => t = Head(pending)]_vars

(* The queue keeps the promise of a bounded task pool.                     *)
StatusOf(t) ==
    CASE t \in finished -> "finished"
      [] t \in executing -> "executing"
      [] t \in Waiting -> "waiting"
      [] t \in dropped -> "refused"
      [] OTHER -> "new"
Pool == INSTANCE TaskPool WITH Slots <- MaxConcurrency,
                               status <- [t \in Tasks |-> StatusOf(t)],
                               open <- ~destroyed
KeepsPoolPromise == Pool!Spec

(* Shutdown terminates: onModuleDestroy returns once it was called.        *)
ShutdownTerminates == phase = "draining" ~> phase = "closed"

(* An accepted task is eventually settled unless the process shuts down.   *)
AcceptedRuns ==
    \A t \in Tasks : t \in Accepted ~> (t \in finished \/ destroyed)

(* "Drain remaining tasks" (pipeline-queue.service.ts:86): once            *)
(* onModuleDestroy reports "drained", every accepted task has settled.     *)
DrainsRemaining == phase = "closed" => Waiting \cup executing = {}
=============================================================================
