------------------------- MODULE PrintManagerProofs -------------------------
(***************************************************************************)
(* Proofs about PrintManager for every set of jobs and of concurrent       *)
(* calls, every number of copies and of retries: nothing prints            *)
(* unconfirmed, auto-confirmation happens once and with a picture, every   *)
(* confirmation is accounted for, and the pages a job costs are bounded.   *)
(***************************************************************************)
EXTENDS PrintManager, FiniteSetTheorems, TLAPS

(***************************************************************************)
(* The inductive invariant.  A job nobody created has left no trace; a     *)
(* goroutine works on a job that exists; the notifier only gets to         *)
(* AutoConfirmPending after it stored the picture; a job that was          *)
(* auto-confirmed never waits for a confirmation again.                    *)
(***************************************************************************)
NoTraceOfUnknown ==
    \A j \in Jobs :
      ~Known(j) => tickets[j].ui = 0 /\ tickets[j].auto = 0 /\ ~job[j].auto

GoroutinesHaveJobs ==
    /\ \A p \in Writers : op[p].pc # "idle" => op[p].job \in Jobs /\ Known(op[p].job)
    /\ op[Notifier].pc # "idle" => job[op[Notifier].job].preview

NoSecondWait ==
    \A j \in Jobs : tickets[j].auto > 0 => job[j].status # "pending_confirm"

IInv ==
    /\ TypeOK
    /\ NoTraceOfUnknown
    /\ GoroutinesHaveJobs
    /\ NoSecondWait
    /\ NothingPrintsUnconfirmed
    /\ AutoConfirmedOnce

LEMMA Goroutines ==
    /\ Notifier \in Writers /\ Worker \in Writers /\ Notifier # Worker
    /\ None \notin Writers
    /\ \A c \in Calls : c \in Writers /\ c # Notifier /\ c # Worker
BY PrintAssumption DEF Writers, Notifier, Worker

LEMMA InitIInv == Init => IInv
<1> SUFFICES ASSUME Init PROVE IInv
  OBVIOUS
<1>1. queue = <<>> /\ queue \in Seq(Jobs) /\ DOMAIN queue = {}
  BY DEF Init
<1>2. 0 \in 0..MaxRetries /\ 0 \in 0..Copies
  BY PrintAssumption
<1>3. op = [p \in Writers |-> Idle] /\ job = [j \in Jobs |-> Unknown]
      /\ tickets = [j \in Jobs |-> [ui |-> 0, auto |-> 0]] /\ pages = [j \in Jobs |-> 0]
  BY DEF Init
<1>4. TypeOK
  BY <1>1, <1>2 DEF Init, TypeOK, Idle, Unknown, NoRun, Statuses, OnDisk
<1>5. NoTraceOfUnknown /\ NoSecondWait /\ AutoConfirmedOnce
  BY <1>3 DEF NoTraceOfUnknown, NoSecondWait, AutoConfirmedOnce, Unknown
<1>6. GoroutinesHaveJobs /\ Printing = None
  BY <1>3, Goroutines DEF GoroutinesHaveJobs, Idle, Printing
<1>7. NothingPrintsUnconfirmed
  BY <1>1, <1>3, <1>6, PrintAssumption DEF NothingPrintsUnconfirmed, InQueue
<1> QED BY <1>4, <1>5, <1>6, <1>7 DEF IInv

-----------------------------------------------------------------------------
(***************************************************************************)
(* What any step may do to one job, and to one goroutine.  The invariant   *)
(* but for its types follows from these two, so each action only has to    *)
(* show that it is such a step.                                            *)
(***************************************************************************)
Trace(j) == pages[j] > 0 \/ InQueue(j) \/ Printing = j

UiTicket(j) ==
    /\ Known(j)
    /\ job'[j].status = "queued"
    /\ tickets'[j] = [tickets[j] EXCEPT !.ui = @ + 1]

AutoTicket(j) ==
    /\ job[j].status = "pending_confirm"
    /\ job'[j].status = "queued"
    /\ job[j].auto
    /\ job[j].preview
    /\ tickets'[j] = [tickets[j] EXCEPT !.auto = @ + 1]

JobStep(j) ==
    /\ Known(j) => /\ Known(j)'
                   /\ job'[j].auto = job[j].auto
                   /\ job[j].preview => job'[j].preview
    /\ ~Known(j)' => job'[j].auto = job[j].auto
    /\ job'[j].status = "pending_confirm"
         => job[j].status \in {"pending_confirm", "unknown"}
    /\ tickets'[j] = tickets[j] \/ UiTicket(j) \/ AutoTicket(j)
    /\ Trace(j)' => Trace(j) \/ UiTicket(j) \/ AutoTicket(j)

GoStep(p) ==
    op'[p].pc # "idle" =>
      \/ op[p].pc # "idle" /\ op'[p].job = op[p].job
      \/ /\ op'[p].job \in Jobs
         /\ job'[op'[p].job].status # "unknown"
         /\ p = Notifier => job'[op'[p].job].preview

LEMMA StepsKeepInvariant ==
    ASSUME IInv, TypeOK', \A j \in Jobs : JobStep(j), \A p \in Writers : GoStep(p)
    PROVE  IInv'
<1>0. /\ TypeOK /\ NoTraceOfUnknown /\ GoroutinesHaveJobs /\ NoSecondWait
      /\ NothingPrintsUnconfirmed /\ AutoConfirmedOnce
  BY DEF IInv
<1>t. /\ tickets \in [Jobs -> [ui : Nat, auto : Nat]]
      /\ tickets' \in [Jobs -> [ui : Nat, auto : Nat]]
  BY <1>0 DEF TypeOK
<1>a. ASSUME NEW j \in Jobs, UiTicket(j)
      PROVE  /\ tickets'[j].ui = tickets[j].ui + 1 /\ tickets'[j].ui > 0
             /\ tickets'[j].auto = tickets[j].auto
  BY <1>t, <1>a DEF UiTicket
<1>b. ASSUME NEW j \in Jobs, AutoTicket(j)
      PROVE  /\ tickets'[j].ui = tickets[j].ui /\ Known(j) /\ tickets[j].auto = 0
             /\ tickets'[j].auto = 1
  <2>1. tickets[j].auto = 0
    BY <1>0, <1>t, <1>b DEF AutoTicket, NoSecondWait
  <2> QED BY <1>t, <1>b, <2>1 DEF AutoTicket, Known
<1>1. NoTraceOfUnknown'
  <2> SUFFICES ASSUME NEW j \in Jobs, ~Known(j)'
               PROVE  tickets'[j].ui = 0 /\ tickets'[j].auto = 0 /\ ~job'[j].auto
    BY DEF NoTraceOfUnknown
  <2>1. ~Known(j) /\ job'[j].auto = job[j].auto /\ ~UiTicket(j) /\ ~AutoTicket(j)
    BY DEF JobStep, UiTicket, AutoTicket, Known
  <2>2. tickets'[j] = tickets[j]
    BY <2>1 DEF JobStep
  <2> QED BY <1>0, <2>1, <2>2 DEF NoTraceOfUnknown
<1>2. NoSecondWait'
  <2> SUFFICES ASSUME NEW j \in Jobs, tickets'[j].auto > 0
               PROVE  job'[j].status # "pending_confirm"
    BY DEF NoSecondWait
  <2>1. CASE UiTicket(j) \/ AutoTicket(j)
    BY <2>1 DEF UiTicket, AutoTicket
  <2>2. CASE tickets'[j] = tickets[j]
    <3>1. job[j].status \notin {"pending_confirm", "unknown"}
      BY <1>0, <1>t, <2>2 DEF NoSecondWait, NoTraceOfUnknown, Known
    <3> QED BY <3>1 DEF JobStep
  <2> QED BY <2>1, <2>2 DEF JobStep
<1>3. AutoConfirmedOnce'
  <2> SUFFICES ASSUME NEW j \in Jobs
               PROVE  /\ tickets'[j].auto > 0 => job'[j].preview
                      /\ tickets'[j].auto <= 1
    BY DEF AutoConfirmedOnce
  <2>1. CASE AutoTicket(j)
    BY <1>b, <2>1 DEF AutoTicket, JobStep
  <2>2. CASE tickets'[j] = tickets[j] \/ UiTicket(j)
    <3>1. tickets'[j].auto = tickets[j].auto
      BY <1>a, <2>2
    <3>2. tickets[j].auto > 0 => Known(j)
      BY <1>0, <1>t DEF NoTraceOfUnknown
    <3> QED BY <1>0, <3>1, <3>2 DEF AutoConfirmedOnce, JobStep
  <2> QED BY <2>1, <2>2 DEF JobStep
<1>4. NothingPrintsUnconfirmed'
  <2> SUFFICES ASSUME NEW j \in Jobs, Trace(j)' PROVE Confirmed(j)'
    BY DEF NothingPrintsUnconfirmed, Trace
  <2>1. CASE UiTicket(j)
    BY <1>a, <2>1 DEF Confirmed
  <2>2. CASE AutoTicket(j)
    BY <1>b, <2>2 DEF AutoTicket, JobStep, Confirmed
  <2>3. CASE Trace(j) /\ tickets'[j] = tickets[j]
    <3>1. Confirmed(j)
      BY <1>0, <2>3 DEF NothingPrintsUnconfirmed, Trace
    <3>2. Known(j)
      BY <1>0, <1>t, <3>1 DEF Confirmed, NoTraceOfUnknown
    <3> QED BY <2>3, <3>1, <3>2 DEF Confirmed, JobStep
  <2> QED BY <2>1, <2>2, <2>3 DEF JobStep
<1>5. GoroutinesHaveJobs'
  <2>1. ASSUME NEW p \in Writers, op'[p].pc # "idle"
        PROVE  /\ op'[p].job \in Jobs /\ job'[op'[p].job].status # "unknown"
               /\ p = Notifier => job'[op'[p].job].preview
    <3>1. CASE op[p].pc # "idle" /\ op'[p].job = op[p].job
      <4>1. PICK k \in Jobs : k = op[p].job
        BY <1>0, <3>1 DEF GoroutinesHaveJobs
      <4>2. Known(k) /\ (p = Notifier => job[k].preview)
        BY <1>0, <3>1, <4>1 DEF GoroutinesHaveJobs
      <4> QED BY <3>1, <4>1, <4>2 DEF JobStep, Known
    <3> QED BY <2>1, <3>1 DEF GoStep
  <2> QED BY <2>1, Goroutines DEF GoroutinesHaveJobs, Known
<1> QED BY <1>1, <1>2, <1>3, <1>4, <1>5 DEF IInv

-----------------------------------------------------------------------------
(* The types, one state component at a time.                               *)
JobRecs == [status : Statuses, auto : BOOLEAN, preview : BOOLEAN]
Pcs == {"idle", "create", "read", "write", "auto", "begin", "print"}
OpRecs == [pc : Pcs, job : Jobs \cup {None}, status : Statuses, read : OnDisk]
TicketRecs == [ui : Nat, auto : Nat]

LEMMA JobUpdates ==
    ASSUME NEW f \in [Jobs -> JobRecs], NEW j \in Jobs
    PROVE  /\ \A s \in Statuses : [f EXCEPT ![j].status = s] \in [Jobs -> JobRecs]
           /\ [f EXCEPT ![j].preview = TRUE] \in [Jobs -> JobRecs]
<1>1. f[j] \in JobRecs
  OBVIOUS
<1>2. \A s \in Statuses : [f[j] EXCEPT !.status = s] \in JobRecs
  BY <1>1 DEF JobRecs
<1>3. [f[j] EXCEPT !.preview = TRUE] \in JobRecs
  BY <1>1 DEF JobRecs
<1> QED BY <1>2, <1>3

LEMMA TicketUpdates ==
    ASSUME NEW f \in [Jobs -> TicketRecs], NEW j \in Jobs
    PROVE  /\ [f EXCEPT ![j].ui = @ + 1] \in [Jobs -> TicketRecs]
           /\ [f EXCEPT ![j].auto = @ + 1] \in [Jobs -> TicketRecs]
<1>1. f[j] \in TicketRecs /\ f[j].ui + 1 \in Nat /\ f[j].auto + 1 \in Nat
  BY DEF TicketRecs
<1>2. [f[j] EXCEPT !.ui = @ + 1] \in TicketRecs /\ [f[j] EXCEPT !.auto = @ + 1] \in TicketRecs
  BY <1>1 DEF TicketRecs
<1> QED BY <1>2

LEMMA OpUpdates ==
    ASSUME NEW f \in [Writers -> OpRecs], NEW p \in Writers, NEW x \in Pcs
    PROVE  /\ [f EXCEPT ![p].pc = x] \in [Writers -> OpRecs]
           /\ \A j \in Jobs : [f EXCEPT ![p].pc = x, ![p].job = j] \in [Writers -> OpRecs]
           /\ \A r \in OnDisk : [f EXCEPT ![p].pc = x, ![p].read = r] \in [Writers -> OpRecs]
<1>1. f[p] \in OpRecs
  OBVIOUS
<1>2. [f[p] EXCEPT !.pc = x] \in OpRecs
  BY <1>1 DEF OpRecs
<1>3. ASSUME NEW j \in Jobs
      PROVE [f EXCEPT ![p].pc = x, ![p].job = j] \in [Writers -> OpRecs]
  <2>1. [[f[p] EXCEPT !.pc = x] EXCEPT !.job = j] \in OpRecs
    BY <1>2 DEF OpRecs
  <2>2. [f EXCEPT ![p].pc = x, ![p].job = j]
          = [f EXCEPT ![p] = [[f[p] EXCEPT !.pc = x] EXCEPT !.job = j]]
    OBVIOUS
  <2> QED BY <2>1, <2>2
<1>4. ASSUME NEW r \in OnDisk
      PROVE [f EXCEPT ![p].pc = x, ![p].read = r] \in [Writers -> OpRecs]
  <2>1. [[f[p] EXCEPT !.pc = x] EXCEPT !.read = r] \in OpRecs
    BY <1>2 DEF OpRecs
  <2>2. [f EXCEPT ![p].pc = x, ![p].read = r]
          = [f EXCEPT ![p] = [[f[p] EXCEPT !.pc = x] EXCEPT !.read = r]]
    OBVIOUS
  <2> QED BY <2>1, <2>2
<1> QED BY <1>2, <1>3, <1>4
LEMMA TypeNext == TypeOK /\ GoroutinesHaveJobs /\ [Next]_vars => TypeOK'
<1> SUFFICES ASSUME TypeOK, GoroutinesHaveJobs, [Next]_vars PROVE TypeOK'
  OBVIOUS
<1> USE Goroutines
<1>t. /\ job \in [Jobs -> JobRecs]
      /\ queue \in Seq(Jobs)
      /\ mu \in Writers \cup {None}
      /\ op \in [Writers -> OpRecs]
      /\ file \in [Jobs -> OnDisk]
      /\ run \in [attempt : 0..MaxRetries, copy : 0..Copies]
      /\ pages \in [Jobs -> Nat]
      /\ tickets \in [Jobs -> TicketRecs]
      /\ done \in [Jobs -> Nat]
  BY DEF TypeOK, JobRecs, OpRecs, Pcs, TicketRecs
<1>T. ASSUME /\ job' \in [Jobs -> JobRecs]
             /\ queue' \in Seq(Jobs)
             /\ mu' \in Writers \cup {None}
             /\ op' \in [Writers -> OpRecs]
             /\ file' \in [Jobs -> OnDisk]
             /\ run' \in [attempt : 0..MaxRetries, copy : 0..Copies]
             /\ pages' \in [Jobs -> Nat]
             /\ tickets' \in [Jobs -> TicketRecs]
             /\ done' \in [Jobs -> Nat]
      PROVE  TypeOK'
  BY <1>T DEF TypeOK, JobRecs, OpRecs, Pcs, TicketRecs
<1>p. \A p \in Writers : op[p].pc # "idle" => op[p].job \in Jobs
  BY DEF GoroutinesHaveJobs
<1>i. Idle \in OpRecs
  BY DEF Idle, Statuses, OnDisk, OpRecs, Pcs
<1>1. ASSUME NEW c \in Calls, NEW j \in Jobs, NEW auto \in BOOLEAN, NEW preview \in BOOLEAN,
             CreateJob(c, j, auto, preview)
      PROVE  TypeOK'
  <2>1. job' \in [Jobs -> JobRecs]
    BY <1>t, <1>1 DEF CreateJob, JobRecs, Statuses
  <2>2. op' \in [Writers -> OpRecs]
    BY <1>t, <1>1, OpUpdates DEF CreateJob, Pcs
  <2> QED BY <1>t, <1>1, <2>1, <2>2, <1>T DEF CreateJob
<1>2. ASSUME NEW c \in Calls, SaveCreated(c) PROVE TypeOK'
  <2>1. op' \in [Writers -> OpRecs]
    BY <1>t, <1>i, <1>2 DEF SaveCreated
  <2>2. file' \in [Jobs -> OnDisk]
    BY <1>t, <1>2 DEF SaveCreated, OnDisk
  <2> QED BY <1>t, <1>2, <2>1, <2>2, <1>T DEF SaveCreated
<1>3. ASSUME NEW c \in Calls, NEW j \in Jobs, ConfirmPrint(c, j) PROVE TypeOK'
  <2>1. job' \in [Jobs -> JobRecs]
    BY <1>t, <1>3, JobUpdates DEF ConfirmPrint, Statuses
  <2>2. tickets' \in [Jobs -> TicketRecs]
    BY <1>t, <1>3, TicketUpdates DEF ConfirmPrint
  <2>3. queue' \in Seq(Jobs)
    BY <1>t, <1>3 DEF ConfirmPrint
  <2> QED BY <1>t, <1>3, <2>1, <2>2, <2>3, <1>T DEF ConfirmPrint
<1>4. ASSUME NEW c \in Calls, NEW j \in Jobs, CancelJob(c, j) PROVE TypeOK'
  <2>1. job' \in [Jobs -> JobRecs]
    BY <1>t, <1>4, JobUpdates DEF CancelJob, SetStatus, Statuses
  <2>2. op' \in [Writers -> OpRecs]
    BY <1>t, <1>4 DEF CancelJob, Persist, Statuses, OnDisk, OpRecs, Pcs
  <2> QED BY <1>t, <1>4, <2>1, <2>2, <1>T DEF CancelJob
<1>5. ASSUME NEW p \in Writers, ReadFile(p) PROVE TypeOK'
  <2>1. op' \in [Writers -> OpRecs]
    <3>1. op[p].job \in Jobs
      BY <1>p, <1>5 DEF ReadFile
    <3>2. file[op[p].job] \in OnDisk
      BY <1>t, <3>1
    <3> QED BY <1>t, <1>5, <3>2, OpUpdates DEF ReadFile, Pcs
  <2> QED BY <1>t, <1>5, <2>1, <1>T DEF ReadFile
<1>6. ASSUME NEW p \in Writers, WriteFile(p) PROVE TypeOK'
  <2>0. op[p].job \in Jobs
    BY <1>p, <1>6 DEF WriteFile
  <2>1. AfterWrite(p) \in OpRecs
    BY <1>t, <1>i DEF AfterWrite, OnDisk, OpRecs, Pcs
  <2>2. op' \in [Writers -> OpRecs]
    BY <1>t, <1>6, <2>1 DEF WriteFile
  <2>3. file' \in [Jobs -> OnDisk]
    <3>1. op[p].read \in OnDisk /\ "preview" \in OnDisk
      BY <1>t DEF OpRecs, OnDisk
    <3> QED BY <1>t, <1>6, <2>0, <3>1 DEF WriteFile
  <2>4. done' \in [Jobs -> Nat]
    BY <1>t, <1>6, <2>0 DEF WriteFile
  <2>5. mu' \in Writers \cup {None}
    BY <1>t, <1>6 DEF WriteFile, Released
  <2> QED BY <1>t, <1>6, <2>2, <2>3, <2>4, <2>5, <1>T DEF WriteFile
<1>7. ASSUME NEW j \in Jobs, UpdatePreviewURL(j) PROVE TypeOK'
  <2>1. job' \in [Jobs -> JobRecs]
    BY <1>t, <1>7, JobUpdates DEF UpdatePreviewURL
  <2>2. op' \in [Writers -> OpRecs]
    BY <1>t, <1>7 DEF UpdatePreviewURL, Statuses, OnDisk, OpRecs, Pcs
  <2> QED BY <1>t, <1>7, <2>1, <2>2, <1>T DEF UpdatePreviewURL
<1>8. ASSUME AutoConfirmPending PROVE TypeOK'
  <2>0. op' \in [Writers -> OpRecs] /\ op[Notifier].job \in Jobs
    BY <1>t, <1>i, <1>p, <1>8 DEF AutoConfirmPending
  <2>1. CASE AutoConfirms(op[Notifier].job)
    <3>0. /\ job' = [job EXCEPT ![op[Notifier].job].status = "queued"]
          /\ queue' = Append(queue, op[Notifier].job)
          /\ tickets' = [tickets EXCEPT ![op[Notifier].job].auto = @ + 1]
      BY <1>8, <2>1 DEF AutoConfirmPending
    <3>1. job' \in [Jobs -> JobRecs]
      BY <1>t, <2>0, <3>0, JobUpdates DEF Statuses
    <3>2. tickets' \in [Jobs -> TicketRecs]
      BY <1>t, <2>0, <3>0, TicketUpdates
    <3>3. queue' \in Seq(Jobs)
      BY <1>t, <2>0, <3>0
    <3> QED BY <1>t, <1>8, <2>0, <3>1, <3>2, <3>3, <1>T DEF AutoConfirmPending
  <2>2. CASE ~AutoConfirms(op[Notifier].job)
    BY <1>t, <1>8, <2>0, <2>2, <1>T DEF AutoConfirmPending
  <2> QED BY <2>1, <2>2
<1>9. ASSUME TakeJob PROVE TypeOK'
  <2>1. queue' \in Seq(Jobs) /\ Head(queue) \in Jobs
    BY <1>t, <1>9 DEF TakeJob, Rest
  <2>2. op' \in [Writers -> OpRecs]
    BY <1>t, <1>9, <2>1, OpUpdates DEF TakeJob, Pcs
  <2>3. run' \in [attempt : 0..MaxRetries, copy : 0..Copies]
    BY <1>9, PrintAssumption DEF TakeJob, NoRun
  <2> QED BY <1>t, <1>9, <2>1, <2>2, <2>3, <1>T DEF TakeJob
<1>10. ASSUME NEW s \in Statuses, SetStatus(Printing, s), Persist(Worker, Printing, s),
              op[Worker].pc # "idle"
       PROVE  job' \in [Jobs -> JobRecs] /\ op' \in [Writers -> OpRecs]
  <2>1. Printing \in Jobs
    BY <1>p, <1>10 DEF Printing
  <2>2. job' \in [Jobs -> JobRecs]
    BY <1>t, <1>10, <2>1, JobUpdates DEF SetStatus
  <2>3. op' \in [Writers -> OpRecs]
    BY <1>t, <1>10, <2>1 DEF Persist, OnDisk, OpRecs, Pcs
  <2> QED BY <2>2, <2>3
<1>11. ASSUME BeginPrint PROVE TypeOK'
  <2>1. job' \in [Jobs -> JobRecs] /\ op' \in [Writers -> OpRecs]
    BY <1>10, <1>11 DEF BeginPrint, Statuses
  <2> QED BY <1>t, <1>11, <2>1, <1>T DEF BeginPrint
<1>12. ASSUME PrintCopy PROVE TypeOK'
  <2>1. run.copy \in 0..Copies /\ run.copy < Copies /\ Printing \in Jobs
    BY <1>t, <1>p, <1>12 DEF PrintCopy, Printing
  <2>2. run' \in [attempt : 0..MaxRetries, copy : 0..Copies]
    <3>1. run.copy + 1 \in 0..Copies
      BY <2>1, PrintAssumption
    <3> QED BY <1>t, <1>12, <3>1 DEF PrintCopy
  <2>3. pages' \in [Jobs -> Nat]
    <3>1. pages[Printing] + 1 \in Nat
      BY <1>t, <2>1
    <3> QED BY <1>t, <1>12, <2>1, <3>1 DEF PrintCopy
  <2> QED BY <1>t, <1>12, <2>2, <2>3, <1>T DEF PrintCopy
<1>13. ASSUME PrintFails PROVE TypeOK'
  <2>1. CASE LastAttempt(run.attempt)
    <3>1. job' \in [Jobs -> JobRecs] /\ op' \in [Writers -> OpRecs]
      BY <1>10, <1>13, <2>1 DEF PrintFails, Statuses
    <3> QED BY <1>t, <1>13, <2>1, <3>1, <1>T DEF PrintFails
  <2>2. CASE ~LastAttempt(run.attempt)
    <3>1. run' \in [attempt : 0..MaxRetries, copy : 0..Copies]
      BY <1>t, <1>13, <2>2, PrintAssumption DEF PrintFails, LastAttempt
    <3> QED BY <1>t, <1>13, <2>2, <3>1, <1>T DEF PrintFails
  <2> QED BY <2>1, <2>2
<1>14. ASSUME Complete PROVE TypeOK'
  <2>1. job' \in [Jobs -> JobRecs] /\ op' \in [Writers -> OpRecs]
    BY <1>10, <1>14 DEF Complete, Statuses
  <2> QED BY <1>t, <1>14, <2>1, <1>T DEF Complete
<1>15. ASSUME UNCHANGED vars PROVE TypeOK'
  BY <1>t, <1>15, <1>T DEF vars
<1> QED BY <1>1, <1>2, <1>3, <1>4, <1>5, <1>6, <1>7, <1>8, <1>9, <1>11, <1>12, <1>13,
           <1>14, <1>15, Goroutines DEF Next, CallStep, NotifierStep, WorkerStep

-----------------------------------------------------------------------------
(* Appending one job to the queue puts no other job in it.                 *)
LEMMA AppendTrace ==
    ASSUME queue \in Seq(Jobs), NEW k \in Jobs, queue' = Append(queue, k)
    PROVE  \A j \in Jobs : j # k => (InQueue(j)' <=> InQueue(j))
<1>1. Len(queue) \in Nat /\ DOMAIN queue = 1..Len(queue)
  OBVIOUS
<1>2. /\ DOMAIN queue' = 1..(Len(queue) + 1)
      /\ \A i \in 1..Len(queue) : queue'[i] = queue[i]
      /\ queue'[Len(queue) + 1] = k
  BY <1>1
<1> QED BY <1>1, <1>2 DEF InQueue

(* What becomes of the job when a status is set through updateStatus.      *)
LEMMA StatusStep ==
    ASSUME TypeOK, NEW p \in Writers, NEW k \in Jobs, Known(k),
           NEW s \in Statuses \ {"unknown", "pending_confirm"},
           SetStatus(k, s), Persist(p, k, s), p # Notifier,
           UNCHANGED <<queue, pages, tickets>>,
           p = Worker => Printing = k
    PROVE  (\A j \in Jobs : JobStep(j)) /\ (\A q \in Writers : GoStep(q))
<1>t. job \in [Jobs -> JobRecs] /\ op \in [Writers -> OpRecs]
  BY DEF TypeOK, JobRecs, OpRecs, Pcs
<1>1. /\ \A j \in Jobs : j # k => job'[j] = job[j]
      /\ job'[k].status = s /\ job'[k].auto = job[k].auto /\ job'[k].preview = job[k].preview
  BY <1>t DEF SetStatus, JobRecs
<1>2. /\ \A q \in Writers : q # p => op'[q] = op[q]
      /\ op'[p].job = k
  BY <1>t DEF Persist
<1>3. Printing' = Printing
  BY <1>2, Goroutines DEF Printing
<1>4. \A j \in Jobs : Trace(j)' = Trace(j)
  BY <1>3 DEF Trace, InQueue
<1>5. \A j \in Jobs : JobStep(j)
  BY <1>1, <1>4 DEF JobStep, Known
<1>6. \A q \in Writers : GoStep(q)
  BY <1>1, <1>2 DEF GoStep
<1> QED BY <1>5, <1>6

(* Every step of every goroutine is such a step.                           *)
LEMMA NextIInv == IInv /\ [Next]_vars => IInv'
<1> SUFFICES ASSUME IInv, [Next]_vars
             PROVE  (\A j \in Jobs : JobStep(j)) /\ (\A p \in Writers : GoStep(p))
  BY StepsKeepInvariant, TypeNext DEF IInv
<1> DEFINE Goal == (\A j \in Jobs : JobStep(j)) /\ (\A p \in Writers : GoStep(p))
<1> USE Goroutines
<1>0. TypeOK /\ NoTraceOfUnknown /\ GoroutinesHaveJobs
  BY DEF IInv
<1>t. /\ job \in [Jobs -> JobRecs] /\ op \in [Writers -> OpRecs]
      /\ tickets \in [Jobs -> TicketRecs] /\ queue \in Seq(Jobs) /\ pages \in [Jobs -> Nat]
  BY <1>0 DEF TypeOK, JobRecs, OpRecs, Pcs, TicketRecs
<1>p. \A p \in Writers : op[p].pc # "idle" => op[p].job \in Jobs /\ Known(op[p].job)
  BY <1>0 DEF GoroutinesHaveJobs
<1>n. op[Notifier].pc # "idle" => job[op[Notifier].job].preview
  BY <1>0 DEF GoroutinesHaveJobs
(* Steps that leave jobs, queue, tickets and pages alone *)
<1>a. ASSUME UNCHANGED <<job, queue, tickets, pages>>,
             Printing' = Printing,
             \A p \in Writers : op'[p].pc # "idle" => op[p].pc # "idle" /\ op'[p].job = op[p].job
      PROVE  Goal
  <2>1. \A j \in Jobs : Trace(j)' = Trace(j)
    BY <1>a DEF Trace, InQueue
  <2> QED BY <1>a, <2>1 DEF JobStep, GoStep, Known
<1>1. ASSUME NEW c \in Calls, NEW k \in Jobs, NEW auto \in BOOLEAN, NEW preview \in BOOLEAN,
             CreateJob(c, k, auto, preview)
      PROVE  Goal
  <2>1. /\ ~Known(k)
        /\ \A j \in Jobs : j # k => job'[j] = job[j]
        /\ job'[k].status = "pending_confirm"
        /\ UNCHANGED <<queue, tickets, pages>>
    BY <1>t, <1>1 DEF CreateJob
  <2>2. /\ \A q \in Writers : q # c => op'[q] = op[q]
        /\ op'[c].job = k
    BY <1>t, <1>1 DEF CreateJob
  <2>3. \A j \in Jobs : Trace(j)' = Trace(j)
    BY <2>1, <2>2 DEF Trace, InQueue, Printing
  <2>4. \A j \in Jobs : JobStep(j)
    BY <2>1, <2>3 DEF JobStep, Known
  <2>5. \A q \in Writers : GoStep(q)
    BY <2>1, <2>2 DEF GoStep
  <2> QED BY <2>4, <2>5
<1>2. ASSUME NEW c \in Calls, SaveCreated(c) PROVE Goal
  <2>1. op'[c] = Idle /\ \A q \in Writers : q # c => op'[q] = op[q]
    BY <1>t, <1>2 DEF SaveCreated
  <2> QED BY <1>2, <1>a, <2>1 DEF SaveCreated, Idle, Printing
<1>3. ASSUME NEW c \in Calls, NEW k \in Jobs, ConfirmPrint(c, k) PROVE Goal
  <2>1. /\ Known(k)
        /\ \A j \in Jobs : j # k => job'[j] = job[j] /\ tickets'[j] = tickets[j]
        /\ job'[k].status = "queued" /\ job'[k].auto = job[k].auto
        /\ job'[k].preview = job[k].preview
        /\ tickets'[k] = [tickets[k] EXCEPT !.ui = @ + 1]
        /\ queue' = Append(queue, k)
        /\ UNCHANGED <<op, pages>>
    BY <1>t, <1>3 DEF ConfirmPrint, JobRecs
  <2>2. UiTicket(k)
    BY <2>1 DEF UiTicket
  <2>3. \A j \in Jobs : j # k => (InQueue(j)' <=> InQueue(j))
    BY <1>t, <2>1, AppendTrace
  <2>4. \A j \in Jobs : j # k => (Trace(j)' <=> Trace(j))
    BY <2>1, <2>3 DEF Trace, Printing
  <2>5. \A j \in Jobs : JobStep(j)
    BY <2>1, <2>2, <2>4 DEF JobStep, Known
  <2>6. \A q \in Writers : GoStep(q)
    BY <2>1 DEF GoStep
  <2> QED BY <2>5, <2>6
<1>4. ASSUME NEW c \in Calls, NEW k \in Jobs, CancelJob(c, k) PROVE Goal
  BY <1>0, <1>4, StatusStep DEF CancelJob, Statuses
<1>5. ASSUME NEW p \in Writers, ReadFile(p) PROVE Goal
  <2>1. /\ op[p].pc # "idle" /\ op'[p].job = op[p].job
        /\ \A q \in Writers : q # p => op'[q] = op[q]
    BY <1>t, <1>5 DEF ReadFile, OpRecs
  <2> QED BY <1>5, <1>a, <2>1 DEF ReadFile, Printing
<1>6. ASSUME NEW p \in Writers, WriteFile(p) PROVE Goal
  <2>1. /\ op[p].pc # "idle" /\ op'[p] = AfterWrite(p)
        /\ \A q \in Writers : q # p => op'[q] = op[q]
        /\ UNCHANGED <<job, queue, tickets, pages>>
    BY <1>t, <1>6 DEF WriteFile
  <2>2. op'[p].pc # "idle" => op'[p].job = op[p].job
    BY <1>t, <2>1 DEF AfterWrite, Idle, OpRecs
  <2>3. GoStep(p) /\ \A q \in Writers : GoStep(q)
    BY <2>1, <2>2 DEF GoStep
  <2>4. op'[Worker].job = Printing \/ op'[Worker].job = None
    <3>1. CASE p = Worker
      <4>1. AfterWrite(Worker).job = op[Worker].job \/ AfterWrite(Worker).job = None
        BY <1>t DEF AfterWrite, Idle, OpRecs
      <4> QED BY <2>1, <3>1, <4>1 DEF Printing
    <3>2. CASE p # Worker
      BY <2>1, <3>2 DEF Printing
    <3> QED BY <3>1, <3>2
  <2>5. \A j \in Jobs : Trace(j)' => Trace(j)
    BY <2>1, <2>4, PrintAssumption DEF Trace, InQueue, Printing
  <2>6. \A j \in Jobs : JobStep(j)
    BY <2>1, <2>5 DEF JobStep, Known
  <2> QED BY <2>3, <2>6
<1>7. ASSUME NEW k \in Jobs, UpdatePreviewURL(k) PROVE Goal
  <2>1. /\ Known(k)
        /\ \A j \in Jobs : j # k => job'[j] = job[j]
        /\ job'[k].status = job[k].status /\ job'[k].auto = job[k].auto
        /\ job'[k].preview
        /\ UNCHANGED <<queue, tickets, pages>>
    BY <1>t, <1>7 DEF UpdatePreviewURL, JobRecs
  <2>2. op'[Notifier].job = k /\ \A q \in Writers : q # Notifier => op'[q] = op[q]
    BY <1>t, <1>7 DEF UpdatePreviewURL
  <2>3. \A j \in Jobs : Trace(j)' = Trace(j)
    BY <2>1, <2>2 DEF Trace, InQueue, Printing
  <2>4. \A j \in Jobs : JobStep(j)
    BY <2>1, <2>3 DEF JobStep, Known
  <2>5. \A q \in Writers : GoStep(q)
    BY <2>1, <2>2 DEF GoStep, Known
  <2> QED BY <2>4, <2>5
<1>8. ASSUME AutoConfirmPending PROVE Goal
  <2>0. PICK k \in Jobs : k = op[Notifier].job
    BY <1>p, <1>8 DEF AutoConfirmPending
  <2>1. op'[Notifier] = Idle /\ \A q \in Writers : q # Notifier => op'[q] = op[q]
    BY <1>t, <1>8 DEF AutoConfirmPending
  <2>2. \A q \in Writers : GoStep(q)
    BY <2>1 DEF GoStep, Idle
  <2>3. CASE AutoConfirms(k)
    <3>1. /\ job' = [job EXCEPT ![k].status = "queued"]
          /\ queue' = Append(queue, k)
          /\ tickets' = [tickets EXCEPT ![k].auto = @ + 1]
          /\ UNCHANGED pages
      BY <1>8, <2>0, <2>3 DEF AutoConfirmPending
    <3>2. /\ \A j \in Jobs : j # k => job'[j] = job[j] /\ tickets'[j] = tickets[j]
          /\ job'[k].status = "queued" /\ job'[k].auto = job[k].auto
          /\ job'[k].preview = job[k].preview
          /\ tickets'[k] = [tickets[k] EXCEPT !.auto = @ + 1]
      BY <1>t, <3>1 DEF JobRecs
    <3>3. AutoTicket(k)
      BY <1>n, <1>8, <2>0, <2>3, <3>2 DEF AutoTicket, AutoConfirms, AutoConfirmPending
    <3>4. \A j \in Jobs : j # k => (InQueue(j)' <=> InQueue(j))
      BY <1>t, <3>1, AppendTrace
    <3>5. \A j \in Jobs : j # k => (Trace(j)' <=> Trace(j))
      BY <2>1, <3>1, <3>4 DEF Trace, Printing
    <3>6. \A j \in Jobs : JobStep(j)
      BY <3>2, <3>3, <3>5 DEF JobStep, Known
    <3> QED BY <2>2, <3>6
  <2>4. CASE ~AutoConfirms(k)
    <3>1. UNCHANGED <<job, queue, tickets, pages>>
      BY <1>8, <2>0, <2>4 DEF AutoConfirmPending
    <3> QED BY <1>a, <2>1, <3>1 DEF Idle, Printing
  <2> QED BY <2>3, <2>4
<1>9. ASSUME TakeJob PROVE Goal
  <2>1. /\ Head(queue) \in Jobs /\ InQueue(Head(queue))
        /\ \A j \in Jobs : (InQueue(j)' => InQueue(j))
    <3>1. Len(queue) \in Nat /\ Len(queue) > 0 /\ DOMAIN queue = 1..Len(queue)
          /\ Head(queue) = queue[1]
      BY <1>t, <1>9 DEF TakeJob
    <3>2. \A i \in DOMAIN queue' : queue'[i] = queue[i + 1] /\ i + 1 \in DOMAIN queue
      BY <1>t, <1>9, <3>1 DEF TakeJob, Rest
    <3> QED BY <1>t, <3>1, <3>2 DEF InQueue
  <2>2. Known(Head(queue))
    <3>1. PICK k \in Jobs : k = Head(queue)
      BY <2>1
    <3>2. Confirmed(k)
      BY <2>1, <3>1 DEF IInv, NothingPrintsUnconfirmed
    <3> QED BY <1>0, <1>t, <3>1, <3>2 DEF Confirmed, NoTraceOfUnknown, TicketRecs
  <2>3. /\ op'[Worker].job = Head(queue)
        /\ \A q \in Writers : q # Worker => op'[q] = op[q]
        /\ UNCHANGED <<job, tickets, pages>>
    BY <1>t, <1>9 DEF TakeJob
  <2>4. \A j \in Jobs : Trace(j)' => Trace(j)
    BY <2>1, <2>3 DEF Trace, Printing
  <2>5. \A j \in Jobs : JobStep(j)
    BY <2>3, <2>4 DEF JobStep, Known
  <2>6. \A q \in Writers : GoStep(q)
    BY <2>1, <2>2, <2>3 DEF GoStep, Known
  <2> QED BY <2>5, <2>6
<1>w. op[Worker].pc # "idle" => Printing \in Jobs /\ Known(Printing)
  BY <1>p DEF Printing
<1>10. ASSUME BeginPrint PROVE Goal
  BY <1>0, <1>w, <1>10, StatusStep DEF BeginPrint, Statuses
<1>11. ASSUME PrintCopy PROVE Goal
  <2>1. /\ Printing \in Jobs
        /\ \A j \in Jobs : j # Printing => pages'[j] = pages[j]
        /\ UNCHANGED <<job, queue, tickets, op>>
    BY <1>t, <1>w, <1>11 DEF PrintCopy
  <2>2. \A j \in Jobs : Trace(j)' => Trace(j)
    BY <2>1 DEF Trace, InQueue, Printing
  <2> QED BY <2>1, <2>2 DEF JobStep, GoStep, Known
<1>12. ASSUME PrintFails PROVE Goal
  <2>1. CASE LastAttempt(run.attempt)
    BY <1>0, <1>w, <1>12, <2>1, StatusStep DEF PrintFails, Statuses
  <2>2. CASE ~LastAttempt(run.attempt)
    BY <1>a, <1>12, <2>2 DEF PrintFails, Printing
  <2> QED BY <2>1, <2>2
<1>13. ASSUME Complete PROVE Goal
  BY <1>0, <1>w, <1>13, StatusStep DEF Complete, Statuses
<1>14. ASSUME UNCHANGED vars PROVE Goal
  BY <1>a, <1>14 DEF vars, Printing
<1> QED BY <1>1, <1>2, <1>3, <1>4, <1>5, <1>6, <1>7, <1>8, <1>9, <1>10, <1>11, <1>12,
           <1>13, <1>14 DEF Next, CallStep, NotifierStep, WorkerStep

LEMMA InvariantHolds == Spec => []IInv
BY InitIInv, NextIInv, PTL DEF Spec

-----------------------------------------------------------------------------
(* The state of the print manager always has its type.                     *)
THEOREM TypeCorrect == Spec => []TypeOK
BY InvariantHolds, PTL DEF IInv

(* No job is queued, printing or printed unless the UI confirmed it or it  *)
(* was created for auto-confirmation and its picture had arrived.          *)
THEOREM NothingUnconfirmed == Spec => []NothingPrintsUnconfirmed
BY InvariantHolds, PTL DEF IInv

(* A job is auto-confirmed at most once, and with its picture.             *)
THEOREM AutoConfirmOnce == Spec => []AutoConfirmedOnce
BY InvariantHolds, PTL DEF IInv


-----------------------------------------------------------------------------
(***************************************************************************)
(* Every confirmation is in the queue, being printed or done: the proof    *)
(* counts how often a job is in the queue.                                 *)
(***************************************************************************)
Places(s, j) == {i \in DOMAIN s : s[i] = j}
Count(s, j) == Cardinality(Places(s, j))
One(b) == IF b THEN 1 ELSE 0

LEMMA PlacesFinite ==
    ASSUME NEW s \in Seq(Jobs), NEW j
    PROVE  IsFiniteSet(Places(s, j)) /\ Count(s, j) \in Nat
<1>1. DOMAIN s = 1..Len(s) /\ Len(s) \in Nat
  OBVIOUS
<1>2. IsFiniteSet(DOMAIN s)
  BY <1>1, FS_Interval
<1>3. Places(s, j) \subseteq DOMAIN s
  BY DEF Places
<1>4. IsFiniteSet(Places(s, j))
  BY <1>2, <1>3, FS_Subset
<1> QED BY <1>4, FS_CardinalityType DEF Count

(* One more job at the end counts once, for that job.                      *)
LEMMA CountAppend ==
    ASSUME NEW s \in Seq(Jobs), NEW k \in Jobs, NEW j \in Jobs
    PROVE  Count(Append(s, k), j) = Count(s, j) + One(j = k)
<1>1. /\ Len(s) \in Nat /\ DOMAIN s = 1..Len(s)
      /\ DOMAIN Append(s, k) = 1..(Len(s) + 1)
      /\ \A i \in 1..Len(s) : Append(s, k)[i] = s[i]
      /\ Append(s, k)[Len(s) + 1] = k
  OBVIOUS
<1>2. CASE j = k
  <2>1. Places(Append(s, k), j) = Places(s, j) \cup {Len(s) + 1}
    BY <1>1, <1>2 DEF Places
  <2>2. Len(s) + 1 \notin Places(s, j)
    BY <1>1 DEF Places
  <2> QED BY <1>2, <2>1, <2>2, PlacesFinite, FS_AddElement DEF Count, One
<1>3. CASE j # k
  <2>1. Places(Append(s, k), j) = Places(s, j)
    BY <1>1, <1>3 DEF Places
  <2> QED BY <1>3, <2>1, PlacesFinite DEF Count, One
<1> QED BY <1>2, <1>3

(* Taking the first job counts once, for that job: the places of the rest  *)
(* are the other places, moved down by one.                                *)
LEMMA CountTail ==
    ASSUME NEW s \in Seq(Jobs), s # <<>>, NEW j \in Jobs
    PROVE  Count(s, j) = Count(Tail(s), j) + One(j = Head(s))
<1>1. /\ Len(s) \in Nat /\ Len(s) > 0 /\ DOMAIN s = 1..Len(s)
      /\ Tail(s) \in Seq(Jobs) /\ DOMAIN Tail(s) = 1..(Len(s) - 1)
      /\ \A i \in 1..(Len(s) - 1) : Tail(s)[i] = s[i + 1]
      /\ Head(s) = s[1]
  OBVIOUS
<1> DEFINE A == Places(Tail(s), j)
           B == Places(s, j) \ {1}
           f == [i \in A |-> i + 1]
<1>2. ExistsBijection(A, B)
  <2>1. \A i \in A : f[i] \in B
    BY <1>1 DEF Places
  <2>2. \A b \in B : b - 1 \in A /\ f[b - 1] = b
    BY <1>1 DEF Places
  <2>3. \A i, k \in A : f[i] = f[k] => i = k
    BY <1>1 DEF Places
  <2>4. f \in [A -> B]
    BY <2>1
  <2>5. f \in Injection(A, B) /\ f \in Surjection(A, B)
    <3> HIDE DEF A, B, f
    <3> QED BY <2>2, <2>3, <2>4 DEF Injection, Surjection, IsInjective
  <2> QED BY <2>5 DEF Bijection, ExistsBijection
<1>3. Cardinality(A) = Cardinality(B) /\ IsFiniteSet(B)
  <2>1. IsFiniteSet(A)
    BY <1>1, PlacesFinite
  <2> QED BY <1>2, <2>1, FS_Bijection
<1>4. CASE j = Head(s)
  <2>1. 1 \in Places(s, j)
    BY <1>1, <1>4 DEF Places
  <2>2. Cardinality(B) = Count(s, j) - 1
    BY <2>1, PlacesFinite, FS_RemoveElement DEF Count
  <2>3. Count(s, j) \in Nat /\ Count(Tail(s), j) = Count(s, j) - 1
    BY <1>3, <2>2, PlacesFinite DEF Count
  <2> QED BY <1>4, <2>3 DEF One
<1>5. CASE j # Head(s)
  <2>1. B = Places(s, j)
    BY <1>1, <1>5 DEF Places
  <2>2. Count(s, j) \in Nat /\ Count(Tail(s), j) = Count(s, j)
    BY <1>3, <2>1, PlacesFinite DEF Count
  <2> QED BY <1>5, <2>2 DEF One
<1> QED BY <1>4, <1>5


(***************************************************************************)
(* What a step may do to the confirmations: one joins the queue, the       *)
(* worker takes the first, printJob returns, or nothing moves.             *)
(***************************************************************************)
WorkerIdle == op[Worker].pc = "idle" => Printing = None

Total(j) == tickets[j].ui + tickets[j].auto

Enqueues(k) ==
    /\ queue' = Append(queue, k)
    /\ \A j \in Jobs : Total(j)' = Total(j) + One(j = k)
    /\ UNCHANGED <<done, pages, run>>
    /\ Printing' = Printing

Takes ==
    /\ queue # <<>>
    /\ queue' = Tail(queue)
    /\ Printing = None
    /\ Printing' = Head(queue)
    /\ run' = NoRun
    /\ UNCHANGED <<done, tickets, pages>>

Returns ==
    /\ Printing \in Jobs
    /\ Printing' = None
    /\ done' = [done EXCEPT ![Printing] = @ + 1]
    /\ UNCHANGED <<queue, tickets, pages, run>>

Prints ==
    /\ Printing \in Jobs
    /\ run.copy < Copies
    /\ \/ /\ pages' = [pages EXCEPT ![Printing] = @ + 1]
          /\ run' = [run EXCEPT !.copy = @ + 1]
       \/ /\ pages' = pages
          /\ run' = [attempt |-> run.attempt + 1, copy |-> 0]
    /\ UNCHANGED <<queue, tickets, done>>
    /\ Printing' = Printing

Rests == UNCHANGED <<queue, tickets, done, pages, run>> /\ Printing' = Printing

Moves == (\E k \in Jobs : Enqueues(k)) \/ Takes \/ Returns \/ Prints \/ Rests

(* A step that sets a status from a goroutine moves no confirmation.       *)
LEMMA StatusRests ==
    ASSUME TypeOK, NEW p \in Writers, NEW k \in Jobs, NEW s, SetStatus(k, s), Persist(p, k, s),
           p = Worker => Printing = k,
           UNCHANGED <<queue, tickets, done, pages, run>>, WorkerIdle
    PROVE  Rests /\ WorkerIdle'
<1>1. op \in [Writers -> OpRecs]
  BY DEF TypeOK, OpRecs, Pcs
<1>2. /\ \A q \in Writers : q # p => op'[q] = op[q]
      /\ op'[p].job = k /\ op'[p].pc = "read"
  BY <1>1 DEF Persist
<1> QED BY <1>2, Goroutines DEF Rests, WorkerIdle, Printing

LEMMA NextMoves == IInv /\ WorkerIdle /\ [Next]_vars => Moves /\ WorkerIdle'
<1> SUFFICES ASSUME IInv, WorkerIdle, [Next]_vars PROVE Moves /\ WorkerIdle'
  OBVIOUS
<1> USE Goroutines
<1>0. TypeOK /\ GoroutinesHaveJobs
  BY DEF IInv
<1>t. /\ op \in [Writers -> OpRecs] /\ tickets \in [Jobs -> TicketRecs] /\ queue \in Seq(Jobs)
  BY <1>0 DEF TypeOK, OpRecs, Pcs, TicketRecs
<1>p. \A p \in Writers : op[p].pc # "idle" => op[p].job \in Jobs
  BY <1>0 DEF GoroutinesHaveJobs
<1>w. op[Worker].pc # "idle" => Printing \in Jobs
  BY <1>p DEF Printing
<1>1. ASSUME NEW p \in Writers \ {Worker}, \A q \in Writers \ {p} : op'[q] = op[q],
             UNCHANGED <<queue, tickets, done, pages, run>>
      PROVE  Rests /\ WorkerIdle'
  BY <1>1 DEF Rests, WorkerIdle, Printing
<1>2. ASSUME NEW c \in Calls, NEW k \in Jobs, NEW auto \in BOOLEAN, NEW preview \in BOOLEAN,
             CreateJob(c, k, auto, preview)
      PROVE  Rests /\ WorkerIdle'
  BY <1>t, <1>1, <1>2 DEF CreateJob
<1>3. ASSUME NEW c \in Calls, SaveCreated(c) PROVE Rests /\ WorkerIdle'
  BY <1>t, <1>1, <1>3 DEF SaveCreated
<1>4. ASSUME NEW c \in Calls, NEW k \in Jobs, ConfirmPrint(c, k)
      PROVE  Enqueues(k) /\ WorkerIdle'
  <2>1. \A j \in Jobs : Total(j)' = Total(j) + One(j = k)
    <3> SUFFICES ASSUME NEW j \in Jobs
                 PROVE  tickets'[j].ui + tickets'[j].auto
                          = tickets[j].ui + tickets[j].auto + One(j = k)
      BY DEF Total
    <3>1. /\ tickets[j] \in TicketRecs
          /\ tickets'[j].ui = tickets[j].ui + One(j = k)
          /\ tickets'[j].auto = tickets[j].auto
      BY <1>t, <1>4 DEF ConfirmPrint, TicketRecs, One
    <3> QED BY <3>1 DEF TicketRecs, One
  <2> QED BY <1>4, <2>1 DEF ConfirmPrint, Enqueues, WorkerIdle, Printing
<1>5. ASSUME NEW c \in Calls, NEW k \in Jobs, CancelJob(c, k) PROVE Rests /\ WorkerIdle'
  BY <1>0, <1>5, StatusRests DEF CancelJob
<1>6. ASSUME NEW p \in Writers, ReadFile(p) PROVE Rests /\ WorkerIdle'
  <2>1. \A q \in Writers : op'[q].job = op[q].job
    BY <1>t, <1>6 DEF ReadFile, OpRecs
  <2>2. op'[Worker].pc = "idle" => op[Worker].pc = "idle"
    BY <1>t, <1>6 DEF ReadFile
  <2> QED BY <1>6, <2>1, <2>2 DEF ReadFile, Rests, WorkerIdle, Printing
<1>7. ASSUME NEW p \in Writers, WriteFile(p) PROVE Moves /\ WorkerIdle'
  <2>0. /\ op[p].pc = "write" /\ op'[p] = AfterWrite(p)
        /\ \A q \in Writers : q # p => op'[q] = op[q]
        /\ UNCHANGED <<queue, run, pages, tickets>>
    BY <1>t, <1>7 DEF WriteFile
  <2>1. CASE p # Worker
    <3>1. UNCHANGED done
      BY <1>7, <2>1 DEF WriteFile
    <3> QED BY <1>1, <2>0, <2>1, <3>1 DEF Moves
  <2>2. CASE p = Worker /\ op[Worker].status = "printing"
    <3>1. /\ op'[Worker].job = op[Worker].job /\ op'[Worker].pc = "print"
          /\ UNCHANGED done
      BY <1>t, <1>7, <2>0, <2>2 DEF WriteFile, AfterWrite, OpRecs
    <3> QED BY <2>0, <3>1 DEF Moves, Rests, WorkerIdle, Printing
  <2>3. CASE p = Worker /\ op[Worker].status # "printing"
    <3>1. /\ op'[Worker] = Idle
          /\ done' = [done EXCEPT ![op[Worker].job] = @ + 1]
      BY <1>7, <2>0, <2>3 DEF WriteFile, AfterWrite
    <3>2. Printing \in Jobs /\ Printing' = None
      BY <1>w, <2>0, <2>3, <3>1 DEF Printing, Idle
    <3> QED BY <2>0, <3>1, <3>2 DEF Moves, Returns, WorkerIdle, Printing, Idle
  <2> QED BY <2>1, <2>2, <2>3
<1>8. ASSUME NEW k \in Jobs, UpdatePreviewURL(k) PROVE Rests /\ WorkerIdle'
  BY <1>t, <1>1, <1>8 DEF UpdatePreviewURL
<1>9. ASSUME AutoConfirmPending PROVE Moves /\ WorkerIdle'
  <2>0. PICK k \in Jobs : k = op[Notifier].job
    BY <1>p, <1>9 DEF AutoConfirmPending
  <2>1. /\ \A q \in Writers \ {Notifier} : op'[q] = op[q]
        /\ UNCHANGED <<run, pages, done>>
    BY <1>t, <1>9 DEF AutoConfirmPending
  <2>2. CASE AutoConfirms(k)
    <3>0. queue' = Append(queue, k) /\ tickets' = [tickets EXCEPT ![k].auto = @ + 1]
      BY <1>9, <2>0, <2>2 DEF AutoConfirmPending
    <3>1. \A j \in Jobs : Total(j)' = Total(j) + One(j = k)
      <4> SUFFICES ASSUME NEW j \in Jobs
                   PROVE  tickets'[j].ui + tickets'[j].auto
                            = tickets[j].ui + tickets[j].auto + One(j = k)
        BY DEF Total
      <4>1. /\ tickets[j] \in TicketRecs
            /\ tickets'[j].ui = tickets[j].ui
            /\ tickets'[j].auto = tickets[j].auto + One(j = k)
        BY <1>t, <3>0 DEF TicketRecs, One
      <4> QED BY <4>1 DEF TicketRecs, One
    <3> QED BY <2>1, <3>0, <3>1 DEF Moves, Enqueues, WorkerIdle, Printing
  <2>3. CASE ~AutoConfirms(k)
    BY <1>1, <1>9, <2>0, <2>1, <2>3 DEF AutoConfirmPending, Moves
  <2> QED BY <2>2, <2>3
<1>10. ASSUME TakeJob PROVE Takes /\ WorkerIdle'
  <2>1. op'[Worker].job = Head(queue) /\ op'[Worker].pc = "begin"
    BY <1>t, <1>10 DEF TakeJob
  <2> QED BY <1>10, <2>1 DEF TakeJob, Rest, Takes, WorkerIdle, Printing
<1>11. ASSUME BeginPrint PROVE Rests /\ WorkerIdle'
  BY <1>0, <1>w, <1>11, StatusRests DEF BeginPrint
<1>12. ASSUME PrintCopy PROVE Prints /\ WorkerIdle'
  BY <1>w, <1>12 DEF PrintCopy, Prints, WorkerIdle, Printing
<1>13. ASSUME PrintFails PROVE Moves /\ WorkerIdle'
  <2>1. CASE LastAttempt(run.attempt)
    BY <1>0, <1>w, <1>13, <2>1, StatusRests DEF PrintFails, Moves
  <2>2. CASE ~LastAttempt(run.attempt)
    BY <1>w, <1>13, <2>2 DEF PrintFails, Moves, Prints, WorkerIdle, Printing
  <2> QED BY <2>1, <2>2
<1>14. ASSUME Complete PROVE Rests /\ WorkerIdle'
  BY <1>0, <1>w, <1>14, StatusRests DEF Complete
<1>15. ASSUME UNCHANGED vars PROVE Rests /\ WorkerIdle'
  BY <1>15 DEF vars, Rests, WorkerIdle, Printing
<1> QED BY <1>2, <1>3, <1>4, <1>5, <1>6, <1>7, <1>8, <1>9, <1>10, <1>11, <1>12,
           <1>13, <1>14, <1>15, Goroutines DEF Next, CallStep, NotifierStep, WorkerStep, Moves


-----------------------------------------------------------------------------
(***************************************************************************)
(* The account of confirmations, and of pages: what a job has printed is   *)
(* at most the full price of each run that returned, and of the run in     *)
(* progress the price of its failed attempts and the copies made since.    *)
(***************************************************************************)
Price == Copies + MaxRetries * (Copies - 1)
Spent == run.attempt * (Copies - 1) + run.copy

PagesAccounted ==
    \A j \in Jobs : pages[j] <= Price * done[j] + (IF Printing = j THEN Spent ELSE 0)

Account == IInv /\ WorkerIdle /\ TicketsAccounted /\ PagesAccounted

LEMMA InitAccount == Init => Account
<1> SUFFICES ASSUME Init PROVE Account
  OBVIOUS
<1>1. IInv
  BY InitIInv
<1>2. /\ Printing = None /\ run = NoRun /\ queue = <<>>
      /\ \A j \in Jobs : /\ tickets[j].ui = 0 /\ tickets[j].auto = 0
                         /\ done[j] = 0 /\ pages[j] = 0
  BY Goroutines DEF Init, Printing, Idle
<1>3. WorkerIdle
  BY <1>2 DEF WorkerIdle
<1>4. TicketsAccounted
  <2>1. \A j : {i \in DOMAIN queue : queue[i] = j} = {}
    BY <1>2
  <2>2. Cardinality({}) = 0
    BY FS_EmptySet
  <2> QED BY <1>2, <2>1, <2>2, PrintAssumption DEF TicketsAccounted
<1>5. PagesAccounted
  <2>1. Price \in Nat
    BY PrintAssumption DEF Price
  <2> QED BY <1>2, <2>1, PrintAssumption DEF PagesAccounted
<1> QED BY <1>1, <1>3, <1>4, <1>5 DEF Account

LEMMA TicketsStep == Account /\ Moves /\ TypeOK' => TicketsAccounted'
<1> SUFFICES ASSUME Account, Moves, TypeOK' PROVE TicketsAccounted'
  OBVIOUS
<1>0. TypeOK /\ TicketsAccounted
  BY DEF Account, IInv
<1>t. /\ queue \in Seq(Jobs) /\ queue' \in Seq(Jobs)
      /\ tickets \in [Jobs -> TicketRecs] /\ done \in [Jobs -> Nat]
  BY <1>0 DEF TypeOK, TicketRecs
<1> SUFFICES ASSUME NEW j \in Jobs
             PROVE  Total(j)' = Count(queue', j) + done'[j] + One(Printing' = j)
  BY DEF TicketsAccounted, Total, Count, Places, One
<1>1. Total(j) = Count(queue, j) + done[j] + One(Printing = j)
  BY <1>0 DEF TicketsAccounted, Total, Count, Places, One
<1>2. Total(j) \in Nat /\ Count(queue, j) \in Nat /\ done[j] \in Nat
  BY <1>t, PlacesFinite DEF Total, TicketRecs
<1>3. CASE \E k \in Jobs : Enqueues(k)
  <2>1. PICK k \in Jobs : Enqueues(k)
    BY <1>3
  <2>2. Count(queue', j) = Count(queue, j) + One(j = k)
    BY <1>t, <2>1, CountAppend DEF Enqueues
  <2> QED BY <1>1, <1>2, <2>1, <2>2 DEF Enqueues, One
<1>4. CASE Takes
  <2>1. Count(queue, j) = Count(queue', j) + One(j = Head(queue))
    BY <1>t, <1>4, CountTail DEF Takes
  <2>2. Count(queue', j) \in Nat
    BY <1>t, PlacesFinite
  <2>3. Printing = None /\ Printing' = Head(queue) /\ UNCHANGED <<done, tickets>>
    BY <1>4 DEF Takes
  <2> QED BY <1>1, <1>2, <2>1, <2>2, <2>3, PrintAssumption DEF Total, One
<1>5. CASE Returns
  <2>1. done'[j] = done[j] + One(Printing = j) /\ Printing' # j
        /\ UNCHANGED <<queue, tickets>>
    BY <1>t, <1>5, PrintAssumption DEF Returns, One
  <2> QED BY <1>1, <1>2, <2>1 DEF Total, One
<1>6. CASE Prints \/ Rests
  BY <1>1, <1>2, <1>6 DEF Prints, Rests, Total
<1> QED BY <1>3, <1>4, <1>5, <1>6 DEF Moves

LEMMA RunNumbers ==
    ASSUME TypeOK
    PROVE  /\ Copies \in Nat /\ Copies > 0 /\ MaxRetries \in Nat /\ Price \in Nat /\ Spent \in Nat
           /\ run.attempt \in Nat /\ run.copy \in Nat
           /\ Spent <= Price
<1>1. Copies \in Nat /\ Copies > 0 /\ MaxRetries \in Nat /\ Copies - 1 \in Nat
  BY PrintAssumption
<1>2. run.attempt \in 0..MaxRetries /\ run.copy \in 0..Copies
  BY DEF TypeOK
<1>3. \A a, b, c \in Nat : a <= b => a * c <= b * c /\ a * c \in Nat /\ b * c \in Nat
  OBVIOUS
<1>4. run.attempt * (Copies - 1) <= MaxRetries * (Copies - 1)
      /\ run.attempt * (Copies - 1) \in Nat /\ MaxRetries * (Copies - 1) \in Nat
  BY <1>1, <1>2, <1>3
<1> QED BY <1>1, <1>2, <1>4 DEF Price, Spent

LEMMA PagesStep == Account /\ Moves => PagesAccounted'
<1> SUFFICES ASSUME Account, Moves, NEW j \in Jobs
             PROVE  pages'[j] <= Price * done'[j] + (IF Printing' = j THEN Spent' ELSE 0)
  BY DEF PagesAccounted
<1>0. TypeOK /\ PagesAccounted
  BY DEF Account, IInv
<1>t. /\ pages \in [Jobs -> Nat] /\ done \in [Jobs -> Nat]
      /\ run \in [attempt : 0..MaxRetries, copy : 0..Copies]
  BY <1>0 DEF TypeOK
<1>n. /\ Copies \in Nat /\ Copies > 0 /\ MaxRetries \in Nat /\ Price \in Nat /\ Spent \in Nat
      /\ run.attempt \in Nat /\ run.copy \in Nat /\ Spent <= Price
  BY <1>0, RunNumbers
<1>d. done[j] \in Nat /\ Price * done[j] \in Nat /\ pages[j] \in Nat
  BY <1>t, <1>n
<1>1. pages[j] <= Price * done[j] + (IF Printing = j THEN Spent ELSE 0)
  BY <1>0 DEF PagesAccounted
<1>2. CASE (\E k \in Jobs : Enqueues(k)) \/ Rests
  <2>1. UNCHANGED <<done, pages, run>> /\ Printing' = Printing
    BY <1>2 DEF Enqueues, Rests
  <2> QED BY <1>1, <2>1 DEF Spent
<1>3. CASE Takes
  <2>1. UNCHANGED <<done, pages>> /\ Printing # j /\ run' = NoRun
    BY <1>3, PrintAssumption DEF Takes
  <2>2. Spent' = 0
    BY <1>n, <2>1 DEF Spent, NoRun
  <2> QED BY <1>1, <1>d, <2>1, <2>2
<1>4. CASE Returns
  <2>1. /\ pages' = pages /\ Printing' # j
        /\ done'[j] = done[j] + One(Printing = j)
    BY <1>t, <1>4, PrintAssumption DEF Returns, One
  <2>2. CASE Printing = j
    <3>1. Price * done'[j] = Price * done[j] + Price
      BY <1>n, <1>d, <2>1, <2>2 DEF One
    <3> QED BY <1>1, <1>n, <1>d, <2>1, <2>2, <3>1
  <2>3. CASE Printing # j
    BY <1>1, <1>d, <2>1, <2>3 DEF One
  <2> QED BY <2>2, <2>3
<1>5. CASE Prints
  <2>0. Printing' = Printing /\ done' = done /\ run.copy < Copies
    BY <1>5 DEF Prints
  <2>1. CASE /\ pages' = [pages EXCEPT ![Printing] = @ + 1]
             /\ run' = [run EXCEPT !.copy = @ + 1]
    <3>1. run'.attempt = run.attempt /\ run'.copy = run.copy + 1
      BY <1>t, <2>1
    <3>2. run.attempt * (Copies - 1) \in Nat
      BY <1>n
    <3>3. Spent' = Spent + 1
      BY <1>n, <3>1, <3>2 DEF Spent
    <3>4. pages'[j] = pages[j] + One(Printing = j)
      BY <1>t, <2>1 DEF One
    <3> QED BY <1>1, <1>n, <1>d, <2>0, <3>3, <3>4 DEF One
  <2>2. CASE pages' = pages /\ run' = [attempt |-> run.attempt + 1, copy |-> 0]
    <3>1. run'.attempt = run.attempt + 1 /\ run'.copy = 0
      BY <2>2
    <3>2. (run.attempt + 1) * (Copies - 1) = run.attempt * (Copies - 1) + (Copies - 1)
          /\ run.attempt * (Copies - 1) \in Nat
      BY <1>n
    <3>3. Spent <= Spent' /\ Spent' \in Nat
      BY <1>n, <2>0, <3>1, <3>2 DEF Spent
    <3> QED BY <1>1, <1>n, <1>d, <2>0, <2>2, <3>3
  <2> QED BY <1>5, <2>1, <2>2 DEF Prints
<1> QED BY <1>2, <1>3, <1>4, <1>5 DEF Moves

LEMMA AccountHolds == Spec => []Account
<1>1. Account /\ [Next]_vars => Account'
  <2> SUFFICES ASSUME Account, [Next]_vars PROVE Account'
    OBVIOUS
  <2>1. IInv' /\ TypeOK'
    BY NextIInv DEF Account, IInv
  <2>2. Moves /\ WorkerIdle'
    BY NextMoves DEF Account
  <2> QED BY <2>1, <2>2, TicketsStep, PagesStep DEF Account
<1> QED BY <1>1, InitAccount, PTL DEF Spec

(* Every confirmation, by the UI or by the arrival of the picture, is one  *)
(* entry of the queue, the run of printJob in progress, or one that has    *)
(* returned: none is lost and none runs twice.                             *)
THEOREM NoTicketLost == Spec => []TicketsAccounted
BY AccountHolds, PTL DEF Account

(* A job never costs more pages than its confirmations allow, whatever     *)
(* copies fail and however often printJob starts over.                     *)
THEOREM PagesLimited == Spec => []PagesBounded
<1>1. Account => PagesBounded
  <2> SUFFICES ASSUME Account, NEW j \in Jobs
               PROVE  pages[j] <= Price * Total(j)
    BY DEF PagesBounded, Price, Total
  <2>0. TypeOK /\ TicketsAccounted /\ PagesAccounted
    BY DEF Account, IInv
  <2>1. Price \in Nat /\ Spent \in Nat /\ Spent <= Price
    BY <2>0, RunNumbers
  <2>2. Total(j) = Count(queue, j) + done[j] + One(Printing = j)
    BY <2>0 DEF TicketsAccounted, Total, Count, Places, One
  <2>3. Count(queue, j) \in Nat /\ done[j] \in Nat /\ pages[j] \in Nat
    BY <2>0, PlacesFinite DEF TypeOK
  <2>4. pages[j] <= Price * done[j] + Price * One(Printing = j)
    <3>1. pages[j] <= Price * done[j] + (IF Printing = j THEN Spent ELSE 0)
      BY <2>0 DEF PagesAccounted
    <3>2. Price * done[j] \in Nat
      BY <2>1, <2>3
    <3>3. Price * One(Printing = j) = IF Printing = j THEN Price ELSE 0
      BY <2>1 DEF One
    <3> QED BY <2>1, <2>3, <3>1, <3>2, <3>3
  <2>5. Price * Total(j)
          = Price * Count(queue, j) + Price * done[j] + Price * One(Printing = j)
        /\ Price * Count(queue, j) \in Nat /\ Price * done[j] \in Nat
        /\ Price * One(Printing = j) \in Nat
    BY <2>1, <2>2, <2>3 DEF One
  <2> QED BY <2>3, <2>4, <2>5
<1> QED BY <1>1, AccountHolds, PTL
=============================================================================
