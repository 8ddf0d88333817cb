---------------------------- MODULE PrintManager ----------------------------
(***************************************************************************)
(* The print queue of the Debian edge daemon                               *)
(* (edge/debian/edge-daemon/internal/print/manager.go) on the file store   *)
(* it persists to (internal/storage/store.go).                             *)
(*                                                                         *)
(* Goroutines: one per gRPC call, the loop that handles preview            *)
(* notifications, and processLoop, which prints.  m.mu guards the job list *)
(* and the queue; updateStatus writes the job without it; a store update   *)
(* is a read of the file followed by a write of it, each under the store's *)
(* own lock but not both.                                                  *)
(*                                                                         *)
(* Left out: error codes and messages (set together with the status),      *)
(* events to subscribers, activeID and retryCount (written, never read),   *)
(* the weekly cleanup of old files.  The printer is CUPS (print/cups.go):  *)
(* NewServer never leaves m.printer nil.                                   *)
(***************************************************************************)
EXTENDS Naturals, Sequences, FiniteSets

CONSTANTS
    Jobs,        \* ids CreateJob may hand out
    Calls,       \* gRPC calls that may be inside the manager at once
    Copies,      \* copies asked for
    MaxRetries,  \* maxRetries
    MaxConfirms, \* bound: how often a job may be confirmed by the UI
    None

Notifier == "notifier"  \* the goroutine of handleCloudNotifications
Worker == "worker"      \* the goroutine of processLoop
Writers == Calls \cup {Notifier, Worker}

ASSUME PrintAssumption ==
    /\ Copies \in Nat \ {0}
    /\ MaxRetries \in Nat
    /\ MaxConfirms \in Nat
    /\ None \notin Jobs
    /\ Calls \cap {Notifier, Worker} = {}
    /\ None \notin Writers

VARIABLES
    job,     \* the record in m.jobs of each id: status, auto, preview
    queue,   \* m.queue
    mu,      \* holder of m.mu across several steps, or None
    op,      \* what each goroutine is doing: pc, job, status to set, file read
    file,    \* jobs/{id}.json: absent, or whether it has the preview
    run,     \* processLoop's locals: attempt, copy
    pages,   \* pages out of the printer, per job
    tickets, \* times a job was put in the queue: by the UI, by auto-confirm
    done     \* times printJob returned for a job

vars == <<job, queue, mu, op, file, run, pages, tickets, done>>

Statuses == {"unknown", "pending_confirm", "queued", "printing", "completed",
             "failed", "cancelled"}
Unknown == [status |-> "unknown", auto |-> FALSE, preview |-> FALSE]
OnDisk == {"absent", "blank", "preview"}
Idle == [pc |-> "idle", job |-> None, status |-> "unknown", read |-> "absent"]
NoRun == [attempt |-> 0, copy |-> 0]

Known(j) == job[j].status # "unknown"
InQueue(j) == \E i \in DOMAIN queue : queue[i] = j
Printing == op[Worker].job

TypeOK ==
    /\ job \in [Jobs -> [status : Statuses, auto : BOOLEAN, preview : BOOLEAN]]
    /\ queue \in Seq(Jobs)
    /\ mu \in Writers \cup {None}
    /\ op \in [Writers -> [pc : {"idle", "create", "read", "write", "auto",
                                 "begin", "print"},
                           job : Jobs \cup {None}, status : Statuses,
                           read : OnDisk]]
    /\ file \in [Jobs -> OnDisk]
    /\ run \in [attempt : 0..MaxRetries, copy : 0..Copies]
    /\ pages \in [Jobs -> Nat]
    /\ tickets \in [Jobs -> [ui : Nat, auto : Nat]]
    /\ done \in [Jobs -> Nat]

Init ==
    /\ job = [j \in Jobs |-> Unknown]
    /\ queue = <<>>
    /\ mu = None
    /\ op = [p \in Writers |-> Idle]
    /\ file = [j \in Jobs |-> "absent"]
    /\ run = NoRun
    /\ pages = [j \in Jobs |-> 0]
    /\ tickets = [j \in Jobs |-> [ui |-> 0, auto |-> 0]]
    /\ done = [j \in Jobs |-> 0]

-----------------------------------------------------------------------------
(* CreateJob: the job is listed, then saved; it is not queued.  The UI may *)
(* bring a picture; push-to-talk asks for auto-confirmation and has none.  *)
CreateJob(c, j, auto, preview) ==
    /\ op[c].pc = "idle"
    /\ ~Known(j)
    /\ ~(auto /\ preview)
    /\ mu = None
    /\ job' = [job EXCEPT ![j] =
                [status |-> "pending_confirm", auto |-> auto, preview |-> preview]]
    /\ op' = [op EXCEPT ![c].pc = "create", ![c].job = j]
    /\ UNCHANGED <<queue, mu, file, run, pages, tickets, done>>

SaveCreated(c) ==
    LET j == op[c].job IN
    /\ op[c].pc = "create"
    /\ file' = [file EXCEPT ![j] = IF job[j].preview THEN "preview" ELSE "blank"]
    /\ op' = [op EXCEPT ![c] = Idle]
    /\ UNCHANGED <<job, queue, mu, run, pages, tickets, done>>

(* ConfirmPrint(confirmed): whatever the status, the job joins the queue.  *)
ConfirmPrint(c, j) ==
    /\ op[c].pc = "idle"
    /\ Known(j)
    /\ mu = None
    /\ tickets[j].ui < MaxConfirms
    /\ job' = [job EXCEPT ![j].status = "queued"]
    /\ queue' = Append(queue, j)
    /\ tickets' = [tickets EXCEPT ![j].ui = @ + 1]
    /\ UNCHANGED <<mu, op, file, run, pages, done>>

(***************************************************************************)
(* updateStatus: the field is written with no lock held, then              *)
(* UpdatePrintJobStatus reads the file and writes it back.  A job whose    *)
(* file is not there yet is not persisted.                                 *)
(***************************************************************************)
SetStatus(j, s) == job' = [job EXCEPT ![j].status = s]
Persist(p, j, s) ==
    op' = [op EXCEPT ![p] = [pc |-> "read", job |-> j, status |-> s, read |-> "absent"]]

ReadFile(p) ==
    /\ op[p].pc = "read"
    /\ op' = [op EXCEPT ![p].pc = "write", ![p].read = file[op[p].job]]
    /\ UNCHANGED <<job, queue, mu, file, run, pages, tickets, done>>

(* Where each goroutine goes on after its store update *)
AfterWrite(p) ==
    CASE p = Notifier -> [op[p] EXCEPT !.pc = "auto", !.read = "absent"]
      [] p = Worker /\ op[p].status = "printing" ->
           [op[p] EXCEPT !.pc = "print", !.read = "absent"]
      [] OTHER -> Idle

(* Only UpdatePreviewURL holds m.mu over its store update *)
BadReleased(p) == mu
Released(p) == IF p = Notifier THEN None ELSE mu

(* The notifier changes the preview; the others change the status, which   *)
(* nothing reads back, and write the preview they have read.               *)
WriteFile(p) ==
    LET j == op[p].job
        rec == IF p = Notifier THEN "preview" ELSE op[p].read
    IN
    /\ op[p].pc = "write"
    /\ file' = IF op[p].read = "absent" THEN file ELSE [file EXCEPT ![j] = rec]
    /\ op' = [op EXCEPT ![p] = AfterWrite(p)]
    /\ mu' = Released(p)
    /\ done' = IF p = Worker /\ op[p].status # "printing"
               THEN [done EXCEPT ![j] = @ + 1] ELSE done
    /\ UNCHANGED <<job, queue, run, pages, tickets>>

(* CancelJob, and ConfirmPrint(not confirmed): whatever the status, the    *)
(* job is marked cancelled.  Its place in the queue stays; `cancel -x` is  *)
(* given our job id, which CUPS does not know.                             *)
CancelJob(c, j) ==
    /\ op[c].pc = "idle"
    /\ Known(j)
    /\ mu = None
    /\ SetStatus(j, "cancelled")
    /\ Persist(c, j, "cancelled")
    /\ UNCHANGED <<queue, mu, file, run, pages, tickets, done>>

-----------------------------------------------------------------------------
(* handlePreviewReady: UpdatePreviewURL, which keeps m.mu over the store   *)
(* update, then AutoConfirmPending.                                        *)
UpdatePreviewURL(j) ==
    /\ op[Notifier].pc = "idle"
    /\ Known(j)
    /\ mu = None
    /\ mu' = Notifier
    /\ job' = [job EXCEPT ![j].preview = TRUE]
    /\ op' = [op EXCEPT ![Notifier] =
               [pc |-> "read", job |-> j, status |-> "unknown", read |-> "absent"]]
    /\ UNCHANGED <<queue, file, run, pages, tickets, done>>

BadAutoConfirmsStatus(j) == job[j].auto
BadAutoConfirmsFlag(j) == job[j].status = "pending_confirm"
AutoConfirms(j) == job[j].auto /\ job[j].status = "pending_confirm"

AutoConfirmPending ==
    LET j == op[Notifier].job IN
    /\ op[Notifier].pc = "auto"
    /\ mu = None
    /\ IF AutoConfirms(j)
       THEN /\ job' = [job EXCEPT ![j].status = "queued"]
            /\ queue' = Append(queue, j)
            /\ tickets' = [tickets EXCEPT ![j].auto = @ + 1]
       ELSE UNCHANGED <<job, queue, tickets>>
    /\ op' = [op EXCEPT ![Notifier] = Idle]
    /\ UNCHANGED <<mu, file, run, pages, done>>

-----------------------------------------------------------------------------
(* processLoop and printJob *)
BadRest(q) == q
Rest(q) == Tail(q)

TakeJob ==
    /\ op[Worker].pc = "idle"
    /\ mu = None
    /\ queue # <<>>
    /\ queue' = Rest(queue)
    /\ op' = [op EXCEPT ![Worker].pc = "begin", ![Worker].job = Head(queue)]
    /\ run' = NoRun
    /\ UNCHANGED <<job, mu, file, pages, tickets, done>>

BeginPrint ==
    /\ op[Worker].pc = "begin"
    /\ mu = None
    /\ SetStatus(Printing, "printing")
    /\ Persist(Worker, Printing, "printing")
    /\ UNCHANGED <<queue, mu, file, run, pages, tickets, done>>

(* One successful call of printer.Print; without a picture lp refuses.     *)
PrintCopy ==
    /\ op[Worker].pc = "print"
    /\ run.copy < Copies
    /\ job[Printing].preview
    /\ pages' = [pages EXCEPT ![Printing] = @ + 1]
    /\ run' = [run EXCEPT !.copy = @ + 1]
    /\ UNCHANGED <<job, queue, mu, op, file, tickets, done>>

Complete ==
    /\ op[Worker].pc = "print"
    /\ run.copy = Copies
    /\ mu = None
    /\ SetStatus(Printing, "completed")
    /\ Persist(Worker, Printing, "completed")
    /\ UNCHANGED <<queue, mu, file, run, pages, tickets, done>>

BadLastAttempt(a) == a > MaxRetries
LastAttempt(a) == a = MaxRetries

(* A failed copy ends the attempt; the next one starts over at copy one.   *)
PrintFails ==
    /\ op[Worker].pc = "print"
    /\ run.copy < Copies
    /\ IF LastAttempt(run.attempt)
       THEN /\ mu = None
            /\ SetStatus(Printing, "failed")
            /\ Persist(Worker, Printing, "failed")
            /\ UNCHANGED run
       ELSE /\ run' = [attempt |-> run.attempt + 1, copy |-> 0]
            /\ UNCHANGED <<job, op>>
    /\ UNCHANGED <<queue, mu, file, pages, tickets, done>>

WorkerStep ==
    \/ TakeJob
    \/ BeginPrint
    \/ PrintCopy
    \/ PrintFails
    \/ Complete
    \/ ReadFile(Worker)
    \/ WriteFile(Worker)

NotifierStep == ReadFile(Notifier) \/ WriteFile(Notifier) \/ AutoConfirmPending

CallStep(c) == SaveCreated(c) \/ ReadFile(c) \/ WriteFile(c)

Next ==
    \/ \E c \in Calls, j \in Jobs :
         \/ \E auto, preview \in BOOLEAN : CreateJob(c, j, auto, preview)
         \/ ConfirmPrint(c, j)
         \/ CancelJob(c, j)
    \/ \E c \in Calls : CallStep(c)
    \/ \E j \in Jobs : UpdatePreviewURL(j)
    \/ NotifierStep
    \/ WorkerStep

(***************************************************************************)
(* Fairness: the Go scheduler runs every goroutine that can run; a mutex   *)
(* in normal mode is eventually handed to a waiter, so processLoop is      *)
(* strongly fair in its steps that need m.mu.                              *)
(***************************************************************************)
Fairness ==
    /\ SF_vars(WorkerStep)
    /\ WF_vars(NotifierStep)
    /\ \A c \in Calls : WF_vars(CallStep(c))

Spec == Init /\ [][Next]_vars
FairSpec == Spec /\ Fairness

-----------------------------------------------------------------------------
(* Nothing is queued or printed before the UI confirmed it or, for a       *)
(* push-to-talk job, its picture arrived (the comment at manager.go:90).   *)
Confirmed(j) == tickets[j].ui > 0 \/ (job[j].auto /\ job[j].preview)
NothingPrintsUnconfirmed ==
    \A j \in Jobs :
      pages[j] > 0 \/ InQueue(j) \/ Printing = j => Confirmed(j)

(* Every confirmation is one entry of the queue, one run of printJob in    *)
(* progress or one that has returned: none is lost and none runs twice.    *)
TicketsAccounted ==
    \A j \in Jobs :
      tickets[j].ui + tickets[j].auto =
        Cardinality({i \in DOMAIN queue : queue[i] = j}) + done[j]
          + (IF Printing = j THEN 1 ELSE 0)

(* A confirmation costs Copies pages and at most Copies - 1 for each of    *)
(* the MaxRetries attempts that failed before: a last attempt that fails,  *)
(* too, has failed before its last copy.                                   *)
PagesBounded ==
    \A j \in Jobs :
      pages[j] <= (Copies + MaxRetries * (Copies - 1))
                    * (tickets[j].ui + tickets[j].auto)

(* A job confirmed by nobody but its picture has the picture, and only     *)
(* once: the status check and the enqueue are one critical section.        *)
AutoConfirmedOnce ==
    \A j \in Jobs :
      /\ tickets[j].auto > 0 => job[j].preview
      /\ tickets[j].auto <= 1

(* A queued job leaves the queue and its run ends, printed or failed.      *)
QueuedJobEnds ==
    \A j \in Jobs : InQueue(j) ~> ~InQueue(j) /\ Printing # j

(* PRINT_JOB_STATUS_CANCELLED, "cancelled" (edge_ipc.proto:73): printing a *)
(* job does not begin once it was cancelled.                               *)
CancelledNotBegun ==
    [][\A j \in Jobs :
         job[j].status = "cancelled" => job'[j].status # "printing"]_vars

(* UpdatePreviewURL "and persists it" (manager.go:345): when nobody is     *)
(* inside the manager the file has the preview the job has.                *)
PreviewPersisted ==
    \A j \in Jobs :
      (\A p \in Writers : op[p].pc = "idle") /\ job[j].preview
        => file[j] = "preview"
=============================================================================
