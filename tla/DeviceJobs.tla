----------------------------- MODULE DeviceJobs -----------------------------
(***************************************************************************)
(* The job resource of device-api: the handlers of JobsService, the        *)
(* pipeline workers they enqueue, and the record store they share          *)
(* (cloud/apps/device-api/src/jobs/jobs.service.ts and                     *)
(* job-state-store.service.ts).                                            *)
(*                                                                         *)
(* Every handler is cut at its awaits: what runs between two awaits is one *)
(* action.  A write to Redis is one action at the moment Redis executes    *)
(* it; the code before it works on the handler's private copy, so nothing  *)
(* can tell it from that moment.                                           *)
(*                                                                         *)
(* SharedRecords = TRUE is the in-memory backend: getJob hands out the     *)
(* record the Map holds, which every handler mutates in place, and setJob  *)
(* replaces it by a shallow copy.  SharedRecords = FALSE is Redis: getJob  *)
(* parses a private copy, setJob overwrites the whole value.  Both are the *)
(* same heap of record objects; they differ in what getJob returns.        *)
(*                                                                         *)
(* late and loose are history variables: no step reads them.               *)
(*                                                                         *)
(* Left out: device ownership (a request of another device is refused      *)
(* without effect), audio bytes and chunk contents, expiry of records, MQTT*)
(* publications and audit lines (outputs no handler reads back).           *)
(***************************************************************************)
EXTENDS Naturals, Sequences, FiniteSets

CONSTANTS
    Jobs,           \* job ids
    Texts,          \* transcripts
    Safe,           \* the transcripts moderation lets through
    Keys,           \* Idempotency-Key values of print-ack
    Replicas,       \* device-api processes
    Requests,       \* HTTP requests that may be in flight at once
    Workers,        \* pipeline queue slots of all replicas
    ReplicaOf,      \* the replica a slot belongs to
    Spare,          \* addresses of record objects beyond one per holder
    None,
    SharedRecords,  \* in-memory backend (TRUE) or Redis (FALSE)
    SharedQueue,    \* BullMQ (TRUE) or the in-process queue of each replica
    S3Preview,      \* S3_PREVIEW_BUCKET is set
    MaxCrashes      \* how many times each replica crashes

ASSUME SafeAssumption == Safe \subseteq Texts
ASSUME NoneAssumption ==
    None \notin Texts \cup Jobs \cup Workers \cup Requests \cup Spare
ASSUME CrashAssumption == MaxCrashes \in [Replicas -> Nat]
ASSUME ReplicaAssumption == ReplicaOf \in [Workers -> Replicas]
ASSUME BackendAssumption ==
    /\ SharedRecords \in BOOLEAN
    /\ SharedQueue \in BOOLEAN
    /\ S3Preview \in BOOLEAN
    /\ SharedRecords => ~SharedQueue
    /\ SharedRecords => \A p, q \in Replicas : p = q \* memory of one process
ASSUME AddressAssumption ==
    /\ \A S \in {Jobs, Requests, Workers, Spare} : IsFiniteSet(S)
    /\ Jobs \cap (Requests \cup Workers \cup Spare) = {}
    /\ Requests \cap (Workers \cup Spare) = {}
    /\ Workers \cap Spare = {}
    /\ Spare # {}

(* The preview of a job that is a presigned URL of previews/{job_id}.png   *)
Link == "s3"
ASSUME LinkAssumption == Link \notin Texts \cup {None}

VARIABLES
    obj,        \* the heap: record objects by address
    stored,     \* the record the store holds for each job, by address
    lock,       \* holder of job:adv:{id} (Redis)
    printIdem,  \* print-ack idempotency map: the job a key acknowledged
    queued,     \* pipeline tasks waiting for a slot, oldest first
    inProg,     \* inProgressJobs of each replica
    req,        \* in-flight requests
    wk,         \* pipeline slots
    disk,       \* JOBS_PERSISTENCE_PATH (in-memory backend)
    bucket,     \* the picture in S3 at previews/{job_id}.png
    crashes,
    late,       \* slots whose lock ran out under them
    loose       \* jobs on which a pipeline has run without the lock

history == <<late, loose>>
vars == <<obj, stored, lock, printIdem, queued, inProg, req, wk, disk, bucket,
          crashes, late, loose>>

PipelineAfterAudio == <<"audio_received", "asr_complete", "moderation_passed",
                        "image_generation", "preview_ready">>
Stages == {PipelineAfterAudio[i] : i \in 1..4}
Ready == {"preview_ready", "print_acknowledged"}
States == Stages \cup Ready \cup {"created", "failed"}

(* preview names the text the picture was drawn from.  pending_preview_*   *)
(* is set by runImageGeneration and taken by finalizePreview before        *)
(* another callback can run: the worker carries it in wk[w].in.            *)
JobRecord == [state : States \cup {"free"},
              transcript : Texts \cup {None},
              preview : Texts \cup {None, Link}]
NewRecord(s, t) == [state |-> s, transcript |-> t, preview |-> None]
Free == NewRecord("free", None)

NoReq == [op |-> "none", pc |-> "idle", job |-> None, arg |-> None,
          ref |-> None, rep |-> None]
NoTask == [pc |-> "idle", kind |-> "advance", job |-> None, ref |-> None,
           in |-> None]

(* Addresses.  In Redis mode a copy belongs to its holder alone: the store, *)
(* a request or a slot, and lives at the address named after it.           *)
Objs == Jobs \cup Requests \cup Workers \cup Spare

(* Record objects some variable of the program still refers to             *)
Live == ({stored[j] : j \in Jobs} \cup {req[r].ref : r \in Requests}
           \cup {wk[w].ref : w \in Workers}) \ {None}
Fresh == CHOOSE o \in Objs : o \notin Live

(* An unreachable object is reclaimed; h is the heap the step leaves       *)
Sweep(h) == [o \in Objs |-> IF o \in Live' THEN h[o] ELSE Free]

(* getJob: the live object, or a private copy for the holder               *)
LoadRef(j, holder) == IF SharedRecords THEN stored[j] ELSE holder
LoadHeap(j, holder) ==
    IF SharedRecords THEN obj ELSE [obj EXCEPT ![holder] = obj[stored[j]]]

(* setJob(rec): the store holds a copy of rec; h is the heap it is found in*)
setJob(j, h, rec) ==
    LET new == IF SharedRecords THEN Fresh ELSE j IN
    /\ stored' = [stored EXCEPT ![j] = new]
    /\ obj' = Sweep([h EXCEPT ![new] = rec])

Exists(j) == stored[j] # None

(* One queue per process, or one BullMQ queue, whose worker ignores fn and *)
(* always runs runBackgroundAdvance.  At most one task of a kind waits per *)
(* job and queue (the bound on clients that poll).                         *)
Queues == IF SharedQueue THEN {"bullmq"} ELSE Replicas
QueueOf(rep) == IF SharedQueue THEN "bullmq" ELSE rep
Enqueue(rep, kind, j) ==
    LET task == [kind |-> IF SharedQueue THEN "advance" ELSE kind, job |-> j]
        q == QueueOf(rep)
    IN  queued' = IF \E i \in DOMAIN queued[q] : queued[q][i] = task
                  THEN queued
                  ELSE [queued EXCEPT ![q] = Append(@, task)]

TypeOK ==
    /\ obj \in [Objs -> JobRecord]
    /\ stored \in [Jobs -> Objs \cup {None}]
    /\ lock \in [Jobs -> Workers \cup {None}]
    /\ printIdem \in [Keys -> Jobs \cup {None}]
    /\ queued \in [Queues -> Seq([kind : {"advance", "full"}, job : Jobs])]
    /\ inProg \in [Replicas -> SUBSET Jobs]
    /\ \A r \in Requests :
         /\ req[r].pc \in {"idle", "act", "stage", "enqueue", "load", "save"}
         /\ req[r].ref \in Objs \cup {None}
    /\ \A w \in Workers :
         /\ wk[w].pc \in {"idle", "lock", "get", "advance", "asr", "mod",
                          "img", "fin", "sign", "write", "release", "exit"}
         /\ wk[w].ref \in Objs \cup {None}
         /\ wk[w].in \in Texts \cup {None}
    /\ disk.jobs \in [Jobs -> JobRecord]
    /\ disk.idem \in [Keys -> Jobs \cup {None}]
    /\ bucket \in [Jobs -> Texts \cup {None}]
    /\ \A p \in Replicas : crashes[p] \in 0..MaxCrashes[p]
    /\ late \in SUBSET Workers
    /\ loose \in SUBSET Jobs

Init ==
    /\ obj = [o \in Objs |-> Free]
    /\ stored = [j \in Jobs |-> None]
    /\ lock = [j \in Jobs |-> None]
    /\ printIdem = [k \in Keys |-> None]
    /\ queued = [q \in Queues |-> <<>>]
    /\ inProg = [p \in Replicas |-> {}]
    /\ req = [r \in Requests |-> NoReq]
    /\ wk = [w \in Workers |-> NoTask]
    /\ disk = [jobs |-> [j \in Jobs |-> Free], idem |-> [k \in Keys |-> None]]
    /\ bucket = [j \in Jobs |-> None]
    /\ crashes = [p \in Replicas |-> 0]
    /\ late = {}
    /\ loose = {}

-----------------------------------------------------------------------------
(* createJob and createJobFromTranscript, the ASR endpoint's entrance: it  *)
(* saves the record, and enqueues the full pipeline when setJob returns.   *)

create(j, rec) ==
    /\ ~Exists(j)
    /\ UNCHANGED <<lock, printIdem, queued, inProg, wk, disk, bucket, crashes, history>>
    /\ setJob(j, obj, rec)

createJob(j) == UNCHANGED req /\ create(j, NewRecord("created", None))

createJobFromTranscript(r, j, t, rep) ==
    /\ req[r].pc = "idle"
    /\ req' = [req EXCEPT ![r] = [op |-> "speech", pc |-> "enqueue", job |-> j,
                                  arg |-> None, ref |-> None, rep |-> rep]]
    /\ create(j, NewRecord("asr_complete", t))

-----------------------------------------------------------------------------
(* Upload handlers.  An "audio" request is attachAudio or the closing chunk*)
(* of uploadChunk, "chunk" a chunk that is not final, "text" attachText.   *)

BeginUpload(r, op, j, t, rep) ==
    /\ req[r].pc = "idle"
    /\ Exists(j)
    /\ req' = [req EXCEPT ![r] = [op |-> op, pc |-> "act", job |-> j,
                 arg |-> IF op = "text" THEN t ELSE None,
                 ref |-> LoadRef(j, r), rep |-> rep]]
    /\ UNCHANGED <<stored, lock, printIdem, queued, inProg, wk, disk, bucket, crashes, history>>
    /\ obj' = Sweep(LoadHeap(j, r))

(* Only a record in "created" accepts an upload: other states answer 409   *)
(* or, once the preview exists, the record as it is.                       *)
BadAccepts(r) == obj[req[r].ref].state # "preview_ready"
AcceptsUpload(r) == obj[req[r].ref].state = "created"

RefuseUpload(r) ==
    /\ req[r].pc = "act" /\ req[r].op # "ack"
    /\ ~AcceptsUpload(r)
    /\ req' = [req EXCEPT ![r] = NoReq]
    /\ UNCHANGED <<stored, lock, printIdem, queued, inProg, wk, disk, bucket, crashes, history>>
    /\ obj' = Sweep(obj)

(* storeAudioRef awaits the S3 upload before anything is written *)
StageAudio(r) ==
    /\ req[r].pc = "act" /\ req[r].op = "audio"
    /\ AcceptsUpload(r)
    /\ req' = [req EXCEPT ![r].pc = "stage"]
    /\ UNCHANGED <<obj, stored, lock, printIdem, queued, inProg, wk, disk, bucket, crashes, history>>

(* After staging the state is not read again *)
AudioReady(r) ==
    /\ req[r].op = "audio"
    /\ \/ req[r].pc = "stage"
       \/ req[r].pc = "act" /\ AcceptsUpload(r)

attachAudio(r) ==
    /\ AudioReady(r)
    /\ req' = [req EXCEPT ![r] = NoReq]
    /\ UNCHANGED <<lock, printIdem, queued, inProg, wk, disk, bucket, crashes, history>>
    /\ LET rec == [obj[req[r].ref] EXCEPT !.state = "audio_received"]
       IN setJob(req[r].job, [obj EXCEPT ![req[r].ref] = rec], rec)

uploadChunk(r) ==
    /\ req[r].pc = "act" /\ req[r].op = "chunk"
    /\ AcceptsUpload(r)
    /\ req' = [req EXCEPT ![r] = NoReq]
    /\ UNCHANGED <<lock, printIdem, queued, inProg, wk, disk, bucket, crashes, history>>
    /\ setJob(req[r].job, obj, obj[req[r].ref])

attachText(r) ==
    /\ req[r].pc = "act" /\ req[r].op = "text"
    /\ AcceptsUpload(r)
    /\ req' = [req EXCEPT ![r].pc = "enqueue", ![r].ref = None]
    /\ UNCHANGED <<lock, printIdem, queued, inProg, wk, disk, bucket, crashes, history>>
    /\ LET rec == [obj[req[r].ref] EXCEPT !.state = "asr_complete",
                                          !.transcript = req[r].arg]
       IN setJob(req[r].job, [obj EXCEPT ![req[r].ref] = rec], rec)

(* The pipeline task of attachText, or of createJobFromTranscript          *)
EnqueueTask(r) ==
    /\ req[r].pc = "enqueue"
    /\ Enqueue(req[r].rep, IF req[r].op = "speech" THEN "full" ELSE "advance", req[r].job)
    /\ req' = [req EXCEPT ![r] = NoReq]
    /\ UNCHANGED <<obj, stored, lock, printIdem, inProg, wk, disk, bucket, crashes, history>>

(* POST advance: enqueue unless the job is idle or over.                   *)
advanceJob(j, rep) ==
    /\ Exists(j)
    /\ obj[stored[j]].state \in Stages
    /\ Enqueue(rep, "advance", j)
    /\ UNCHANGED <<obj, stored, lock, printIdem, inProg, req, wk, disk, bucket, crashes, history>>

-----------------------------------------------------------------------------
(* printAck.  A cached key is answered (replay, or 409 for another job)    *)
(* without effect, so a request only goes on when its key is new.          *)

BeginAck(r, j, k, rep) ==
    /\ req[r].pc = "idle"
    /\ Exists(j)
    /\ printIdem[k] = None
    /\ req' = [req EXCEPT ![r] = [op |-> "ack", pc |-> "load", job |-> j,
                                  arg |-> k, ref |-> None, rep |-> rep]]
    /\ UNCHANGED <<obj, stored, lock, printIdem, queued, inProg, wk, disk, bucket, crashes, history>>

LoadAck(r) ==
    /\ req[r].pc = "load"
    /\ req' = [req EXCEPT ![r].pc = "act", ![r].ref = LoadRef(req[r].job, r)]
    /\ UNCHANGED <<stored, lock, printIdem, queued, inProg, wk, disk, bucket, crashes, history>>
    /\ obj' = Sweep(LoadHeap(req[r].job, r))

BadAcceptsAck(r) == obj[req[r].ref].state # "failed"
AcceptsAck(r) == obj[req[r].ref].state = "preview_ready"

RefuseAck(r) ==
    /\ req[r].pc = "act" /\ req[r].op = "ack"
    /\ ~AcceptsAck(r)
    /\ req' = [req EXCEPT ![r] = NoReq]
    /\ UNCHANGED <<stored, lock, printIdem, queued, inProg, wk, disk, bucket, crashes, history>>
    /\ obj' = Sweep(obj)

(* The record object is changed and the key recorded (not NX) before the   *)
(* record is saved.                                                        *)
printAck(r) ==
    /\ req[r].pc = "act" /\ req[r].op = "ack"
    /\ AcceptsAck(r)
    /\ obj' = [obj EXCEPT ![req[r].ref].state = "print_acknowledged"]
    /\ printIdem' = [printIdem EXCEPT ![req[r].arg] = req[r].job]
    /\ req' = [req EXCEPT ![r].pc = "save"]
    /\ UNCHANGED <<stored, lock, queued, inProg, wk, disk, bucket, crashes, history>>

SaveAck(r) ==
    /\ req[r].pc = "save"
    /\ req' = [req EXCEPT ![r] = NoReq]
    /\ UNCHANGED <<lock, printIdem, queued, inProg, wk, disk, bucket, crashes, history>>
    /\ setJob(req[r].job, obj, obj[req[r].ref])

-----------------------------------------------------------------------------
(* Pipeline workers: runBackgroundAdvance ("advance") and runFullPipeline  *)
(* ("full"), both around advancePipelineAsync.                             *)

Waiting(w) == queued[QueueOf(ReplicaOf[w])]
TakeTask(w) ==
    /\ wk[w].pc = "idle"
    /\ Waiting(w) # <<>>
    /\ queued' = [queued EXCEPT ![QueueOf(ReplicaOf[w])] = Tail(@)]

(* inProgressJobs: a replica runs a job once at a time *)
BadInProgress(w, j) == FALSE
InProgress(w, j) == j \in inProg[ReplicaOf[w]]

SkipTask(w) ==
    /\ TakeTask(w)
    /\ Head(Waiting(w)).kind = "advance"
    /\ InProgress(w, Head(Waiting(w)).job)
    /\ UNCHANGED <<obj, stored, lock, printIdem, inProg, req, wk, disk, bucket, crashes, history>>

runBackgroundAdvance(w) ==
    LET j == Head(Waiting(w)).job IN
    /\ TakeTask(w)
    /\ Head(Waiting(w)).kind = "advance"
    /\ ~InProgress(w, j)
    /\ inProg' = [inProg EXCEPT ![ReplicaOf[w]] = @ \cup {j}]
    /\ wk' = [wk EXCEPT ![w] = [NoTask EXCEPT
                 !.pc = IF SharedRecords THEN "get" ELSE "lock", !.job = j]]
    /\ UNCHANGED <<obj, stored, lock, printIdem, req, disk, bucket, crashes, history>>

(* no lock, and no look at inProgressJobs *)
runFullPipeline(w) ==
    /\ TakeTask(w)
    /\ Head(Waiting(w)).kind = "full"
    /\ wk' = [wk EXCEPT ![w] = [NoTask EXCEPT
                 !.pc = "get", !.kind = "full", !.job = Head(Waiting(w)).job]]
    /\ loose' = loose \cup {Head(Waiting(w)).job}
    /\ UNCHANGED <<obj, stored, lock, printIdem, inProg, req, disk, bucket, crashes, late>>

(* SET NX with a TTL, retried until JOB_ADVANCE_LOCK_WAIT_MS has passed    *)
BadLockFree(j) == TRUE
LockFree(j) == lock[j] = None

acquireJobAdvanceLock(w) ==
    /\ wk[w].pc = "lock"
    /\ IF LockFree(wk[w].job)
       THEN /\ lock' = [lock EXCEPT ![wk[w].job] = w]
            /\ wk' = [wk EXCEPT ![w].pc = "get"]
       ELSE /\ wk' = [wk EXCEPT ![w].pc = "exit"]
            /\ UNCHANGED lock
    /\ UNCHANGED <<obj, stored, printIdem, queued, inProg, req, disk, bucket, crashes, history>>

LoadJob(w) ==
    /\ wk[w].pc = "get"
    /\ wk' = [wk EXCEPT ![w].pc = "advance", ![w].ref = LoadRef(wk[w].job, w)]
    /\ UNCHANGED <<stored, lock, printIdem, queued, inProg, req, disk, bucket, crashes, history>>
    /\ obj' = Sweep(LoadHeap(wk[w].job, w))

(* advancePipelineAsync enters the loop at the stage the record is in      *)
StageCall(s) == CASE s = "audio_received" -> "asr"
                  [] s = "asr_complete" -> "mod"
                  [] s = "moderation_passed" -> "img"
                  [] s = "image_generation" -> "fin"

BeginStages(w) ==
    LET rec == obj[wk[w].ref] IN
    /\ wk[w].pc = "advance"
    /\ rec.state \in Stages
    /\ inProg' = [inProg EXCEPT ![ReplicaOf[w]] = @ \cup {wk[w].job}]
    /\ wk' = [wk EXCEPT ![w].pc = StageCall(rec.state),
                 ![w].in = IF rec.state \in {"asr_complete", "moderation_passed"}
                           THEN rec.transcript ELSE None]
    /\ UNCHANGED <<obj, stored, lock, printIdem, queued, req, disk, bucket, crashes, history>>

(* Nothing to advance: the record is written back as it was read.  On the  *)
(* way out through finally the guard is dropped, except on the early       *)
(* return of a terminal record.  runFullPipeline ends without a write.     *)
NothingToAdvance(w) ==
    LET s == obj[wk[w].ref].state IN
    /\ wk[w].pc = "advance"
    /\ s \notin Stages
    /\ IF wk[w].kind = "full"
       THEN wk' = [wk EXCEPT ![w] = NoTask] /\ UNCHANGED inProg
       ELSE /\ wk' = [wk EXCEPT ![w].pc = "write"]
            /\ inProg' = [inProg EXCEPT ![ReplicaOf[w]] =
                 IF s \in {"failed", "print_acknowledged"} THEN @ ELSE @ \ {wk[w].job}]
    /\ UNCHANGED <<stored, lock, printIdem, queued, req, disk, bucket, crashes, history>>
    /\ obj' = Sweep(obj)

(* A stage's vendor call has answered: the object is updated and the next  *)
(* call reads its input from the object, in one callback.                  *)
Stage(w, pc, rec, next, in) ==
    /\ wk[w].pc = pc
    /\ obj' = [obj EXCEPT ![wk[w].ref] = rec]
    /\ wk' = [wk EXCEPT ![w].pc = next, ![w].in = in]
    /\ UNCHANGED <<stored, lock, printIdem, queued, req, disk, crashes, history>>

BadLeaveStages(w) == UNCHANGED inProg
LeaveStages(w) ==
    inProg' = [inProg EXCEPT ![ReplicaOf[w]] = @ \ {wk[w].job}]
StayInStages == UNCHANGED <<inProg, bucket>>

BadTranscribed(rec, t) == [rec EXCEPT !.state = "asr_done", !.transcript = t]
Transcribed(rec, t) == [rec EXCEPT !.state = "asr_complete", !.transcript = t]

resolveTranscript(w, t) ==
    /\ Stage(w, "asr", Transcribed(obj[wk[w].ref], t), "mod", t)
    /\ StayInStages

BadApproved(text) == TRUE
Approved(text) == text \in Safe

moderateTranscript(w) ==
    LET rec == obj[wk[w].ref] IN
    /\ Approved(wk[w].in)
    /\ Stage(w, "mod", [rec EXCEPT !.state = "moderation_passed"], "img",
             rec.transcript)
    /\ StayInStages

runImageGeneration(w) ==
    /\ Stage(w, "img", [obj[wk[w].ref] EXCEPT !.state = "image_generation"],
             "fin", wk[w].in)
    /\ StayInStages

WithPreview(rec, picture) ==
    [rec EXCEPT !.preview = picture, !.state = "preview_ready"]

(* finalizePreview.  S3 refuses an upload that is off, too large or lost;  *)
(* the preview is then the picture itself, or the vendor's URL of it.      *)
UploadPreview(w) ==
    /\ S3Preview
    /\ wk[w].in # None
    /\ Stage(w, "fin", obj[wk[w].ref], "sign", wk[w].in)
    /\ bucket' = [bucket EXCEPT ![wk[w].job] = wk[w].in]
    /\ UNCHANGED inProg

(* Without a pending picture the object in S3 is linked, and nobody looks  *)
(* whether it is there.                                                    *)
MayLink(w) ==
    \/ wk[w].pc = "sign"
    \/ wk[w].pc = "fin" /\ wk[w].in = None /\ S3Preview

finalizePreview(w) ==
    /\ wk[w].pc \in {"fin", "sign"}
    /\ \E picture \in {wk[w].in} \cup (IF MayLink(w) THEN {Link} ELSE {}) :
         /\ picture # None
         /\ Stage(w, wk[w].pc, WithPreview(obj[wk[w].ref], picture), "write", None)
    /\ LeaveStages(w)
    /\ UNCHANGED bucket

(* Moderation refuses, a vendor fails, or there is no picture to finalize  *)
(* and no link to one                                                      *)
markFailed(w) ==
    /\ \/ wk[w].pc \in {"asr", "mod", "img"}
       \/ wk[w].pc = "fin" /\ wk[w].in = None
    /\ Stage(w, wk[w].pc, [obj[wk[w].ref] EXCEPT !.state = "failed"], "write", None)
    /\ LeaveStages(w)
    /\ UNCHANGED bucket

WriteJob(w) ==
    /\ wk[w].pc = "write"
    /\ wk' = [wk EXCEPT ![w] =
                 IF @.kind = "full" THEN NoTask
                 ELSE [@ EXCEPT !.pc = IF SharedRecords THEN "exit" ELSE "release",
                                !.ref = None]]
    /\ UNCHANGED <<lock, printIdem, queued, inProg, req, disk, bucket, crashes, history>>
    /\ setJob(wk[w].job, obj, obj[wk[w].ref])

(* the Lua script deletes the lock only if it still carries our token      *)
releaseJobAdvanceLock(w) ==
    /\ wk[w].pc = "release"
    /\ lock' = [lock EXCEPT ![wk[w].job] = IF @ = w THEN None ELSE @]
    /\ wk' = [wk EXCEPT ![w].pc = "exit"]
    /\ late' = late \ {w}
    /\ UNCHANGED <<obj, stored, printIdem, queued, inProg, req, disk, bucket, crashes, loose>>

ExitAdvance(w) ==
    /\ wk[w].pc = "exit"
    /\ LeaveStages(w)
    /\ wk' = [wk EXCEPT ![w] = NoTask]
    /\ UNCHANGED <<obj, stored, lock, printIdem, queued, req, disk, bucket, crashes, history>>

-----------------------------------------------------------------------------
(* Time and failure *)

Holding(w, j) ==
    /\ wk[w].job = j /\ wk[w].kind = "advance"
    /\ wk[w].pc \in {"get", "advance", "asr", "mod", "img", "fin", "sign",
                   "write", "release"}

(* The TTL runs out, of a dead holder or of one whose run is longer than   *)
(* JOB_ADVANCE_LOCK_TTL_SEC: 120 s by default, where one vendor call may   *)
(* take 180 s.                                                             *)
LockLapse(j) ==
    /\ lock[j] # None
    /\ lock' = [lock EXCEPT ![j] = None]
    /\ IF Holding(lock[j], j)
       THEN late' = late \cup {lock[j]} /\ loose' = loose \cup {j}
       ELSE UNCHANGED history
    /\ UNCHANGED <<obj, stored, printIdem, queued, inProg, req, wk, disk, bucket, crashes>>

Snapshot == [jobs |-> [j \in Jobs |-> IF Exists(j) THEN obj[stored[j]] ELSE Free],
             idem |-> printIdem]

(* The 400 ms debounce timer of schedulePersist fires, at any later time   *)
flushPersistenceSync ==
    /\ SharedRecords
    /\ disk # Snapshot
    /\ disk' = Snapshot
    /\ UNCHANGED <<obj, stored, lock, printIdem, queued, inProg, req, wk, bucket,
                   crashes, history>>

(* A restarted in-memory process reads the file back                       *)
seedMemoryFromJobs ==
    /\ stored' = [j \in Jobs |->
                    IF disk.jobs[j] = Free THEN None ELSE j]
    /\ printIdem' = disk.idem
    /\ obj' = [o \in Objs |->
                 IF o \in Jobs THEN disk.jobs[o] ELSE Free]

Crash(p) ==
    /\ crashes[p] < MaxCrashes[p]
    /\ crashes' = [crashes EXCEPT ![p] = @ + 1]
    /\ wk' = [w \in Workers |-> IF ReplicaOf[w] = p THEN NoTask ELSE wk[w]]
    /\ req' = [r \in Requests |-> IF req[r].rep = p THEN NoReq ELSE req[r]]
    /\ inProg' = [inProg EXCEPT ![p] = {}]
    /\ queued' = [q \in Queues |-> IF q = p THEN <<>> ELSE queued[q]]
    /\ late' = {w \in late : ReplicaOf[w] # p}
    /\ UNCHANGED <<lock, disk, bucket, loose>>
    /\ IF SharedRecords THEN seedMemoryFromJobs
       ELSE UNCHANGED <<stored, printIdem>> /\ obj' = Sweep(obj)

-----------------------------------------------------------------------------
HandleUpload(r) ==
    RefuseUpload(r) \/ StageAudio(r) \/ uploadChunk(r) \/ attachText(r) \/ EnqueueTask(r)
HandleAck(r) == LoadAck(r) \/ RefuseAck(r) \/ printAck(r) \/ SaveAck(r)

VendorAnswers(w) ==
    \/ \E t \in Texts : resolveTranscript(w, t)
    \/ moderateTranscript(w)
    \/ runImageGeneration(w)
    \/ UploadPreview(w)
    \/ finalizePreview(w)
    \/ markFailed(w)
WorkerRuns(w) ==
    \/ SkipTask(w)
    \/ runBackgroundAdvance(w)
    \/ runFullPipeline(w)
    \/ acquireJobAdvanceLock(w)
    \/ LoadJob(w)
    \/ BeginStages(w)
    \/ NothingToAdvance(w)
    \/ WriteJob(w)
    \/ releaseJobAdvanceLock(w)
    \/ ExitAdvance(w)

Client ==
    \E rep \in Replicas, j \in Jobs :
      \/ createJob(j)
      \/ \E r \in Requests, t \in Texts : createJobFromTranscript(r, j, t, rep)
      \/ advanceJob(j, rep)
      \/ \E r \in Requests, k \in Keys : BeginAck(r, j, k, rep)
      \/ \E r \in Requests, op \in {"audio", "chunk", "text"}, t \in Texts :
           BeginUpload(r, op, j, t, rep)

(***************************************************************************)
(* In the in-memory backend the store's awaits resolve without I/O: Node   *)
(* drains those microtasks before the next request, timer or vendor answer.*)
(* Redis answers are I/O themselves.                                       *)
(***************************************************************************)
Microtasks ==
    /\ SharedRecords
    /\ \/ \E r \in Requests : req[r].pc \in {"act", "enqueue", "load", "save"}
       \/ \E w \in Workers :
            \/ wk[w].pc \in {"get", "advance", "write", "exit"}
            \/ wk[w].pc = "idle" /\ Waiting(w) # <<>>

Answer(w) == ~Microtasks /\ VendorAnswers(w)
Upload(r) ==
    /\ req[r].pc = "stage" => ~Microtasks
    /\ attachAudio(r)
Request == ~Microtasks /\ Client

Next ==
    \/ Request
    \/ \E r \in Requests : HandleUpload(r) \/ Upload(r) \/ HandleAck(r)
    \/ \E w \in Workers : WorkerRuns(w) \/ Answer(w)
    \/ \E j \in Jobs : LockLapse(j)
    \/ ~Microtasks /\ flushPersistenceSync
    \/ \E p \in Replicas : ~Microtasks /\ Crash(p)

(***************************************************************************)
(* Fairness: a slot takes a waiting task (slots are interchangeable, so    *)
(* which one does is a matter of naming); its vendor calls answer or time  *)
(* out; a device polls advance until its job is idle or over (strong where *)
(* a step waits for microtasks of others); a lock that nobody releases     *)
(* runs out; a handler that is running goes on.  Clients owe nothing else, *)
(* and a crash is never required.                                          *)
(***************************************************************************)
Fairness ==
    /\ \A w \in Workers : SF_vars(WorkerRuns(w) \/ Answer(w))
    /\ \A r \in Requests : WF_vars(HandleUpload(r) \/ HandleAck(r))
    /\ \A j \in Jobs : WF_vars(LockLapse(j))
    /\ \A j \in Jobs : SF_vars(~Microtasks /\ \E p \in Replicas : advanceJob(j, p))

Spec == Init /\ [][Next]_vars
FairSpec == Spec /\ Fairness

-----------------------------------------------------------------------------
State(j) == IF Exists(j) THEN obj[stored[j]].state ELSE "none"

(* Every preview a job ever carries, in memory, in Redis, in S3 or in the  *)
(* mirror file, was drawn from a text moderation let through: the image    *)
(* call reads the transcript again after moderation answered, so nothing   *)
(* may change it in between.  And whoever reads a job in preview_ready or  *)
(* print_acknowledged finds a preview in it (comment at                    *)
(* jobs.service.ts:774).                                                   *)
ReadyShowsApproved ==
    /\ \A o \in Objs : obj[o].preview \in Safe \cup {None, Link}
    /\ \A j \in Jobs :
         /\ disk.jobs[j].preview \in Safe \cup {None, Link}
         /\ bucket[j] \in Safe \cup {None}
         /\ State(j) \in Ready => obj[stored[j]].preview # None

(* advance "uses a distributed lock to prevent concurrent advancement"     *)
(* (device-v1-mvp.yaml:213): of the runBackgroundAdvance runs on one job   *)
(* whose TTL has not passed, at most one is between its acquisition and    *)
(* its release.  So a run that outlived its TTL does not release the lock  *)
(* of the one that took over.                                              *)
LockExclusive ==
    \A j \in Jobs, w, x \in Workers \ late :
      ~SharedRecords /\ Holding(w, j) /\ Holding(x, j) => w = x

(* One replica never runs two vendor chains on the same record object: the *)
(* other could replace the transcript between moderation and drawing.      *)
InStages(w) == wk[w].pc \in {"asr", "mod", "img", "fin", "sign"}
StagesOwnRecord ==
    \A w, x \in Workers :
      InStages(w) /\ InStages(x) /\ wk[w].ref = wk[x].ref => w = x

(* The picture behind a job's preview                                      *)
Picture(j) ==
    IF ~Exists(j) THEN None
    ELSE IF obj[stored[j]].preview = Link THEN bucket[j] ELSE obj[stored[j]].preview

(* A key that was answered names a job with a picture, unless a pipeline   *)
(* has run on the job without the lock.                                    *)
AckedHasPreview ==
    \A k \in Keys, j \in Jobs \ loose : printIdem[k] = j => Picture(j) # None

(* advance leaves a terminal job as it is (device-v1-mvp.yaml:214): a job  *)
(* whose print was acknowledged stays acknowledged.                        *)
AckIsFinal ==
    [][\A j \in Jobs : State(j) = "print_acknowledged"
                          => State(j)' = "print_acknowledged"]_vars

(* The detailed record, seen as the promise of JobLifecycle.               *)
Phase(j) ==
    CASE State(j) = "none" -> "none"
      [] State(j) = "created" -> "open"
      [] State(j) \in Stages -> "working"
      [] State(j) = "preview_ready" -> "ready"
      [] State(j) = "print_acknowledged" -> "acked"
      [] State(j) = "failed" -> "failed"

Life == INSTANCE JobLifecycle WITH
    phase <- [j \in Jobs |-> Phase(j)],
    shown <- [j \in Jobs |-> Picture(j)]

(* With one request at a time the store's record keeps the promise,        *)
(* crashes, races of replicas and locks that run out included.             *)
KeepsPromise == Life!LifeSpec

(* No job is stuck in the pipeline: it leaves the stages for preview_ready *)
(* or failed, or, when the replica crashed before the mirror file caught   *)
(* up, for the older record the restart brings back.                       *)
JobResolves ==
    \A j \in Jobs : State(j) \in Stages ~> State(j) \notin Stages
=============================================================================
