------------------------------ MODULE JobIntake ------------------------------
(***************************************************************************)
(* How a job comes into being and gets its audio: POST /v1/jobs with an    *)
(* Idempotency-Key (createJob) and the chunked upload (uploadChunk), as a  *)
(* device on a weak network drives them                                    *)
(* (cloud/apps/device-api/src/jobs/jobs.service.ts and                     *)
(* job-state-store.service.ts).                                            *)
(*                                                                         *)
(* The device is sequential: it repeats a request until it is answered,    *)
(* then sends the next one.  An earlier attempt may still be running when  *)
(* it repeats a create; Patient says whether it waits for the end of an    *)
(* upload attempt before it repeats that one (its timeout is longer than   *)
(* the server's work, only answers get lost).                              *)
(*                                                                         *)
(* A handler is cut at its awaits.  Over Redis each of them is a round     *)
(* trip at whose moment the command takes effect, on a record only the     *)
(* handler sees.  In memory the record is the one the Map holds, changed   *)
(* in place, and only the S3 upload really waits: everything else runs     *)
(* before the next event (Busy).                                           *)
(*                                                                         *)
(* DeviceJobs has the rest of the life of a job.  Left out here: a create  *)
(* without a key (the same handler without its lookups), invalid bodies    *)
(* (answered 400 before anything is read), expiry of records, the mirror   *)
(* file and the migration between Redis and a file.                        *)
(***************************************************************************)
EXTENDS Integers, FiniteSets

CONSTANTS
    Creates,    \* create requests; the job id a request mints is named after it
    Uploads,    \* upload requests that may be in flight at once
    Final,      \* the seq of the last chunk
    Setups,     \* deployments and devices to consider, see Setup
    Patient,    \* the device repeats an upload only when the attempt is over
    MaxLosses,  \* attempts that time out, die or whose answer is lost
    None

(* redis: the backend; s3: audio staging is configured; cap: the number of *)
(* chunks whose audio still fits MAX_AUDIO_B64_LEN; bare: the device       *)
(* closes with {final:true} and no seq                                     *)
Setup == [redis : BOOLEAN, s3 : BOOLEAN, cap : Nat, bare : BOOLEAN]

ASSUME SetupAssumption == Setups \subseteq Setup
ASSUME FinalAssumption == Final \in Nat
ASSUME PatientAssumption == Patient \in BOOLEAN
ASSUME LossAssumption ==
    MaxLosses \in Nat /\ IsFiniteSet(Creates) /\ Cardinality(Creates) > MaxLosses
ASSUME IntakeNoneAssumption ==
    None \notin Creates \cup Uploads /\ Creates \cap Uploads = {}

VARIABLES
    setup,      \* one of Setups, for good
    store,      \* job records
    key,        \* the job the device's Idempotency-Key stands for
    s3,         \* audio staged in S3 under each job's key
    cr,         \* create handlers
    up,         \* upload handlers
    answered,   \* every job id a create was answered with, received or not
    dev,        \* the device
    losses, deaths

jvars == <<setup, store, key, s3, cr, up, answered, dev, losses, deaths>>

Chunks == 0..Final
(* hwm is chunks_max_seq (-1 when absent), buf the seqs in                 *)
(* audio_chunk_buffers, inline what audio_base64 was merged from           *)
Rec == [state : {"none", "created", "audio_received"}, hwm : -1..Final,
        buf : SUBSET Chunks, staged : BOOLEAN, inline : SUBSET Chunks]
NoRec == [state |-> "none", hwm |-> -1, buf |-> {}, staged |-> FALSE,
          inline |-> {}]
NewJob == [NoRec EXCEPT !.state = "created"]

NoUpload == [pc |-> "idle", job |-> None, seq |-> 0, rec |-> NoRec, parts |-> {}]

CreatePCs == {"unused", "look", "hit", "store", "claim", "winner", "drop",
              "read", "over"}

IntakeTypeOK ==
    /\ setup \in Setups
    /\ store \in [Creates -> Rec]
    /\ key \in Creates \cup {None}
    /\ s3 \in [Creates -> SUBSET Chunks]
    /\ cr \in [Creates -> [pc : CreatePCs, seen : Creates \cup {None}]]
    /\ up \in [Uploads -> [pc : {"idle", "load", "stage", "save"},
                           job : Creates \cup {None}, seq : Chunks,
                           rec : Rec, parts : SUBSET Chunks]]
    /\ answered \subseteq Creates
    /\ dev \in [phase : {"create", "upload", "done", "refused", "failed"},
                seq : Chunks, job : Creates \cup {None},
                wait : Creates \cup Uploads \cup {None}]
    /\ losses \in 0..MaxLosses
    /\ deaths \in 0..losses

IntakeInit ==
    /\ setup \in Setups
    /\ store = [j \in Creates |-> NoRec]
    /\ key = None
    /\ s3 = [j \in Creates |-> {}]
    /\ cr = [c \in Creates |-> [pc |-> "unused", seen |-> None]]
    /\ up = [u \in Uploads |-> NoUpload]
    /\ answered = {}
    /\ dev = [phase |-> "create", seq |-> 0, job |-> None, wait |-> None]
    /\ losses = 0
    /\ deaths = 0

Exists(j) == store[j].state # "none"

(* In memory a handler runs through its awaits before the next event *)
Busy ==
    /\ ~setup.redis
    /\ \/ \E c \in Creates : cr[c].pc \notin {"unused", "over"}
       \/ \E u \in Uploads : up[u].pc \in {"load", "save"}

-----------------------------------------------------------------------------
(* The device *)

SendCreate(c) ==
    /\ ~Busy
    /\ dev.phase = "create" /\ dev.wait = None
    /\ cr[c].pc = "unused"
    /\ cr' = [cr EXCEPT ![c].pc = "look"]
    /\ dev' = [dev EXCEPT !.wait = c]
    /\ UNCHANGED <<setup, store, key, s3, up, answered, losses, deaths>>

SendChunk(u) ==
    /\ ~Busy
    /\ dev.phase = "upload" /\ dev.wait = None
    /\ up[u].pc = "idle"
    /\ up' = [up EXCEPT ![u] = [NoUpload EXCEPT !.pc = "load", !.job = dev.job,
                                                !.seq = dev.seq]]
    /\ dev' = [dev EXCEPT !.wait = u]
    /\ UNCHANGED <<setup, store, key, s3, cr, answered, losses, deaths>>

(* The device stops waiting while the attempt goes on *)
StopWaiting ==
    /\ ~Busy
    /\ dev.wait # None
    /\ dev.wait \in Uploads => ~Patient
    /\ losses < MaxLosses
    /\ losses' = losses + 1
    /\ dev' = [dev EXCEPT !.wait = None]
    /\ UNCHANGED <<setup, store, key, s3, cr, up, answered, deaths>>

(* What the device makes of the answer to the request it waits for *)
Hears(status, job) ==
    CASE dev.phase = "create" -> [dev EXCEPT !.phase = "upload", !.job = job,
                                             !.wait = None]
      [] status = 200 /\ dev.seq < Final -> [dev EXCEPT !.seq = @ + 1, !.wait = None]
      [] status = 200 /\ dev.seq = Final -> [dev EXCEPT !.phase = "done", !.wait = None]
      [] status = 409 -> [dev EXCEPT !.phase = "refused", !.wait = None]
      [] status = 400 -> [dev EXCEPT !.phase = "failed", !.wait = None]

(* A handler answers: the device hears it, unless it has stopped waiting   *)
(* or the answer is lost.                                                  *)
Answer(h, status, job) ==
    IF dev.wait # h THEN UNCHANGED <<dev, losses>>
    ELSE \/ dev' = Hears(status, job) /\ UNCHANGED losses
         \/ /\ losses < MaxLosses
            /\ losses' = losses + 1
            /\ dev' = [dev EXCEPT !.wait = None]

-----------------------------------------------------------------------------
(* createJob *)

CreateStep(c, from, to, seen) ==
    /\ cr[c].pc = from
    /\ cr' = [cr EXCEPT ![c] = [pc |-> to, seen |-> seen]]
    /\ UNCHANGED <<setup, s3, up, deaths>>

Waits == UNCHANGED <<answered, dev, losses>>
Created(c, job) ==
    /\ answered' = answered \cup {job}
    /\ Answer(c, 201, job)

getCreateIdem(c) ==
    /\ CreateStep(c, "look", IF key = None THEN "store" ELSE "hit", key)
    /\ Waits /\ UNCHANGED <<store, key>>

(* the replay answers the job as it is; a key without its job is no hit    *)
Replay(c) ==
    LET hit == Exists(cr[c].seen) IN
    /\ CreateStep(c, "hit", IF hit THEN "over" ELSE "store", None)
    /\ IF hit THEN Created(c, cr[c].seen) ELSE Waits
    /\ UNCHANGED <<store, key>>

StoreJob(c) ==
    /\ CreateStep(c, "store", "claim", None)
    /\ store' = [store EXCEPT ![c] = NewJob]
    /\ Waits /\ UNCHANGED key

BadClaimed == TRUE
Claimed == key = None

setCreateIdemNx(c) ==
    /\ CreateStep(c, "claim", IF Claimed THEN "over" ELSE "winner", None)
    /\ IF Claimed THEN key' = c /\ Created(c, c) ELSE UNCHANGED key /\ Waits
    /\ UNCHANGED store

LookUpWinner(c) ==
    /\ CreateStep(c, "winner", "drop", key)
    /\ Waits /\ UNCHANGED <<store, key>>

BadDropped(c) == {}
Dropped(c) == {c}

deleteJob(c) ==
    /\ CreateStep(c, "drop", "read", cr[c].seen)
    /\ store' = [j \in Creates |-> IF j \in Dropped(c) THEN NoRec ELSE store[j]]
    /\ Waits /\ UNCHANGED key

(* without the winner's record the deleted job itself is answered          *)
AnswerWinner(c) ==
    /\ CreateStep(c, "read", "over", None)
    /\ Created(c, IF Exists(cr[c].seen) THEN cr[c].seen ELSE c)
    /\ UNCHANGED <<store, key>>

createJob(c) ==
    \/ getCreateIdem(c) \/ Replay(c) \/ StoreJob(c) \/ setCreateIdemNx(c)
    \/ LookUpWinner(c) \/ deleteJob(c) \/ AnswerWinner(c)

-----------------------------------------------------------------------------
(* uploadChunk *)

Stored(u) == store[up[u].job]
Closing(u) == up[u].seq = Final
Bare(u) == Closing(u) /\ setup.bare

(* what a handler changes before its next await is in the Map at once in   *)
(* memory, and in its own copy over Redis                                  *)
InPlace(u, rec) ==
    store' = IF setup.redis THEN store ELSE [store EXCEPT ![up[u].job] = rec]

Over(u, status) ==
    /\ up' = [up EXCEPT ![u] = NoUpload]
    /\ Answer(u, status, None)

Uploading == UNCHANGED <<setup, key, cr, answered, deaths>>

RefuseUpload(u) ==
    /\ up[u].pc = "load"
    /\ Stored(u).state # "created"
    /\ Over(u, 409)
    /\ Uploading /\ UNCHANGED <<store, s3>>

BadDuplicate(u) == ~Bare(u) /\ up[u].seq <= Stored(u).hwm + 1
Duplicate(u) == ~Bare(u) /\ up[u].seq <= Stored(u).hwm

IgnoreDuplicate(u) ==
    /\ up[u].pc = "load"
    /\ Stored(u).state = "created"
    /\ Duplicate(u)
    /\ Over(u, 200)
    /\ Uploading /\ UNCHANGED <<store, s3>>

Accepts(u) ==
    /\ up[u].pc = "load"
    /\ Stored(u).state = "created"
    /\ ~Duplicate(u)

BadWithChunk(u) == [Stored(u) EXCEPT !.hwm = up[u].seq, !.buf = {up[u].seq}]
WithChunk(u) == [Stored(u) EXCEPT !.hwm = up[u].seq, !.buf = @ \cup {up[u].seq}]

KeepChunk(u) ==
    /\ Accepts(u) /\ ~Closing(u)
    /\ up' = [up EXCEPT ![u].pc = "save", ![u].rec = WithChunk(u)]
    /\ InPlace(u, WithChunk(u))
    /\ Uploading /\ UNCHANGED <<s3, dev, losses>>

mergeAudioChunks(u) == WithChunk(u).buf
Fits(u) == Cardinality(mergeAudioChunks(u)) <= setup.cap

(* AUDIO_ASSEMBLY_TOO_LARGE, after the chunk has been added                *)
RejectOversize(u) ==
    /\ Accepts(u) /\ Closing(u) /\ ~Bare(u) /\ ~Fits(u)
    /\ InPlace(u, WithChunk(u))
    /\ Over(u, 400)
    /\ Uploading /\ UNCHANGED s3

Emptied(rec) == [rec EXCEPT !.hwm = -1, !.buf = {}]
BadWithInline(rec, parts) ==
    [rec EXCEPT !.inline = parts, !.staged = FALSE, !.state = "audio_complete"]
WithInline(rec, parts) ==
    [rec EXCEPT !.inline = parts, !.staged = FALSE, !.state = "audio_received"]

(* the chunks are merged and dropped; the audio goes to S3, or stays inline*)
CloseUpload(u) ==
    LET emptied == Emptied(WithChunk(u))
        merged == mergeAudioChunks(u)
        kept == WithInline(emptied, merged)
    IN
    /\ Accepts(u) /\ Closing(u) /\ ~Bare(u) /\ Fits(u)
    /\ up' = [up EXCEPT ![u] =
           [@ EXCEPT !.pc = IF setup.s3 THEN "stage" ELSE "save",
                     !.rec = IF setup.s3 THEN emptied ELSE kept,
                     !.parts = merged]]
    /\ InPlace(u, IF setup.s3 THEN emptied ELSE kept)
    /\ Uploading /\ UNCHANGED <<s3, dev, losses>>

(* attachAudio without audio: what was uploaded before is dropped          *)
CloseBare(u) ==
    LET rec == [Emptied(Stored(u)) EXCEPT !.state = "audio_received"] IN
    /\ Accepts(u) /\ Bare(u)
    /\ up' = [up EXCEPT ![u].pc = "save", ![u].rec = rec]
    /\ InPlace(u, rec)
    /\ Uploading /\ UNCHANGED <<s3, dev, losses>>

(* the upload to S3 ends, under the job's key, or fails                    *)
storeAudioRef(u) ==
    LET rec == up[u].rec IN
    /\ ~Busy
    /\ up[u].pc = "stage"
    /\ \/ /\ s3' = [s3 EXCEPT ![up[u].job] = up[u].parts]
          /\ up' = [up EXCEPT ![u].pc = "save", ![u].rec =
               [rec EXCEPT !.staged = TRUE, !.inline = {}, !.state = "audio_received"]]
       \/ /\ UNCHANGED s3
          /\ up' = [up EXCEPT ![u].pc = "save",
                              ![u].rec = WithInline(rec, up[u].parts)]
    /\ Uploading /\ UNCHANGED <<store, dev, losses>>

setJob(u) ==
    /\ up[u].pc = "save"
    /\ store' = [store EXCEPT ![up[u].job] = up[u].rec]
    /\ Over(u, 200)
    /\ Uploading /\ UNCHANGED s3

uploadChunk(u) ==
    \/ RefuseUpload(u) \/ IgnoreDuplicate(u) \/ KeepChunk(u) \/ RejectOversize(u)
    \/ CloseUpload(u) \/ CloseBare(u) \/ storeAudioRef(u) \/ setJob(u)

-----------------------------------------------------------------------------
(* A replica over Redis dies in the middle of a handler                    *)
Die(h) ==
    /\ setup.redis
    /\ losses < MaxLosses
    /\ losses' = losses + 1
    /\ deaths' = deaths + 1
    /\ dev' = [dev EXCEPT !.wait = IF @ = h THEN None ELSE @]
    /\ UNCHANGED <<setup, store, key, s3, answered>>

CreateDies(c) ==
    /\ cr[c].pc \notin {"unused", "over"}
    /\ Die(c)
    /\ cr' = [cr EXCEPT ![c] = [pc |-> "over", seen |-> None]]
    /\ UNCHANGED up

UploadDies(u) ==
    /\ up[u].pc # "idle"
    /\ Die(u)
    /\ up' = [up EXCEPT ![u] = NoUpload]
    /\ UNCHANGED cr

IntakeNext ==
    \/ StopWaiting
    \/ \E c \in Creates : SendCreate(c) \/ createJob(c) \/ CreateDies(c)
    \/ \E u \in Uploads : SendChunk(u) \/ uploadChunk(u) \/ UploadDies(u)

Begun == \E c \in Creates : cr[c].pc # "unused"

(* A handler that runs goes on, and a device that has begun sends what it  *)
(* has to send; nothing has to be lost.                                    *)
IntakeFairness ==
    /\ \A c \in Creates : WF_jvars(createJob(c))
    /\ \A u \in Uploads : WF_jvars(uploadChunk(u))
    /\ WF_jvars(Begun /\ \E c \in Creates : SendCreate(c))
    /\ WF_jvars(\E u \in Uploads : SendChunk(u))

IntakeSpec == IntakeInit /\ [][IntakeNext]_jvars
IntakeFairSpec == IntakeSpec /\ IntakeFairness

-----------------------------------------------------------------------------
Heard(j) == IF store[j].staged THEN s3[j] ELSE store[j].inline
Quiet == \A c \in Creates : cr[c].pc \in {"unused", "over"}

(* "avoids duplicate creation on a weak network" (design doc 4, line 349): *)
(* whatever attempts overlap or die, all answers to one Idempotency-Key    *)
(* name one job, and that job is there and is never deleted again, though  *)
(* each attempt stores a job of its own first.                             *)
RetriesShareOneJob ==
    \A j, k \in answered : j = k /\ Exists(j) /\ key = j

(* Jobs that lost the race for the key do not pile up: what is stored when *)
(* no create runs is the winner, and at most one job per handler that died *)
(* between storing its job and dropping it.                                *)
NoOrphanJobs ==
    Quiet => Cardinality({j \in Creates : Exists(j)}) <= 1 + deaths

(* "fragments are concatenated in seq order when final:true" and           *)
(* "duplicate seq is idempotent" (device-v1-mvp.yaml:287): audio that goes *)
(* to the recogniser is every chunk of the recording.                      *)
UploadWhole ==
    \A j \in Creates :
      ~setup.bare /\ store[j].state = "audio_received" => Heard(j) = Chunks

(* A device that was told its last chunk is in, or that the upload is      *)
(* closed already, has its recording on the server.  The exception: in     *)
(* memory the chunk a too large upload was refused for stays, and its      *)
(* repetition is answered 200 as a duplicate.                              *)
ToldMeansHeard ==
    /\ dev.phase = "refused" => store[dev.job].state = "audio_received"
    /\ dev.phase = "done" =>
         \/ store[dev.job].state = "audio_received"
         \/ ~setup.redis /\ setup.cap <= Final

(* A recording that fits reaches the server in the end, once its device    *)
(* has begun.                                                              *)
UploadArrives ==
    Begun /\ setup.cap > Final ~> \E j \in Creates : store[j].state = "audio_received"
=============================================================================
