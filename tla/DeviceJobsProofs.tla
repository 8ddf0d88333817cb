--------------------------- MODULE DeviceJobsProofs ---------------------------
(***************************************************************************)
(* What DeviceJobs keeps for every number of jobs, requests, slots and     *)
(* replicas, on either backend.  The proof follows the record objects: who *)
(* refers to one, who may change it, and what its worker took from it.     *)
(* Over Redis every holder has its own copy.  In memory objects are        *)
(* shared, and what keeps two pipelines off one object is that Node runs   *)
(* one chain of microtasks at a time (OneChain), the guard inProgressJobs  *)
(* (Guarded), and the order of the queue (FullFirst).                      *)
(***************************************************************************)
EXTENDS DeviceJobs, FiniteSetTheorems, TLAPS

ReqRecord == [op : {"none", "audio", "chunk", "text", "speech", "ack"},
              pc : {"idle", "act", "stage", "enqueue", "load", "save"},
              job : Jobs \cup {None}, arg : Texts \cup Keys \cup {None},
              ref : Objs \cup {None}, rep : Replicas \cup {None}]
SlotRecord == [pc : {"idle", "lock", "get", "advance", "asr", "mod",
                     "img", "fin", "sign", "write", "release", "exit"},
               kind : {"advance", "full"}, job : Jobs \cup {None},
               ref : Objs \cup {None}, in : Texts \cup {None}]
Task == [kind : {"advance", "full"}, job : Jobs]

Types ==
    /\ obj \in [Objs -> JobRecord]
    /\ stored \in [Jobs -> Objs \cup {None}]
    /\ lock \in [Jobs -> Workers \cup {None}]
    /\ printIdem \in [Keys -> Jobs \cup {None}]
    /\ queued \in [Queues -> Seq(Task)]
    /\ inProg \in [Replicas -> SUBSET Jobs]
    /\ req \in [Requests -> ReqRecord]
    /\ wk \in [Workers -> SlotRecord]
    /\ disk \in [jobs : [Jobs -> JobRecord], idem : [Keys -> Jobs \cup {None}]]
    /\ crashes \in [Replicas -> Nat]
    /\ \A p \in Replicas : crashes[p] <= MaxCrashes[p]

Busy(w) == wk[w].pc # "idle"
HasRef(w) == wk[w].pc \in {"advance", "asr", "mod", "img", "fin", "sign", "write"}

(* A handler that runs, a slot that is busy and a task that waits are of a *)
(* job that exists, and hold the record they work on.                      *)
RequestKnown(r) ==
    /\ req[r].pc # "idle" =>
         req[r].job \in Jobs /\ Exists(req[r].job) /\ req[r].rep \in Replicas
    /\ req[r].pc \in {"act", "stage", "save"} => req[r].ref # None
    /\ req[r].op = "text" => req[r].arg \in Texts
    /\ req[r].op = "ack" => req[r].arg \in Keys
SlotKnown(w) ==
    /\ Busy(w) => wk[w].job \in Jobs /\ Exists(wk[w].job)
    /\ HasRef(w) => wk[w].ref # None
    /\ ~Busy(w) => wk[w].ref = None
Waits == \A q \in Queues : \A i \in DOMAIN queued[q] : Exists(queued[q][i].job)
Known ==
    /\ \A r \in Requests : RequestKnown(r)
    /\ \A w \in Workers : SlotKnown(w)
    /\ Waits

(* Over Redis a record object belongs to its holder alone.                 *)
Private ==
    ~SharedRecords =>
      /\ \A j \in Jobs : stored[j] \in {j, None}
      /\ \A r \in Requests : req[r].ref \in {r, None}
      /\ \A w \in Workers : wk[w].ref \in {w, None}

(* In memory an object that is stored or worked on is of one job.          *)
OneOwner ==
    SharedRecords =>
      /\ \A j, k \in Jobs : stored[j] = stored[k] /\ Exists(j) => j = k
      /\ \A w \in Workers, j \in Jobs :
           wk[w].ref = stored[j] /\ Exists(j) => wk[w].job = j
      /\ \A w, x \in Workers :
           wk[w].ref = wk[x].ref /\ wk[w].ref # None => wk[w].job = wk[x].job

(* In memory a request or a slot that continues in a microtask is the only *)
(* one, and while it runs no task waits for a slot that is idle.           *)
SoonReq(r) == req[r].pc \in {"act", "enqueue", "load", "save"}
SoonSlot(w) == wk[w].pc \in {"get", "advance", "write", "exit"}
OneSoon ==
    /\ \A r, s \in Requests : SoonReq(r) /\ SoonReq(s) => r = s
    /\ \A w, x \in Workers : SoonSlot(w) /\ SoonSlot(x) => w = x
    /\ \A r \in Requests, w \in Workers : ~(SoonReq(r) /\ SoonSlot(w))
OneTaken ==
    \A w \in Workers :
      ~Busy(w) /\ Waiting(w) # <<>> =>
        /\ \A r \in Requests : ~SoonReq(r)
        /\ \A x \in Workers : ~SoonSlot(x)
        /\ Len(Waiting(w)) = 1 \/ \A x \in Workers : ~Busy(x) => x = w
OneChain ==
    SharedRecords =>
      /\ OneSoon /\ OneTaken
      /\ \A w \in Workers : wk[w].pc \notin {"lock", "release"}

(* In memory no two slots work on one job: one in the stages is in         *)
(* inProgressJobs, and runFullPipeline, which does not look there, is      *)
(* first of all that run for its job, from createJobFromTranscript on.     *)
InMemoryOneSlot ==
    \A w, x \in Workers : Busy(w) /\ Busy(x) /\ wk[w].job = wk[x].job => w = x
Guarded ==
    \A w \in Workers : InStages(w) => wk[w].job \in inProg[ReplicaOf[w]]
FullFirst ==
    \A q \in Queues : \A i \in DOMAIN queued[q] :
      queued[q][i].kind = "full" =>
        /\ \A w \in Workers : Busy(w) => wk[w].job # queued[q][i].job
        /\ \A n \in 1..i-1 : queued[q][n].job # queued[q][i].job
Speech(r) == req[r].pc = "enqueue" /\ req[r].op = "speech"
SpeechFirst ==
    \A r \in Requests :
      Speech(r) =>
        /\ \A w \in Workers : Busy(w) => wk[w].job # req[r].job
        /\ \A q \in Queues : \A i \in DOMAIN queued[q] : queued[q][i].job # req[r].job
OneSlotPerJob ==
    SharedRecords => InMemoryOneSlot /\ Guarded /\ FullFirst /\ SpeechFirst

(* What a record may be, and what a worker took from its own: the text     *)
(* that was moderated is the text that is drawn.                           *)
GoodRecord(rec) ==
    /\ rec.preview \in Safe \cup {None, Link}
    /\ rec.state \in Ready => rec.preview # None
    /\ rec.state = "moderation_passed" => rec.transcript \in Safe
GoodRecords ==
    /\ \A o \in Objs : GoodRecord(obj[o])
    /\ \A j \in Jobs : GoodRecord(disk.jobs[j])
    /\ bucket \in [Jobs -> Safe \cup {None}]

Carries(w) ==
    InStages(w) =>
      /\ obj[wk[w].ref].state \in Stages
      /\ wk[w].pc = "mod" => wk[w].in = obj[wk[w].ref].transcript
      /\ wk[w].pc = "img" => wk[w].in \in Safe
      /\ wk[w].pc = "fin" => wk[w].in \in Safe \cup {None}
      /\ wk[w].pc = "sign" => wk[w].in \in Safe
Carried == \A w \in Workers : Carries(w)

HandlesOK == Types /\ Known /\ Private
ChainsOK == OneOwner /\ OneChain /\ OneSlotPerJob
IInv == HandlesOK /\ ChainsOK /\ GoodRecords /\ Carried

(* Over Redis a run between its acquisition and its release has the lock,  *)
(* or its TTL has passed, and then its job is loose, as is that of every   *)
(* runFullPipeline.                                                        *)
Marks == late \subseteq Workers /\ loose \subseteq Jobs
HasLock(w, j) == lock[j] = w \/ (w \in late /\ j \in loose)
HoldsLock ==
    /\ Marks
    /\ \A w \in Workers : Busy(w) /\ wk[w].kind = "full" => wk[w].job \in loose
    /\ ~SharedRecords =>
         \A j \in Jobs, w \in Workers : Holding(w, j) => HasLock(w, j)

-----------------------------------------------------------------------------
(* Addresses and the heap                                                  *)

LEMMA StateFacts ==
    /\ Stages = {"audio_received", "asr_complete", "moderation_passed", "image_generation"}
    /\ States = Stages \cup {"preview_ready", "print_acknowledged", "created", "failed"}
<1>1. Stages = {PipelineAfterAudio[1], PipelineAfterAudio[2], PipelineAfterAudio[3],
                PipelineAfterAudio[4]}
  BY DEF Stages
<1> QED BY <1>1 DEF States, Ready, PipelineAfterAudio

LEMMA AddressFacts ==
    /\ None \notin Objs /\ None \notin Texts /\ None \notin Jobs
    /\ \A j \in Jobs, r \in Requests : j # r
    /\ \A j \in Jobs, w \in Workers : j # w
    /\ \A r \in Requests, w \in Workers : r # w
    /\ Safe \subseteq Texts /\ ReplicaOf \in [Workers -> Replicas]
BY AddressAssumption, NoneAssumption, SafeAssumption, ReplicaAssumption DEF Objs

(* There is always an address no variable refers to: one spare beyond one  *)
(* for each holder of an object.                                           *)
LEMMA FreshIsFree ==
    ASSUME Types
    PROVE  Fresh \in Objs /\ Fresh \notin Live
<1> DEFINE Holders == Jobs \cup Requests \cup Workers
           refOf == [h \in Holders |-> IF h \in Jobs THEN stored[h]
                                       ELSE IF h \in Requests THEN req[h].ref
                                       ELSE wk[h].ref]
<1>1. \A o \in Live : \E h \in Holders : refOf[h] = o
  BY AddressFacts DEF Live
<1>2. IsFiniteSet(Holders) /\ IsFiniteSet(Objs)
  <2>1. IsFiniteSet(Jobs \cup Requests)
    BY AddressAssumption, FS_Union
  <2>2. IsFiniteSet(Holders)
    BY <2>1, AddressAssumption, FS_Union
  <2>3. Objs = Holders \cup Spare
    BY DEF Objs
  <2>4. IsFiniteSet(Spare)
    BY AddressAssumption
  <2> HIDE DEF Holders
  <2> QED BY <2>2, <2>3, <2>4, FS_Union
<1>3. Cardinality(Holders) < Cardinality(Objs)
  <2>1. PICK s \in Spare : TRUE
    BY AddressAssumption
  <2>2. Holders \subseteq Objs /\ s \in Objs /\ s \notin Holders
    BY <2>1, AddressAssumption DEF Objs
  <2> HIDE DEF Holders
  <2>3. Cardinality(Holders) <= Cardinality(Objs) /\ Cardinality(Holders) # Cardinality(Objs)
    BY <1>2, <2>2, FS_Subset
  <2> QED BY <1>2, <2>3, FS_CardinalityType
<1>4. ASSUME \A o \in Objs : o \in Live PROVE FALSE
  <2> DEFINE holder == [o \in Objs |-> CHOOSE h \in Holders : refOf[h] = o]
  <2> HIDE DEF Holders, refOf
  <2>1. \A o \in Objs : holder[o] \in Holders /\ refOf[holder[o]] = o
    BY <1>1, <1>4
  <2>2. holder \in [Objs -> Holders]
    BY <2>1
  <2> HIDE DEF holder
  <2>3. \E o, p \in Objs : o # p /\ holder[o] = holder[p]
    BY <1>2, <1>3, <2>2, FS_PigeonHole
  <2> QED BY <2>1, <2>3
<1> QED BY <1>4 DEF Fresh

(* What an object is after a step that leaves the heap h                   *)
LEMMA Swept ==
    ASSUME NEW h \in [Objs -> JobRecord], obj' = Sweep(h)
    PROVE  /\ obj' \in [Objs -> JobRecord]
           /\ \A o \in Objs : obj'[o] \in {h[o], Free}
           /\ \A o \in Objs : o \in Live' => obj'[o] = h[o]
<1>1. Free \in JobRecord
  BY DEF Free, NewRecord, JobRecord, States
<1> QED BY <1>1 DEF Sweep

LEMMA Loaded ==
    ASSUME Types, NEW j \in Jobs, Exists(j), NEW x \in Objs
    PROVE  /\ LoadHeap(j, x) \in [Objs -> JobRecord]
           /\ LoadRef(j, x) \in Objs
           /\ ~SharedRecords => LoadRef(j, x) = x
           /\ SharedRecords => LoadRef(j, x) = stored[j]
           /\ \A o \in Objs : \/ LoadHeap(j, x)[o] = obj[o]
                              \/ ~SharedRecords /\ o = x /\ LoadHeap(j, x)[o] = obj[stored[j]]
           /\ LoadHeap(j, x)[LoadRef(j, x)] = obj[stored[j]]
BY DEF Types, Exists, LoadHeap, LoadRef

(* setJob: a new object, or the one that is the job's own over Redis       *)
StoredAt(j, n, h, rec) ==
    /\ n \in Objs
    /\ SharedRecords => n \notin Live
    /\ ~SharedRecords => n = j
    /\ stored' = [stored EXCEPT ![j] = n]
    /\ obj' \in [Objs -> JobRecord]
    /\ \A o \in Objs : o # n => obj'[o] \in {h[o], Free}
    /\ \A o \in Objs : o # n /\ o \in Live' => obj'[o] = h[o]
    /\ obj'[n] = rec

LEMMA SetJob ==
    ASSUME Types, NEW j \in Jobs, NEW h \in [Objs -> JobRecord],
           NEW rec \in JobRecord, setJob(j, h, rec)
    PROVE  \E n : StoredAt(j, n, h, rec)
<1> DEFINE n == IF SharedRecords THEN Fresh ELSE j
           g == [h EXCEPT ![n] = rec]
<1>1. n \in Objs /\ (SharedRecords => n \notin Live)
  BY FreshIsFree DEF Objs
<1>2. g \in [Objs -> JobRecord]
  BY <1>1
<1>3. stored' = [stored EXCEPT ![j] = n] /\ obj' = Sweep(g)
  BY DEF setJob
<1>4. n \in Live'
  <2>1. stored'[j] = n /\ n # None
    BY <1>1, <1>3, AddressFacts DEF Types
  <2> QED BY <2>1 DEF Live
<1>5. StoredAt(j, n, h, rec)
  BY <1>1, <1>2, <1>3, <1>4, Swept DEF StoredAt
<1> QED BY <1>5

-----------------------------------------------------------------------------
(* Queues                                                                  *)

LEMMA QueueFacts ==
    /\ \A rep \in Replicas : QueueOf(rep) \in Queues
    /\ \A w \in Workers : QueueOf(ReplicaOf[w]) \in Queues
BY AddressFacts DEF QueueOf, Queues

TaskOf(kind, j) == [kind |-> IF SharedQueue THEN "advance" ELSE kind, job |-> j]

LEMMA Enqueued ==
    ASSUME Types, NEW rep \in Replicas, NEW j \in Jobs,
           NEW kind \in {"advance", "full"}, Enqueue(rep, kind, j)
    PROVE  /\ queued' \in [Queues -> Seq(Task)]
           /\ TaskOf(kind, j) \in Task
           /\ \A q \in Queues : q # QueueOf(rep) => queued'[q] = queued[q]
           /\ \/ queued'[QueueOf(rep)] = queued[QueueOf(rep)]
              \/ queued'[QueueOf(rep)] = Append(queued[QueueOf(rep)], TaskOf(kind, j))
<1> DEFINE q == QueueOf(rep)
           t == TaskOf(kind, j)
<1>1. q \in Queues /\ t \in Task
  BY QueueFacts, BackendAssumption DEF TaskOf, Task
<1>2. queued' = queued \/ queued' = [queued EXCEPT ![q] = Append(@, t)]
  BY DEF Enqueue, TaskOf
<1>3. queued \in [Queues -> Seq(Task)]
  BY DEF Types
<1>4. Append(queued[q], t) \in Seq(Task)
  BY <1>1, <1>3
<1> HIDE DEF q, t
<1>5. /\ queued' \in [Queues -> Seq(Task)]
      /\ \A p \in Queues : p # q => queued'[p] = queued[p]
      /\ queued'[q] = queued[q] \/ queued'[q] = Append(queued[q], t)
  BY <1>1, <1>2, <1>3, <1>4
<1> QED BY <1>1, <1>5 DEF q, t

LEMMA Taken ==
    ASSUME Types, NEW w \in Workers, TakeTask(w)
    PROVE  /\ Head(Waiting(w)) \in Task
           /\ queued' \in [Queues -> Seq(Task)]
           /\ Len(Waiting(w)) \in Nat \ {0}
           /\ Waiting(w) = queued[QueueOf(ReplicaOf[w])]
           /\ Waiting(w)[1] = Head(Waiting(w))
           /\ \A q \in Queues : q # QueueOf(ReplicaOf[w]) => queued'[q] = queued[q]
           /\ Len(queued'[QueueOf(ReplicaOf[w])]) = Len(Waiting(w)) - 1
           /\ \A i \in 1..Len(Waiting(w)) - 1 :
                queued'[QueueOf(ReplicaOf[w])][i] = Waiting(w)[i + 1]
<1> DEFINE q == QueueOf(ReplicaOf[w])
<1>1. q \in Queues
  BY QueueFacts
<1>2. queued[q] \in Seq(Task) /\ queued[q] # <<>> /\ Waiting(w) = queued[q]
  BY <1>1 DEF Types, TakeTask, Waiting
<1>3. queued' = [queued EXCEPT ![q] = Tail(queued[q])]
  BY DEF TakeTask
<1> HIDE DEF q
<1>4. Tail(queued[q]) \in Seq(Task) /\ Len(Tail(queued[q])) = Len(queued[q]) - 1
  BY <1>2
<1>5. \A i \in 1..Len(queued[q]) - 1 : Tail(queued[q])[i] = queued[q][i + 1]
  BY <1>2
<1>6. Head(queued[q]) \in Task /\ queued[q][1] = Head(queued[q])
      /\ Len(queued[q]) \in Nat \ {0}
  BY <1>2
<1>7. queued' \in [Queues -> Seq(Task)] /\ queued'[q] = Tail(queued[q])
      /\ \A p \in Queues : p # q => queued'[p] = queued[p]
  BY <1>1, <1>3, <1>4 DEF Types
<1> QED BY <1>2, <1>4, <1>5, <1>6, <1>7 DEF q

LEMMA WaitsEnqueued ==
    ASSUME Types, Waits, NEW rep \in Replicas, NEW j \in Jobs,
           NEW kind \in {"advance", "full"}, Enqueue(rep, kind, j),
           Exists(j)', \A k \in Jobs : Exists(k) => Exists(k)'
    PROVE  Waits'
<1> SUFFICES ASSUME NEW q \in Queues, NEW i \in DOMAIN queued'[q]
             PROVE  stored'[queued'[q][i].job] # None
  BY DEF Waits, Exists
<1>1. queued[q] \in Seq(Task)
  BY DEF Types
<1>2. TaskOf(kind, j) \in Task /\ TaskOf(kind, j).job = j
  BY Enqueued DEF TaskOf
<1>3. queued'[q] = queued[q] \/ queued'[q] = Append(queued[q], TaskOf(kind, j))
  BY Enqueued
<1>4. queued'[q][i] = TaskOf(kind, j) \/ (i \in DOMAIN queued[q] /\ queued'[q][i] = queued[q][i])
  BY <1>1, <1>2, <1>3
<1>5. \A n \in DOMAIN queued[q] : queued[q][n].job \in Jobs
  <2>1. \A n \in DOMAIN queued[q] : queued[q][n] \in Task
    BY <1>1
  <2> QED BY <2>1 DEF Task
<1>6. ASSUME i \in DOMAIN queued[q] PROVE stored'[queued[q][i].job] # None
  <2>1. stored[queued[q][i].job] # None /\ queued[q][i].job \in Jobs
    BY <1>5, <1>6 DEF Waits, Exists
  <2> QED BY <2>1 DEF Exists
<1>7. stored'[j] # None
  BY DEF Exists
<1> QED BY <1>2, <1>4, <1>6, <1>7

LEMMA WaitsTaken ==
    ASSUME Types, Waits, NEW w \in Workers, TakeTask(w), UNCHANGED stored
    PROVE  Waits' /\ Exists(Head(Waiting(w)).job)
<1>1. Waits'
  <2> SUFFICES ASSUME NEW q \in Queues, NEW i \in DOMAIN queued'[q]
               PROVE  stored[queued'[q][i].job] # None
    BY DEF Waits, Exists
  <2>1. queued'[q] \in Seq(Task) /\ queued[q] \in Seq(Task)
    BY Taken DEF Types
  <2>2. CASE q = QueueOf(ReplicaOf[w])
    <3>1. i \in 1..Len(Waiting(w)) - 1 /\ i + 1 \in DOMAIN queued[q]
      BY <2>1, <2>2, Taken
    <3>2. queued'[q][i] = queued[q][i + 1]
      BY <2>2, <3>1, Taken
    <3> QED BY <3>1, <3>2 DEF Waits, Exists
  <2>3. CASE q # QueueOf(ReplicaOf[w])
    BY <2>3, Taken DEF Waits, Exists
  <2> QED BY <2>2, <2>3
<1>2. 1 \in DOMAIN Waiting(w) /\ QueueOf(ReplicaOf[w]) \in Queues
  BY Taken, QueueFacts DEF Types
<1> QED BY <1>1, <1>2, Taken DEF Waits

-----------------------------------------------------------------------------
(* Types, handles and copies: one lemma per handler                        *)

LEMMA InitHandles == Init => HandlesOK
<1> SUFFICES ASSUME Init PROVE HandlesOK
  OBVIOUS
<1>1. Free \in JobRecord /\ NoReq \in ReqRecord /\ NoTask \in SlotRecord
  BY DEF Free, NewRecord, JobRecord, States, NoReq, ReqRecord, NoTask, SlotRecord
<1>2. Types
  BY <1>1, CrashAssumption DEF Init, Types
<1>3. Known
  BY DEF Init, Known, RequestKnown, SlotKnown, Waits, Busy, HasRef, NoReq, NoTask
<1>4. Private
  BY DEF Init, Private, NoReq, NoTask
<1> QED BY <1>2, <1>3, <1>4 DEF HandlesOK

LEMMA StoredTypes ==
    ASSUME Types, NEW j \in Jobs, NEW h, NEW rec, NEW n, StoredAt(j, n, h, rec)
    PROVE  /\ stored' \in [Jobs -> Objs \cup {None}]
           /\ obj' \in [Objs -> JobRecord]
           /\ Exists(j)' /\ \A k \in Jobs : Exists(k) => Exists(k)'
           /\ Private => (~SharedRecords => \A k \in Jobs : stored'[k] \in {k, None})
BY AddressFacts DEF StoredAt, Types, Exists, Private

LEMMA WaitsKept ==
    ASSUME Types, Waits, UNCHANGED queued,
           \A k \in Jobs : Exists(k) => Exists(k)'
    PROVE  Waits' /\ queued' \in [Queues -> Seq(Task)]
<1>1. \A q \in Queues : \A i \in DOMAIN queued[q] : queued[q][i] \in Task
  BY DEF Types
<1> QED BY <1>1 DEF Waits, Types, Task

(* A handler's step: what is asked of its request and of what it touches   *)
ReqMove(r) ==
    /\ req' \in [Requests -> ReqRecord]
    /\ \A s \in Requests : s # r => req'[s] = req[s]
    /\ RequestKnown(r)'
    /\ ~SharedRecords => req'[r].ref \in {r, None}
    /\ UNCHANGED <<lock, inProg, wk, disk, crashes>>
StoreMove ==
    /\ stored' \in [Jobs -> Objs \cup {None}]
    /\ obj' \in [Objs -> JobRecord]
    /\ \A k \in Jobs : Exists(k) => Exists(k)'
    /\ ~SharedRecords => \A k \in Jobs : stored'[k] \in {k, None}

LEMMA ReqMoves ==
    ASSUME HandlesOK, NEW r \in Requests, ReqMove(r), StoreMove, Waits',
           printIdem' \in [Keys -> Jobs \cup {None}],
           queued' \in [Queues -> Seq(Task)]
    PROVE  HandlesOK'
<1>1. Types'
  BY DEF HandlesOK, ReqMove, StoreMove, Types
<1>2. Known'
  BY DEF HandlesOK, ReqMove, StoreMove, Known, RequestKnown, SlotKnown, Busy, HasRef
<1>3. Private'
  BY DEF HandlesOK, ReqMove, StoreMove, Private
<1> QED BY <1>1, <1>2, <1>3 DEF HandlesOK

LEMMA StoreStays ==
    ASSUME HandlesOK, UNCHANGED stored, obj' \in [Objs -> JobRecord]
    PROVE  StoreMove
BY DEF HandlesOK, Types, Private, StoreMove, Exists

LEMMA StoreSet ==
    ASSUME HandlesOK, NEW j \in Jobs, NEW h \in [Objs -> JobRecord],
           NEW rec \in JobRecord, setJob(j, h, rec)
    PROVE  StoreMove
<1>1. PICK n : StoredAt(j, n, h, rec)
  BY SetJob DEF HandlesOK
<1> QED BY <1>1, StoredTypes DEF HandlesOK, StoreMove

LEMMA CreateHandles ==
    ASSUME HandlesOK, NEW j \in Jobs, createJob(j)
    PROVE  HandlesOK'
<1> DEFINE rec == NewRecord("created", None)
<1>0. rec \in JobRecord /\ create(j, rec) /\ UNCHANGED req
  BY StateFacts DEF createJob, NewRecord, JobRecord
<1> HIDE DEF rec
<1>1. StoreMove
  BY <1>0, StoreSet DEF create, HandlesOK, Types
<1>2. Waits' /\ queued' \in [Queues -> Seq(Task)]
  BY <1>0, <1>1, WaitsKept DEF create, HandlesOK, Known, StoreMove
<1>3. UNCHANGED <<lock, printIdem, inProg, req, wk, disk, crashes>>
  BY <1>0 DEF create
<1>4. Types'
  BY <1>1, <1>2, <1>3 DEF HandlesOK, Types, StoreMove
<1>5. Known'
  BY <1>1, <1>2, <1>3 DEF HandlesOK, Known, StoreMove, RequestKnown, SlotKnown, Busy, HasRef
<1>6. Private'
  BY <1>1, <1>3 DEF HandlesOK, Private, StoreMove
<1> QED BY <1>4, <1>5, <1>6 DEF HandlesOK

LEMMA SpeechHandles ==
    ASSUME HandlesOK, NEW r \in Requests, NEW j \in Jobs, NEW t \in Texts,
           NEW rep \in Replicas, createJobFromTranscript(r, j, t, rep)
    PROVE  HandlesOK'
<1> DEFINE rec == NewRecord("asr_complete", t)
<1>0. rec \in JobRecord /\ create(j, rec)
  BY StateFacts DEF createJobFromTranscript, NewRecord, JobRecord
<1> HIDE DEF rec
<1>1. setJob(j, obj, rec) /\ obj \in [Objs -> JobRecord]
  BY <1>0 DEF create, HandlesOK, Types
<1>2. StoreMove
  BY <1>0, <1>1, StoreSet
<1>3. PICK n : StoredAt(j, n, obj, rec)
  BY <1>0, <1>1, SetJob DEF HandlesOK
<1>4. stored'[j] # None
  BY <1>3, StoredTypes DEF HandlesOK, Exists
<1>5. Waits' /\ queued' \in [Queues -> Seq(Task)]
  BY <1>0, <1>2, WaitsKept DEF create, HandlesOK, Known, StoreMove
<1>6. UNCHANGED <<lock, printIdem, inProg, wk, disk, crashes>>
  BY <1>0 DEF create
<1>7. ReqMove(r)
  BY <1>4, <1>6, AddressFacts DEF createJobFromTranscript, ReqMove, ReqRecord, RequestKnown,
     HandlesOK, Types, Exists
<1> QED BY <1>2, <1>5, <1>6, <1>7, ReqMoves DEF HandlesOK, Types

LEMMA BeginUploadHandles ==
    ASSUME HandlesOK, NEW r \in Requests, NEW op \in {"audio", "chunk", "text"},
           NEW j \in Jobs, NEW t \in Texts, NEW rep \in Replicas,
           BeginUpload(r, op, j, t, rep)
    PROVE  HandlesOK'
<1>1. /\ LoadHeap(j, r) \in [Objs -> JobRecord]
      /\ LoadRef(j, r) \in Objs /\ (~SharedRecords => LoadRef(j, r) = r)
  BY Loaded DEF BeginUpload, HandlesOK, Objs
<1>2. obj' \in [Objs -> JobRecord]
  BY <1>1, Swept DEF BeginUpload
<1>3. ReqMove(r)
  BY <1>1, AddressFacts DEF BeginUpload, ReqMove, ReqRecord, RequestKnown, HandlesOK, Types, Exists
<1>4. StoreMove /\ Waits' /\ queued' \in [Queues -> Seq(Task)]
  BY <1>2, StoreStays, WaitsKept DEF BeginUpload, HandlesOK, Known, Exists
<1> QED BY <1>3, <1>4, ReqMoves DEF BeginUpload, HandlesOK, Types

(* The handler answers: its request is over                                *)
Answered(r) == req' = [req EXCEPT ![r] = NoReq]
LEMMA AnsweredMove ==
    ASSUME HandlesOK, NEW r \in Requests, Answered(r),
           UNCHANGED <<lock, inProg, wk, disk, crashes>>
    PROVE  ReqMove(r)
<1>1. NoReq \in ReqRecord
  BY DEF NoReq, ReqRecord
<1> QED BY <1>1 DEF HandlesOK, Types, Answered, ReqMove, RequestKnown, NoReq

LEMMA RefuseHandles ==
    ASSUME HandlesOK, NEW r \in Requests, RefuseUpload(r) \/ RefuseAck(r)
    PROVE  HandlesOK'
<1>1. obj' \in [Objs -> JobRecord]
  BY Swept DEF RefuseUpload, RefuseAck, HandlesOK, Types
<1>2. ReqMove(r)
  BY AnsweredMove DEF RefuseUpload, RefuseAck, Answered
<1>3. StoreMove /\ Waits' /\ queued' \in [Queues -> Seq(Task)]
  BY <1>1, StoreStays, WaitsKept DEF RefuseUpload, RefuseAck, HandlesOK, Known, Exists
<1> QED BY <1>2, <1>3, ReqMoves DEF RefuseUpload, RefuseAck, HandlesOK, Types

LEMMA StageAudioHandles ==
    ASSUME HandlesOK, NEW r \in Requests, StageAudio(r)
    PROVE  HandlesOK'
<1>1. req[r] \in ReqRecord /\ RequestKnown(r)
  BY DEF HandlesOK, Types, Known
<1>2. ReqMove(r)
  BY <1>1 DEF StageAudio, ReqMove, ReqRecord, RequestKnown, HandlesOK, Types, Exists, Private
<1>3. StoreMove /\ Waits' /\ queued' \in [Queues -> Seq(Task)]
  BY StoreStays, WaitsKept DEF StageAudio, HandlesOK, Known, Exists, Types
<1> QED BY <1>2, <1>3, ReqMoves DEF StageAudio, HandlesOK, Types

(* The record a request changes in its object                              *)
LEMMA Changed ==
    ASSUME Types, NEW o \in Objs, NEW s \in States, NEW t \in Texts \cup {None},
           NEW v \in Texts \cup {None, Link}
    PROVE  /\ obj[o] \in JobRecord
           /\ [obj[o] EXCEPT !.state = s] \in JobRecord
           /\ [obj[o] EXCEPT !.state = s, !.transcript = t] \in JobRecord
           /\ [obj[o] EXCEPT !.preview = v, !.state = s] \in JobRecord
<1>1. obj[o] \in JobRecord
  BY DEF Types
<1>2. /\ obj[o].state \in States \cup {"free"}
      /\ obj[o].transcript \in Texts \cup {None} /\ obj[o].preview \in Texts \cup {None, Link}
      /\ obj[o] = [state |-> obj[o].state, transcript |-> obj[o].transcript,
                   preview |-> obj[o].preview]
  BY <1>1 DEF JobRecord
<1> QED BY <1>1, <1>2 DEF JobRecord

LEMMA UploadHandles ==
    ASSUME HandlesOK, NEW r \in Requests,
           attachAudio(r) \/ uploadChunk(r) \/ attachText(r) \/ SaveAck(r)
    PROVE  HandlesOK'
<1> DEFINE o == req[r].ref
           j == req[r].job
<1>1. req[r] \in ReqRecord /\ RequestKnown(r)
  BY DEF HandlesOK, Types, Known
<1>2. o \in Objs /\ j \in Jobs /\ Exists(j)
  BY <1>1 DEF attachAudio, AudioReady, uploadChunk, attachText, SaveAck, RequestKnown, ReqRecord
<1>3. obj \in [Objs -> JobRecord]
  BY DEF HandlesOK, Types
<1>4. \E h \in [Objs -> JobRecord], rec \in JobRecord : setJob(j, h, rec)
  <2>1. CASE attachAudio(r)
    BY <1>2, <1>3, <2>1, Changed, StateFacts DEF attachAudio, HandlesOK
  <2>2. CASE uploadChunk(r) \/ SaveAck(r)
    BY <1>2, <1>3, <2>2 DEF uploadChunk, SaveAck
  <2>3. CASE attachText(r)
    <3>1. req[r].arg \in Texts
      BY <1>1, <2>3 DEF attachText, RequestKnown
    <3> DEFINE rec == [obj[o] EXCEPT !.state = "asr_complete", !.transcript = req[r].arg]
    <3>3. rec \in JobRecord
      BY <1>2, <3>1, Changed, StateFacts DEF HandlesOK
    <3> QED BY <1>2, <1>3, <2>3, <3>3 DEF attachText
  <2> QED BY <2>1, <2>2, <2>3
<1>5. StoreMove
  BY <1>2, <1>4, StoreSet
<1>6. Waits' /\ queued' \in [Queues -> Seq(Task)]
  BY <1>5, WaitsKept DEF attachAudio, uploadChunk, attachText, SaveAck, HandlesOK, Known, StoreMove
<1>7. ReqMove(r)
  <2>1. CASE ~attachText(r)
    BY <2>1, AnsweredMove DEF attachAudio, uploadChunk, SaveAck, Answered
  <2>2. CASE attachText(r)
    <3>1. stored'[req[r].job] # None
      BY <1>2, <1>5 DEF StoreMove, Exists
    <3>2. req' = [req EXCEPT ![r].pc = "enqueue", ![r].ref = None]
      BY <2>2 DEF attachText
    <3> QED BY <1>1, <1>2, <2>2, <3>1, <3>2
            DEF attachText, ReqMove, ReqRecord, RequestKnown, HandlesOK, Types
  <2> QED BY <2>1, <2>2
<1> QED BY <1>5, <1>6, <1>7, ReqMoves
        DEF attachAudio, uploadChunk, attachText, SaveAck, HandlesOK, Types

LEMMA EnqueueTaskHandles ==
    ASSUME HandlesOK, NEW r \in Requests, EnqueueTask(r)
    PROVE  HandlesOK'
<1>1. req[r].job \in Jobs /\ Exists(req[r].job) /\ req[r].rep \in Replicas
  BY DEF HandlesOK, Known, RequestKnown, EnqueueTask
<1>2. /\ \E kind \in {"advance", "full"} : Enqueue(req[r].rep, kind, req[r].job)
      /\ UNCHANGED <<stored, obj>>
  BY DEF EnqueueTask
<1>3. Waits' /\ queued' \in [Queues -> Seq(Task)]
  BY <1>1, <1>2, Enqueued, WaitsEnqueued DEF HandlesOK, Known, Exists
<1>4. ReqMove(r)
  BY AnsweredMove DEF EnqueueTask, Answered
<1>5. StoreMove
  BY <1>2, StoreStays DEF HandlesOK, Types
<1> QED BY <1>3, <1>4, <1>5, ReqMoves DEF EnqueueTask, HandlesOK, Types

LEMMA advanceJobHandles ==
    ASSUME HandlesOK, NEW j \in Jobs, NEW rep \in Replicas, advanceJob(j, rep)
    PROVE  HandlesOK'
<1>1. Exists(j) /\ Enqueue(rep, "advance", j)
  BY DEF advanceJob
<1>2. UNCHANGED <<obj, stored, lock, printIdem, inProg, req, wk, disk, crashes>>
  BY DEF advanceJob
<1>3. Waits' /\ queued' \in [Queues -> Seq(Task)]
  BY <1>1, <1>2, Enqueued, WaitsEnqueued DEF HandlesOK, Known, Exists
<1>4. Types'
  BY <1>2, <1>3 DEF HandlesOK, Types
<1>5. Known'
  BY <1>2, <1>3 DEF HandlesOK, Known, RequestKnown, SlotKnown, Busy, HasRef, Exists
<1> QED BY <1>2, <1>4, <1>5 DEF HandlesOK, Private

LEMMA BeginAckHandles ==
    ASSUME HandlesOK, NEW r \in Requests, NEW j \in Jobs, NEW k \in Keys,
           NEW rep \in Replicas, BeginAck(r, j, k, rep)
    PROVE  HandlesOK'
<1>1. ReqMove(r)
  BY DEF BeginAck, ReqMove, ReqRecord, RequestKnown, HandlesOK, Types, Exists
<1>2. StoreMove /\ Waits' /\ queued' \in [Queues -> Seq(Task)]
  BY StoreStays, WaitsKept DEF BeginAck, HandlesOK, Known, Exists, Types
<1> QED BY <1>1, <1>2, ReqMoves DEF BeginAck, HandlesOK, Types

LEMMA LoadAckHandles ==
    ASSUME HandlesOK, NEW r \in Requests, LoadAck(r)
    PROVE  HandlesOK'
<1> DEFINE j == req[r].job
<1>1. req[r] \in ReqRecord /\ RequestKnown(r) /\ j \in Jobs /\ Exists(j) /\ r \in Objs
  BY DEF HandlesOK, Types, Known, RequestKnown, LoadAck, Objs
<1>2. /\ LoadHeap(j, r) \in [Objs -> JobRecord]
      /\ LoadRef(j, r) \in Objs /\ (~SharedRecords => LoadRef(j, r) = r)
  BY <1>1, Loaded DEF HandlesOK
<1>3. obj' \in [Objs -> JobRecord]
  BY <1>2, Swept DEF LoadAck
<1>4. ReqMove(r)
  BY <1>1, <1>2, AddressFacts DEF LoadAck, ReqMove, ReqRecord, RequestKnown, HandlesOK, Types, Exists
<1>5. StoreMove /\ Waits' /\ queued' \in [Queues -> Seq(Task)]
  BY <1>3, StoreStays, WaitsKept DEF LoadAck, HandlesOK, Known, Exists
<1> QED BY <1>4, <1>5, ReqMoves DEF LoadAck, HandlesOK, Types

LEMMA printAckHandles ==
    ASSUME HandlesOK, NEW r \in Requests, printAck(r)
    PROVE  HandlesOK'
<1>1. /\ req[r] \in ReqRecord /\ RequestKnown(r) /\ req[r].job \in Jobs
      /\ req[r].ref \in Objs /\ req[r].arg \in Keys
  BY DEF HandlesOK, Types, Known, RequestKnown, printAck, ReqRecord
<1>2. [obj[req[r].ref] EXCEPT !.state = "print_acknowledged"] \in JobRecord
  BY <1>1, Changed, StateFacts DEF HandlesOK
<1>3. obj' \in [Objs -> JobRecord]
  BY <1>1, <1>2 DEF printAck, HandlesOK, Types
<1>4. ReqMove(r)
  BY <1>1 DEF printAck, ReqMove, ReqRecord, RequestKnown, HandlesOK, Types, Exists, Private
<1>5. StoreMove /\ Waits' /\ queued' \in [Queues -> Seq(Task)]
  BY <1>3, StoreStays, WaitsKept DEF printAck, HandlesOK, Known, Exists
<1>6. printIdem' \in [Keys -> Jobs \cup {None}]
  BY <1>1 DEF printAck, HandlesOK, Types
<1> QED BY <1>4, <1>5, <1>6, ReqMoves

-----------------------------------------------------------------------------
(* A slot's step *)
SlotMove(w) ==
    /\ wk' \in [Workers -> SlotRecord]
    /\ \A x \in Workers : x # w => wk'[x] = wk[x]
    /\ SlotKnown(w)'
    /\ ~SharedRecords => wk'[w].ref \in {w, None}
    /\ UNCHANGED <<printIdem, req, disk, crashes>>

LEMMA SlotGoes ==
    ASSUME HandlesOK, NEW w \in Workers, NEW rec \in SlotRecord,
           wk' = [wk EXCEPT ![w] = rec],
           rec.pc # "idle" => rec.job \in Jobs /\ stored'[rec.job] # None,
           rec.pc \in {"advance", "asr", "mod", "img", "fin", "sign", "write"} => rec.ref # None,
           rec.pc = "idle" => rec.ref = None,
           ~SharedRecords => rec.ref \in {w, None},
           UNCHANGED <<printIdem, req, disk, crashes>>
    PROVE  SlotMove(w)
<1>1. wk \in [Workers -> SlotRecord]
  BY DEF HandlesOK, Types
<1>2. wk' \in [Workers -> SlotRecord] /\ wk'[w] = rec
      /\ \A x \in Workers : x # w => wk'[x] = wk[x]
  BY <1>1
<1>3. SlotKnown(w)'
  BY <1>2 DEF SlotKnown, Busy, HasRef, Exists
<1> QED BY <1>2, <1>3 DEF SlotMove

(* What a slot knows, and a change of its pc alone                         *)
LEMMA SlotFacts ==
    ASSUME HandlesOK, NEW w \in Workers
    PROVE  /\ wk[w] \in SlotRecord
           /\ Busy(w) => wk[w].job \in Jobs /\ stored[wk[w].job] # None
           /\ HasRef(w) => wk[w].ref \in Objs
           /\ ~SharedRecords => wk[w].ref \in {w, None}
           /\ \A pc \in {"idle", "lock", "get", "advance", "asr", "mod",
                          "img", "fin", "sign", "write", "release", "exit"},
                ref \in Objs \cup {None}, in \in Texts \cup {None} :
                [wk[w] EXCEPT !.pc = pc, !.ref = ref, !.in = in] \in SlotRecord
<1>1. wk[w] \in SlotRecord /\ SlotKnown(w)
  BY DEF HandlesOK, Types, Known
<1>2. /\ Busy(w) => wk[w].job \in Jobs /\ stored[wk[w].job] # None
      /\ HasRef(w) => wk[w].ref \in Objs
  BY <1>1 DEF SlotKnown, SlotRecord, Exists
<1>3. ~SharedRecords => wk[w].ref \in {w, None}
  BY DEF HandlesOK, Private
<1>4. \A pc \in {"idle", "lock", "get", "advance", "asr", "mod",
                 "img", "fin", "sign", "write", "release", "exit"},
         ref \in Objs \cup {None}, in \in Texts \cup {None} :
         [wk[w] EXCEPT !.pc = pc, !.ref = ref, !.in = in] \in SlotRecord
  BY <1>1 DEF SlotRecord
<1> QED BY <1>1, <1>2, <1>3, <1>4

LEMMA SlotMoves ==
    ASSUME HandlesOK, NEW w \in Workers, SlotMove(w), StoreMove, Waits',
           queued' \in [Queues -> Seq(Task)],
           lock' \in [Jobs -> Workers \cup {None}],
           inProg' \in [Replicas -> SUBSET Jobs]
    PROVE  HandlesOK'
<1>1. Types'
  BY DEF HandlesOK, SlotMove, StoreMove, Types
<1>2. Known'
  BY DEF HandlesOK, SlotMove, StoreMove, Known, RequestKnown, SlotKnown, Busy, HasRef
<1>3. Private'
  BY DEF HandlesOK, SlotMove, StoreMove, Private
<1> QED BY <1>1, <1>2, <1>3 DEF HandlesOK

LEMMA GuardKept ==
    ASSUME Types, NEW w \in Workers, wk[w].job \in Jobs,
           \/ UNCHANGED inProg
           \/ LeaveStages(w)
           \/ inProg' = [inProg EXCEPT ![ReplicaOf[w]] = @ \cup {wk[w].job}]
    PROVE  inProg' \in [Replicas -> SUBSET Jobs]
BY DEF Types, LeaveStages

LEMMA TakeHandles ==
    ASSUME HandlesOK, NEW w \in Workers,
           SkipTask(w) \/ runBackgroundAdvance(w) \/ runFullPipeline(w)
    PROVE  HandlesOK'
<1> DEFINE j == Head(Waiting(w)).job
<1>1. TakeTask(w) /\ UNCHANGED <<obj, stored, lock, printIdem, req, disk, crashes>>
  BY DEF SkipTask, runBackgroundAdvance, runFullPipeline
<1>2. Waits' /\ Exists(j) /\ queued' \in [Queues -> Seq(Task)]
  BY <1>1, Taken, WaitsTaken DEF HandlesOK, Known
<1>3. j \in Jobs
  BY <1>1, Taken DEF HandlesOK, Task
<1>4. StoreMove
  BY <1>1, StoreStays DEF HandlesOK, Types
<1>5. inProg' \in [Replicas -> SUBSET Jobs]
  BY <1>3 DEF SkipTask, runBackgroundAdvance, runFullPipeline, HandlesOK, Types
<1>6. SlotMove(w)
  <2>1. CASE SkipTask(w)
    BY <1>1, <2>1 DEF SkipTask, SlotMove, HandlesOK, Types, Known, SlotKnown, Private, Busy, HasRef, Exists
  <2>2. CASE runBackgroundAdvance(w) \/ runFullPipeline(w)
    <3>1. \E rec \in SlotRecord :
            /\ wk' = [wk EXCEPT ![w] = rec]
            /\ rec.job = j /\ rec.pc \in {"get", "lock"} /\ rec.ref = None
      <4> DEFINE rec(pc, kind) == [pc |-> pc, kind |-> kind, job |-> j,
                                   ref |-> None, in |-> None]
      <4>1. \A pc \in {"get", "lock"}, kind \in {"advance", "full"} : rec(pc, kind) \in SlotRecord
        BY <1>3 DEF SlotRecord
      <4>2. \/ wk' = [wk EXCEPT ![w] = rec("get", "advance")]
            \/ wk' = [wk EXCEPT ![w] = rec("lock", "advance")]
            \/ wk' = [wk EXCEPT ![w] = rec("get", "full")]
        BY <2>2 DEF runBackgroundAdvance, runFullPipeline, NoTask
      <4> QED BY <4>1, <4>2
    <3>2. stored'[j] # None
      BY <1>1, <1>2 DEF Exists
    <3> QED BY <1>1, <1>3, <3>1, <3>2, SlotGoes
  <2> QED BY <2>1, <2>2
<1> QED BY <1>1, <1>2, <1>4, <1>5, <1>6, SlotMoves DEF HandlesOK, Types

LEMMA LockHandles ==
    ASSUME HandlesOK, NEW w \in Workers,
           acquireJobAdvanceLock(w) \/ releaseJobAdvanceLock(w)
    PROVE  HandlesOK'
<1>1. UNCHANGED <<obj, stored, printIdem, queued, inProg, req, disk, crashes>>
  BY DEF acquireJobAdvanceLock, releaseJobAdvanceLock
<1>2. wk[w] \in SlotRecord /\ SlotKnown(w) /\ Busy(w) /\ wk[w].job \in Jobs
  BY DEF acquireJobAdvanceLock, releaseJobAdvanceLock, HandlesOK, Types, Known, SlotKnown, Busy
<1>3. \E pc \in {"get", "exit"} : wk' = [wk EXCEPT ![w].pc = pc]
  BY DEF acquireJobAdvanceLock, releaseJobAdvanceLock
<1>4. SlotMove(w)
  <2>1. PICK pc \in {"get", "exit"} : wk' = [wk EXCEPT ![w].pc = pc]
    BY <1>3
  <2>2. [wk[w] EXCEPT !.pc = pc] \in SlotRecord
    BY <1>2 DEF SlotRecord
  <2>3. [wk[w] EXCEPT !.pc = pc].job = wk[w].job /\ [wk[w] EXCEPT !.pc = pc].ref = wk[w].ref
        /\ [wk[w] EXCEPT !.pc = pc].pc = pc
    BY <1>2 DEF SlotRecord
  <2>4. wk' = [wk EXCEPT ![w] = [wk[w] EXCEPT !.pc = pc]]
    BY <2>1 DEF HandlesOK, Types
  <2> QED BY <1>1, <1>2, <2>2, <2>3, <2>4, SlotFacts, SlotGoes
<1>5. lock' \in [Jobs -> Workers \cup {None}]
  BY <1>2 DEF acquireJobAdvanceLock, releaseJobAdvanceLock, HandlesOK, Types
<1>6. StoreMove /\ Waits' /\ queued' \in [Queues -> Seq(Task)]
  BY <1>1, StoreStays, WaitsKept DEF HandlesOK, Known, Exists, Types
<1> QED BY <1>1, <1>4, <1>5, <1>6, SlotMoves DEF HandlesOK, Types

LEMMA LoadJobHandles ==
    ASSUME HandlesOK, NEW w \in Workers, LoadJob(w)
    PROVE  HandlesOK'
<1> DEFINE j == wk[w].job
<1>1. wk[w] \in SlotRecord /\ SlotKnown(w) /\ j \in Jobs /\ Exists(j) /\ w \in Objs
  BY DEF HandlesOK, Types, Known, SlotKnown, LoadJob, Busy, Objs
<1>2. /\ LoadHeap(j, w) \in [Objs -> JobRecord]
      /\ LoadRef(j, w) \in Objs /\ (~SharedRecords => LoadRef(j, w) = w)
  BY <1>1, Loaded DEF HandlesOK
<1>3. obj' \in [Objs -> JobRecord]
  BY <1>2, Swept DEF LoadJob
<1>4. SlotMove(w)
  BY <1>1, <1>2, AddressFacts DEF LoadJob, SlotMove, SlotRecord, SlotKnown, Busy, HasRef, HandlesOK, Types, Exists
<1>5. StoreMove /\ Waits' /\ queued' \in [Queues -> Seq(Task)]
  BY <1>3, StoreStays, WaitsKept DEF LoadJob, HandlesOK, Known, Exists
<1> QED BY <1>4, <1>5, SlotMoves DEF LoadJob, HandlesOK, Types

LEMMA StagesHandles ==
    ASSUME HandlesOK, NEW w \in Workers, BeginStages(w) \/ NothingToAdvance(w)
    PROVE  HandlesOK'
<1>1. /\ wk[w] \in SlotRecord /\ SlotKnown(w) /\ wk[w].job \in Jobs
      /\ Exists(wk[w].job) /\ wk[w].ref \in Objs
  BY DEF HandlesOK, Types, Known, SlotKnown, BeginStages, NothingToAdvance, Busy, HasRef, SlotRecord
<1>2. UNCHANGED <<stored, lock, printIdem, queued, req, disk, crashes>>
  BY DEF BeginStages, NothingToAdvance
<1>3. obj' \in [Objs -> JobRecord]
  BY Swept DEF BeginStages, NothingToAdvance, HandlesOK, Types
<1>4. SlotMove(w)
  <2>1. CASE BeginStages(w)
    <3>1. obj[wk[w].ref].transcript \in Texts \cup {None}
      BY <1>1 DEF HandlesOK, Types, JobRecord
    <3>2. StageCall(obj[wk[w].ref].state) \in {"asr", "mod", "img", "fin"}
      BY <2>1, StateFacts DEF BeginStages, StageCall
    <3>3. PICK in \in Texts \cup {None}, pc \in {"asr", "mod", "img", "fin"} :
            wk' = [wk EXCEPT ![w].pc = pc, ![w].in = in]
      <4> DEFINE in == IF obj[wk[w].ref].state \in {"asr_complete", "moderation_passed"}
                       THEN obj[wk[w].ref].transcript ELSE None
      <4>1. in \in Texts \cup {None}
        BY <3>1
      <4>2. wk' = [wk EXCEPT ![w].pc = StageCall(obj[wk[w].ref].state), ![w].in = in]
        BY <2>1 DEF BeginStages
      <4> QED BY <3>2, <4>1, <4>2
    <3> DEFINE rec == [wk[w] EXCEPT !.pc = pc, !.in = in]
    <3>4. rec \in SlotRecord /\ rec.pc = pc /\ rec.job = wk[w].job /\ rec.ref = wk[w].ref
      BY <1>1 DEF SlotRecord
    <3>5. wk' = [wk EXCEPT ![w] = rec]
      BY <3>3 DEF HandlesOK, Types
    <3> HIDE DEF rec
    <3> QED BY <1>1, <1>2, <3>4, <3>5, AddressFacts, SlotFacts, SlotGoes DEF Exists
  <2>2. CASE NothingToAdvance(w)
    <3>1. CASE wk' = [wk EXCEPT ![w] = NoTask]
      <4>1. NoTask \in SlotRecord
        BY DEF NoTask, SlotRecord
      <4> QED BY <1>2, <3>1, <4>1, SlotGoes DEF NoTask
    <3>2. CASE wk' = [wk EXCEPT ![w].pc = "write"]
      <4> DEFINE rec == [wk[w] EXCEPT !.pc = "write"]
      <4>1. rec \in SlotRecord /\ rec.pc = "write" /\ rec.job = wk[w].job /\ rec.ref = wk[w].ref
        BY <1>1 DEF SlotRecord
      <4>2. wk' = [wk EXCEPT ![w] = rec]
        BY <3>2 DEF HandlesOK, Types
      <4> HIDE DEF rec
      <4> QED BY <1>1, <1>2, <4>1, <4>2, AddressFacts, SlotFacts, SlotGoes DEF Exists
    <3> QED BY <2>2, <3>1, <3>2 DEF NothingToAdvance
  <2> QED BY <2>1, <2>2
<1>5. inProg' \in [Replicas -> SUBSET Jobs]
  BY <1>1 DEF BeginStages, NothingToAdvance, HandlesOK, Types
<1>6. StoreMove /\ Waits' /\ queued' \in [Queues -> Seq(Task)]
  BY <1>2, <1>3, StoreStays, WaitsKept DEF HandlesOK, Known, Exists
<1> QED BY <1>2, <1>4, <1>5, <1>6, SlotMoves DEF HandlesOK, Types

(* A vendor's answer changes the object and moves the slot to the next     *)
(* call, or out of the stages.                                             *)
StageTo(w, rec, next, in) ==
    /\ InStages(w)
    /\ obj' = [obj EXCEPT ![wk[w].ref] = rec]
    /\ wk' = [wk EXCEPT ![w].pc = next, ![w].in = in]
    /\ UNCHANGED <<stored, lock, printIdem, queued, req, disk, crashes>>
    /\ UNCHANGED inProg \/ LeaveStages(w)

(* What each answer writes, and what the slot carries on                   *)
StageGood(w, rec, next, in) ==
    LET old == obj[wk[w].ref] IN
    /\ \/ /\ wk[w].pc = "asr" /\ next = "mod" /\ in \in Texts /\ UNCHANGED inProg
          /\ rec = [old EXCEPT !.state = "asr_complete", !.transcript = in]
       \/ /\ wk[w].pc = "mod" /\ next = "img" /\ wk[w].in \in Safe /\ UNCHANGED inProg
          /\ in = old.transcript /\ rec = [old EXCEPT !.state = "moderation_passed"]
       \/ /\ wk[w].pc = "img" /\ next = "fin" /\ in = wk[w].in /\ UNCHANGED inProg
          /\ rec = [old EXCEPT !.state = "image_generation"]
       \/ /\ wk[w].pc = "fin" /\ next = "sign" /\ in = wk[w].in /\ in # None
          /\ UNCHANGED inProg /\ rec = old
       \/ /\ wk[w].pc \in {"fin", "sign"} /\ next = "write" /\ in = None
          /\ LeaveStages(w)
          /\ \E picture \in {wk[w].in, Link} \ {None} :
               rec = [old EXCEPT !.preview = picture, !.state = "preview_ready"]
       \/ /\ next = "write" /\ in = None /\ LeaveStages(w)
          /\ rec = [old EXCEPT !.state = "failed"]
    /\ IF next = "sign" THEN bucket' = [bucket EXCEPT ![wk[w].job] = in]
       ELSE UNCHANGED bucket

LEMMA AnswerStages ==
    ASSUME HandlesOK, NEW w \in Workers, VendorAnswers(w)
    PROVE  \E rec \in JobRecord, next \in {"mod", "img", "fin", "sign", "write"},
              in \in Texts \cup {None} :
             StageTo(w, rec, next, in) /\ StageGood(w, rec, next, in)
<1> DEFINE o == wk[w].ref
           Goal == \E rec \in JobRecord, next \in {"mod", "img", "fin", "sign", "write"},
                      in \in Texts \cup {None} :
                     StageTo(w, rec, next, in) /\ StageGood(w, rec, next, in)
<1>1. InStages(w)
  BY DEF VendorAnswers, resolveTranscript, moderateTranscript, runImageGeneration,
         UploadPreview, finalizePreview, markFailed, Stage, InStages
<1>2. wk[w] \in SlotRecord /\ o \in Objs /\ wk[w].in \in Texts \cup {None}
  <2>1. wk[w] \in SlotRecord /\ o \in Objs
    BY <1>1, SlotFacts DEF InStages, HasRef
  <2> QED BY <2>1 DEF SlotRecord
<1>3. obj[o].transcript \in Texts \cup {None} /\ Types
  BY <1>2 DEF HandlesOK, Types, JobRecord
<1>4. ASSUME NEW t \in Texts, resolveTranscript(w, t) PROVE Goal
  <2> DEFINE rec == [obj[o] EXCEPT !.state = "asr_complete", !.transcript = t]
  <2>1. rec \in JobRecord
    BY <1>2, <1>3, Changed, StateFacts
  <2>2. StageTo(w, rec, "mod", t) /\ StageGood(w, rec, "mod", t)
    BY <1>1, <1>4 DEF StageTo, StageGood, resolveTranscript, Stage, Transcribed, StayInStages
  <2> QED BY <2>1, <2>2
<1>5. ASSUME moderateTranscript(w) PROVE Goal
  <2> DEFINE rec == [obj[o] EXCEPT !.state = "moderation_passed"]
  <2>1. rec \in JobRecord
    BY <1>2, <1>3, Changed, StateFacts
  <2>2. StageTo(w, rec, "img", obj[o].transcript) /\ StageGood(w, rec, "img", obj[o].transcript)
    BY <1>1, <1>5 DEF StageTo, StageGood, moderateTranscript, Stage, Approved, StayInStages
  <2> QED BY <1>3, <2>1, <2>2
<1>6. ASSUME runImageGeneration(w) PROVE Goal
  <2> DEFINE rec == [obj[o] EXCEPT !.state = "image_generation"]
  <2>1. rec \in JobRecord
    BY <1>2, <1>3, Changed, StateFacts
  <2>2. StageTo(w, rec, "fin", wk[w].in) /\ StageGood(w, rec, "fin", wk[w].in)
    BY <1>1, <1>6 DEF StageTo, StageGood, runImageGeneration, Stage, StayInStages
  <2> QED BY <1>2, <2>1, <2>2
<1>7. ASSUME finalizePreview(w) PROVE Goal
  <2>1. PICK picture \in {wk[w].in, Link} :
          /\ picture # None
          /\ Stage(w, wk[w].pc, WithPreview(obj[o], picture), "write", None)
    BY <1>7 DEF finalizePreview
  <2> DEFINE rec == [obj[o] EXCEPT !.preview = picture, !.state = "preview_ready"]
  <2>2. rec \in JobRecord
    BY <1>2, <1>3, Changed, StateFacts
  <2>3. StageTo(w, rec, "write", None) /\ StageGood(w, rec, "write", None)
    BY <1>1, <1>7, <2>1 DEF StageTo, StageGood, finalizePreview, Stage, WithPreview
  <2> QED BY <2>2, <2>3
<1>9. ASSUME UploadPreview(w) PROVE Goal
  <2>1. StageTo(w, obj[o], "sign", wk[w].in) /\ StageGood(w, obj[o], "sign", wk[w].in)
    BY <1>1, <1>9 DEF StageTo, StageGood, UploadPreview, Stage
  <2>2. obj[o] \in JobRecord
    BY <1>2, <1>3 DEF Types
  <2> QED BY <1>2, <2>1, <2>2
<1>8. ASSUME markFailed(w) PROVE Goal
  <2> DEFINE rec == [obj[o] EXCEPT !.state = "failed"]
  <2>1. rec \in JobRecord
    BY <1>2, <1>3, Changed, StateFacts
  <2>2. StageTo(w, rec, "write", None) /\ StageGood(w, rec, "write", None)
    BY <1>1, <1>8 DEF StageTo, StageGood, markFailed, Stage
  <2> QED BY <2>1, <2>2
<1> QED BY <1>4, <1>5, <1>6, <1>7, <1>8, <1>9 DEF VendorAnswers

LEMMA StageHandles ==
    ASSUME HandlesOK, NEW w \in Workers, NEW rec \in JobRecord,
           NEW next \in {"mod", "img", "fin", "sign", "write"}, NEW in \in Texts \cup {None},
           StageTo(w, rec, next, in)
    PROVE  HandlesOK'
<1>1. Busy(w) /\ HasRef(w)
  BY DEF StageTo, InStages, Busy, HasRef
<1>2. wk[w] \in SlotRecord /\ wk[w].ref \in Objs /\ wk[w].job \in Jobs
  BY <1>1, SlotFacts
<1> DEFINE new == [wk[w] EXCEPT !.pc = next, !.in = in]
<1>3. new \in SlotRecord /\ new.pc = next /\ new.job = wk[w].job /\ new.ref = wk[w].ref
  BY <1>2 DEF SlotRecord
<1>4. wk' = [wk EXCEPT ![w] = new]
  BY DEF StageTo, HandlesOK, Types
<1> HIDE DEF new
<1>5. UNCHANGED <<stored, lock, printIdem, queued, req, disk, crashes>>
  BY DEF StageTo
<1>6. SlotMove(w)
  BY <1>1, <1>2, <1>3, <1>4, <1>5, AddressFacts, SlotFacts, SlotGoes
<1>7. inProg' \in [Replicas -> SUBSET Jobs]
  BY <1>2, GuardKept DEF StageTo, HandlesOK
<1>8. obj' \in [Objs -> JobRecord]
  BY <1>2 DEF StageTo, HandlesOK, Types
<1>9. StoreMove /\ Waits' /\ queued' \in [Queues -> Seq(Task)]
  BY <1>5, <1>8, StoreStays, WaitsKept DEF HandlesOK, Known, Exists
<1> QED BY <1>5, <1>6, <1>7, <1>9, SlotMoves DEF HandlesOK, Types

LEMMA WriteHandles ==
    ASSUME HandlesOK, NEW w \in Workers, WriteJob(w) \/ ExitAdvance(w)
    PROVE  HandlesOK'
<1>1. wk[w] \in SlotRecord /\ wk[w].job \in Jobs /\ stored[wk[w].job] # None
  BY SlotFacts DEF WriteJob, ExitAdvance, Busy
<1>2. UNCHANGED <<lock, printIdem, queued, req, disk, crashes>>
  BY DEF WriteJob, ExitAdvance
<1>3. StoreMove
  <2>1. CASE WriteJob(w)
    <3>1. wk[w].ref \in Objs
      BY <2>1, SlotFacts DEF WriteJob, HasRef
    <3> QED BY <1>1, <2>1, <3>1, StoreSet DEF WriteJob, HandlesOK, Types
  <2>2. CASE ExitAdvance(w)
    BY <2>2, StoreStays DEF ExitAdvance, HandlesOK, Types
  <2> QED BY <2>1, <2>2
<1>4. SlotMove(w)
  <2>1. CASE wk' = [wk EXCEPT ![w] = NoTask]
    <3>1. NoTask \in SlotRecord
      BY DEF NoTask, SlotRecord
    <3> QED BY <1>2, <2>1, <3>1, SlotGoes DEF NoTask
  <2>2. ASSUME NEW pc \in {"exit", "release"},
               wk' = [wk EXCEPT ![w] = [@ EXCEPT !.pc = pc, !.ref = None]]
        PROVE  SlotMove(w)
    <3> DEFINE new == [wk[w] EXCEPT !.pc = pc, !.ref = None]
    <3>1. new \in SlotRecord /\ new.pc = pc /\ new.job = wk[w].job /\ new.ref = None
      BY <1>1 DEF SlotRecord
    <3>2. wk' = [wk EXCEPT ![w] = new]
      BY <2>2
    <3>3. stored'[wk[w].job] # None
      BY <1>1, <1>3 DEF StoreMove, Exists
    <3> HIDE DEF new
    <3> QED BY <1>1, <1>2, <3>1, <3>2, <3>3, SlotGoes
  <2>3. \/ wk' = [wk EXCEPT ![w] = NoTask]
        \/ \E pc \in {"exit", "release"} :
             wk' = [wk EXCEPT ![w] = [@ EXCEPT !.pc = pc, !.ref = None]]
    BY DEF WriteJob, ExitAdvance
  <2> QED BY <2>1, <2>2, <2>3
<1>5. inProg' \in [Replicas -> SUBSET Jobs]
  BY <1>1, GuardKept DEF WriteJob, ExitAdvance, HandlesOK
<1>6. Waits' /\ queued' \in [Queues -> Seq(Task)]
  BY <1>2, <1>3, WaitsKept DEF HandlesOK, Known, StoreMove
<1> QED BY <1>2, <1>3, <1>4, <1>5, <1>6, SlotMoves DEF HandlesOK, Types

LEMMA StoreUntouched ==
    ASSUME HandlesOK, UNCHANGED <<obj, stored, queued, req, wk, printIdem, inProg>>,
           lock' \in [Jobs -> Workers \cup {None}], crashes' = crashes,
           disk' \in [jobs : [Jobs -> JobRecord], idem : [Keys -> Jobs \cup {None}]]
    PROVE  HandlesOK'
<1>1. Types'
  BY DEF HandlesOK, Types
<1>2. Known'
  BY WaitsKept DEF HandlesOK, Known, RequestKnown, SlotKnown, Busy, HasRef, Exists
<1> QED BY <1>1, <1>2 DEF HandlesOK, Private

LEMMA LapseFlushHandles ==
    ASSUME HandlesOK, (\E j \in Jobs : LockLapse(j)) \/ flushPersistenceSync
    PROVE  HandlesOK'
<1>1. CASE \E j \in Jobs : LockLapse(j)
  BY <1>1, StoreUntouched DEF LockLapse, HandlesOK, Types
<1>2. CASE flushPersistenceSync
  <2>1. \A j \in Jobs : (IF Exists(j) THEN obj[stored[j]] ELSE Free) \in JobRecord
    BY DEF Exists, HandlesOK, Types, Free, NewRecord, JobRecord
  <2>2. Snapshot \in [jobs : [Jobs -> JobRecord], idem : [Keys -> Jobs \cup {None}]]
    BY <2>1 DEF Snapshot, HandlesOK, Types
  <2> QED BY <1>2, <2>2, StoreUntouched DEF flushPersistenceSync, HandlesOK, Types
<1> QED BY <1>1, <1>2

(* A crash takes a replica's requests, slots and queue.  In memory there   *)
(* is only one, so that nothing is left that refers to the old records.    *)
LEMMA OneProcess ==
    ASSUME HandlesOK, SharedRecords, NEW p \in Replicas, Crash(p)
    PROVE  /\ \A w \in Workers : wk'[w] = NoTask
           /\ \A r \in Requests : req'[r].pc = "idle" /\ req'[r] \in {NoReq, req[r]}
           /\ \A q \in Queues : queued'[q] = <<>>
<1>1. \A q \in Replicas : q = p
  BY BackendAssumption
<1>2. Queues = Replicas
  BY BackendAssumption DEF Queues
<1>3. \A w \in Workers : wk'[w] = NoTask
  BY <1>1, AddressFacts DEF Crash
<1>4. \A r \in Requests : req'[r].pc = "idle" /\ req'[r] \in {NoReq, req[r]}
  <2> SUFFICES ASSUME NEW r \in Requests PROVE req'[r].pc = "idle" /\ req'[r] \in {NoReq, req[r]}
    OBVIOUS
  <2>1. req[r].rep = p => req'[r] = NoReq
    BY DEF Crash
  <2>2. req[r].rep # p => req'[r] = req[r]
    BY DEF Crash
  <2>3. req[r].rep # p => req[r].pc = "idle"
    BY <1>1 DEF HandlesOK, Known, RequestKnown
  <2> QED BY <2>1, <2>2, <2>3 DEF NoReq
<1>5. \A q \in Queues : queued'[q] = <<>>
  BY <1>1, <1>2 DEF Crash
<1> QED BY <1>3, <1>4, <1>5

LEMMA CrashHandles ==
    ASSUME HandlesOK, NEW p \in Replicas, Crash(p)
    PROVE  HandlesOK'
<1>1. NoReq \in ReqRecord /\ NoTask \in SlotRecord /\ Free \in JobRecord
  BY DEF Free, NewRecord, JobRecord, States, NoReq, ReqRecord, NoTask, SlotRecord
<1>2. /\ wk' \in [Workers -> SlotRecord] /\ req' \in [Requests -> ReqRecord]
      /\ inProg' \in [Replicas -> SUBSET Jobs]
      /\ \A w \in Workers : wk'[w] \in {NoTask, wk[w]}
      /\ \A r \in Requests : req'[r] \in {NoReq, req[r]}
      /\ lock' = lock /\ disk' = disk
  BY <1>1 DEF Crash, HandlesOK, Types
<1>3. queued' \in [Queues -> Seq(Task)] /\ \A q \in Queues : queued'[q] \in {<<>>, queued[q]}
  <2>1. \A q \in Queues : queued[q] \in Seq(Task)
    BY DEF HandlesOK, Types
  <2>2. <<>> \in Seq(Task)
    OBVIOUS
  <2> QED BY <2>1, <2>2 DEF Crash
<1>4. crashes' \in [Replicas -> Nat] /\ \A q \in Replicas : crashes'[q] <= MaxCrashes[q]
  <2>1. crashes' = [crashes EXCEPT ![p] = @ + 1] /\ crashes[p] < MaxCrashes[p]
    BY DEF Crash
  <2>2. crashes \in [Replicas -> Nat] /\ \A q \in Replicas : crashes[q] <= MaxCrashes[q]
    BY DEF HandlesOK, Types
  <2>3. MaxCrashes[p] \in Nat /\ crashes[p] \in Nat
    BY <2>2, CrashAssumption
  <2>4. crashes[p] + 1 <= MaxCrashes[p] /\ crashes[p] + 1 \in Nat
    BY <2>1, <2>3
  <2> QED BY <2>1, <2>2, <2>4
<1>5. CASE SharedRecords
  <2>1. seedMemoryFromJobs
    BY <1>5 DEF Crash
  <2>2. /\ stored' \in [Jobs -> Objs \cup {None}] /\ obj' \in [Objs -> JobRecord]
        /\ printIdem' \in [Keys -> Jobs \cup {None}]
    BY <1>1, <2>1 DEF seedMemoryFromJobs, Objs, HandlesOK, Types
  <2>3. Types'
    BY <1>2, <1>3, <1>4, <2>2 DEF HandlesOK, Types
  <2>4. \A r \in Requests : RequestKnown(r)'
    BY <1>5, OneProcess DEF HandlesOK, Known, RequestKnown, NoReq
  <2>5. \A w \in Workers : SlotKnown(w)'
    BY <1>5, OneProcess DEF SlotKnown, Busy, HasRef, NoTask
  <2>6. Waits'
    BY <1>5, OneProcess DEF Waits
  <2> QED BY <1>5, <2>3, <2>4, <2>5, <2>6 DEF HandlesOK, Known, Private
<1>6. CASE ~SharedRecords
  <2>1. UNCHANGED <<stored, printIdem>> /\ obj' \in [Objs -> JobRecord]
    BY <1>6, Swept DEF Crash, HandlesOK, Types
  <2>2. Types'
    BY <1>2, <1>3, <1>4, <2>1 DEF HandlesOK, Types
  <2>3. \A r \in Requests : RequestKnown(r)'
    BY <1>2, <2>1 DEF HandlesOK, Known, RequestKnown, NoReq, Exists
  <2>4. \A w \in Workers : SlotKnown(w)'
    BY <1>2, <2>1 DEF HandlesOK, Known, SlotKnown, Busy, HasRef, NoTask, Exists
  <2>5. Waits'
    BY <1>3, <2>1 DEF HandlesOK, Known, Waits, Exists
  <2>6. Private'
    BY <1>2, <2>1 DEF HandlesOK, Private, NoReq, NoTask
  <2> QED BY <2>2, <2>3, <2>4, <2>5, <2>6 DEF HandlesOK, Known
<1> QED BY <1>5, <1>6

LEMMA HandlesStep == HandlesOK /\ [Next]_vars => HandlesOK'
<1> SUFFICES ASSUME HandlesOK, [Next]_vars PROVE HandlesOK'
  OBVIOUS
<1>1. CASE Client
  <2> SUFFICES ASSUME NEW rep \in Replicas, NEW j \in Jobs,
                 \/ createJob(j)
                 \/ \E r \in Requests, t \in Texts : createJobFromTranscript(r, j, t, rep)
                 \/ advanceJob(j, rep)
                 \/ \E r \in Requests, k \in Keys : BeginAck(r, j, k, rep)
                 \/ \E r \in Requests, op \in {"audio", "chunk", "text"}, t \in Texts :
                      BeginUpload(r, op, j, t, rep)
               PROVE HandlesOK'
    BY <1>1 DEF Client
  <2> QED BY CreateHandles, SpeechHandles, advanceJobHandles, BeginAckHandles, BeginUploadHandles
<1>2. ASSUME NEW r \in Requests, HandleUpload(r) \/ Upload(r) \/ HandleAck(r)
      PROVE HandlesOK'
  BY <1>2, RefuseHandles, StageAudioHandles, UploadHandles, EnqueueTaskHandles,
     LoadAckHandles, printAckHandles DEF HandleUpload, Upload, HandleAck
<1>3. ASSUME NEW w \in Workers, WorkerRuns(w) PROVE HandlesOK'
  BY <1>3, TakeHandles, LockHandles, LoadJobHandles, StagesHandles, WriteHandles
     DEF WorkerRuns
<1>4. ASSUME NEW w \in Workers, Answer(w) PROVE HandlesOK'
  BY <1>4, AnswerStages, StageHandles DEF Answer
<1>5. CASE UNCHANGED vars
  BY <1>5, StoreUntouched DEF vars, HandlesOK, Types
<1> QED BY <1>1, <1>2, <1>3, <1>4, <1>5, LapseFlushHandles, CrashHandles DEF Next, Request

-----------------------------------------------------------------------------
(* In memory: whose object is whose                                        *)

RefMove(w) ==
    \/ wk'[w].ref = None
    \/ /\ wk'[w].job = wk[w].job
       /\ \/ wk'[w].ref = wk[w].ref
          \/ wk'[w].ref = stored[wk[w].job] /\ wk[w].job \in Jobs
               /\ Exists(wk[w].job) /\ UNCHANGED stored
OwnersMove ==
    /\ \A w \in Workers : RefMove(w)
    /\ \/ UNCHANGED stored
       \/ \E j \in Jobs, n \in Objs : n \notin Live /\ stored' = [stored EXCEPT ![j] = n]

LEMMA OwnersMoved ==
    ASSUME HandlesOK, OneOwner, SharedRecords, OwnersMove
    PROVE  OneOwner'
<1>1. \A w \in Workers : wk[w].ref \in Objs \cup {None}
  BY DEF HandlesOK, Types, SlotRecord
<1>2. stored \in [Jobs -> Objs \cup {None}] /\ None \notin Objs
  BY AddressFacts DEF HandlesOK, Types
<1>3. CASE UNCHANGED stored
  BY <1>1, <1>2, <1>3 DEF OneOwner, OwnersMove, RefMove, Exists
<1>4. ASSUME NEW j \in Jobs, NEW n \in Objs, n \notin Live,
             stored' = [stored EXCEPT ![j] = n], ~UNCHANGED stored
      PROVE  OneOwner'
  <2>1. \A w \in Workers : \/ wk'[w].ref = None
                           \/ wk'[w].job = wk[w].job /\ wk'[w].ref = wk[w].ref /\ wk'[w].ref # n
    BY <1>1, <1>2, <1>4 DEF OwnersMove, RefMove, Live
  <2>2. \A k \in Jobs : k # j => stored'[k] = stored[k] /\ stored'[k] # n
    BY <1>2, <1>4 DEF Live
  <2>3. stored'[j] = n /\ n # None
    BY <1>2, <1>4
  <2> QED BY <1>1, <2>1, <2>2, <2>3 DEF OneOwner, Exists
<1> QED BY <1>3, <1>4 DEF OwnersMove

LEMMA SetJobOwner ==
    ASSUME HandlesOK, SharedRecords, NEW j \in Jobs, NEW h, NEW rec, setJob(j, h, rec)
    PROVE  \E n \in Objs : n \notin Live /\ stored' = [stored EXCEPT ![j] = n]
BY FreshIsFree DEF setJob, HandlesOK

LEMMA OwnersSlotStays ==
    ASSUME UNCHANGED wk PROVE \A w \in Workers : RefMove(w)
BY DEF RefMove

LEMMA OneSlotOwners ==
    ASSUME HandlesOK, NEW w \in Workers, NEW rec, wk' = [wk EXCEPT ![w] = rec],
           \/ rec.ref = None
           \/ rec.job = wk[w].job /\ rec.ref = wk[w].ref
    PROVE  \A x \in Workers : RefMove(x)
BY DEF HandlesOK, Types, RefMove

LEMMA OwnersStep ==
    ASSUME HandlesOK, OneOwner, SharedRecords, [Next]_vars
    PROVE  OneOwner'
<1>1. ASSUME Client PROVE OwnersMove
  <2>1. ASSUME NEW j \in Jobs, NEW rec, create(j, rec) PROVE OwnersMove
    BY <2>1, SetJobOwner, OwnersSlotStays DEF create, OwnersMove
  <2>2. ASSUME UNCHANGED <<stored, wk>> PROVE OwnersMove
    BY <2>2, OwnersSlotStays DEF OwnersMove
  <2> QED BY <1>1, <2>1, <2>2
          DEF Client, createJob, createJobFromTranscript, advanceJob, BeginAck, BeginUpload
<1>2. ASSUME NEW r \in Requests, HandleUpload(r) \/ Upload(r) \/ HandleAck(r)
      PROVE OwnersMove
  <2>1. UNCHANGED wk
    BY <1>2 DEF HandleUpload, Upload, HandleAck, RefuseUpload, StageAudio, uploadChunk,
       attachText, EnqueueTask, attachAudio, LoadAck, RefuseAck, printAck, SaveAck
  <2>2. ASSUME attachAudio(r) \/ uploadChunk(r) \/ attachText(r) \/ SaveAck(r)
        PROVE OwnersMove
    <3>1. req[r].job \in Jobs
      BY <2>2 DEF HandlesOK, Known, RequestKnown, attachAudio, AudioReady, uploadChunk,
         attachText, SaveAck
    <3> QED BY <2>1, <2>2, <3>1, SetJobOwner, OwnersSlotStays
            DEF OwnersMove, attachAudio, uploadChunk, attachText, SaveAck
  <2>3. ASSUME UNCHANGED stored PROVE OwnersMove
    BY <2>1, <2>3, OwnersSlotStays DEF OwnersMove
  <2> QED BY <1>2, <2>2, <2>3 DEF HandleUpload, Upload, HandleAck, RefuseUpload, StageAudio,
             EnqueueTask, LoadAck, RefuseAck, printAck
<1>3. ASSUME NEW w \in Workers, WorkerRuns(w) PROVE OwnersMove
  <2>1. ASSUME SkipTask(w) PROVE OwnersMove
    BY <2>1, OwnersSlotStays DEF SkipTask, OwnersMove
  <2>2. ASSUME runBackgroundAdvance(w) \/ runFullPipeline(w) \/ ExitAdvance(w)
        PROVE OwnersMove
    <3>1. \E rec : wk' = [wk EXCEPT ![w] = rec] /\ rec.ref = None
      <4> DEFINE began(pc, kind) == [pc |-> pc, kind |-> kind, job |-> Head(Waiting(w)).job,
                                     ref |-> None, in |-> None]
      <4>1. NoTask.ref = None /\ \A pc, kind : began(pc, kind).ref = None
        BY DEF NoTask
      <4>2. \/ wk' = [wk EXCEPT ![w] = NoTask]
            \/ wk' = [wk EXCEPT ![w] = began("get", "advance")]
            \/ wk' = [wk EXCEPT ![w] = began("lock", "advance")]
            \/ wk' = [wk EXCEPT ![w] = began("get", "full")]
        BY <2>2 DEF runBackgroundAdvance, runFullPipeline, ExitAdvance, NoTask
      <4> HIDE DEF began
      <4> QED BY <4>1, <4>2
    <3>2. UNCHANGED stored
      BY <2>2 DEF runBackgroundAdvance, runFullPipeline, ExitAdvance
    <3> QED BY <3>1, <3>2, OneSlotOwners DEF OwnersMove
  <2>0. wk \in [Workers -> SlotRecord] /\ wk[w] \in SlotRecord
    BY DEF HandlesOK, Types
  <2>3. ASSUME NEW pc, NEW in, UNCHANGED stored,
               \/ wk' = [wk EXCEPT ![w].pc = pc]
               \/ wk' = [wk EXCEPT ![w].pc = pc, ![w].in = in]
        PROVE OwnersMove
    <3>1. PICK rec : /\ wk' = [wk EXCEPT ![w] = rec]
                     /\ rec.job = wk[w].job /\ rec.ref = wk[w].ref
      <4>1. CASE wk' = [wk EXCEPT ![w].pc = pc]
        <5>1. wk' = [wk EXCEPT ![w] = [wk[w] EXCEPT !.pc = pc]]
          BY <2>0, <4>1
        <5>2. [wk[w] EXCEPT !.pc = pc].job = wk[w].job /\ [wk[w] EXCEPT !.pc = pc].ref = wk[w].ref
          BY <2>0 DEF SlotRecord
        <5> QED BY <5>1, <5>2
      <4>2. CASE wk' = [wk EXCEPT ![w].pc = pc, ![w].in = in]
        <5>1. wk' = [wk EXCEPT ![w] = [wk[w] EXCEPT !.pc = pc, !.in = in]]
          BY <2>0, <4>2
        <5>2. /\ [wk[w] EXCEPT !.pc = pc, !.in = in].job = wk[w].job
              /\ [wk[w] EXCEPT !.pc = pc, !.in = in].ref = wk[w].ref
          BY <2>0 DEF SlotRecord
        <5> QED BY <5>1, <5>2
      <4> QED BY <2>3, <4>1, <4>2
    <3> QED BY <2>3, <3>1, OneSlotOwners DEF OwnersMove
  <2>4. ASSUME LoadJob(w) PROVE OwnersMove
    <3>1. /\ wk' = [wk EXCEPT ![w].pc = "advance", ![w].ref = stored[wk[w].job]]
          /\ UNCHANGED stored
      BY <2>4 DEF LoadJob, LoadRef
    <3>2. /\ wk'[w].ref = stored[wk[w].job] /\ wk'[w].job = wk[w].job
          /\ \A x \in Workers : x # w => wk'[x] = wk[x]
      BY <2>0, <3>1 DEF SlotRecord
    <3>3. wk[w].job \in Jobs /\ Exists(wk[w].job)
      BY <2>4, SlotFacts DEF LoadJob, Busy, Exists
    <3>4. \A x \in Workers : RefMove(x)
      BY <3>1, <3>2, <3>3 DEF RefMove
    <3> QED BY <3>1, <3>4 DEF OwnersMove
  <2>5. ASSUME acquireJobAdvanceLock(w) \/ releaseJobAdvanceLock(w) \/ BeginStages(w)
               \/ NothingToAdvance(w)
        PROVE OwnersMove
    <3>1. CASE wk' = [wk EXCEPT ![w] = NoTask] /\ UNCHANGED stored
      BY <3>1, OneSlotOwners DEF OwnersMove, NoTask
    <3>2. CASE BeginStages(w)
      <4>1. UNCHANGED stored /\ \E pc, in : wk' = [wk EXCEPT ![w].pc = pc, ![w].in = in]
        BY <3>2 DEF BeginStages
      <4> QED BY <2>3, <4>1
    <3>3. CASE ~BeginStages(w)
      <4>1. /\ UNCHANGED stored
            /\ \/ wk' = [wk EXCEPT ![w] = NoTask]
               \/ \E pc : wk' = [wk EXCEPT ![w].pc = pc]
        BY <2>5, <3>3 DEF acquireJobAdvanceLock, releaseJobAdvanceLock, NothingToAdvance
      <4> QED BY <2>3, <3>1, <4>1
    <3> QED BY <3>2, <3>3
  <2>6. ASSUME WriteJob(w) PROVE OwnersMove
    <3>1. wk[w].job \in Jobs
      BY <2>6, SlotFacts DEF WriteJob, Busy
    <3>2. \E n \in Objs : n \notin Live /\ stored' = [stored EXCEPT ![wk[w].job] = n]
      BY <2>6, <3>1, SetJobOwner DEF WriteJob
    <3>3. wk[w] \in SlotRecord
      BY DEF HandlesOK, Types
    <3>4. wk'[w].ref = None /\ \A x \in Workers : x # w => wk'[x] = wk[x]
      BY <2>6, <3>3 DEF WriteJob, NoTask, HandlesOK, Types, SlotRecord
    <3>5. \A x \in Workers : RefMove(x)
      BY <3>4 DEF RefMove
    <3> QED BY <3>1, <3>2, <3>5 DEF OwnersMove
  <2> QED BY <1>3, <2>1, <2>2, <2>4, <2>5, <2>6 DEF WorkerRuns
<1>4. ASSUME NEW w \in Workers, Answer(w) PROVE OwnersMove
  <2>1. PICK rec \in JobRecord, next \in {"mod", "img", "fin", "sign", "write"},
             in \in Texts \cup {None} : StageTo(w, rec, next, in)
    BY <1>4, AnswerStages DEF Answer
  <2>2. wk \in [Workers -> SlotRecord] /\ wk[w] \in SlotRecord
    BY DEF HandlesOK, Types
  <2>3. wk' = [wk EXCEPT ![w] = [wk[w] EXCEPT !.pc = next, !.in = in]] /\ UNCHANGED stored
    BY <2>1, <2>2 DEF StageTo
  <2>4. /\ [wk[w] EXCEPT !.pc = next, !.in = in].job = wk[w].job
        /\ [wk[w] EXCEPT !.pc = next, !.in = in].ref = wk[w].ref
    BY <2>2 DEF SlotRecord
  <2> QED BY <2>3, <2>4, OneSlotOwners DEF OwnersMove
<1>5. ASSUME (\E j \in Jobs : LockLapse(j)) \/ flushPersistenceSync \/ UNCHANGED vars
      PROVE OwnersMove
  BY <1>5, OwnersSlotStays DEF LockLapse, flushPersistenceSync, vars, OwnersMove
<1>6. ASSUME NEW p \in Replicas, Crash(p) PROVE OneOwner'
  <2>1. \A w \in Workers : wk'[w].ref = None
    BY <1>6, OneProcess DEF NoTask
  <2>2. \A j \in Jobs : stored'[j] \in {j, None}
    BY <1>6 DEF Crash, seedMemoryFromJobs
  <2> QED BY <2>1, <2>2 DEF OneOwner, Exists
<1> QED BY <1>1, <1>2, <1>3, <1>4, <1>5, <1>6, OwnersMoved DEF Next, Request

-----------------------------------------------------------------------------
(* In memory: one chain of microtasks, one slot for a job                  *)

ChainInv == HandlesOK /\ OneChain /\ OneSlotPerJob /\ SharedRecords

(* All slots wait at the one queue of the one process.                     *)
LEMMA OneQueue ==
    ASSUME SharedRecords
    PROVE  /\ Queues = Replicas
           /\ \A w \in Workers, rep \in Replicas : QueueOf(rep) = rep /\ ReplicaOf[w] = rep
BY BackendAssumption, AddressFacts DEF Queues, QueueOf

LEMMA NothingSoon ==
    ASSUME SharedRecords, ~Microtasks
    PROVE  /\ \A r \in Requests : ~SoonReq(r)
           /\ \A w \in Workers : ~SoonSlot(w) /\ (~Busy(w) => Waiting(w) = <<>>)
BY DEF Microtasks, SoonReq, SoonSlot, Busy

LEMMA SlotsSame ==
    ASSUME ChainInv, UNCHANGED <<wk, inProg, queued>>,
           \A r \in Requests : Speech(r)' => ~Exists(req'[r].job) \/ req'[r] = req[r]
    PROVE  OneSlotPerJob'
<1>1. InMemoryOneSlot' /\ Guarded' /\ FullFirst'
  BY DEF ChainInv, OneSlotPerJob, InMemoryOneSlot, Guarded, FullFirst, Busy, InStages
<1>2. SpeechFirst'
  <2> SUFFICES ASSUME NEW r \in Requests, Speech(r)'
               PROVE  /\ \A w \in Workers : Busy(w) => wk[w].job # req'[r].job
                      /\ \A q \in Queues : \A i \in DOMAIN queued[q] :
                           queued[q][i].job # req'[r].job
    BY DEF SpeechFirst, Busy
  <2>1. CASE ~Exists(req'[r].job)
    BY <2>1 DEF ChainInv, HandlesOK, Known, SlotKnown, Waits, Exists
  <2>2. CASE req'[r] = req[r]
    BY <2>2 DEF ChainInv, OneSlotPerJob, SpeechFirst, Speech
  <2> QED BY <2>1, <2>2
<1> QED BY <1>1, <1>2 DEF OneSlotPerJob

(* a request begins, goes on or ends                                       *)
LEMMA ReqChain ==
    ASSUME ChainInv, NEW r \in Requests, UNCHANGED <<wk, inProg, queued>>,
           \A s \in Requests : s # r => req'[s] = req[s],
           SoonReq(r)' => SoonReq(r) \/ ~Microtasks,
           Speech(r)' => ~Exists(req'[r].job)
    PROVE  OneChain' /\ OneSlotPerJob'
<1>1. OneSlotPerJob'
  BY SlotsSame
<1>2. \A s \in Requests : SoonReq(s)' => SoonReq(s) \/ (s = r /\ ~Microtasks)
  BY DEF SoonReq
<1>3. \A w \in Workers : (SoonSlot(w)' <=> SoonSlot(w)) /\ (Busy(w)' <=> Busy(w))
                           /\ Waiting(w)' = Waiting(w)
  BY DEF SoonSlot, Busy, Waiting
<1>4. OneSoon'
  BY <1>2, <1>3, NothingSoon DEF ChainInv, OneChain, OneSoon
<1>5. OneTaken'
  BY <1>2, <1>3, NothingSoon DEF ChainInv, OneChain, OneTaken
<1>6. \A w \in Workers : wk'[w].pc \notin {"lock", "release"}
  BY DEF ChainInv, OneChain
<1> QED BY <1>1, <1>4, <1>5, <1>6 DEF OneChain

(* a task is added: by a client, or as the last microtask of a request     *)
LEMMA EnqueueChain ==
    ASSUME ChainInv, NEW rep \in Replicas, NEW j \in Jobs,
           NEW kind \in {"advance", "full"}, Enqueue(rep, kind, j),
           UNCHANGED <<wk, inProg>>,
           kind = "full" => \E r \in Requests : Speech(r) /\ req[r].job = j,
           \/ ~Microtasks /\ UNCHANGED req
           \/ \E r \in Requests : SoonReq(r) /\ Answered(r)
    PROVE  OneChain' /\ OneSlotPerJob'
<1> DEFINE q == QueueOf(rep)
           t == TaskOf(kind, j)
<1>1. /\ Queues = Replicas /\ q = rep /\ q \in Queues
      /\ \A p \in Queues : p = q
      /\ \A w \in Workers : Waiting(w) = queued[q] /\ Waiting(w)' = queued'[q]
  BY OneQueue, BackendAssumption, AddressFacts DEF ChainInv, Waiting, QueueOf
<1>2. /\ queued[q] \in Seq(Task) /\ t \in Task /\ t.job = j /\ t.kind = kind
      /\ queued'[q] = queued[q] \/ queued'[q] = Append(queued[q], t)
      /\ queued'[q] \in Seq(Task)
  <2>1. t.job = j /\ t.kind = kind
    BY BackendAssumption DEF ChainInv, TaskOf
  <2>2. Types
    BY DEF ChainInv, HandlesOK
  <2>3. queued[q] \in Seq(Task)
    BY <1>1, <2>2 DEF Types
  <2> HIDE DEF t
  <2> QED BY <1>1, <2>1, <2>2, <2>3, Enqueued DEF t
<1>3. /\ \A r \in Requests : ~SoonReq(r)'
      /\ \A w \in Workers : ~SoonSlot(w)' /\ (~Busy(w) => queued[q] = <<>>)
  <2>1. CASE ~Microtasks /\ UNCHANGED req
    BY <1>1, <2>1, NothingSoon DEF ChainInv, SoonReq, SoonSlot
  <2>2. ASSUME NEW r \in Requests, SoonReq(r), Answered(r)
        PROVE <1>3!1 /\ <1>3!2
    <3>1. \A s \in Requests : ~SoonReq(s)'
      BY <2>2 DEF ChainInv, OneChain, OneSoon, SoonReq, Answered, NoReq, HandlesOK, Types
    <3>2. \A w \in Workers : ~SoonSlot(w)'
      BY <2>2 DEF ChainInv, OneChain, OneSoon, SoonSlot
    <3>3. \A w \in Workers : ~Busy(w) => queued[q] = <<>>
      BY <1>1, <2>2 DEF ChainInv, OneChain, OneTaken
    <3> QED BY <3>1, <3>2, <3>3
  <2> QED BY <2>1, <2>2
<1>4. OneSoon' /\ \A w \in Workers : wk'[w].pc \notin {"lock", "release"}
  BY <1>3 DEF OneSoon, ChainInv, OneChain
<1>5. OneTaken'
  <2>1. queued[q] = <<>> => queued'[q] = <<>> \/ Len(queued'[q]) = 1
    <3>1. Append(queued[q], t) # <<>> /\ Len(Append(queued[q], t)) = Len(queued[q]) + 1
      BY <1>2
    <3>2. queued[q] = <<>> => Len(queued[q]) = 0
      OBVIOUS
    <3>3. queued'[q] = queued[q] \/ queued'[q] = Append(queued[q], t)
      BY <1>2
    <3> HIDE DEF q, t
    <3>4. ASSUME queued[q] = <<>>, queued'[q] # <<>> PROVE Len(queued'[q]) = 1
      <4>1. queued'[q] = Append(queued[q], t) /\ Len(queued[q]) = 0
        BY <3>2, <3>3, <3>4
      <4>2. Len(queued'[q]) = Len(queued[q]) + 1
        BY <3>1, <4>1
      <4> QED BY <4>1, <4>2
    <3> QED BY <3>4
  <2>2. \A w \in Workers : Busy(w)' <=> Busy(w)
    BY DEF Busy
  <2> QED BY <1>1, <1>3, <2>1, <2>2 DEF OneTaken
<1>6. FullFirst'
  <2>1. ASSUME NEW i \in DOMAIN queued'[q], queued'[q][i].kind = "full"
        PROVE  /\ \A w \in Workers : Busy(w) => wk[w].job # queued'[q][i].job
               /\ \A n \in 1..i-1 : queued'[q][n].job # queued'[q][i].job
    <3>1. CASE i \in DOMAIN queued[q]
      <4>0. i \in 1..Len(queued[q])
        BY <1>2, <3>1
      <4>1. queued'[q][i] = queued[q][i] /\ \A n \in 1..i-1 : queued'[q][n] = queued[q][n]
        <5>1. \A n \in 1..Len(queued[q]) : Append(queued[q], t)[n] = queued[q][n]
          BY <1>2
        <5>2. queued'[q] = queued[q] \/ queued'[q] = Append(queued[q], t)
          BY <1>2
        <5>3. \A n \in 1..Len(queued[q]) : queued'[q][n] = queued[q][n]
          <6> HIDE DEF q, t
          <6> QED BY <5>1, <5>2
        <5>4. Len(queued[q]) \in Nat
          BY <1>2
        <5>5. \A n \in 1..i-1 : n \in 1..Len(queued[q])
          <6> HIDE DEF q
          <6> QED BY <4>0, <5>4
        <5> HIDE DEF q
        <5> QED BY <4>0, <5>3, <5>5
      <4> QED BY <1>1, <2>1, <3>1, <4>1 DEF ChainInv, OneSlotPerJob, FullFirst
    <3>2. CASE i \notin DOMAIN queued[q]
      <4>1. queued'[q][i] = t /\ i = Len(queued[q]) + 1
            /\ \A n \in 1..i-1 : queued'[q][n] = queued[q][n] /\ n \in DOMAIN queued[q]
        <5>1. queued'[q] = Append(queued[q], t)
          BY <1>2, <2>1, <3>2
        <5>2. /\ \A n \in 1..Len(queued[q]) : Append(queued[q], t)[n] = queued[q][n]
              /\ Append(queued[q], t)[Len(queued[q]) + 1] = t
              /\ DOMAIN Append(queued[q], t) = 1..Len(queued[q]) + 1
              /\ DOMAIN queued[q] = 1..Len(queued[q]) /\ Len(queued[q]) \in Nat
          BY <1>2
        <5>3. i \in 1..Len(queued[q]) + 1 /\ i \notin 1..Len(queued[q])
          BY <2>1, <3>2, <5>1, <5>2
        <5>4. i = Len(queued[q]) + 1
          BY <5>2, <5>3
        <5> QED BY <5>1, <5>2, <5>4
      <4>2. PICK r \in Requests : Speech(r) /\ req[r].job = j
        BY <1>2, <2>1, <4>1
      <4>3. \A n \in DOMAIN queued[q] : queued[q][n].job # j
        BY <1>1, <4>2 DEF ChainInv, OneSlotPerJob, SpeechFirst
      <4>4. \A w \in Workers : Busy(w) => wk[w].job # j
        BY <4>2 DEF ChainInv, OneSlotPerJob, SpeechFirst
      <4> QED BY <1>2, <4>1, <4>3, <4>4
    <3> QED BY <3>1, <3>2
  <2> QED BY <1>1, <2>1 DEF FullFirst, Busy
<1>7. InMemoryOneSlot' /\ Guarded'
  BY DEF ChainInv, OneSlotPerJob, InMemoryOneSlot, Guarded, Busy, InStages
<1>8. SpeechFirst'
  BY <1>3 DEF SpeechFirst, Speech, SoonReq
<1> QED BY <1>4, <1>5, <1>6, <1>7, <1>8 DEF OneChain, OneSlotPerJob

(* a slot goes on in a microtask, or with the answer of a vendor           *)
LEMMA SlotChain ==
    ASSUME ChainInv, NEW w \in Workers, UNCHANGED <<req, queued>>,
           \A x \in Workers : x # w => wk'[x] = wk[x],
           Busy(w), Busy(w)' => wk'[w].job = wk[w].job,
           wk'[w].pc \notin {"lock", "release"},
           SoonSlot(w) \/ (~Microtasks /\ Busy(w)'),
           \/ UNCHANGED inProg /\ (InStages(w)' => InStages(w))
           \/ inProg' = [inProg EXCEPT ![ReplicaOf[w]] = @ \ {wk[w].job}] /\ ~InStages(w)'
           \/ inProg' = [inProg EXCEPT ![ReplicaOf[w]] = @ \cup {wk[w].job}] /\ Busy(w)'
    PROVE  OneChain' /\ OneSlotPerJob'
<1>1. /\ \A x \in Workers : x # w => (SoonSlot(x)' <=> SoonSlot(x)) /\ (Busy(x)' <=> Busy(x))
      /\ \A x \in Workers : Waiting(x)' = Waiting(x)
      /\ \A r \in Requests : SoonReq(r)' <=> SoonReq(r)
  BY DEF SoonSlot, Busy, Waiting, SoonReq
<1>2. /\ \A r \in Requests : ~SoonReq(r)
      /\ \A x \in Workers : x # w => ~SoonSlot(x)
      /\ \A x \in Workers : ~Busy(x) => Waiting(x) = <<>>
  BY NothingSoon DEF ChainInv, OneChain, OneSoon, OneTaken
<1>3. OneSoon'
  BY <1>1, <1>2 DEF OneSoon
<1>4. OneTaken'
  <2>1. ASSUME NEW x \in Workers, ~Busy(x)', Waiting(x)' # <<>>
        PROVE  x = w /\ SoonSlot(w)
    BY <1>1, <1>2, <2>1
  <2>2. \A x \in Workers : ~Busy(x)' /\ Waiting(x)' # <<>> => ~SoonSlot(x)'
    BY DEF Busy, SoonSlot
  <2>3. \A x, y \in Workers : ~Busy(x)' /\ ~Busy(y)' /\ Waiting(x)' # <<>> => x = y
    <3>1. \A x, y \in Workers : Waiting(x)' = Waiting(y)'
      BY OneQueue, AddressFacts DEF ChainInv, Waiting
    <3> QED BY <2>1, <3>1
  <2> QED BY <1>1, <1>2, <2>1, <2>2, <2>3 DEF OneTaken
<1>5. \A x \in Workers : wk'[x].pc \notin {"lock", "release"}
  BY DEF ChainInv, OneChain
<1>6. InMemoryOneSlot'
  BY <1>1 DEF ChainInv, OneSlotPerJob, InMemoryOneSlot
<1>7. FullFirst'
  BY <1>1 DEF ChainInv, OneSlotPerJob, FullFirst
<1>8. Guarded'
  <2> SUFFICES ASSUME NEW x \in Workers, InStages(x)' PROVE wk'[x].job \in inProg'[ReplicaOf[x]]
    BY DEF Guarded
  <2>1. inProg \in [Replicas -> SUBSET Jobs] /\ ReplicaOf[x] \in Replicas /\ ReplicaOf[w] \in Replicas
    BY AddressFacts DEF ChainInv, HandlesOK, Types
  <2>2. CASE x = w
    BY <2>1, <2>2 DEF ChainInv, OneSlotPerJob, Guarded, InStages, Busy
  <2>3. CASE x # w
    <3>1. InStages(x) /\ wk'[x] = wk[x] /\ Busy(x)
      BY <2>3 DEF InStages, Busy
    <3>2. wk[x].job # wk[w].job /\ wk[x].job \in inProg[ReplicaOf[x]]
      BY <2>3, <3>1 DEF ChainInv, OneSlotPerJob, InMemoryOneSlot, Guarded
    <3> QED BY <2>1, <3>1, <3>2
  <2> QED BY <2>2, <2>3
<1>9. SpeechFirst'
  BY <1>1, <1>2 DEF SpeechFirst, Speech, SoonReq
<1> QED BY <1>3, <1>4, <1>5, <1>6, <1>7, <1>8, <1>9 DEF OneChain, OneSlotPerJob

(* a slot takes the task that has waited longest                           *)
LEMMA TakeChain ==
    ASSUME ChainInv, NEW w \in Workers,
           SkipTask(w) \/ runBackgroundAdvance(w) \/ runFullPipeline(w)
    PROVE  OneChain' /\ OneSlotPerJob'
<1> DEFINE q == QueueOf(ReplicaOf[w])
           j == Head(Waiting(w)).job
<1>1. TakeTask(w) /\ UNCHANGED req /\ ~Busy(w) /\ Waiting(w) # <<>>
  BY DEF SkipTask, runBackgroundAdvance, runFullPipeline, TakeTask, Busy
<1>2. /\ q \in Queues /\ (\A p \in Queues : p = q)
      /\ \A x \in Workers : /\ Waiting(x) = queued[q] /\ Waiting(x)' = queued'[q]
                            /\ ReplicaOf[x] = ReplicaOf[w]
  BY OneQueue, BackendAssumption, AddressFacts DEF ChainInv, Waiting
<1>3. /\ \A r \in Requests : ~SoonReq(r)'
      /\ \A x \in Workers : ~SoonSlot(x)
      /\ Len(queued[q]) = 1 \/ \A x \in Workers : ~Busy(x) => x = w
  BY <1>1, <1>2 DEF ChainInv, OneChain, OneTaken, SoonReq
<1>4. /\ queued[q] \in Seq(Task) /\ queued'[q] \in Seq(Task)
      /\ Len(queued'[q]) = Len(queued[q]) - 1 /\ queued[q][1].job = j
      /\ Len(queued[q]) \in Nat \ {0}
      /\ \A i \in 1..Len(queued[q]) - 1 : queued'[q][i] = queued[q][i + 1]
      /\ queued[q][1] = Head(Waiting(w))
  BY <1>1, <1>2, Taken DEF ChainInv, HandlesOK, Types
<1>5. /\ \A x \in Workers : x # w => wk'[x] = wk[x]
      /\ \/ SkipTask(w) /\ wk' = wk /\ inProg' = inProg
         \/ /\ wk'[w].pc = "get" /\ wk'[w].job = j
            /\ \/ inProg' = [inProg EXCEPT ![ReplicaOf[w]] = @ \cup {j}]
                    /\ ~InProgress(w, j)
               \/ inProg' = inProg /\ queued[q][1].kind = "full"
  <2>1. wk \in [Workers -> SlotRecord]
    BY DEF ChainInv, HandlesOK, Types
  <2>2. CASE SkipTask(w)
    BY <2>2 DEF SkipTask
  <2>3. CASE runBackgroundAdvance(w)
    <3>1. /\ wk' = [wk EXCEPT ![w] = [NoTask EXCEPT !.pc = "get", !.job = j]]
          /\ inProg' = [inProg EXCEPT ![ReplicaOf[w]] = @ \cup {j}] /\ ~InProgress(w, j)
      BY <2>3 DEF runBackgroundAdvance, ChainInv
    <3> QED BY <2>1, <3>1 DEF NoTask
  <2>4. CASE runFullPipeline(w)
    <3>1. /\ wk' = [wk EXCEPT ![w] = [NoTask EXCEPT !.pc = "get", !.kind = "full", !.job = j]]
          /\ inProg' = inProg /\ queued[q][1].kind = "full"
      BY <1>4, <2>4 DEF runFullPipeline
    <3> QED BY <2>1, <3>1 DEF NoTask
  <2> QED BY <2>2, <2>3, <2>4
<1>6. OneSoon' /\ \A x \in Workers : wk'[x].pc \notin {"lock", "release"}
  BY <1>3, <1>5 DEF OneSoon, SoonSlot, ChainInv, OneChain
<1>7. OneTaken'
  <2>1. Len(queued[q]) = 1 => queued'[q] = <<>>
    BY <1>4
  <2>2. \A x \in Workers : ~Busy(x)' => ~Busy(x) /\ ~SoonSlot(x)'
    BY <1>1, <1>5 DEF Busy, SoonSlot
  <2>3. (\E x \in Workers : ~Busy(x)' /\ x = w) => SkipTask(w) /\ wk' = wk
    BY <1>5 DEF Busy
  <2>4. ASSUME NEW x \in Workers, ~Busy(x)', Waiting(x)' # <<>>
        PROVE  /\ \A y \in Workers : ~SoonSlot(y)' /\ (~Busy(y)' => y = x)
    <3>1. \A y \in Workers : ~Busy(y) => y = w
      BY <1>2, <1>3, <2>1, <2>4
    <3>2. x = w /\ wk' = wk
      BY <2>2, <2>3, <2>4, <3>1
    <3> QED BY <1>3, <2>2, <3>1, <3>2 DEF SoonSlot
  <2> QED BY <1>3, <2>4 DEF OneTaken
<1>8. FullFirst'
  <2>1. ASSUME NEW i \in DOMAIN queued'[q], queued'[q][i].kind = "full"
        PROVE  /\ \A x \in Workers : Busy(x)' => wk'[x].job # queued'[q][i].job
               /\ \A n \in 1..i-1 : queued'[q][n].job # queued'[q][i].job
    <3>1. /\ i \in 1..Len(queued[q]) - 1 /\ i + 1 \in DOMAIN queued[q] /\ 1 \in 1..(i + 1) - 1
          /\ queued'[q][i] = queued[q][i + 1]
          /\ \A n \in 1..i-1 : queued'[q][n] = queued[q][n + 1] /\ n + 1 \in 1..(i + 1) - 1
      <4>1. DOMAIN queued'[q] = 1..Len(queued[q]) - 1 /\ DOMAIN queued[q] = 1..Len(queued[q])
            /\ Len(queued[q]) \in Nat
        BY <1>4
      <4> QED BY <1>4, <2>1, <4>1
    <3>2. /\ \A x \in Workers : Busy(x) => wk[x].job # queued[q][i + 1].job
          /\ \A n \in 1..(i + 1) - 1 : queued[q][n].job # queued[q][i + 1].job
      BY <1>2, <2>1, <3>1 DEF ChainInv, OneSlotPerJob, FullFirst
    <3>3. \A x \in Workers : Busy(x)' => wk'[x].job # queued[q][i + 1].job
      BY <1>4, <1>5, <3>1, <3>2 DEF Busy
    <3> QED BY <3>1, <3>2, <3>3
  <2> QED BY <1>2, <2>1 DEF FullFirst
<1>9. ASSUME NEW x \in Workers, Busy(x), wk'[w].pc = "get", x # w
      PROVE wk[x].job # wk'[w].job
  <2>1. CASE queued[q][1].kind = "full"
    <3>1. 1 \in DOMAIN queued[q]
      BY <1>4
    <3> QED BY <1>1, <1>2, <1>4, <1>5, <1>9, <2>1, <3>1
            DEF ChainInv, OneSlotPerJob, FullFirst, Busy
  <2>2. CASE ~InProgress(w, j)
    <3>1. InStages(x)
      <4>1. wk[x] \in SlotRecord
        BY DEF ChainInv, HandlesOK, Types
      <4>2. wk[x].pc \notin {"lock", "release"} /\ ~SoonSlot(x)
        BY <1>3 DEF ChainInv, OneChain
      <4> QED BY <1>9, <4>1, <4>2 DEF InStages, SoonSlot, Busy, SlotRecord
    <3>2. wk[x].job \in inProg[ReplicaOf[w]]
      BY <1>2, <3>1 DEF ChainInv, OneSlotPerJob, Guarded
    <3> QED BY <1>1, <1>5, <1>9, <2>2, <3>2 DEF InProgress, Busy
  <2> QED BY <1>1, <1>5, <1>9, <2>1, <2>2 DEF Busy
<1>10. InMemoryOneSlot'
  BY <1>5, <1>9 DEF ChainInv, OneSlotPerJob, InMemoryOneSlot, Busy
<1>11. Guarded'
  BY <1>5, AddressFacts DEF ChainInv, OneSlotPerJob, Guarded, InStages, HandlesOK, Types
<1>12. SpeechFirst'
  BY <1>3 DEF SpeechFirst, Speech, SoonReq
<1> QED BY <1>6, <1>7, <1>8, <1>10, <1>11, <1>12 DEF OneChain, OneSlotPerJob

LEMMA ChainStays ==
    ASSUME ChainInv, UNCHANGED <<req, wk, inProg, queued>>
    PROVE  OneChain' /\ OneSlotPerJob'
<1>1. OneSlotPerJob'
  BY SlotsSame
<1>2. OneChain'
  BY DEF ChainInv, OneChain, OneSoon, OneTaken, SoonReq, SoonSlot, Busy, Waiting
<1> QED BY <1>1, <1>2

LEMMA ReqStepChain ==
    ASSUME ChainInv, NEW r \in Requests, HandleUpload(r) \/ Upload(r) \/ HandleAck(r)
    PROVE  OneChain' /\ OneSlotPerJob'
<1>1. req \in [Requests -> ReqRecord] /\ req[r] \in ReqRecord
  BY DEF ChainInv, HandlesOK, Types
<1>2. CASE EnqueueTask(r)
  <2>1. req[r].job \in Jobs /\ req[r].rep \in Replicas
    BY <1>2 DEF ChainInv, HandlesOK, Known, RequestKnown, EnqueueTask
  <2>2. SoonReq(r) /\ Answered(r)
    BY <1>2 DEF EnqueueTask, SoonReq, Answered
  <2>3. CASE req[r].op = "speech"
    <3>1. Enqueue(req[r].rep, "full", req[r].job) /\ Speech(r) /\ UNCHANGED <<wk, inProg>>
      BY <1>2, <2>3 DEF EnqueueTask, Speech
    <3> QED BY <2>1, <2>2, <3>1, EnqueueChain
  <2>4. CASE req[r].op # "speech"
    <3>1. Enqueue(req[r].rep, "advance", req[r].job) /\ UNCHANGED <<wk, inProg>>
      BY <1>2, <2>4 DEF EnqueueTask
    <3> QED BY <2>1, <2>2, <3>1, EnqueueChain
  <2> QED BY <2>3, <2>4
<1>3. CASE ~EnqueueTask(r)
  <2>1. UNCHANGED <<wk, inProg, queued>>
    BY <1>3 DEF HandleUpload, Upload, HandleAck, RefuseUpload, StageAudio, uploadChunk,
       attachText, attachAudio, LoadAck, RefuseAck, printAck, SaveAck
  <2>2. \E new : req' = [req EXCEPT ![r] = new]
    <3>1. CASE Upload(r) \/ RefuseUpload(r) \/ uploadChunk(r) \/ RefuseAck(r) \/ SaveAck(r)
      BY <3>1 DEF Upload, attachAudio, RefuseUpload, uploadChunk, RefuseAck, SaveAck
    <3>2. CASE StageAudio(r) \/ attachText(r) \/ LoadAck(r) \/ printAck(r)
      <4> DEFINE new(pc, ref) == [req[r] EXCEPT !.pc = pc, !.ref = ref]
                 newpc(pc) == [req[r] EXCEPT !.pc = pc]
      <4>1. \/ req' = [req EXCEPT ![r] = newpc("stage")]
            \/ req' = [req EXCEPT ![r] = newpc("save")]
            \/ req' = [req EXCEPT ![r] = new("enqueue", None)]
            \/ req' = [req EXCEPT ![r] = new("act", LoadRef(req[r].job, r))]
        BY <1>1, <3>2 DEF StageAudio, attachText, LoadAck, printAck
      <4> QED BY <4>1
    <3> QED BY <1>3, <3>1, <3>2 DEF HandleUpload, HandleAck
  <2>3. \A s \in Requests : s # r => req'[s] = req[s]
    BY <1>1, <2>2
  <2>4. SoonReq(r)' => SoonReq(r)
    <3>1. CASE Upload(r)
      BY <1>1, <3>1 DEF Upload, attachAudio, SoonReq, NoReq
    <3>2. CASE ~Upload(r)
      BY <1>3, <3>2 DEF HandleUpload, HandleAck, RefuseUpload, StageAudio,
         uploadChunk, attachText, LoadAck, RefuseAck, printAck, SaveAck, SoonReq
    <3> QED BY <3>1, <3>2
  <2>5. ~Speech(r)'
    <3>1. CASE Upload(r) \/ RefuseUpload(r) \/ uploadChunk(r) \/ RefuseAck(r) \/ SaveAck(r)
      BY <1>1, <3>1 DEF Upload, attachAudio, RefuseUpload, uploadChunk, RefuseAck, SaveAck,
         Speech, NoReq
    <3>2. CASE StageAudio(r) \/ attachText(r) \/ LoadAck(r) \/ printAck(r)
      BY <1>1, <3>2 DEF StageAudio, attachText, LoadAck, printAck, Speech, ReqRecord
    <3> QED BY <1>3, <3>1, <3>2 DEF HandleUpload, HandleAck
  <2> QED BY <2>1, <2>3, <2>4, <2>5, ReqChain
<1> QED BY <1>2, <1>3

LEMMA SlotStepChain ==
    ASSUME ChainInv, NEW w \in Workers, WorkerRuns(w)
    PROVE  OneChain' /\ OneSlotPerJob'
<1>1. wk \in [Workers -> SlotRecord] /\ wk[w] \in SlotRecord
  BY DEF ChainInv, HandlesOK, Types
<1>2. ~acquireJobAdvanceLock(w) /\ ~releaseJobAdvanceLock(w)
  BY DEF ChainInv, OneChain, acquireJobAdvanceLock, releaseJobAdvanceLock
<1>3. ASSUME NEW pc \in {"advance", "write", "exit"}, NEW rec \in SlotRecord,
             wk' = [wk EXCEPT ![w] = rec],
             rec = NoTask \/ (rec.pc = pc /\ rec.job = wk[w].job),
             SoonSlot(w), UNCHANGED <<req, queued>>,
             UNCHANGED inProg \/ LeaveStages(w)
      PROVE  OneChain' /\ OneSlotPerJob'
  <2>1. wk'[w] = rec /\ \A x \in Workers : x # w => wk'[x] = wk[x]
    BY <1>1, <1>3
  <2>2. wk'[w].pc \in {pc, "idle"} /\ (wk'[w].pc # "idle" => wk'[w].job = wk[w].job)
    BY <1>3, <2>1 DEF NoTask
  <2>3. ~InStages(w)' /\ Busy(w)
    BY <1>3, <2>2 DEF InStages, Busy, SoonSlot
  <2> QED BY <1>3, <2>1, <2>2, <2>3, SlotChain DEF Busy, LeaveStages
<1>4. NoTask \in SlotRecord
  BY DEF NoTask, SlotRecord
<1>5. CASE LoadJob(w)
  <2>1. wk[w].job \in Jobs /\ Exists(wk[w].job) /\ w \in Objs
    BY <1>5, SlotFacts DEF ChainInv, LoadJob, Busy, Exists, Objs
  <2>2. LoadRef(wk[w].job, w) \in Objs
    BY <2>1, Loaded DEF ChainInv, HandlesOK
  <2> DEFINE new(ref) == [wk[w] EXCEPT !.pc = "advance", !.ref = ref]
  <2>3. \A ref \in Objs : new(ref) \in SlotRecord /\ new(ref).pc = "advance"
                             /\ new(ref).job = wk[w].job
    BY <1>1 DEF SlotRecord
  <2>4. wk' = [wk EXCEPT ![w] = new(LoadRef(wk[w].job, w))]
    BY <1>1, <1>5 DEF LoadJob
  <2> HIDE DEF new
  <2>5. SoonSlot(w) /\ UNCHANGED <<req, queued, inProg>>
    BY <1>5 DEF LoadJob, SoonSlot
  <2> QED BY <1>3, <2>2, <2>3, <2>4, <2>5
<1>6. CASE BeginStages(w)
  <2>1. StageCall(obj[wk[w].ref].state) \in {"asr", "mod", "img", "fin"}
    BY <1>6, StateFacts DEF BeginStages, StageCall
  <2>2. /\ wk'[w].pc = StageCall(obj[wk[w].ref].state) /\ wk'[w].job = wk[w].job
        /\ \A x \in Workers : x # w => wk'[x] = wk[x]
    BY <1>1, <1>6 DEF BeginStages, SlotRecord
  <2>3. SoonSlot(w) /\ Busy(w) /\ UNCHANGED <<req, queued>>
        /\ inProg' = [inProg EXCEPT ![ReplicaOf[w]] = @ \cup {wk[w].job}]
    BY <1>6 DEF BeginStages, SoonSlot, Busy
  <2>4. wk'[w].pc \notin {"lock", "release", "idle"}
    BY <2>1, <2>2
  <2> QED BY <2>2, <2>3, <2>4, SlotChain DEF Busy
<1>7. CASE NothingToAdvance(w)
  <2> DEFINE new == [wk[w] EXCEPT !.pc = "write"]
  <2>1. new \in SlotRecord /\ new.pc = "write" /\ new.job = wk[w].job
    BY <1>1 DEF SlotRecord
  <2>2. wk' = [wk EXCEPT ![w] = NoTask] \/ wk' = [wk EXCEPT ![w] = new]
    BY <1>1, <1>7 DEF NothingToAdvance
  <2> HIDE DEF new
  <2>3. SoonSlot(w) /\ UNCHANGED <<req, queued>>
    BY <1>7 DEF NothingToAdvance, SoonSlot
  <2>4. UNCHANGED inProg \/ LeaveStages(w)
    BY <1>7 DEF NothingToAdvance, LeaveStages, ChainInv, HandlesOK, Types
  <2> QED BY <1>3, <1>4, <2>1, <2>2, <2>3, <2>4
<1>8. CASE WriteJob(w)
  <2> DEFINE new == [wk[w] EXCEPT !.pc = "exit", !.ref = None]
  <2>1. new \in SlotRecord /\ new.pc = "exit" /\ new.job = wk[w].job
    BY <1>1 DEF SlotRecord
  <2>2. wk' = [wk EXCEPT ![w] = NoTask] \/ wk' = [wk EXCEPT ![w] = new]
    BY <1>1, <1>8 DEF WriteJob, ChainInv
  <2> HIDE DEF new
  <2>3. SoonSlot(w) /\ UNCHANGED <<req, queued, inProg>>
    BY <1>8 DEF WriteJob, SoonSlot
  <2> QED BY <1>3, <1>4, <2>1, <2>2, <2>3
<1>9. CASE ExitAdvance(w)
  BY <1>3, <1>4, <1>9 DEF ExitAdvance, SoonSlot
<1> QED BY <1>2, <1>5, <1>6, <1>7, <1>8, <1>9, TakeChain DEF WorkerRuns

LEMMA ChainStep ==
    ASSUME ChainInv, [Next]_vars
    PROVE  OneChain' /\ OneSlotPerJob'
<1>1. CASE Request
  <2> SUFFICES ASSUME NEW rep \in Replicas, NEW j \in Jobs, ~Microtasks,
                 \/ createJob(j)
                 \/ \E r \in Requests, t \in Texts : createJobFromTranscript(r, j, t, rep)
                 \/ advanceJob(j, rep)
                 \/ \E r \in Requests, k \in Keys : BeginAck(r, j, k, rep)
                 \/ \E r \in Requests, op \in {"audio", "chunk", "text"}, t \in Texts :
                      BeginUpload(r, op, j, t, rep)
               PROVE OneChain' /\ OneSlotPerJob'
    BY <1>1 DEF Request, Client
  <2>1. CASE createJob(j)
    BY <2>1, ChainStays DEF createJob, create
  <2>2. ASSUME NEW r \in Requests, NEW t \in Texts, createJobFromTranscript(r, j, t, rep)
        PROVE OneChain' /\ OneSlotPerJob'
    <3>1. /\ req'[r].job = j /\ ~Exists(j) /\ UNCHANGED <<wk, inProg, queued>>
          /\ \A s \in Requests : s # r => req'[s] = req[s]
      BY <2>2 DEF createJobFromTranscript, create, ChainInv, HandlesOK, Types
    <3> QED BY <3>1, ReqChain
  <2>3. CASE advanceJob(j, rep)
    BY <2>3, EnqueueChain DEF advanceJob
  <2>4. ASSUME NEW r \in Requests, NEW new, req' = [req EXCEPT ![r] = new],
               new.pc # "enqueue", UNCHANGED <<wk, inProg, queued>>
        PROVE OneChain' /\ OneSlotPerJob'
    <3>1. req'[r] = new /\ \A s \in Requests : s # r => req'[s] = req[s]
      BY <2>4 DEF ChainInv, HandlesOK, Types
    <3> QED BY <2>4, <3>1, ReqChain DEF Speech
  <2>5. ASSUME NEW r \in Requests, NEW k \in Keys, BeginAck(r, j, k, rep)
        PROVE OneChain' /\ OneSlotPerJob'
    <3> DEFINE new == [op |-> "ack", pc |-> "load", job |-> j, arg |-> k, ref |-> None,
                       rep |-> rep]
    <3>1. req' = [req EXCEPT ![r] = new] /\ UNCHANGED <<wk, inProg, queued>>
      BY <2>5 DEF BeginAck
    <3>2. new.pc # "enqueue"
      OBVIOUS
    <3> HIDE DEF new
    <3> QED BY <2>4, <3>1, <3>2
  <2>6. ASSUME NEW r \in Requests, NEW op \in {"audio", "chunk", "text"}, NEW t \in Texts,
               BeginUpload(r, op, j, t, rep)
        PROVE OneChain' /\ OneSlotPerJob'
    <3> DEFINE new == [op |-> op, pc |-> "act", job |-> j,
                       arg |-> IF op = "text" THEN t ELSE None,
                       ref |-> LoadRef(j, r), rep |-> rep]
    <3>1. req' = [req EXCEPT ![r] = new] /\ UNCHANGED <<wk, inProg, queued>>
      BY <2>6 DEF BeginUpload
    <3>2. new.pc # "enqueue"
      OBVIOUS
    <3> HIDE DEF new
    <3> QED BY <2>4, <3>1, <3>2
  <2> QED BY <2>1, <2>2, <2>3, <2>5, <2>6
<1>2. ASSUME NEW w \in Workers, Answer(w) PROVE OneChain' /\ OneSlotPerJob'
  <2>1. PICK rec \in JobRecord, next \in {"mod", "img", "fin", "sign", "write"},
             in \in Texts \cup {None} :
               StageTo(w, rec, next, in) /\ StageGood(w, rec, next, in)
    BY <1>2, AnswerStages DEF Answer, ChainInv
  <2>2. wk \in [Workers -> SlotRecord] /\ wk[w] \in SlotRecord
    BY DEF ChainInv, HandlesOK, Types
  <2>3. /\ wk'[w].pc = next /\ wk'[w].job = wk[w].job
        /\ \A x \in Workers : x # w => wk'[x] = wk[x]
    BY <2>1, <2>2 DEF StageTo, SlotRecord
  <2>4. InStages(w) /\ UNCHANGED <<req, queued>>
    BY <2>1 DEF StageTo
  <2>5. UNCHANGED inProg \/ (LeaveStages(w) /\ next = "write")
    BY <2>1 DEF StageGood
  <2>6. ~Microtasks
    BY <1>2 DEF Answer
  <2> QED BY <2>3, <2>4, <2>5, <2>6, SlotChain DEF Busy, InStages, LeaveStages
<1>3. ASSUME NEW p \in Replicas, Crash(p) PROVE OneChain' /\ OneSlotPerJob'
  <2>1. /\ \A w \in Workers : ~Busy(w)' /\ ~InStages(w)' /\ ~SoonSlot(w)'
                                /\ wk'[w].pc = "idle"
        /\ \A r \in Requests : ~SoonReq(r)'
        /\ \A q \in Queues : queued'[q] = <<>>
    BY <1>3, OneProcess DEF ChainInv, NoTask, Busy, InStages, SoonSlot, SoonReq
  <2>2. \A w \in Workers : Waiting(w)' = <<>>
    BY <2>1, QueueFacts DEF Waiting
  <2>3. OneChain'
    BY <2>1, <2>2 DEF OneChain, OneSoon, OneTaken
  <2>4. OneSlotPerJob'
    BY <2>1 DEF OneSlotPerJob, InMemoryOneSlot, Guarded, FullFirst, SpeechFirst, Speech, SoonReq
  <2> QED BY <2>3, <2>4
<1>4. CASE (\E j \in Jobs : LockLapse(j)) \/ flushPersistenceSync \/ UNCHANGED vars
  BY <1>4, ChainStays DEF LockLapse, flushPersistenceSync, vars
<1> QED BY <1>1, <1>2, <1>3, <1>4, ReqStepChain, SlotStepChain DEF Next

LEMMA ChainsStep == HandlesOK /\ ChainsOK /\ [Next]_vars => ChainsOK'
<1> SUFFICES ASSUME HandlesOK, ChainsOK, [Next]_vars PROVE ChainsOK'
  OBVIOUS
<1>1. CASE SharedRecords
  BY <1>1, OwnersStep, ChainStep DEF ChainsOK, ChainInv
<1>2. CASE ~SharedRecords
  BY <1>2 DEF ChainsOK, OneOwner, OneChain, OneSlotPerJob
<1> QED BY <1>1, <1>2


-----------------------------------------------------------------------------
(* What the records hold, and what the workers took from them              *)

LEMMA OwnRecord ==
    ASSUME HandlesOK, ChainsOK, NEW w \in Workers, NEW x \in Workers,
           HasRef(w), HasRef(x), wk[w].ref = wk[x].ref
    PROVE  w = x
<1>1. wk[w].ref \in Objs /\ wk[x].ref \in Objs /\ None \notin Objs
  BY SlotFacts, AddressFacts
<1>2. CASE ~SharedRecords
  BY <1>1, <1>2 DEF HandlesOK, Private
<1>3. CASE SharedRecords
  <2>1. wk[w].job = wk[x].job /\ Busy(w) /\ Busy(x)
    BY <1>1, <1>3 DEF ChainsOK, OneOwner, HasRef, Busy
  <2> QED BY <1>3, <2>1 DEF ChainsOK, OneSlotPerJob, InMemoryOneSlot
<1> QED BY <1>2, <1>3

LEMMA InStagesRef ==
    ASSUME HandlesOK, NEW w \in Workers, InStages(w)
    PROVE  HasRef(w) /\ wk[w].ref \in Objs /\ wk[w].ref # None
BY SlotFacts, AddressFacts DEF InStages, HasRef

(* a slot the step does not move, of a record that stays in the stages     *)
Undisturbed(w, h) ==
    InStages(w)' =>
      /\ wk'[w] = wk[w]
      /\ h[wk[w].ref].transcript = obj[wk[w].ref].transcript
      /\ h[wk[w].ref].state \in Stages

LEMMA CarriesKept ==
    ASSUME HandlesOK, Carried, NEW w \in Workers, NEW h, Undisturbed(w, h),
           InStages(w)' => obj'[wk[w].ref] = h[wk[w].ref]
    PROVE  Carries(w)'
BY DEF Carried, Carries, InStages, Undisturbed

LEMMA HeapSwept ==
    ASSUME HandlesOK, GoodRecords, Carried, NEW h \in [Objs -> JobRecord],
           obj' = Sweep(h), UNCHANGED <<disk, bucket>>, \A o \in Objs : GoodRecord(h[o]),
           \A w \in Workers : Undisturbed(w, h)
    PROVE  GoodRecords' /\ Carried'
<1>1. GoodRecord(Free)
  BY StateFacts DEF GoodRecord, Free, NewRecord, Ready
<1>2. GoodRecords'
  BY <1>1, Swept DEF GoodRecords
<1>3. ASSUME NEW w \in Workers PROVE Carries(w)'
  <2>1. InStages(w)' => InStages(w) /\ wk'[w] = wk[w]
    BY DEF Undisturbed, InStages
  <2>2. InStages(w)' => wk[w].ref \in Objs /\ wk[w].ref \in Live'
    BY <2>1, InStagesRef DEF Live
  <2> QED BY <2>2, Swept, CarriesKept
<1> QED BY <1>2, <1>3 DEF Carried

LEMMA HeapSet ==
    ASSUME HandlesOK, GoodRecords, Carried, NEW h \in [Objs -> JobRecord],
           NEW j \in Jobs, NEW rec \in JobRecord, setJob(j, h, rec), UNCHANGED <<disk, bucket>>,
           \A o \in Objs : GoodRecord(h[o]), GoodRecord(rec),
           \A w \in Workers : Undisturbed(w, h)
    PROVE  GoodRecords' /\ Carried'
<1>1. GoodRecord(Free)
  BY StateFacts DEF GoodRecord, Free, NewRecord, Ready
<1>2. PICK n : StoredAt(j, n, h, rec)
  BY SetJob DEF HandlesOK
<1>3. GoodRecords'
  BY <1>1, <1>2 DEF GoodRecords, StoredAt
<1>4. ASSUME NEW w \in Workers PROVE Carries(w)'
  <2>1. InStages(w)' => InStages(w) /\ wk'[w] = wk[w]
    BY DEF Undisturbed, InStages
  <2>2. InStages(w)' => wk[w].ref \in Objs /\ wk[w].ref \in Live /\ wk[w].ref \in Live'
    BY <2>1, InStagesRef DEF Live
  <2>3. InStages(w)' => wk[w].ref # n
    <3>1. CASE SharedRecords
      BY <1>2, <2>2, <3>1 DEF StoredAt
    <3>2. CASE ~SharedRecords
      BY <1>2, <2>1, <3>2, InStagesRef, AddressFacts DEF StoredAt, HandlesOK, Private
    <3> QED BY <3>1, <3>2
  <2>4. InStages(w)' => obj'[wk[w].ref] = h[wk[w].ref]
    BY <1>2, <2>2, <2>3 DEF StoredAt
  <2> QED BY <2>4, CarriesKept
<1> QED BY <1>3, <1>4 DEF Carried

(* a slot that a step leaves where it is, on a heap that keeps its record  *)
LEMMA Still ==
    ASSUME Carried, NEW w \in Workers, NEW h, wk'[w] = wk[w],
           InStages(w) => h[wk[w].ref] = obj[wk[w].ref]
    PROVE  Undisturbed(w, h)
BY DEF Carried, Carries, Undisturbed, InStages

LEMMA NoRecords ==
    ASSUME IInv, UNCHANGED <<obj, disk, bucket>>,
           \A w \in Workers : wk'[w] = wk[w] \/ ~InStages(w)'
    PROVE  GoodRecords' /\ Carried'
<1>1. GoodRecords'
  BY DEF IInv, GoodRecords
<1>2. ASSUME NEW w \in Workers PROVE Carries(w)'
  BY DEF IInv, Carried, Carries, InStages
<1> QED BY <1>1, <1>2 DEF Carried

LEMMA LoadRecords ==
    ASSUME IInv, NEW j \in Jobs, Exists(j), NEW x \in Requests \cup Workers,
           obj' = Sweep(LoadHeap(j, x)), UNCHANGED <<disk, bucket>>,
           \A w \in Workers : (w # x /\ wk'[w] = wk[w]) \/ ~InStages(w)'
    PROVE  GoodRecords' /\ Carried'
<1> DEFINE h == LoadHeap(j, x)
<1>1. x \in Objs /\ stored[j] \in Objs
  BY DEF Objs, IInv, HandlesOK, Types, Exists
<1>2. /\ h \in [Objs -> JobRecord]
      /\ \A o \in Objs : h[o] = obj[o] \/ (~SharedRecords /\ o = x /\ h[o] = obj[stored[j]])
  BY <1>1, Loaded DEF IInv, HandlesOK
<1> HIDE DEF h
<1>3. \A o \in Objs : GoodRecord(h[o])
  BY <1>1, <1>2 DEF IInv, GoodRecords
<1>4. ASSUME NEW w \in Workers PROVE Undisturbed(w, h)
  <2>1. CASE wk'[w] = wk[w] /\ InStages(w)' /\ w # x
    <3>1. wk[w].ref \in Objs /\ wk[w].ref # None /\ InStages(w)
      BY <2>1, InStagesRef DEF InStages, IInv
    <3>2. ~SharedRecords => wk[w].ref = w
      BY <3>1 DEF IInv, HandlesOK, Private
    <3>3. h[wk[w].ref] = obj[wk[w].ref]
      BY <1>2, <2>1, <3>1, <3>2
    <3> QED BY <2>1, <3>3, Still DEF IInv
  <2> QED BY <2>1 DEF Undisturbed
<1> QED BY <1>2, <1>3, <1>4, HeapSwept DEF IInv, h


LEMMA CreateRecords ==
    ASSUME IInv, NEW j \in Jobs, NEW t \in Texts \cup {None},
           NEW s \in {"created", "asr_complete"}, create(j, NewRecord(s, t))
    PROVE  GoodRecords' /\ Carried'
<1>1. NewRecord(s, t) \in JobRecord /\ GoodRecord(NewRecord(s, t))
  BY StateFacts DEF NewRecord, JobRecord, GoodRecord, Ready
<1>2. \A w \in Workers : Undisturbed(w, obj)
  BY Still DEF create, IInv
<1>3. obj \in [Objs -> JobRecord] /\ \A o \in Objs : GoodRecord(obj[o])
  BY DEF IInv, HandlesOK, Types, GoodRecords
<1> QED BY <1>1, <1>2, <1>3, HeapSet DEF create, IInv

LEMMA UploadRecords ==
    ASSUME IInv, NEW r \in Requests,
           attachAudio(r) \/ uploadChunk(r) \/ attachText(r) \/ SaveAck(r)
    PROVE  GoodRecords' /\ Carried'
<1> DEFINE o == req[r].ref
           j == req[r].job
<1>1. /\ req[r] \in ReqRecord /\ RequestKnown(r)
      /\ obj \in [Objs -> JobRecord] /\ \A p \in Objs : GoodRecord(obj[p])
  BY DEF IInv, HandlesOK, Types, Known, GoodRecords
<1>2. o \in Objs /\ j \in Jobs
  BY <1>1 DEF attachAudio, AudioReady, uploadChunk, attachText, SaveAck, RequestKnown, ReqRecord
<1>3. obj[o] \in JobRecord /\ GoodRecord(obj[o]) /\ Types
  BY <1>1, <1>2 DEF IInv, HandlesOK
<1>4. wk' = wk /\ UNCHANGED <<disk, bucket>>
  BY DEF attachAudio, uploadChunk, attachText, SaveAck
<1>5. CASE uploadChunk(r) \/ SaveAck(r)
  <2>1. setJob(j, obj, obj[o])
    BY <1>5 DEF uploadChunk, SaveAck
  <2>2. \A w \in Workers : Undisturbed(w, obj)
    BY <1>4, Still DEF IInv
  <2> QED BY <1>1, <1>2, <1>3, <1>4, <2>1, <2>2, HeapSet DEF IInv
<1>6. CASE attachAudio(r)
  <2> DEFINE rec == [obj[o] EXCEPT !.state = "audio_received"]
             h == [obj EXCEPT ![o] = rec]
  <2>1. rec \in JobRecord
    BY <1>2, <1>3, Changed, StateFacts
  <2>2. /\ rec.state = "audio_received" /\ rec.preview = obj[o].preview
        /\ rec.transcript = obj[o].transcript
    BY <1>3 DEF JobRecord
  <2>3. GoodRecord(rec) /\ rec.state \in Stages
    BY <1>3, <2>2, StateFacts DEF GoodRecord, Ready
  <2>4. setJob(j, h, rec)
    BY <1>6 DEF attachAudio
  <2> HIDE DEF rec
  <2>5. h \in [Objs -> JobRecord] /\ \A p \in Objs : GoodRecord(h[p])
    BY <1>1, <2>1, <2>3
  <2>6. ASSUME NEW w \in Workers PROVE Undisturbed(w, h)
    <3>1. InStages(w) => /\ wk[w].ref \in Objs /\ obj[wk[w].ref].state \in Stages
      BY InStagesRef DEF IInv, Carried, Carries
    <3>2. InStages(w) => /\ h[wk[w].ref].transcript = obj[wk[w].ref].transcript
                         /\ h[wk[w].ref].state \in Stages
      BY <1>1, <2>2, <2>3, <3>1
    <3> QED BY <1>4, <3>2 DEF Undisturbed, InStages
  <2> HIDE DEF h
  <2> QED BY <1>2, <1>4, <2>1, <2>3, <2>4, <2>5, <2>6, HeapSet DEF IInv
<1>7. CASE attachText(r)
  <2> DEFINE rec == [obj[o] EXCEPT !.state = "asr_complete", !.transcript = req[r].arg]
             h == [obj EXCEPT ![o] = rec]
  <2>0. req[r].arg \in Texts /\ obj[o].state = "created"
    BY <1>1, <1>7 DEF attachText, RequestKnown, AcceptsUpload
  <2>1. rec \in JobRecord
    BY <1>2, <1>3, <2>0, Changed, StateFacts
  <2>2. rec.state = "asr_complete" /\ rec.preview = obj[o].preview
    BY <1>3 DEF JobRecord
  <2>3. GoodRecord(rec)
    BY <1>3, <2>2, StateFacts DEF GoodRecord, Ready
  <2>4. setJob(j, h, rec)
    BY <1>7 DEF attachText
  <2> HIDE DEF rec
  <2>5. h \in [Objs -> JobRecord] /\ \A p \in Objs : GoodRecord(h[p])
    BY <1>1, <2>1, <2>3
  <2>6. ASSUME NEW w \in Workers PROVE Undisturbed(w, h)
    <3>1. InStages(w) => /\ wk[w].ref \in Objs /\ obj[wk[w].ref].state \in Stages
      BY InStagesRef DEF IInv, Carried, Carries
    <3>2. InStages(w) => h[wk[w].ref] = obj[wk[w].ref]
      BY <1>1, <2>0, <3>1, StateFacts
    <3> QED BY <1>4, <3>2, Still DEF IInv
  <2> HIDE DEF h
  <2> QED BY <1>2, <1>4, <2>1, <2>3, <2>4, <2>5, <2>6, HeapSet DEF IInv
<1> QED BY <1>5, <1>6, <1>7

LEMMA printAckRecords ==
    ASSUME IInv, NEW r \in Requests, printAck(r)
    PROVE  GoodRecords' /\ Carried'
<1> DEFINE o == req[r].ref
           rec == [obj[o] EXCEPT !.state = "print_acknowledged"]
<1>1. /\ o \in Objs /\ obj \in [Objs -> JobRecord] /\ obj[o].state = "preview_ready"
      /\ \A p \in Objs : GoodRecord(obj[p])
  BY DEF IInv, HandlesOK, Types, Known, GoodRecords, RequestKnown, ReqRecord,
         printAck, AcceptsAck
<1>2. rec.state = "print_acknowledged" /\ rec.preview = obj[o].preview
  BY <1>1 DEF JobRecord
<1>3. GoodRecord(rec)
  BY <1>1, <1>2 DEF GoodRecord, Ready
<1>4. obj' = [obj EXCEPT ![o] = rec] /\ wk' = wk /\ UNCHANGED <<disk, bucket>>
  BY <1>1 DEF printAck
<1> HIDE DEF rec
<1>5. GoodRecords'
  BY <1>1, <1>3, <1>4 DEF IInv, GoodRecords
<1>6. ASSUME NEW w \in Workers PROVE Carries(w)'
  <2>1. InStages(w) => /\ wk[w].ref \in Objs /\ obj[wk[w].ref].state \in Stages
    BY InStagesRef DEF IInv, Carried, Carries
  <2>2. InStages(w) => obj'[wk[w].ref] = obj[wk[w].ref]
    BY <1>1, <1>4, <2>1, StateFacts
  <2>3. Undisturbed(w, obj')
    BY <1>4, <2>2, Still DEF IInv
  <2> QED BY <2>3, CarriesKept DEF IInv
<1> QED BY <1>5, <1>6 DEF Carried

LEMMA BeginStagesRecords ==
    ASSUME IInv, NEW w \in Workers, BeginStages(w)
    PROVE  GoodRecords' /\ Carried'
<1> DEFINE rec == obj[wk[w].ref]
           in == IF rec.state \in {"asr_complete", "moderation_passed"}
                 THEN rec.transcript ELSE None
<1>1. wk \in [Workers -> SlotRecord] /\ wk[w] \in SlotRecord /\ wk[w].ref \in Objs
  BY SlotFacts DEF IInv, HandlesOK, Types, BeginStages, HasRef
<1>2. /\ wk'[w].pc = StageCall(rec.state) /\ wk'[w].in = in /\ wk'[w].ref = wk[w].ref
      /\ \A x \in Workers : x # w => wk'[x] = wk[x]
      /\ obj' = obj /\ UNCHANGED <<disk, bucket>> /\ rec.state \in Stages
  BY <1>1 DEF BeginStages, SlotRecord
<1>3. GoodRecord(rec)
  BY <1>1 DEF IInv, GoodRecords
<1>4. GoodRecords'
  BY <1>2 DEF IInv, GoodRecords
<1>5. Carries(w)'
  <2>1. obj'[wk'[w].ref] = rec
    BY <1>2
  <2>2. wk'[w].pc = "mod" => rec.state = "asr_complete"
    BY <1>2, StateFacts DEF StageCall
  <2>3. wk'[w].pc = "img" => rec.state = "moderation_passed"
    BY <1>2, StateFacts DEF StageCall
  <2>4. wk'[w].pc = "fin" => rec.state = "image_generation"
    BY <1>2, StateFacts DEF StageCall
  <2>5. wk'[w].pc # "sign"
    BY <1>2, StateFacts DEF StageCall
  <2> QED BY <1>2, <1>3, <2>1, <2>2, <2>3, <2>4, <2>5 DEF Carries, GoodRecord
<1>6. ASSUME NEW x \in Workers, x # w PROVE Carries(x)'
  BY <1>2, <1>6 DEF IInv, Carried, Carries, InStages
<1> QED BY <1>4, <1>5, <1>6 DEF Carried

LEMMA StageRecords ==
    ASSUME IInv, NEW w \in Workers, VendorAnswers(w)
    PROVE  GoodRecords' /\ Carried'
<1> DEFINE o == wk[w].ref
           old == obj[o]
<1>1. PICK rec \in JobRecord, next \in {"mod", "img", "fin", "sign", "write"},
           in \in Texts \cup {None} :
             StageTo(w, rec, next, in) /\ StageGood(w, rec, next, in)
  BY AnswerStages DEF IInv
<1>2. /\ InStages(w) /\ HasRef(w) /\ o \in Objs /\ old \in JobRecord /\ GoodRecord(old)
      /\ wk \in [Workers -> SlotRecord] /\ wk[w] \in SlotRecord /\ obj \in [Objs -> JobRecord]
  BY <1>1, InStagesRef DEF StageTo, IInv, HandlesOK, Types, GoodRecords
<1>3. /\ obj' = [obj EXCEPT ![o] = rec] /\ disk' = disk
      /\ wk'[w].pc = next /\ wk'[w].in = in /\ wk'[w].ref = o
      /\ \A x \in Workers : x # w => wk'[x] = wk[x]
  BY <1>1, <1>2 DEF StageTo, SlotRecord
<1>4. /\ old.state \in Stages
      /\ wk[w].pc = "mod" => wk[w].in = old.transcript
      /\ wk[w].pc = "img" => wk[w].in \in Safe
      /\ wk[w].pc = "fin" => wk[w].in \in Safe \cup {None}
      /\ wk[w].pc = "sign" => wk[w].in \in Safe
  BY <1>2 DEF IInv, Carried, Carries
<1> HIDE DEF old
<1>5. /\ GoodRecord(rec)
      /\ next # "write" => rec.state \in Stages
      /\ next = "mod" => in = rec.transcript
      /\ next = "img" => in \in Safe
      /\ next = "fin" => in \in Safe \cup {None}
      /\ next = "sign" => in \in Safe
  <2>1. CASE next = "mod" /\ rec = [old EXCEPT !.state = "asr_complete", !.transcript = in]
    <3>1. rec.state = "asr_complete" /\ rec.transcript = in /\ rec.preview = old.preview
      BY <1>2, <2>1 DEF JobRecord
    <3> QED BY <1>2, <2>1, <3>1, StateFacts DEF GoodRecord, Ready
  <2>2. CASE /\ next = "img" /\ wk[w].pc = "mod" /\ wk[w].in \in Safe
             /\ in = old.transcript /\ rec = [old EXCEPT !.state = "moderation_passed"]
    <3>1. /\ rec.state = "moderation_passed" /\ rec.transcript = old.transcript
          /\ rec.preview = old.preview
      BY <1>2, <2>2 DEF JobRecord
    <3> QED BY <1>2, <1>4, <2>2, <3>1, StateFacts DEF GoodRecord, Ready
  <2>3. CASE /\ next = "fin" /\ wk[w].pc = "img" /\ in = wk[w].in
             /\ rec = [old EXCEPT !.state = "image_generation"]
    <3>1. rec.state = "image_generation" /\ rec.preview = old.preview
      BY <1>2, <2>3 DEF JobRecord
    <3> QED BY <1>2, <1>4, <2>3, <3>1, StateFacts DEF GoodRecord, Ready
  <2>4. ASSUME NEW picture \in {wk[w].in, Link} \ {None},
               next = "write", wk[w].pc \in {"fin", "sign"},
               rec = [old EXCEPT !.preview = picture, !.state = "preview_ready"]
        PROVE  GoodRecord(rec)
    <3>1. rec.state = "preview_ready" /\ rec.preview = picture
      BY <1>2, <2>4 DEF JobRecord
    <3>2. picture \in Safe \cup {Link} /\ picture # None
      BY <1>4, <2>4
    <3> QED BY <3>1, <3>2 DEF GoodRecord
  <2>6. CASE /\ next = "sign" /\ wk[w].pc = "fin" /\ in = wk[w].in /\ in # None /\ rec = old
    BY <1>2, <1>4, <2>6
  <2>5. CASE next = "write" /\ rec = [old EXCEPT !.state = "failed"]
    <3>1. rec.state = "failed" /\ rec.preview = old.preview
      BY <1>2, <2>5 DEF JobRecord
    <3> QED BY <1>2, <2>5, <3>1 DEF GoodRecord, Ready
  <2> QED BY <1>1, <2>1, <2>2, <2>3, <2>4, <2>5, <2>6 DEF StageGood, old
<1>6. GoodRecords'
  <2>1. \A p \in Objs : GoodRecord(obj'[p])
    BY <1>2, <1>3, <1>5 DEF IInv, GoodRecords
  <2>2. bucket' \in [Jobs -> Safe \cup {None}]
    BY <1>1, <1>5 DEF StageGood, IInv, GoodRecords
  <2> QED BY <1>3, <2>1, <2>2 DEF IInv, GoodRecords
<1>7. Carries(w)'
  <2>1. obj'[wk'[w].ref] = rec
    BY <1>2, <1>3
  <2> QED BY <1>3, <1>5, <2>1 DEF Carries, InStages
<1>8. ASSUME NEW x \in Workers, x # w PROVE Carries(x)'
  <2>1. InStages(x) => HasRef(x) /\ wk[x].ref # o
    BY <1>2, <1>8, InStagesRef, OwnRecord DEF IInv
  <2>2. InStages(x) => obj'[wk[x].ref] = obj[wk[x].ref]
    BY <1>3, <2>1, InStagesRef DEF IInv, HandlesOK, Types
  <2>3. Undisturbed(x, obj')
    BY <1>3, <1>8, <2>2, Still DEF IInv
  <2> QED BY <2>3, CarriesKept DEF IInv
<1> QED BY <1>6, <1>7, <1>8 DEF Carried


LEMMA SweepRecords ==
    ASSUME IInv, obj' = Sweep(obj), UNCHANGED <<disk, bucket>>,
           \A w \in Workers : wk'[w] = wk[w] \/ ~InStages(w)'
    PROVE  GoodRecords' /\ Carried'
<1>1. obj \in [Objs -> JobRecord] /\ \A o \in Objs : GoodRecord(obj[o])
  BY DEF IInv, HandlesOK, Types, GoodRecords
<1>2. \A w \in Workers : Undisturbed(w, obj)
  BY Still DEF IInv, Undisturbed
<1> QED BY <1>1, <1>2, HeapSwept DEF IInv

LEMMA SlotRecords ==
    ASSUME IInv, NEW w \in Workers, WorkerRuns(w)
    PROVE  GoodRecords' /\ Carried'
<1>1. wk \in [Workers -> SlotRecord] /\ wk[w] \in SlotRecord
  BY DEF IInv, HandlesOK, Types
<1>2. CASE SkipTask(w)
  BY <1>2, NoRecords DEF SkipTask
<1>3. CASE runBackgroundAdvance(w) \/ runFullPipeline(w)
  <2>1. UNCHANGED <<obj, disk, bucket>> /\ \A x \in Workers : x # w => wk'[x] = wk[x]
    BY <1>1, <1>3 DEF runBackgroundAdvance, runFullPipeline
  <2>2. ~InStages(w)'
    <3>1. wk'[w].pc \in {"lock", "get"}
      <4>1. CASE runBackgroundAdvance(w)
        BY <1>1, <4>1 DEF runBackgroundAdvance, NoTask
      <4>2. CASE runFullPipeline(w)
        BY <1>1, <4>2 DEF runFullPipeline, NoTask
      <4> QED BY <1>3, <4>1, <4>2
    <3> QED BY <3>1 DEF InStages
  <2> QED BY <2>1, <2>2, NoRecords
<1>4. CASE acquireJobAdvanceLock(w) \/ releaseJobAdvanceLock(w) \/ ExitAdvance(w)
  <2>1. UNCHANGED <<obj, disk, bucket>> /\ \A x \in Workers : x # w => wk'[x] = wk[x]
    BY <1>1, <1>4 DEF acquireJobAdvanceLock, releaseJobAdvanceLock, ExitAdvance
  <2>2. ~InStages(w)'
    BY <1>1, <1>4 DEF acquireJobAdvanceLock, releaseJobAdvanceLock, ExitAdvance,
       InStages, NoTask, SlotRecord
  <2> QED BY <2>1, <2>2, NoRecords
<1>5. CASE LoadJob(w)
  <2>1. wk[w].job \in Jobs /\ Exists(wk[w].job)
    BY <1>5, SlotFacts DEF IInv, LoadJob, Busy, Exists
  <2>2. wk'[w].pc = "advance" /\ \A x \in Workers : x # w => wk'[x] = wk[x]
    BY <1>1, <1>5 DEF LoadJob, SlotRecord
  <2> QED BY <1>5, <2>1, <2>2, LoadRecords DEF LoadJob, InStages
<1>6. CASE NothingToAdvance(w)
  <2>1. /\ obj' = Sweep(obj) /\ UNCHANGED <<disk, bucket>>
        /\ wk' = [wk EXCEPT ![w] = NoTask] \/ wk' = [wk EXCEPT ![w].pc = "write"]
    BY <1>6 DEF NothingToAdvance
  <2>2. ~InStages(w)' /\ \A x \in Workers : x # w => wk'[x] = wk[x]
    BY <1>1, <2>1 DEF InStages, NoTask, SlotRecord
  <2> QED BY <2>1, <2>2, SweepRecords
<1>7. CASE WriteJob(w)
  <2>1. wk[w].job \in Jobs /\ wk[w].ref \in Objs
    BY <1>7, SlotFacts DEF IInv, WriteJob, Busy, HasRef
  <2>2. ~InStages(w)' /\ \A x \in Workers : x # w => wk'[x] = wk[x]
    <3>1. /\ \A x \in Workers : x # w => wk'[x] = wk[x]
          /\ \/ wk'[w] = NoTask
             \/ wk'[w].pc \in {"exit", "release"}
      BY <1>1, <1>7 DEF WriteJob, SlotRecord
    <3> QED BY <3>1 DEF InStages, NoTask
  <2>3. \A x \in Workers : Undisturbed(x, obj)
    BY <2>2, Still DEF IInv, Undisturbed
  <2>4. /\ obj \in [Objs -> JobRecord] /\ \A o \in Objs : GoodRecord(obj[o])
        /\ obj[wk[w].ref] \in JobRecord
    BY <2>1 DEF IInv, HandlesOK, Types, GoodRecords
  <2> QED BY <1>7, <2>1, <2>3, <2>4, HeapSet DEF WriteJob, IInv
<1> QED BY <1>2, <1>3, <1>4, <1>5, <1>6, <1>7, BeginStagesRecords DEF WorkerRuns

(* the mirror file keeps what it was given, and a restart reads it back    *)
LEMMA DiskRecords ==
    ASSUME IInv, flushPersistenceSync \/ \E p \in Replicas : Crash(p)
    PROVE  GoodRecords' /\ Carried'
<1>0. GoodRecord(Free)
  BY StateFacts DEF GoodRecord, Free, NewRecord, Ready
<1>1. CASE flushPersistenceSync
  <2>1. UNCHANGED <<obj, wk, bucket>> /\ disk' = Snapshot
    BY <1>1 DEF flushPersistenceSync
  <2>2. \A j \in Jobs : Exists(j) => stored[j] \in Objs
    BY DEF IInv, HandlesOK, Types, Exists
  <2>3. \A j \in Jobs : GoodRecord(Snapshot.jobs[j])
    BY <1>0, <2>2 DEF Snapshot, IInv, GoodRecords
  <2>4. GoodRecords'
    BY <2>1, <2>3 DEF IInv, GoodRecords
  <2>5. \A w \in Workers : Carries(w)'
    BY <2>1 DEF IInv, Carried, Carries, InStages
  <2> QED BY <2>4, <2>5 DEF Carried
<1>2. ASSUME NEW p \in Replicas, Crash(p) PROVE GoodRecords' /\ Carried'
  <2>1. CASE SharedRecords
    <3>1. seedMemoryFromJobs /\ UNCHANGED <<disk, bucket>>
      BY <1>2, <2>1 DEF Crash
    <3>2. \A o \in Objs : obj'[o] = Free \/ \E j \in Jobs : obj'[o] = disk.jobs[j]
      BY <3>1 DEF seedMemoryFromJobs
    <3>3. GoodRecords'
      BY <1>0, <3>1, <3>2 DEF IInv, GoodRecords
    <3>4. \A w \in Workers : ~InStages(w)'
      BY <1>2, <2>1, OneProcess DEF IInv, InStages, NoTask
    <3> QED BY <3>3, <3>4 DEF Carried, Carries
  <2>2. CASE ~SharedRecords
    <3>1. obj' = Sweep(obj) /\ UNCHANGED <<disk, bucket>>
          /\ \A w \in Workers : wk'[w] = wk[w] \/ wk'[w] = NoTask
      BY <1>2, <2>2 DEF Crash
    <3>2. \A w \in Workers : wk'[w] = wk[w] \/ ~InStages(w)'
      BY <3>1 DEF InStages, NoTask
    <3> QED BY <3>1, <3>2, SweepRecords
  <2> QED BY <2>1, <2>2
<1> QED BY <1>1, <1>2

LEMMA RecordsStep == IInv /\ [Next]_vars => GoodRecords' /\ Carried'
<1> SUFFICES ASSUME IInv, [Next]_vars PROVE GoodRecords' /\ Carried'
  OBVIOUS
<1>1. CASE Client
  <2> SUFFICES ASSUME NEW rep \in Replicas, NEW j \in Jobs,
                 \/ createJob(j)
                 \/ \E r \in Requests, t \in Texts : createJobFromTranscript(r, j, t, rep)
                 \/ advanceJob(j, rep)
                 \/ \E r \in Requests, k \in Keys : BeginAck(r, j, k, rep)
                 \/ \E r \in Requests, op \in {"audio", "chunk", "text"}, t \in Texts :
                      BeginUpload(r, op, j, t, rep)
               PROVE GoodRecords' /\ Carried'
    BY <1>1 DEF Client
  <2>1. CASE createJob(j) \/ \E r \in Requests, t \in Texts : createJobFromTranscript(r, j, t, rep)
    BY <2>1, CreateRecords DEF createJob, createJobFromTranscript
  <2>2. CASE advanceJob(j, rep) \/ \E r \in Requests, k \in Keys : BeginAck(r, j, k, rep)
    BY <2>2, NoRecords DEF advanceJob, BeginAck
  <2>3. ASSUME NEW r \in Requests, NEW op \in {"audio", "chunk", "text"}, NEW t \in Texts,
               BeginUpload(r, op, j, t, rep)
        PROVE GoodRecords' /\ Carried'
    BY <2>3, LoadRecords, AddressFacts DEF BeginUpload
  <2> QED BY <2>1, <2>2, <2>3
<1>2. ASSUME NEW r \in Requests, HandleUpload(r) \/ Upload(r) \/ HandleAck(r)
      PROVE GoodRecords' /\ Carried'
  <2>1. CASE RefuseUpload(r) \/ RefuseAck(r)
    BY <2>1, SweepRecords DEF RefuseUpload, RefuseAck
  <2>2. CASE StageAudio(r) \/ EnqueueTask(r)
    BY <2>2, NoRecords DEF StageAudio, EnqueueTask
  <2>3. CASE LoadAck(r)
    <3>1. req[r].job \in Jobs /\ Exists(req[r].job)
      BY <2>3 DEF IInv, HandlesOK, Known, RequestKnown, LoadAck
    <3> QED BY <2>3, <3>1, LoadRecords, AddressFacts DEF LoadAck
  <2> QED BY <1>2, <2>1, <2>2, <2>3, UploadRecords, printAckRecords
          DEF HandleUpload, Upload, HandleAck
<1>3. CASE (\E j \in Jobs : LockLapse(j)) \/ UNCHANGED vars
  BY <1>3, NoRecords DEF LockLapse, vars
<1> QED BY <1>1, <1>2, <1>3, SlotRecords, StageRecords, DiskRecords DEF Next, Request, Answer

-----------------------------------------------------------------------------
(* Theorems                                                                *)

(* Whatever requests, vendor answers, lapses of the lock and crashes come  *)
(* in whatever order, the handles, the objects' owners, the one chain of   *)
(* microtasks and the records stay as described above.                     *)
THEOREM Invariance == Spec => []IInv
<1>1. Init => IInv
  <2> SUFFICES ASSUME Init PROVE IInv
    OBVIOUS
  <2>1. HandlesOK
    BY InitHandles
  <2>2. ChainsOK
    <3>1. \A q \in Queues : queued[q] = <<>>
      BY DEF Init
    <3>2. \A w \in Workers : Waiting(w) = <<>>
      BY <3>1, QueueFacts DEF Waiting
    <3>3. /\ \A w \in Workers : wk[w].pc = "idle" /\ wk[w].ref = None
          /\ \A r \in Requests : req[r].pc = "idle" /\ \A j \in Jobs : stored[j] = None
      BY DEF Init, NoTask, NoReq
    <3>4. OneOwner
      BY <3>3 DEF OneOwner, Exists, Init
    <3>5. OneChain
      BY <3>2, <3>3 DEF OneChain, OneSoon, OneTaken, SoonReq, SoonSlot
    <3>6. OneSlotPerJob
      BY <3>1, <3>3 DEF OneSlotPerJob, InMemoryOneSlot, Guarded, FullFirst, SpeechFirst,
         Speech, Busy, InStages
    <3> QED BY <3>4, <3>5, <3>6 DEF ChainsOK
  <2>3. GoodRecord(Free)
    BY StateFacts DEF GoodRecord, Free, NewRecord, Ready
  <2>4. GoodRecords /\ Carried
    BY <2>3 DEF Init, GoodRecords, Carried, Carries, InStages, NoTask
  <2> QED BY <2>1, <2>2, <2>4 DEF IInv
<1>2. IInv /\ [Next]_vars => IInv'
  BY HandlesStep, ChainsStep, RecordsStep DEF IInv
<1> QED BY <1>1, <1>2, PTL DEF Spec

(* where the lock and its history may change                               *)
LEMMA HistoryStep ==
    ASSUME [Next]_vars
    PROVE  \/ UNCHANGED <<lock, history>>
           \/ \E j \in Jobs : LockLapse(j)
           \/ \E w \in Workers :
                runFullPipeline(w) \/ acquireJobAdvanceLock(w) \/ releaseJobAdvanceLock(w)
           \/ \E p \in Replicas : Crash(p)
<1>1. CASE Request
  BY <1>1 DEF Request, Client, createJob, createJobFromTranscript, create, advanceJob,
     BeginAck, BeginUpload
<1>2. CASE \E r \in Requests : HandleUpload(r) \/ Upload(r) \/ HandleAck(r)
  BY <1>2 DEF HandleUpload, Upload, HandleAck, RefuseUpload, StageAudio, uploadChunk,
     attachText, EnqueueTask, attachAudio, LoadAck, RefuseAck, printAck, SaveAck
<1>3. CASE \E w \in Workers : WorkerRuns(w)
  BY <1>3 DEF WorkerRuns, SkipTask, runBackgroundAdvance, LoadJob,
     BeginStages, NothingToAdvance, WriteJob, ExitAdvance
<1>4. CASE \E w \in Workers : Answer(w)
  BY <1>4 DEF Answer, VendorAnswers, resolveTranscript, moderateTranscript,
     runImageGeneration, UploadPreview, finalizePreview, markFailed, Stage
<1>5. CASE flushPersistenceSync \/ UNCHANGED vars
  BY <1>5 DEF flushPersistenceSync, vars, history
<1> QED BY <1>1, <1>2, <1>3, <1>4, <1>5 DEF Next

LEMMA MarksStep ==
    ASSUME Types, Marks, [Next]_vars
    PROVE  Marks' /\ loose \subseteq loose'
<1>1. CASE UNCHANGED history \/ \E w \in Workers : acquireJobAdvanceLock(w)
  BY <1>1 DEF Marks, history, acquireJobAdvanceLock
<1>2. ASSUME NEW j \in Jobs, LockLapse(j) PROVE Marks' /\ loose \subseteq loose'
  <2>1. lock[j] \in Workers
    BY <1>2 DEF LockLapse, Types
  <2> QED BY <1>2, <2>1 DEF LockLapse, Marks, history
<1>3. ASSUME NEW w \in Workers, runFullPipeline(w) PROVE Marks' /\ loose \subseteq loose'
  <2>1. Head(Waiting(w)).job \in Jobs
    BY <1>3, Taken DEF runFullPipeline, Task
  <2> QED BY <1>3, <2>1 DEF runFullPipeline, Marks
<1>4. ASSUME NEW w \in Workers, releaseJobAdvanceLock(w)
      PROVE Marks' /\ loose \subseteq loose'
  BY <1>4 DEF releaseJobAdvanceLock, Marks
<1>5. ASSUME NEW p \in Replicas, Crash(p) PROVE Marks' /\ loose \subseteq loose'
  BY <1>5 DEF Crash, Marks
<1> QED BY <1>1, <1>2, <1>3, <1>4, <1>5, HistoryStep

(* what a step does to a slot: nothing, its task is over, or it goes on    *)
LEMMA SlotTurns ==
    ASSUME Types, [Next]_vars, NEW x \in Workers
    PROVE  \/ wk'[x] = wk[x]
           \/ wk'[x] = NoTask
           \/ runBackgroundAdvance(x) \/ runFullPipeline(x)
           \/ /\ Busy(x) /\ wk[x].pc # "exit"
              /\ wk[x].pc = "lock" => acquireJobAdvanceLock(x)
              /\ wk'[x].job = wk[x].job /\ wk'[x].kind = wk[x].kind
<1>0. wk \in [Workers -> SlotRecord] /\ wk[x] \in SlotRecord
  BY DEF Types
<1>1. CASE Request \/ (\E r \in Requests : HandleUpload(r) \/ Upload(r) \/ HandleAck(r))
           \/ (\E j \in Jobs : LockLapse(j)) \/ flushPersistenceSync \/ UNCHANGED vars
  <2>1. wk' = wk
    BY <1>1 DEF Request, Client, createJob, createJobFromTranscript, create, advanceJob,
       BeginAck, BeginUpload, HandleUpload, Upload, HandleAck, RefuseUpload, StageAudio,
       uploadChunk, attachText, EnqueueTask, attachAudio, LoadAck, RefuseAck, printAck,
       SaveAck, LockLapse, flushPersistenceSync, vars
  <2> QED BY <2>1
<1>2. CASE \E p \in Replicas : Crash(p)
  BY <1>2 DEF Crash
<1>3. ASSUME NEW w \in Workers, WorkerRuns(w), w = x,
             ~runBackgroundAdvance(w), ~runFullPipeline(w)
      PROVE  \/ wk'[x] = wk[x] \/ wk'[x] = NoTask
             \/ /\ Busy(x) /\ wk[x].pc # "exit"
                /\ wk[x].pc = "lock" => acquireJobAdvanceLock(x)
                /\ wk'[x].job = wk[x].job /\ wk'[x].kind = wk[x].kind
  <2>1. CASE SkipTask(w) \/ ExitAdvance(w)
    BY <1>0, <1>3, <2>1 DEF SkipTask, ExitAdvance
  <2>2. CASE acquireJobAdvanceLock(w)
    BY <1>0, <1>3, <2>2 DEF acquireJobAdvanceLock, SlotRecord, Busy
  <2>3. CASE LoadJob(w) \/ BeginStages(w) \/ releaseJobAdvanceLock(w)
    BY <1>0, <1>3, <2>3 DEF LoadJob, BeginStages, releaseJobAdvanceLock, SlotRecord, Busy
  <2>4. CASE NothingToAdvance(w)
    BY <1>0, <1>3, <2>4 DEF NothingToAdvance, SlotRecord, Busy
  <2>5. CASE WriteJob(w)
    BY <1>0, <1>3, <2>5 DEF WriteJob, SlotRecord, Busy
  <2> QED BY <1>3, <2>1, <2>2, <2>3, <2>4, <2>5 DEF WorkerRuns
<1>4. ASSUME NEW w \in Workers, WorkerRuns(w), w # x PROVE wk'[x] = wk[x]
  BY <1>0, <1>4 DEF WorkerRuns, SkipTask, runBackgroundAdvance, runFullPipeline,
     acquireJobAdvanceLock, LoadJob, BeginStages, NothingToAdvance, WriteJob,
     releaseJobAdvanceLock, ExitAdvance
<1>5. ASSUME NEW w \in Workers, VendorAnswers(w)
      PROVE  \/ wk'[x] = wk[x]
             \/ /\ Busy(x) /\ wk[x].pc \notin {"lock", "exit"}
                /\ wk'[x].job = wk[x].job /\ wk'[x].kind = wk[x].kind
  <2>1. \E next, in : wk' = [wk EXCEPT ![w].pc = next, ![w].in = in]
    BY <1>5 DEF VendorAnswers, resolveTranscript, moderateTranscript, runImageGeneration,
       UploadPreview, finalizePreview, markFailed, Stage
  <2>2. Busy(w) /\ wk[w].pc \notin {"lock", "exit"}
    BY <1>5 DEF VendorAnswers, resolveTranscript, moderateTranscript, runImageGeneration,
       UploadPreview, finalizePreview, markFailed, Stage, Busy
  <2> QED BY <1>0, <2>1, <2>2 DEF SlotRecord
<1> QED BY <1>1, <1>2, <1>3, <1>4, <1>5 DEF Next, Answer

LEMMA FullIsLoose ==
    ASSUME Types, HoldsLock, [Next]_vars, NEW x \in Workers,
           Busy(x)', wk'[x].kind = "full"
    PROVE  wk'[x].job \in loose'
<1>1. wk \in [Workers -> SlotRecord] /\ loose \subseteq loose'
  BY MarksStep DEF Types, HoldsLock
<1>2. CASE wk'[x] = wk[x]
  BY <1>1, <1>2 DEF HoldsLock, Busy
<1>3. CASE wk'[x] = NoTask
  BY <1>3 DEF NoTask, Busy
<1>4. CASE runBackgroundAdvance(x)
  BY <1>1, <1>4 DEF runBackgroundAdvance, NoTask
<1>5. CASE runFullPipeline(x)
  BY <1>1, <1>5 DEF runFullPipeline, NoTask
<1>6. CASE Busy(x) /\ wk'[x].job = wk[x].job /\ wk'[x].kind = wk[x].kind
  BY <1>1, <1>6 DEF HoldsLock
<1> QED BY <1>2, <1>3, <1>4, <1>5, <1>6, SlotTurns

(* A run that holds the lock, or has outlived its TTL, goes on to do so.   *)
LEMMA HoldsLockStep ==
    ASSUME Types, HoldsLock, [Next]_vars
    PROVE  HoldsLock'
<1> SUFFICES ASSUME ~SharedRecords, NEW k \in Jobs, NEW x \in Workers, Holding(x, k)'
             PROVE  HasLock(x, k)'
  BY MarksStep, FullIsLoose DEF HoldsLock
<1>0. /\ wk \in [Workers -> SlotRecord] /\ wk[x] \in SlotRecord
      /\ lock \in [Jobs -> Workers \cup {None}] /\ loose \subseteq loose'
  BY MarksStep DEF Types, HoldsLock
<1>1. ASSUME NEW j \in Jobs, LockLapse(j) PROVE HasLock(x, k)'
  <2>1. Holding(x, k) /\ HasLock(x, k) /\ lock' = [lock EXCEPT ![j] = None]
    BY <1>1 DEF LockLapse, Holding, HoldsLock
  <2>2. late \subseteq late'
    BY <1>1 DEF LockLapse, history
  <2>3. j = k /\ lock[k] = x => x \in late' /\ k \in loose'
    BY <1>1, <2>1 DEF LockLapse
  <2> QED BY <1>0, <2>1, <2>2, <2>3 DEF HasLock
<1>2. ASSUME NEW w \in Workers, runFullPipeline(w) \/ runBackgroundAdvance(w)
      PROVE  HasLock(x, k)'
  <2>1. x # w
    <3>1. wk'[w].pc = "lock" \/ wk'[w].kind = "full"
      <4>1. CASE runBackgroundAdvance(w)
        BY <1>0, <4>1 DEF runBackgroundAdvance, NoTask
      <4>2. CASE runFullPipeline(w)
        BY <1>0, <4>2 DEF runFullPipeline, NoTask
      <4> QED BY <1>2, <4>1, <4>2
    <3> QED BY <3>1 DEF Holding
  <2>2. wk'[x] = wk[x] /\ lock' = lock /\ late' = late
    BY <1>0, <1>2, <2>1 DEF runFullPipeline, runBackgroundAdvance, history
  <2> QED BY <1>0, <2>2 DEF Holding, HoldsLock, HasLock
<1>3. ASSUME NEW w \in Workers, releaseJobAdvanceLock(w) PROVE HasLock(x, k)'
  <2>1. x # w
    BY <1>0, <1>3 DEF releaseJobAdvanceLock, Holding, SlotRecord
  <2>2. wk'[x] = wk[x] /\ HasLock(x, k)
    BY <1>0, <1>3, <2>1 DEF releaseJobAdvanceLock, Holding, HoldsLock
  <2>3. lock[k] = x => lock'[k] = x
    BY <1>0, <1>3, <2>1 DEF releaseJobAdvanceLock
  <2>4. x \in late => x \in late'
    BY <1>3, <2>1 DEF releaseJobAdvanceLock
  <2> QED BY <1>0, <2>2, <2>3, <2>4 DEF HasLock
<1>4. ASSUME NEW p \in Replicas, Crash(p) PROVE HasLock(x, k)'
  <2>1. wk'[x] # NoTask
    BY DEF Holding, NoTask
  <2>2. ReplicaOf[x] # p /\ wk'[x] = wk[x] /\ lock' = lock
    BY <1>4, <2>1 DEF Crash
  <2>3. x \in late => x \in late'
    BY <1>4, <2>2 DEF Crash
  <2> QED BY <1>0, <2>2, <2>3 DEF Holding, HoldsLock, HasLock
<1>5. ASSUME NEW w \in Workers, acquireJobAdvanceLock(w) PROVE HasLock(x, k)'
  <2>1. CASE x = w
    BY <1>0, <1>5, <2>1 DEF acquireJobAdvanceLock, Holding, HasLock, SlotRecord
  <2>2. CASE x # w
    <3>1. wk'[x] = wk[x] /\ HasLock(x, k) /\ late' = late
      BY <1>0, <1>5, <2>2 DEF acquireJobAdvanceLock, Holding, HoldsLock, history
    <3>2. lock[k] = x => lock'[k] = x
      BY <1>0, <1>5, NoneAssumption DEF acquireJobAdvanceLock, LockFree
    <3> QED BY <1>0, <3>1, <3>2 DEF HasLock
  <2> QED BY <2>1, <2>2
<1>6. CASE UNCHANGED <<lock, history>>
  <2>1. wk'[x] # NoTask
    BY DEF Holding, NoTask
  <2>2. CASE wk'[x] = wk[x]
    BY <1>6, <2>2 DEF Holding, HoldsLock, HasLock, history
  <2>3. CASE Busy(x) /\ wk[x].pc \notin {"lock", "exit"}
             /\ wk'[x].job = wk[x].job /\ wk'[x].kind = wk[x].kind
    <3>1. Holding(x, k)
      BY <1>0, <2>3 DEF Busy, Holding, SlotRecord
    <3> QED BY <1>6, <3>1 DEF HoldsLock, HasLock, history
  <2> QED BY <1>2, <1>5, <2>1, <2>2, <2>3, SlotTurns
<1> QED BY <1>1, <1>2, <1>3, <1>4, <1>5, <1>6, HistoryStep

LEMMA LockInvariance == Spec => [](IInv /\ HoldsLock)
<1>1. Init => HoldsLock
  BY DEF Init, HoldsLock, Marks, Holding, Busy, NoTask
<1>2. IInv => Types
  BY DEF IInv, HandlesOK
<1> QED BY <1>1, <1>2, HoldsLockStep, Invariance, PTL DEF Spec

(* Every variable keeps its type: no handler refers to an object that is   *)
(* not there, and no queue holds a task of an unknown kind.                *)
THEOREM TypeCorrect == Spec => []TypeOK
<1>1. ASSUME IInv, HoldsLock PROVE TypeOK
  <2>1. bucket \in [Jobs -> Texts \cup {None}]
    BY <1>1, SafeAssumption DEF IInv, GoodRecords
  <2>2. \A p \in Replicas : crashes[p] \in 0..MaxCrashes[p]
    BY <1>1, CrashAssumption DEF IInv, HandlesOK, Types
  <2> QED BY <1>1, <2>1, <2>2
          DEF IInv, HandlesOK, Types, TypeOK, ReqRecord, SlotRecord, Task, HoldsLock, Marks
<1> QED BY <1>1, LockInvariance, PTL

(* No preview is ever drawn from a text moderation did not let through,    *)
(* and whoever reads a job as ready finds its preview                      *)
(* (moderateTranscript, runImageGeneration, finalizePreview), on either    *)
(* backend and for any number of clients, replicas and crashes.            *)
THEOREM ApprovedOnly == Spec => []ReadyShowsApproved
<1>1. ASSUME IInv PROVE ReadyShowsApproved
  <2>1. \A j \in Jobs : State(j) \in Ready => stored[j] \in Objs /\ State(j) = obj[stored[j]].state
    BY <1>1 DEF IInv, HandlesOK, Types, State, Exists, Ready
  <2> QED BY <1>1, <2>1 DEF IInv, GoodRecords, GoodRecord, ReadyShowsApproved
<1> QED BY <1>1, Invariance, PTL

(* Two slots never run vendor calls on one record object: over Redis each  *)
(* has a copy; in memory inProgressJobs, the order of the queue and the    *)
(* run to completion of microtasks keep them apart.                        *)
THEOREM NoSharedStages == Spec => []StagesOwnRecord
<1>1. IInv => StagesOwnRecord
  BY OwnRecord, InStagesRef DEF IInv, StagesOwnRecord
<1> QED BY <1>1, Invariance, PTL

(* Of the runBackgroundAdvance runs on one job whose lock has not lapsed,  *)
(* at most one is between acquireJobAdvanceLock and releaseJobAdvanceLock, *)
(* however often a lock runs out under a run that goes on, whatever the    *)
(* other replicas do and however often they crash.                         *)
THEOREM LockExcludes == Spec => []LockExclusive
<1>1. HoldsLock => LockExclusive
  BY DEF HoldsLock, HasLock, LockExclusive
<1> QED BY <1>1, LockInvariance, PTL
=============================================================================
