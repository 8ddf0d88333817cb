--------------------------- MODULE JobPromiseProofs ---------------------------
(***************************************************************************)
(* The promise of JobLifecycle, proved of DeviceJobs over Redis for a      *)
(* device that has one request in flight: every step of every number of    *)
(* replicas is a step of JobLifecycle or leaves it where it was, whatever  *)
(* locks run out and whatever processes crash.                             *)
(*                                                                         *)
(* The invariant compares copies with what the store holds.  As long as    *)
(* every pipeline of a job has run under the lock, a copy is what the      *)
(* store had when it was read, and of what has happened since only an      *)
(* acknowledgement can have passed it by.  Of a loose job a copy says less:*)
(* that its input was submitted, and that it is not ahead of the store.    *)
(***************************************************************************)
EXTENDS DeviceJobsProofs

OneDevice == ~SharedRecords /\ \A r, s \in Requests : r = s

(* Over Redis the record of a job is stored at the job's own address, and  *)
(* never in the two stages that only a running pipeline passes through.    *)
Started(j) == obj[j].state # "created"
Ended == Ready \cup {"failed"}
Kept == States \ {"moderation_passed", "image_generation"}
HasCopy(r) == req[r].pc \in {"act", "stage", "save"}
Proper == \A j \in Jobs : Exists(j) => obj[j].state \in Kept

(* A record has a preview when it is ready and not before, and one that is *)
(* a link leads to a picture.                                              *)
Bare == \A o \in Objs : obj[o].state \notin Ready => obj[o].preview = None
Linked(j, o) == obj[o].preview = Link => bucket[j] # None
Links ==
    /\ \A j \in Jobs : Exists(j) => Linked(j, j)
    /\ \A r \in Requests : HasCopy(r) => Linked(req[r].job, r)
    /\ \A w \in Workers : /\ HasRef(w) => Linked(wk[w].job, w)
                          /\ wk[w].pc = "sign" => bucket[wk[w].job] # None

(* Whatever waits for a slot or has one is past its upload.                *)
TasksStarted ==
    \A q \in Queues : \A i \in DOMAIN queued[q] : Started(queued[q][i].job)
SlotStarted(w) == Busy(w) => Started(wk[w].job)

(* The copy a request works on                                             *)
CopyReady(r) ==
    LET j == req[r].job IN
    /\ obj[j].state \in Ended
    /\ j \notin loose => obj[j].state \in Ready /\ obj[j].preview = obj[r].preview
RequestCopy(r) ==
    /\ req[r].pc \in {"act", "stage"} /\ req[r].op # "ack" /\ obj[r].state = "created"
         => obj[req[r].job].state = "created"
    /\ req[r].pc = "stage" => req[r].op # "ack" /\ obj[r].state = "created"
    /\ req[r].pc = "enqueue" => Started(req[r].job)
    /\ req[r].pc = "act" /\ req[r].op = "ack" /\ obj[r].state = "preview_ready"
         => CopyReady(r)
    /\ req[r].pc = "save" => obj[r].state = "print_acknowledged" /\ CopyReady(r)

(* The copy a slot works on.  Under the lock nobody else takes the record  *)
(* out of the stages, and once it is out only an acknowledgement comes in  *)
(* between.                                                                *)
Follows(mine, its) ==
    /\ mine.preview = its.preview
    /\ \/ mine.state = its.state
       \/ mine.state = "preview_ready" /\ its.state = "print_acknowledged"
Copied(w) ==
    LET mine == obj[w]
        its == obj[wk[w].job]
    IN
    /\ wk[w].pc = "advance" => mine.state \in Kept \ {"created"}
    /\ wk[w].pc = "fin" => wk[w].in # None
    /\ wk[w].pc = "write" => mine.state \in Ended
    /\ wk[w].pc \in {"advance", "write"} /\ mine.state = "print_acknowledged"
         => its.state \in Ended
Locked(w) ==
    LET mine == obj[w]
        its == obj[wk[w].job]
    IN
    wk[w].job \notin loose =>
      /\ wk[w].pc = "advance" => Follows(mine, its)
      /\ InStages(w) => its.state \in Stages
      /\ wk[w].pc = "write" =>
           \/ Follows(mine, its)
           \/ its.state \in Stages /\ mine.state # "print_acknowledged"
SlotCopy(w) == Copied(w) /\ Locked(w)

AckedReady ==
    \A k \in Keys : printIdem[k] \in Jobs \ loose =>
      Exists(printIdem[k]) /\ obj[printIdem[k]].state \in Ready

CopiesOK ==
    /\ Proper /\ TasksStarted /\ AckedReady
    /\ \A w \in Workers : SlotStarted(w) /\ SlotCopy(w)
    /\ \A r \in Requests : RequestCopy(r)
PInv == IInv /\ HoldsLock /\ Bare /\ Links /\ CopiesOK

-----------------------------------------------------------------------------
(* What a step may do to the record the store has of a job                 *)

SamePreview(j) ==
    /\ obj'[j].preview = obj[j].preview
    /\ obj[j].preview = Link => bucket'[j] = bucket[j]
Same(j) ==
    /\ stored'[j] = stored[j]
    /\ Exists(j) => obj'[j].state = obj[j].state /\ SamePreview(j)
Opens(j) ==
    /\ ~Exists(j) /\ Exists(j)'
    /\ obj'[j].state \in {"created", "asr_complete"}
Submits(j) ==
    /\ Exists(j) /\ Exists(j)'
    /\ obj[j].state = "created" /\ obj'[j].state \in {"audio_received", "asr_complete"}
Resolves(j) ==
    /\ Exists(j) /\ Exists(j)'
    /\ obj[j].state \in Stages /\ obj'[j].state \in {"preview_ready", "failed"}
Acks(j) ==
    /\ Exists(j) /\ Exists(j)'
    /\ obj[j].state \in Ready /\ obj'[j].state \in Ready
    /\ SamePreview(j)
Repeats(j) ==
    /\ j \in loose /\ Exists(j) /\ Exists(j)'
    /\ obj[j].state \in Ended /\ obj'[j].state \in Ended
JobMove(j) == Same(j) \/ Opens(j) \/ Submits(j) \/ Resolves(j) \/ Acks(j) \/ Repeats(j)
OneMove == \E j \in Jobs : JobMove(j) /\ \A k \in Jobs : k # j => Same(k)
NoMove == \A j \in Jobs : Same(j)

(* The mark of a job that becomes loose                                    *)
Marked == loose' = loose \/ (NoMove /\ \E j \in Jobs : loose' = loose \cup {j})

LEMMA Copies ==
    ASSUME HandlesOK, ~SharedRecords
    PROVE  /\ \A j \in Jobs : Exists(j) => stored[j] = j
           /\ \A r \in Requests : req[r].pc \in {"act", "stage", "save"} => req[r].ref = r
           /\ \A w \in Workers : HasRef(w) => wk[w].ref = w
           /\ Jobs \subseteq Objs /\ Requests \subseteq Objs /\ Workers \subseteq Objs
BY DEF HandlesOK, Private, Known, RequestKnown, SlotKnown, Exists, Objs

LEMMA RedisSwept ==
    ASSUME HandlesOK', ~SharedRecords, NEW h \in [Objs -> JobRecord], obj' = Sweep(h)
    PROVE  /\ \A j \in Jobs : Exists(j)' => obj'[j] = h[j]
           /\ \A r \in Requests : req'[r].pc \in {"act", "stage", "save"} => obj'[r] = h[r]
           /\ \A w \in Workers : HasRef(w)' => obj'[w] = h[w]
<1>1. \A j \in Jobs : Exists(j)' => j \in Live' /\ j \in Objs
  BY AddressFacts DEF HandlesOK, Private, Exists, Live, Objs
<1>2. \A r \in Requests : req'[r].pc \in {"act", "stage", "save"} => r \in Live' /\ r \in Objs
  BY AddressFacts DEF HandlesOK, Private, Known, RequestKnown, Live, Objs
<1>3. \A w \in Workers : HasRef(w)' => w \in Live' /\ w \in Objs
  BY AddressFacts DEF HandlesOK, Private, Known, SlotKnown, Live, Objs
<1> QED BY <1>1, <1>2, <1>3, Swept

LEMMA RedisSet ==
    ASSUME HandlesOK, HandlesOK', ~SharedRecords, NEW h \in [Objs -> JobRecord],
           NEW j \in Jobs, NEW rec \in JobRecord, setJob(j, h, rec)
    PROVE  /\ obj'[j] = rec /\ Exists(j)'
           /\ \A k \in Jobs : k # j => stored'[k] = stored[k]
           /\ \A k \in Jobs : k # j /\ Exists(k) => obj'[k] = h[k]
           /\ \A r \in Requests : req'[r].pc \in {"act", "stage", "save"} => obj'[r] = h[r]
           /\ \A w \in Workers : HasRef(w)' => obj'[w] = h[w]
<1> DEFINE g == [h EXCEPT ![j] = rec]
<1>1. j \in Objs /\ g \in [Objs -> JobRecord]
  BY DEF Objs
<1>2. stored' = [stored EXCEPT ![j] = j] /\ obj' = Sweep(g)
  BY DEF setJob
<1>3. stored'[j] = j /\ \A k \in Jobs : k # j => stored'[k] = stored[k]
  BY <1>2 DEF HandlesOK, Types
<1>4. Exists(j)' /\ \A k \in Jobs : k # j => (Exists(k)' <=> Exists(k))
  BY <1>3, AddressFacts DEF Exists
<1>5. g[j] = rec /\ \A o \in Objs : o # j => g[o] = h[o]
  BY <1>1
<1> HIDE DEF g
<1>6. Jobs \subseteq Objs /\ Requests \subseteq Objs /\ Workers \subseteq Objs
  BY DEF Objs
<1> QED BY <1>1, <1>2, <1>3, <1>4, <1>5, <1>6, RedisSwept, AddressFacts

LEMMA JobsLater ==
    ASSUME Types, Proper, \A j \in Jobs : JobMove(j)
    PROVE  /\ Proper'
           /\ \A j \in Jobs : Exists(j) =>
                /\ Exists(j)'
                /\ Started(j) => Started(j)'
                /\ obj[j].state \in Ended => obj'[j].state \in Ended
                /\ j \notin loose /\ obj[j].state \in Ready => obj'[j].state \in Ready
<1> SUFFICES ASSUME NEW j \in Jobs
             PROVE  /\ Exists(j)' => obj'[j].state \in Kept
                    /\ Exists(j) =>
                         /\ Exists(j)'
                         /\ Started(j) => Started(j)'
                         /\ obj[j].state \in Ended => obj'[j].state \in Ended
                         /\ j \notin loose /\ obj[j].state \in Ready
                              => obj'[j].state \in Ready
  BY DEF Proper
<1>1. JobMove(j) /\ (Exists(j) => obj[j].state \in Kept)
  BY DEF Proper
<1>2. CASE Same(j)
  BY <1>1, <1>2 DEF Same, Exists, Started
<1>3. CASE Opens(j)
  BY <1>3, StateFacts DEF Opens, Exists, Kept
<1>4. CASE Submits(j)
  BY <1>4, StateFacts DEF Submits, Started, Ready, Ended, Kept
<1>5. CASE Resolves(j) \/ Acks(j) \/ Repeats(j)
  BY <1>5, StateFacts DEF Resolves, Acks, Repeats, Started, Ready, Ended, Kept
<1> QED BY <1>1, <1>2, <1>3, <1>4, <1>5 DEF JobMove

(* A loose job is answered, by whoever runs on it.                         *)
AnsweredLoose(j) == j \in loose /\ (Resolves(j) \/ Acks(j) \/ Repeats(j))

(* A slot the step does not move keeps its copy in step with the store.    *)
LEMMA SlotKept ==
    ASSUME HandlesOK, NEW w \in Workers, SlotCopy(w), SlotStarted(w), loose \subseteq loose',
           wk'[w] = wk[w] \/ wk'[w] = NoTask,
           HasRef(w) /\ wk'[w] = wk[w] =>
             /\ obj'[w].state = obj[w].state /\ obj'[w].preview = obj[w].preview,
           LET j == wk[w].job IN
           HasRef(w) => \/ Same(j) \/ AnsweredLoose(j)
                        \/ Acks(j) /\ obj'[j].state = "print_acknowledged"
    PROVE  SlotCopy(w)'
<1>1. CASE wk'[w] = NoTask
  BY <1>1 DEF SlotCopy, Copied, Locked, InStages, NoTask
<1>2. CASE ~HasRef(w) /\ wk'[w] = wk[w]
  BY <1>2 DEF SlotCopy, Copied, Locked, InStages, HasRef
<1>3. CASE HasRef(w) /\ wk'[w] = wk[w]
  <2> DEFINE j == wk[w].job
  <2>1. j \in Jobs /\ Exists(j)
    BY <1>3, SlotFacts DEF HasRef, Busy, Exists
  <2>2. CASE Same(j)
    <3>1. obj'[j].state = obj[j].state /\ obj'[j].preview = obj[j].preview
      BY <2>1, <2>2 DEF Same, SamePreview
    <3>2. Copied(w)'
      BY <1>3, <3>1 DEF SlotCopy, Copied
    <3>3. Locked(w)'
      BY <1>3, <3>1 DEF SlotCopy, Locked, Follows, InStages
    <3> QED BY <3>2, <3>3 DEF SlotCopy
  <2>3. CASE Acks(j) /\ obj'[j].state = "print_acknowledged"
    <3>1. /\ obj[j].state \in Ready /\ obj'[j].state = "print_acknowledged"
          /\ obj'[j].preview = obj[j].preview /\ obj[j].state \notin Stages
      BY <2>3, StateFacts DEF Acks, SamePreview, Ready
    <3>2. Copied(w)'
      BY <1>3, <3>1 DEF SlotCopy, Copied, Ended, Ready
    <3>3. ASSUME j \notin loose PROVE ~InStages(w) /\ Follows(obj'[w], obj'[j])
      <4>1. ~InStages(w) /\ Follows(obj[w], obj[j])
        BY <1>3, <3>1, <3>3 DEF SlotCopy, Locked, HasRef, InStages
      <4> QED BY <1>3, <3>1, <4>1 DEF Follows, Ready
    <3>4. Locked(w)'
      BY <1>3, <3>3 DEF Locked, InStages
    <3> QED BY <3>2, <3>4 DEF SlotCopy
  <2>4. CASE AnsweredLoose(j)
    <3>1. j \in loose' /\ obj'[j].state \in Ended
      BY <2>4 DEF AnsweredLoose, Resolves, Acks, Repeats, Ended, Ready
    <3> QED BY <1>3, <3>1 DEF SlotCopy, Copied, Locked
  <2> QED BY <1>3, <2>2, <2>3, <2>4
<1> QED BY <1>1, <1>2, <1>3

LEMMA RequestKept ==
    ASSUME HandlesOK, NEW r \in Requests, RequestCopy(r), req'[r] = req[r] \/ req'[r] = NoReq,
           loose \subseteq loose',
           HasCopy(r) /\ req'[r] = req[r] =>
             /\ obj'[r].state = obj[r].state /\ obj'[r].preview = obj[r].preview,
           LET j == req[r].job IN Same(j) \/ Resolves(j) \/ Acks(j) \/ Repeats(j)
    PROVE  RequestCopy(r)'
<1>1. CASE req'[r] = NoReq
  BY <1>1 DEF RequestCopy, NoReq
<1>2. CASE req[r].pc \in {"idle", "load"} /\ req'[r] = req[r]
  BY <1>2 DEF RequestCopy
<1>3. CASE req[r].pc \notin {"idle", "load"} /\ req'[r] = req[r]
  <2> DEFINE j == req[r].job
  <2>1. j \in Jobs /\ Exists(j) /\ req[r] \in ReqRecord
    BY <1>3 DEF HandlesOK, Known, RequestKnown, Types
  <2>2. CASE Same(j)
    <3>1. obj'[j].state = obj[j].state /\ obj'[j].preview = obj[j].preview
      BY <2>1, <2>2 DEF Same, SamePreview
    <3> QED BY <1>3, <3>1 DEF RequestCopy, CopyReady, Started, HasCopy
  <2>3. CASE Resolves(j) \/ Acks(j) \/ Repeats(j)
    <3>1. obj[j].state # "created" /\ obj'[j].state # "created"
      BY <2>3, StateFacts DEF Resolves, Acks, Repeats, Ready, Ended
    <3>2. /\ req[r].pc # "stage"
          /\ ~(req[r].pc = "act" /\ req[r].op # "ack" /\ obj[r].state = "created")
      BY <3>1 DEF RequestCopy
    <3>3. obj[j].state \in Ended => obj'[j].state \in Ended
      BY <2>3 DEF Resolves, Acks, Repeats, Ended, Ready
    <3>4. j \notin loose /\ obj[j].state \in Ready =>
            obj'[j].state \in Ready /\ obj'[j].preview = obj[j].preview
      BY <2>3, StateFacts DEF Resolves, Acks, Repeats, SamePreview, Ready
    <3>5. CopyReady(r) /\ HasCopy(r) => CopyReady(r)'
      BY <1>3, <3>3, <3>4 DEF CopyReady
    <3> QED BY <1>3, <3>1, <3>2, <3>5 DEF RequestCopy, Started, HasCopy
  <2> QED BY <2>2, <2>3
<1> QED BY <1>1, <1>2, <1>3


-----------------------------------------------------------------------------
(* What is left when the jobs have moved                                   *)

StartedThen(j) == obj'[j].state # "created"
Arrives(q, i) ==
    \/ \E n \in DOMAIN queued[q] : queued'[q][i] = queued[q][n]
    \/ StartedThen(queued'[q][i].job)
LEMMA TasksKept ==
    ASSUME HandlesOK, TasksStarted,
           \A j \in Jobs : Exists(j) /\ Started(j) => Started(j)',
           \A q \in Queues : \A i \in DOMAIN queued'[q] : Arrives(q, i)
    PROVE  TasksStarted'
<1> SUFFICES ASSUME NEW q \in Queues, NEW i \in DOMAIN queued'[q]
             PROVE  StartedThen(queued'[q][i].job)
  BY DEF TasksStarted, Started, StartedThen
<1>1. ASSUME NEW n \in DOMAIN queued[q], queued'[q][i] = queued[q][n]
      PROVE  StartedThen(queued'[q][i].job)
  <2>1. queued[q][n] \in Task
    BY <1>1 DEF HandlesOK, Types
  <2>2. queued[q][n].job \in Jobs /\ Exists(queued[q][n].job)
    BY <2>1 DEF Task, HandlesOK, Known, Waits
  <2>3. Started(queued[q][n].job)
    BY DEF TasksStarted
  <2> QED BY <1>1, <2>2, <2>3 DEF Started, StartedThen
<1> QED BY <1>1 DEF Arrives

LEMMA TasksSame ==
    ASSUME UNCHANGED queued
    PROVE  \A q \in Queues : \A i \in DOMAIN queued'[q] : Arrives(q, i)
BY DEF Arrives

LEMMA TaskAdded ==
    ASSUME HandlesOK, NEW rep \in Replicas, NEW j \in Jobs,
           NEW kind \in {"advance", "full"}, Enqueue(rep, kind, j), StartedThen(j)
    PROVE  \A q \in Queues : \A i \in DOMAIN queued'[q] : Arrives(q, i)
<1> SUFFICES ASSUME NEW q \in Queues, NEW i \in DOMAIN queued'[q] PROVE Arrives(q, i)
  OBVIOUS
<1>1. queued[q] \in Seq(Task) /\ Types
  BY DEF HandlesOK, Types
<1> DEFINE t == TaskOf(kind, j)
<1>2. t.job = j /\ t \in Task
  BY <1>1, Enqueued DEF TaskOf
<1>3. queued'[q] = queued[q] \/ queued'[q] = Append(queued[q], t)
  BY <1>1, Enqueued
<1> HIDE DEF t
<1>4. queued'[q][i] = t \/ (i \in DOMAIN queued[q] /\ queued'[q][i] = queued[q][i])
  BY <1>1, <1>2, <1>3
<1> QED BY <1>2, <1>4 DEF Arrives, StartedThen

LEMMA AckedKept ==
    ASSUME HandlesOK, AckedReady, UNCHANGED printIdem, loose \subseteq loose',
           \A j \in Jobs : Exists(j) =>
             /\ Exists(j)'
             /\ j \notin loose /\ obj[j].state \in Ready => obj'[j].state \in Ready
    PROVE  AckedReady'
BY DEF AckedReady

LEMMA SlotStartedKept ==
    ASSUME HandlesOK, NEW w \in Workers, SlotStarted(w),
           \A j \in Jobs : Exists(j) /\ Started(j) => Started(j)',
           wk'[w] = wk[w] \/ wk'[w] = NoTask \/ (Busy(w) /\ wk'[w].job = wk[w].job)
    PROVE  SlotStarted(w)'
<1>1. CASE wk'[w] = NoTask
  BY <1>1 DEF SlotStarted, Busy, NoTask
<1>2. CASE wk'[w] # NoTask
  <2>1. wk'[w].job = wk[w].job /\ (Busy(w)' => Busy(w))
    BY <1>2 DEF Busy
  <2>2. Busy(w) => wk[w].job \in Jobs /\ Exists(wk[w].job)
    BY SlotFacts DEF Exists
  <2> QED BY <2>1, <2>2 DEF SlotStarted, Started
<1> QED BY <1>1, <1>2

(* A step of a handler: no slot moves                                      *)
LEMMA HandlerMoved ==
    ASSUME PInv, HandlesOK', UNCHANGED wk, loose \subseteq loose',
           \A r \in Requests : RequestCopy(r)', AckedReady' \/ UNCHANGED printIdem,
           \A q \in Queues : \A i \in DOMAIN queued'[q] : Arrives(q, i),
           \A w \in Workers : HasRef(w) => obj'[w] = obj[w],
           \A j \in Jobs : \/ Same(j) \/ Opens(j) \/ Submits(j) \/ Repeats(j)
                           \/ Acks(j) /\ obj'[j].state = "print_acknowledged"
    PROVE  CopiesOK'
<1>1. HandlesOK /\ CopiesOK /\ Types /\ Proper
  BY DEF PInv, IInv, HandlesOK, CopiesOK
<1>2. /\ Proper'
      /\ \A j \in Jobs : Exists(j) =>
           /\ Exists(j)'
           /\ Started(j) => Started(j)'
           /\ obj[j].state \in Ended => obj'[j].state \in Ended
           /\ j \notin loose /\ obj[j].state \in Ready => obj'[j].state \in Ready
  BY <1>1, JobsLater DEF JobMove
<1>3. TasksStarted' /\ AckedReady'
  BY <1>1, <1>2, TasksKept, AckedKept DEF CopiesOK
<1>4. ASSUME NEW w \in Workers PROVE SlotStarted(w)' /\ SlotCopy(w)'
  <2>1. SlotStarted(w) /\ SlotCopy(w)
    BY <1>1 DEF CopiesOK
  <2>2. SlotStarted(w)'
    BY <1>1, <1>2, <2>1, SlotStartedKept
  <2>3. HasRef(w) => wk[w].job \in Jobs /\ Exists(wk[w].job) /\ Started(wk[w].job)
    BY <1>1, <2>1, SlotFacts DEF HasRef, Busy, Exists, SlotStarted
  <2>4. HasRef(w) => \/ Same(wk[w].job) \/ AnsweredLoose(wk[w].job)
                     \/ Acks(wk[w].job) /\ obj'[wk[w].job].state = "print_acknowledged"
    BY <2>3 DEF Opens, Submits, Started, AnsweredLoose, Repeats
  <2> QED BY <1>1, <2>1, <2>2, <2>4, SlotKept
<1> QED BY <1>2, <1>3, <1>4 DEF CopiesOK

(* A step of a slot: no request moves, except that a crash ends some       *)
LEMMA SlotMoved ==
    ASSUME PInv, HandlesOK', UNCHANGED printIdem, loose \subseteq loose', NEW w \in Workers,
           \A r \in Requests : req'[r] = req[r],
           \A r \in Requests : HasCopy(r) => obj'[r] = obj[r],
           \A q \in Queues : \A i \in DOMAIN queued'[q] : Arrives(q, i),
           \A x \in Workers : x # w =>
             /\ wk'[x] = wk[x]
             /\ HasRef(x) => obj'[x] = obj[x] /\ (Same(wk[x].job) \/ AnsweredLoose(wk[x].job)),
           \A j \in Jobs : Same(j) \/ Resolves(j) \/ Acks(j) \/ Repeats(j),
           SlotStarted(w)', SlotCopy(w)'
    PROVE  CopiesOK'
<1>1. HandlesOK /\ CopiesOK /\ Types /\ Proper
  BY DEF PInv, IInv, HandlesOK, CopiesOK
<1>2. /\ Proper'
      /\ \A j \in Jobs : Exists(j) =>
           /\ Exists(j)'
           /\ Started(j) => Started(j)'
           /\ obj[j].state \in Ended => obj'[j].state \in Ended
           /\ j \notin loose /\ obj[j].state \in Ready => obj'[j].state \in Ready
  BY <1>1, JobsLater DEF JobMove
<1>3. TasksStarted' /\ AckedReady'
  BY <1>1, <1>2, TasksKept, AckedKept DEF CopiesOK
<1>4. ASSUME NEW x \in Workers, x # w PROVE SlotStarted(x)' /\ SlotCopy(x)'
  BY <1>1, <1>2, <1>4, SlotStartedKept, SlotKept DEF CopiesOK
<1>5. ASSUME NEW r \in Requests PROVE RequestCopy(r)'
  <2>1. RequestCopy(r)
    BY <1>1 DEF CopiesOK
  <2>2. CASE req[r].pc = "idle"
    BY <2>2 DEF RequestCopy
  <2>3. CASE req[r].pc # "idle"
    <3>1. req[r].job \in Jobs
      BY <1>1, <2>3 DEF HandlesOK, Known, RequestKnown
    <3> QED BY <1>1, <2>1, <3>1, RequestKept
  <2> QED BY <2>2, <2>3
<1> QED BY <1>2, <1>3, <1>4, <1>5 DEF CopiesOK

-----------------------------------------------------------------------------
(* The handlers                                                            *)

Moved == CopiesOK' /\ (NoMove \/ OneMove)

LEMMA PromiseFacts ==
    ASSUME PInv
    PROVE  /\ HandlesOK /\ Types /\ Proper /\ TasksStarted /\ AckedReady
           /\ Bare /\ Links
           /\ \A w \in Workers : SlotStarted(w) /\ SlotCopy(w)
           /\ \A r \in Requests : RequestCopy(r) /\ req[r] \in ReqRecord /\ RequestKnown(r)
           /\ obj \in [Objs -> JobRecord]
BY DEF PInv, IInv, HandlesOK, CopiesOK, Types, Known

(* A handler that stores nothing                                           *)
LEMMA HandlerReads ==
    ASSUME PInv, HandlesOK', OneDevice, UNCHANGED <<stored, wk, bucket>>,
           loose \subseteq loose',
           \A q \in Queues : \A i \in DOMAIN queued'[q] : Arrives(q, i),
           NEW h \in [Objs -> JobRecord], obj' = Sweep(h),
           NEW r \in Requests, \A o \in Objs : o # r => h[o] = obj[o],
           RequestCopy(r)', AckedReady' \/ UNCHANGED printIdem
    PROVE  Moved
<1>1. /\ \A j \in Jobs : Exists(j)' => obj'[j] = h[j]
      /\ \A w \in Workers : HasRef(w)' => obj'[w] = h[w]
  BY RedisSwept DEF OneDevice
<1>2. \A j \in Jobs : Same(j)
  BY <1>1, AddressFacts DEF Same, SamePreview, Exists, Objs
<1>3. \A w \in Workers : HasRef(w) => obj'[w] = obj[w]
  BY <1>1, AddressFacts DEF HasRef, Objs
<1>4. \A s \in Requests : RequestCopy(s)'
  <2>1. \A s \in Requests : s = r
    BY DEF OneDevice
  <2> QED BY <2>1
<1> QED BY <1>2, <1>3, <1>4, HandlerMoved DEF Moved, NoMove

(* A handler that stores the record of its job                             *)
Written(j, rec) ==
    \/ rec.state = obj[j].state /\ rec.preview = obj[j].preview
    \/ obj[j].state = "created" /\ rec.state \in {"audio_received", "asr_complete"}
    \/ obj[j].state \in Ready /\ rec.state = "print_acknowledged"
       /\ rec.preview = obj[j].preview
    \/ j \in loose /\ obj[j].state \in Ended /\ rec.state \in Ended

LEMMA HandlerWrites ==
    ASSUME PInv, HandlesOK', OneDevice, UNCHANGED <<wk, queued, printIdem, bucket, loose>>,
           NEW h \in [Objs -> JobRecord],
           NEW r \in Requests, \A o \in Objs : o # r => h[o] = obj[o],
           NEW j \in Jobs, Exists(j), NEW rec \in JobRecord, setJob(j, h, rec),
           Written(j, rec), RequestCopy(r)'
    PROVE  Moved
<1>1. /\ obj'[j] = rec /\ Exists(j)'
      /\ \A k \in Jobs : k # j => stored'[k] = stored[k]
      /\ \A k \in Jobs : k # j /\ Exists(k) => obj'[k] = h[k]
      /\ \A w \in Workers : HasRef(w)' => obj'[w] = h[w]
  BY PromiseFacts, RedisSet DEF OneDevice
<1>2. \A k \in Jobs : k # j => Same(k)
  BY <1>1, AddressFacts DEF Same, SamePreview, Objs
<1>3. \A w \in Workers : HasRef(w) => obj'[w] = obj[w]
  BY <1>1, AddressFacts DEF HasRef, Objs
<1>4. \/ Same(j) \/ Submits(j) \/ Repeats(j)
      \/ Acks(j) /\ obj'[j].state = "print_acknowledged"
  <2>1. stored[j] = j /\ stored'[j] = j
    BY <1>1, PromiseFacts, Copies DEF OneDevice, HandlesOK, Private, Exists
  <2> QED BY <1>1, <2>1 DEF Written, Same, SamePreview, Submits, Acks, Repeats, Ready
<1>5. \A s \in Requests : RequestCopy(s)'
  <2>1. \A s \in Requests : s = r
    BY DEF OneDevice
  <2> QED BY <2>1
<1>6. CopiesOK'
  BY <1>2, <1>3, <1>4, <1>5, TasksSame, HandlerMoved
<1>7. OneMove
  BY <1>2, <1>4 DEF OneMove, JobMove
<1> QED BY <1>6, <1>7 DEF Moved

LEMMA CreateMoves ==
    ASSUME PInv, HandlesOK', OneDevice, NEW j \in Jobs, NEW s \in {"created", "asr_complete"},
           NEW t \in Texts \cup {None}, create(j, NewRecord(s, t)),
           \/ UNCHANGED req
           \/ \A r \in Requests :
                req'[r].pc = "enqueue" /\ req'[r].job = j /\ s = "asr_complete"
    PROVE  Moved
<1> DEFINE rec == NewRecord(s, t)
<1>1. rec \in JobRecord /\ rec.state = s
  BY StateFacts DEF NewRecord, JobRecord
<1>2. /\ ~Exists(j) /\ setJob(j, obj, rec)
      /\ UNCHANGED <<lock, printIdem, inProg, wk, queued, bucket, loose>>
  BY DEF create, history
<1> HIDE DEF rec
<1>3. /\ obj'[j] = rec /\ Exists(j)'
      /\ \A k \in Jobs : k # j => stored'[k] = stored[k]
      /\ \A k \in Jobs : k # j /\ Exists(k) => obj'[k] = obj[k]
      /\ \A r \in Requests : req'[r].pc \in {"act", "stage", "save"} => obj'[r] = obj[r]
      /\ \A w \in Workers : HasRef(w)' => obj'[w] = obj[w]
  BY <1>1, <1>2, PromiseFacts, RedisSet DEF OneDevice
<1>4. Opens(j) /\ \A k \in Jobs : k # j => Same(k)
  BY <1>1, <1>2, <1>3 DEF Opens, Same, SamePreview
<1>5. ASSUME NEW r \in Requests PROVE RequestCopy(r)'
  <2>1. RequestCopy(r) /\ RequestKnown(r)
    BY PromiseFacts
  <2>2. CASE UNCHANGED req /\ req[r].pc = "idle"
    BY <2>2 DEF RequestCopy
  <2>3. CASE UNCHANGED req /\ req[r].pc # "idle"
    <3>1. req[r].job \in Jobs /\ req[r].job # j
      BY <1>2, <2>1, <2>3 DEF RequestKnown
    <3>2. Same(req[r].job)
      BY <1>4, <3>1
    <3>3. HasCopy(r) => obj'[r] = obj[r]
      BY <1>3, <2>3 DEF HasCopy
    <3> QED BY <1>2, <2>1, <2>3, <3>2, <3>3, PromiseFacts, RequestKept
  <2>4. CASE req'[r].pc = "enqueue" /\ req'[r].job = j /\ s = "asr_complete"
    BY <1>1, <1>3, <2>4 DEF RequestCopy, Started
  <2> QED BY <2>2, <2>3, <2>4
<1>6. \A w \in Workers : HasRef(w) => obj'[w] = obj[w]
  BY <1>2, <1>3 DEF HasRef
<1>7. CopiesOK'
  BY <1>2, <1>4, <1>5, <1>6, TasksSame, HandlerMoved
<1> QED BY <1>4, <1>7 DEF Moved, OneMove, JobMove

LEMMA CreateJobMoves ==
    ASSUME PInv, HandlesOK', OneDevice, NEW j \in Jobs,
           createJob(j) \/ \E r \in Requests, t \in Texts, rep \in Replicas :
                             createJobFromTranscript(r, j, t, rep)
    PROVE  Moved
<1>1. CASE createJob(j)
  BY <1>1, CreateMoves DEF createJob
<1>2. ASSUME NEW r \in Requests, NEW t \in Texts, NEW rep \in Replicas,
             createJobFromTranscript(r, j, t, rep)
      PROVE  Moved
  <2>1. req'[r].pc = "enqueue" /\ req'[r].job = j /\ create(j, NewRecord("asr_complete", t))
    BY <1>2, PromiseFacts DEF createJobFromTranscript, Types
  <2>2. \A s \in Requests : s = r
    BY DEF OneDevice
  <2> QED BY <2>1, <2>2, CreateMoves
<1> QED BY <1>1, <1>2

LEMMA StoreIsOwn ==
    ASSUME HandlesOK, ~SharedRecords, NEW j \in Jobs, Exists(j)
    PROVE  stored[j] = j /\ j \in Objs
BY Copies

LEMMA LoadsMove ==
    ASSUME PInv, HandlesOK', OneDevice, NEW r \in Requests, NEW j \in Jobs, Exists(j),
           UNCHANGED <<stored, wk, queued, printIdem, bucket, loose>>,
           obj' = Sweep(LoadHeap(j, r)),
           req'[r].job = j, req'[r].pc = "act"
    PROVE  Moved
<1> DEFINE h == LoadHeap(j, r)
<1>1. stored[j] = j /\ j \in Objs /\ r \in Objs /\ Types
  BY StoreIsOwn, PromiseFacts DEF OneDevice, Objs
<1>2. h \in [Objs -> JobRecord] /\ h[r] = obj[j] /\ \A o \in Objs : o # r => h[o] = obj[o]
  BY <1>1 DEF LoadHeap, OneDevice, Types
<1> HIDE DEF h
<1>3. obj'[r] = h[r] /\ obj'[j] = h[j]
  <2>1. Exists(j)'
    BY DEF Exists
  <2> QED BY <1>2, <2>1, RedisSwept DEF OneDevice, h
<1>4. j # r
  BY AddressFacts
<1>5. obj'[r] = obj'[j]
  BY <1>1, <1>2, <1>3, <1>4
<1>6. RequestCopy(r)'
  BY <1>5, StateFacts DEF RequestCopy, CopyReady, Ready, Ended
<1> QED BY <1>2, <1>6, TasksSame, HandlerReads DEF h

LEMMA BeginUploadMoves ==
    ASSUME PInv, HandlesOK', OneDevice, NEW r \in Requests,
           NEW op \in {"audio", "chunk", "text"},
           NEW j \in Jobs, NEW t \in Texts, NEW rep \in Replicas,
           BeginUpload(r, op, j, t, rep)
    PROVE  Moved
<1>1. req \in [Requests -> ReqRecord]
  BY PromiseFacts DEF Types
<1>2. req'[r].job = j /\ req'[r].pc = "act"
  BY <1>1 DEF BeginUpload
<1> QED BY <1>2, LoadsMove DEF BeginUpload, history

LEMMA LoadAckMoves ==
    ASSUME PInv, HandlesOK', OneDevice, NEW r \in Requests, LoadAck(r)
    PROVE  Moved
<1>1. req \in [Requests -> ReqRecord] /\ req[r].job \in Jobs /\ Exists(req[r].job)
  BY PromiseFacts DEF Types, LoadAck, RequestKnown
<1>2. req'[r].job = req[r].job /\ req'[r].pc = "act"
  BY <1>1 DEF LoadAck, ReqRecord
<1> QED BY <1>1, <1>2, LoadsMove DEF LoadAck, history

LEMMA RefuseMoves ==
    ASSUME PInv, HandlesOK', OneDevice, NEW r \in Requests, RefuseUpload(r) \/ RefuseAck(r)
    PROVE  Moved
<1>1. /\ UNCHANGED <<stored, wk, queued, printIdem, bucket, loose>> /\ obj' = Sweep(obj)
      /\ req' = [req EXCEPT ![r] = NoReq]
  BY DEF RefuseUpload, RefuseAck, history
<1>2. req'[r] = NoReq
  BY <1>1, PromiseFacts DEF Types
<1>3. RequestCopy(r)'
  BY <1>2 DEF RequestCopy, NoReq
<1> QED BY <1>1, <1>3, PromiseFacts, TasksSame, HandlerReads

(* A step that leaves every record object alone                            *)
LEMMA HandlerKeeps ==
    ASSUME PInv, HandlesOK', OneDevice, UNCHANGED <<obj, stored, wk, bucket>>,
           loose \subseteq loose',
           \A q \in Queues : \A i \in DOMAIN queued'[q] : Arrives(q, i),
           \A r \in Requests : RequestCopy(r)', AckedReady' \/ UNCHANGED printIdem
    PROVE  Moved
<1>1. \A j \in Jobs : Same(j)
  BY DEF Same, SamePreview
<1> QED BY <1>1, HandlerMoved DEF Moved, NoMove

LEMMA StageAudioMoves ==
    ASSUME PInv, HandlesOK', OneDevice, NEW r \in Requests,
           StageAudio(r) \/ EnqueueTask(r)
    PROVE  Moved
<1>1. req \in [Requests -> ReqRecord] /\ req[r].job \in Jobs /\ req[r].rep \in Replicas
  BY PromiseFacts DEF Types, StageAudio, EnqueueTask, RequestKnown
<1>2. UNCHANGED <<obj, stored, wk, printIdem, bucket, loose>>
  BY DEF StageAudio, EnqueueTask, history
<1>3. RequestCopy(r)'
  <2>1. CASE StageAudio(r)
    <3>1. /\ req'[r] = [req[r] EXCEPT !.pc = "stage"]
          /\ req[r].op = "audio" /\ req[r].pc = "act" /\ obj[req[r].ref].state = "created"
      BY <1>1, <2>1 DEF StageAudio, AcceptsUpload
    <3>2. req[r].ref = r
      BY <3>1, PromiseFacts, Copies DEF OneDevice
    <3>3. req'[r].pc = "stage" /\ req'[r].op = "audio" /\ req'[r].job = req[r].job
      BY <1>1, <3>1 DEF ReqRecord
    <3> QED BY <1>2, <3>1, <3>2, <3>3, PromiseFacts DEF RequestCopy
  <2>2. CASE EnqueueTask(r)
    <3>1. req'[r] = NoReq
      BY <1>1, <2>2 DEF EnqueueTask
    <3> QED BY <3>1 DEF RequestCopy, NoReq
  <2> QED BY <2>1, <2>2
<1>4. \A q \in Queues : \A i \in DOMAIN queued'[q] : Arrives(q, i)
  <2>1. CASE StageAudio(r)
    BY <2>1, TasksSame DEF StageAudio
  <2>2. CASE EnqueueTask(r)
    <3>1. PICK kind \in {"advance", "full"} : Enqueue(req[r].rep, kind, req[r].job)
      BY <2>2 DEF EnqueueTask
    <3>2. obj'[req[r].job].state # "created"
      BY <2>2, <1>2, PromiseFacts DEF EnqueueTask, RequestCopy, Started
    <3> QED BY <1>1, <3>1, <3>2, PromiseFacts, TaskAdded DEF StartedThen
  <2> QED BY <2>1, <2>2
<1>5. \A s \in Requests : RequestCopy(s)'
  <2>1. \A s \in Requests : s = r
    BY DEF OneDevice
  <2> QED BY <1>3, <2>1
<1> QED BY <1>2, <1>4, <1>5, HandlerKeeps


LEMMA AdvanceMoves ==
    ASSUME PInv, HandlesOK', OneDevice, NEW j \in Jobs, NEW rep \in Replicas,
           advanceJob(j, rep)
    PROVE  Moved
<1>1. /\ stored[j] = j /\ UNCHANGED <<obj, stored, wk, printIdem, req, bucket, loose>>
      /\ Enqueue(rep, "advance", j)
  BY PromiseFacts, StoreIsOwn DEF OneDevice, advanceJob, history
<1>2. obj'[j].state # "created"
  BY <1>1, StateFacts DEF advanceJob
<1>3. \A q \in Queues : \A i \in DOMAIN queued'[q] : Arrives(q, i)
  BY <1>1, <1>2, PromiseFacts, TaskAdded DEF StartedThen
<1>4. \A r \in Requests : RequestCopy(r)'
  BY <1>1, PromiseFacts DEF RequestCopy, CopyReady, Started
<1> QED BY <1>1, <1>3, <1>4, HandlerKeeps

LEMMA BeginAckMoves ==
    ASSUME PInv, HandlesOK', OneDevice, NEW r \in Requests, NEW j \in Jobs,
           NEW k \in Keys, NEW rep \in Replicas, BeginAck(r, j, k, rep)
    PROVE  Moved
<1>1. UNCHANGED <<obj, stored, wk, printIdem, queued, bucket, loose>>
  BY DEF BeginAck, history
<1>2. req'[r].pc = "load"
  BY PromiseFacts DEF BeginAck, Types
<1>3. \A s \in Requests : RequestCopy(s)'
  <2>1. \A s \in Requests : s = r
    BY DEF OneDevice
  <2> QED BY <1>2, <2>1 DEF RequestCopy
<1> QED BY <1>1, <1>3, TasksSame, HandlerKeeps

LEMMA HeapEdited ==
    ASSUME NEW o \in Objs, NEW rec \in JobRecord, obj \in [Objs -> JobRecord]
    PROVE  LET h == [obj EXCEPT ![o] = rec] IN
           h \in [Objs -> JobRecord] /\ h[o] = rec /\ \A p \in Objs : p # o => h[p] = obj[p]
OBVIOUS

(* What a request that is to store its record has in it                    *)
LEMMA UploadMoves ==
    ASSUME PInv, HandlesOK', OneDevice, NEW r \in Requests,
           attachAudio(r) \/ uploadChunk(r) \/ attachText(r) \/ SaveAck(r)
    PROVE  Moved
<1> DEFINE j == req[r].job
<1>1. /\ req \in [Requests -> ReqRecord] /\ j \in Jobs /\ Exists(j)
      /\ req[r].pc \in {"act", "stage", "save"} /\ req[r].ref = r /\ r \in Objs
  <2>1. req[r].pc \in {"act", "stage", "save"}
    BY DEF attachAudio, AudioReady, uploadChunk, attachText, SaveAck
  <2> QED BY <2>1, PromiseFacts, Copies DEF OneDevice, Types, RequestKnown
<1>2. /\ UNCHANGED <<wk, queued, printIdem, bucket, loose>>
      /\ RequestCopy(r) /\ RequestKnown(r)
      /\ obj \in [Objs -> JobRecord] /\ obj[r] \in JobRecord
  BY <1>1, PromiseFacts DEF attachAudio, uploadChunk, attachText, SaveAck, history
<1> HIDE DEF j
<1>3. CASE attachAudio(r)
  <2> DEFINE rec == [obj[r] EXCEPT !.state = "audio_received"]
             h == [obj EXCEPT ![r] = rec]
  <2>1. /\ rec \in JobRecord /\ rec.state = "audio_received" /\ rec.preview = obj[r].preview
        /\ h \in [Objs -> JobRecord] /\ \A o \in Objs : o # r => h[o] = obj[o]
    <3>1. rec \in JobRecord /\ rec.state = "audio_received" /\ rec.preview = obj[r].preview
      <4>1. rec \in JobRecord
        BY <1>1, <1>2, Changed, StateFacts, PromiseFacts
      <4> QED BY <1>2, <4>1 DEF JobRecord
    <3> HIDE DEF rec
    <3> QED BY <1>1, <1>2, <3>1, HeapEdited
  <2>2. setJob(j, h, rec) /\ req'[r] = NoReq
    BY <1>1, <1>3 DEF attachAudio, j
  <2>3. obj[j].state = "created"
    BY <1>1, <1>2, <1>3 DEF attachAudio, AudioReady, AcceptsUpload, RequestCopy, j
  <2> HIDE DEF rec, h
  <2>4. Written(j, rec)
    BY <2>1, <2>3, StateFacts DEF Written
  <2>5. RequestCopy(r)'
    BY <2>2 DEF RequestCopy, NoReq
  <2> QED BY <1>1, <1>2, <2>1, <2>2, <2>4, <2>5, HandlerWrites
<1>4. CASE uploadChunk(r) \/ SaveAck(r)
  <2>1. setJob(j, obj, obj[r]) /\ req'[r] = NoReq
    BY <1>1, <1>4 DEF uploadChunk, SaveAck, j
  <2>2. Written(j, obj[r])
    <3>1. CASE uploadChunk(r)
      <4>1. obj[r].state = "created" /\ obj[j].state = "created"
        BY <1>1, <1>2, <3>1 DEF uploadChunk, AcceptsUpload, RequestCopy, j
      <4>2. obj[r].preview = None /\ obj[j].preview = None
        BY <1>1, <4>1, PromiseFacts, StateFacts DEF Bare, Ready, Objs
      <4> QED BY <4>1, <4>2 DEF Written
    <3>2. CASE SaveAck(r)
      <4>1. obj[r].state = "print_acknowledged" /\ CopyReady(r)
        BY <1>2, <3>2 DEF SaveAck, RequestCopy
      <4> QED BY <4>1 DEF CopyReady, Written, Ended, Ready, j
    <3> QED BY <1>4, <3>1, <3>2
  <2>3. RequestCopy(r)'
    BY <2>1 DEF RequestCopy, NoReq
  <2> QED BY <1>1, <1>2, <2>1, <2>2, <2>3, HandlerWrites
<1>5. CASE attachText(r)
  <2> DEFINE rec == [obj[r] EXCEPT !.state = "asr_complete", !.transcript = req[r].arg]
             h == [obj EXCEPT ![r] = rec]
  <2>1. req[r].arg \in Texts /\ req[r].op = "text"
    BY <1>2, <1>5 DEF attachText, RequestKnown
  <2>2. /\ rec \in JobRecord /\ rec.state = "asr_complete" /\ rec.preview = obj[r].preview
        /\ h \in [Objs -> JobRecord] /\ \A o \in Objs : o # r => h[o] = obj[o]
    <3>1. rec \in JobRecord /\ rec.state = "asr_complete" /\ rec.preview = obj[r].preview
      <4>1. rec \in JobRecord
        BY <1>1, <1>2, <2>1, Changed, StateFacts, PromiseFacts
      <4> QED BY <1>2, <4>1 DEF JobRecord
    <3> HIDE DEF rec
    <3> QED BY <1>1, <1>2, <3>1, HeapEdited
  <2>3. /\ setJob(j, h, rec)
        /\ req'[r].pc = "enqueue" /\ req'[r].job = j
    BY <1>1, <1>5 DEF attachText, j, ReqRecord
  <2>4. obj[j].state = "created"
    BY <1>1, <1>2, <1>5, <2>1 DEF attachText, AcceptsUpload, RequestCopy, j
  <2> HIDE DEF rec, h
  <2>5. Written(j, rec)
    BY <2>2, <2>4, StateFacts DEF Written
  <2>6. obj'[j] = rec
    BY <1>1, <1>2, <2>2, <2>3, PromiseFacts, RedisSet DEF OneDevice
  <2>7. RequestCopy(r)'
    BY <2>2, <2>3, <2>6 DEF RequestCopy, Started
  <2> QED BY <1>1, <1>2, <2>2, <2>3, <2>5, <2>7, HandlerWrites
<1> QED BY <1>3, <1>4, <1>5

LEMMA printAckMoves ==
    ASSUME PInv, HandlesOK', OneDevice, NEW r \in Requests, printAck(r)
    PROVE  Moved
<1> DEFINE j == req[r].job
           rec == [obj[r] EXCEPT !.state = "print_acknowledged"]
<1>1. /\ req \in [Requests -> ReqRecord] /\ j \in Jobs /\ Exists(j) /\ req[r].arg \in Keys
      /\ req[r].ref = r /\ r \in Objs
  BY PromiseFacts, Copies DEF OneDevice, Types, RequestKnown, printAck
<1>2. /\ obj' = [obj EXCEPT ![r] = rec] /\ UNCHANGED <<stored, wk, queued, bucket, loose>>
      /\ req' = [req EXCEPT ![r].pc = "save"]
      /\ printIdem' = [printIdem EXCEPT ![req[r].arg] = j]
  BY <1>1, PromiseFacts DEF printAck, history
<1>3. CopyReady(r)
  BY <1>1, PromiseFacts DEF printAck, AcceptsAck, RequestCopy
<1>4. /\ req'[r].pc = "save" /\ req'[r].job = j /\ req'[r].op = req[r].op
  BY <1>1, <1>2 DEF ReqRecord
<1>5. /\ obj'[r].state = "print_acknowledged" /\ obj'[r].preview = obj[r].preview
      /\ \A o \in Objs : o # r => obj'[o] = obj[o]
  <2>1. rec.state = "print_acknowledged" /\ rec.preview = obj[r].preview
    <3>1. obj[r] \in JobRecord
      BY <1>1, PromiseFacts
    <3> QED BY <3>1 DEF JobRecord
  <2> HIDE DEF rec
  <2> QED BY <1>1, <1>2, <2>1, PromiseFacts
<1> HIDE DEF j, rec
<1>6. \A k \in Jobs : obj'[k] = obj[k]
  BY <1>5, AddressFacts DEF Objs
<1>7. \A w \in Workers : obj'[w] = obj[w]
  BY <1>5, AddressFacts DEF Objs
<1>8. RequestCopy(r)'
  <2>1. CopyReady(r)'
    BY <1>1, <1>2, <1>3, <1>4, <1>5, <1>6 DEF CopyReady, j
  <2> QED BY <1>4, <1>5, <2>1 DEF RequestCopy
<1>9. AckedReady'
  <2> SUFFICES ASSUME NEW k \in Keys, printIdem'[k] \in Jobs \ loose
               PROVE  stored'[printIdem'[k]] # None /\ obj'[printIdem'[k]].state \in Ready
    BY <1>2 DEF AckedReady, Exists
  <2>1. CASE k = req[r].arg
    <3>1. printIdem'[k] = j
      BY <1>1, <1>2, <2>1, PromiseFacts DEF Types
    <3> QED BY <1>1, <1>2, <1>3, <1>6, <3>1 DEF CopyReady, Exists, j
  <2>2. CASE k # req[r].arg
    <3>1. printIdem'[k] = printIdem[k]
      BY <1>1, <1>2, <2>2, PromiseFacts DEF Types
    <3> QED BY <1>2, <1>6, <3>1, PromiseFacts DEF AckedReady, Exists
  <2> QED BY <2>1, <2>2
<1>10. \A s \in Requests : RequestCopy(s)'
  <2>1. \A s \in Requests : s = r
    BY DEF OneDevice
  <2> QED BY <1>8, <2>1
<1>11. \A k \in Jobs : Same(k)
  BY <1>2, <1>6 DEF Same, SamePreview
<1> QED BY <1>2, <1>7, <1>9, <1>10, <1>11, TasksSame, HandlerMoved DEF Moved, NoMove


-----------------------------------------------------------------------------
(* The slots                                                               *)

LEMMA TasksTaken ==
    ASSUME PInv, NEW w \in Workers, TakeTask(w)
    PROVE  /\ \A q \in Queues : \A i \in DOMAIN queued'[q] : Arrives(q, i)
           /\ Head(Waiting(w)).job \in Jobs /\ Started(Head(Waiting(w)).job)
<1> DEFINE p == QueueOf(ReplicaOf[w])
<1>1. p \in Queues /\ queued[p] \in Seq(Task) /\ Types
  BY QueueFacts, PromiseFacts DEF Types
<1>2. /\ Head(Waiting(w)) \in Task
      /\ queued' \in [Queues -> Seq(Task)]
      /\ Len(Waiting(w)) \in Nat \ {0}
      /\ Waiting(w) = queued[p]
      /\ Waiting(w)[1] = Head(Waiting(w))
      /\ \A q \in Queues : q # p => queued'[q] = queued[q]
      /\ Len(queued'[p]) = Len(Waiting(w)) - 1
      /\ \A i \in 1..Len(Waiting(w)) - 1 : queued'[p][i] = Waiting(w)[i + 1]
  BY <1>1, Taken
<1> HIDE DEF p
<1>3. ASSUME NEW q \in Queues, NEW i \in DOMAIN queued'[q] PROVE Arrives(q, i)
  <2>1. CASE q = p
    <3>1. queued'[p] \in Seq(Task)
      BY <1>1, <1>2
    <3>2. i \in 1..Len(Waiting(w)) - 1 /\ i + 1 \in DOMAIN queued[p]
      BY <1>1, <1>2, <1>3, <2>1, <3>1
    <3>3. queued'[p][i] = queued[p][i + 1]
      BY <1>2, <3>2
    <3> QED BY <2>1, <3>2, <3>3 DEF Arrives
  <2>2. CASE q # p
    BY <1>2, <1>3, <2>2 DEF Arrives
  <2> QED BY <2>1, <2>2
<1>4. 1 \in DOMAIN queued[p]
  BY <1>1, <1>2
<1> QED BY <1>1, <1>2, <1>3, <1>4, PromiseFacts DEF TasksStarted, Task

(* A slot's step that stores nothing                                       *)
LEMMA SlotReads ==
    ASSUME PInv, HandlesOK', OneDevice, UNCHANGED <<stored, printIdem, req, bucket>>,
           loose \subseteq loose',
           \A q \in Queues : \A i \in DOMAIN queued'[q] : Arrives(q, i),
           NEW h \in [Objs -> JobRecord], obj' = Sweep(h),
           NEW w \in Workers, \A o \in Objs : o # w => h[o] = obj[o],
           \A x \in Workers : x # w => wk'[x] = wk[x],
           SlotStarted(w)', SlotCopy(w)'
    PROVE  Moved
<1>1. /\ \A j \in Jobs : Exists(j)' => obj'[j] = h[j]
      /\ \A r \in Requests : req'[r].pc \in {"act", "stage", "save"} => obj'[r] = h[r]
      /\ \A x \in Workers : HasRef(x)' => obj'[x] = h[x]
  BY RedisSwept DEF OneDevice
<1>2. \A j \in Jobs : Same(j)
  BY <1>1, AddressFacts DEF Same, SamePreview, Exists, Objs
<1>3. \A x \in Workers : x # w /\ HasRef(x) => obj'[x] = obj[x] /\ wk[x].job \in Jobs
  BY <1>1, PromiseFacts, SlotFacts DEF HasRef, Busy, Objs
<1>4. \A r \in Requests : HasCopy(r) => obj'[r] = obj[r]
  BY <1>1, AddressFacts DEF HasCopy, Objs
<1> QED BY <1>2, <1>3, <1>4, SlotMoved DEF Moved, NoMove

(* ... and one that leaves every record object alone                       *)
LEMMA SlotKeeps ==
    ASSUME PInv, HandlesOK', OneDevice, UNCHANGED <<obj, stored, printIdem, req, bucket>>,
           loose \subseteq loose',
           \A q \in Queues : \A i \in DOMAIN queued'[q] : Arrives(q, i),
           NEW w \in Workers, \A x \in Workers : x # w => wk'[x] = wk[x],
           SlotStarted(w)', SlotCopy(w)'
    PROVE  Moved
<1>1. \A j \in Jobs : Same(j)
  BY DEF Same, SamePreview
<1>2. \A x \in Workers : HasRef(x) => wk[x].job \in Jobs
  BY PromiseFacts, SlotFacts DEF HasRef, Busy
<1> QED BY <1>1, <1>2, SlotMoved DEF Moved, NoMove

LEMMA TakeMoves ==
    ASSUME PInv, HandlesOK', OneDevice, NEW w \in Workers,
           SkipTask(w) \/ runBackgroundAdvance(w) \/ runFullPipeline(w)
    PROVE  Moved
<1>1. TakeTask(w) /\ wk \in [Workers -> SlotRecord]
  BY PromiseFacts DEF SkipTask, runBackgroundAdvance, runFullPipeline, Types
<1>2. /\ \A q \in Queues : \A i \in DOMAIN queued'[q] : Arrives(q, i)
      /\ Head(Waiting(w)).job \in Jobs /\ Started(Head(Waiting(w)).job)
  BY <1>1, TasksTaken
<1>3. UNCHANGED <<obj, stored, printIdem, req, bucket>> /\ loose \subseteq loose'
  BY DEF SkipTask, runBackgroundAdvance, runFullPipeline, history
<1>4. /\ \A x \in Workers : x # w => wk'[x] = wk[x]
      /\ SlotStarted(w)' /\ SlotCopy(w)'
  <2>1. CASE SkipTask(w)
    <3>1. wk' = wk /\ wk[w].pc = "idle"
      BY <1>1, <2>1 DEF SkipTask, TakeTask
    <3> QED BY <3>1 DEF SlotStarted, SlotCopy, Copied, Locked, InStages, Busy
  <2>2. CASE runBackgroundAdvance(w) \/ runFullPipeline(w)
    <3>1. /\ wk'[w].pc \in {"get", "lock"}
          /\ wk'[w].job = Head(Waiting(w)).job
          /\ \A x \in Workers : x # w => wk'[x] = wk[x]
      <4>1. CASE runBackgroundAdvance(w)
        BY <1>1, <4>1 DEF runBackgroundAdvance, NoTask
      <4>2. CASE runFullPipeline(w)
        BY <1>1, <4>2 DEF runFullPipeline, NoTask
      <4> QED BY <2>2, <4>1, <4>2
    <3> QED BY <1>2, <1>3, <3>1 DEF SlotStarted, SlotCopy, Copied, Locked, InStages, Started
  <2> QED BY <2>1, <2>2
<1> QED BY <1>2, <1>3, <1>4, SlotKeeps

(* A slot that goes on with its job                                        *)
LEMMA SlotStays ==
    ASSUME PInv, NEW w \in Workers, Busy(w), obj'[wk[w].job].state = obj[wk[w].job].state,
           wk'[w].job = wk[w].job
    PROVE  SlotStarted(w)'
BY PromiseFacts DEF SlotStarted, Started

LEMMA LockMoves ==
    ASSUME PInv, HandlesOK', OneDevice, NEW w \in Workers,
           acquireJobAdvanceLock(w) \/ releaseJobAdvanceLock(w) \/ ExitAdvance(w)
    PROVE  Moved
<1>1. wk \in [Workers -> SlotRecord] /\ Busy(w)
  BY PromiseFacts DEF Types, Busy, acquireJobAdvanceLock, releaseJobAdvanceLock, ExitAdvance
<1>2. UNCHANGED <<obj, stored, printIdem, req, queued, bucket, loose>>
  BY DEF acquireJobAdvanceLock, releaseJobAdvanceLock, ExitAdvance, history
<1>3. /\ \A x \in Workers : x # w => wk'[x] = wk[x]
      /\ wk'[w].pc \in {"get", "exit", "idle"}
      /\ wk'[w].pc = "idle" \/ wk'[w].job = wk[w].job
  BY <1>1 DEF acquireJobAdvanceLock, releaseJobAdvanceLock, ExitAdvance, NoTask, SlotRecord
<1>4. SlotCopy(w)'
  BY <1>3 DEF SlotCopy, Copied, Locked, InStages
<1>5. SlotStarted(w)'
  BY <1>1, <1>2, <1>3, PromiseFacts DEF SlotStarted, Busy, Started
<1> QED BY <1>2, <1>3, <1>4, <1>5, TasksSame, SlotKeeps

LEMMA LoadJobMoves ==
    ASSUME PInv, HandlesOK', OneDevice, NEW w \in Workers, LoadJob(w)
    PROVE  Moved
<1> DEFINE j == wk[w].job
           h == LoadHeap(j, w)
<1>1. /\ wk \in [Workers -> SlotRecord] /\ Busy(w) /\ j \in Jobs /\ Exists(j)
      /\ w \in Objs /\ j \in Objs /\ stored[j] = j /\ obj \in [Objs -> JobRecord]
  BY PromiseFacts, SlotFacts, Copies DEF Types, Busy, LoadJob, Objs, OneDevice, Exists
<1>2. h \in [Objs -> JobRecord] /\ h[w] = obj[j] /\ \A o \in Objs : o # w => h[o] = obj[o]
  BY <1>1 DEF LoadHeap, OneDevice
<1>3. /\ UNCHANGED <<stored, printIdem, req, queued, bucket, loose>> /\ obj' = Sweep(h)
      /\ wk'[w].pc = "advance" /\ wk'[w].job = j
      /\ \A x \in Workers : x # w => wk'[x] = wk[x]
  BY <1>1 DEF LoadJob, SlotRecord, history
<1> HIDE DEF h, j
<1>4. obj'[w] = obj[j] /\ obj'[j] = obj[j]
  <2>1. stored'[j] # None /\ HasRef(w)'
    BY <1>1, <1>3 DEF Exists, HasRef
  <2>2. /\ \A k \in Jobs : stored'[k] # None => obj'[k] = h[k]
        /\ obj'[w] = h[w]
    BY <1>2, <1>3, <2>1, RedisSwept DEF OneDevice, Exists
  <2> QED BY <1>1, <1>2, <2>1, <2>2, AddressFacts
<1>5. SlotCopy(w)'
  <2>1. obj[j].state \in Kept \ {"created"}
    BY <1>1, PromiseFacts DEF Proper, SlotStarted, Started, j
  <2> QED BY <1>3, <1>4, <2>1 DEF SlotCopy, Copied, Locked, Follows, InStages, Ended, Ready
<1>6. SlotStarted(w)'
  BY <1>1, <1>3, <1>4, SlotStays DEF j
<1> QED BY <1>2, <1>3, <1>5, <1>6, TasksSame, SlotReads


LEMMA StagesMoves ==
    ASSUME PInv, HandlesOK', OneDevice, NEW w \in Workers,
           BeginStages(w) \/ NothingToAdvance(w)
    PROVE  Moved
<1> DEFINE j == wk[w].job
<1>1. /\ wk \in [Workers -> SlotRecord] /\ Busy(w) /\ wk[w].pc = "advance" /\ j \in Jobs
      /\ stored[j] = j /\ wk[w].ref = w /\ SlotCopy(w)
      /\ obj \in [Objs -> JobRecord] /\ w \in Objs
  <2>1. wk[w].pc = "advance" /\ Busy(w) /\ HasRef(w)
    BY DEF BeginStages, NothingToAdvance, Busy, HasRef
  <2>2. j \in Jobs /\ Exists(j) /\ wk[w].ref = w
    BY <2>1, PromiseFacts, SlotFacts, Copies DEF OneDevice, Exists
  <2> QED BY <2>1, <2>2, PromiseFacts, Copies DEF Types, OneDevice
<1>2. UNCHANGED <<stored, printIdem, req, queued, bucket, loose>>
  BY DEF BeginStages, NothingToAdvance, history
<1> HIDE DEF j
<1>3. CASE BeginStages(w)
  <2>1. /\ obj' = obj /\ obj[w].state \in Stages
        /\ \A x \in Workers : x # w => wk'[x] = wk[x]
        /\ wk'[w].pc = StageCall(obj[w].state) /\ wk'[w].job = j
    BY <1>1, <1>3 DEF BeginStages, SlotRecord, j
  <2>2. wk'[w].pc \in {"asr", "mod"}
    <3>1. obj[w].state \in Kept
      BY <1>1 DEF SlotCopy, Copied
    <3> QED BY <2>1, <3>1, StateFacts DEF StageCall, Kept
  <2>3. j \notin loose => obj[j].state \in Stages
    BY <1>1, <2>1, StateFacts DEF SlotCopy, Locked, Follows, j
  <2>4. SlotCopy(w)'
    BY <1>2, <2>1, <2>2, <2>3 DEF SlotCopy, Copied, Locked
  <2>5. SlotStarted(w)'
    BY <1>1, <2>1, SlotStays DEF j
  <2> QED BY <1>2, <2>1, <2>4, <2>5, TasksSame, SlotKeeps
<1>4. CASE NothingToAdvance(w)
  <2>1. /\ obj' = Sweep(obj) /\ obj[w].state \notin Stages
        /\ \A x \in Workers : x # w => wk'[x] = wk[x]
        /\ \/ wk'[w] = NoTask
           \/ wk'[w].pc = "write" /\ wk'[w].job = j
    BY <1>1, <1>4 DEF NothingToAdvance, SlotRecord, j
  <2>2. obj[w].state \in Ended
    BY <1>1, <2>1, StateFacts DEF SlotCopy, Copied, Kept, Ended, Ready
  <2>3. CASE wk'[w] = NoTask
    <3>1. SlotCopy(w)' /\ SlotStarted(w)'
      BY <2>3 DEF SlotCopy, Copied, Locked, InStages, SlotStarted, Busy, NoTask
    <3> QED BY <1>1, <1>2, <2>1, <3>1, TasksSame, SlotReads
  <2>4. CASE wk'[w].pc = "write" /\ wk'[w].job = j
    <3>1. obj'[w] = obj[w] /\ obj'[j] = obj[j]
      <4>1. stored'[j] # None /\ HasRef(w)'
        BY <1>1, <1>2, <2>4, AddressFacts DEF HasRef
      <4> QED BY <1>1, <2>1, <4>1, RedisSwept DEF OneDevice, Exists
    <3>2. SlotCopy(w)'
      BY <1>1, <1>2, <2>2, <2>4, <3>1 DEF SlotCopy, Copied, Locked, InStages, j
    <3>3. SlotStarted(w)'
      BY <1>1, <2>4, <3>1, SlotStays DEF j
    <3> QED BY <1>1, <1>2, <2>1, <3>2, <3>3, TasksSame, SlotReads
  <2> QED BY <2>1, <2>3, <2>4
<1> QED BY <1>3, <1>4


LEMMA AnswerMoves ==
    ASSUME PInv, HandlesOK', OneDevice, NEW w \in Workers, VendorAnswers(w)
    PROVE  Moved
<1>0. PICK j \in Jobs : j = wk[w].job
  <2>1. Busy(w)
    BY DEF VendorAnswers, resolveTranscript, moderateTranscript, runImageGeneration,
       UploadPreview, finalizePreview, markFailed, Stage, Busy
  <2> QED BY <2>1, PromiseFacts, SlotFacts
<1>1. PICK rec \in JobRecord, next \in {"mod", "img", "fin", "sign", "write"},
           in \in Texts \cup {None} :
        StageTo(w, rec, next, in) /\ StageGood(w, rec, next, in)
  BY PromiseFacts, AnswerStages
<1>2. /\ wk \in [Workers -> SlotRecord] /\ Busy(w) /\ InStages(w) /\ j \in Jobs
      /\ wk[w].ref = w /\ obj \in [Objs -> JobRecord] /\ w \in Objs /\ j # w /\ j \in Objs
      /\ Exists(j) /\ stored[j] = j /\ SlotCopy(w)
  <2>1. InStages(w) /\ Busy(w) /\ HasRef(w)
    BY <1>1 DEF StageTo, InStages, Busy, HasRef
  <2>2. j \in Jobs /\ wk[w].ref = w /\ Exists(j)
    BY <1>0, <2>1, PromiseFacts, SlotFacts, Copies DEF OneDevice, Exists
  <2> QED BY <2>1, <2>2, PromiseFacts, AddressFacts, Copies DEF Types, Objs, OneDevice
<1>3. /\ obj' = [obj EXCEPT ![w] = rec] /\ UNCHANGED <<stored, printIdem, req, queued, loose>>
      /\ wk'[w].pc = next /\ wk'[w].job = j /\ wk'[w].in = in
      /\ \A x \in Workers : x # w => wk'[x] = wk[x]
  <2>1. UNCHANGED loose
    BY DEF VendorAnswers, resolveTranscript, moderateTranscript, runImageGeneration,
       UploadPreview, finalizePreview, markFailed, Stage, history
  <2> QED BY <1>0, <1>1, <1>2, <2>1 DEF StageTo, SlotRecord
<1>4. /\ next = "fin" => in # None
      /\ next = "write" => rec.state \in {"preview_ready", "failed"}
  <2>1. obj[w] \in JobRecord
    BY <1>2
  <2>2. next = "write" => \/ \E p : rec = [obj[w] EXCEPT !.preview = p, !.state = "preview_ready"]
                          \/ rec = [obj[w] EXCEPT !.state = "failed"]
    BY <1>1, <1>2 DEF StageGood
  <2>3. next = "fin" => in \in Safe
    BY <1>1, <1>2 DEF StageGood, PInv, IInv, Carried, Carries
  <2>4. None \notin Safe
    BY SafeAssumption, NoneAssumption
  <2> QED BY <2>1, <2>2, <2>3, <2>4 DEF JobRecord
<1>5. \/ UNCHANGED bucket
      \/ \A k \in Jobs : k # j => bucket'[k] = bucket[k]
  BY <1>0, <1>1, <1>2, PromiseFacts DEF StageGood, PInv, IInv, GoodRecords
<1>6. obj'[w] = rec /\ \A o \in Objs : o # w => obj'[o] = obj[o]
  BY <1>2, <1>3
<1>7. SlotCopy(w)'
  <2>1. j \notin loose => obj[j].state \in Stages
    BY <1>0, <1>2 DEF SlotCopy, Locked
  <2>2. rec.state = "print_acknowledged" => next # "write"
    BY <1>4
  <2>3. obj'[j] = obj[j]
    BY <1>2, <1>6
  <2>4. Copied(w)'
    BY <1>3, <1>4, <1>6, <2>2 DEF Copied, Ended, Ready
  <2>5. Locked(w)'
    BY <1>3, <1>6, <2>1, <2>2, <2>3 DEF Locked, InStages
  <2> QED BY <2>4, <2>5 DEF SlotCopy
<1>8. SlotStarted(w)'
  BY <1>0, <1>2, <1>3, <1>6, SlotStays
<1>9. \A k \in Jobs : k # j => Same(k)
  BY <1>3, <1>5, <1>6, AddressFacts DEF Same, SamePreview, Objs
<1>10. Same(j) \/ Repeats(j)
  <2>1. obj'[j] = obj[j] /\ stored'[j] = stored[j] /\ Exists(j)'
    BY <1>2, <1>3, <1>6 DEF Exists
  <2>2. CASE obj[j].preview # Link
    BY <2>1, <2>2 DEF Same, SamePreview
  <2>3. CASE obj[j].preview = Link
    <3>1. obj[j].state \in Ready
      BY <1>2, <2>3, PromiseFacts, LinkAssumption DEF Bare
    <3>2. j \in loose
      BY <1>0, <1>2, <3>1, StateFacts DEF SlotCopy, Locked, Ready
    <3> QED BY <1>2, <2>1, <3>1, <3>2 DEF Repeats, Ended
  <2> QED BY <2>2, <2>3
<1>11. \A x \in Workers : x # w /\ HasRef(x) =>
         obj'[x] = obj[x] /\ (Same(wk[x].job) \/ AnsweredLoose(wk[x].job))
  <2>1. \A x \in Workers : HasRef(x) => wk[x].job \in Jobs
    BY PromiseFacts, SlotFacts DEF HasRef, Busy
  <2>2. Same(j) \/ AnsweredLoose(j)
    BY <1>10 DEF AnsweredLoose, Repeats
  <2>3. \A x \in Workers : x \in Objs
    BY DEF Objs
  <2> QED BY <1>6, <1>9, <2>1, <2>2, <2>3
<1>12. \A r \in Requests : obj'[r] = obj[r]
  BY <1>6, AddressFacts DEF Objs
<1>13. CopiesOK'
  BY <1>3, <1>7, <1>8, <1>9, <1>10, <1>11, <1>12, TasksSame, SlotMoved
<1> QED BY <1>2, <1>9, <1>10, <1>13 DEF Moved, OneMove, JobMove

LEMMA WriteMoves ==
    ASSUME PInv, HandlesOK', OneDevice, NEW w \in Workers, WriteJob(w)
    PROVE  Moved
<1>0. PICK j \in Jobs : j = wk[w].job
  BY PromiseFacts, SlotFacts DEF WriteJob, Busy
<1>1. /\ wk \in [Workers -> SlotRecord] /\ Busy(w) /\ wk[w].pc = "write" /\ j \in Jobs
      /\ stored[j] = j /\ wk[w].ref = w
      /\ obj \in [Objs -> JobRecord] /\ w \in Objs /\ j \in Objs /\ Exists(j)
      /\ SlotCopy(w) /\ SlotStarted(w)
  <2>1. wk[w].pc = "write" /\ Busy(w) /\ HasRef(w)
    BY DEF WriteJob, Busy, HasRef
  <2>2. j \in Jobs /\ Exists(j) /\ wk[w].ref = w
    BY <1>0, <2>1, PromiseFacts, SlotFacts, Copies DEF OneDevice, Exists
  <2> QED BY <2>1, <2>2, PromiseFacts, Copies DEF Types, OneDevice
<1>2. /\ setJob(j, obj, obj[w]) /\ UNCHANGED <<printIdem, req, queued, bucket, loose>>
      /\ wk'[w] = NoTask \/ (wk'[w].pc = "release" /\ wk'[w].job = j)
      /\ \A x \in Workers : x # w => wk'[x] = wk[x]
  BY <1>0, <1>1 DEF WriteJob, OneDevice, SlotRecord, history
<1>3. /\ obj[w].state \in Ended
      /\ obj[j].state \in Stages \cup Ended
      /\ obj[w].state = "print_acknowledged" => obj[j].state \in Ended
      /\ j \notin loose => Follows(obj[w], obj[j]) \/ obj[j].state \in Stages
  <2>1. obj[j].state \in Kept /\ obj[j].state # "created"
    BY <1>0, <1>1, PromiseFacts DEF Proper, SlotStarted, Started
  <2> QED BY <1>0, <1>1, <2>1 DEF SlotCopy, Copied, Locked, Kept, States, Ended
<1>4. ASSUME NEW x \in Workers, x # w, HasRef(x), j \notin loose
      PROVE  wk[x].job \in Jobs /\ wk[x].job # j
  <2>1. wk[x].job \in Jobs /\ Busy(x) /\ wk[x] \in SlotRecord /\ wk[w] \in SlotRecord
    BY <1>1, <1>4, PromiseFacts, SlotFacts DEF HasRef, Busy
  <2>2. wk[x].job = j => Holding(x, j) /\ Holding(w, j)
    BY <1>0, <1>1, <1>4, <2>1 DEF Holding, HasRef, SlotRecord, PInv, HoldsLock
  <2>3. wk[x].job = j => HasLock(x, j) /\ HasLock(w, j)
    BY <2>2 DEF PInv, HoldsLock, OneDevice
  <2> QED BY <1>4, <2>1, <2>3 DEF HasLock
<1>5. /\ obj'[j] = obj[w] /\ stored'[j] = j
      /\ \A k \in Jobs : k # j => Same(k)
      /\ \A r \in Requests : req'[r].pc \in {"act", "stage", "save"} => obj'[r] = obj[r]
      /\ \A x \in Workers : HasRef(x)' => obj'[x] = obj[x]
  <2>1. /\ obj'[j] = obj[w] /\ Exists(j)'
        /\ \A k \in Jobs : k # j => Same(k)
        /\ \A r \in Requests : req'[r].pc \in {"act", "stage", "save"} => obj'[r] = obj[r]
        /\ \A x \in Workers : HasRef(x)' => obj'[x] = obj[x]
    BY <1>1, <1>2, PromiseFacts, RedisSet DEF OneDevice, Same, SamePreview
  <2> QED BY <2>1 DEF HandlesOK, Private, OneDevice, Exists
<1>6. Same(j) \/ Resolves(j) \/ Acks(j) \/ Repeats(j)
  <2>1. stored[j] # None /\ stored'[j] # None
    BY <1>1, <1>5, AddressFacts DEF Exists
  <2>2. CASE obj[j].state \in Stages
    <3>1. obj[w].state \in {"preview_ready", "failed"}
      BY <1>3, <2>2, StateFacts DEF Ended, Ready
    <3> QED BY <1>5, <2>1, <2>2, <3>1 DEF Resolves, Exists
  <2>3. CASE j \notin loose /\ Follows(obj[w], obj[j])
    BY <1>1, <1>2, <1>5, <2>1, <2>3 DEF Follows, Same, SamePreview, Acks, Exists, Ready
  <2>4. CASE j \in loose /\ obj[j].state \in Ended
    BY <1>3, <1>5, <2>1, <2>4 DEF Repeats, Exists
  <2> QED BY <1>3, <2>2, <2>3, <2>4
<1>7. \A k \in Jobs : Same(k) \/ Resolves(k) \/ Acks(k) \/ Repeats(k)
  BY <1>5, <1>6
<1>8. SlotCopy(w)'
  BY <1>2 DEF SlotCopy, Copied, Locked, InStages, NoTask
<1>9. SlotStarted(w)'
  <2>1. obj'[j].state # "created"
    BY <1>3, <1>5 DEF Ended, Ready
  <2> QED BY <1>1, <1>2, <2>1 DEF SlotStarted, Started, Busy, NoTask
<1>10. \A x \in Workers : x # w =>
         /\ wk'[x] = wk[x]
         /\ HasRef(x) => obj'[x] = obj[x] /\ (Same(wk[x].job) \/ AnsweredLoose(wk[x].job))
  <2> SUFFICES ASSUME NEW x \in Workers, x # w
               PROVE  /\ wk'[x] = wk[x]
                      /\ HasRef(x) => /\ obj'[x] = obj[x]
                                      /\ Same(wk[x].job) \/ AnsweredLoose(wk[x].job)
    OBVIOUS
  <2>1. wk'[x] = wk[x] /\ (HasRef(x) => obj'[x] = obj[x])
    BY <1>2, <1>5 DEF HasRef
  <2>2. HasRef(x) => wk[x].job \in Jobs
    BY PromiseFacts, SlotFacts DEF HasRef, Busy
  <2> QED BY <1>4, <1>5, <1>6, <2>1, <2>2 DEF AnsweredLoose
<1>11. CopiesOK'
  <2>1. \A r \in Requests : req'[r] = req[r]
    BY <1>2
  <2>2. \A r \in Requests : HasCopy(r) => obj'[r] = obj[r]
    BY <1>2, <1>5 DEF HasCopy
  <2> QED BY <1>2, <1>7, <1>8, <1>9, <1>10, <2>1, <2>2, TasksSame, SlotMoved
<1>12. OneMove
  BY <1>1, <1>5, <1>6 DEF OneMove, JobMove
<1> QED BY <1>11, <1>12 DEF Moved

-----------------------------------------------------------------------------
(* Crashes, and every step                                                 *)

LEMMA CrashMoves ==
    ASSUME PInv, HandlesOK', OneDevice, NEW p \in Replicas, Crash(p)
    PROVE  Moved
<1>1. /\ UNCHANGED <<stored, printIdem, bucket, loose>> /\ obj' = Sweep(obj)
      /\ \A w \in Workers : wk'[w] = wk[w] \/ wk'[w] = NoTask
      /\ \A r \in Requests : req'[r] = req[r] \/ req'[r] = NoReq
      /\ \A q \in Queues : queued'[q] = <<>> \/ queued'[q] = queued[q]
  BY DEF Crash, OneDevice
<1>2. /\ \A j \in Jobs : Exists(j)' => obj'[j] = obj[j]
      /\ \A r \in Requests : req'[r].pc \in {"act", "stage", "save"} => obj'[r] = obj[r]
      /\ \A w \in Workers : HasRef(w)' => obj'[w] = obj[w]
  BY <1>1, PromiseFacts, RedisSwept DEF OneDevice
<1>3. \A j \in Jobs : Same(j)
  BY <1>1, <1>2 DEF Same, SamePreview, Exists
<1>4. /\ Proper'
      /\ \A j \in Jobs : Exists(j) =>
           /\ Exists(j)'
           /\ Started(j) => Started(j)'
           /\ j \notin loose /\ obj[j].state \in Ready => obj'[j].state \in Ready
  BY <1>3, PromiseFacts, JobsLater DEF JobMove
<1>5. \A q \in Queues : \A i \in DOMAIN queued'[q] : Arrives(q, i)
  BY <1>1 DEF Arrives
<1>6. TasksStarted' /\ AckedReady'
  BY <1>1, <1>4, <1>5, PromiseFacts, TasksKept, AckedKept
<1>7. ASSUME NEW w \in Workers PROVE SlotStarted(w)' /\ SlotCopy(w)'
  <2>1. SlotStarted(w)'
    BY <1>1, <1>4, PromiseFacts, SlotStartedKept
  <2>2. HasRef(w) => Same(wk[w].job)
    BY <1>3, PromiseFacts, SlotFacts DEF HasRef, Busy
  <2>3. HasRef(w) /\ wk'[w] = wk[w] => obj'[w] = obj[w]
    BY <1>2 DEF HasRef
  <2> QED BY <1>1, <2>1, <2>2, <2>3, PromiseFacts, SlotKept
<1>8. ASSUME NEW r \in Requests PROVE RequestCopy(r)'
  <2>1. CASE req[r].pc = "idle"
    BY <1>1, <2>1 DEF RequestCopy, NoReq
  <2>2. CASE req[r].pc # "idle"
    <3>1. Same(req[r].job)
      BY <1>3, <2>2, PromiseFacts DEF RequestKnown
    <3>2. HasCopy(r) /\ req'[r] = req[r] => obj'[r] = obj[r]
      BY <1>2 DEF HasCopy
    <3> QED BY <1>1, <3>1, <3>2, PromiseFacts, RequestKept
  <2> QED BY <2>1, <2>2
<1> QED BY <1>3, <1>4, <1>6, <1>7, <1>8 DEF Moved, NoMove, CopiesOK

LEMMA PromiseStep ==
    ASSUME OneDevice, PInv, [Next]_vars
    PROVE  Moved
<1>0. HandlesOK' /\ loose \subseteq loose'
  BY PromiseFacts, HandlesStep, MarksStep DEF PInv, HoldsLock
<1>1. CASE Client
  <2> SUFFICES ASSUME NEW rep \in Replicas, NEW j \in Jobs,
                 \/ createJob(j)
                 \/ \E r \in Requests, t \in Texts : createJobFromTranscript(r, j, t, rep)
                 \/ advanceJob(j, rep)
                 \/ \E r \in Requests, k \in Keys : BeginAck(r, j, k, rep)
                 \/ \E r \in Requests, op \in {"audio", "chunk", "text"}, t \in Texts :
                      BeginUpload(r, op, j, t, rep)
               PROVE Moved
    BY <1>1 DEF Client
  <2> QED BY <1>0, CreateJobMoves, AdvanceMoves, BeginAckMoves, BeginUploadMoves
<1>2. ASSUME NEW r \in Requests, HandleUpload(r) \/ Upload(r) \/ HandleAck(r)
      PROVE Moved
  BY <1>0, <1>2, RefuseMoves, StageAudioMoves, UploadMoves, LoadAckMoves, printAckMoves
     DEF HandleUpload, Upload, HandleAck
<1>3. ASSUME NEW w \in Workers, WorkerRuns(w) PROVE Moved
  BY <1>0, <1>3, TakeMoves, LockMoves, LoadJobMoves, StagesMoves, WriteMoves DEF WorkerRuns
<1>4. ASSUME NEW w \in Workers, Answer(w) PROVE Moved
  BY <1>0, <1>4, AnswerMoves DEF Answer
<1>5. CASE (\E j \in Jobs : LockLapse(j)) \/ UNCHANGED vars
  <2>1. UNCHANGED <<obj, stored, printIdem, queued, req, wk, bucket>>
    BY <1>5 DEF LockLapse, vars
  <2>2. \A r \in Requests : RequestCopy(r)'
    BY <1>0, <2>1, PromiseFacts DEF RequestCopy, CopyReady, Started
  <2> QED BY <1>0, <2>1, <2>2, TasksSame, HandlerKeeps
<1>6. ~flushPersistenceSync
  BY DEF flushPersistenceSync, OneDevice
<1> QED BY <1>0, <1>1, <1>2, <1>3, <1>4, <1>5, <1>6, CrashMoves DEF Next, Request

-----------------------------------------------------------------------------
(* Previews: none before a record is ready, and no link without a picture  *)

BareRecord(rec) == rec.state \notin Ready => rec.preview = None
LinkIn(h, j, o) == h[o].preview = Link => bucket[j] # None
Fit == Bare /\ Links

(* holders that have their copy from before the step                       *)
RequestOn(r) == HasCopy(r)' => HasCopy(r) /\ req'[r].job = req[r].job
SlotOn(w) ==
    /\ HasRef(w)' => HasRef(w) /\ wk'[w].job = wk[w].job
    /\ wk'[w].pc = "sign" => wk[w].pc = "sign" /\ wk'[w].job = wk[w].job

LEMMA FitSwept ==
    ASSUME HandlesOK', ~SharedRecords, UNCHANGED bucket,
           NEW h \in [Objs -> JobRecord], obj' = Sweep(h),
           \A o \in Objs : BareRecord(h[o]),
           \A j \in Jobs : Exists(j)' => LinkIn(h, j, j),
           \A r \in Requests : HasCopy(r)' => LinkIn(h, req'[r].job, r),
           \A w \in Workers : /\ HasRef(w)' => LinkIn(h, wk'[w].job, w)
                              /\ wk'[w].pc = "sign" => bucket[wk'[w].job] # None
    PROVE  Fit'
<1>1. /\ \A j \in Jobs : Exists(j)' => obj'[j] = h[j]
      /\ \A r \in Requests : req'[r].pc \in {"act", "stage", "save"} => obj'[r] = h[r]
      /\ \A w \in Workers : HasRef(w)' => obj'[w] = h[w]
  BY RedisSwept
<1>2. Links'
  BY <1>1 DEF Links, Linked, LinkIn, HasCopy
<1>3. BareRecord(Free)
  BY DEF BareRecord, Free, NewRecord
<1>4. Bare'
  BY <1>3, Swept DEF Bare, BareRecord
<1> QED BY <1>2, <1>4 DEF Fit

LEMMA FitFacts ==
    ASSUME PInv
    PROVE  /\ \A o \in Objs : BareRecord(obj[o])
           /\ \A j \in Jobs : Exists(j) => LinkIn(obj, j, j)
           /\ \A r \in Requests : RequestOn(r) /\ HasCopy(r)' => LinkIn(obj, req'[r].job, r)
           /\ \A w \in Workers : SlotOn(w) =>
                /\ HasRef(w)' => LinkIn(obj, wk'[w].job, w)
                /\ wk'[w].pc = "sign" => bucket[wk'[w].job] # None
BY DEF PInv, Bare, BareRecord, Links, Linked, LinkIn, RequestOn, SlotOn

LEMMA FitStays ==
    ASSUME PInv, HandlesOK', OneDevice, UNCHANGED <<stored, bucket>>,
           obj' = obj \/ obj' = Sweep(obj),
           \A r \in Requests : RequestOn(r), \A w \in Workers : SlotOn(w)
    PROVE  Fit'
<1>1. CASE obj' = obj
  BY <1>1 DEF PInv, Fit, Bare, Links, Linked, Exists, RequestOn, SlotOn
<1>2. CASE obj' = Sweep(obj)
  <2>1. obj \in [Objs -> JobRecord]
    BY PromiseFacts
  <2>2. \A j \in Jobs : Exists(j)' => LinkIn(obj, j, j)
    BY FitFacts DEF Exists
  <2> QED BY <1>2, <2>1, <2>2, FitFacts, FitSwept DEF OneDevice
<1> QED BY <1>1, <1>2

LEMMA FitLoads ==
    ASSUME PInv, HandlesOK', OneDevice, UNCHANGED <<stored, bucket>>,
           NEW x \in Requests \cup Workers, NEW j \in Jobs, Exists(j),
           obj' = Sweep(LoadHeap(j, x)),
           \A r \in Requests : IF r = x THEN req'[r].job = j ELSE RequestOn(r),
           \A w \in Workers :
             IF w = x THEN wk'[w].job = j /\ wk'[w].pc # "sign" ELSE SlotOn(w)
    PROVE  Fit'
<1> DEFINE h == LoadHeap(j, x)
<1>1. stored[j] = j /\ j \in Objs /\ x \in Objs /\ x \notin Jobs
  BY PromiseFacts, StoreIsOwn, AddressFacts DEF OneDevice, Objs
<1>2. h \in [Objs -> JobRecord] /\ h[x] = obj[j] /\ \A o \in Objs : o # x => h[o] = obj[o]
  BY <1>1, PromiseFacts DEF LoadHeap, OneDevice
<1> HIDE DEF h
<1>3. LinkIn(obj, j, j) /\ \A o \in Objs : BareRecord(h[o])
  BY <1>1, <1>2, FitFacts
<1>4. \A k \in Jobs : Exists(k)' => LinkIn(h, k, k)
  BY <1>1, <1>2, FitFacts DEF LinkIn, Exists, Objs
<1>5. \A r \in Requests : HasCopy(r)' => LinkIn(h, req'[r].job, r)
  BY <1>2, <1>3, FitFacts DEF LinkIn, Objs
<1>6. \A w \in Workers : /\ HasRef(w)' => LinkIn(h, wk'[w].job, w)
                         /\ wk'[w].pc = "sign" => bucket[wk'[w].job] # None
  BY <1>2, <1>3, FitFacts DEF LinkIn, Objs
<1> QED BY <1>2, <1>3, <1>4, <1>5, <1>6, FitSwept DEF OneDevice, h

LEMMA FitStores ==
    ASSUME PInv, HandlesOK', OneDevice, UNCHANGED bucket,
           NEW j \in Jobs, NEW rec \in JobRecord, NEW h \in [Objs -> JobRecord],
           setJob(j, h, rec), BareRecord(rec), rec.preview = Link => bucket[j] # None,
           \A o \in Objs : h[o] = obj[o] \/ (o \in Requests /\ h[o] = rec /\ ~HasCopy(o)'),
           \A r \in Requests : RequestOn(r), \A w \in Workers : SlotOn(w)
    PROVE  Fit'
<1> DEFINE g == [h EXCEPT ![j] = rec]
<1>1. g \in [Objs -> JobRecord] /\ g[j] = rec /\ \A o \in Objs : o # j => g[o] = h[o]
  BY DEF Objs
<1>2. obj' = Sweep(g) /\ \A k \in Jobs : k # j => stored'[k] = stored[k]
  BY PromiseFacts DEF setJob, OneDevice, Types
<1> HIDE DEF g
<1>3. \A o \in Objs : BareRecord(g[o])
  BY <1>1, FitFacts
<1>4. \A k \in Jobs : Exists(k)' => LinkIn(g, k, k)
  BY <1>1, <1>2, FitFacts, AddressFacts DEF LinkIn, Exists, Objs
<1>5. \A r \in Requests : HasCopy(r)' => LinkIn(g, req'[r].job, r)
  BY <1>1, FitFacts, AddressFacts DEF LinkIn, Objs
<1>6. \A w \in Workers : /\ HasRef(w)' => LinkIn(g, wk'[w].job, w)
                         /\ wk'[w].pc = "sign" => bucket[wk'[w].job] # None
  BY <1>1, FitFacts, AddressFacts DEF LinkIn, Objs
<1> QED BY <1>1, <1>2, <1>3, <1>4, <1>5, <1>6, FitSwept DEF OneDevice

(* Handlers                                                                *)
LEMMA FitCreates ==
    ASSUME PInv, HandlesOK', OneDevice, NEW j \in Jobs,
           createJob(j) \/ \E r \in Requests, t \in Texts, rep \in Replicas :
                             createJobFromTranscript(r, j, t, rep)
    PROVE  Fit'
<1>1. PICK s \in {"created", "asr_complete"}, t \in Texts \cup {None} :
        create(j, NewRecord(s, t))
  BY DEF createJob, createJobFromTranscript
<1>2. \A r \in Requests : RequestOn(r)
  BY PromiseFacts DEF createJob, createJobFromTranscript, RequestOn, HasCopy, Types
<1>3. setJob(j, obj, NewRecord(s, t)) /\ UNCHANGED <<wk, bucket>>
  BY <1>1 DEF create
<1>4. NewRecord(s, t) \in JobRecord /\ NewRecord(s, t).preview = None
  BY StateFacts DEF NewRecord, JobRecord
<1>5. \A w \in Workers : SlotOn(w)
  BY <1>3 DEF SlotOn, HasRef
<1> QED BY <1>2, <1>3, <1>4, <1>5, PromiseFacts, LinkAssumption, FitStores DEF BareRecord

LEMMA FitHandlers ==
    ASSUME PInv, HandlesOK', OneDevice, NEW r \in Requests,
           HandleUpload(r) \/ Upload(r) \/ HandleAck(r)
    PROVE  Fit'
<1>1. /\ req \in [Requests -> ReqRecord] /\ obj \in [Objs -> JobRecord] /\ r \in Objs
      /\ \A s \in Requests : s = r
      /\ req[r].pc # "idle" => req[r].job \in Jobs /\ Exists(req[r].job)
      /\ HasCopy(r) => req[r].ref = r
  BY PromiseFacts, Copies DEF OneDevice, Types, RequestKnown, HasCopy, Objs
<1>2. UNCHANGED <<wk, bucket>> /\ \A w \in Workers : SlotOn(w)
  BY DEF HandleUpload, Upload, HandleAck, RefuseUpload, StageAudio, uploadChunk, attachText,
     EnqueueTask, attachAudio, LoadAck, RefuseAck, printAck, SaveAck, SlotOn, HasRef
<1>3. CASE RefuseUpload(r) \/ StageAudio(r) \/ EnqueueTask(r) \/ RefuseAck(r)
  <2>1. UNCHANGED stored /\ (obj' = obj \/ obj' = Sweep(obj)) /\ RequestOn(r)
    BY <1>1, <1>3 DEF RefuseUpload, StageAudio, EnqueueTask, RefuseAck, RequestOn, HasCopy,
       NoReq, ReqRecord
  <2> QED BY <1>1, <1>2, <2>1, FitStays
<1>4. CASE LoadAck(r)
  <2>1. /\ UNCHANGED stored /\ obj' = Sweep(LoadHeap(req[r].job, r))
        /\ req'[r].job = req[r].job /\ req[r].pc # "idle"
    BY <1>1, <1>4 DEF LoadAck, ReqRecord
  <2>2. \A w \in Workers : w # r
    BY AddressFacts
  <2> QED BY <1>1, <1>2, <2>1, <2>2, FitLoads
<1>5. CASE printAck(r)
  <2>1. /\ obj' = [obj EXCEPT ![r].state = "print_acknowledged"] /\ UNCHANGED stored
        /\ HasCopy(r) /\ req'[r].job = req[r].job
    BY <1>1, <1>5 DEF printAck, HasCopy, ReqRecord
  <2>2. /\ \A o \in Objs : obj'[o].preview = obj[o].preview
        /\ \A o \in Objs : obj'[o].state = obj[o].state \/ obj'[o].state = "print_acknowledged"
    BY <1>1, <2>1 DEF JobRecord
  <2>3. Bare'
    BY <2>2 DEF PInv, Bare, Ready
  <2>4. Links'
    <3>1. Jobs \subseteq Objs /\ Requests \subseteq Objs /\ Workers \subseteq Objs
      BY DEF Objs
    <3> QED BY <1>1, <1>2, <2>1, <2>2, <3>1
            DEF PInv, Links, Linked, Exists, HasCopy, HasRef
  <2> QED BY <2>3, <2>4 DEF Fit
<1>6. CASE attachAudio(r) \/ uploadChunk(r) \/ attachText(r) \/ SaveAck(r)
  <2>0. PICK j \in Jobs : j = req[r].job
    BY <1>1, <1>6 DEF attachAudio, AudioReady, uploadChunk, attachText, SaveAck
  <2>1. HasCopy(r) /\ ~HasCopy(r)' /\ Exists(j)
    BY <1>1, <1>6, <2>0 DEF attachAudio, AudioReady, uploadChunk, attachText, SaveAck,
       HasCopy, NoReq, ReqRecord
  <2>2. RequestOn(r) /\ BareRecord(obj[r]) /\ (obj[r].preview = Link => bucket[j] # None)
    BY <1>1, <2>0, <2>1, FitFacts DEF RequestOn, PInv, Links, Linked
  <2>3. CASE uploadChunk(r) \/ SaveAck(r)
    <3>1. setJob(j, obj, obj[r])
      BY <1>1, <2>0, <2>1, <2>3 DEF uploadChunk, SaveAck
    <3>2. obj[r] \in JobRecord
      BY <1>1
    <3> QED BY <1>1, <1>2, <2>2, <3>1, <3>2, FitStores
  <2>4. CASE attachAudio(r) \/ attachText(r)
    <3>1. obj[r].state = "created"
      BY <1>1, <2>1, <2>4, PromiseFacts
         DEF attachAudio, AudioReady, attachText, AcceptsUpload, RequestCopy
    <3>2. obj[r] \in JobRecord /\ obj[r].preview = None
      BY <1>1, <2>2, <3>1, StateFacts DEF BareRecord, Ready
    <3>3. PICK s \in {"audio_received", "asr_complete"}, t \in Texts \cup {None} :
            LET rec == [obj[r] EXCEPT !.state = s, !.transcript = t] IN
            setJob(j, [obj EXCEPT ![r] = rec], rec)
      <4>1. CASE attachAudio(r)
        <5>1. [obj[r] EXCEPT !.state = "audio_received"]
                = [obj[r] EXCEPT !.state = "audio_received", !.transcript = obj[r].transcript]
          BY <3>2 DEF JobRecord
        <5>2. obj[r].transcript \in Texts \cup {None}
          BY <3>2 DEF JobRecord
        <5> QED BY <1>1, <2>0, <2>1, <4>1, <5>1, <5>2 DEF attachAudio
      <4>2. CASE attachText(r)
        <5>1. req[r].arg \in Texts
          BY <4>2, PromiseFacts DEF attachText, RequestKnown
        <5> QED BY <1>1, <2>0, <2>1, <4>2, <5>1 DEF attachText
      <4> QED BY <2>4, <4>1, <4>2
    <3> DEFINE rec == [obj[r] EXCEPT !.state = s, !.transcript = t]
               h == [obj EXCEPT ![r] = rec]
    <3>4. rec \in JobRecord
      BY <1>1, <3>2, Changed, StateFacts, PromiseFacts
    <3>5. rec.preview = None
      BY <3>2 DEF JobRecord
    <3> HIDE DEF rec
    <3>6. h \in [Objs -> JobRecord] /\ h[r] = rec /\ \A o \in Objs : o # r => h[o] = obj[o]
      BY <1>1, <3>4, HeapEdited
    <3>7. setJob(j, h, rec)
      BY <3>3 DEF rec
    <3> HIDE DEF h
    <3> QED BY <1>1, <1>2, <2>1, <2>2, <3>4, <3>5, <3>6, <3>7, FitStores, LinkAssumption
            DEF BareRecord
  <2> QED BY <1>6, <2>3, <2>4
<1> QED BY <1>3, <1>4, <1>5, <1>6 DEF HandleUpload, Upload, HandleAck

(* Slots                                                                   *)
LEMMA FitSlots ==
    ASSUME PInv, HandlesOK', OneDevice, NEW w \in Workers, WorkerRuns(w)
    PROVE  Fit'
<1>1. /\ wk \in [Workers -> SlotRecord] /\ w \in Objs /\ obj \in [Objs -> JobRecord]
      /\ Busy(w) => wk[w].job \in Jobs /\ Exists(wk[w].job)
      /\ HasRef(w) => wk[w].ref = w
  BY PromiseFacts, SlotFacts, Copies DEF OneDevice, Types, Objs, Exists
<1>2. /\ UNCHANGED <<req, bucket>> /\ \A r \in Requests : RequestOn(r)
      /\ \A x \in Workers : x # w => wk'[x] = wk[x]
  BY <1>1 DEF WorkerRuns, SkipTask, runBackgroundAdvance, runFullPipeline,
     acquireJobAdvanceLock, LoadJob, BeginStages, NothingToAdvance, WriteJob,
     releaseJobAdvanceLock, ExitAdvance, RequestOn, HasCopy
<1>3. \A x \in Workers : x # w => SlotOn(x)
  BY <1>2 DEF SlotOn, HasRef
<1>4. CASE LoadJob(w)
  <2>1. /\ UNCHANGED stored /\ obj' = Sweep(LoadHeap(wk[w].job, w)) /\ Busy(w)
        /\ wk'[w].job = wk[w].job /\ wk'[w].pc = "advance"
    BY <1>1, <1>4 DEF LoadJob, SlotRecord, Busy
  <2>2. \A r \in Requests : r # w
    BY AddressFacts
  <2> QED BY <1>1, <1>2, <1>3, <2>1, <2>2, FitLoads
<1>5. CASE WriteJob(w)
  <2>1. /\ setJob(wk[w].job, obj, obj[w]) /\ Busy(w) /\ HasRef(w) /\ SlotOn(w)
    BY <1>1, <1>5 DEF WriteJob, Busy, HasRef, SlotOn, SlotRecord, NoTask
  <2>2. /\ BareRecord(obj[w]) /\ obj[w] \in JobRecord
        /\ obj[w].preview = Link => bucket[wk[w].job] # None
    BY <1>1, <2>1, FitFacts DEF PInv, Links, Linked
  <2> QED BY <1>1, <1>2, <1>3, <2>1, <2>2, FitStores
<1>6. CASE SkipTask(w) \/ runBackgroundAdvance(w) \/ runFullPipeline(w)
  <2>1. UNCHANGED <<obj, stored>> /\ (wk' = wk \/ wk'[w].pc \in {"lock", "get"})
    <3>1. CASE SkipTask(w)
      BY <3>1 DEF SkipTask
    <3>2. CASE runBackgroundAdvance(w)
      BY <1>1, <3>2 DEF runBackgroundAdvance, NoTask
    <3>3. CASE runFullPipeline(w)
      BY <1>1, <3>3 DEF runFullPipeline, NoTask
    <3> QED BY <1>6, <3>1, <3>2, <3>3
  <2>2. SlotOn(w)
    BY <2>1 DEF SlotOn, HasRef
  <2> QED BY <1>2, <1>3, <2>1, <2>2, FitStays
<1>7. CASE acquireJobAdvanceLock(w) \/ releaseJobAdvanceLock(w) \/ ExitAdvance(w)
  <2>1. UNCHANGED <<obj, stored>> /\ SlotOn(w)
    BY <1>1, <1>7 DEF acquireJobAdvanceLock, releaseJobAdvanceLock, ExitAdvance,
       SlotOn, HasRef, NoTask, SlotRecord
  <2> QED BY <1>2, <1>3, <2>1, FitStays
<1>8. CASE BeginStages(w)
  <2>1. UNCHANGED <<obj, stored>> /\ wk'[w].job = wk[w].job /\ wk[w].pc = "advance"
    BY <1>1, <1>8 DEF BeginStages, SlotRecord
  <2>2. wk'[w].pc # "sign"
    BY <1>1, <1>8, StateFacts DEF BeginStages, StageCall, SlotRecord
  <2> QED BY <1>2, <1>3, <2>1, <2>2, FitStays DEF SlotOn, HasRef
<1>9. CASE NothingToAdvance(w)
  <2>1. UNCHANGED stored /\ obj' = Sweep(obj) /\ SlotOn(w)
    BY <1>1, <1>9 DEF NothingToAdvance, SlotOn, HasRef, NoTask, SlotRecord
  <2> QED BY <1>2, <1>3, <2>1, FitStays
<1> QED BY <1>4, <1>5, <1>6, <1>7, <1>8, <1>9 DEF WorkerRuns

LEMMA FitAnswered ==
    ASSUME PInv, OneDevice, NEW w \in Workers, NEW rec \in JobRecord, NEW pc, NEW next,
           NEW in, NEW j \in Jobs, j = wk[w].job,
           Stage(w, pc, rec, next, in), pc # "idle", wk[w].ref = w,
           BareRecord(rec), rec.preview = Link => bucket'[j] # None,
           next = "sign" => bucket'[j] # None,
           \A k \in Jobs : bucket[k] # None => bucket'[k] # None
    PROVE  Fit'
<1>1. /\ wk \in [Workers -> SlotRecord] /\ obj \in [Objs -> JobRecord]
      /\ Jobs \subseteq Objs /\ Requests \subseteq Objs /\ Workers \subseteq Objs
  BY PromiseFacts DEF Types, Objs
<1>2. /\ obj' = [obj EXCEPT ![w] = rec] /\ UNCHANGED <<stored, req>>
      /\ \A x \in Workers : x # w => wk'[x] = wk[x]
      /\ wk'[w].pc = next /\ wk'[w].job = j
  BY <1>1 DEF Stage, SlotRecord
<1>3. obj'[w] = rec /\ \A o \in Objs : o # w => obj'[o] = obj[o]
  BY <1>1, <1>2
<1>4. Bare'
  BY <1>3, PromiseFacts DEF Bare, BareRecord
<1>5. \A k \in Jobs : Exists(k)' => Linked(k, k)'
  BY <1>1, <1>2, <1>3, PromiseFacts, AddressFacts DEF Links, Linked, Exists
<1>6. \A r \in Requests : HasCopy(r)' => Linked(req[r].job, r)'
  <2> SUFFICES ASSUME NEW r \in Requests, HasCopy(r)' PROVE Linked(req[r].job, r)'
    OBVIOUS
  <2>1. HasCopy(r) /\ req' = req /\ Linked(req[r].job, r) /\ req[r].job \in Jobs
    BY <1>2, PromiseFacts DEF HasCopy, Links, RequestKnown
  <2> QED BY <1>1, <1>3, <2>1, AddressFacts DEF Linked
<1>7. \A x \in Workers : x # w /\ HasRef(x)' => Linked(wk[x].job, x)'
  <2> SUFFICES ASSUME NEW x \in Workers, x # w, HasRef(x)' PROVE Linked(wk[x].job, x)'
    OBVIOUS
  <2>1. HasRef(x) /\ wk'[x] = wk[x] /\ Linked(wk[x].job, x)
    BY <1>2, PromiseFacts DEF HasRef, Links
  <2>2. wk[x].job \in Jobs
    BY <2>1, PromiseFacts, SlotFacts DEF HasRef, Busy
  <2> QED BY <1>1, <1>3, <2>1, <2>2 DEF Linked
<1>8. \A x \in Workers : x # w /\ wk'[x].pc = "sign" => bucket'[wk'[x].job] # None
  <2> SUFFICES ASSUME NEW x \in Workers, x # w, wk'[x].pc = "sign"
               PROVE bucket'[wk'[x].job] # None
    OBVIOUS
  <2>1. wk'[x] = wk[x] /\ bucket[wk[x].job] # None
    BY <1>2, PromiseFacts DEF Links
  <2>2. wk[x].job \in Jobs
    BY <2>1, PromiseFacts, SlotFacts DEF Busy
  <2> QED BY <2>1, <2>2
<1>9. Linked(j, w)'
  BY <1>3 DEF Linked
<1>10. Links'
  BY <1>2, <1>5, <1>6, <1>7, <1>8, <1>9 DEF Links
<1> QED BY <1>4, <1>10 DEF Fit

LEMMA FitAnswers ==
    ASSUME PInv, OneDevice, NEW w \in Workers, VendorAnswers(w)
    PROVE  Fit'
<1> DEFINE old == obj[wk[w].ref]
<1>0. PICK j \in Jobs : j = wk[w].job
  <2>1. Busy(w)
    BY DEF VendorAnswers, resolveTranscript, moderateTranscript, runImageGeneration,
       UploadPreview, finalizePreview, markFailed, Stage, Busy
  <2> QED BY <2>1, PromiseFacts, SlotFacts
<1>1. /\ wk \in [Workers -> SlotRecord] /\ InStages(w) /\ wk[w].ref = w /\ w \in Objs
      /\ obj \in [Objs -> JobRecord] /\ old \in JobRecord /\ SlotCopy(w)
      /\ bucket \in [Jobs -> Safe \cup {None}] /\ wk[w].in \in Texts \cup {None}
      /\ None \notin Texts /\ Link \notin Texts
  <2>1. InStages(w)
    BY DEF VendorAnswers, resolveTranscript, moderateTranscript, runImageGeneration,
       UploadPreview, finalizePreview, markFailed, Stage, InStages
  <2>2. wk \in [Workers -> SlotRecord] /\ wk[w] \in SlotRecord
    BY PromiseFacts DEF Types
  <2>3. wk[w].ref = w
    BY <2>1, PromiseFacts, Copies, InStagesRef DEF OneDevice
  <2>4. bucket \in [Jobs -> Safe \cup {None}]
    BY DEF PInv, IInv, GoodRecords
  <2> QED BY <2>1, <2>2, <2>3, <2>4, PromiseFacts, NoneAssumption, LinkAssumption
          DEF Objs, SlotRecord
<1>2. old.state \in Stages /\ old.preview = None
  <2>1. old.state \in Stages
    BY <1>1 DEF PInv, IInv, Carried, Carries
  <2> QED BY <1>1, <2>1, PromiseFacts, StateFacts DEF Bare, Ready
<1> HIDE DEF old
<1>3. ASSUME NEW s \in States, NEW t \in Texts \cup {None}, NEW pc, pc # "idle",
             NEW next, next # "sign", NEW in,
             Stage(w, pc, [old EXCEPT !.state = s, !.transcript = t], next, in),
             UNCHANGED bucket
      PROVE  Fit'
  <2> DEFINE rec == [old EXCEPT !.state = s, !.transcript = t]
  <2>1. rec \in JobRecord /\ rec.preview = None
    BY <1>1, <1>2 DEF JobRecord
  <2> HIDE DEF rec
  <2>2. Stage(w, pc, rec, next, in)
    BY <1>3 DEF rec
  <2> QED BY <1>0, <1>1, <1>3, <2>1, <2>2, LinkAssumption, FitAnswered DEF BareRecord
<1>4. \A s \in States : [old EXCEPT !.state = s]
                          = [old EXCEPT !.state = s, !.transcript = old.transcript]
  BY <1>1 DEF JobRecord
<1>5. old.transcript \in Texts \cup {None}
  BY <1>1 DEF JobRecord
<1>6. ASSUME NEW t \in Texts, resolveTranscript(w, t) PROVE Fit'
  BY <1>3, <1>6, StateFacts DEF resolveTranscript, Transcribed, StayInStages, old
<1>7. CASE moderateTranscript(w)
  <2>1. Stage(w, "mod", [old EXCEPT !.state = "moderation_passed",
                                    !.transcript = old.transcript], "img", old.transcript)
    BY <1>4, <1>7, StateFacts DEF moderateTranscript, old
  <2> QED BY <1>3, <1>5, <1>7, <2>1, StateFacts DEF moderateTranscript, StayInStages
<1>8. CASE runImageGeneration(w)
  <2>1. Stage(w, "img", [old EXCEPT !.state = "image_generation",
                                    !.transcript = old.transcript], "fin", wk[w].in)
    BY <1>4, <1>8, StateFacts DEF runImageGeneration, old
  <2> QED BY <1>3, <1>5, <1>8, <2>1, StateFacts DEF runImageGeneration, StayInStages
<1>9. CASE markFailed(w)
  <2>1. Stage(w, wk[w].pc, [old EXCEPT !.state = "failed",
                                       !.transcript = old.transcript], "write", None)
    BY <1>4, <1>9, StateFacts DEF markFailed, old
  <2>2. wk[w].pc # "idle"
    BY <1>1 DEF InStages
  <2> QED BY <1>3, <1>5, <1>9, <2>1, <2>2, StateFacts DEF markFailed
<1>10. CASE UploadPreview(w)
  <2>1. /\ Stage(w, "fin", old, "sign", wk[w].in) /\ wk[w].in # None
        /\ bucket' = [bucket EXCEPT ![j] = wk[w].in]
    BY <1>0, <1>10 DEF UploadPreview, old
  <2>2. bucket'[j] # None /\ \A k \in Jobs : bucket[k] # None => bucket'[k] # None
    BY <1>1, <2>1
  <2> QED BY <1>0, <1>1, <1>2, <2>1, <2>2, LinkAssumption, FitAnswered DEF BareRecord
<1>11. CASE finalizePreview(w)
  <2>1. PICK picture \in {wk[w].in} \cup (IF MayLink(w) THEN {Link} ELSE {}) :
          /\ picture # None
          /\ Stage(w, wk[w].pc, WithPreview(old, picture), "write", None)
    BY <1>11 DEF finalizePreview, old
  <2>2. picture = Link => wk[w].pc = "sign"
    BY <1>1, <2>1 DEF MayLink, SlotCopy, Copied
  <2>3. picture = Link => bucket[j] # None
    BY <1>0, <2>2, PromiseFacts DEF Links
  <2> DEFINE rec == WithPreview(old, picture)
  <2>4. rec \in JobRecord /\ rec.preview = picture /\ rec.state = "preview_ready"
    BY <1>1, <2>1, StateFacts DEF WithPreview, JobRecord
  <2>5. UNCHANGED bucket /\ wk[w].pc # "idle"
    BY <1>1, <1>11 DEF finalizePreview, InStages
  <2> HIDE DEF rec
  <2>6. Stage(w, wk[w].pc, rec, "write", None)
    BY <2>1 DEF rec
  <2> QED BY <1>0, <1>1, <2>3, <2>4, <2>5, <2>6, FitAnswered DEF BareRecord, Ready
<1> QED BY <1>6, <1>7, <1>8, <1>9, <1>10, <1>11 DEF VendorAnswers

LEMMA FitStep ==
    ASSUME OneDevice, PInv, [Next]_vars
    PROVE  Fit'
<1>0. HandlesOK'
  BY PromiseFacts, HandlesStep
<1>1. ASSUME NEW j \in Jobs, NEW r \in Requests,
             \/ \E k \in Keys, rep \in Replicas : BeginAck(r, j, k, rep)
             \/ \E op \in {"audio", "chunk", "text"}, t \in Texts, rep \in Replicas :
                  BeginUpload(r, op, j, t, rep)
      PROVE  Fit'
  <2>1. UNCHANGED <<stored, wk, bucket>> /\ (\A w \in Workers : SlotOn(w) /\ w # r) /\ Exists(j)
    BY <1>1, AddressFacts DEF BeginAck, BeginUpload, SlotOn, HasRef
  <2>2. req \in [Requests -> ReqRecord] /\ \A s \in Requests : s = r
    BY PromiseFacts DEF Types, OneDevice
  <2>3. CASE \E k \in Keys, rep \in Replicas : BeginAck(r, j, k, rep)
    <3>1. RequestOn(r) /\ obj' = obj
      BY <2>2, <2>3 DEF BeginAck, RequestOn, HasCopy
    <3> QED BY <1>0, <2>1, <2>2, <3>1, FitStays
  <2>4. CASE \E op \in {"audio", "chunk", "text"}, t \in Texts, rep \in Replicas :
               BeginUpload(r, op, j, t, rep)
    <3>1. req'[r].job = j /\ obj' = Sweep(LoadHeap(j, r))
      BY <2>2, <2>4 DEF BeginUpload
    <3> QED BY <1>0, <2>1, <2>2, <3>1, FitLoads
  <2> QED BY <1>1, <2>3, <2>4
<1>2. ASSUME NEW j \in Jobs, NEW rep \in Replicas, advanceJob(j, rep) PROVE Fit'
  <2>1. UNCHANGED <<obj, stored, wk, req, bucket>>
    BY <1>2 DEF advanceJob
  <2> QED BY <1>0, <2>1, FitStays DEF RequestOn, SlotOn, HasCopy, HasRef
<1>3. CASE Client
  BY <1>0, <1>1, <1>2, <1>3, FitCreates DEF Client
<1>4. CASE (\E j \in Jobs : LockLapse(j)) \/ UNCHANGED vars
  <2>1. UNCHANGED <<obj, stored, req, wk, bucket>>
    BY <1>4 DEF LockLapse, vars
  <2> QED BY <1>0, <2>1, FitStays DEF RequestOn, SlotOn, HasCopy, HasRef
<1>5. ASSUME NEW p \in Replicas, Crash(p) PROVE Fit'
  <2>1. /\ UNCHANGED <<stored, bucket>> /\ obj' = Sweep(obj)
        /\ \A w \in Workers : wk'[w] = wk[w] \/ wk'[w] = NoTask
        /\ \A r \in Requests : req'[r] = req[r] \/ req'[r] = NoReq
    BY <1>5 DEF Crash, OneDevice
  <2>2. /\ \A w \in Workers : SlotOn(w)
        /\ \A r \in Requests : RequestOn(r)
    BY <2>1 DEF SlotOn, RequestOn, HasRef, HasCopy, NoTask, NoReq
  <2> QED BY <1>0, <2>1, <2>2, FitStays
<1>6. ~flushPersistenceSync
  BY DEF flushPersistenceSync, OneDevice
<1> QED BY <1>0, <1>3, <1>4, <1>5, <1>6, FitHandlers, FitSlots, FitAnswers
        DEF Next, Request, Answer

-----------------------------------------------------------------------------
(* The invariant                                                           *)

LEMMA MarkStep ==
    ASSUME PInv, [Next]_vars
    PROVE  Marked
<1>1. (UNCHANGED <<obj, stored, bucket>>) => NoMove
  BY DEF NoMove, Same, SamePreview
<1>2. ASSUME NEW w \in Workers, runFullPipeline(w) PROVE Marked
  <2>1. Head(Waiting(w)).job \in Jobs
    BY <1>2, Taken, PromiseFacts DEF runFullPipeline, Task
  <2> QED BY <1>1, <1>2, <2>1 DEF runFullPipeline, Marked
<1>3. ASSUME NEW j \in Jobs, LockLapse(j) PROVE Marked
  BY <1>1, <1>3 DEF LockLapse, history, Marked
<1>4. CASE \/ UNCHANGED history
           \/ \E w \in Workers : acquireJobAdvanceLock(w) \/ releaseJobAdvanceLock(w)
           \/ \E p \in Replicas : Crash(p)
  BY <1>4 DEF acquireJobAdvanceLock, releaseJobAdvanceLock, Crash, history, Marked
<1> QED BY <1>2, <1>3, <1>4, HistoryStep

LEMMA InitPromise == Init => Fit /\ CopiesOK
<1> SUFFICES ASSUME Init PROVE Fit /\ CopiesOK
  OBVIOUS
<1>1. Proper /\ TasksStarted /\ AckedReady
  BY NoneAssumption DEF Init, Proper, TasksStarted, AckedReady, Exists
<1>2. \A w \in Workers : SlotStarted(w) /\ SlotCopy(w)
  BY DEF Init, SlotStarted, SlotCopy, Copied, Locked, InStages, Busy, NoTask
<1>3. \A r \in Requests : RequestCopy(r)
  BY DEF Init, RequestCopy, NoReq
<1>4. Bare
  BY DEF Init, Bare, Free, NewRecord
<1>5. Links
  BY DEF Init, Links, Linked, Exists, HasCopy, HasRef, NoReq, NoTask
<1> QED BY <1>1, <1>2, <1>3, <1>4, <1>5 DEF CopiesOK, Fit

(* Over Redis, for a device with one request in flight: a copy of a record *)
(* is what the store holds, or only an acknowledgement behind it, unless a *)
(* pipeline has run on the job without the lock; even then a copy that is  *)
(* written back answers submitted input, and every link leads to a picture *)
(* (getJob and setJob, runBackgroundAdvance, finalizePreview).             *)
THEOREM CopiesFollow ==
    ASSUME OneDevice
    PROVE  Spec => []PInv
<1>1. PInv /\ [Next]_vars => CopiesOK' /\ Fit'
  BY PromiseStep, FitStep DEF Moved
<1>2. PInv <=> IInv /\ HoldsLock /\ Fit /\ CopiesOK
  BY DEF PInv, Fit
<1> QED BY <1>1, <1>2, InitPromise, LockInvariance, PTL DEF Spec

LEMMA PictureFacts ==
    ASSUME PInv, ~SharedRecords, NEW j \in Jobs
    PROVE  /\ Exists(j) /\ obj[j].state \in Ready => Picture(j) \in Safe
           /\ Exists(j) /\ obj[j].state \notin Ready => Picture(j) = None
           /\ ~Exists(j) => Picture(j) = None
<1> SUFFICES ASSUME Exists(j)
             PROVE  /\ obj[j].state \in Ready => Picture(j) \in Safe
                    /\ obj[j].state \notin Ready => Picture(j) = None
  BY DEF Picture
<1>1. stored[j] = j /\ j \in Objs /\ GoodRecord(obj[j]) /\ Linked(j, j)
  BY PromiseFacts, StoreIsOwn DEF PInv, IInv, GoodRecords, Links
<1>2. bucket[j] \in Safe \cup {None}
  BY DEF PInv, IInv, GoodRecords
<1>3. Picture(j) = IF obj[j].preview = Link THEN bucket[j] ELSE obj[j].preview
  BY <1>1 DEF Picture
<1>4. obj[j].state \notin Ready => obj[j].preview = None
  BY <1>1, PromiseFacts DEF Bare
<1> QED BY <1>1, <1>2, <1>3, <1>4, LinkAssumption DEF GoodRecord, Linked

(* Over Redis, for a device with one request in flight: a key that printAck*)
(* has recorded names a job with a picture, under retries, polling and     *)
(* crashes, unless a pipeline has run on the job without the lock.         *)
THEOREM AckedShown ==
    ASSUME OneDevice
    PROVE  Spec => []AckedHasPreview
<1>1. ASSUME PInv PROVE AckedHasPreview
  <2> SUFFICES ASSUME NEW k \in Keys, NEW j \in Jobs \ loose, printIdem[k] = j
               PROVE  Picture(j) # None
    BY DEF AckedHasPreview
  <2>1. Exists(j) /\ obj[j].state \in Ready
    BY <1>1, PromiseFacts DEF AckedReady
  <2>2. Picture(j) \in Safe
    BY <1>1, <2>1, PictureFacts DEF OneDevice
  <2> QED BY <2>2, SafeAssumption, NoneAssumption
<1> QED BY <1>1, CopiesFollow, PTL

-----------------------------------------------------------------------------
(* The refinement                                                          *)

PhaseOf(s) ==
    IF s = "created" THEN "open" ELSE IF s \in Stages THEN "working"
    ELSE IF s = "preview_ready" THEN "ready"
    ELSE IF s = "print_acknowledged" THEN "acked" ELSE "failed"

PhaseSeen(j) ==
    IF Exists(j) THEN /\ Phase(j) = PhaseOf(obj[j].state)
                      /\ obj[j].state \in Ready => Picture(j) \in Safe
                      /\ obj[j].state \notin Ready => Picture(j) = None
    ELSE Phase(j) = "none" /\ Picture(j) = None
PhasesSeen == \A j \in Jobs : PhaseSeen(j)

LEMMA NoPhase ==
    ASSUME NEW j \in Jobs, ~Exists(j)
    PROVE  Phase(j) = "none" /\ Picture(j) = None
<1>1. State(j) = "none" /\ Picture(j) = None
  BY DEF State, Picture
<1>2. Phase(j) = "none"
  BY <1>1, StateFacts DEF Phase
<1> QED BY <1>1, <1>2

LEMMA PhaseFacts == PInv /\ ~SharedRecords => PhasesSeen
<1> SUFFICES ASSUME PInv, ~SharedRecords, NEW j \in Jobs, Exists(j)
             PROVE  Phase(j) = PhaseOf(obj[j].state)
  BY NoPhase, PictureFacts DEF PhasesSeen, PhaseSeen
<1>1. stored[j] = j /\ obj[j].state \in States
  BY PromiseFacts, StoreIsOwn DEF Proper, Kept
<1>2. State(j) = obj[j].state
  BY <1>1 DEF State
<1>3. Phase(j) = PhaseOf(State(j))
  <2>1. State(j) \in States /\ "none" \notin States
    BY <1>1, <1>2, StateFacts
  <2> QED BY <2>1, StateFacts DEF Phase, PhaseOf
<1> QED BY <1>2, <1>3

LEMMA PictureKept ==
    ASSUME HandlesOK, HandlesOK', ~SharedRecords, NEW j \in Jobs,
           Exists(j), Exists(j)', SamePreview(j)
    PROVE  Picture(j)' = Picture(j)
<1>1. stored[j] = j /\ stored'[j] = j
  BY DEF HandlesOK, Private, Exists
<1> QED BY <1>1 DEF Picture, SamePreview, Exists

(* How a move of a job looks in JobLifecycle                               *)
LEMMA MoveSeen ==
    ASSUME PInv, PInv', ~SharedRecords, NEW j \in Jobs
    PROVE  /\ Same(j) => Phase(j)' = Phase(j) /\ Picture(j)' = Picture(j)
           /\ Opens(j) => /\ Phase(j) = "none" /\ Phase(j)' \in {"open", "working"}
                          /\ Picture(j)' = Picture(j)
           /\ Submits(j) => /\ Phase(j) = "open" /\ Phase(j)' = "working"
                            /\ Picture(j)' = Picture(j)
           /\ Resolves(j) =>
                /\ Phase(j) = "working"
                /\ \/ Phase(j)' = "ready" /\ Picture(j)' \in Safe
                   \/ Phase(j)' = "failed" /\ Picture(j)' = Picture(j)
           /\ Acks(j) => /\ Phase(j) \in {"ready", "acked"} /\ Phase(j)' \in {"ready", "acked"}
                         /\ Picture(j)' = Picture(j)
           /\ Repeats(j) =>
                /\ j \in loose /\ Phase(j) \in Life!Over
                /\ \/ Phase(j)' \in {"ready", "acked"} /\ Picture(j)' \in Safe
                   \/ Phase(j)' = "failed" /\ Picture(j)' = None
<1>0. HandlesOK /\ HandlesOK'
  BY DEF PInv, IInv
<1>1. PhaseSeen(j)
  BY PhaseFacts DEF PhasesSeen
<1>2. PInv' /\ (~SharedRecords)' => PhasesSeen'
  BY PhaseFacts, PTL
<1>3. IF Exists(j)' THEN /\ Phase(j)' = PhaseOf(obj'[j].state)
                         /\ obj'[j].state \in Ready => Picture(j)' \in Safe
                         /\ obj'[j].state \notin Ready => Picture(j)' = None
      ELSE Phase(j)' = "none" /\ Picture(j)' = None
  BY <1>2 DEF PhasesSeen, PhaseSeen
<1>4. Same(j) => Phase(j)' = Phase(j) /\ Picture(j)' = Picture(j)
  <2>1. CASE Exists(j) /\ Same(j)
    <3>1. Exists(j)' /\ SamePreview(j) /\ obj'[j].state = obj[j].state
      BY <2>1 DEF Same, Exists
    <3> QED BY <1>0, <1>1, <1>3, <2>1, <3>1, PictureKept DEF PhaseSeen
  <2>2. CASE ~Exists(j) /\ Same(j)
    <3>1. ~Exists(j)'
      BY <2>2 DEF Same, Exists
    <3> QED BY <1>1, <1>3, <2>2, <3>1 DEF PhaseSeen
  <2> QED BY <2>1, <2>2
<1>5. Opens(j) => /\ Phase(j) = "none" /\ Phase(j)' \in {"open", "working"}
                  /\ Picture(j)' = Picture(j)
  BY <1>1, <1>3, StateFacts DEF PhaseSeen, Opens, PhaseOf, Ready
<1>6. Submits(j) => /\ Phase(j) = "open" /\ Phase(j)' = "working"
                    /\ Picture(j)' = Picture(j)
  BY <1>1, <1>3, StateFacts DEF PhaseSeen, Submits, PhaseOf, Ready
<1>7. Resolves(j) => /\ Phase(j) = "working"
                     /\ \/ Phase(j)' = "ready" /\ Picture(j)' \in Safe
                        \/ Phase(j)' = "failed" /\ Picture(j)' = Picture(j)
  BY <1>1, <1>3, StateFacts DEF PhaseSeen, Resolves, PhaseOf, Ready
<1>8. Acks(j) => /\ Phase(j) \in {"ready", "acked"} /\ Phase(j)' \in {"ready", "acked"}
                 /\ Picture(j)' = Picture(j)
  <2>1. Acks(j) => Picture(j)' = Picture(j)
    BY <1>0, PictureKept DEF Acks
  <2> QED BY <1>1, <1>3, <2>1, StateFacts DEF PhaseSeen, Acks, PhaseOf, Ready
<1>9. Repeats(j) => /\ j \in loose /\ Phase(j) \in Life!Over
                    /\ \/ Phase(j)' \in {"ready", "acked"} /\ Picture(j)' \in Safe
                       \/ Phase(j)' = "failed" /\ Picture(j)' = None
  BY <1>1, <1>3, StateFacts DEF PhaseSeen, Repeats, PhaseOf, Ready, Ended, Life!Over
<1> QED BY <1>4, <1>5, <1>6, <1>7, <1>8, <1>9

(* The safety part of KeepsPromise, over Redis and for a device with one   *)
(* request in flight: the record the store has of a job is opened,         *)
(* submitted, answered by one approved picture or by a failure, and        *)
(* acknowledged, however many replicas advance it and whenever they crash. *)
(* Only where a pipeline has run without the lock, because its TTL ran out *)
(* or it is runFullPipeline, may the answer be given again.                *)
THEOREM StepsKeepPromise ==
    ASSUME OneDevice
    PROVE  Spec => Life!LifeInit /\ [][Life!LifeNext]_(Life!lifeVars)
<1>1. Init => Life!LifeInit
  <2> SUFFICES ASSUME Init PROVE Life!LifeInit
    OBVIOUS
  <2>1. loose = {} /\ \A j \in Jobs : ~Exists(j)
    BY DEF Init, Exists
  <2>2. \A j \in Jobs : Phase(j) = "none" /\ Picture(j) = None
    BY <2>1, NoPhase
  <2> QED BY <2>1, <2>2 DEF Life!LifeInit
<1>2. ASSUME PInv, PInv', [Next]_vars PROVE [Life!LifeNext]_(Life!lifeVars)
  <2> DEFINE phase == [j \in Jobs |-> Phase(j)]
             shown == [j \in Jobs |-> Picture(j)]
  <2>1. ~SharedRecords /\ Marked /\ (NoMove \/ OneMove)
    BY <1>2, MarkStep, PromiseStep DEF OneDevice, Moved
  <2>2. Life!lifeVars = <<phase, shown, loose>>
    BY DEF Life!lifeVars
  <2>3. \A j \in Jobs : Same(j) => Phase(j)' = Phase(j) /\ Picture(j)' = Picture(j)
    BY <1>2, <2>1, MoveSeen
  <2>4. CASE NoMove
    <3>1. phase' = phase /\ shown' = shown
      BY <2>3, <2>4 DEF NoMove
    <3>2. CASE loose' = loose
      BY <3>1, <3>2 DEF Life!lifeVars
    <3>3. ASSUME NEW j \in Jobs, loose' = loose \cup {j} PROVE Life!LifeNext
      <4>1. Life!Loosen(j)
        BY <3>1, <3>3 DEF Life!Loosen
      <4> QED BY <4>1 DEF Life!LifeNext
    <3> QED BY <2>1, <3>2, <3>3 DEF Marked
  <2>5. ASSUME NEW j \in Jobs, JobMove(j), \A k \in Jobs : k # j => Same(k), loose' = loose
        PROVE  [Life!LifeNext]_(Life!lifeVars)
    <3>1. /\ \A to : Phase(j)' = to => phase' = [phase EXCEPT ![j] = to]
          /\ \A p : Picture(j)' = p => shown' = [shown EXCEPT ![j] = p]
          /\ Picture(j)' = Picture(j) => shown' = shown
          /\ Phase(j)' = Phase(j) => phase' = phase
          /\ phase[j] = Phase(j)
      BY <2>3, <2>5
    <3>2. Same(j) => phase' = phase /\ shown' = shown
      BY <2>3, <3>1
    <3>3. Opens(j) => Life!Create(j) \/ Life!CreateSubmitted(j)
      <4>1. Opens(j) => /\ Phase(j) = "none" /\ Phase(j)' \in {"open", "working"}
                        /\ Picture(j)' = Picture(j)
        BY <1>2, <2>1, MoveSeen
      <4> QED BY <2>5, <3>1, <4>1 DEF Life!Create, Life!CreateSubmitted, Life!Move
    <3>4. Submits(j) => Life!Submit(j)
      <4>1. Submits(j) => /\ Phase(j) = "open" /\ Phase(j)' = "working"
                          /\ Picture(j)' = Picture(j)
        BY <1>2, <2>1, MoveSeen
      <4> QED BY <2>5, <3>1, <4>1 DEF Life!Submit, Life!Move
    <3>5. Resolves(j) => Life!Present(j) \/ Life!Refuse(j)
      <4>1. Resolves(j) => /\ Phase(j) = "working"
                           /\ \/ Phase(j)' = "ready" /\ Picture(j)' \in Safe
                              \/ Phase(j)' = "failed" /\ Picture(j)' = Picture(j)
        BY <1>2, <2>1, MoveSeen
      <4> QED BY <2>5, <3>1, <4>1 DEF Life!Present, Life!Refuse, Life!Move
    <3>6. Acks(j) => \/ phase' = phase /\ shown' = shown
                     \/ Life!Acknowledge(j) \/ Life!Forget(j)
      <4>1. Acks(j) => /\ Phase(j) \in {"ready", "acked"} /\ Phase(j)' \in {"ready", "acked"}
                       /\ Picture(j)' = Picture(j)
        BY <1>2, <2>1, MoveSeen
      <4> QED BY <2>5, <3>1, <4>1 DEF Life!Acknowledge, Life!Forget, Life!Move
    <3>7. Repeats(j) => Life!Again(j)
      <4> SUFFICES ASSUME Repeats(j) PROVE Life!Again(j)
        OBVIOUS
      <4>1. /\ j \in loose /\ Phase(j) \in Life!Over
            /\ \/ Phase(j)' \in {"ready", "acked"} /\ Picture(j)' \in Safe
               \/ Phase(j)' = "failed" /\ Picture(j)' = None
        BY <1>2, <2>1, MoveSeen
      <4>2. None \notin Safe
        BY SafeAssumption, NoneAssumption
      <4>3. PICK to \in Life!Over, picture \in Safe \cup {None} :
              /\ (picture = None) <=> (to = "failed")
              /\ Phase(j)' = to /\ Picture(j)' = picture
        BY <4>1, <4>2 DEF Life!Over
      <4>4. Life!Move(j, phase[j], to) /\ shown' = [shown EXCEPT ![j] = picture]
        BY <2>5, <3>1, <4>3 DEF Life!Move
      <4> QED BY <3>1, <4>1, <4>3, <4>4 DEF Life!Again
    <3> QED BY <2>5, <3>2, <3>3, <3>4, <3>5, <3>6, <3>7
            DEF JobMove, Life!LifeNext, Life!lifeVars
  <2> QED BY <2>1, <2>4, <2>5 DEF OneMove, Marked
<1> QED BY <1>1, <1>2, CopiesFollow, PTL DEF Spec
=============================================================================
