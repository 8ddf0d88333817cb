-------------------------- MODULE JobIntakeProofs --------------------------
(***************************************************************************)
(* Proofs about JobIntake for every set of attempts, every recording       *)
(* length, every deployment and any number of losses: its types, that all  *)
(* attempts that share an Idempotency-Key agree on one job, and that only  *)
(* a replica that died leaves another behind.  For a device that waits for *)
(* its attempts: that an upload is whole, and what the device was told.    *)
(***************************************************************************)
EXTENDS JobIntake, FiniteSetTheorems, TLAPS

(***************************************************************************)
(* The inductive invariant.  Every job id answered is the one the key      *)
(* stands for; once it stands for one, that job is stored and the handler  *)
(* that made it is over, so that only losers ever delete; an attempt that  *)
(* has found the key taken remembers that job; the device, and each of its *)
(* uploads, work on it; and an upload never writes back an absent record.  *)
(***************************************************************************)
KeyHasJob == key # None => Exists(key) /\ cr[key].pc = "over"

CreatesAgree ==
    \A c \in Creates :
      /\ cr[c].pc = "claim" => Exists(c)
      /\ cr[c].pc = "winner" => key # None
      /\ cr[c].pc \in {"hit", "drop", "read"} =>
           cr[c].seen \in Creates \cup {None} /\ (cr[c].seen = key /\ key # None)

UploadsAgree ==
    \A u \in Uploads :
      /\ up[u].pc # "idle" => up[u].job = key /\ key # None
      /\ up[u].pc \in {"stage", "save"} => up[u].rec.state # "none"

DeviceAgrees ==
    /\ dev.phase # "create" => dev.job = key /\ key # None
    /\ dev.wait \in Creates => dev.phase = "create"
    /\ dev.wait \in Uploads => dev.phase = "upload"

AnswersAgree == \A j \in answered : key = j

Agreement ==
    KeyHasJob /\ CreatesAgree /\ UploadsAgree /\ DeviceAgrees /\ AnswersAgree

IInv == IntakeTypeOK /\ Agreement

LEMMA Bounds == Final \in Nat /\ MaxLosses \in Nat /\ Chunks = 0..Final
BY FinalAssumption, LossAssumption DEF Chunks

LEMMA InitIInv == IntakeInit => IInv
<1> SUFFICES ASSUME IntakeInit PROVE IInv
  OBVIOUS
<1>1. NoRec \in Rec /\ 0 \in Chunks /\ NoRec.state = "none"
  BY Bounds DEF NoRec, Rec
<1>2. IntakeTypeOK
  BY <1>1, Bounds DEF IntakeInit, IntakeTypeOK, NoUpload, CreatePCs
<1>3. Agreement
  BY IntakeNoneAssumption DEF IntakeInit, Agreement, KeyHasJob, CreatesAgree, UploadsAgree,
     DeviceAgrees, AnswersAgree, NoUpload
<1> QED BY <1>2, <1>3 DEF IInv

-----------------------------------------------------------------------------
(* What the device can make of an answer to a create ...                   *)
Phases == {"create", "upload", "done", "refused", "failed"}
DeviceType == [phase : Phases, seq : Chunks, job : Creates \cup {None},
               wait : Creates \cup Uploads \cup {None}]

LEMMA CreateAnswered ==
    ASSUME IInv, NEW c \in Creates, NEW job \in Creates, Answer(c, 201, job)
    PROVE  /\ dev' \in DeviceType /\ losses' \in losses..MaxLosses
           /\ dev' = dev \/ dev'.wait = None
           /\ dev'.phase # "create" => dev'.job = job \/ (dev.phase # "create" /\ dev'.job = dev.job)
<1>1. dev \in DeviceType /\ losses \in 0..MaxLosses
  BY DEF IInv, IntakeTypeOK, DeviceType, Phases
<1>2. CASE dev.wait # c
  BY <1>1, <1>2, Bounds DEF Answer
<1>3. CASE dev.wait = c
  <2>1. dev.phase = "create"
    BY <1>3 DEF IInv, Agreement, DeviceAgrees
  <2>2. Hears(201, job) = [dev EXCEPT !.phase = "upload", !.job = job, !.wait = None]
    BY <2>1 DEF Hears
  <2>3. CASE dev' = Hears(201, job) /\ UNCHANGED losses
    <3>0. dev' = [phase |-> "upload", seq |-> dev.seq, job |-> job, wait |-> None]
      BY <1>1, <2>2, <2>3 DEF DeviceType
    <3>1. dev' \in DeviceType /\ dev'.wait = None /\ dev'.job = job
      BY <1>1, <3>0 DEF DeviceType, Phases
    <3>2. losses' \in losses..MaxLosses
      BY <1>1, <2>3, Bounds
    <3> QED BY <3>1, <3>2
  <2>4. CASE dev' = [dev EXCEPT !.wait = None] /\ losses < MaxLosses /\ losses' = losses + 1
    BY <1>1, <2>4, Bounds DEF DeviceType, Phases
  <2> QED BY <1>3, <2>3, <2>4 DEF Answer
<1> QED BY <1>2, <1>3

(* ... and of an answer to an upload *)
LEMMA UploadAnswered ==
    ASSUME IInv, NEW u \in Uploads, NEW status \in {200, 400, 409}, Answer(u, status, None)
    PROVE  /\ dev' \in DeviceType /\ losses' \in losses..MaxLosses
           /\ dev' = dev \/ dev'.wait = None
           /\ dev'.job = dev.job
           /\ dev'.phase # "create" => dev.phase # "create"
<1>1. dev \in DeviceType /\ losses \in 0..MaxLosses
  BY DEF IInv, IntakeTypeOK, DeviceType, Phases
<1>2. CASE dev.wait # u
  BY <1>1, <1>2, Bounds DEF Answer
<1>3. CASE dev.wait = u
  <2>1. dev.phase = "upload"
    BY <1>3 DEF IInv, Agreement, DeviceAgrees
  <2>2. \/ Hears(status, None) = [dev EXCEPT !.seq = @ + 1, !.wait = None] /\ dev.seq < Final
        \/ \E p \in {"done", "refused", "failed"} :
             Hears(status, None) = [dev EXCEPT !.phase = p, !.wait = None]
    <3>1. dev.seq \in Nat /\ dev.seq <= Final
      BY <1>1, Bounds DEF DeviceType
    <3>2. CASE status = 200 /\ dev.seq < Final
      BY <2>1, <3>2 DEF Hears
    <3>3. CASE status = 200 /\ dev.seq = Final
      BY <2>1, <3>1, <3>3, Bounds DEF Hears
    <3>4. CASE status = 409
      BY <2>1, <3>4 DEF Hears
    <3>5. CASE status = 400
      BY <2>1, <3>5 DEF Hears
    <3> QED BY <3>1, <3>2, <3>3, <3>4, <3>5, Bounds
  <2>3. CASE dev' = Hears(status, None) /\ UNCHANGED losses
    <3>1. losses' \in losses..MaxLosses
      BY <1>1, <2>3, Bounds
    <3>2. CASE dev' = [dev EXCEPT !.seq = @ + 1, !.wait = None] /\ dev.seq < Final
      <4>1. dev.seq + 1 \in Chunks
        BY <1>1, <3>2, Bounds DEF DeviceType
      <4>2. dev' = [phase |-> dev.phase, seq |-> dev.seq + 1, job |-> dev.job, wait |-> None]
        BY <1>1, <3>2 DEF DeviceType
      <4> QED BY <1>1, <2>1, <3>1, <4>1, <4>2 DEF DeviceType
    <3>3. CASE \E p \in {"done", "refused", "failed"} :
                 dev' = [dev EXCEPT !.phase = p, !.wait = None]
      <4>1. PICK p \in {"done", "refused", "failed"} :
              dev' = [dev EXCEPT !.phase = p, !.wait = None]
        BY <3>3
      <4>2. dev' = [phase |-> p, seq |-> dev.seq, job |-> dev.job, wait |-> None]
        BY <1>1, <4>1 DEF DeviceType
      <4> QED BY <1>1, <2>1, <3>1, <4>2 DEF DeviceType, Phases
    <3> QED BY <2>2, <2>3, <3>2, <3>3
  <2>4. CASE dev' = [dev EXCEPT !.wait = None] /\ losses < MaxLosses /\ losses' = losses + 1
    BY <1>1, <2>4, Bounds DEF DeviceType, Phases
  <2> QED BY <1>3, <2>3, <2>4 DEF Answer
<1> QED BY <1>2, <1>3

-----------------------------------------------------------------------------
(* The parts of the type invariant a step of a create handler leaves alone *)
LEMMA CreateTypes ==
    ASSUME IInv, NEW c \in Creates, NEW from, NEW to \in CreatePCs,
           NEW seen \in Creates \cup {None}, CreateStep(c, from, to, seen),
           store' \in [Creates -> Rec], key' \in Creates \cup {None},
           answered' \subseteq Creates, dev' \in DeviceType,
           losses' \in losses..MaxLosses
    PROVE  IntakeTypeOK'
<1>1. IntakeTypeOK
  BY DEF IInv
<1>2. cr' \in [Creates -> [pc : CreatePCs, seen : Creates \cup {None}]]
  BY <1>1 DEF CreateStep, IntakeTypeOK
<1>3. losses' \in 0..MaxLosses /\ deaths' \in 0..losses'
  BY <1>1, Bounds DEF CreateStep, IntakeTypeOK
<1>4. UNCHANGED <<setup, s3, up>>
  BY DEF CreateStep
<1> QED BY <1>1, <1>2, <1>3, <1>4 DEF IntakeTypeOK, DeviceType, Phases

(* A step of a create handler c that leaves the records of others there,   *)
(* the key alone or taken by c itself, and answers, if at all, the key's   *)
(* job.                                                                    *)
LEMMA CreateAgrees ==
    ASSUME IInv, NEW c \in Creates, NEW from \in CreatePCs \ {"over"}, NEW to \in CreatePCs,
           NEW seen \in Creates \cup {None}, CreateStep(c, from, to, seen),
           \A j \in Creates \ {c} : Exists(j) => Exists(j)',
           key' = key \/ (key = None /\ key' = c /\ Exists(c)' /\ to = "over"),
           to = "claim" => Exists(c)',
           to = "winner" => key' # None,
           to \in {"hit", "drop", "read"} => seen = key' /\ key' # None,
           answered' = answered \/ (key' # None /\ answered' = answered \cup {key'}),
           dev' = dev \/ dev'.wait = None,
           dev'.phase # "create" => (dev.phase # "create" /\ dev'.job = dev.job) \/
                                    (key' # None /\ dev'.job = key')
    PROVE  Agreement'
<1>1. IntakeTypeOK /\ KeyHasJob /\ CreatesAgree /\ UploadsAgree /\ DeviceAgrees /\ AnswersAgree
  BY DEF IInv, Agreement
<1>2. /\ cr' = [cr EXCEPT ![c] = [pc |-> to, seen |-> seen]] /\ up' = up
      /\ cr[c].pc # "over" /\ DOMAIN cr = Creates
  BY <1>1 DEF CreateStep, IntakeTypeOK
<1>3. key # None => key \in Creates \ {c} /\ key' = key
  BY <1>1, <1>2 DEF KeyHasJob, IntakeTypeOK
<1>4. KeyHasJob'
  BY <1>1, <1>2, <1>3 DEF KeyHasJob
<1>5. CreatesAgree'
  <2> SUFFICES ASSUME NEW d \in Creates
               PROVE  /\ cr'[d].pc = "claim" => Exists(d)'
                      /\ cr'[d].pc = "winner" => key' # None
                      /\ cr'[d].pc \in {"hit", "drop", "read"} =>
                           cr'[d].seen \in Creates \cup {None} /\ (cr'[d].seen = key' /\ key' # None)
    BY DEF CreatesAgree
  <2>1. CASE d = c
    BY <1>2, <2>1
  <2>2. CASE d # c
    <3>1. cr'[d] = cr[d] /\ (Exists(d) => Exists(d)')
      BY <1>2, <2>2
    <3> QED BY <1>1, <1>3, <3>1 DEF CreatesAgree
  <2> QED BY <2>1, <2>2
<1>6. UploadsAgree'
  BY <1>1, <1>2, <1>3 DEF UploadsAgree
<1>7. DeviceAgrees'
  BY <1>1, <1>3, IntakeNoneAssumption DEF DeviceAgrees
<1>8. AnswersAgree'
  BY <1>1, <1>3, IntakeNoneAssumption DEF AnswersAgree, IntakeTypeOK
<1> QED BY <1>4, <1>5, <1>6, <1>7, <1>8 DEF Agreement

LEMMA RecordFacts ==
    /\ NoRec \in Rec /\ NoRec.state = "none"
    /\ NewJob \in Rec /\ NewJob.state = "created"
<1>1. -1 \in -1..Final
  BY Bounds
<1>2. NoRec \in Rec /\ NoRec.state = "none"
  BY <1>1 DEF NoRec, Rec
<1>3. NewJob \in Rec /\ NewJob.state = "created"
  BY <1>2 DEF NewJob, Rec
<1> QED BY <1>2, <1>3

LEMMA CreateSteps ==
    ASSUME IInv, NEW c \in Creates, createJob(c)
    PROVE  IInv'
<1>0. /\ IntakeTypeOK /\ KeyHasJob /\ CreatesAgree /\ DeviceAgrees /\ AnswersAgree
      /\ dev \in DeviceType /\ losses \in losses..MaxLosses
  BY Bounds DEF IInv, Agreement, IntakeTypeOK, DeviceType, Phases
<1>t. /\ store \in [Creates -> Rec] /\ key \in Creates \cup {None} /\ answered \subseteq Creates
      /\ cr[c].seen \in Creates \cup {None} /\ None \notin Creates
  BY <1>0, IntakeNoneAssumption DEF IntakeTypeOK
<1>1. CASE getCreateIdem(c)
  <2> DEFINE to == IF key = None THEN "store" ELSE "hit"
  <2>1. /\ CreateStep(c, "look", to, key) /\ to \in CreatePCs \ {"over"}
        /\ UNCHANGED <<answered, dev, losses, store, key>>
    BY <1>1 DEF getCreateIdem, Waits, CreatePCs
  <2>2. to \in {"hit", "drop", "read"} => key # None
    BY IntakeNoneAssumption
  <2>3. to # "claim" /\ to # "winner"
    OBVIOUS
  <2> HIDE DEF to
  <2>4. IntakeTypeOK'
    BY <1>0, <1>t, <2>1, CreateTypes
  <2>5. Agreement'
    <3>1. "look" \in CreatePCs \ {"over"} /\ \A j \in Creates \ {c} : Exists(j) => Exists(j)'
      BY <2>1 DEF CreatePCs, Exists
    <3> QED BY <1>0, <1>t, <2>1, <2>2, <2>3, <3>1, CreateAgrees DEF DeviceAgrees
  <2> QED BY <2>4, <2>5 DEF IInv
<1>2. CASE Replay(c)
  <2>1. cr[c].pc = "hit" /\ cr[c].seen = key /\ key # None /\ key \in Creates /\ Exists(key)
    BY <1>0, <1>t, <1>2 DEF Replay, CreateStep, CreatesAgree, KeyHasJob
  <2>2. /\ CreateStep(c, "hit", "over", None) /\ UNCHANGED <<store, key>>
        /\ answered' = answered \cup {key} /\ Answer(c, 201, key)
    BY <1>2, <2>1 DEF Replay, Created
  <2>3. /\ dev' \in DeviceType /\ losses' \in losses..MaxLosses
        /\ dev' = dev \/ dev'.wait = None
        /\ dev'.phase # "create" => dev'.job = key \/ (dev.phase # "create" /\ dev'.job = dev.job)
    BY <2>1, <2>2, CreateAnswered
  <2>4. "over" \in CreatePCs /\ "hit" \in CreatePCs \ {"over"}
    BY DEF CreatePCs
  <2>5. IntakeTypeOK'
    BY <1>0, <1>t, <2>1, <2>2, <2>3, <2>4, CreateTypes
  <2>6. Agreement'
    <3>1. \A j \in Creates \ {c} : Exists(j) => Exists(j)'
      BY <2>2 DEF Exists
    <3> QED BY <1>0, <1>t, <2>1, <2>2, <2>3, <2>4, <3>1, CreateAgrees
  <2> QED BY <2>5, <2>6 DEF IInv
<1>3. CASE StoreJob(c)
  <2>1. /\ CreateStep(c, "store", "claim", None) /\ store' = [store EXCEPT ![c] = NewJob]
        /\ UNCHANGED <<answered, dev, losses, key>>
    BY <1>3 DEF StoreJob, Waits
  <2>2. /\ "claim" \in CreatePCs /\ "store" \in CreatePCs \ {"over"}
        /\ store' \in [Creates -> Rec] /\ Exists(c)'
        /\ \A j \in Creates \ {c} : Exists(j) => Exists(j)'
    BY <1>t, <2>1, RecordFacts DEF CreatePCs, Exists
  <2>3. IntakeTypeOK'
    BY <1>0, <1>t, <2>1, <2>2, CreateTypes
  <2>4. Agreement'
    BY <1>0, <1>t, <2>1, <2>2, CreateAgrees DEF DeviceAgrees
  <2> QED BY <2>3, <2>4 DEF IInv
<1>4. CASE setCreateIdemNx(c)
  <2>0. /\ UNCHANGED store /\ "claim" \in CreatePCs \ {"over"}
        /\ "over" \in CreatePCs /\ "winner" \in CreatePCs
        /\ \A j \in Creates : Exists(j) => Exists(j)'
    BY <1>4 DEF setCreateIdemNx, CreatePCs, Exists
  <2>1. CASE key = None
    <3>1. /\ CreateStep(c, "claim", "over", None) /\ key' = c
          /\ answered' = answered \cup {c} /\ Answer(c, 201, c)
      BY <1>4, <2>1 DEF setCreateIdemNx, Claimed, Created
    <3>2. Exists(c)'
      BY <1>0, <2>0, <3>1 DEF CreatesAgree, CreateStep
    <3>3. /\ dev' \in DeviceType /\ losses' \in losses..MaxLosses
          /\ dev' = dev \/ dev'.wait = None
          /\ dev'.phase # "create" => dev'.job = c \/ (dev.phase # "create" /\ dev'.job = dev.job)
      BY <3>1, CreateAnswered
    <3>4. IntakeTypeOK'
      BY <1>0, <1>t, <2>0, <3>1, <3>3, CreateTypes
    <3>5. Agreement'
      BY <1>0, <1>t, <2>0, <2>1, <3>1, <3>2, <3>3, CreateAgrees
    <3> QED BY <3>4, <3>5 DEF IInv
  <2>2. CASE key # None
    <3>1. /\ CreateStep(c, "claim", "winner", None)
          /\ UNCHANGED <<answered, dev, losses, key>>
      BY <1>4, <2>2 DEF setCreateIdemNx, Claimed, Waits
    <3>2. IntakeTypeOK'
      BY <1>0, <1>t, <2>0, <3>1, CreateTypes
    <3>3. Agreement'
      BY <1>0, <1>t, <2>0, <2>2, <3>1, CreateAgrees DEF DeviceAgrees
    <3> QED BY <3>2, <3>3 DEF IInv
  <2> QED BY <2>1, <2>2
<1>5. CASE LookUpWinner(c)
  <2>1. /\ CreateStep(c, "winner", "drop", key)
        /\ UNCHANGED <<answered, dev, losses, store, key>>
    BY <1>5 DEF LookUpWinner, Waits
  <2>2. /\ "drop" \in CreatePCs /\ "winner" \in CreatePCs \ {"over"} /\ key # None
        /\ \A j \in Creates \ {c} : Exists(j) => Exists(j)'
    BY <1>0, <2>1 DEF CreatePCs, Exists, CreatesAgree, CreateStep
  <2>3. IntakeTypeOK'
    BY <1>0, <1>t, <2>1, <2>2, CreateTypes
  <2>4. Agreement'
    BY <1>0, <1>t, <2>1, <2>2, CreateAgrees DEF DeviceAgrees
  <2> QED BY <2>3, <2>4 DEF IInv
<1>6. CASE deleteJob(c)
  <2>1. /\ CreateStep(c, "drop", "read", cr[c].seen)
        /\ store' = [j \in Creates |-> IF j = c THEN NoRec ELSE store[j]]
        /\ UNCHANGED <<answered, dev, losses, key>>
    BY <1>6 DEF deleteJob, Waits, Dropped
  <2>2. /\ "read" \in CreatePCs /\ "drop" \in CreatePCs \ {"over"}
        /\ cr[c].seen = key /\ key # None /\ store' \in [Creates -> Rec]
        /\ \A j \in Creates \ {c} : Exists(j) => Exists(j)'
    BY <1>0, <1>t, <2>1, RecordFacts DEF CreatePCs, Exists, CreatesAgree, CreateStep
  <2>3. IntakeTypeOK'
    BY <1>0, <1>t, <2>1, <2>2, CreateTypes
  <2>4. Agreement'
    BY <1>0, <1>t, <2>1, <2>2, CreateAgrees DEF DeviceAgrees
  <2> QED BY <2>3, <2>4 DEF IInv
<1>7. CASE AnswerWinner(c)
  <2>1. cr[c].pc = "read" /\ cr[c].seen = key /\ key # None /\ key \in Creates /\ Exists(key)
    BY <1>0, <1>t, <1>7 DEF AnswerWinner, CreateStep, CreatesAgree, KeyHasJob
  <2>2. /\ CreateStep(c, "read", "over", None) /\ UNCHANGED <<store, key>>
        /\ answered' = answered \cup {key} /\ Answer(c, 201, key)
    BY <1>7, <2>1 DEF AnswerWinner, Created
  <2>3. /\ dev' \in DeviceType /\ losses' \in losses..MaxLosses
        /\ dev' = dev \/ dev'.wait = None
        /\ dev'.phase # "create" => dev'.job = key \/ (dev.phase # "create" /\ dev'.job = dev.job)
    BY <2>1, <2>2, CreateAnswered
  <2>4. /\ "over" \in CreatePCs /\ "read" \in CreatePCs \ {"over"}
        /\ \A j \in Creates \ {c} : Exists(j) => Exists(j)'
    BY <2>2 DEF CreatePCs, Exists
  <2>5. IntakeTypeOK'
    BY <1>0, <1>t, <2>1, <2>2, <2>3, <2>4, CreateTypes
  <2>6. Agreement'
    BY <1>0, <1>t, <2>1, <2>2, <2>3, <2>4, CreateAgrees
  <2> QED BY <2>5, <2>6 DEF IInv
<1> QED BY <1>1, <1>2, <1>3, <1>4, <1>5, <1>6, <1>7 DEF createJob

-----------------------------------------------------------------------------
Handler == [pc : {"idle", "load", "stage", "save"}, job : Creates \cup {None},
            seq : Chunks, rec : Rec, parts : SUBSET Chunks]

(* A step of an upload handler that goes on with its job, if at all, never *)
(* with an absent record, and takes no record away.                        *)
LEMMA UploadKeeps ==
    ASSUME IInv, NEW u \in Uploads, up[u].pc # "idle", NEW h \in Handler,
           up' = [up EXCEPT ![u] = h], UNCHANGED <<setup, key, cr, answered>>,
           h.pc # "idle" => h.job = up[u].job,
           h.pc \in {"stage", "save"} => h.rec.state # "none",
           store' \in [Creates -> Rec], s3' \in [Creates -> SUBSET Chunks],
           \A j \in Creates : Exists(j) => Exists(j)',
           dev' \in DeviceType, losses' \in losses..MaxLosses,
           deaths' \in deaths..(deaths + losses' - losses),
           dev' = dev \/ dev'.wait = None,
           dev'.job = dev.job, dev'.phase # "create" => dev.phase # "create"
    PROVE  IInv'
<1>1. IntakeTypeOK /\ KeyHasJob /\ CreatesAgree /\ UploadsAgree /\ DeviceAgrees /\ AnswersAgree
  BY DEF IInv, Agreement
<1>2. up \in [Uploads -> Handler] /\ up' \in [Uploads -> Handler]
  BY <1>1 DEF IntakeTypeOK, Handler
<1>3. losses' \in 0..MaxLosses /\ deaths' \in 0..losses'
  <2>1. losses \in 0..MaxLosses /\ deaths \in 0..losses
    BY <1>1 DEF IntakeTypeOK
  <2>2. /\ losses \in Nat /\ deaths \in Nat /\ losses' \in Nat /\ deaths' \in Nat
        /\ deaths <= losses /\ losses' <= MaxLosses
        /\ deaths' <= deaths + losses' - losses
    BY <2>1, Bounds
  <2>3. ASSUME NEW d \in Nat, NEW l \in Nat, NEW e \in Nat, NEW m \in Nat,
               d <= l, e <= d + m - l
        PROVE  e <= m
    BY <2>3
  <2>4. losses' \in 0..MaxLosses
    BY <2>2, Bounds
  <2>5. deaths' \in 0..losses'
    <3>1. deaths' <= losses'
      BY <2>2, <2>3
    <3> QED BY <2>2, <3>1
  <2> QED BY <2>4, <2>5
<1>4. IntakeTypeOK'
  BY <1>1, <1>2, <1>3 DEF IntakeTypeOK, DeviceType, Phases, Handler
<1>5. UploadsAgree'
  <2> SUFFICES ASSUME NEW v \in Uploads
               PROVE  /\ up'[v].pc # "idle" => up'[v].job = key' /\ key' # None
                      /\ up'[v].pc \in {"stage", "save"} => up'[v].rec.state # "none"
    BY DEF UploadsAgree
  <2>1. CASE v = u
    BY <1>1, <1>2, <2>1 DEF UploadsAgree
  <2>2. CASE v # u
    BY <1>1, <1>2, <2>2 DEF UploadsAgree
  <2> QED BY <2>1, <2>2
<1>6. KeyHasJob' /\ CreatesAgree'
  BY <1>1 DEF KeyHasJob, CreatesAgree, IntakeTypeOK
<1>7. DeviceAgrees'
  BY <1>1, IntakeNoneAssumption DEF DeviceAgrees
<1>8. AnswersAgree'
  BY <1>1 DEF AnswersAgree
<1> QED BY <1>4, <1>5, <1>6, <1>7, <1>8 DEF IInv, Agreement

LEMMA MergedRecords ==
    ASSUME IntakeTypeOK, NEW u \in Uploads, up[u].job \in Creates, Accepts(u)
    PROVE  /\ WithChunk(u) \in Rec /\ WithChunk(u).state = "created"
           /\ Emptied(WithChunk(u)) \in Rec /\ Emptied(WithChunk(u)).state = "created"
           /\ [Emptied(Stored(u)) EXCEPT !.state = "audio_received"] \in Rec
           /\ mergeAudioChunks(u) \in SUBSET Chunks
<1>1. Stored(u) \in Rec /\ Stored(u).state = "created" /\ up[u].seq \in Chunks
  BY DEF IntakeTypeOK, Accepts, Stored
<1>2. Chunks \subseteq (-1)..Final /\ -1 \in (-1)..Final
  <2>1. ASSUME NEW n \in Chunks PROVE n \in (-1)..Final
    BY <2>1, Bounds
  <2> QED BY <2>1, Bounds
<1>3. WithChunk(u) \in Rec /\ WithChunk(u).state = "created"
  BY <1>1, <1>2 DEF WithChunk, Rec
<1>4. Emptied(WithChunk(u)) \in Rec /\ Emptied(WithChunk(u)).state = "created"
  BY <1>2, <1>3 DEF Emptied, Rec
<1>5. Emptied(Stored(u)) \in Rec
  BY <1>1, <1>2 DEF Emptied, Rec
<1>6. [Emptied(Stored(u)) EXCEPT !.state = "audio_received"] \in Rec
  BY <1>5 DEF Rec
<1>7. mergeAudioChunks(u) \in SUBSET Chunks
  BY <1>3 DEF mergeAudioChunks, Rec
<1> QED BY <1>3, <1>4, <1>6, <1>7

LEMMA InlineRecord ==
    ASSUME NEW rec \in Rec, NEW parts \in SUBSET Chunks
    PROVE  /\ WithInline(rec, parts) \in Rec
           /\ WithInline(rec, parts).state = "audio_received"
BY DEF WithInline, Rec

(* A record written in place is there *)
LEMMA WrittenInPlace ==
    ASSUME IntakeTypeOK, NEW u \in Uploads, up[u].job \in Creates,
           NEW rec \in Rec, rec.state # "none", InPlace(u, rec)
    PROVE  /\ store' \in [Creates -> Rec]
           /\ \A j \in Creates : Exists(j) => Exists(j)'
<1>1. store \in [Creates -> Rec]
  BY DEF IntakeTypeOK
<1>2. CASE setup.redis
  BY <1>1, <1>2 DEF InPlace, Exists
<1>3. CASE ~setup.redis
  BY <1>1, <1>3 DEF InPlace, Exists
<1> QED BY <1>2, <1>3

LEMMA NoHandler == NoUpload \in Handler /\ NoUpload.pc = "idle"
<1>1. 0 \in Chunks
  BY Bounds
<1> QED BY <1>1, RecordFacts DEF NoUpload, Handler

(* Changing two or three fields of a handler makes it this handler *)
Moved(u, pc, rec, parts) ==
    [pc |-> pc, job |-> up[u].job, seq |-> up[u].seq, rec |-> rec, parts |-> parts]

LEMMA MovedHandler ==
    ASSUME up \in [Uploads -> Handler], NEW u \in Uploads,
           NEW pc \in {"stage", "save"}, NEW rec \in Rec, NEW parts \in SUBSET Chunks
    PROVE  Moved(u, pc, rec, parts) \in Handler
BY DEF Moved, Handler

LEMMA HandlerMoves ==
    ASSUME up \in [Uploads -> Handler], NEW u \in Uploads,
           NEW pc \in {"stage", "save"}, NEW rec \in Rec
    PROVE  [up EXCEPT ![u].pc = pc, ![u].rec = rec]
             = [up EXCEPT ![u] = Moved(u, pc, rec, up[u].parts)]
<1> DEFINE h == up[u]
           h1 == [h EXCEPT !.pc = pc]
           h2 == [h1 EXCEPT !.rec = rec]
<1>1. h \in Handler
  OBVIOUS
<1>2. h1 \in Handler /\ h1 = Moved(u, pc, h.rec, h.parts)
  BY <1>1 DEF Moved, Handler
<1>3. h2 = Moved(u, pc, rec, h.parts)
  <2> HIDE DEF h1
  <2> QED BY <1>2 DEF Moved, Handler
<1>4. [up EXCEPT ![u].pc = pc, ![u].rec = rec] = [up EXCEPT ![u] = h2]
  OBVIOUS
<1> QED BY <1>3, <1>4

LEMMA HandlerMovesWithParts ==
    ASSUME up \in [Uploads -> Handler], NEW u \in Uploads,
           NEW pc \in {"stage", "save"}, NEW rec \in Rec, NEW parts \in SUBSET Chunks
    PROVE  [up[u] EXCEPT !.pc = pc, !.rec = rec, !.parts = parts]
             = Moved(u, pc, rec, parts)
<1> DEFINE h == up[u]
           h1 == [h EXCEPT !.pc = pc]
           h2 == [h1 EXCEPT !.rec = rec]
           h3 == [h2 EXCEPT !.parts = parts]
<1>1. h \in Handler
  OBVIOUS
<1>2. h1 = Moved(u, pc, h.rec, h.parts)
  BY <1>1 DEF Moved, Handler
<1>3. h2 = Moved(u, pc, rec, h.parts)
  <2> HIDE DEF h1
  <2> QED BY <1>2 DEF Moved
<1>4. h3 = Moved(u, pc, rec, parts)
  <2> HIDE DEF h2
  <2> QED BY <1>3 DEF Moved
<1>5. [h EXCEPT !.pc = pc, !.rec = rec, !.parts = parts] = h3
  OBVIOUS
<1> QED BY <1>4, <1>5

LEMMA UploadSteps ==
    ASSUME IInv, NEW u \in Uploads, uploadChunk(u)
    PROVE  IInv'
<1>0. /\ IntakeTypeOK /\ UploadsAgree /\ KeyHasJob
      /\ dev \in DeviceType /\ losses \in losses..MaxLosses /\ losses \in Nat
      /\ deaths \in deaths..(deaths + losses - losses)
  BY Bounds DEF IInv, Agreement, IntakeTypeOK, DeviceType, Phases
<1>1. /\ up \in [Uploads -> Handler] /\ up[u] \in Handler
      /\ store \in [Creates -> Rec] /\ s3 \in [Creates -> SUBSET Chunks]
      /\ \A j \in Creates : UNCHANGED store => (Exists(j) => Exists(j)')
  BY <1>0 DEF IntakeTypeOK, Handler, Exists
<1>2. up[u].pc # "idle"
  BY DEF uploadChunk, RefuseUpload, IgnoreDuplicate, KeepChunk, RejectOversize,
         CloseUpload, CloseBare, Accepts, storeAudioRef, setJob
<1>3. up[u].job \in Creates
  BY <1>0, <1>2 DEF UploadsAgree, IntakeTypeOK
<1>k. Uploading => UNCHANGED <<setup, key, cr, answered, deaths>>
  BY DEF Uploading
<1>a. ASSUME NEW status \in {200, 400, 409}, Over(u, status)
      PROVE  /\ up' = [up EXCEPT ![u] = NoUpload]
             /\ dev' \in DeviceType /\ losses' \in losses..MaxLosses
             /\ dev' = dev \/ dev'.wait = None
             /\ dev'.job = dev.job /\ (dev'.phase # "create" => dev.phase # "create")
  <2>1. Answer(u, status, None)
    BY <1>a DEF Over
  <2> QED BY <1>a, <2>1, UploadAnswered DEF Over
<1>d. ASSUME NEW l \in losses..MaxLosses, deaths' = deaths
      PROVE  deaths' \in deaths..(deaths + l - losses)
  <2>1. deaths \in Nat /\ l \in Int /\ l >= losses
    BY <1>0, Bounds DEF IntakeTypeOK
  <2> QED BY <1>0, <1>d, <2>1
<1>4. CASE RefuseUpload(u)
  <2>1. Over(u, 409) /\ Uploading /\ UNCHANGED <<store, s3>>
    BY <1>4 DEF RefuseUpload
  <2> QED BY <1>1, <1>2, <1>k, <1>a, <1>d, <2>1, NoHandler, UploadKeeps
<1>5. CASE IgnoreDuplicate(u)
  <2>1. Over(u, 200) /\ Uploading /\ UNCHANGED <<store, s3>>
    BY <1>5 DEF IgnoreDuplicate
  <2> QED BY <1>1, <1>2, <1>k, <1>a, <1>d, <2>1, NoHandler, UploadKeeps
<1>6. CASE KeepChunk(u)
  <2>1. /\ Accepts(u) /\ Uploading /\ UNCHANGED <<s3, dev, losses>>
        /\ InPlace(u, WithChunk(u))
        /\ up' = [up EXCEPT ![u].pc = "save", ![u].rec = WithChunk(u)]
    BY <1>6 DEF KeepChunk
  <2>2. WithChunk(u) \in Rec /\ WithChunk(u).state = "created"
    BY <1>0, <1>3, <2>1, MergedRecords
  <2> DEFINE h == Moved(u, "save", WithChunk(u), up[u].parts)
  <2>3. h \in Handler /\ up' = [up EXCEPT ![u] = h]
    <3>1. up \in [Uploads -> Handler] /\ up[u].parts \in SUBSET Chunks
      BY <1>1 DEF Handler
    <3>2. h \in Handler
      BY <2>1, <2>2, <3>1, MovedHandler
    <3> QED BY <2>1, <2>2, <3>1, <3>2, HandlerMoves
  <2>4. /\ store' \in [Creates -> Rec] /\ \A j \in Creates : Exists(j) => Exists(j)'
    BY <1>0, <1>3, <2>1, <2>2, WrittenInPlace
  <2>5. h.job = up[u].job /\ h.rec.state # "none"
    BY <2>2 DEF Moved
  <2> HIDE DEF h
  <2> QED BY <1>0, <1>1, <1>2, <1>k, <1>d, <2>1, <2>3, <2>4, <2>5, UploadKeeps
<1>7. CASE RejectOversize(u)
  <2>1. /\ Accepts(u) /\ Uploading /\ UNCHANGED s3 /\ Over(u, 400)
        /\ InPlace(u, WithChunk(u))
    BY <1>7 DEF RejectOversize
  <2>2. WithChunk(u) \in Rec /\ WithChunk(u).state = "created"
    BY <1>0, <1>3, <2>1, MergedRecords
  <2>3. /\ store' \in [Creates -> Rec] /\ \A j \in Creates : Exists(j) => Exists(j)'
    BY <1>0, <1>3, <2>1, <2>2, WrittenInPlace
  <2> QED BY <1>1, <1>2, <1>k, <1>a, <1>d, <2>1, <2>3, NoHandler, UploadKeeps
<1>8. CASE CloseUpload(u)
  <2> DEFINE kept == WithInline(Emptied(WithChunk(u)), mergeAudioChunks(u))
             rec == IF setup.s3 THEN Emptied(WithChunk(u)) ELSE kept
             to == IF setup.s3 THEN "stage" ELSE "save"
  <2>1. /\ Accepts(u) /\ Uploading /\ UNCHANGED <<s3, dev, losses>>
        /\ InPlace(u, rec)
        /\ up' = [up EXCEPT ![u] = [up[u] EXCEPT !.pc = to, !.rec = rec,
                                                !.parts = mergeAudioChunks(u)]]
    BY <1>8 DEF CloseUpload
  <2>2. /\ rec \in Rec /\ rec.state # "none" /\ to \in {"stage", "save"}
        /\ mergeAudioChunks(u) \in SUBSET Chunks
    BY <1>0, <1>3, <2>1, MergedRecords, InlineRecord
  <2> HIDE DEF rec, to
  <2> DEFINE h == Moved(u, to, rec, mergeAudioChunks(u))
  <2>3. h \in Handler /\ up' = [up EXCEPT ![u] = h]
    <3>1. up \in [Uploads -> Handler]
      BY <1>1
    <3>2. h \in Handler
      BY <2>2, <3>1, MovedHandler
    <3>3. \A a \in {"stage", "save"}, b \in Rec, c \in SUBSET Chunks :
            [up[u] EXCEPT !.pc = a, !.rec = b, !.parts = c] = Moved(u, a, b, c)
      BY <3>1, HandlerMovesWithParts
    <3>4. [up[u] EXCEPT !.pc = to, !.rec = rec, !.parts = mergeAudioChunks(u)] = h
      BY <2>2, <3>3, Zenon
    <3> QED BY <2>1, <3>2, <3>4
  <2>4. /\ store' \in [Creates -> Rec] /\ \A j \in Creates : Exists(j) => Exists(j)'
    BY <1>0, <1>3, <2>1, <2>2, WrittenInPlace
  <2>5. h.job = up[u].job /\ h.rec.state # "none"
    BY <2>2 DEF Moved
  <2> HIDE DEF h
  <2> QED BY <1>0, <1>1, <1>2, <1>k, <1>d, <2>1, <2>3, <2>4, <2>5, UploadKeeps
<1>9. CASE CloseBare(u)
  <2> DEFINE rec == [Emptied(Stored(u)) EXCEPT !.state = "audio_received"]
  <2>1. /\ Accepts(u) /\ Uploading /\ UNCHANGED <<s3, dev, losses>>
        /\ InPlace(u, rec)
        /\ up' = [up EXCEPT ![u].pc = "save", ![u].rec = rec]
    BY <1>9 DEF CloseBare
  <2>2. rec \in Rec
    BY <1>0, <1>3, <2>1, MergedRecords
  <2>3. rec.state # "none"
    <3>1. Stored(u) \in Rec
      BY <1>1, <1>3 DEF Stored
    <3> QED BY <3>1 DEF Emptied, Rec
  <2> HIDE DEF rec
  <2> DEFINE h == Moved(u, "save", rec, up[u].parts)
  <2>4. h \in Handler /\ up' = [up EXCEPT ![u] = h]
    <3>1. up \in [Uploads -> Handler] /\ up[u].parts \in SUBSET Chunks
      BY <1>1 DEF Handler
    <3>2. h \in Handler
      BY <2>1, <2>2, <3>1, MovedHandler
    <3> QED BY <2>1, <2>2, <3>1, <3>2, HandlerMoves
  <2>5. /\ store' \in [Creates -> Rec] /\ \A j \in Creates : Exists(j) => Exists(j)'
    BY <1>0, <1>3, <2>1, <2>2, <2>3, WrittenInPlace
  <2>6. h.job = up[u].job /\ h.rec.state # "none"
    BY <2>3 DEF Moved
  <2> HIDE DEF h
  <2> QED BY <1>0, <1>1, <1>2, <1>k, <1>d, <2>1, <2>4, <2>5, <2>6, UploadKeeps
<1>10. CASE storeAudioRef(u)
  <2>1. Uploading /\ UNCHANGED <<store, dev, losses>>
    BY <1>10 DEF storeAudioRef
  <2>2. up[u].rec \in Rec /\ up[u].parts \in SUBSET Chunks
    BY <1>1 DEF Handler
  <2> DEFINE staged == [up[u].rec EXCEPT !.staged = TRUE, !.inline = {}, !.state = "audio_received"]
  <2>3. staged \in Rec /\ staged.state = "audio_received"
    <3> DEFINE r1 == [up[u].rec EXCEPT !.staged = TRUE]
               r2 == [r1 EXCEPT !.inline = {}]
    <3>1. r1 \in Rec
      BY <2>2 DEF Rec
    <3>2. r2 \in Rec
      <4> HIDE DEF r1
      <4> QED BY <3>1 DEF Rec
    <3>3. [r2 EXCEPT !.state = "audio_received"] \in Rec
          /\ [r2 EXCEPT !.state = "audio_received"].state = "audio_received"
      <4> HIDE DEF r2
      <4> QED BY <3>2 DEF Rec
    <3> QED BY <3>3
  <2>4. PICK rec \in Rec : /\ rec.state = "audio_received"
                           /\ up' = [up EXCEPT ![u].pc = "save", ![u].rec = rec]
    BY <1>10, <2>2, <2>3, InlineRecord DEF storeAudioRef
  <2>5. s3' \in [Creates -> SUBSET Chunks]
    BY <1>1, <1>3, <1>10, <2>2 DEF storeAudioRef
  <2> DEFINE h == Moved(u, "save", rec, up[u].parts)
  <2>6. h \in Handler /\ up' = [up EXCEPT ![u] = h]
    <3>1. up \in [Uploads -> Handler] /\ up[u].parts \in SUBSET Chunks
      BY <1>1 DEF Handler
    <3>2. h \in Handler
      BY <2>4, <3>1, MovedHandler
    <3> QED BY <2>4, <3>1, <3>2, HandlerMoves
  <2>7. h.job = up[u].job /\ h.rec.state # "none"
    BY <2>4 DEF Moved
  <2> HIDE DEF h
  <2> QED BY <1>0, <1>1, <1>2, <1>k, <1>d, <2>1, <2>5, <2>6, <2>7, UploadKeeps
<1>11. CASE setJob(u)
  <2>1. /\ up[u].pc = "save" /\ Over(u, 200) /\ Uploading /\ UNCHANGED s3
        /\ store' = [store EXCEPT ![up[u].job] = up[u].rec]
    BY <1>11 DEF setJob
  <2>2. up[u].rec \in Rec /\ up[u].rec.state # "none"
    BY <1>0, <1>1, <2>1 DEF Handler, UploadsAgree
  <2>3. /\ store' \in [Creates -> Rec] /\ \A j \in Creates : Exists(j) => Exists(j)'
    BY <1>1, <1>3, <2>1, <2>2 DEF Exists
  <2> QED BY <1>1, <1>2, <1>k, <1>a, <1>d, <2>1, <2>3, NoHandler, UploadKeeps
<1> QED BY <1>4, <1>5, <1>6, <1>7, <1>8, <1>9, <1>10, <1>11 DEF uploadChunk

-----------------------------------------------------------------------------
(* The device's own steps, and the deaths of replicas *)
LEMMA DeviceSteps ==
    ASSUME IInv,
           \/ StopWaiting
           \/ \E c \in Creates : SendCreate(c) \/ CreateDies(c)
           \/ \E u \in Uploads : SendChunk(u) \/ UploadDies(u)
    PROVE  IInv'
<1>0. /\ IntakeTypeOK /\ KeyHasJob /\ CreatesAgree /\ UploadsAgree /\ DeviceAgrees /\ AnswersAgree
  BY DEF IInv, Agreement
<1>t. /\ dev \in DeviceType /\ losses \in 0..MaxLosses /\ deaths \in 0..losses
      /\ up \in [Uploads -> Handler] /\ key \in Creates \cup {None}
      /\ cr \in [Creates -> [pc : CreatePCs, seen : Creates \cup {None}]]
  BY <1>0 DEF IntakeTypeOK, DeviceType, Phases, Handler
<1>u. ASSUME losses < MaxLosses, losses' = losses + 1, deaths' \in {deaths, deaths + 1}
      PROVE  losses' \in 0..MaxLosses /\ deaths' \in 0..losses'
  BY <1>t, <1>u, Bounds
<1>1. CASE StopWaiting
  <2>1. /\ UNCHANGED <<setup, store, key, s3, cr, up, answered, deaths>>
        /\ dev' = [dev EXCEPT !.wait = None] /\ losses < MaxLosses /\ losses' = losses + 1
    BY <1>1 DEF StopWaiting
  <2>2. dev' \in DeviceType /\ dev'.wait = None /\ dev'.phase = dev.phase /\ dev'.job = dev.job
    BY <1>t, <2>1 DEF DeviceType
  <2>3. IntakeTypeOK'
    BY <1>0, <1>u, <2>1, <2>2 DEF IntakeTypeOK, DeviceType, Phases
  <2>4. Agreement'
    BY <1>0, <2>1, <2>2, IntakeNoneAssumption
       DEF Agreement, KeyHasJob, CreatesAgree, UploadsAgree, DeviceAgrees, AnswersAgree, Exists
  <2> QED BY <2>3, <2>4 DEF IInv
<1>2. ASSUME NEW c \in Creates, SendCreate(c)
      PROVE  IInv'
  <2>1. /\ UNCHANGED <<setup, store, key, s3, up, answered, losses, deaths>>
        /\ cr[c].pc = "unused" /\ cr' = [cr EXCEPT ![c].pc = "look"]
        /\ dev.phase = "create" /\ dev' = [dev EXCEPT !.wait = c]
    BY <1>2 DEF SendCreate
  <2>2. dev' \in DeviceType /\ dev'.wait = c /\ dev'.phase = "create"
    BY <1>t, <2>1 DEF DeviceType
  <2>3. /\ cr' \in [Creates -> [pc : CreatePCs, seen : Creates \cup {None}]]
        /\ cr'[c].pc = "look" /\ \A d \in Creates \ {c} : cr'[d] = cr[d]
    BY <1>t, <2>1 DEF CreatePCs
  <2>4. IntakeTypeOK'
    BY <1>0, <2>1, <2>2, <2>3 DEF IntakeTypeOK, DeviceType, Phases
  <2>5. KeyHasJob' /\ CreatesAgree'
    BY <1>0, <1>t, <2>1, <2>3 DEF KeyHasJob, CreatesAgree, Exists
  <2>6. UploadsAgree' /\ AnswersAgree'
    BY <1>0, <2>1 DEF UploadsAgree, AnswersAgree
  <2>7. DeviceAgrees'
    BY <2>2, IntakeNoneAssumption DEF DeviceAgrees
  <2> QED BY <2>4, <2>5, <2>6, <2>7 DEF IInv, Agreement
<1>3. ASSUME NEW u \in Uploads, SendChunk(u)
      PROVE  IInv'
  <2> DEFINE h == [NoUpload EXCEPT !.pc = "load", !.job = dev.job, !.seq = dev.seq]
  <2>1. /\ UNCHANGED <<setup, store, key, s3, cr, answered, losses, deaths>>
        /\ dev.phase = "upload" /\ dev' = [dev EXCEPT !.wait = u]
        /\ up' = [up EXCEPT ![u] = h]
    BY <1>3 DEF SendChunk
  <2>2. dev' \in DeviceType /\ dev'.wait = u /\ dev'.phase = "upload" /\ dev'.job = dev.job
    BY <1>t, <2>1 DEF DeviceType
  <2>3. dev.job \in Creates \cup {None} /\ dev.seq \in Chunks /\ dev.job = key /\ key # None
    BY <1>0, <1>t, <2>1 DEF DeviceType, DeviceAgrees
  <2> DEFINE h1 == [NoUpload EXCEPT !.pc = "load"]
             h2 == [h1 EXCEPT !.job = dev.job]
  <2>4. h2 \in Handler /\ h2.pc = "load" /\ h2.job = key
    <3>1. h1 \in Handler /\ h1.pc = "load"
      BY NoHandler DEF Handler
    <3> HIDE DEF h1
    <3> QED BY <2>3, <3>1 DEF Handler
  <2>5. h \in Handler /\ h.pc = "load" /\ h.job = key
    <3>1. h = [h2 EXCEPT !.seq = dev.seq]
      OBVIOUS
    <3> HIDE DEF h, h2
    <3> QED BY <2>3, <2>4, <3>1 DEF Handler
  <2> HIDE DEF h
  <2>6. /\ up' \in [Uploads -> Handler] /\ up'[u] = h
        /\ \A v \in Uploads \ {u} : up'[v] = up[v]
    BY <1>t, <2>1, <2>5
  <2>7. IntakeTypeOK'
    BY <1>0, <2>1, <2>2, <2>6 DEF IntakeTypeOK, DeviceType, Phases, Handler
  <2>8. UploadsAgree'
    BY <1>0, <2>1, <2>3, <2>5, <2>6 DEF UploadsAgree
  <2>9. KeyHasJob' /\ CreatesAgree' /\ AnswersAgree'
    BY <1>0, <2>1 DEF KeyHasJob, CreatesAgree, AnswersAgree, Exists
  <2>10. DeviceAgrees'
    BY <2>1, <2>2, <2>3, IntakeNoneAssumption DEF DeviceAgrees
  <2> QED BY <2>7, <2>8, <2>9, <2>10 DEF IInv, Agreement
<1>d. ASSUME NEW h \in Creates \cup Uploads, Die(h)
      PROVE  /\ UNCHANGED <<setup, store, key, s3, answered>>
             /\ losses' \in 0..MaxLosses /\ deaths' \in 0..losses'
             /\ dev' \in DeviceType /\ dev'.wait \in {dev.wait, None}
             /\ dev'.phase = dev.phase /\ dev'.job = dev.job
  BY <1>t, <1>u, <1>d DEF Die, DeviceType
<1>4. ASSUME NEW c \in Creates, CreateDies(c)
      PROVE  IInv'
  <2>1. Die(c) /\ UNCHANGED up /\ cr' = [cr EXCEPT ![c] = [pc |-> "over", seen |-> None]]
    BY <1>4 DEF CreateDies
  <2>2. /\ cr' \in [Creates -> [pc : CreatePCs, seen : Creates \cup {None}]]
        /\ cr'[c].pc = "over" /\ \A e \in Creates \ {c} : cr'[e] = cr[e]
    BY <1>t, <2>1 DEF CreatePCs
  <2>3. IntakeTypeOK'
    BY <1>0, <1>d, <2>1, <2>2 DEF IntakeTypeOK, DeviceType, Phases
  <2>4. KeyHasJob' /\ CreatesAgree'
    BY <1>0, <1>t, <1>d, <2>1, <2>2 DEF KeyHasJob, CreatesAgree, Exists
  <2>5. UploadsAgree' /\ AnswersAgree'
    BY <1>0, <1>d, <2>1 DEF UploadsAgree, AnswersAgree
  <2>6. DeviceAgrees'
    BY <1>0, <1>d, <2>1, IntakeNoneAssumption DEF DeviceAgrees
  <2> QED BY <2>3, <2>4, <2>5, <2>6 DEF IInv, Agreement
<1>5. ASSUME NEW u \in Uploads, UploadDies(u)
      PROVE  IInv'
  <2>1. Die(u) /\ UNCHANGED cr /\ up' = [up EXCEPT ![u] = NoUpload]
    BY <1>5 DEF UploadDies
  <2>2. /\ up' \in [Uploads -> Handler] /\ up'[u].pc = "idle"
        /\ \A v \in Uploads \ {u} : up'[v] = up[v]
    BY <1>t, <2>1, NoHandler
  <2>3. IntakeTypeOK'
    BY <1>0, <1>d, <2>1, <2>2 DEF IntakeTypeOK, DeviceType, Phases, Handler
  <2>4. KeyHasJob' /\ CreatesAgree' /\ AnswersAgree'
    BY <1>0, <1>d, <2>1 DEF KeyHasJob, CreatesAgree, AnswersAgree, Exists
  <2>5. UploadsAgree'
    BY <1>0, <1>d, <2>1, <2>2 DEF UploadsAgree
  <2>6. DeviceAgrees'
    BY <1>0, <1>d, <2>1, IntakeNoneAssumption DEF DeviceAgrees
  <2> QED BY <2>3, <2>4, <2>5, <2>6 DEF IInv, Agreement
<1> QED BY <1>1, <1>2, <1>3, <1>4, <1>5

LEMMA NextIInv == IInv /\ [IntakeNext]_jvars => IInv'
<1> SUFFICES ASSUME IInv, [IntakeNext]_jvars PROVE IInv'
  OBVIOUS
<1>1. CASE IntakeNext
  <2>1. CASE \E c \in Creates : createJob(c)
    BY <2>1, CreateSteps
  <2>2. CASE \E u \in Uploads : uploadChunk(u)
    BY <2>2, UploadSteps
  <2>3. CASE \/ StopWaiting
             \/ \E c \in Creates : SendCreate(c) \/ CreateDies(c)
             \/ \E u \in Uploads : SendChunk(u) \/ UploadDies(u)
    BY <2>3, DeviceSteps
  <2> QED BY <1>1, <2>1, <2>2, <2>3 DEF IntakeNext
<1>2. CASE UNCHANGED jvars
  BY <1>2 DEF jvars, IInv, IntakeTypeOK, Agreement, KeyHasJob, CreatesAgree, UploadsAgree,
     DeviceAgrees, AnswersAgree, Exists
<1> QED BY <1>1, <1>2

LEMMA Invariance == IntakeSpec => []IInv
BY InitIInv, NextIInv, PTL DEF IntakeSpec

(* Records, handlers and the device keep their types, whatever overlaps,   *)
(* is lost or dies.                                                        *)
THEOREM TypeCorrect == IntakeSpec => []IntakeTypeOK
<1>1. IInv => IntakeTypeOK
  BY DEF IInv
<1> QED BY <1>1, Invariance, PTL

(* However many attempts share an Idempotency-Key, overlap, are lost or    *)
(* die: every answer names one job, which stays stored.                    *)
THEOREM OneJobPerKey == IntakeSpec => []RetriesShareOneJob
<1>1. IInv => RetriesShareOneJob
  <2> SUFFICES ASSUME IInv, NEW j \in answered, NEW k \in answered
               PROVE  j = k /\ Exists(j) /\ key = j
    BY DEF RetriesShareOneJob
  <2>1. j = key /\ k = key /\ j \in Creates
    BY DEF IInv, Agreement, AnswersAgree, IntakeTypeOK
  <2> QED BY <2>1, IntakeNoneAssumption DEF IInv, Agreement, KeyHasJob
<1> QED BY <1>1, Invariance, PTL

(* The device and every upload handler work on the job the key stands for, *)
(* so that no chunk reaches the job of an attempt that lost the race.      *)
THEOREM UploadsHitTheJob == IntakeSpec => [](UploadsAgree /\ DeviceAgrees)
<1>1. IInv => UploadsAgree /\ DeviceAgrees
  BY DEF IInv, Agreement
<1> QED BY <1>1, Invariance, PTL


-----------------------------------------------------------------------------
(***************************************************************************)
(* Losers do not pile up: a job that is stored, is not the winner and is   *)
(* not about to be claimed or dropped by its handler was left by a handler *)
(* that died.                                                              *)
(***************************************************************************)
Orphans ==
    {j \in Creates : Exists(j) /\ j # key /\ cr[j].pc \notin {"claim", "winner", "drop"}}

OrphansDied == Cardinality(Orphans) <= deaths

(* No step but the death of its handler makes a job an orphan.             *)
LEMMA NoNewOrphan ==
    ASSUME IInv, [IntakeNext]_jvars, \A c \in Creates : ~CreateDies(c)
    PROVE  Orphans' \subseteq Orphans /\ deaths' \in Nat /\ deaths' >= deaths
<1>0. /\ IntakeTypeOK /\ KeyHasJob /\ CreatesAgree /\ UploadsAgree
      /\ deaths \in Nat /\ store \in [Creates -> Rec]
      /\ cr \in [Creates -> [pc : CreatePCs, seen : Creates \cup {None}]]
      /\ up \in [Uploads -> Handler]
  BY Bounds DEF IInv, Agreement, IntakeTypeOK, Handler
<1> SUFFICES /\ deaths' \in {deaths, deaths + 1}
             /\ \A j \in Creates :
                  Exists(j)' /\ j # key' /\ cr'[j].pc \notin {"claim", "winner", "drop"}
                  => Exists(j) /\ j # key /\ cr[j].pc \notin {"claim", "winner", "drop"}
  BY <1>0 DEF Orphans
<1>1. ASSUME NEW c \in Creates, createJob(c)
      PROVE  /\ deaths' = deaths
             /\ \A j \in Creates :
                  Exists(j)' /\ j # key' /\ cr'[j].pc \notin {"claim", "winner", "drop"}
                  => Exists(j) /\ j # key /\ cr[j].pc \notin {"claim", "winner", "drop"}
  <2>1. PICK from, to, seen : CreateStep(c, from, to, seen)
    BY <1>1 DEF createJob, getCreateIdem, Replay, StoreJob, setCreateIdemNx, LookUpWinner,
                deleteJob, AnswerWinner
  <2>2. /\ deaths' = deaths
        /\ \A j \in Creates \ {c} : cr'[j] = cr[j]
        /\ cr[c].pc = from /\ cr'[c].pc = to
    BY <1>0, <2>1 DEF CreateStep
  <2>3. /\ \A j \in Creates \ {c} : store'[j].state # "none" => store[j].state # "none"
        /\ key' \in {key, c}
    <3>1. CASE getCreateIdem(c) \/ Replay(c) \/ LookUpWinner(c) \/ AnswerWinner(c)
      BY <3>1 DEF getCreateIdem, Replay, LookUpWinner, AnswerWinner
    <3>2. CASE StoreJob(c)
      BY <1>0, <3>2 DEF StoreJob
    <3>3. CASE setCreateIdemNx(c)
      BY <3>3 DEF setCreateIdemNx
    <3>4. CASE deleteJob(c)
      BY <1>0, <3>4 DEF deleteJob, Dropped
    <3> QED BY <1>1, <3>1, <3>2, <3>3, <3>4 DEF createJob
  <2>3a. key # None => key' = key
    BY <1>1 DEF createJob, getCreateIdem, Replay, StoreJob, setCreateIdemNx, LookUpWinner,
                deleteJob, AnswerWinner, Claimed
  <2>3b. \A j \in Creates \ {c} : (Exists(j)' => Exists(j)) /\ (j # key' => j # key)
    BY <2>3, <2>3a, IntakeNoneAssumption DEF Exists
  <2>4. Exists(c)' /\ c # key' /\ cr'[c].pc \notin {"claim", "winner", "drop"}
        => Exists(c) /\ c # key /\ cr[c].pc \notin {"claim", "winner", "drop"}
    <3>0. cr[c].pc \in {"look", "hit", "store", "claim", "winner", "drop", "read"}
      BY <1>1 DEF createJob, getCreateIdem, Replay, StoreJob, setCreateIdemNx,
         LookUpWinner, deleteJob, AnswerWinner, CreateStep
    <3>1. c # key
      BY <1>0, <3>0, IntakeNoneAssumption DEF KeyHasJob
    <3>2. CASE StoreJob(c) \/ LookUpWinner(c)
      BY <1>0, <3>2 DEF StoreJob, LookUpWinner, CreateStep
    <3>3. CASE setCreateIdemNx(c)
      BY <1>0, <3>3 DEF setCreateIdemNx, CreateStep, Claimed
    <3>4. CASE deleteJob(c)
      BY <1>0, <3>4 DEF deleteJob, Exists, Dropped, NoRec
    <3>5. CASE getCreateIdem(c) \/ Replay(c) \/ AnswerWinner(c)
      BY <1>0, <3>1, <3>5 DEF getCreateIdem, Replay, AnswerWinner, CreateStep, Exists
    <3> QED BY <1>1, <3>2, <3>3, <3>4, <3>5 DEF createJob
  <2> QED BY <2>2, <2>3b, <2>4
<1>2. ASSUME NEW u \in Uploads, uploadChunk(u)
      PROVE  /\ UNCHANGED <<key, cr, deaths>>
             /\ \A j \in Creates : j # key => store'[j] = store[j]
  <2>1. up[u].job = key /\ UNCHANGED <<key, cr, deaths>>
    BY <1>0, <1>2 DEF uploadChunk, RefuseUpload, IgnoreDuplicate, KeepChunk, RejectOversize,
       CloseUpload, CloseBare, Accepts, storeAudioRef, setJob, Uploading, UploadsAgree
  <2> QED BY <1>0, <1>2, <2>1 DEF uploadChunk, RefuseUpload, IgnoreDuplicate, KeepChunk,
       RejectOversize, CloseUpload, CloseBare, storeAudioRef, setJob, InPlace
<1>3. ASSUME StopWaiting \/ \E u \in Uploads : SendChunk(u) \/ UploadDies(u)
      PROVE  UNCHANGED <<store, key, cr>> /\ deaths' \in {deaths, deaths + 1}
  BY <1>3 DEF StopWaiting, SendChunk, UploadDies, Die
<1>4. ASSUME NEW c \in Creates, SendCreate(c)
      PROVE  /\ UNCHANGED <<store, key, deaths>>
             /\ \A j \in Creates : cr'[j].pc \notin {"claim", "winner", "drop"}
                                   => cr[j].pc \notin {"claim", "winner", "drop"}
  BY <1>0, <1>4 DEF SendCreate
<1> QED BY <1>1, <1>2, <1>3, <1>4 DEF IntakeNext, jvars, Exists

LEMMA OrphansStep == IInv /\ OrphansDied /\ [IntakeNext]_jvars => OrphansDied'
<1> SUFFICES ASSUME IInv, OrphansDied, [IntakeNext]_jvars PROVE OrphansDied'
  OBVIOUS
<1>0. /\ deaths \in Nat /\ cr \in [Creates -> [pc : CreatePCs, seen : Creates \cup {None}]]
  BY Bounds DEF IInv, IntakeTypeOK
<1>1. IsFiniteSet(Orphans) /\ IsFiniteSet(Orphans') /\ Cardinality(Orphans) \in Nat
  <2>1. Orphans \subseteq Creates /\ Orphans' \subseteq Creates
    BY DEF Orphans
  <2> QED BY <2>1, LossAssumption, FS_Subset, FS_CardinalityType
<1>2. CASE \A c \in Creates : ~CreateDies(c)
  <2>1. Orphans' \subseteq Orphans /\ deaths' \in Nat /\ deaths' >= deaths
    BY <1>2, NoNewOrphan
  <2>2. Cardinality(Orphans') <= Cardinality(Orphans) /\ Cardinality(Orphans') \in Nat
    BY <1>1, <2>1, FS_Subset, FS_CardinalityType
  <2> QED BY <1>0, <1>1, <2>1, <2>2 DEF OrphansDied
<1>3. ASSUME NEW c \in Creates, CreateDies(c) PROVE OrphansDied'
  <2>1. /\ UNCHANGED <<store, key>> /\ deaths' = deaths + 1
        /\ \A j \in Creates \ {c} : cr'[j] = cr[j]
    BY <1>0, <1>3 DEF CreateDies, Die
  <2>2. Orphans' \subseteq Orphans \cup {c}
    BY <2>1 DEF Orphans, Exists
  <2>3. /\ IsFiniteSet(Orphans \cup {c})
        /\ Cardinality(Orphans \cup {c}) <= Cardinality(Orphans) + 1
        /\ Cardinality(Orphans \cup {c}) \in Nat
    <3>1. /\ IsFiniteSet(Orphans \cup {c})
          /\ Cardinality(Orphans \cup {c}) = IF c \in Orphans THEN Cardinality(Orphans)
                                             ELSE Cardinality(Orphans) + 1
      BY <1>1, FS_AddElement
    <3> QED BY <1>1, <3>1
  <2>4. Cardinality(Orphans') <= Cardinality(Orphans \cup {c}) /\ Cardinality(Orphans') \in Nat
    BY <1>1, <2>2, <2>3, FS_Subset, FS_CardinalityType
  <2> QED BY <1>0, <1>1, <2>1, <2>3, <2>4 DEF OrphansDied
<1> QED BY <1>2, <1>3

(* When no create runs, what is stored is the winner and at most one job   *)
(* per handler that died.                                                  *)
THEOREM FewOrphans == IntakeSpec => []NoOrphanJobs
<1>1. IntakeInit => OrphansDied
  <2> SUFFICES ASSUME IntakeInit PROVE OrphansDied
    OBVIOUS
  <2>1. Orphans = {}
    <3>1. \A j \in Creates : store[j].state = "none"
      BY RecordFacts DEF IntakeInit
    <3> QED BY <3>1 DEF Orphans, Exists
  <2> QED BY <2>1, FS_EmptySet DEF IntakeInit, OrphansDied
<1>2. IInv /\ OrphansDied => NoOrphanJobs
  <2> SUFFICES ASSUME IInv, OrphansDied, Quiet
               PROVE  Cardinality({j \in Creates : Exists(j)}) <= 1 + deaths
    BY DEF NoOrphanJobs
  <2> DEFINE E == {j \in Creates : Exists(j)}
  <2>1. E \subseteq Orphans \cup {key}
    BY DEF Orphans, Quiet
  <2>2. IsFiniteSet(Orphans) /\ Cardinality(Orphans) \in Nat
    <3>1. Orphans \subseteq Creates
      BY DEF Orphans
    <3> QED BY <3>1, LossAssumption, FS_Subset, FS_CardinalityType
  <2>3. /\ IsFiniteSet(Orphans \cup {key})
        /\ Cardinality(Orphans \cup {key}) <= Cardinality(Orphans) + 1
        /\ Cardinality(Orphans \cup {key}) \in Nat
    BY <2>2, FS_AddElement, FS_CardinalityType
  <2>4. Cardinality(E) <= Cardinality(Orphans \cup {key}) /\ Cardinality(E) \in Nat
    <3> HIDE DEF E
    <3> QED BY <2>1, <2>3, FS_Subset, FS_CardinalityType
  <2>5. deaths \in Nat
    BY Bounds DEF IInv, IntakeTypeOK
  <2> QED BY <2>2, <2>3, <2>4, <2>5 DEF OrphansDied
<1> QED BY <1>1, <1>2, Invariance, OrphansStep, PTL DEF IntakeSpec


-----------------------------------------------------------------------------
(***************************************************************************)
(* What the uploads of a device that repeats a chunk only when the attempt *)
(* before is over add up to.  Between two attempts the job has the chunks  *)
(* up to the one the device sends next, or that one too when its answer    *)
(* got lost, or all of them.  An attempt holds what the job has with its   *)
(* own chunk added; in memory the job has it as soon as the handler does,  *)
(* and nothing in between when the audio is on its way to S3.              *)
(***************************************************************************)
UpTo(n) == {k \in Chunks : k <= n}
Partial(n) == [state |-> "created", hwm |-> n, buf |-> UpTo(n),
               staged |-> FALSE, inline |-> {}]

TooLarge == ~setup.redis /\ setup.cap <= Final
AudioOf(rec) == IF rec.staged THEN s3[key] ELSE rec.inline
Whole(rec) == rec.state = "audio_received" /\ (setup.bare \/ AudioOf(rec) = Chunks)

AtRest ==
    LET rec == store[key]
        n == dev.seq IN
    /\ dev.phase = "upload" =>
         \/ rec = Partial(n - 1)
         \/ rec = Partial(n) /\ (n < Final \/ TooLarge)
         \/ Whole(rec) /\ n = Final
    /\ dev.phase = "done" => Whole(rec) \/ (rec = Partial(Final) /\ TooLarge)
    /\ dev.phase = "refused" => Whole(rec)
    /\ dev.phase = "failed" => rec.state = "created"

Staging(u) ==
    /\ up[u].seq = Final /\ up[u].rec = NewJob /\ up[u].parts = Chunks
    /\ setup.redis => store[key] = Partial(Final - 1)
    /\ ~setup.redis => store[key] = NewJob

Saving(u) ==
    /\ up[u].seq < Final => up[u].rec = Partial(up[u].seq)
    /\ up[u].seq = Final => Whole(up[u].rec)
    /\ setup.redis => store[key] = Partial(up[u].seq - 1)
    /\ ~setup.redis => store[key] = up[u].rec \/ store[key] = NewJob

OneUpload == \A u \in Uploads : up[u].pc # "idle" => dev.wait = u /\ up[u].seq = dev.seq

Untouched ==
    /\ \A j \in Creates : j # key \/ dev.phase = "create" => store[j] \in {NoRec, NewJob}
    /\ dev.phase = "create" => dev.seq = 0

Recording ==
    /\ OneUpload
    /\ Untouched
    /\ dev.phase # "create" /\ (\A u \in Uploads : up[u].pc \in {"idle", "load"}) => AtRest
    /\ \A u \in Uploads : /\ up[u].pc = "stage" => Staging(u)
                          /\ up[u].pc = "save" => Saving(u)

(* Changing a record makes it the record with these fields.                *)
LEMMA RecordEdits ==
    ASSUME NEW r \in Rec, NEW h \in (-1)..Final, NEW b \in SUBSET Chunks
    PROVE  [r EXCEPT !.hwm = h, !.buf = b]
             = [state |-> r.state, hwm |-> h, buf |-> b, staged |-> r.staged, inline |-> r.inline]
<1> DEFINE r1 == [r EXCEPT !.hwm = h]
<1>1. r1 \in Rec
      /\ r1 = [state |-> r.state, hwm |-> h, buf |-> r.buf, staged |-> r.staged,
               inline |-> r.inline]
  BY DEF Rec
<1>2. [r1 EXCEPT !.buf = b]
        = [state |-> r.state, hwm |-> h, buf |-> b, staged |-> r.staged, inline |-> r.inline]
  <2>1. r1.state = r.state /\ r1.hwm = h /\ r1.staged = r.staged /\ r1.inline = r.inline
    <3> HIDE DEF r1
    <3> QED BY <1>1
  <2> HIDE DEF r1
  <2> QED BY <1>1, <2>1 DEF Rec
<1> QED BY <1>2

LEMMA PartialFacts ==
    /\ Partial(-1) = NewJob
    /\ \A n \in (-1)..Final :
         /\ Partial(n) \in Rec /\ Partial(n).state = "created" /\ Partial(n).hwm = n
         /\ Emptied(Partial(n)) = NewJob
    /\ \A n \in Chunks :
         [Partial(n - 1) EXCEPT !.hwm = n, !.buf = @ \cup {n}] = Partial(n)
    /\ Partial(Final).buf = Chunks
<1>1. UpTo(-1) = {} /\ UpTo(Final) = Chunks
  BY Bounds DEF UpTo
<1>2. NewJob = [state |-> "created", hwm |-> -1, buf |-> {}, staged |-> FALSE, inline |-> {}]
  <2>1. NoRec \in Rec
    BY RecordFacts
  <2>2. /\ NoRec.hwm = -1 /\ NoRec.buf = {} /\ NoRec.staged = FALSE /\ NoRec.inline = {}
    BY DEF NoRec
  <2>3. NewJob = [state |-> "created", hwm |-> NoRec.hwm, buf |-> NoRec.buf,
                  staged |-> NoRec.staged, inline |-> NoRec.inline]
    BY <2>1 DEF NewJob, Rec
  <2> QED BY <2>2, <2>3, Zenon
<1>3. Partial(-1) = NewJob
  BY <1>1, <1>2 DEF Partial
<1>p. ASSUME NEW n \in (-1)..Final
      PROVE  /\ Partial(n) \in Rec /\ Partial(n).state = "created" /\ Partial(n).hwm = n
             /\ Partial(n).buf = UpTo(n) /\ Partial(n).staged = FALSE /\ Partial(n).inline = {}
  BY DEF Partial, Rec, UpTo
<1>4. ASSUME NEW n \in (-1)..Final
      PROVE  Emptied(Partial(n)) = NewJob
  <2>1. -1 \in (-1)..Final /\ {} \in SUBSET Chunks
    BY Bounds
  <2> DEFINE r == Partial(n)
  <2>2. /\ r \in Rec /\ r.state = "created" /\ r.staged = FALSE /\ r.inline = {}
    BY <1>p
  <2>3. Emptied(r) = [state |-> r.state, hwm |-> -1, buf |-> {}, staged |-> r.staged,
                      inline |-> r.inline]
    <3> HIDE DEF r
    <3> QED BY <2>1, <2>2, RecordEdits DEF Emptied
  <2> HIDE DEF r
  <2>4. Emptied(r) = NewJob
    BY <1>2, <2>2, <2>3, Zenon
  <2> QED BY <2>4 DEF r
<1>5. ASSUME NEW n \in Chunks
      PROVE  [Partial(n - 1) EXCEPT !.hwm = n, !.buf = @ \cup {n}] = Partial(n)
  <2>1. UpTo(n - 1) \cup {n} = UpTo(n) /\ UpTo(n) \in SUBSET Chunks
        /\ n \in (-1)..Final /\ n - 1 \in (-1)..Final
    BY Bounds DEF UpTo
  <2>2. [Partial(n - 1) EXCEPT !.hwm = n, !.buf = UpTo(n)] = Partial(n)
    <3> DEFINE r == Partial(n - 1)
    <3>1. r \in Rec /\ r.state = "created" /\ r.staged = FALSE /\ r.inline = {}
      BY <1>p, <2>1
    <3> HIDE DEF r
    <3>2. [r EXCEPT !.hwm = n, !.buf = UpTo(n)]
            = [state |-> r.state, hwm |-> n, buf |-> UpTo(n), staged |-> r.staged,
               inline |-> r.inline]
      BY <2>1, <3>1, RecordEdits
    <3>3. [r EXCEPT !.hwm = n, !.buf = UpTo(n)] = Partial(n)
      BY <3>1, <3>2, Zenon DEF Partial
    <3> QED BY <3>3 DEF r
  <2>3. [Partial(n - 1) EXCEPT !.hwm = n, !.buf = @ \cup {n}]
          = [Partial(n - 1) EXCEPT !.hwm = n, !.buf = UpTo(n)]
    BY <1>p, <2>1
  <2> QED BY <2>2, <2>3
<1>7. Partial(Final).buf = Chunks
  BY <1>1 DEF Partial
<1> QED BY <1>3, <1>p, <1>4, <1>5, <1>7

LEMMA InitRecording == IntakeInit => Recording
<1> SUFFICES ASSUME IntakeInit PROVE Recording
  OBVIOUS
<1>1. /\ \A u \in Uploads : up[u].pc = "idle"
      /\ dev.phase = "create" /\ dev.seq = 0
      /\ \A j \in Creates : store[j] = NoRec
  BY DEF IntakeInit, NoUpload
<1> QED BY <1>1 DEF Recording, OneUpload, Untouched

(* In between, the record of the job is one of few.                        *)
LEMMA RecordingFacts ==
    ASSUME IInv, Recording
    PROVE  /\ dev \in DeviceType /\ dev.seq \in Nat /\ dev.seq <= Final /\ dev.seq \in Chunks
           /\ up \in [Uploads -> Handler] /\ store \in [Creates -> Rec]
           /\ \A u \in Uploads : up[u].pc # "idle" =>
                /\ dev.phase = "upload" /\ dev.wait = u /\ up[u].seq = dev.seq
                /\ up[u].job = key /\ key \in Creates
                /\ \A v \in Uploads \ {u} : up[v].pc = "idle"
           /\ dev.phase # "create" => key \in Creates /\ dev.job = key /\ Exists(key)
<1>1. /\ IntakeTypeOK /\ KeyHasJob /\ UploadsAgree /\ DeviceAgrees /\ OneUpload
  BY DEF IInv, Agreement, Recording
<1>2. dev \in DeviceType /\ up \in [Uploads -> Handler] /\ store \in [Creates -> Rec]
  BY <1>1 DEF IntakeTypeOK, DeviceType, Phases, Handler
<1>3. dev.seq \in Chunks /\ dev.seq \in Nat /\ dev.seq <= Final
  BY <1>2, Bounds DEF DeviceType
<1>4. ASSUME NEW u \in Uploads, up[u].pc # "idle"
      PROVE  /\ dev.phase = "upload" /\ dev.wait = u /\ up[u].seq = dev.seq
             /\ up[u].job = key /\ key \in Creates
             /\ \A v \in Uploads \ {u} : up[v].pc = "idle"
  BY <1>1, <1>4 DEF OneUpload, UploadsAgree, DeviceAgrees, IntakeTypeOK
<1>5. dev.phase # "create" => key \in Creates /\ dev.job = key /\ Exists(key)
  BY <1>1 DEF DeviceAgrees, KeyHasJob, IntakeTypeOK
<1> QED BY <1>2, <1>3, <1>4, <1>5


(* A step that leaves the uploads alone, of a create handler or of the     *)
(* device while it has no job or does not wait for an upload.              *)
LEMMA CreateKeepsRecording ==
    ASSUME IInv, IInv', Recording, NEW c \in Creates, UNCHANGED <<setup, s3, up>>,
           key' = key \/ key = None,
           \A j \in Creates : \/ store'[j] = store[j]
                              \/ j = c /\ c # key /\ store'[j] \in {NoRec, NewJob},
           \/ dev' = dev
           \/ dev.phase = "create" /\ dev'.seq = dev.seq /\ dev'.phase \in {"create", "upload"}
           \/ dev'.wait = None /\ dev'.phase = dev.phase /\ dev'.seq = dev.seq
              /\ dev.wait \notin Uploads
    PROVE  Recording'
<1>0. /\ dev.phase # "create" => key \in Creates /\ Exists(key)
      /\ dev'.phase # "create" => key' \in Creates /\ Exists(key)'
      /\ \A u \in Uploads : up[u].pc # "idle" => dev.phase = "upload" /\ dev.wait = u
  BY RecordingFacts DEF IInv, Agreement, KeyHasJob, DeviceAgrees, IntakeTypeOK
<1>1. OneUpload' /\ (\A u \in Uploads : up[u].pc # "idle" => dev' = dev)
  BY <1>0 DEF Recording, OneUpload
<1>2. Untouched'
  <2>1. dev'.phase = "create" => dev.phase = "create" /\ dev'.seq = 0
    BY DEF Recording, Untouched
  <2>2. ASSUME NEW j \in Creates, j # key' \/ dev'.phase = "create"
        PROVE  store'[j] \in {NoRec, NewJob}
    <3>1. j # key \/ dev.phase = "create"
      BY <1>0, <2>1, <2>2, IntakeNoneAssumption DEF Recording, Untouched
    <3> QED BY <3>1 DEF Recording, Untouched
  <2> QED BY <2>1, <2>2 DEF Untouched
<1>3. CASE dev.phase # "create"
  <2>1. key' = key /\ store'[key] = store[key] /\ key \in Creates
    BY <1>0, <1>3, IntakeNoneAssumption
  <2>2. dev'.phase = dev.phase /\ dev'.seq = dev.seq
    BY <1>3
  <2>3. AtRest => AtRest'
    BY <2>1, <2>2 DEF AtRest, Whole, AudioOf, TooLarge
  <2>4. \A u \in Uploads : /\ Staging(u) => Staging(u)'
                           /\ Saving(u) => Saving(u)'
    BY <2>1 DEF Staging, Saving, Whole, AudioOf
  <2> QED BY <1>1, <1>2, <1>3, <2>3, <2>4 DEF Recording
<1>4. CASE dev.phase = "create"
  <2>1. \A u \in Uploads : up'[u].pc = "idle"
    BY <1>0, <1>4
  <2>2. dev'.seq = 0 /\ dev'.phase \in {"create", "upload"}
    BY <1>4 DEF Recording, Untouched
  <2>3. dev'.phase = "upload" => AtRest'
    <3>1. SUFFICES ASSUME dev'.phase = "upload" PROVE AtRest'
      OBVIOUS
    <3>2. PICK k \in Creates : k = key'
      BY <1>0, <3>1
    <3>3. store'[k] \in {NoRec, NewJob} /\ store'[k].state # "none"
      BY <1>0, <1>4, <3>1, <3>2 DEF Recording, Untouched, Exists
    <3>4. store'[key'] = Partial(dev'.seq - 1)
      <4>1. dev'.seq - 1 = -1
        BY <2>2
      <4>2. store'[k] = NewJob
        BY <3>3, RecordFacts
      <4> QED BY <3>2, <4>1, <4>2, PartialFacts
    <3> QED BY <3>1, <3>4 DEF AtRest
  <2> QED BY <1>1, <1>2, <2>1, <2>2, <2>3 DEF Recording
<1> QED BY <1>3, <1>4

LEMMA CreateRecording == ASSUME IInv, IInv', Recording, NEW c \in Creates, createJob(c)
                         PROVE  Recording'
<1>0. /\ IntakeTypeOK /\ KeyHasJob /\ DeviceAgrees /\ store \in [Creates -> Rec]
      /\ dev \in DeviceType
  BY DEF IInv, Agreement, IntakeTypeOK, DeviceType, Phases
<1>1. UNCHANGED <<setup, s3, up>> /\ cr[c].pc # "over"
  BY DEF createJob, getCreateIdem, Replay, StoreJob, setCreateIdemNx, LookUpWinner, deleteJob,
         AnswerWinner, CreateStep
<1>2. key' = key \/ key = None
  BY DEF createJob, getCreateIdem, Replay, StoreJob, setCreateIdemNx, LookUpWinner, deleteJob,
         AnswerWinner, Claimed
<1>3. c # key
  BY <1>0, <1>1, IntakeNoneAssumption DEF KeyHasJob
<1>4. \A j \in Creates : store'[j] = store[j] \/ (j = c /\ store'[j] \in {NoRec, NewJob})
  <2>1. CASE StoreJob(c)
    BY <1>0, <2>1 DEF StoreJob
  <2>2. CASE deleteJob(c)
    BY <1>0, <2>2 DEF deleteJob, Dropped
  <2>3. CASE ~StoreJob(c) /\ ~deleteJob(c)
    BY <2>3 DEF createJob, getCreateIdem, Replay, setCreateIdemNx, LookUpWinner, AnswerWinner
  <2> QED BY <2>1, <2>2, <2>3
<1>5. \/ dev' = dev
      \/ dev.phase = "create" /\ dev'.seq = dev.seq /\ dev'.phase \in {"create", "upload"}
  <2>1. dev' = dev \/ \E job : Answer(c, 201, job)
    BY DEF createJob, getCreateIdem, Replay, StoreJob, setCreateIdemNx, LookUpWinner, deleteJob,
         AnswerWinner, Waits, Created
  <2>2. ASSUME NEW job, Answer(c, 201, job), dev' # dev
        PROVE  dev.phase = "create" /\ dev'.seq = dev.seq /\ dev'.phase \in {"create", "upload"}
    <3>1. dev.wait = c /\ dev.phase = "create"
      BY <1>0, <2>2 DEF Answer, DeviceAgrees
    <3>2. dev' = [dev EXCEPT !.phase = "upload", !.job = job, !.wait = None]
          \/ dev' = [dev EXCEPT !.wait = None]
      BY <2>2, <3>1 DEF Answer, Hears
    <3> QED BY <1>0, <3>1, <3>2 DEF DeviceType
  <2> QED BY <2>1, <2>2
<1> QED BY <1>1, <1>2, <1>3, <1>4, <1>5, CreateKeepsRecording

(* The end of an attempt, and its next step *)
LEMMA UploadEnds ==
    ASSUME IInv, Recording, NEW u \in Uploads, up[u].pc # "idle",
           up' = [up EXCEPT ![u] = NoUpload], UNCHANGED <<key, setup, s3>>,
           \A j \in Creates : j # key => store'[j] = store[j],
           dev'.phase # "create", AtRest'
    PROVE  Recording'
<1>1. \A v \in Uploads : up'[v].pc = "idle"
  BY RecordingFacts, NoHandler
<1>2. dev.phase # "create"
  BY RecordingFacts
<1> QED BY <1>1, <1>2 DEF Recording, OneUpload, Untouched

LEMMA UploadGoes ==
    ASSUME IInv, Recording, NEW u \in Uploads, up[u].pc # "idle",
           NEW h \in Handler, h.pc \in {"stage", "save"}, h.seq = up[u].seq,
           up' = [up EXCEPT ![u] = h], UNCHANGED <<key, setup, dev>>,
           \A j \in Creates : j # key => store'[j] = store[j],
           h.pc = "stage" => Staging(u)', h.pc = "save" => Saving(u)'
    PROVE  Recording'
<1>0. /\ dev.phase = "upload" /\ dev.wait = u /\ up[u].seq = dev.seq
      /\ up \in [Uploads -> Handler]
      /\ \A v \in Uploads \ {u} : up[v].pc = "idle"
  BY RecordingFacts
<1>1. up'[u] = h /\ \A v \in Uploads \ {u} : up'[v].pc = "idle"
  BY <1>0
<1>2. OneUpload'
  BY <1>0, <1>1 DEF OneUpload
<1>3. Untouched'
  BY <1>0 DEF Recording, Untouched
<1> QED BY <1>1, <1>2, <1>3 DEF Recording


(* What the device makes of the answer to the chunk it waits for.          *)
LEMMA UploadHeard ==
    ASSUME IInv, Recording, NEW u \in Uploads, up[u].pc # "idle",
           NEW status \in {200, 400, 409}, Over(u, status)
    PROVE  /\ up' = [up EXCEPT ![u] = NoUpload]
           /\ \/ dev'.phase = "upload" /\ dev'.seq = dev.seq
              \/ status = 200 /\ dev.seq < Final /\ dev'.phase = "upload" /\ dev'.seq = dev.seq + 1
              \/ status = 200 /\ dev.seq = Final /\ dev'.phase = "done"
              \/ status = 409 /\ dev'.phase = "refused"
              \/ status = 400 /\ dev'.phase = "failed"
<1>1. /\ dev \in DeviceType /\ dev.wait = u /\ dev.phase = "upload"
      /\ dev.seq \in Nat /\ dev.seq <= Final
  BY RecordingFacts
<1>2. dev' = Hears(status, None) \/ dev' = [dev EXCEPT !.wait = None]
  BY <1>1 DEF Over, Answer
<1>3. CASE dev' = [dev EXCEPT !.wait = None]
  BY <1>1, <1>3 DEF DeviceType, Over
<1>4. CASE dev' = Hears(status, None)
  <2>1. CASE status = 200 /\ dev.seq < Final
    <3>1. dev' = [dev EXCEPT !.seq = @ + 1, !.wait = None]
      BY <1>1, <1>4, <2>1 DEF Hears
    <3>2. dev'.phase = dev.phase /\ dev'.seq = dev.seq + 1
      BY <1>1, <3>1 DEF DeviceType
    <3> QED BY <1>1, <2>1, <3>2 DEF Over
  <2>2. CASE status = 200 /\ dev.seq = Final
    <3>1. dev' = [dev EXCEPT !.phase = "done", !.wait = None]
      BY <1>1, <1>4, <2>2, Bounds DEF Hears
    <3> QED BY <1>1, <2>2, <3>1 DEF DeviceType, Over
  <2>3. CASE status = 409
    <3>1. dev' = [dev EXCEPT !.phase = "refused", !.wait = None]
      BY <1>1, <1>4, <2>3 DEF Hears
    <3> QED BY <1>1, <2>3, <3>1 DEF DeviceType, Over
  <2>4. CASE status = 400
    <3>1. dev' = [dev EXCEPT !.phase = "failed", !.wait = None]
      BY <1>1, <1>4, <2>4 DEF Hears
    <3> QED BY <1>1, <2>4, <3>1 DEF DeviceType, Over
  <2> QED BY <1>1, <2>1, <2>2, <2>3, <2>4, Bounds
<1> QED BY <1>2, <1>3, <1>4

(* A chunk that is accepted finds the job with all chunks before it, and   *)
(* adding it makes it the job with this one too.                           *)
LEMMA AcceptedChunk ==
    ASSUME IInv, Recording, NEW u \in Uploads, Accepts(u)
    PROVE  /\ Stored(u) = store[key] /\ store[key].state = "created"
           /\ store[key] = Partial(up[u].seq - 1)
              \/ (Bare(u) /\ \E n \in (-1)..Final : store[key] = Partial(n))
           /\ setup.redis => store[key] = Partial(up[u].seq - 1)
           /\ ~Bare(u) => WithChunk(u) = Partial(up[u].seq)
<1>0. /\ up[u].pc = "load" /\ Stored(u).state = "created" /\ ~Duplicate(u)
  BY DEF Accepts
<1>1. /\ dev.phase = "upload" /\ up[u].seq = dev.seq /\ up[u].job = key
      /\ up[u].seq \in Chunks /\ dev.seq \in Nat /\ dev.seq <= Final
      /\ \A v \in Uploads \ {u} : up[v].pc = "idle"
  BY <1>0, RecordingFacts
<1>2. AtRest /\ Stored(u) = store[key]
  BY <1>0, <1>1 DEF Recording, Stored
<1>3. store[key] = Partial(dev.seq - 1) \/ store[key] = Partial(dev.seq)
  BY <1>0, <1>1, <1>2 DEF AtRest, Whole
<1>4. dev.seq - 1 \in (-1)..Final /\ dev.seq \in (-1)..Final
  BY <1>1, Bounds
<1>5. ~Bare(u) => store[key] = Partial(dev.seq - 1)
  <2> SUFFICES ASSUME ~Bare(u), store[key] = Partial(dev.seq) PROVE FALSE
    BY <1>3
  <2>1. store[key].hwm = dev.seq
    BY <1>4, PartialFacts
  <2> QED BY <1>0, <1>1, <1>2, <2>1 DEF Duplicate
<1>6. ~Bare(u) => WithChunk(u) = Partial(up[u].seq)
  <2> SUFFICES ASSUME ~Bare(u) PROVE WithChunk(u) = Partial(up[u].seq)
    OBVIOUS
  <2>1. PICK n \in Chunks : n = up[u].seq
    BY <1>1
  <2>2. Stored(u) = Partial(n - 1)
    BY <1>1, <1>2, <1>5, <2>1
  <2>3. WithChunk(u) = [Partial(n - 1) EXCEPT !.hwm = n, !.buf = @ \cup {n}]
    BY <2>1, <2>2, Zenon DEF WithChunk
  <2> QED BY <2>1, <2>3, PartialFacts, Zenon
<1>7. setup.redis => store[key] = Partial(up[u].seq - 1)
  <2> SUFFICES ASSUME setup.redis, store[key] = Partial(dev.seq) PROVE store[key] = Partial(dev.seq - 1)
    BY <1>1, <1>3
  <2>1. CASE dev.seq = Final
    BY <1>0, <1>1, <1>2, <2>1 DEF AtRest, TooLarge, Whole
  <2>2. CASE dev.seq # Final
    <3>1. ~Bare(u)
      BY <1>1, <2>2 DEF Bare, Closing
    <3> QED BY <1>5, <3>1
  <2> QED BY <2>1, <2>2
<1> QED BY <1>0, <1>1, <1>2, <1>3, <1>4, <1>5, <1>6, <1>7

LEMMA RefusedRecording ==
    ASSUME IInv, Recording, NEW u \in Uploads, RefuseUpload(u) \/ IgnoreDuplicate(u)
    PROVE  Recording'
<1>0. up[u].pc = "load" /\ UNCHANGED <<store, s3, setup, key>>
  BY DEF RefuseUpload, IgnoreDuplicate, Uploading
<1>1. /\ dev.phase = "upload" /\ up[u].seq = dev.seq /\ up[u].job = key /\ key \in Creates
      /\ up[u].seq \in Chunks /\ dev.seq \in Nat /\ dev.seq <= Final
      /\ Exists(key)
      /\ \A v \in Uploads \ {u} : up[v].pc = "idle"
  BY <1>0, RecordingFacts
<1>2. AtRest /\ Stored(u) = store[key]
  BY <1>0, <1>1 DEF Recording, Stored
<1>3. /\ Partial(dev.seq - 1).state = "created" /\ Partial(dev.seq - 1).hwm = dev.seq - 1
      /\ Partial(dev.seq).state = "created"
  <2>1. dev.seq - 1 \in (-1)..Final /\ dev.seq \in (-1)..Final
    BY <1>1, Bounds
  <2> QED BY <2>1, PartialFacts
<1>4. CASE RefuseUpload(u)
  <2>1. Whole(store[key]) /\ dev.seq = Final
    BY <1>1, <1>2, <1>3, <1>4 DEF AtRest, RefuseUpload
  <2>2. Whole(store[key])'
    BY <1>0, <2>1 DEF Whole, AudioOf
  <2>3. Over(u, 409)
    BY <1>4 DEF RefuseUpload
  <2>4. (dev'.phase = "upload" /\ dev'.seq = dev.seq) \/ dev'.phase = "refused"
    BY <1>0, <2>3, UploadHeard
  <2>5. AtRest'
    BY <2>1, <2>2, <2>4 DEF AtRest
  <2>6. up' = [up EXCEPT ![u] = NoUpload]
    BY <1>0, <2>3, UploadHeard
  <2> QED BY <1>0, <2>4, <2>5, <2>6, UploadEnds
<1>5. CASE IgnoreDuplicate(u)
  <2>1. store[key].state = "created" /\ dev.seq <= store[key].hwm
    BY <1>1, <1>2, <1>5 DEF IgnoreDuplicate, Duplicate
  <2>2. store[key] = Partial(dev.seq) /\ (dev.seq < Final \/ TooLarge)
    <3>1. store[key] # Partial(dev.seq - 1)
      BY <1>1, <1>3, <2>1
    <3> QED BY <1>1, <1>2, <2>1, <3>1 DEF AtRest, Whole
  <2>3. Over(u, 200)
    BY <1>5 DEF IgnoreDuplicate
  <2>4. \/ dev'.phase = "upload" /\ dev'.seq = dev.seq
        \/ dev.seq < Final /\ dev'.phase = "upload" /\ dev'.seq = dev.seq + 1
        \/ dev.seq = Final /\ dev'.phase = "done"
    BY <1>0, <2>3, UploadHeard
  <2>5. AtRest'
    <3>1. CASE dev'.phase = "upload" /\ dev'.seq = dev.seq
      BY <1>0, <2>2, <3>1 DEF AtRest, TooLarge
    <3>2. CASE dev'.phase = "upload" /\ dev'.seq = dev.seq + 1
      <4>1. dev'.seq - 1 = dev.seq
        BY <1>1, <3>2
      <4> QED BY <1>0, <2>2, <3>2, <4>1 DEF AtRest
    <3>3. CASE dev.seq = Final /\ dev'.phase = "done"
      <4>1. store'[key'] = Partial(Final) /\ TooLarge'
        BY <1>0, <1>1, <2>2, <3>3, Bounds DEF TooLarge
      <4> QED BY <3>3, <4>1 DEF AtRest
    <3> QED BY <2>4, <3>1, <3>2, <3>3
  <2>6. up' = [up EXCEPT ![u] = NoUpload]
    BY <1>0, <2>3, UploadHeard
  <2> QED BY <1>0, <2>4, <2>5, <2>6, UploadEnds
<1> QED BY <1>4, <1>5


(* What WithInline leaves in the record is its own audio.                  *)
LEMMA InlineAudio ==
    ASSUME NEW rec \in Rec, NEW parts \in SUBSET Chunks
    PROVE  WithInline(rec, parts).inline = parts /\ ~WithInline(rec, parts).staged
<1> DEFINE r1 == [rec EXCEPT !.inline = parts]
           r2 == [r1 EXCEPT !.staged = FALSE]
           r3 == [r2 EXCEPT !.state = "audio_received"]
<1>1. r1 \in Rec /\ r1.inline = parts
  BY DEF Rec
<1> HIDE DEF r1
<1>2. r2 \in Rec /\ r2.inline = parts /\ ~r2.staged
  BY <1>1 DEF Rec
<1> HIDE DEF r2
<1>3. r3.inline = parts /\ ~r3.staged
  BY <1>2 DEF Rec
<1> QED BY <1>3 DEF WithInline, r1, r2

LEMMA InPlaceElsewhere ==
    ASSUME IInv, NEW u \in Uploads, up[u].job = key, NEW rec, InPlace(u, rec)
    PROVE  /\ \A j \in Creates : j # key => store'[j] = store[j]
           /\ setup.redis => store' = store
           /\ ~setup.redis /\ key \in Creates => store'[key] = rec
<1>1. store \in [Creates -> Rec]
  BY DEF IInv, IntakeTypeOK
<1> QED BY <1>1 DEF InPlace

LEMMA KeepRecording == ASSUME IInv, Recording, NEW u \in Uploads, KeepChunk(u)
                       PROVE  Recording'
<1>1. /\ Accepts(u) /\ ~Closing(u) /\ InPlace(u, WithChunk(u))
      /\ UNCHANGED <<key, setup, dev, s3>>
      /\ up' = [up EXCEPT ![u].pc = "save", ![u].rec = WithChunk(u)]
  BY DEF KeepChunk, Uploading
<1>2. /\ up[u].pc # "idle" /\ up[u].job = key /\ key \in Creates /\ up \in [Uploads -> Handler]
      /\ up[u].seq \in Nat /\ up[u].seq < Final /\ up[u].seq \in (-1)..Final
      /\ up[u].parts \in SUBSET Chunks
  <2>1. up[u].pc = "load"
    BY <1>1 DEF Accepts
  <2>2. /\ up[u].job = key /\ key \in Creates /\ up \in [Uploads -> Handler]
        /\ up[u].seq \in Nat /\ up[u].seq <= Final
    BY <2>1, RecordingFacts
  <2>3. up[u].seq # Final
    BY <1>1 DEF Closing
  <2> QED BY <2>1, <2>2, <2>3, Bounds DEF Handler
<1>3. WithChunk(u) = Partial(up[u].seq) /\ (setup.redis => store[key] = Partial(up[u].seq - 1))
  BY <1>1, AcceptedChunk DEF Bare
<1> DEFINE rec == Partial(up[u].seq)
           h == Moved(u, "save", rec, up[u].parts)
<1>4. rec \in Rec
  BY <1>2, PartialFacts
<1> HIDE DEF rec
<1>5. h \in Handler /\ up' = [up EXCEPT ![u] = h]
  <2>1. up' = [up EXCEPT ![u].pc = "save", ![u].rec = rec]
    BY <1>1, <1>3 DEF rec
  <2>2. h \in Handler
    BY <1>2, <1>4, MovedHandler
  <2> QED BY <1>2, <1>4, <2>1, <2>2, HandlerMoves
<1>6. h.pc = "save" /\ h.seq = up[u].seq /\ h.rec = rec
  BY DEF Moved
<1> HIDE DEF h
<1>7. /\ \A j \in Creates : j # key => store'[j] = store[j]
      /\ setup.redis => store' = store
      /\ ~setup.redis => store'[key] = rec
  BY <1>1, <1>2, <1>3, InPlaceElsewhere DEF rec
<1>8. Saving(u)'
  <2>1. up'[u] = h
    BY <1>2, <1>5
  <2> QED BY <1>1, <1>2, <1>3, <1>6, <1>7, <2>1 DEF Saving, rec
<1> QED BY <1>1, <1>2, <1>5, <1>6, <1>7, <1>8, UploadGoes

LEMMA CloseRecording == ASSUME IInv, Recording, NEW u \in Uploads, CloseUpload(u)
                        PROVE  Recording'
<1> DEFINE kept == WithInline(Emptied(WithChunk(u)), mergeAudioChunks(u))
           rec == IF setup.s3 THEN Emptied(WithChunk(u)) ELSE kept
           to == IF setup.s3 THEN "stage" ELSE "save"
<1>1. /\ Accepts(u) /\ Closing(u) /\ ~Bare(u) /\ InPlace(u, rec)
      /\ UNCHANGED <<key, setup, dev, s3>>
      /\ up' = [up EXCEPT ![u] = [up[u] EXCEPT !.pc = to, !.rec = rec,
                                              !.parts = mergeAudioChunks(u)]]
  BY DEF CloseUpload, Uploading
<1>2. /\ up[u].pc # "idle" /\ up[u].job = key /\ key \in Creates /\ up \in [Uploads -> Handler]
      /\ up[u].seq = Final /\ Final \in (-1)..Final
  <2>1. up[u].pc = "load"
    BY <1>1 DEF Accepts
  <2> QED BY <1>1, <2>1, RecordingFacts, Bounds DEF Closing
<1>3. /\ WithChunk(u) = Partial(Final) /\ (setup.redis => store[key] = Partial(Final - 1))
      /\ mergeAudioChunks(u) = Chunks /\ Emptied(WithChunk(u)) = NewJob
  <2>1. WithChunk(u) = Partial(Final) /\ (setup.redis => store[key] = Partial(Final - 1))
    BY <1>1, <1>2, AcceptedChunk
  <2>2. Partial(Final).buf = Chunks /\ Emptied(Partial(Final)) = NewJob
    BY <1>2, PartialFacts
  <2> QED BY <2>1, <2>2, Zenon DEF mergeAudioChunks
<1>4. /\ rec = IF setup.s3 THEN NewJob ELSE WithInline(NewJob, Chunks)
      /\ rec \in Rec
  <2>1. rec = IF setup.s3 THEN NewJob ELSE WithInline(NewJob, Chunks)
    BY <1>3, Zenon
  <2>2. NewJob \in Rec /\ WithInline(NewJob, Chunks) \in Rec
    BY RecordFacts, InlineRecord
  <2> QED BY <2>1, <2>2, Zenon
<1>5. to \in {"stage", "save"} /\ (to = "stage" <=> setup.s3)
  OBVIOUS
<1> HIDE DEF rec, to
<1> DEFINE h == Moved(u, to, rec, Chunks)
<1>6. h \in Handler /\ up' = [up EXCEPT ![u] = h]
  <2>1. h \in Handler
    BY <1>2, <1>4, <1>5, MovedHandler
  <2>2. \A a \in {"stage", "save"}, b \in Rec, c \in SUBSET Chunks :
          [up[u] EXCEPT !.pc = a, !.rec = b, !.parts = c] = Moved(u, a, b, c)
    BY <1>2, HandlerMovesWithParts
  <2>3. [up[u] EXCEPT !.pc = to, !.rec = rec, !.parts = Chunks] = h
    <3>1. Chunks \in SUBSET Chunks
      OBVIOUS
    <3> QED BY <1>4, <1>5, <2>2, <3>1, Zenon
  <2>4. up' = [up EXCEPT ![u] = [up[u] EXCEPT !.pc = to, !.rec = rec, !.parts = Chunks]]
    BY <1>1, <1>3, Zenon
  <2> QED BY <2>1, <2>3, <2>4, Zenon
<1>7. h.pc = to /\ h.seq = up[u].seq /\ h.rec = rec /\ h.parts = Chunks
  BY DEF Moved
<1> HIDE DEF h
<1>8. /\ \A j \in Creates : j # key => store'[j] = store[j]
      /\ setup.redis => store' = store
      /\ ~setup.redis => store'[key] = rec
  BY <1>1, <1>2, InPlaceElsewhere
<1>9. up'[u] = h
  BY <1>2, <1>6
<1>10. to = "stage" => Staging(u)'
  BY <1>1, <1>2, <1>3, <1>4, <1>5, <1>7, <1>8, <1>9 DEF Staging
<1>11. to = "save" => Saving(u)'
  <2> SUFFICES ASSUME to = "save" PROVE Saving(u)'
    OBVIOUS
  <2>1. rec = WithInline(NewJob, Chunks)
    BY <1>4, <1>5
  <2>2. rec.state = "audio_received" /\ rec.inline = Chunks /\ ~rec.staged
    BY <2>1, RecordFacts, InlineRecord, InlineAudio
  <2>3. /\ up'[u].seq = Final /\ ~(Final < Final)
        /\ up'[u].rec.state = "audio_received" /\ up'[u].rec.inline = Chunks
        /\ ~up'[u].rec.staged
    BY <1>2, <1>7, <1>9, <2>2, Bounds
  <2>4. /\ setup.redis => store'[key] = Partial(Final - 1)
        /\ ~setup.redis => store'[key] = up'[u].rec
    BY <1>3, <1>7, <1>8, <1>9
  <2> QED BY <1>1, <2>3, <2>4 DEF Saving, Whole, AudioOf
<1> QED BY <1>1, <1>2, <1>5, <1>6, <1>7, <1>8, <1>10, <1>11, UploadGoes


LEMMA BareRecording == ASSUME IInv, Recording, NEW u \in Uploads, CloseBare(u)
                       PROVE  Recording'
<1> DEFINE rec == [Emptied(Stored(u)) EXCEPT !.state = "audio_received"]
<1>1. /\ Accepts(u) /\ Closing(u) /\ setup.bare /\ InPlace(u, rec)
      /\ UNCHANGED <<key, setup, dev, s3>>
      /\ up' = [up EXCEPT ![u].pc = "save", ![u].rec = rec]
  BY DEF CloseBare, Bare, Uploading
<1>2. /\ up[u].pc # "idle" /\ up[u].job = key /\ key \in Creates /\ up \in [Uploads -> Handler]
      /\ up[u].seq = Final /\ Final \in (-1)..Final /\ up[u].parts \in SUBSET Chunks
  <2>1. up[u].pc = "load"
    BY <1>1 DEF Accepts
  <2> QED BY <1>1, <2>1, RecordingFacts, Bounds DEF Closing, Handler
<1>3. setup.redis => store[key] = Partial(Final - 1)
  BY <1>1, <1>2, AcceptedChunk
<1>4. rec \in Rec /\ rec.state = "audio_received"
  <2>1. Stored(u) \in Rec
    BY <1>2, RecordingFacts DEF Stored
  <2>2. Emptied(Stored(u)) \in Rec
    <3>1. -1 \in (-1)..Final /\ {} \in SUBSET Chunks
      BY Bounds
    <3> QED BY <2>1, <3>1, RecordEdits DEF Emptied, Rec
  <2> QED BY <2>2 DEF Rec
<1> HIDE DEF rec
<1> DEFINE h == Moved(u, "save", rec, up[u].parts)
<1>5. h \in Handler /\ up' = [up EXCEPT ![u] = h]
  <2>1. h \in Handler
    BY <1>2, <1>4, MovedHandler
  <2> QED BY <1>1, <1>2, <1>4, <2>1, HandlerMoves
<1>6. h.pc = "save" /\ h.seq = up[u].seq /\ h.rec = rec
  BY DEF Moved
<1> HIDE DEF h
<1>7. /\ \A j \in Creates : j # key => store'[j] = store[j]
      /\ setup.redis => store' = store
      /\ ~setup.redis => store'[key] = rec
  BY <1>1, <1>2, InPlaceElsewhere
<1>8. Saving(u)'
  <2>1. /\ up'[u].seq = Final /\ ~(Final < Final)
        /\ up'[u].rec.state = "audio_received" /\ up'[u].rec = rec
    BY <1>2, <1>4, <1>5, <1>6, Bounds
  <2> QED BY <1>1, <1>3, <1>7, <2>1 DEF Saving, Whole
<1> QED BY <1>1, <1>2, <1>5, <1>6, <1>7, <1>8, UploadGoes

LEMMA OversizeRecording == ASSUME IInv, Recording, NEW u \in Uploads, RejectOversize(u)
                           PROVE  Recording'
<1>1. /\ Accepts(u) /\ Closing(u) /\ ~Bare(u) /\ ~Fits(u) /\ InPlace(u, WithChunk(u))
      /\ UNCHANGED <<key, setup, s3>> /\ Over(u, 400)
  BY DEF RejectOversize, Uploading
<1>2. /\ up[u].pc # "idle" /\ up[u].job = key /\ key \in Creates
      /\ up[u].seq = Final /\ dev.seq = Final /\ Final \in (-1)..Final /\ Final - 1 \in (-1)..Final
  <2>1. up[u].pc = "load"
    BY <1>1 DEF Accepts
  <2> QED BY <1>1, <2>1, RecordingFacts, Bounds DEF Closing
<1>3. /\ WithChunk(u) = Partial(Final) /\ store[key] = Partial(Final - 1)
      /\ mergeAudioChunks(u) = Chunks
  <2>1. WithChunk(u) = Partial(Final) /\ store[key] = Partial(Final - 1)
    BY <1>1, <1>2, AcceptedChunk
  <2>2. Partial(Final).buf = Chunks
    BY PartialFacts
  <2> QED BY <2>1, <2>2, Zenon DEF mergeAudioChunks
<1>4. setup.cap <= Final
  <2>1. Cardinality(Chunks) = Final + 1
    BY Bounds, FS_Interval
  <2>2. setup.cap \in Nat
    BY SetupAssumption DEF IInv, IntakeTypeOK, Setup
  <2> QED BY <1>1, <1>3, <2>1, <2>2, Bounds DEF Fits
<1>5. /\ \A j \in Creates : j # key => store'[j] = store[j]
      /\ setup.redis => store' = store
      /\ ~setup.redis => store'[key] = Partial(Final)
  BY <1>1, <1>2, <1>3, InPlaceElsewhere
<1>6. /\ up' = [up EXCEPT ![u] = NoUpload]
      /\ (dev'.phase = "upload" /\ dev'.seq = Final) \/ dev'.phase = "failed"
  BY <1>1, <1>2, UploadHeard
<1>7. /\ Partial(Final - 1).state = "created" /\ Partial(Final).state = "created"
  BY <1>2, PartialFacts
<1>8. AtRest'
  <2>1. CASE setup.redis
    BY <1>1, <1>3, <1>5, <1>6, <1>7, <2>1 DEF AtRest
  <2>2. CASE ~setup.redis
    BY <1>1, <1>4, <1>5, <1>6, <1>7, <2>2 DEF AtRest, TooLarge
  <2> QED BY <2>1, <2>2
<1> QED BY <1>1, <1>2, <1>5, <1>6, <1>8, UploadEnds

LEMMA StageRecording == ASSUME IInv, Recording, NEW u \in Uploads, storeAudioRef(u)
                        PROVE  Recording'
<1>1. up[u].pc = "stage" /\ UNCHANGED <<key, setup, dev, store>>
  BY DEF storeAudioRef, Uploading
<1>2. /\ up[u].job = key /\ key \in Creates /\ up \in [Uploads -> Handler]
      /\ Staging(u) /\ up[u].parts = Chunks /\ up[u].rec = NewJob /\ up[u].seq = Final
      /\ s3 \in [Creates -> SUBSET Chunks]
  BY <1>1, RecordingFacts DEF Recording, Staging, IInv, IntakeTypeOK
<1> DEFINE r1 == [NewJob EXCEPT !.staged = TRUE]
           r2 == [r1 EXCEPT !.inline = {}]
           r3 == [r2 EXCEPT !.state = "audio_received"]
<1>3. r3 \in Rec /\ r3.state = "audio_received" /\ r3.staged
  <2>1. r1 \in Rec /\ r1.staged
    BY RecordFacts DEF Rec
  <2> HIDE DEF r1
  <2>2. r2 \in Rec /\ r2.staged
    BY <2>1 DEF Rec
  <2> HIDE DEF r2
  <2> QED BY <2>2 DEF Rec
<1>4. [NewJob EXCEPT !.staged = TRUE, !.inline = {}, !.state = "audio_received"] = r3
  OBVIOUS
<1> HIDE DEF r3
<1>5. PICK rec \in Rec :
        /\ rec.state = "audio_received"
        /\ (rec.staged /\ s3'[key] = Chunks) \/ (~rec.staged /\ rec.inline = Chunks)
        /\ up' = [up EXCEPT ![u].pc = "save", ![u].rec = rec]
  <2>1. CASE /\ s3' = [s3 EXCEPT ![up[u].job] = up[u].parts]
             /\ up' = [up EXCEPT ![u].pc = "save", ![u].rec = r3]
    BY <1>2, <1>3, <2>1
  <2>2. CASE up' = [up EXCEPT ![u].pc = "save", ![u].rec = WithInline(NewJob, Chunks)]
    BY <2>2, RecordFacts, InlineRecord, InlineAudio
  <2>3. \/ /\ s3' = [s3 EXCEPT ![up[u].job] = up[u].parts]
           /\ up' = [up EXCEPT ![u].pc = "save", ![u].rec =
                [up[u].rec EXCEPT !.staged = TRUE, !.inline = {}, !.state = "audio_received"]]
        \/ up' = [up EXCEPT ![u].pc = "save", ![u].rec = WithInline(up[u].rec, up[u].parts)]
    BY DEF storeAudioRef
  <2> QED BY <1>2, <1>4, <2>1, <2>2, <2>3, Zenon
<1> DEFINE h == Moved(u, "save", rec, up[u].parts)
<1>6. h \in Handler /\ up' = [up EXCEPT ![u] = h]
  <2>1. up[u].parts \in SUBSET Chunks
    BY <1>2
  <2>2. h \in Handler
    BY <1>2, <1>5, <2>1, MovedHandler
  <2> QED BY <1>2, <1>5, <2>2, HandlerMoves
<1>7. h.pc = "save" /\ h.seq = up[u].seq /\ h.rec = rec
  BY DEF Moved
<1> HIDE DEF h
<1>8. up'[u] = h /\ \A v \in Uploads \ {u} : up'[v] = up[v] /\ up[v].pc = "idle"
  BY <1>1, <1>2, <1>6, RecordingFacts
<1>9. Saving(u)'
  <2>1. up'[u].seq = Final /\ ~(Final < Final) /\ up'[u].rec = rec
    BY <1>2, <1>7, <1>8, Bounds
  <2>2. /\ setup.redis => store'[key] = Partial(Final - 1)
        /\ ~setup.redis => store'[key] = NewJob
    BY <1>1, <1>2 DEF Staging
  <2> QED BY <1>1, <1>5, <2>1, <2>2 DEF Saving, Whole, AudioOf
<1>10. OneUpload' /\ Untouched'
  BY <1>1, <1>7, <1>8 DEF Recording, OneUpload, Untouched
<1> QED BY <1>7, <1>8, <1>9, <1>10 DEF Recording

LEMMA SaveRecording == ASSUME IInv, Recording, NEW u \in Uploads, setJob(u)
                       PROVE  Recording'
<1>1. /\ up[u].pc = "save" /\ UNCHANGED <<key, setup, s3>> /\ Over(u, 200)
      /\ store' = [store EXCEPT ![up[u].job] = up[u].rec]
  BY DEF setJob, Uploading
<1>2. /\ up[u].job = key /\ key \in Creates /\ up[u].seq = dev.seq /\ Saving(u)
      /\ dev.seq \in Nat /\ dev.seq <= Final /\ store \in [Creates -> Rec]
  BY <1>1, RecordingFacts DEF Recording
<1>3. store'[key] = up[u].rec /\ \A j \in Creates : j # key => store'[j] = store[j]
  BY <1>1, <1>2
<1>4. /\ up' = [up EXCEPT ![u] = NoUpload]
      /\ \/ dev'.phase = "upload" /\ dev'.seq = dev.seq
         \/ dev.seq < Final /\ dev'.phase = "upload" /\ dev'.seq = dev.seq + 1
         \/ dev.seq = Final /\ dev'.phase = "done"
  BY <1>1, UploadHeard
<1>5. AtRest'
  <2>1. CASE dev.seq < Final
    <3>1. store'[key'] = Partial(dev.seq)
      BY <1>1, <1>2, <1>3, <2>1 DEF Saving
    <3>2. dev'.seq = dev.seq + 1 => dev'.seq - 1 = dev.seq
      BY <1>2
    <3> QED BY <1>2, <1>4, <2>1, <3>1, <3>2, Bounds DEF AtRest
  <2>2. CASE dev.seq = Final
    <3>1. /\ store'[key'].state = "audio_received"
          /\ setup'.bare \/ (IF store'[key'].staged THEN s3'[key'] ELSE store'[key'].inline) = Chunks
      BY <1>1, <1>2, <1>3, <2>2 DEF Saving, Whole, AudioOf
    <3> QED BY <1>2, <1>4, <2>2, <3>1, Bounds DEF AtRest, Whole, AudioOf
  <2> QED BY <1>2, <2>1, <2>2, Bounds
<1> QED BY <1>1, <1>3, <1>4, <1>5, UploadEnds


LEMMA DeviceRecording ==
    ASSUME Patient, IInv, IInv', Recording,
           \/ StopWaiting
           \/ \E c \in Creates : SendCreate(c) \/ CreateDies(c)
           \/ \E u \in Uploads : SendChunk(u) \/ UploadDies(u)
    PROVE  Recording'
<1>0. /\ DeviceAgrees /\ dev \in DeviceType /\ up \in [Uploads -> Handler]
      /\ store \in [Creates -> Rec]
  BY RecordingFacts DEF IInv, Agreement
<1>1. CASE StopWaiting
  <2>1. /\ UNCHANGED <<setup, store, key, s3, up>> /\ dev.wait \notin Uploads
        /\ dev'.wait = None /\ dev'.phase = dev.phase /\ dev'.seq = dev.seq
    BY <1>0, <1>1 DEF StopWaiting, DeviceType
  <2>2. Creates # {}
    <3>1. MaxLosses \in Nat /\ Cardinality(Creates) > MaxLosses
      BY LossAssumption
    <3>2. Cardinality({}) = 0
      BY FS_EmptySet
    <3> QED BY <3>1, <3>2
  <2> QED BY <2>1, <2>2, CreateKeepsRecording
<1>2. ASSUME NEW c \in Creates, SendCreate(c) PROVE Recording'
  <2>1. /\ UNCHANGED <<setup, store, key, s3, up>> /\ dev.phase = "create"
        /\ dev'.phase = dev.phase /\ dev'.seq = dev.seq
    BY <1>0, <1>2 DEF SendCreate, DeviceType
  <2> QED BY <2>1, CreateKeepsRecording
<1>3. ASSUME NEW c \in Creates, CreateDies(c) PROVE Recording'
  <2>1. /\ UNCHANGED <<setup, store, key, s3, up>>
        /\ dev'.phase = dev.phase /\ dev'.seq = dev.seq
        /\ dev' = dev \/ dev.wait = c
    <3>1. dev' = [dev EXCEPT !.wait = IF @ = c THEN None ELSE @]
      BY <1>3 DEF CreateDies, Die
    <3> QED BY <1>0, <1>3, <3>1 DEF CreateDies, Die, DeviceType
  <2>2. dev.wait = c => dev.phase = "create"
    BY <1>0 DEF DeviceAgrees
  <2> QED BY <2>1, <2>2, CreateKeepsRecording
<1>4. ASSUME NEW u \in Uploads, SendChunk(u) PROVE Recording'
  <2>1. /\ UNCHANGED <<setup, store, key, s3>> /\ dev.phase = "upload" /\ dev.wait = None
        /\ dev'.phase = dev.phase /\ dev'.seq = dev.seq /\ dev'.wait = u
    BY <1>0, <1>4 DEF SendChunk, DeviceType
  <2>2. \A v \in Uploads : up[v].pc = "idle"
    BY <2>1, RecordingFacts, IntakeNoneAssumption
  <2>3. up'[u].pc = "load" /\ up'[u].seq = dev.seq /\ \A v \in Uploads \ {u} : up'[v] = up[v]
    <3>1. up' = [up EXCEPT ![u] = [NoUpload EXCEPT !.pc = "load", !.job = dev.job, !.seq = dev.seq]]
      BY <1>4 DEF SendChunk
    <3> QED BY <1>0, <3>1 DEF NoUpload
  <2>4. OneUpload' /\ Untouched'
    BY <2>1, <2>2, <2>3 DEF Recording, OneUpload, Untouched
  <2>5. AtRest
    BY <2>1, <2>2 DEF Recording
  <2>6. AtRest'
    BY <2>1, <2>5 DEF AtRest, Whole, AudioOf, TooLarge
  <2>7. \A v \in Uploads : up'[v].pc \in {"idle", "load"}
    BY <2>2, <2>3
  <2> QED BY <2>4, <2>6, <2>7 DEF Recording
<1>5. ASSUME NEW u \in Uploads, UploadDies(u) PROVE Recording'
  <2>1. /\ up[u].pc # "idle" /\ setup.redis /\ UNCHANGED <<setup, store, key, s3>>
        /\ dev' = [dev EXCEPT !.wait = IF @ = u THEN None ELSE @]
        /\ up' = [up EXCEPT ![u] = NoUpload]
    BY <1>5 DEF UploadDies, Die
  <2>2. dev.phase = "upload" /\ dev'.phase = dev.phase /\ dev'.seq = dev.seq
        /\ up[u].seq = dev.seq
        /\ \A v \in Uploads \ {u} : up[v].pc = "idle"
    BY <1>0, <2>1, RecordingFacts DEF DeviceType
  <2>3. AtRest \/ store[key] = Partial(dev.seq - 1)
    <3>1. CASE up[u].pc = "load"
      BY <2>2, <3>1 DEF Recording
    <3>2. CASE up[u].pc \in {"stage", "save"}
      BY <2>1, <2>2, <3>2 DEF Recording, Staging, Saving
    <3> QED BY <1>0, <2>1, <3>1, <3>2 DEF Handler
  <2>4. AtRest'
    BY <2>1, <2>2, <2>3 DEF AtRest, Whole, AudioOf, TooLarge
  <2> QED BY <2>1, <2>2, <2>4, UploadEnds
<1> QED BY <1>1, <1>2, <1>3, <1>4, <1>5

LEMMA RecordingHolds == ASSUME Patient PROVE IntakeSpec => [](IInv /\ Recording)
<1>1. IInv /\ Recording /\ [IntakeNext]_jvars => (IInv /\ Recording)'
  <2> SUFFICES ASSUME IInv, Recording, [IntakeNext]_jvars PROVE (IInv /\ Recording)'
    OBVIOUS
  <2>0. IInv'
    BY NextIInv
  <2>1. ASSUME NEW c \in Creates, createJob(c) PROVE Recording'
    BY <2>0, <2>1, CreateRecording
  <2>2. ASSUME NEW u \in Uploads, uploadChunk(u) PROVE Recording'
    BY <2>2, RefusedRecording, KeepRecording, OversizeRecording, CloseRecording, BareRecording,
       StageRecording, SaveRecording DEF uploadChunk
  <2>3. CASE \/ StopWaiting
             \/ \E c \in Creates : SendCreate(c) \/ CreateDies(c)
             \/ \E u \in Uploads : SendChunk(u) \/ UploadDies(u)
    BY <2>0, <2>3, DeviceRecording
  <2>4. CASE UNCHANGED jvars
    <3>0. UNCHANGED <<setup, store, key, s3, up, dev>>
      BY <2>4 DEF jvars
    <3>1. OneUpload' /\ Untouched'
      BY <3>0 DEF Recording, OneUpload, Untouched
    <3>2. AtRest => AtRest'
      BY <3>0 DEF AtRest, Whole, AudioOf, TooLarge
    <3>3. \A u \in Uploads : (Staging(u) => Staging(u)') /\ (Saving(u) => Saving(u)')
      BY <3>0 DEF Staging, Saving, Whole, AudioOf
    <3>4. /\ up' = up /\ dev' = dev
          /\ dev.phase # "create" /\ (\A u \in Uploads : up[u].pc \in {"idle", "load"}) => AtRest'
          /\ \A u \in Uploads : /\ up[u].pc = "stage" => Staging(u)'
                                /\ up[u].pc = "save" => Saving(u)'
      BY <3>0, <3>2, <3>3 DEF Recording
    <3>5. Recording'
      BY <3>1, <3>4, Zenon DEF Recording
    <3> QED BY <2>0, <3>5
  <2> QED BY <2>0, <2>1, <2>2, <2>3, <2>4 DEF IntakeNext
<1>2. IntakeInit => IInv /\ Recording
  BY InitIInv, InitRecording
<1> QED BY <1>1, <1>2, PTL DEF IntakeSpec

(* Audio that goes to the recogniser is every chunk of the recording,      *)
(* whatever answers are lost, whatever dies, and wherever the audio is     *)
(* kept, when the device repeats a chunk only after its last attempt.      *)
THEOREM RecordingsWhole == ASSUME Patient PROVE IntakeSpec => []UploadWhole
<1>1. IInv /\ Recording => UploadWhole
  <2> SUFFICES ASSUME IInv, Recording, NEW j \in Creates, ~setup.bare,
                      store[j].state = "audio_received"
               PROVE  Heard(j) = Chunks
    BY DEF UploadWhole
  <2>1. store[j] \notin {NoRec, NewJob}
    BY RecordFacts
  <2>2. j = key /\ dev.phase # "create"
    BY <2>1 DEF Recording, Untouched
  <2>3. /\ dev.seq - 1 \in (-1)..Final /\ dev.seq \in (-1)..Final
        /\ Final - 1 \in (-1)..Final /\ Final \in (-1)..Final
        /\ up \in [Uploads -> Handler] /\ dev \in DeviceType
    BY RecordingFacts, Bounds
  <2>4. \A n \in (-1)..Final : store[j] # Partial(n)
    BY PartialFacts
  <2>5. CASE \A u \in Uploads : up[u].pc \in {"idle", "load"}
    <3>1. AtRest
      BY <2>2, <2>5 DEF Recording
    <3>2. Whole(store[key])
      <4>1. /\ store[key] # Partial(dev.seq - 1) /\ store[key] # Partial(dev.seq)
            /\ store[key] # Partial(Final) /\ store[key].state # "created"
        BY <2>2, <2>3, <2>4
      <4>2. dev.phase \in {"upload", "done", "refused", "failed"}
        BY <2>2, <2>3 DEF DeviceType, Phases
      <4> QED BY <3>1, <4>1, <4>2 DEF AtRest
    <3> QED BY <2>2, <3>2 DEF Whole, AudioOf, Heard
  <2>6. ASSUME NEW u \in Uploads, up[u].pc \in {"stage", "save"} PROVE Heard(j) = Chunks
    <3>1. up[u].seq = dev.seq
      BY <2>6, RecordingFacts
    <3>2. up[u].pc = "save" /\ store[key] = up[u].rec /\ up[u].seq = Final
      BY <2>1, <2>2, <2>3, <2>4, <2>6, <3>1, RecordingFacts DEF Recording, Staging, Saving
    <3>3. Whole(store[key])
      BY <3>2 DEF Recording, Saving
    <3> QED BY <2>2, <3>3 DEF Whole, AudioOf, Heard
  <2> QED BY <2>3, <2>5, <2>6 DEF Handler
<1> QED BY <1>1, RecordingHolds, PTL

(* A device that was told its last chunk is in, or the upload closed, has  *)
(* its recording on the server, but for a too large one in memory.         *)
THEOREM ToldIsHeard == ASSUME Patient PROVE IntakeSpec => []ToldMeansHeard
<1>1. IInv /\ Recording => ToldMeansHeard
  <2> SUFFICES ASSUME IInv, Recording, dev.phase \in {"done", "refused"} PROVE ToldMeansHeard
    BY DEF ToldMeansHeard
  <2>1. dev.job = key /\ \A u \in Uploads : up[u].pc = "idle"
    BY RecordingFacts
  <2>2. AtRest
    BY <2>1 DEF Recording
  <2> QED BY <2>1, <2>2 DEF AtRest, Whole, TooLarge, ToldMeansHeard
<1> QED BY <1>1, RecordingHolds, PTL
=============================================================================
