-------------------------- MODULE PushToTalkProofs --------------------------
(***************************************************************************)
(* A recording is at one place, and a picture is shown by the job whose    *)
(* recording it was made from, for any number of processes, jobs and       *)
(* messages.  A place changes by handing its recording on; the ids along   *)
(* the way from a recording to its picture agree (Chain) because a cloud   *)
(* job is recorded once and only before it is looked up.                   *)
(***************************************************************************)
EXTENDS PushToTalk, TLAPS

(* What is named anywhere was started: a new process has a new name.       *)
Started ==
    \A p \in Pids :
      p \in {audio.path, ptt, last} \cup stopped \cup Given => proc[p] # "none"

PathKnown == audio.state = "recording" => audio.path # 0

Linked(j, c) == up[j].take # 0 /\ cloud[c] = up[j].take

ChainOf(j) ==
    /\ up[j].pc = "none" => up[j].take = 0
    /\ up[j].pc = "post" => up[j].take # 0
    /\ up[j].pc = "record" => up[j].cloud # 0 /\ Linked(j, up[j].cloud)
    /\ up[j].pc # "ended" => ids[j] = 0
    /\ ids[j] # 0 => Linked(j, ids[j])

Chain ==
    /\ \A j \in LocalJobs : ChainOf(j)
    /\ hdl.pc \in {"fetch", "update"} =>
         hdl.job # 0 /\ hdl.cloud # 0 /\ ids[hdl.job] = hdl.cloud

IInv ==
    /\ VoiceTypeOK
    /\ PathKnown
    /\ TakeInOnePlace
    /\ Started
    /\ Chain
    /\ PictureOfItsTake
    /\ RecorderBehindState

Uploads == [pc : {"none", "post", "record", "ended"}, take : Pids \cup {0},
            cloud : CloudJobs \cup {0}]

LEMMA InitInv == VoiceInit => IInv
<1> USE VoiceAssumption
<1>1. SUFFICES ASSUME VoiceInit PROVE IInv
  OBVIOUS
<1>2. VoiceTypeOK
  BY <1>1 DEF VoiceInit, VoiceTypeOK, NoUpload, Hops
<1>3. TakeInOnePlace /\ Started
  BY <1>1 DEF VoiceInit, TakeInOnePlace, Started, Named, Given, NoUpload
<1>4. Chain /\ PictureOfItsTake
  BY <1>1 DEF VoiceInit, Chain, ChainOf, PictureOfItsTake, NoUpload
<1>5. RecorderBehindState /\ PathKnown
  BY <1>1 DEF VoiceInit, RecorderBehindState, PathKnown
<1> QED BY <1>2, <1>3, <1>4, <1>5 DEF IInv

LEMMA TypeStep == VoiceTypeOK /\ PathKnown /\ [VoiceNext]_pvars => VoiceTypeOK'
<1> USE VoiceAssumption
<1> SUFFICES ASSUME VoiceTypeOK, PathKnown, [VoiceNext]_pvars PROVE VoiceTypeOK'
  OBVIOUS
<1>1. ASSUME NEW p \in Pids, Press(p) \/ StartRecording(p) \/ PlayAudio(p) \/ Ends(p)
      PROVE VoiceTypeOK'
  <2>1. proc' \in [Pids -> {"none", "arecord", "aplay", "gone"}]
    BY <1>1 DEF VoiceTypeOK, Press, StartRecording, PlayAudio, Ends
  <2>2. audio' \in [state : {"idle", "recording", "playing"}, rec : Pids \cup {0},
                    play : Pids \cup {0}, path : Pids \cup {0}]
    <3>1. CASE Press(p) \/ StartRecording(p)
      BY <3>1 DEF VoiceTypeOK, Press, StartRecording
    <3>2. CASE PlayAudio(p)
      BY <3>2 DEF VoiceTypeOK, PlayAudio
    <3>3. CASE Ends(p)
      BY <3>3 DEF VoiceTypeOK, Ends, Cleared
    <3> QED BY <1>1, <3>1, <3>2, <3>3
  <2> QED BY <1>1, <2>1, <2>2 DEF VoiceTypeOK, Press, StartRecording, PlayAudio,
                                  Ends, hands, links, news
<1>2. ASSUME NEW p \in Pids, KeepPath(p) PROVE VoiceTypeOK'
  BY <1>2 DEF VoiceTypeOK, KeepPath, mic, links, news
<1>3. ASSUME Release \/ UiStop PROVE VoiceTypeOK'
  <2>1. audio.path \in Pids
    BY <1>3 DEF VoiceTypeOK, Release, UiStop, Stop, CanStop, PathKnown
  <2>2. audio' \in [state : {"idle", "recording", "playing"}, rec : Pids \cup {0},
                    play : Pids \cup {0}, path : Pids \cup {0}]
    BY <1>3 DEF VoiceTypeOK, Release, UiStop, Stop
  <2>3. ptt' \in Pids \cup {0} /\ stopped' \subseteq Pids /\ last' = last
    BY <1>3, <2>1 DEF VoiceTypeOK, Release, UiStop
  <2> QED BY <1>3, <2>2, <2>3 DEF VoiceTypeOK, Release, UiStop, Stop, links, news
<1>4. ASSUME StopPlayback \/ PlayRefused PROVE VoiceTypeOK'
  <2>1. PlaybackStopped \in
          [state : {"idle", "recording", "playing"}, rec : Pids \cup {0},
           play : Pids \cup {0}, path : Pids \cup {0}]
    BY DEF VoiceTypeOK, PlaybackStopped
  <2> QED BY <1>4, <2>1 DEF VoiceTypeOK, PlayRefused, StopPlayback, hands, links, news
<1>5. ASSUME NEW j \in LocalJobs, UploadReleased(j) \/ CreatePrintJob(j)
      PROVE VoiceTypeOK'
  <2>1. PICK take \in Pids \cup {0} : Upload(j, take)
    BY <1>5 DEF VoiceTypeOK, UploadReleased, CreatePrintJob
  <2>2. up' \in [LocalJobs -> Uploads]
    BY <2>1 DEF VoiceTypeOK, Upload, Uploads, NoUpload
  <2>3. ptt' \in Pids \cup {0} /\ last' \in Pids \cup {0} /\ stopped' = stopped
    BY <1>5 DEF VoiceTypeOK, UploadReleased, CreatePrintJob, Left
  <2> QED BY <2>1, <2>2, <2>3 DEF VoiceTypeOK, Uploads, Upload, mic, news
<1>6. ASSUME NEW j \in LocalJobs, PostFails(j) \/ RecordCloudJob(j)
      PROVE VoiceTypeOK'
  <2>1. up[j].cloud \in CloudJobs \cup {0}
    BY DEF VoiceTypeOK
  <2>2. up' \in [LocalJobs -> Uploads]
    BY <1>6 DEF VoiceTypeOK, PostFails, RecordCloudJob, Moved, Uploads
  <2>3. ids' \in [LocalJobs -> CloudJobs \cup {0}] /\ cloud' = cloud
    BY <1>6, <2>1 DEF VoiceTypeOK, PostFails, RecordCloudJob
  <2> QED BY <1>6, <2>2, <2>3 DEF VoiceTypeOK, Uploads, PostFails, RecordCloudJob,
                                  mic, hands, news
<1>7. ASSUME NEW j \in LocalJobs, NEW c \in CloudJobs, Posted(j, c)
      PROVE VoiceTypeOK'
  <2>1. cloud' \in [CloudJobs -> Pids \cup {0}]
    BY <1>7 DEF VoiceTypeOK, Posted, MadeOf
  <2>2. up' \in [LocalJobs -> Uploads]
    BY <1>7 DEF VoiceTypeOK, Posted, Moved, Uploads
  <2> QED BY <1>7, <2>1, <2>2 DEF VoiceTypeOK, Uploads, Posted, mic, hands, news
<1>8. ASSUME NEW c \in CloudJobs, Announce(c) PROVE VoiceTypeOK'
  <2>1. chan["msg"] \in Seq(CloudJobs)
    BY DEF VoiceTypeOK, Hops
  <2>2. chan' \in [Hops -> Seq(CloudJobs)]
    BY <1>8, <2>1 DEF VoiceTypeOK, Announce, Offered, Hops
  <2>3. sent' \in 0..MaxMessages
    BY <1>8 DEF VoiceTypeOK, Announce
  <2> QED BY <1>8, <2>2, <2>3 DEF VoiceTypeOK, Announce, mic, hands, links
<1>9. ASSUME Forward \/ FanOut PROVE VoiceTypeOK'
  <2>1. chan["msg"] \in Seq(CloudJobs) /\ chan["notif"] \in Seq(CloudJobs)
          /\ chan["sub"] \in Seq(CloudJobs)
    BY DEF VoiceTypeOK, Hops
  <2>2. CASE Forward
    <3>1. Head(chan["msg"]) \in CloudJobs /\ Tail(chan["msg"]) \in Seq(CloudJobs)
      BY <2>1, <2>2 DEF VoiceTypeOK, Forward
    <3>2. Offered("notif", Head(chan["msg"])) \in [Hops -> Seq(CloudJobs)]
      BY <2>1, <3>1 DEF VoiceTypeOK, Offered, Hops
    <3>3. chan' \in [Hops -> Seq(CloudJobs)]
      <4>1. Offered("notif", Head(chan["msg"]))["msg"] = chan["msg"]
        BY <2>1 DEF VoiceTypeOK, Offered, Hops
      <4> QED BY <2>2, <3>1, <3>2, <4>1 DEF VoiceTypeOK, Forward, Hops
    <3> QED BY <2>2, <3>3 DEF VoiceTypeOK, Forward, mic, hands, links
  <2>3. CASE FanOut
    <3>1. Head(chan["notif"]) \in CloudJobs /\ Tail(chan["notif"]) \in Seq(CloudJobs)
      BY <2>1, <2>3 DEF VoiceTypeOK, FanOut
    <3>2. Append(chan["sub"], Head(chan["notif"])) \in Seq(CloudJobs)
      BY <2>1, <3>1
    <3>3. chan' \in [Hops -> Seq(CloudJobs)]
      BY <2>1, <2>3, <3>1, <3>2 DEF VoiceTypeOK, FanOut, Hops
    <3>4. hdl' = [hdl EXCEPT !.open = hdl.open /\ Len(chan["sub"]) < Buffer]
      BY <2>3 DEF VoiceTypeOK, FanOut
    <3>5. hdl'.open \in BOOLEAN /\ hdl' = [hdl EXCEPT !.open = hdl'.open]
      BY <3>4
    <3> QED BY <2>3, <3>3, <3>5 DEF VoiceTypeOK, FanOut, mic, hands, links
  <2> QED BY <1>9, <2>2, <2>3
<1>10. ASSUME NextNotification PROVE VoiceTypeOK'
  <2>1. chan["sub"] \in Seq(CloudJobs)
    BY DEF VoiceTypeOK, Hops
  <2>2. Head(chan["sub"]) \in CloudJobs /\ Tail(chan["sub"]) \in Seq(CloudJobs)
    BY <1>10, <2>1 DEF VoiceTypeOK, NextNotification
  <2>3. chan' \in [Hops -> Seq(CloudJobs)]
    BY <1>10, <2>2 DEF VoiceTypeOK, NextNotification, Hops
  <2> QED BY <1>10, <2>2, <2>3 DEF VoiceTypeOK, NextNotification, Notified, HandleStep, mic,
                                   hands, links
<1>11. ASSUME Watch \/ NoMoreNotifications \/ FetchPreview \/ UpdatePreview
       PROVE VoiceTypeOK'
  <2> DEFINE Handling ==
        [pc : {"start", "range", "fetch", "update", "ended"},
         cloud : CloudJobs \cup {0}, job : LocalJobs \cup {0}, open : BOOLEAN]
  <2>1. Back \in Handling
    BY DEF VoiceTypeOK, Back
  <2>2. CASE Watch \/ NoMoreNotifications
    <3>1. [hdl EXCEPT !.pc = "range", !.open = TRUE] \in Handling
            /\ [hdl EXCEPT !.pc = "ended"] \in Handling
      BY DEF VoiceTypeOK
    <3>2. hdl' \in Handling
      <4> HIDE DEF Handling
      <4> QED BY <2>2, <3>1 DEF Watch, NoMoreNotifications
    <3> QED BY <2>2, <3>2 DEF VoiceTypeOK, Watch, NoMoreNotifications, HandleStep,
                              mic, hands, links
  <2>3. CASE FetchPreview
    <3>0. [hdl EXCEPT !.pc = "update"] \in Handling
      BY DEF VoiceTypeOK
    <3>1. hdl' \in Handling
      <4> HIDE DEF Handling
      <4> QED BY <2>1, <2>3, <3>0 DEF FetchPreview
    <3> QED BY <2>3, <3>1 DEF VoiceTypeOK, FetchPreview, HandleStep, mic, hands, links
  <2>4. CASE UpdatePreview
    <3>1. hdl.cloud \in CloudJobs \cup {0}
      BY DEF VoiceTypeOK
    <3>2. picture' \in [LocalJobs -> CloudJobs \cup {0}]
      BY <2>4, <3>1 DEF VoiceTypeOK, UpdatePreview
    <3>3. hdl' \in Handling
      BY <2>1, <2>4 DEF UpdatePreview
    <3> QED BY <2>4, <3>2, <3>3 DEF VoiceTypeOK, UpdatePreview, HandleStep, mic,
                                    hands, links
  <2> QED BY <1>11, <2>2, <2>3, <2>4
<1>12. ASSUME UNCHANGED pvars PROVE VoiceTypeOK'
  BY <1>12 DEF VoiceTypeOK, pvars, mic, hands, links, news
<1> QED
  <2>1. CASE AudioNext
    BY <2>1, <1>1, <1>2, <1>3, <1>4 DEF AudioNext
  <2>2. CASE JobNext
    BY <2>2, <1>5, <1>6, <1>7 DEF JobNext
  <2>3. CASE NewsNext
    BY <2>3, <1>8, <1>9, <1>10, <1>11 DEF NewsNext
  <2> QED BY <2>1, <2>2, <2>3, <1>12 DEF VoiceNext

(* The microphone: what is recording has a path and a recorder.            *)
LEMMA MicStep ==
  ASSUME VoiceTypeOK, PathKnown, RecorderBehindState, [VoiceNext]_pvars
  PROVE  (PathKnown /\ RecorderBehindState)'
<1> USE VoiceAssumption DEF PathKnown, RecorderBehindState
<1>1. CASE AudioNext
  <2>1. ASSUME NEW p \in Pids, Press(p) \/ StartRecording(p)
        PROVE (PathKnown /\ RecorderBehindState)'
    <3>1. audio'.path = p /\ proc'[p] = "arecord"
      BY <2>1 DEF Press, StartRecording, VoiceTypeOK
    <3> QED BY <3>1
  <2>2. ASSUME NEW p \in Pids, PlayAudio(p) \/ Ends(p)
        PROVE (PathKnown /\ RecorderBehindState)'
    <3>1. audio'.state # "recording"
      BY <2>2 DEF PlayAudio, Ends, Cleared, VoiceTypeOK
    <3> QED BY <3>1
  <2>3. ASSUME NEW p \in Pids, KeepPath(p)
        PROVE (PathKnown /\ RecorderBehindState)'
    BY <2>3 DEF KeepPath, mic
  <2>4. ASSUME Release \/ UiStop PROVE (PathKnown /\ RecorderBehindState)'
    <3>1. audio'.state # "recording"
      BY <2>4 DEF Release, UiStop, Stop, VoiceTypeOK
    <3> QED BY <3>1
  <2>5. ASSUME StopPlayback \/ PlayRefused
        PROVE (PathKnown /\ RecorderBehindState)'
    BY <2>5 DEF StopPlayback, PlayRefused, PlaybackStopped, VoiceTypeOK
  <2> QED BY <1>1, <2>1, <2>2, <2>3, <2>4, <2>5 DEF AudioNext
<1>2. CASE JobNext
  BY <1>2 DEF JobNext, UploadReleased, CreatePrintJob, Upload, PostFails,
              RecordCloudJob, Posted, mic
<1>3. CASE NewsNext
  BY <1>3 DEF NewsNext, Announce, Forward, FanOut, Watch, NextNotification,
              NoMoreNotifications, FetchPreview, UpdatePreview, HandleStep, mic
<1>4. CASE UNCHANGED pvars
  BY <1>4 DEF pvars, mic
<1> QED BY <1>1, <1>2, <1>3, <1>4 DEF VoiceNext

(* Notifications move no recording.                                        *)
LEMMA NewsKeepsHands ==
  ASSUME TakeInOnePlace, Started, NewsNext \/ UNCHANGED pvars
  PROVE  (TakeInOnePlace /\ Started)'
<1>1. UNCHANGED <<mic, hands, links>>
  BY DEF NewsNext, Announce, Forward, FanOut, Watch, NextNotification,
         NoMoreNotifications, FetchPreview, UpdatePreview, HandleStep, pvars
<1> QED BY <1>1 DEF mic, hands, links, TakeInOnePlace, Started, Named, Given

(* The pointwise reading of TakeInOnePlace and Started: of the five places *)
(* of a recording no two hold the same.                                    *)
Gave(p) == \E j \in LocalJobs : up[j].take = p
PlaceOf(p) ==
    /\ proc[p] = "none" => p \notin stopped /\ ~Gave(p)
                             /\ p # audio.path /\ p # ptt /\ p # last
    /\ p = audio.path => p # ptt /\ p \notin stopped /\ p # last /\ ~Gave(p)
    /\ p = ptt => p \notin stopped /\ p # last /\ ~Gave(p)
    /\ p \in stopped => p # last /\ ~Gave(p)
    /\ p = last => ~Gave(p)
    /\ \A j, k \in LocalJobs : up[j].take = p /\ up[k].take = p => j = k
HandsInv == \A p \in Pids : PlaceOf(p)

LEMMA HandsMeans == VoiceTypeOK => (HandsInv <=> TakeInOnePlace /\ Started)
<1> USE VoiceAssumption
<1> SUFFICES ASSUME VoiceTypeOK PROVE HandsInv <=> TakeInOnePlace /\ Started
  OBVIOUS
<1>1. \A p \in Pids : p # 0
  OBVIOUS
<1>2. \A p \in Pids : Gave(p) <=> p \in Given
  BY <1>1 DEF Gave, Given
<1>3. stopped \subseteq Pids /\ Given \subseteq Pids
  BY DEF VoiceTypeOK, Given
<1>4. \A q : Named(q) = IF q = 0 THEN {} ELSE {q}
  BY DEF Named
<1>5. {audio.path, ptt, last} \subseteq Pids \cup {0}
  BY DEF VoiceTypeOK
<1>6. \A j \in LocalJobs : up[j].take \in Pids \cup {0}
  BY DEF VoiceTypeOK
<1>7. ASSUME HandsInv PROVE TakeInOnePlace
  BY <1>1, <1>2, <1>3, <1>4, <1>5, <1>6, <1>7 DEF HandsInv, PlaceOf, TakeInOnePlace
<1>8. ASSUME HandsInv PROVE Started
  BY <1>2, <1>8 DEF HandsInv, PlaceOf, Started
<1>9. ASSUME TakeInOnePlace, Started PROVE HandsInv
  <2> SUFFICES ASSUME NEW p \in Pids PROVE PlaceOf(p)
    BY DEF HandsInv
  <2>1. p # 0 /\ (Gave(p) <=> p \in Given)
    BY <1>1, <1>2
  <2> QED BY <1>4, <1>9, <2>1 DEF PlaceOf, TakeInOnePlace, Started
<1> QED BY <1>7, <1>8, <1>9

(* A recording is handed from one place to the next, never copied.         *)
LEMMA HandsStep ==
  ASSUME VoiceTypeOK, PathKnown, Chain, HandsInv, AudioNext \/ JobNext
  PROVE  HandsInv'
<1> USE VoiceAssumption
<1> SUFFICES ASSUME NEW q \in Pids PROVE PlaceOf(q)'
  BY DEF HandsInv
<1>0. PlaceOf(q) /\ q # 0
  BY DEF HandsInv
<1>1. ASSUME NEW p \in Pids, Press(p) \/ StartRecording(p) PROVE PlaceOf(q)'
  <2>1. /\ audio'.path = p
        /\ proc[p] = "none" /\ proc' = [proc EXCEPT ![p] = "arecord"]
        /\ UNCHANGED <<ptt, stopped, last, up>>
    BY <1>1 DEF Press, StartRecording, FreshPid, hands, links, VoiceTypeOK
  <2>2. PlaceOf(p)
    BY DEF HandsInv
  <2> QED BY <1>0, <2>1, <2>2 DEF PlaceOf, Gave, VoiceTypeOK
<1>2. ASSUME NEW p \in Pids, PlayAudio(p) \/ Ends(p) PROVE PlaceOf(q)'
  <2>1. /\ audio'.path = audio.path
        /\ proc' \in {[proc EXCEPT ![p] = "aplay"], [proc EXCEPT ![p] = "gone"]}
        /\ UNCHANGED <<ptt, stopped, last, up>>
    <3>1. Cleared(p).path = audio.path
      BY DEF Cleared, VoiceTypeOK
    <3>2. audio'.path = audio.path
      BY <1>2, <3>1 DEF PlayAudio, Ends, VoiceTypeOK
    <3> QED BY <1>2, <3>2 DEF PlayAudio, Ends, hands, links
  <2> QED BY <1>0, <2>1 DEF PlaceOf, Gave, VoiceTypeOK
<1>3. ASSUME NEW p \in Pids, KeepPath(p) PROVE PlaceOf(q)'
  BY <1>0, <1>3 DEF KeepPath, mic, links, PlaceOf, Gave
<1>4. ASSUME Release \/ UiStop PROVE PlaceOf(q)'
  <2>1. /\ audio.path # 0 /\ audio'.path = 0
        /\ UNCHANGED <<proc, last, up>>
        /\ \/ ptt = 0 /\ ptt' = audio.path /\ stopped' = stopped
           \/ ptt' = ptt /\ stopped' = stopped \cup {audio.path}
    BY <1>4 DEF Release, UiStop, Stop, CanStop, PathKnown, links, VoiceTypeOK
  <2> QED BY <1>0, <2>1 DEF PlaceOf, Gave
<1>5. ASSUME StopPlayback \/ PlayRefused PROVE PlaceOf(q)'
  <2>1. audio'.path = audio.path /\ UNCHANGED <<proc, ptt, stopped, last, up>>
    BY <1>5 DEF StopPlayback, PlayRefused, PlaybackStopped, hands, links, VoiceTypeOK
  <2> QED BY <1>0, <2>1 DEF PlaceOf, Gave
<1>6. ASSUME NEW j \in LocalJobs, UploadReleased(j) \/ CreatePrintJob(j)
      PROVE PlaceOf(q)'
  <2>1. up[j].take = 0 /\ UNCHANGED <<audio, proc, stopped>>
    BY <1>6 DEF UploadReleased, CreatePrintJob, Upload, FreshJob, Chain, ChainOf, mic
  <2>2. PICK take \in {ptt, last} :
          /\ up'[j].take = take
          /\ \A k \in LocalJobs : k # j => up'[k] = up[k]
          /\ \/ take = ptt /\ ptt' = 0 /\ last' = last
             \/ take = last /\ last' = 0 /\ ptt' = ptt
    BY <1>6 DEF UploadReleased, CreatePrintJob, Upload, Left, VoiceTypeOK
  <2>3. Gave(q)' => Gave(q) \/ q = take
    BY <2>2 DEF Gave
  <2> QED BY <1>0, <2>1, <2>2, <2>3 DEF PlaceOf, Gave
<1>7. ASSUME NEW j \in LocalJobs,
             PostFails(j) \/ RecordCloudJob(j) \/ \E c \in CloudJobs : Posted(j, c)
      PROVE PlaceOf(q)'
  <2>1. UNCHANGED <<audio, proc, ptt, stopped, last>>
    BY <1>7 DEF PostFails, RecordCloudJob, Posted, mic, hands
  <2>2. \A k \in LocalJobs : up'[k].take = up[k].take
    BY <1>7 DEF PostFails, RecordCloudJob, Posted, Moved, VoiceTypeOK
  <2> QED BY <1>0, <2>1, <2>2 DEF PlaceOf, Gave
<1> QED BY <1>1, <1>2, <1>3, <1>4, <1>5, <1>6, <1>7 DEF AudioNext, JobNext

(* The ids from a recording to its picture: an upload is recorded under    *)
(* the cloud job that was made of it, and a cloud job stays what it is.    *)
LEMMA ChainStep ==
  ASSUME VoiceTypeOK, Chain, PictureOfItsTake, [VoiceNext]_pvars
  PROVE  (Chain /\ PictureOfItsTake)'
<1> USE VoiceAssumption
<1>0. 0 \notin CloudJobs /\ 0 \notin LocalJobs
  OBVIOUS
<1>1. CASE AudioNext \/ UNCHANGED pvars
  <2>1. UNCHANGED <<links, picture, hdl>>
    BY <1>1 DEF AudioNext, Press, StartRecording, PlayAudio, Ends, KeepPath, Release,
                UiStop, Stop, StopPlayback, PlayRefused, pvars, news
  <2> QED BY <2>1 DEF links, Chain, ChainOf, PictureOfItsTake, Linked
<1>2. ASSUME NEW j \in LocalJobs, UploadReleased(j) \/ CreatePrintJob(j)
      PROVE (Chain /\ PictureOfItsTake)'
  <2>1. PICK take : Upload(j, take)
    BY <1>2 DEF UploadReleased, CreatePrintJob
  <2>2. /\ up[j].pc = "none" /\ up[j].take = 0 /\ ids[j] = 0
        /\ UNCHANGED <<cloud, ids, picture, hdl>>
    BY <2>1 DEF Upload, FreshJob, Chain, ChainOf, news
  <2>3. /\ up'[j].pc = IF take = 0 THEN "ended" ELSE "post"
        /\ up'[j].take = take
        /\ \A k \in LocalJobs : k # j => up'[k] = up[k]
    BY <2>1 DEF Upload, VoiceTypeOK
  <2>4. picture[j] = 0
    BY <2>2 DEF PictureOfItsTake, VoiceTypeOK
  <2>5. Chain'
    BY <2>2, <2>3 DEF Chain, ChainOf, Linked
  <2>6. PictureOfItsTake'
    BY <2>2, <2>3, <2>4 DEF PictureOfItsTake
  <2> QED BY <2>5, <2>6
<1>3. ASSUME NEW j \in LocalJobs, PostFails(j) PROVE (Chain /\ PictureOfItsTake)'
  <2>1. /\ up[j].pc = "post" /\ UNCHANGED <<cloud, ids, picture, hdl>>
        /\ up'[j].pc = "ended" /\ up'[j].take = up[j].take
        /\ \A k \in LocalJobs : k # j => up'[k] = up[k]
    BY <1>3 DEF PostFails, Moved, news, VoiceTypeOK
  <2>2. \A k \in LocalJobs : up'[k].take = up[k].take
    BY <2>1
  <2>3. \A k \in LocalJobs : \A c : Linked(k, c) => Linked(k, c)'
    BY <2>1, <2>2 DEF Linked
  <2>4. \A k \in LocalJobs : ChainOf(k)'
    BY <2>1, <2>3 DEF Chain, ChainOf
  <2>5. PictureOfItsTake'
    BY <2>1, <2>2 DEF PictureOfItsTake
  <2> QED BY <2>1, <2>4, <2>5 DEF Chain
<1>4. ASSUME NEW j \in LocalJobs, NEW c \in CloudJobs, Posted(j, c)
      PROVE (Chain /\ PictureOfItsTake)'
  <2>1. /\ up[j].pc = "post" /\ up[j].take # 0 /\ cloud[c] = 0
        /\ UNCHANGED <<ids, picture, hdl>>
        /\ cloud'[c] = up[j].take
        /\ \A d \in CloudJobs : d # c => cloud'[d] = cloud[d]
    BY <1>4 DEF Posted, MadeOf, FreshCloud, Chain, ChainOf, news, VoiceTypeOK
  <2>2. /\ up'[j] \in {[pc |-> "record", take |-> up[j].take, cloud |-> c],
                       [pc |-> "ended", take |-> up[j].take, cloud |-> 0]}
        /\ \A k \in LocalJobs : k # j => up'[k] = up[k]
    BY <1>4 DEF Posted, Moved, VoiceTypeOK
  <2>3. /\ \A k \in LocalJobs : up'[k].take = up[k].take
        /\ up'[j].pc \in {"record", "ended"}
        /\ up'[j].pc = "record" => up'[j].cloud = c
    BY <2>2
  <2>4. \A k \in LocalJobs, d \in CloudJobs : Linked(k, d) => Linked(k, d)'
    BY <2>1, <2>3 DEF Linked
  <2>5. Linked(j, c)'
    BY <2>1, <2>3 DEF Linked
  <2>6. \A k \in LocalJobs :
          up[k].cloud \in CloudJobs \cup {0} /\ ids[k] \in CloudJobs \cup {0}
    BY DEF VoiceTypeOK
  <2>7. Chain'
    <3>1. ASSUME NEW k \in LocalJobs, k # j PROVE ChainOf(k)'
      <4>1. ChainOf(k) /\ up'[k] = up[k] /\ ids'[k] = ids[k]
        BY <2>1, <2>2, <3>1 DEF Chain
      <4> QED BY <2>4, <2>6, <4>1 DEF ChainOf
    <3>2. ChainOf(j)'
      <4>1. ids'[j] = 0
        BY <2>1 DEF Chain, ChainOf
      <4> QED BY <1>0, <2>1, <2>3, <2>5, <4>1 DEF ChainOf
    <3>3. \A k \in LocalJobs : ChainOf(k)'
      BY <3>1, <3>2
    <3> QED BY <2>1, <3>3 DEF Chain
  <2>8. PictureOfItsTake'
    <3> SUFFICES ASSUME NEW k \in LocalJobs, picture[k] # 0
                 PROVE up'[k].take # 0 /\ cloud'[picture[k]] = up'[k].take
      BY <2>1 DEF PictureOfItsTake
    <3>1. Linked(k, picture[k]) /\ picture[k] \in CloudJobs
      BY DEF PictureOfItsTake, Linked, VoiceTypeOK
    <3> QED BY <2>4, <3>1 DEF Linked
  <2> QED BY <2>7, <2>8
<1>5. ASSUME NEW j \in LocalJobs, RecordCloudJob(j)
      PROVE (Chain /\ PictureOfItsTake)'
  <2>1. /\ up[j].pc = "record" /\ UNCHANGED <<cloud, picture, hdl>>
        /\ up'[j].pc = "ended" /\ up'[j].take = up[j].take
        /\ \A k \in LocalJobs : k # j => up'[k] = up[k] /\ ids'[k] = ids[k]
        /\ ids'[j] = up[j].cloud
    BY <1>5 DEF RecordCloudJob, Moved, news, VoiceTypeOK
  <2>2. \A k \in LocalJobs : up'[k].take = up[k].take
    BY <2>1
  <2>3. ids[j] = 0 /\ up[j].cloud # 0 /\ Linked(j, up[j].cloud)
    BY <2>1 DEF Chain, ChainOf
  <2>4. hdl.pc \in {"fetch", "update"} => hdl.job # j /\ hdl.job \in LocalJobs
    BY <2>3 DEF Chain, ChainOf, VoiceTypeOK
  <2>5. Chain'
    <3>1. \A k \in LocalJobs : \A c : Linked(k, c) => Linked(k, c)'
      BY <2>1, <2>2 DEF Linked
    <3>2. \A k \in LocalJobs : k # j => ChainOf(k)'
      BY <2>1, <3>1 DEF Chain, ChainOf
    <3>3. ChainOf(j)'
      BY <2>1, <2>3, <3>1 DEF ChainOf
    <3>4. hdl.pc \in {"fetch", "update"} => ids'[hdl.job] = ids[hdl.job]
      BY <2>1, <2>4
    <3>5. (hdl.pc \in {"fetch", "update"} =>
             hdl.job # 0 /\ hdl.cloud # 0 /\ ids[hdl.job] = hdl.cloud)'
      BY <2>1, <3>4 DEF Chain
    <3>6. \A k \in LocalJobs : ChainOf(k)'
      BY <3>2, <3>3
    <3> QED BY <3>5, <3>6 DEF Chain
  <2>6. PictureOfItsTake'
    BY <2>1, <2>2 DEF PictureOfItsTake
  <2> QED BY <2>5, <2>6
<1>6. CASE NewsNext
  <2>1. UNCHANGED links
    BY <1>6 DEF NewsNext, Announce, Forward, FanOut, Watch, NextNotification,
                NoMoreNotifications, FetchPreview, UpdatePreview, HandleStep
  <2>2. ASSUME (\E c \in CloudJobs : Announce(c)) \/ Forward \/ FanOut
        PROVE (Chain /\ PictureOfItsTake)'
    <3>1. /\ hdl'.pc = hdl.pc /\ hdl'.job = hdl.job /\ hdl'.cloud = hdl.cloud
          /\ picture' = picture
      BY <2>2 DEF Announce, Forward, FanOut, VoiceTypeOK
    <3> QED BY <2>1, <3>1 DEF links, Chain, ChainOf, PictureOfItsTake, Linked
  <2>3. ASSUME Watch \/ NoMoreNotifications PROVE (Chain /\ PictureOfItsTake)'
    <3>1. hdl'.pc \in {"range", "ended"} /\ picture' = picture
      BY <2>3 DEF Watch, NoMoreNotifications, VoiceTypeOK
    <3> QED BY <2>1, <3>1 DEF links, Chain, ChainOf, PictureOfItsTake, Linked
  <2>4. ASSUME NextNotification PROVE (Chain /\ PictureOfItsTake)'
    <3>1. Head(chan["sub"]) \in CloudJobs /\ picture' = picture
      <4>1. chan["sub"] \in Seq(CloudJobs)
        BY DEF VoiceTypeOK, Hops
      <4> QED BY <2>4, <4>1 DEF NextNotification
    <3>2. CASE \E j \in LocalJobs :
                 /\ ids[j] = Head(chan["sub"])
                 /\ hdl' = [hdl EXCEPT !.pc = "fetch", !.cloud = Head(chan["sub"]),
                                       !.job = j]
      <4>1. hdl'.job \in LocalJobs /\ hdl'.cloud = Head(chan["sub"])
              /\ ids[hdl'.job] = hdl'.cloud
        BY <3>2 DEF VoiceTypeOK
      <4> QED BY <1>0, <2>1, <3>1, <4>1 DEF links, Chain, ChainOf, PictureOfItsTake, Linked
    <3>3. CASE hdl' = hdl
      BY <2>1, <3>1, <3>3 DEF links, Chain, ChainOf, PictureOfItsTake, Linked
    <3> QED BY <2>4, <3>2, <3>3 DEF NextNotification, Notified, Owner
  <2>5. ASSUME FetchPreview PROVE (Chain /\ PictureOfItsTake)'
    <3>1. hdl.pc = "fetch" /\ picture' = picture
            /\ \/ hdl'.pc = "update" /\ hdl'.job = hdl.job /\ hdl'.cloud = hdl.cloud
               \/ hdl'.pc = "range"
      BY <2>5 DEF FetchPreview, Back, VoiceTypeOK
    <3> QED BY <2>1, <3>1 DEF links, Chain, ChainOf, PictureOfItsTake, Linked
  <2>6. ASSUME UpdatePreview PROVE (Chain /\ PictureOfItsTake)'
    <3>1. /\ hdl'.pc = "range"
          /\ hdl.job \in LocalJobs /\ Linked(hdl.job, hdl.cloud)
      BY <2>6 DEF UpdatePreview, Back, Chain, ChainOf, VoiceTypeOK
    <3>2. /\ picture'[hdl.job] = hdl.cloud
          /\ \A k \in LocalJobs : k # hdl.job => picture'[k] = picture[k]
      BY <2>6, <3>1 DEF UpdatePreview, VoiceTypeOK
    <3> QED BY <2>1, <3>1, <3>2 DEF links, Chain, ChainOf, PictureOfItsTake, Linked
  <2> QED BY <1>6, <2>2, <2>3, <2>4, <2>5, <2>6 DEF NewsNext
<1> QED
  BY <1>1, <1>2, <1>3, <1>4, <1>5, <1>6 DEF VoiceNext, JobNext

THEOREM Invariance == VoiceSpec => []IInv
<1>1. VoiceInit => IInv
  BY InitInv
<1>2. IInv /\ [VoiceNext]_pvars => IInv'
  <2> SUFFICES ASSUME IInv, [VoiceNext]_pvars PROVE IInv'
    OBVIOUS
  <2>1. VoiceTypeOK'
    BY TypeStep DEF IInv
  <2>2. (PathKnown /\ RecorderBehindState)'
    BY MicStep DEF IInv
  <2>3. (Chain /\ PictureOfItsTake)'
    BY ChainStep DEF IInv
  <2>4. (TakeInOnePlace /\ Started)'
    <3>1. CASE AudioNext \/ JobNext
      <4>1. HandsInv'
        BY <3>1, HandsMeans, HandsStep DEF IInv
      <4>2. (VoiceTypeOK => (HandsInv <=> TakeInOnePlace /\ Started))'
        BY HandsMeans, PTL
      <4> QED BY <2>1, <4>1, <4>2
    <3>2. CASE NewsNext \/ UNCHANGED pvars
      BY <3>2, NewsKeepsHands DEF IInv
    <3> QED BY <3>1, <3>2 DEF VoiceNext
  <2> QED BY <2>1, <2>2, <2>3, <2>4 DEF IInv
<1> QED BY <1>1, <1>2, PTL DEF VoiceSpec

(* Types of the state, whatever button, UI, processes and broker do.       *)
THEOREM TypesKept == VoiceSpec => []VoiceTypeOK
<1>1. IInv => VoiceTypeOK
  BY DEF IInv
<1> QED BY <1>1, Invariance, PTL

(* No recording is at two places and no job shows the picture of another   *)
(* recording than the one given to it (CreatePrintJob, handlePTT and       *)
(* handlePreviewReady of ipc/service.go).                                  *)
THEOREM OwnPictures == VoiceSpec => []OwnVoiceOwnPicture
<1>1. IInv => OwnVoiceOwnPicture
  BY DEF IInv, OwnVoiceOwnPicture
<1> QED BY <1>1, Invariance, PTL

(* A state of recording has a recorder behind it that will end it          *)
(* (StartRecording of audio/manager.go).                                   *)
THEOREM RecordersEnd == VoiceSpec => []RecorderBehindState
<1>1. IInv => RecorderBehindState
  BY DEF IInv
<1> QED BY <1>1, Invariance, PTL
=============================================================================
