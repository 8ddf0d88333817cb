----------------------------- MODULE PushToTalk -----------------------------
(***************************************************************************)
(* From the microphone to the picture of a print job in the Debian edge    *)
(* daemon: the audio manager (edge/debian/edge-daemon/internal/audio), the *)
(* handlers of the button and of the UI and the preview notifications      *)
(* (internal/ipc/service.go), on their way in (internal/cloud).            *)
(*                                                                         *)
(* Goroutines: one that waits for each arecord or aplay, one for the       *)
(* button, one per gRPC call of the UI, one per upload, and one per hop of *)
(* a notification.  A recording is named by the process that makes it, as  *)
(* its file is; 0 stands for no process, path or id.                       *)
(*                                                                         *)
(* What becomes of a local job but its picture is PrintManager's.  The     *)
(* cloud is external: it makes a job of an upload and may announce its     *)
(* picture any number of times.  A start or a wait that fails differs in   *)
(* the log only; the LED, the state that is shown, is not read back.       *)
(***************************************************************************)
EXTENDS Naturals, Sequences

CONSTANTS
    Pids,        \* processes the daemon may start, in order
    LocalJobs,   \* ids of local print jobs, in order
    CloudJobs,   \* ids of jobs at the cloud, in order
    Buffer,      \* capacity of msgCh, notifCh and a subscriber's channel
    MaxMessages  \* bound: messages the broker delivers

ASSUME VoiceAssumption ==
    /\ Pids \subseteq Nat \ {0}
    /\ LocalJobs \subseteq Nat \ {0}
    /\ CloudJobs \subseteq Nat \ {0}
    /\ Buffer \in Nat \ {0}
    /\ MaxMessages \in Nat

VARIABLES
    audio,    \* state, recordingPID, playingPID, lastRecordingPath
    proc,     \* each process: arecord or aplay, and its life
    ptt,      \* the recording handlePTT has stopped and makes a job of
    stopped,  \* recordings in the hands of StopRecording calls
    last,     \* lastAudioPath
    up,       \* per local job: where its upload is, of what, as which job
    cloud,    \* the recording each cloud job was made from
    ids,      \* cloudJobIDs
    picture,  \* the cloud job whose preview a local job shows
    chan,     \* msgCh, notifCh, and the channel of handleCloudNotifications
    hdl,      \* handleCloudNotifications: pc, cloud job, local job
    sent      \* messages delivered so far

mic == <<audio, proc>>
hands == <<ptt, stopped, last>>
links == <<up, cloud, ids>>
news == <<chan, hdl, sent>>
pvars == <<mic, hands, links, picture, news>>

NoUpload == [pc |-> "none", take |-> 0, cloud |-> 0]
Hops == {"msg", "notif", "sub"}

VoiceTypeOK ==
    /\ audio \in [state : {"idle", "recording", "playing"}, rec : Pids \cup {0},
                  play : Pids \cup {0}, path : Pids \cup {0}]
    /\ proc \in [Pids -> {"none", "arecord", "aplay", "gone"}]
    /\ ptt \in Pids \cup {0}
    /\ stopped \subseteq Pids
    /\ last \in Pids \cup {0}
    /\ up \in [LocalJobs -> [pc : {"none", "post", "record", "ended"},
                             take : Pids \cup {0}, cloud : CloudJobs \cup {0}]]
    /\ cloud \in [CloudJobs -> Pids \cup {0}]
    /\ ids \in [LocalJobs -> CloudJobs \cup {0}]
    /\ picture \in [LocalJobs -> CloudJobs \cup {0}]
    /\ chan \in [Hops -> Seq(CloudJobs)]
    /\ hdl \in [pc : {"start", "range", "fetch", "update", "ended"},
                cloud : CloudJobs \cup {0}, job : LocalJobs \cup {0},
                open : BOOLEAN]
    /\ sent \in 0..MaxMessages

VoiceInit ==
    /\ audio = [state |-> "idle", rec |-> 0, play |-> 0, path |-> 0]
    /\ proc = [p \in Pids |-> "none"]
    /\ ptt = 0
    /\ stopped = {}
    /\ last = 0
    /\ up = [j \in LocalJobs |-> NoUpload]
    /\ cloud = [c \in CloudJobs |-> 0]
    /\ ids = [j \in LocalJobs |-> 0]
    /\ picture = [j \in LocalJobs |-> 0]
    /\ chan = [h \in Hops |-> <<>>]
    /\ hdl = [pc |-> "start", cloud |-> 0, job |-> 0, open |-> FALSE]
    /\ sent = 0

FreshPid(p) == proc[p] = "none" /\ \A q \in Pids : q < p => proc[q] # "none"
FreshJob(j) == up[j].pc = "none" /\ \A k \in LocalJobs : k < j => up[k].pc # "none"
FreshCloud(c) == cloud[c] = 0 /\ \A d \in CloudJobs : d < c => cloud[d] # 0

-----------------------------------------------------------------------------
(* StartRecording, of the button or of the UI: refused while recording,    *)
(* not while playing.                                                      *)
StartRecording(p) ==
    /\ audio.state # "recording"
    /\ FreshPid(p)
    /\ proc' = [proc EXCEPT ![p] = "arecord"]
    /\ audio' = [audio EXCEPT !.state = "recording", !.rec = p, !.path = p]
    /\ UNCHANGED <<hands, links, picture, news>>

(* StopRecording interrupts the recorder and returns without waiting for   *)
(* it.                                                                     *)
CanStop == audio.state = "recording" /\ audio.rec # 0
Stop ==
    /\ CanStop
    /\ audio' = [audio EXCEPT !.state = "idle", !.rec = 0, !.path = 0]
    /\ UNCHANGED <<proc, links, picture, news>>

(* stopPlayback, which PlayAudio calls first while something plays         *)
PlaybackStopped ==
    IF audio.state = "playing" /\ audio.play # 0
    THEN [audio EXCEPT !.state = "idle", !.play = 0] ELSE audio

StopPlayback ==
    /\ audio' = PlaybackStopped
    /\ UNCHANGED <<proc, hands, links, picture, news>>

PlayAudio(p) ==
    /\ FreshPid(p)
    /\ proc' = [proc EXCEPT ![p] = "aplay"]
    /\ audio' = [audio EXCEPT !.state = "playing", !.play = p]
    /\ UNCHANGED <<hands, links, picture, news>>

(* PlayAudio of a file that is not there                                   *)
PlayRefused == StopPlayback

(* A recorder ends when it is interrupted, or after -d seconds; a player   *)
(* when it is interrupted or the file is over.  The goroutine that waits   *)
(* for it then clears what its own kind has, whatever runs by now.         *)
Cleared(p) ==
    IF proc[p] = "arecord" THEN [audio EXCEPT !.state = "idle", !.rec = 0]
                           ELSE [audio EXCEPT !.state = "idle", !.play = 0]
Ends(p) ==
    /\ proc[p] \in {"arecord", "aplay"}
    /\ audio' = Cleared(p)
    /\ proc' = [proc EXCEPT ![p] = "gone"]
    /\ UNCHANGED <<hands, links, picture, news>>

-----------------------------------------------------------------------------
(* handlePTT: a released button makes a local job of the recording it      *)
(* stopped, and an upload.  One goroutine: the next press waits.  The      *)
(* events of a full channel are dropped, so that any may come next.        *)
Press(p) == ptt = 0 /\ StartRecording(p)

Release ==
    /\ ptt = 0
    /\ Stop
    /\ ptt' = audio.path
    /\ UNCHANGED <<stopped, last>>

Upload(j, take) ==
    /\ FreshJob(j)
    /\ up' = [up EXCEPT ![j] = [pc |-> IF take = 0 THEN "ended" ELSE "post",
                                take |-> take, cloud |-> 0]]
    /\ UNCHANGED <<mic, cloud, ids, picture, news>>

UploadReleased(j) ==
    /\ ptt # 0
    /\ ptt' = 0
    /\ Upload(j, ptt)
    /\ UNCHANGED <<stopped, last>>

(* The UI: StopRecording keeps the path after it has left the audio        *)
(* manager; the next CreatePrintJob takes it, whatever the job is of.      *)
UiStop ==
    /\ Stop
    /\ stopped' = stopped \cup {audio.path}
    /\ UNCHANGED <<ptt, last>>

KeepPath(p) ==
    /\ p \in stopped
    /\ stopped' = stopped \ {p}
    /\ last' = p
    /\ UNCHANGED <<ptt, mic, links, picture, news>>

BadLeft == last
Left == 0

CreatePrintJob(j) ==
    /\ last' = Left
    /\ Upload(j, last)
    /\ UNCHANGED <<ptt, stopped>>

(* cloudConn.CreateJob.  The request may fail before the cloud made a job  *)
(* of it or after; only an answer is recorded, in a step of its own.       *)
Moved(j, pc, c) ==
    up' = [up EXCEPT ![j] = [pc |-> pc, take |-> up[j].take, cloud |-> c]]

MadeOf(j, c) ==
    /\ up[j].pc = "post"
    /\ FreshCloud(c)
    /\ cloud' = [cloud EXCEPT ![c] = up[j].take]

Posted(j, c) ==
    /\ MadeOf(j, c)
    /\ Moved(j, "record", c) \/ Moved(j, "ended", 0)
    /\ UNCHANGED <<mic, hands, ids, picture, news>>

PostFails(j) ==
    /\ up[j].pc = "post"
    /\ Moved(j, "ended", 0)
    /\ UNCHANGED <<mic, hands, cloud, ids, picture, news>>

RecordCloudJob(j) ==
    /\ up[j].pc = "record"
    /\ ids' = [ids EXCEPT ![j] = up[j].cloud]
    /\ Moved(j, "ended", up[j].cloud)
    /\ UNCHANGED <<mic, hands, cloud, picture, news>>

-----------------------------------------------------------------------------
(* onMessage: a channel that is full drops the message.  Announcements the *)
(* broker loses are those that never come.                                 *)
Offered(h, c) ==
    IF Len(chan[h]) < Buffer THEN [chan EXCEPT ![h] = Append(@, c)] ELSE chan

Announce(c) ==
    /\ cloud[c] # 0
    /\ sent < MaxMessages
    /\ sent' = sent + 1
    /\ chan' = Offered("msg", c)
    /\ UNCHANGED <<mic, hands, links, picture, hdl>>

(* handleMessages                                                          *)
Forward ==
    /\ chan["msg"] # <<>>
    /\ chan' = [Offered("notif", Head(chan["msg"])) EXCEPT !["msg"] = Tail(@)]
    /\ UNCHANGED <<mic, hands, links, picture, hdl, sent>>

(* fanOutNotifications: a subscriber that does not keep up is closed, and  *)
(* there is none before handleCloudNotifications has registered.           *)
FanOut ==
    LET c == Head(chan["notif"])
        fits == hdl.open /\ Len(chan["sub"]) < Buffer
    IN
    /\ chan["notif"] # <<>>
    /\ chan' = [chan EXCEPT !["notif"] = Tail(@),
                            !["sub"] = IF fits THEN Append(@, c) ELSE @]
    /\ hdl' = [hdl EXCEPT !.open = fits]
    /\ UNCHANGED <<mic, hands, links, picture, sent>>

(* handleCloudNotifications: WatchNotifications, then range over the       *)
(* channel until it is closed and empty; nothing registers again.          *)
HandleStep == UNCHANGED <<mic, hands, links, sent>>

Watch ==
    /\ hdl.pc = "start"
    /\ hdl' = [hdl EXCEPT !.pc = "range", !.open = TRUE]
    /\ HandleStep /\ UNCHANGED <<picture, chan>>

(* handlePreviewReady: the job whose upload was recorded as this one.  A   *)
(* notification that is faster than the record is dropped.                 *)
Owner(j, c) == ids[j] = c
Notified(c) ==
    \/ \E j \in LocalJobs :
         /\ Owner(j, c)
         /\ hdl' = [hdl EXCEPT !.pc = "fetch", !.cloud = c, !.job = j]
    \/ /\ \A j \in LocalJobs : ~Owner(j, c)
       /\ UNCHANGED hdl

NextNotification ==
    /\ hdl.pc = "range"
    /\ chan["sub"] # <<>>
    /\ chan' = [chan EXCEPT !["sub"] = Tail(@)]
    /\ Notified(Head(chan["sub"]))
    /\ HandleStep /\ UNCHANGED picture

NoMoreNotifications ==
    /\ hdl.pc = "range"
    /\ chan["sub"] = <<>> /\ ~hdl.open
    /\ hdl' = [hdl EXCEPT !.pc = "ended"]
    /\ HandleStep /\ UNCHANGED <<picture, chan>>

Back == [hdl EXCEPT !.pc = "range", !.cloud = 0, !.job = 0]

(* GetPreviewURL, which may fail, and UpdatePreviewURL                     *)
FetchPreview ==
    /\ hdl.pc = "fetch"
    /\ hdl' = [hdl EXCEPT !.pc = "update"] \/ hdl' = Back
    /\ HandleStep /\ UNCHANGED <<picture, chan>>

UpdatePreview ==
    /\ hdl.pc = "update"
    /\ picture' = [picture EXCEPT ![hdl.job] = hdl.cloud]
    /\ hdl' = Back
    /\ HandleStep /\ UNCHANGED chan

-----------------------------------------------------------------------------
AudioNext ==
    \/ \E p \in Pids :
         \/ Press(p) \/ StartRecording(p) \/ PlayAudio(p)
         \/ Ends(p) \/ KeepPath(p)
    \/ Release \/ UiStop \/ StopPlayback \/ PlayRefused

JobNext ==
    \E j \in LocalJobs :
      \/ UploadReleased(j) \/ CreatePrintJob(j)
      \/ PostFails(j) \/ RecordCloudJob(j)
      \/ \E c \in CloudJobs : Posted(j, c)

NewsNext ==
    \/ \E c \in CloudJobs : Announce(c)
    \/ Forward \/ FanOut \/ Watch
    \/ NextNotification \/ NoMoreNotifications \/ FetchPreview \/ UpdatePreview

VoiceNext == AudioNext \/ JobNext \/ NewsNext

VoiceSpec == VoiceInit /\ [][VoiceNext]_pvars

-----------------------------------------------------------------------------
(* A recording is at one place: in the audio manager, in the hands of the  *)
(* button's goroutine or of one call, kept for the next job, or given to   *)
(* one job: whatever calls and presses meet, no two jobs are made of it.   *)
Named(p) == {p} \ {0}
Given == {up[j].take : j \in LocalJobs} \ {0}
TakeInOnePlace ==
    /\ Named(audio.path) \cap (Named(ptt) \cup stopped \cup Named(last) \cup Given) = {}
    /\ Named(ptt) \cap (stopped \cup Named(last) \cup Given) = {}
    /\ stopped \cap (Named(last) \cup Given) = {}
    /\ Named(last) \cap Given = {}
    /\ \A j, k \in LocalJobs : up[j].take = up[k].take => up[j].take = 0 \/ j = k

(* The picture a job shows was made from the recording given to it, though *)
(* ids are recorded late and messages lost, doubled or out of order.       *)
PictureOfItsTake ==
    \A j \in LocalJobs :
      picture[j] # 0 => up[j].take # 0 /\ cloud[picture[j]] = up[j].take

OwnVoiceOwnPicture == TakeInOnePlace /\ PictureOfItsTake

(* While the state says recording an arecord runs, whose end by itself     *)
(* after -d seconds will clear it: a call that was refused or never came   *)
(* does not leave the daemon recording, and refusing to record, for ever.  *)
RecorderBehindState ==
    audio.state = "recording" => \E p \in Pids : proc[p] = "arecord"
=============================================================================
