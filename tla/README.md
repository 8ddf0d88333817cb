# fancy-print in TLA+

Formal models of the concurrent core of fancy-print: a children's printer that
turns speech into a picture. A device records or recognises speech, a cloud
service (`device-api`) runs it through ASR, moderation and image generation,
and an edge daemon prints the picture once it was confirmed.

Contents: [system](#the-system) · [modules](#the-modules) ·
[runs](#the-runs) · [proofs](#the-proofs) ·
[disagreements](#where-code-and-documents-disagree) ·
[not modelled](#not-modelled) · [plan](#plan)

## The system

| component | state | operations | talks to |
|---|---|---|---|
| `device-api` pipeline queue (`jobs/pipeline-queue.service.ts`) | pending tasks, slot counter, active promises, destroyed flag | enqueue, processNext, onModuleDestroy | called by the job service, calls its tasks |
| `device-api` BullMQ queue (`jobs/pipeline-queue-bullmq.service.ts`) | a Redis queue | enqueue, worker | same, across replicas |
| `device-api` job service (`jobs/jobs.service.ts`) | `inProgressJobs`, persistence timer | create, upload audio / chunk / text, advance, print-ack, background pipeline | store, queue, vendors, MQTT |
| `device-api` job store (`jobs/job-state-store.service.ts`) | records, idempotency keys, advance lock; in memory or in Redis | get, set, NX claims, lock, snapshot | Redis, a JSON file |
| `device-api` picture making (`adapters/vendor-*.ts`, `adapters/vendors/*image*`) | the Wenxin access token | moderate, generate, poll, finalize | moderation and image services, S3 |
| `device-api` speech recognition (`adapters/vendors/*asr*`, `asr/`) | the Baidu access token, one socket per call | transcribe | iFlytek, Baidu, S3 |
| `device-api` device authentication (`auth/`, `devices/`) | refresh rows, the device registry | exchange a secret or a gateway's word, refresh, verify | devices, Redis |
| `device-api` MQTT, policy, telemetry, works | a policy fixed at the start | publish, read, count | devices |
| `parent-bff` households | devices, policy version, decisions, idempotency keys | bind, unbind, patch policy, approve, reject, list | Redis, MQTT |
| `parent-bff` authentication | refresh rows, OIDC configuration; cookies in the browser | login, OIDC login and callback, refresh, verify | Redis, the OIDC provider |
| `gateway`, `packages/config`, `kitten-tts-service` | none | proxy, configuration, speech synthesis | everything above |
| edge daemon print manager (`internal/print/manager.go`) | job list, queue, mutex | create, confirm, cancel, preview arrives, print loop | store, CUPS, IPC service |
| edge daemon store (`internal/storage/store.go`) | files | save, read, read-modify-write | print manager, IPC service |
| edge daemon IPC service (`internal/ipc/service.go`) | cloud job map, last recording | gRPC calls, PTT loop, notification loop | all managers |
| edge daemon cloud connector (`internal/cloud/`) | connection state, subscribers | connect, disconnect, fan-out, token refresh | MQTT, HTTPS |
| edge daemon audio, GPIO | recorder process, buttons | record, stop, poll | IPC service |
| Android edge, OTA agent, UIs, parent app | own job database, update state | print, update, show | device-api, parent-bff |

**What is hard in it.** In the cloud: handlers and workers interleave at every
`await`; the in-memory backend shares record objects by reference while Redis
hands out copies that are written back whole; a lock expires while its holder
works; a process dies between a mutation and its persistence. Devices and
parents repeat requests whose answers were lost while the first attempt still
runs; vendors stall, fail late and revoke tokens that several calls share;
logins of several tabs meet in one browser's cookies. On the device:
recorders, their waiters, two ways to stop them, and notifications that outrun
the record they refer to;
goroutines meet at a mutex that some writes do not take; retries reprint; the
store reads and writes a file under two separate locks.

**What makes each part correct.** Queue: slots accounted, nothing run twice or
out of order, shutdown ends. Jobs: a shown picture comes from an approved text,
terminal states stay, submitted input is answered. Intake: repeated creates
share one job, repeated chunks give one whole recording. Vendors: whatever they
do, a run ends in time and shows nothing unmoderated. Households: what was
answered is on record and a patch replaces the version its author saw.
Sessions: nobody is logged out early. Print manager: nothing
prints unconfirmed, every confirmation has exactly one run, a queued job ends.
Push-to-talk: a recording becomes one job at most, and a job shows only the
picture of its own recording.
The hazards behind these, each at its line, are in `PROJECT.json`.

## The modules

### TaskPool, PipelineQueue
`TaskPool` is the promise of a bounded background queue: tasks move
new → waiting → executing → finished or are refused, at most `Slots` at once,
and a shut pool begins nothing. `PipelineQueue` is
`pipeline-queue.service.ts`: one JavaScript callback is one action.
`enqueue` = `Drop` (after destruction) or `Accept` (push, then `processNext`);
`Settle` is the first `.finally` (free the slot, then `processNext`); `Forget`
the second one, which removes the resolved promise; `onModuleDestroy` and
`Drained` are the two sides of its `await Promise.all`. The refinement mapping
(`StatusOf`) reads a task's status off the queue's variables.

### JobLifecycle, DeviceJobs
`JobLifecycle` is what a device that sends one request at a time is promised:
a submitted input is answered by one picture from an approved text or by a
failure, and the answer is never replaced. For a job that was worked on without
the lock (`loose`: its lock ran out under a run, or `runFullPipeline` took none)
the promise is weaker: the answer may be given again.

`DeviceJobs` composes `jobs.service.ts`, the store, the queue and the vendor
facade, cut at their awaits. Records are objects of a heap (`obj`), and
`stored` is the address the store holds. `SharedRecords = TRUE` is the
in-memory backend: `getJob` hands out that very object, handlers mutate it in
place, `setJob` replaces it by a copy. `SharedRecords = FALSE` is Redis:
`getJob` fills the private object of its caller and `setJob` overwrites the
stored one. Unreachable objects are reclaimed (`Sweep`) so that equal program
states are equal model states.

| code | actions |
|---|---|
| `createJob`, `createJobFromTranscript` | the same names; `EnqueueTask` once `setJob` has returned |
| `attachAudio`, `uploadChunk`, `attachText` | `BeginUpload` (the `getJob`), then `RefuseUpload`, `StageAudio` (the S3 await), `attachAudio`, `uploadChunk`, `attachText`, `EnqueueTask` |
| `advanceJob` | `advanceJob` |
| `printAck` | `BeginAck` (key lookup), `LoadAck`, `RefuseAck`, `printAck` (mutate, record the key), `SaveAck` |
| `runBackgroundAdvance`, `runFullPipeline` | `SkipTask`, the same names, `acquireJobAdvanceLock`, `LoadJob`, `WriteJob`, `releaseJobAdvanceLock`, `ExitAdvance` |
| `advancePipelineAsync` | `BeginStages`, `NothingToAdvance`, then one action per vendor answer: `resolveTranscript`, `moderateTranscript`, `runImageGeneration`, `UploadPreview`, `finalizePreview`, `markFailed` |
| persistence and restart | `flushPersistenceSync`, `Crash` with `seedMemoryFromJobs` |
| lock TTL | `LockLapse`, of a dead holder or under a run that goes on |

`Microtasks` states a fact about Node: with the in-memory backend an `await` of
the store performs no I/O, so its continuation runs before the next request,
timer or vendor answer.

With S3 (`S3Preview`) a preview may be a `Link`, a presigned URL of the job's
object in `bucket`. `finalizePreview` links it after an upload, and also without
a picture at hand, as a restart from a record in `image_generation` leaves it:
nothing then looks whether the object exists (`MayLink`). `late` (slots whose
lock ran out under them) and `loose` are history variables.

### PrintManager
`print/manager.go` over `storage/store.go`. One action is what a goroutine does
between two points where another can interfere: a critical section of `m.mu`,
an unlocked write of the job, a read or a write of the job file. `op` holds
what each goroutine (gRPC calls, the notification loop, `processLoop`) is
doing. Only `UpdatePreviewURL` holds `m.mu` across several steps (`mu`).
`TakeJob`, `BeginPrint`, `PrintCopy`, `PrintFails`, `Complete` are
`processLoop` and `printJob`. `pages`, `tickets` and `done` are history
variables: no guard depends on them except the bound `MaxConfirms`.

The action of `CancelJob` is also that of `ConfirmPrint` with
`confirmed = false`: both only call `updateStatus`.

### PushToTalk
From the microphone of the edge daemon to the picture of a print job.

| code | actions |
|---|---|
| `audio.Manager` | `StartRecording`, `Stop`, `PlayAudio`, `StopPlayback`, `PlayRefused`; `Ends` is a process that ends together with the goroutine that waited for it |
| `handlePTT` | `Press`, `Release`, `UploadReleased` |
| the UI's `StopRecording`, `CreatePrintJob` | `UiStop`, `KeepPath` (the write of `lastAudioPath`, after the audio manager's lock), `CreatePrintJob` |
| the upload goroutine | `Posted` (answered, or the answer lost), `PostFails`, `RecordCloudJob` |
| `onMessage`, `handleMessages`, `fanOutNotifications` | `Announce`, `Forward`, `FanOut`: a full channel drops, a slow subscriber is closed |
| `handleCloudNotifications`, `handlePreviewReady` | `Watch`, `NextNotification`, `FetchPreview`, `UpdatePreview`, `NoMoreNotifications` |

A recording is named by the process that makes it, as its file is named by the
moment it began. Which of several runs a waiter clears is not its own choice:
`Cleared` forgets whatever recorder is registered by then, as the code does.
The creation of a local job is one step with the start of its upload. Left out:
the LED, what the WAV file holds, the connection's state and `Disconnect`.

### JobIntake
`createJob` and `uploadChunk` as a device on a weak network drives them: it
repeats a request until it is answered. One action is the code between two
awaits.

| code | actions |
|---|---|
| `createJob` | `getCreateIdem`, `Replay`, `StoreJob`, `setCreateIdemNx`, `LookUpWinner`, `deleteJob`, `AnswerWinner` |
| `uploadChunk`, `attachAudio` | `RefuseUpload`, `IgnoreDuplicate`, `KeepChunk`, `RejectOversize`, `CloseUpload`, `CloseBare` (each reads the record), `storeAudioRef` (the S3 await), `setJob` |
| device and network | `SendCreate`, `SendChunk`, `StopWaiting`; an answer is heard or lost (`Answer`) |
| a replica dies | `CreateDies`, `UploadDies` |

In memory a record is changed in place (`InPlace`) and only S3 really waits
(`Busy`); over Redis each step is a round trip on a private copy. A chunk is
its sequence number, a recording the set of them; the size cap is a number of
chunks. `DeviceJobs` has the rest of a job's life.

### ImageGeneration
What happens from a job's text to `preview_ready` or `failed`: text moderation,
the adapter `createImageGenAdapter` selects, image moderation, download. Time
is counted in ticks. `fetch` is the call in progress: what is left of its one
abort signal, the attempts that may follow, and whether an attempt is out.
`Unanswered`, `Abort`, `Resend`, `Rejected` are the branches of `retryFetch`;
the other actions are answers. `verdict` remembers how the moderation let the
text and each picture through: `allowed`, or `silent`, a 200 with no verdict in
it, which the code takes for consent.

### SpeechToText
Concurrent calls of the ASR adapter from workers and from the ASR endpoint:
what `resolveTranscript` hands over, the Baidu token shared by all calls
(`HeldToken`, `NewToken`, `TokenRefused`, while the vendor may `Revoke`), and
the iFlytek socket (`SendFrame`, `Message`, `Finish`). `hangs` is a Baidu
response that broke off.

### Household
Apps of parents repeat a request with its Idempotency-Key until it is answered.
`Plan` lists the awaits of each handler in order; `srv[a].at` is how far it is.
Over Redis every step is a round trip and the replica may die at each
(`HandlerDies`); in memory a handler runs through (`HouseholdBusy`). One
household is enough because each key in the store holds its id.

### Sessions
Devices at `device-api` and parents at `parent-bff` hold tokens in the same
way, so one module serves both with two sets of constants. `issueTokens` signs,
`StoreRow` stores the row (a round trip later), `BeginRefresh` checks the
signature, `LookUpRow` the row. `OidcLogin`, `CallbackError`, `CallbackCode` and
`handleCallback` are the login at the provider with the cookies (`jar`) it
leaves; `initConfig` is the discovery, which runs once. Time is in whole
seconds, as in a JWT.

### MCDeviceApi, MCHome, MCEdgeDaemon
The parts of `MCDeviceApi` (intake, speech, pictures) share no variable, and
neither do those of `MCHome` (household, sessions). A state of one cannot
matter to a property of another, so each is explored in all its settings while
the others rest in a default setting, instead of in the product. A
behaviour of the combined specification is a behaviour of one part, and every
behaviour of a part within its bounds is there.

`MCEdgeDaemon` does the same for the print manager and push-to-talk. They meet
at `UpdatePreviewURL`, which `PrintManager` lets come at any time, more often
than push-to-talk would call it. `MicrophoneFirst` keeps one order of steps
that commute: a notification reads and writes nothing of the microphone's, so
processes run and end before the first is delivered. The proofs about
`PushToTalk` are free of it.

## The runs

| run | question | bounds |
|---|---|---|
| `PipelineSlots` | does the queue keep its books, its order and the pool's promise, and does shutdown end? | 5 tasks, 2 slots: full slots with tasks waiting, refills, refusals |
| `PipelineDrain` (violated) | does it drain as its comment says? | same |
| `DeviceJobsRedis` | does a record keep the lifecycle, and what does the lock exclude, when two replicas race, locks run out and one crashes? | 1 job, 1 request at a time, 2 replicas with 1 slot each on one BullMQ queue, lapsing locks, ASR endpoint, 1 crash; an approved text |
| `DeviceJobsMemory` | is only approved work shown, and is every job answered, when records are shared by reference? | 1 job, 2 racing requests, 2 slots, ASR endpoint, previews in S3, 1 crash and restart from the file; an approved and a refused text |
| `DeviceApi` | do repeated requests share one job and recording; are vendor tokens and streams used right; is nothing shown before its moderations answered without blocking it; does every call end, and in time? | 3 create attempts, 2 uploads at once, 3 chunks, 2 losses or deaths; 2 calls over 2 tokens, recordings of 1 to 5 bytes in frames of 2; 160 image environments, 2 retries, 3 polls |
| `Home` | is what was answered on record; do patches see their base; is anyone logged out early or answered at another app? | 3 apps in 5 families of wishes, 2 devices, 1 job, 2 misses, 5 patches; 1 client of each kind, 3 tokens, 2 logins, 4 seconds |
| `PolicyOverwritten` (violated) | does a patch with an expected version change that version only? | as `Home` |
| `JobAckForgotten` (violated) | is an acknowledged print final? | 1 job, 2 replicas |
| `PrintQueue` | is every confirmation one print run, and nothing else; does a recording become one job, and a job show the picture of its own recording? | 2 jobs (symmetric), 1 call, 1 copy, no retry; 3 processes, 2 local and 2 cloud jobs, channels of 1, 3 messages |
| `PrintLive` | do retries stay bounded and do queued jobs end? | 1 job, 2 calls, 2 copies, 1 retry, 2 confirmations |
| `PrintCancelled` (violated) | does a cancelled job stay unprinted? | 1 job, 1 call |
| `PrintLostPreview` (violated) | is the preview on disk? | 1 job, 1 call |

**Why the bounds suffice.** Jobs do not interact in `DeviceJobs` except through
slots, so one job with several actors shows every interference on a record;
two texts (one moderation passes, one it refuses) distinguish "approved" from
"not" in memory; over Redis, where the lifecycle is the question, the approved
one is enough, as moderation may refuse or fail at any time, and `ApprovedOnly`
is proved for both. Two replicas with a slot each are enough for a race, and the
spare address leaves room for the one object of the in-memory backend that is
neither stored nor held. The first replica is the one that crashes; the two
differ in nothing else. At most one task of a kind waits per job and queue: a
longer row of equal tasks only repeats the shorter one. In `PrintManager` two
jobs show queue order and mix-ups, two calls and two confirmations show a job
queued twice while it prints. `MaxConfirms`, `MaxCrashes` bound counters. In
`PushToTalk` three processes are two recordings and a playback over them, or
three recordings of which one is lost; two messages overflow a channel of one,
and the third comes after its subscriber was closed.

`DeviceApi`: one more create than losses lets the device get an answer at last;
two overlapping attempts and a third that replays are every role `createJob`
knows (winner, loser, replay). Three chunks have a first, a middle and a last,
and a cap of one less makes the recording too large. Two tokens let a call hold
the old one while another fetched the new one. Lengths 1 to 5 lie below, at and
beyond one and two frames. In `ImageGeneration` the limits are a few ticks
each, their order as in the code (a poll is shorter than the deadline, the
margin of the token shorter than its life), and `Deadline` passes before
`MaxPolls` in some runs and after it in others.

`Home`: the families of wishes are those that touch the same data: patches
among themselves, patches and a new device, bind and unbind of one device,
decisions on one job. Two misses let a replica die and its retry lose the
answer. A refresh outlives an access token in both servers, and four seconds
exceed the longest life. Two logins suffice to mix up cookies. `OneSide`
explores the clients of one server at a time, and provider logins apart from
refreshing: nothing but the clock connects them.

Runs set `CHECK_DEADLOCK FALSE` because all these programs may rightly stop: a
drained queue, an answered job, an idle print loop.

**Fairness.** `PipelineQueue`: a task's promise settles (vendor calls have
timeouts, rejections are caught) and ready callbacks run; nothing forces an
enqueue or a shutdown. `DeviceJobs`: slots run, vendors answer or time out, a
running handler continues, a lock nobody releases expires, and the device polls
`advance`, which is what the API contract asks of it; without polling a task
that was skipped is lost and a job may stay where it is. Vendor answers and
polls are strongly fair because they wait for microtasks of others.
`JobIntake`: a handler that runs goes on, and a device that has begun sends what it
has to; losses are bounded and never forced. `SpeechToText`: the adapters' own
steps are taken and a silent vendor runs into the timer of the socket or the
request. `ImageGeneration`: the clock runs and due timers fire; no vendor ever
has to answer. `PrintManager`: goroutines run and a waiter for the mutex gets it eventually
(strong fairness for `processLoop`); `lp` returns. The last is an assumption of
the model and not of the code: `cups.go` calls `lp` without a timeout. No fairness is
assumed for `PushToTalk`, of which only safety is stated.

**Scope of the statements.** `KeepsPromise` is for one request at a time: with
racing uploads a finished job can be sent through the pipeline again. What
still holds then is `ReadyShowsApproved`. For a job in `loose` it is the weaker
promise of `JobLifecycle`, and `AckedHasPreview` says nothing. `LockExclusive`
counts the runs whose TTL has not passed: by default the TTL (120 s) is shorter
than the longest vendor call (180 s), so that a late run and its successor do
overlap; what is shown is that a late run never releases its successor's lock.
In `DeviceJobsMemory` `JobResolves` reads: the job leaves the pipeline, for an
answer or, if the process crashed before the file caught up, for the older
record of the file. Retry of a stalled BullMQ task after a crash is the same
task again, which a poll of `advance` may enqueue at any time in the model.

The upload properties are for a device that repeats a chunk only when the
attempt before is over (`Patient`); see [disagreements](#where-code-and-documents-disagree)
for one that does not wait. `UploadWhole` is not stated for a bare
`{final:true}`, which drops the chunks; `ToldMeansHeard` excepts a recording
that is too large, in memory. `PatchSeesItsBase` is for the policy in
memory, where a handler runs through; over Redis `PolicyOverwritten` is the
counterexample. `VendorCallsEnd` excepts a Baidu response that breaks off. `RefusedOnlyExpired` excepts a restart of a server
that keeps its rows in memory. `MobileEndsAtHome` is about logins an app began.

## The proofs

The eight proof modules state every invariant of the passing runs as a theorem,
for all values of the constants. The assumptions, each named where its constants
are declared, say what the constants are: the queue has at least one slot
(`ConcurrencyAssumption`); bounds and lengths are naturals (`PrintAssumption`,
`FinalAssumption`, `LossAssumption`, `CrashAssumption`, `MissAssumption`,
`SessionBounds`, `LifeAssumption`, `TimeAssumption`, `LengthAssumption`,
`TokenAssumption`); `None` and the named goroutines and addresses are distinct
(`PrintAssumption`, `IntakeNoneAssumption`, `NoneAssumption`,
`AddressAssumption`); ids are positive numbers and channels have room
(`VoiceAssumption`); the deployments are of those the code can be given
(`SetupAssumption`, `HomeAssumption`, `LinkAssumption`, `DeploymentAssumption`, `AsrEnvAssumption`,
`EnvAssumption`, `BackendAssumption`, `ReplicaAssumption`, `SafeAssumption`).

Some theorems hold in a narrower setting, which they state as an `ASSUME` of
their own and which is the setting of the run that checks them; outside it
overlapping requests can break them: `RecordingsWhole` and `ToldIsHeard` for a
device that waits for its attempts (`Patient`); the theorems of
`JobPromiseProofs` for one request at a time over Redis (`OneDevice`). Nothing is
assumed of the lock: it may run out under any run, and jobs of the ASR endpoint
take none. Run `JobAckForgotten` shows how two overlapping handlers take an
acknowledgement back.

- **Queue.** The invariant `IInv` joins the type, the four safety properties
  and two facts no run needs to check: `executing` is finite, and
  `InFlightTracked` (every executing task's promise is in `activePromises`
  while up, and among the awaited ones while draining). The parts lean on each
  other: `running` stays in its range when a task settles because it is the
  cardinality of a set that held the task; `Cardinality` grows by one when a
  task starts because a waiting task is not executing (`StartedOnce`);
  `QuietWhenClosed` follows from `InFlightTracked` because `Drained` needs all
  awaited tasks finished and nothing starts once `destroyed`.
  `FirstComeFirstServed` and `ImplementsPool` use `IInv` to show that each
  action starts only the head of the queue and maps to a step of `TaskPool` or
  to a stutter.
- **Print manager.** `IInv` joins the type, the two safety properties and:
  `NoTraceOfUnknown` (an id not yet created has no ticket and no flag),
  `GoroutinesHaveJobs` (a goroutine inside an operation works on a job that
  exists, and the notifier on one whose picture arrived) and `NoSecondWait` (a
  job once auto-confirmed never waits for confirmation again). The last is why
  auto-confirmation cannot happen twice, and it holds because no write of the
  status, locked or not, goes back to `pending_confirm`. Every action is first
  reduced to what it may do to one job (`JobStep`) and to one goroutine
  (`GoStep`); one lemma shows that such steps keep the invariant.
  The account of the confirmations needs the numbers: `NoTicketLost` counts the
  places a job has in the queue, with lemmas for appending a job and taking the
  first, and that the worker prints what it took; `PagesLimited` bounds the
  pages of a job by the price of each print that is over and what the attempts
  of the one in progress have used so far.
- **Push-to-talk.** A picture reaches a job by a chain of ids, so `IInv` has a
  link for each hand-over: an upload that was answered carries a cloud job made
  of its own recording, a recorded id is that job, and what the notification
  loop holds was looked up there. Ids and recordings are never reassigned, so
  the late steps of the chain stay true whatever was lost or doubled between;
  `PictureOfItsTake` follows. `TakeInOnePlace` needs that only started
  processes are named anywhere, so that a fresh one is nowhere yet. The third
  theorem, `RecorderBehindState`, is not a property of a run: while the state
  says "recording" a recorder runs, so that a stop that never comes cannot
  leave the daemon refusing to record.
- **Intake.** `OneJobPerKey` needs to know who may delete. `IInv` says that
  once the key stands for a job, that job is stored and the handler that made
  it is over (`KeyHasJob`), so that only losers ever delete, and each its own;
  that a handler that found the key taken remembers that job
  (`CreatesAgree`); that the device and each of its uploads work on it
  (`DeviceAgrees`, `UploadsAgree`); and that an upload never writes back a
  record that is not there. Without the last two a late upload could bring a
  deleted record back. `FewOrphans` counts: the jobs that are stored, not the
  winner and without a live handler are at most as many as replicas died
  (`OrphansDied`), and no other step makes one.
- **The recording.** For a patient device at most one upload runs, and it is of
  the chunk the device waits for (`OneUpload`). So the record is one of few: at
  rest it has the chunks up to the last one answered or, if that answer was
  lost, one more (`AtRest`), and an upload that waits for S3 or for the store
  holds what it read then (`Staging`, `Saving`; `Untouched` before the first
  chunk). `RecordingsWhole` and `ToldIsHeard` are read off from that.
- **Job records.** The proof follows the record objects. Over Redis each holder
  has its own copy (`Private`). In memory objects are shared, and three facts
  keep two pipelines off one: Node runs one chain of microtasks at a time
  (`OneChain`), `inProgressJobs` has the job of every slot in the stages
  (`Guarded`), and `runFullPipeline`, which does not look there, is the first
  run of its job (`FullFirst`). So only the slot itself changes the text between
  moderation and drawing (`Carried`), and no record shows a picture of another
  text, nor any file or S3 object (`GoodRecords`): `ApprovedOnly`, with
  `NoSharedStages` as a by-product. A preview that is a link may lead nowhere
  after a restart; it never leads to another picture. `LockExcludes` adds that a
  slot inside the lock is its holder unless it is `late` (`HoldsLock`).
- **Job promise.** The refinement of `JobLifecycle` compares each copy with what
  the store holds: it is what was read, and of what happened since only an
  acknowledgement can have passed it by, unless the job is `loose`
  (`CopiesFollow`). Over Redis a link is only stored after its upload (`Links`). Every action is
  classified by what it does to the stored record (opens, submits, resolves,
  acknowledges, answers again or nothing), and `StepsKeepPromise`, the safety part of
  `KeepsPromise`, maps each class to an action of `JobLifecycle`. The other
  half, that a job the promise has working ends, is liveness.
- **Household.** A key is only as good as what was done before it was set, so
  `IInv` relates how far each handler is, and whether its key exists, to what
  is on record (`Progress`): a bind past its second step has its member, a
  decision past the check has no key yet, and each entry made without a key
  is the work of a replica that died. In memory a handler that has begun is alone
  until it is done (`Alone`), so that one about to write has read the version
  that is still there and all versions replaced so far are older (`Versioned`).
  `Recorded` and `OptimisticVersions` follow.
- **Sessions.** A client holds a token only after its row was stored
  (`HeldRows`); the row is stored no earlier than the token was signed and for
  as long as the token lives (`StoringLater`); a lookup is of the token its
  client holds (`LooksUpHeld`). So a row that is missing has expired after its
  token, unless a restart took it: `StaysLoggedIn`.

- **Logins at the provider.** `AppsGetTheirOwn` follows two cookies: a browser
  whose login cookie is of an app's login has that login's redirect cookie or
  none (`JarsFit`), and a callback that took both is bound for that app or for
  the page (`CallbacksFit`). Opening, expiring and abandoning logins keep both,
  because a login is never renamed and the two cookies are set in one response.
- **Speech.** Tokens are issued in order, so that a token a call holds is an
  issued one and a new one is none that was refused: `NoRefusedToken`. Of the
  stream the invariant says that each frame begins where the one before ended
  (`Follow`) and the last reaches as far as the sending loop (`Reaches`).
- **Picture making.** `RunsAreBounded` is a potential argument: `Rest` is the
  longest a run may still take at each point of its control (one signal for all
  attempts of a call, the backoffs left, and while the polling deadline is
  ahead one more pause and poll), and no step makes elapsed time and `Rest`
  together grow. `NothingUnanswered` needs that what is being downloaded is the
  picture that was asked about (`Pictures`), and that every way to it passes the
  moderations that are configured.
- **Compositions.** `HomeTypesCorrect` and `DeviceApiTypesCorrect` carry the
  types of the parts to `MCHome` and `MCDeviceApi`, where each part moves while
  the others rest.

Model-checked only: `ShutdownTerminates`, `AcceptedRuns`, `JobResolves`,
`UploadArrives`, `VendorCallsEnd`, `QueuedJobEnds` and the liveness half of
`KeepsPromise`. Liveness under fairness and ENABLED are out of TLAPS's reach, as
is induction over recursive data; no model is built on a recursive definition. The properties of the runs that expect a violation are false.

## Where code and documents disagree

1. `PipelineDrain`: the queue "drains remaining tasks" on shutdown by its
   comment and its test's name; the code abandons those still pending.
2. `JobAckForgotten`: `advance` is documented to leave terminal states
   unchanged; a worker that had read the record earlier writes it back over
   the acknowledgement.
3. `PrintCancelled`: cancelling a queued job marks it and leaves it in the
   queue; it is printed.
4. `PrintLostPreview`: `UpdatePreviewURL` "persists" the URL; a concurrent
   status update can put the old record back.
5. `PolicyOverwritten`: a patch whose `expected_version` no longer matches is
   documented to be answered 409; over Redis the check and the write are
   separate, and two overlapping patches of one version both succeed.

Met while modelling, without a run of their own:

- The goroutine that waits for a recorder clears the state of whatever recorder
  runs by then (`audio/manager.go`): stop and start at once, and the waiter of
  the first makes the stop of the second fail, so that its recording is lost.
  `StopRecording` does not wait for `arecord`, and an upload may read a file
  that is still being written.
- A preview announced before `RecordCloudJob` finds no local job and is dropped
  (`ipc/service.go:811`); nothing asks again. A subscriber that was too slow is
  closed and `handleCloudNotifications` ends for good. So whether a
  push-to-talk job is ever printed is not promised, and no such property is
  stated.
- The daemon subscribes to `devices/<id>/preview` and posts to
  `/v1/devices/<id>/jobs`; `contracts/mqtt/README.md:9` and `device-api` have
  other names. The model takes the cloud the daemon expects.
- A retried final chunk is answered 409 (`INVALID_JOB_STATE`) although the
  upload is complete; `device-v1-mvp.yaml:287` calls duplicates idempotent. A
  device that does not wait for its first attempt (`Patient = FALSE`) may over
  Redis write back an older record or stage fewer chunks.
- In memory, a final chunk refused as too large has left its mark: repeated, it
  is answered 200 as a duplicate and the job stays `created`.
- `{final:true}` without `seq` after chunks closes the upload without them.
- A timed-out attempt of `retryFetch` is never really sent again, because the
  signal of the first covers all; `vendor-http.service.ts:48` says timeouts are
  retried. A create that failed after it reached the vendor is repeated, so
  that one job may begin several pictures there.
- The Wenxin token is checked against a margin of 60 s and used for up to 300 s
  of polling; a refusal does not drop it.
- `iflytek` or `baidu` named as `ASR_DRIVER` without keys give empty results
  instead of the stub; audio staged in S3 reaches iFlytek only.
- A Baidu response that breaks off leaves its promise pending
  (`baidu-asr.adapter.ts:186`): the worker's slot and lock stay taken.
- iFlytek frames are paced, so that a recording longer than about 55 s always
  meets the default timeout.
- Over Redis a slow patch may write a version older than the one it finds, so
  that the version goes back. A patch whose answer was lost is refused when
  repeated. A request repeated with its key while the first attempt still runs
  (both find no key) is not modelled.
- Moderation takes a 200 without a verdict, such as `{}`, for consent
  (`vendor-http.service.ts:187` and `:263`); the contract in the comment at
  `vendor-http.service.ts:124` and in `doc/4. 服务器端设计.md:231` is
  `{ allowed: true }` to pass.
- With S3, a job restarted from a snapshot in `image_generation` has lost its
  picture; it becomes `preview_ready` with a link to an object that may not
  exist (`vendor-facade.service.ts:244`), without S3 it fails.
- The advance lock lives 120 s by default, one vendor call up to 180 s: a second
  run may begin while the first goes on, and the later write wins, also over an
  acknowledgement. `runFullPipeline` takes no lock at all.
- `printAck` records its key before the record: a crash in between leaves the
  job `preview_ready`, and retries of that key are answered from the key.
- A replica that dies between recording a decision's key and publishing it
  answers the retry from the key: the device is never told. Bind and unbind of
  one device at once may leave a member without its row or a row without its
  member.
- The job and approval lists over Redis return the oldest page, and their
  cursor, a date, is read as a number. `recordJob` has no caller.
- Refresh tokens are not rotated and `del` has no caller; rows in memory are
  never removed. Discovery at the OIDC provider is not repeated after a failure.
- A web login does not clear the redirect cookie of an app login that was
  abandoned; its tokens go to that app's address. The cookies are called
  single-use (`oidc.controller.ts:56`).

## Not modelled

- **Presentation and plain I/O**: gateway, configuration, text-to-speech, the
  user interfaces, CUPS, Redis, BullMQ, S3 and the vendors beyond what the code
  uses of them.
- **`device-api` policy, telemetry, works, MQTT**: a policy fixed at the start
  and published messages nothing reads back; no state that two requests share.
- **Lists of households**: they only read; nothing fills the job list.
- **Print manager's subscribers**: events are dropped when full and read back
  by nobody.
- **Expiry of job records** (a week) against pipelines of minutes, and the
  migration between Redis and the file at start-up.
- **The rest of the edge daemon** (connection, reconnection and `Disconnect` of
  the cloud connector, whose `wg.Wait` waits for a loop over a channel nobody
  closes; parent lock; polling of the button, of which `PushToTalk` has the events; OTA agent) and the Android implementation.
  Their hazards are in `PROJECT.json`, without a property.

## Plan

Done: the queue, the job pipeline, the print manager, push-to-talk with its
notifications, intake, vendors, households, sessions, and the proofs above.
What a continuation would add, in this order:

1. `ParentLock`: attempts and lockout over the store's two locks.
2. `CloudConnector`: disconnect and reconnection, token refresh.
3. Proofs: the invariants of these two, and the job promise in memory for one
   request at a time.
4. The Android edge, which has its own job database.
