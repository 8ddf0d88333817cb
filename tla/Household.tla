------------------------------ MODULE Household ------------------------------
(***************************************************************************)
(* What parents change in their household: bound devices, the policy, the  *)
(* decisions on jobs (cloud/apps/parent-bff/src/households and mqtt).      *)
(*                                                                         *)
(* Each app of a parent wants one thing and repeats its request, with the  *)
(* Idempotency-Key it chose for it, until it is answered; it repeats only  *)
(* when the attempt before is over.  A handler goes through the steps of   *)
(* its plan, cut at its awaits: over Redis each is a round trip, and the   *)
(* replica may die between two of them; in memory nothing really waits     *)
(* and a handler runs through before the next event (HouseholdBusy). *)
(*                                                                         *)
(* One household is enough, since every key holds its id.  Left out: the   *)
(* lists of jobs (recordJob has no caller, so that they stay empty) and    *)
(* of decisions, which only read; expiry of keys after a day; requests     *)
(* without a key, answered 400, and of another household, answered 403.    *)
(***************************************************************************)
EXTENDS Integers, Sequences

CONSTANTS
    Apps,       \* parents' apps, each with one thing to do
    Devices,
    Jobs,
    Homes,      \* deployments and households to consider, see Home
    MaxPatches, \* policy writes considered
    MaxMisses   \* answers that are lost and replicas that die

(* on: the device to bind or unbind, the job decided on, or, for a patch,  *)
(* whether remote_print_gate is switched on; tell: the device_id a         *)
(* decision names, if any; careful: the patch sends expected_version       *)
Request ==
    [op : {"bind", "unbind"}, on : Devices]
      \cup [op : {"approve", "reject"}, on : Jobs, tell : SUBSET Devices]
      \cup [op : {"patch"}, on : BOOLEAN, careful : BOOLEAN]

Home == [redis : BOOLEAN, mqtt : BOOLEAN, wants : [Apps -> Request]]

ASSUME HomeAssumption == Homes \subseteq Home
ASSUME MissAssumption == MaxPatches \in Nat /\ MaxMisses \in Nat

VARIABLES
    home,       \* one of Homes, for good
    db,         \* what the backend holds of the household
    srv,        \* each app's request in the server: where, and what it read
    app,        \* each app: how far it is, and the policy version it saw
    told,       \* <<a, d>>: device d was sent the outcome of a's request
    replaced,   \* the versions each app's patch has replaced
    misses, downs

hvars == <<home, db, srv, app, told, replaced, misses, downs>>

Versions == 1..(MaxPatches + 1)

(* decisions counts the entries of the approvals set each app has added;   *)
(* keys holds the apps whose Idempotency-Key has a result.                 *)
HouseholdTypeOK ==
    /\ home \in Homes
    /\ db \in [members : SUBSET Devices, rows : SUBSET Devices,
               version : Versions, gate : BOOLEAN,
               decisions : [Apps -> 0..(MaxMisses + 1)], keys : SUBSET Apps]
    /\ srv \in [Apps -> [at : 0..5, version : 0..(MaxPatches + 1), gate : BOOLEAN,
                         devices : SUBSET Devices]]
    /\ app \in [Apps -> [phase : {"look", "ask", "wait", "done", "refused"},
                         base : 0..(MaxPatches + 1)]]
    /\ told \subseteq Apps \X Devices
    /\ replaced \in [Apps -> SUBSET Versions]
    /\ misses \in 0..MaxMisses
    /\ downs \in 0..misses

want(a) == home.wants[a]
NoRequest == [at |-> 0, version |-> 0, gate |-> FALSE, devices |-> {}]

HouseholdInit ==
    /\ home \in Homes
    /\ db = [members |-> {}, rows |-> {}, version |-> 1, gate |-> FALSE,
             decisions |-> [a \in Apps |-> 0], keys |-> {}]
    /\ srv = [a \in Apps |-> NoRequest]
    /\ app = [a \in Apps |->
                [phase |-> IF want(a).op = "patch" /\ want(a).careful THEN "look" ELSE "ask",
                 base |-> 0]]
    /\ told = {}
    /\ replaced = [a \in Apps |-> {}]
    /\ misses = 0
    /\ downs = 0

(* The awaits of each handler, in order *)
BadPlan(op) ==
    CASE op = "bind" -> <<"check", "remember", "member", "row", "answer">>
      [] op = "unbind" -> <<"leave", "drop", "answer">>
      [] op = "patch" -> <<"read", "write", "devices", "tell">>
      [] op \in {"approve", "reject"} -> <<"check", "remember", "decide", "tell">>
Plan(op) ==
    CASE op = "bind" -> <<"check", "member", "row", "remember", "answer">>
      [] op = "unbind" -> <<"leave", "drop", "answer">>
      [] op = "patch" -> <<"read", "write", "devices", "tell">>
      [] op \in {"approve", "reject"} -> <<"check", "decide", "remember", "tell">>

Running(a) == srv[a].at > 0
At(a, step) == Running(a) /\ Plan(want(a).op)[srv[a].at] = step
HouseholdBusy == ~home.redis /\ \E a \in Apps : Running(a)

-----------------------------------------------------------------------------
(* The apps *)

(* GET policy, before a patch that is to send expected_version *)
Look(a) ==
    /\ ~HouseholdBusy
    /\ app[a].phase = "look"
    /\ app' = [app EXCEPT ![a] = [phase |-> "ask", base |-> db.version]]
    /\ UNCHANGED <<home, db, srv, told, replaced, misses, downs>>

Ask(a) ==
    /\ ~HouseholdBusy
    /\ app[a].phase = "ask"
    /\ app' = [app EXCEPT ![a].phase = "wait"]
    /\ srv' = [srv EXCEPT ![a].at = 1]
    /\ UNCHANGED <<home, db, told, replaced, misses, downs>>

(* The handler is over; its answer is heard, or lost and asked for again *)
AnswerApp(a, phase) ==
    /\ srv' = [srv EXCEPT ![a] = NoRequest]
    /\ \/ app' = [app EXCEPT ![a].phase = phase] /\ UNCHANGED misses
       \/ /\ misses < MaxMisses
          /\ misses' = misses + 1
          /\ app' = [app EXCEPT ![a].phase = "ask"]

GoOn(a) == srv' = [srv EXCEPT ![a].at = @ + 1] /\ UNCHANGED <<app, misses>>

-----------------------------------------------------------------------------
(* Steps of handlers *)

checkIdempotency(a) ==
    /\ At(a, "check")
    /\ IF a \in db.keys THEN AnswerApp(a, "done") ELSE GoOn(a)
    /\ UNCHANGED <<home, db, told, replaced, downs>>

Effect(a, step, new) ==
    /\ At(a, step)
    /\ db' = new
    /\ GoOn(a)
    /\ UNCHANGED <<home, told, replaced, downs>>

setIdempotency(a) == Effect(a, "remember", [db EXCEPT !.keys = @ \cup {a}])

bindDevice(a) ==
    \/ Effect(a, "member", [db EXCEPT !.members = @ \cup {want(a).on}])
    \/ Effect(a, "row", [db EXCEPT !.rows = @ \cup {want(a).on}])

unbindDevice(a) ==
    \/ Effect(a, "leave", [db EXCEPT !.members = @ \ {want(a).on}])
    \/ Effect(a, "drop", [db EXCEPT !.rows = @ \ {want(a).on}])

Decide(a) == Effect(a, "decide", [db EXCEPT !.decisions[a] = @ + 1])

AnswerBinding(a) ==
    /\ At(a, "answer")
    /\ AnswerApp(a, "done")
    /\ UNCHANGED <<home, db, told, replaced, downs>>

BadMismatch(a) == FALSE
Mismatch(a) == app[a].base # 0 /\ app[a].base # db.version

(* patchPolicy reads the policy and compares it with expected_version ... *)
getPolicy(a) ==
    /\ At(a, "read")
    /\ IF Mismatch(a) THEN AnswerApp(a, "refused")
       ELSE /\ srv' = [srv EXCEPT ![a].at = @ + 1, ![a].version = db.version,
                                  ![a].gate = db.gate]
            /\ UNCHANGED <<app, misses>>
    /\ UNCHANGED <<home, db, told, replaced, downs>>

BadNextVersion(a) == srv[a].version - 1
NextVersion(a) == srv[a].version + 1

(* ... and writes what it makes of what it has read, whatever is there now *)
WritePolicy(a) ==
    /\ At(a, "write")
    /\ srv[a].version <= MaxPatches
    /\ db' = [db EXCEPT !.version = NextVersion(a), !.gate = want(a).on]
    /\ replaced' = [replaced EXCEPT ![a] = @ \cup {db.version}]
    /\ GoOn(a)
    /\ UNCHANGED <<home, told, downs>>

getDevices(a) ==
    /\ At(a, "devices")
    /\ srv' = [srv EXCEPT ![a].at = @ + 1, ![a].devices = db.members]
    /\ UNCHANGED <<home, db, app, told, replaced, misses, downs>>

Audience(a) == IF want(a).op = "patch" THEN srv[a].devices ELSE want(a).tell

(* The outcome is published when the broker is connected at that moment,   *)
(* and the request is answered.                                            *)
TellDevices(a) ==
    /\ At(a, "tell")
    /\ \/ home.mqtt /\ told' = told \cup ({a} \X Audience(a))
       \/ UNCHANGED told
    /\ AnswerApp(a, "done")
    /\ UNCHANGED <<home, db, replaced, downs>>

Handle(a) ==
    \/ checkIdempotency(a) \/ setIdempotency(a)
    \/ bindDevice(a) \/ unbindDevice(a) \/ AnswerBinding(a)
    \/ Decide(a) \/ getPolicy(a) \/ WritePolicy(a) \/ getDevices(a) \/ TellDevices(a)

(* The replica that works on a request dies *)
HandlerDies(a) ==
    /\ home.redis
    /\ Running(a)
    /\ misses < MaxMisses
    /\ misses' = misses + 1
    /\ downs' = downs + 1
    /\ srv' = [srv EXCEPT ![a] = NoRequest]
    /\ app' = [app EXCEPT ![a].phase = "ask"]
    /\ UNCHANGED <<home, db, told, replaced>>

HouseholdNext ==
    \E a \in Apps : Look(a) \/ Ask(a) \/ Handle(a) \/ HandlerDies(a)

HouseholdSpec == HouseholdInit /\ [][HouseholdNext]_hvars

-----------------------------------------------------------------------------
(* The opposite request for the same device may have been sent *)
Opposed(a) ==
    \E b \in Apps \ {a} : /\ {want(a).op, want(b).op} = {"bind", "unbind"}
                          /\ want(a).on = want(b).on
                          /\ app[b].phase # "ask" \/ misses > 0

OnRecord(a) ==
    LET w == want(a) IN
    CASE w.op = "bind" -> w.on \in db.members \cap db.rows \/ Opposed(a)
      [] w.op = "unbind" -> w.on \notin db.members \cup db.rows \/ Opposed(a)
      [] w.op = "patch" -> replaced[a] # {}
      [] w.op \in {"approve", "reject"} -> db.decisions[a] > 0

(* "bind / approve / reject require Idempotency-Key (stub replay)"         *)
(* (parent-v1-mvp.yaml:7): whatever a parent was answered, replay or not,  *)
(* and whatever a device was told, is on record, though replicas die       *)
(* between the write, the key and the answer.  A decision repeated with    *)
(* its key is recorded once: only a replica that dies after the record and *)
(* before the key leaves another entry.                                    *)
AnsweredIsRecorded ==
    \A a \in Apps :
      /\ app[a].phase = "done" \/ (\E d \in Devices : <<a, d>> \in told) => OnRecord(a)
      /\ db.decisions[a] <= 1 + downs

(* "409 on expected_version mismatch" (parent-v1-mvp.yaml:153): a parent   *)
(* who sends the version the app has shown changes that version only.      *)
NoPatchOverwrites ==
    \A a \in Apps : app[a].base # 0 => replaced[a] \subseteq {app[a].base}

(* So it is where one process holds the policy in memory and a handler     *)
(* runs through: there each version is also replaced once.  Over Redis the *)
(* check and the write are apart, see PolicyOverwritten.                   *)
PatchSeesItsBase ==
    ~home.redis =>
      /\ NoPatchOverwrites
      /\ \A a, b \in Apps : a # b => replaced[a] \cap replaced[b] = {}
=============================================================================
