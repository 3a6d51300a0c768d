------------------------------ MODULE PushRelay ------------------------------
(***************************************************************************)
(* Native push: internal/notify/relay.go with the device rows of           *)
(* internal/store/notification_devices.go, the enrollment file of          *)
(* internal/config/relay.go and the handlers of                            *)
(* internal/server/notification_devices.go.                                *)
(*                                                                         *)
(* Two callers share one channel: the notification worker pushes, a        *)
(* request registers or removes a device and mirrors that to the relay.    *)
(* Whichever comes first enrols the installation. The relay itself is      *)
(* external: it resolves device ids inside a tenant, answers a repeated    *)
(* idempotency key from its memory, and a reply may be lost on the way.    *)
(* One push goes in one batch (maxDevicesPerPush phones at most), and a    *)
(* status that leaves the device's row alone counts as accepted here.      *)
(***************************************************************************)
EXTENDS Naturals, FiniteSets

CONSTANTS
  PhoneIds,    \* ids the app generated, one per install
  MaxTokens,   \* push tokens the provider hands out, 1..MaxTokens
  MaxPushes,   \* bound on notifications
  MaxRequests, \* bound on device requests
  MaxFaults    \* bound on crashes and failed file operations

VARIABLES
  rows,      \* notification_devices: token (0: no row), enabled, status
  records,   \* the relay's routing records: tenant and token, 0 when unknown
  dead,      \* tokens the push provider reports as unregistered
  file,      \* relay.json: no credential yet (0) or the tenant it names
  readable,  \* can relay.json be read and parsed
  memory,    \* c.enrollment
  holder,    \* who holds c.mu
  tenants,   \* tenants the relay has created for this installation
  used,      \* tenants some request was made under
  worker,    \* the notification being sent
  request,   \* the device request being served
  answered,  \* keys the relay has answered, with what it said
  buzzes,    \* how often a notification reached a device
  work       \* how many pushes, requests and faults there were

relayVars == <<rows, records, dead, file, readable, memory, holder, tenants, used,
               worker, request, answered, buzzes, work>>

Tokens == 1..MaxTokens
Verdicts == {"accepted", "unregistered", "unknown_device"}
Keys == (1..MaxPushes) \X (1..2)

RelayTypeOK ==
  /\ rows \in [PhoneIds -> [token: 0..MaxTokens, enabled: BOOLEAN, status: {"active", "invalid"}]]
  /\ records \in [PhoneIds -> [tenant: Nat, token: 0..MaxTokens]]
  /\ dead \subseteq Tokens /\ used \subseteq 1..tenants
  /\ file \in 0..tenants /\ readable \in BOOLEAN /\ memory \in 0..tenants
  /\ holder \in {"nobody", "worker", "request"}
  /\ worker \in [at: {"idle", "credential", "enroll", "save", "call", "apply"},
                 tenant: 0..tenants, note: 0..MaxPushes, attempt: 1..2,
                 ids: SUBSET PhoneIds, verdicts: SUBSET (PhoneIds \X Verdicts)]
  /\ request \in [at: {"idle", "credential", "enroll", "save", "call"},
                  tenant: 0..tenants, of: PhoneIds, token: 0..MaxTokens]
  /\ answered \subseteq Keys
  /\ buzzes \in [PhoneIds -> [1..MaxPushes -> 0..2]]
  /\ work \in [pushes: 0..MaxPushes, requests: 0..MaxRequests, faults: 0..MaxFaults]

NoPush == [at |-> "idle", tenant |-> 0, note |-> 0, attempt |-> 1, ids |-> {}, verdicts |-> {}]
NoRequest == [at |-> "idle", tenant |-> 0, of |-> CHOOSE d \in PhoneIds : TRUE, token |-> 0]

RelayInit ==
  /\ rows = [d \in PhoneIds |-> [token |-> 0, enabled |-> TRUE, status |-> "active"]]
  /\ records = [d \in PhoneIds |-> [tenant |-> 0, token |-> 0]]
  /\ dead = {} /\ used = {} /\ answered = {}
  /\ file = 0 /\ readable = TRUE /\ memory = 0 /\ tenants = 0
  /\ holder = "nobody" /\ worker = NoPush /\ request = NoRequest
  /\ buzzes = [d \in PhoneIds |-> [n \in 1..MaxPushes |-> 0]]
  /\ work = [pushes |-> 0, requests |-> 0, faults |-> 0]

enrollment == <<file, memory, holder, tenants>>
relaySide == <<records, used, answered, buzzes>>

Fault == work.faults < MaxFaults /\ work' = [work EXCEPT !.faults = @ + 1]

---------------------------------------------------------------------------
\* The provider retires a token; the file becomes unreadable, or readable again.
Retire(t) ==
  /\ t \notin dead /\ dead' = dead \cup {t}
  /\ UNCHANGED <<rows, readable, enrollment, relaySide, worker, request, work>>
FileTrouble ==
  /\ readable' = ~readable /\ (readable => Fault) /\ (~readable => UNCHANGED work)
  /\ UNCHANGED <<rows, dead, enrollment, relaySide, worker, request>>

\* UpsertNotificationDevice: one transaction takes the token from any other row
\* and makes this one active again; the mute is left alone.
Upserted(d, t) ==
  [e \in PhoneIds |->
     IF e = d THEN [token |-> t, enabled |-> (rows[d].token = 0) \/ rows[d].enabled, status |-> "active"]
     ELSE IF rows[e].token = t THEN [rows[e] EXCEPT !.token = 0] ELSE rows[e]]
Register(d, t) ==
  /\ request.at = "idle" /\ work.requests < MaxRequests /\ t \notin dead
  /\ rows' = Upserted(d, t)
  /\ request' = [at |-> "credential", tenant |-> 0, of |-> d, token |-> t]
  /\ work' = [work EXCEPT !.requests = @ + 1]
  /\ UNCHANGED <<dead, readable, enrollment, relaySide, worker>>
\* DELETE of a device: the row goes first, then the relay is told.
Remove(d) ==
  /\ request.at = "idle" /\ work.requests < MaxRequests /\ rows[d].token # 0
  /\ rows' = [rows EXCEPT ![d].token = 0]
  /\ request' = [at |-> "credential", tenant |-> 0, of |-> d, token |-> 0]
  /\ work' = [work EXCEPT !.requests = @ + 1]
  /\ UNCHANGED <<dead, readable, enrollment, relaySide, worker>>
Mute(d) ==
  /\ rows[d].token # 0 /\ work.requests < MaxRequests
  /\ rows' = [rows EXCEPT ![d].enabled = ~@]
  /\ work' = [work EXCEPT !.requests = @ + 1]
  /\ UNCHANGED <<dead, readable, enrollment, relaySide, worker, request>>

\* Send takes the enabled devices nobody has reported as gone; the ids are fixed
\* here, before the credential is asked for.
Reachable == {d \in PhoneIds : rows[d].token # 0 /\ rows[d].enabled /\ rows[d].status = "active"}
Send ==
  /\ worker.at = "idle" /\ work.pushes < MaxPushes /\ Reachable # {}
  /\ worker' = [NoPush EXCEPT !.at = "credential", !.note = work.pushes + 1, !.ids = Reachable]
  /\ work' = [work EXCEPT !.pushes = @ + 1]
  /\ UNCHANGED <<rows, dead, readable, enrollment, relaySide, request>>

---------------------------------------------------------------------------
\* credential(): who is here, and where it goes next.
At(c) == IF c = "worker" THEN worker.at ELSE request.at
Move(c, at, tenant) ==
  IF c = "worker"
  THEN worker' = [worker EXCEPT !.at = at, !.tenant = tenant] /\ UNCHANGED request
  ELSE request' = [request EXCEPT !.at = at, !.tenant = tenant] /\ UNCHANGED worker
\* An error ends the push (Send fails) or the mirroring (logged, request succeeds).
GiveUp(c) ==
  IF c = "worker" THEN worker' = NoPush /\ UNCHANGED request
                  ELSE request' = NoRequest /\ UNCHANGED worker

\* Mutation of Free: the check and the enrollment are not held together.
FreeAlways(c) == TRUE
Free(c) == holder = "nobody"

\* The credential in memory, or the one on file.
Known(c) ==
  /\ At(c) = "credential" /\ Free(c)
  /\ memory # 0 \/ (readable /\ file # 0)
  /\ memory' = IF memory # 0 THEN memory ELSE file
  /\ Move(c, "call", memory')
  /\ UNCHANGED <<rows, dead, file, readable, holder, tenants, relaySide, work>>
\* Mutation of MayEnroll: a file that cannot be read counts as no enrollment.
MayEnrollUnread == ~readable \/ file = 0
MayEnroll == readable /\ file = 0
Unknown(c) ==
  /\ At(c) = "credential" /\ Free(c) /\ memory = 0 /\ MayEnroll
  /\ holder' = c
  /\ Move(c, "enroll", 0)
  /\ UNCHANGED <<rows, dead, file, readable, memory, tenants, relaySide, work>>
\* "never a reason to re-enroll"
Unreadable(c) ==
  /\ At(c) = "credential" /\ Free(c) /\ memory = 0 /\ ~readable /\ ~MayEnroll
  /\ GiveUp(c)
  /\ UNCHANGED <<rows, dead, enrollment, readable, relaySide, work>>
Enroll(c) ==
  /\ At(c) = "enroll"
  /\ tenants' = tenants + 1
  /\ Move(c, "save", tenants + 1)
  /\ UNCHANGED <<rows, dead, file, readable, memory, holder, relaySide, work>>
EnrollFails(c) ==
  /\ At(c) = "enroll" /\ Fault
  /\ holder' = "nobody" /\ GiveUp(c)
  /\ UNCHANGED <<rows, dead, file, readable, memory, tenants, relaySide>>
\* Written before it is used.
Save(c) ==
  /\ At(c) = "save"
  /\ LET fresh == IF c = "worker" THEN worker.tenant ELSE request.tenant IN
       file' = fresh /\ memory' = fresh /\ Move(c, "call", fresh)
  /\ readable' = TRUE
  /\ holder' = "nobody"
  /\ UNCHANGED <<rows, dead, tenants, relaySide, work>>
\* The file was truncated and not written: it reads as not enrolled.
SaveFails(c) ==
  /\ At(c) = "save" /\ Fault
  /\ file' = 0 /\ holder' = "nobody" /\ GiveUp(c)
  /\ UNCHANGED <<rows, dead, readable, memory, tenants, relaySide>>

---------------------------------------------------------------------------
\* PutDevice and DeleteDevice: best effort, and the answer does not matter.
Mirror ==
  /\ request.at = "call"
  /\ \/ records' = [records EXCEPT ![request.of] =
                      IF request.token = 0 THEN [tenant |-> 0, token |-> 0]
                      ELSE [tenant |-> request.tenant, token |-> request.token]]
     \/ UNCHANGED records
  /\ used' = used \cup {request.tenant}
  /\ request' = NoRequest
  /\ UNCHANGED <<rows, dead, enrollment, readable, answered, buzzes, worker, work>>

VerdictOn(d) ==
  IF records[d].token = 0 \/ records[d].tenant # worker.tenant THEN "unknown_device"
  ELSE IF records[d].token \in dead THEN "unregistered" ELSE "accepted"

\* Mutation of KeyOf: every attempt has a key of its own.
KeyOfAttempt(note, attempt) == <<note, attempt>>
\* The notification's id is the idempotency key of every attempt to push it.
KeyOf(note, attempt) == <<note, 1>>

\* The request reaches the relay; a key it has answered buzzes nobody again.
Arrive ==
  LET key == KeyOf(worker.note, worker.attempt)
      says == {<<d, VerdictOn(d)>> : d \in worker.ids}
  IN /\ answered' = answered \cup {key}
     /\ buzzes' = [d \in PhoneIds |->
          IF key \notin answered /\ <<d, "accepted">> \in says
          THEN [buzzes[d] EXCEPT ![worker.note] = @ + 1] ELSE buzzes[d]]
     /\ used' = used \cup {worker.tenant}
     /\ UNCHANGED <<rows, records, dead, enrollment, readable, request, work>>
Push ==
  /\ worker.at = "call"
  /\ worker' = [worker EXCEPT !.at = "apply", !.verdicts = {<<d, VerdictOn(d)>> : d \in worker.ids}]
  /\ Arrive
\* attempt: the reply is lost or says try again (429, 503, 409): one more time.
ReplyLost ==
  /\ worker.at = "call"
  /\ worker' = IF worker.attempt = 1 THEN [worker EXCEPT !.attempt = 2] ELSE NoPush
  /\ Arrive
PushLost ==
  /\ worker.at = "call"
  /\ worker' = IF worker.attempt = 1 THEN [worker EXCEPT !.attempt = 2] ELSE NoPush
  /\ UNCHANGED <<rows, dead, enrollment, readable, relaySide, request, work>>
\* 400 and 401 are not retried.
Refused ==
  /\ worker.at = "call" /\ worker' = NoPush
  /\ UNCHANGED <<rows, dead, enrollment, readable, relaySide, request, work>>

\* applyStatus: a device that cannot be reached is marked, by its id; when the row
\* cannot be written, that is logged.
Apply(d, v) ==
  /\ worker.at = "apply" /\ <<d, v>> \in worker.verdicts
  /\ \/ v # "accepted" /\ rows[d].token # 0 /\ rows' = [rows EXCEPT ![d].status = "invalid"]
     \/ UNCHANGED rows
  /\ worker' = IF worker.verdicts = {<<d, v>>} THEN NoPush
               ELSE [worker EXCEPT !.verdicts = @ \ {<<d, v>>}]
  /\ UNCHANGED <<dead, enrollment, readable, relaySide, request, work>>

\* The daemon dies and comes back: rows, file and relay remain.
Restart ==
  /\ Fault
  /\ memory' = 0 /\ holder' = "nobody" /\ worker' = NoPush /\ request' = NoRequest
  /\ UNCHANGED <<rows, dead, file, readable, tenants, relaySide>>

---------------------------------------------------------------------------
Credential(c) == Known(c) \/ Unknown(c) \/ Unreadable(c) \/ Enroll(c) \/ EnrollFails(c)
                 \/ Save(c) \/ SaveFails(c)

RelayNext ==
  \/ \E t \in Tokens : Retire(t)
  \/ FileTrouble \/ Send \/ Mirror \/ Push \/ ReplyLost \/ PushLost \/ Refused \/ Restart
  \/ \E d \in PhoneIds : Remove(d) \/ Mute(d) \/ \E t \in Tokens : Register(d, t)
  \/ \E c \in {"worker", "request"} : Credential(c)
  \/ \E d \in PhoneIds, v \in Verdicts : Apply(d, v)

RelaySpec == RelayInit /\ [][RelayNext]_relayVars

---------------------------------------------------------------------------
\* One notification buzzes a phone at most once, although every push may be sent
\* twice and its first reply lost.
OneBuzz == \A d \in PhoneIds : \A n \in 1..MaxPushes : buzzes[d][n] <= 1

\* A tenant that anything was ever registered or pushed under is the one on file:
\* neither two callers enrolling at once, nor a file that cannot be read, nor a
\* crash at any point abandons it.
OneTenant == \A t \in used : file = t

=============================================================================
