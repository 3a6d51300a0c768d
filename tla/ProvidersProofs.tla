---------------------------- MODULE ProvidersProofs ---------------------------
(***************************************************************************)
(* Proofs about MCProviders, for every value of its constants that meets   *)
(* its assumptions: one CLI for an expired token and one code for a        *)
(* sign-in's question, the MCP servers of a turn and their test, what the  *)
(* two adapters' turns are told, all of one Codex turn told once, and the  *)
(* types of them all.                                                      *)
(* Each part has an invariant of its own, proved under the names           *)
(* MCProviders instantiates it by.                                         *)
(***************************************************************************)
EXTENDS MCProviders, Integers, FiniteSets, FiniteSetTheorems, WellFoundedInduction, TLAPS

\* A step is one of a single component, and the others rest.
LEMMA StepsOfOne ==
  ASSUME [Next]_vars
  PROVE  /\ [Codex!CodexNext]_codexVars
         /\ [Claude!ClaudeNext]_claudeVars
         /\ [OneTurn!CodexTurnNext]_codexTurnVars
         /\ [Usage!UsageNext]_usageVars
         /\ [Login!LoginNext]_loginVars
         /\ [Mcp!McpNext]_mcpVars
         /\ [Test!TestNext]_mcpTestVars
BY DEF Next, vars, Only

-----------------------------------------------------------------------------
(* The usage tracker: the cooldown a round claims, in the section in which *)
(* it looked at it, outlasts the renewal; who claims later finds the       *)
(* earlier renewal over (RenewalIsCovered).                                *)

RoundParts ==
  /\ DOMAIN round = Usage!Rounds
  /\ \A r \in Usage!Rounds : DOMAIN round[r] = {"at", "since", "renewed", "snap", "retry"}

RenewalIsCovered ==
  \A r \in Usage!Rounds :
    round[r].at = "renew" =>
      /\ round[r].since \in Nat /\ now <= round[r].since + CliTimeout
      /\ round[r].since + Cooldown <= renewAt

OneRenewal ==
  \A q, r \in Usage!Rounds : round[q].at = "renew" /\ round[r].at = "renew" => q = r

UsageInv ==
  now \in Nat /\ renewAt \in Nat /\ RoundParts /\ RenewalIsCovered /\ OneRenewal

-----------------------------------------------------------------------------
LEMMA InitUsageInv == Usage!UsageInit => UsageInv
  BY DEF Usage!UsageInit, Usage!NoRound, UsageInv, RoundParts, RenewalIsCovered, OneRenewal

\* A round that does not renew after its step disturbs nothing.
LEMMA RoundStep ==
  ASSUME UsageInv, NEW r \in Usage!Rounds, NEW s, round' = [round EXCEPT ![r] = s],
         DOMAIN s = {"at", "since", "renewed", "snap", "retry"}, s.at # "renew",
         now' = now, renewAt' = renewAt
  PROVE  UsageInv'
<1>1. DOMAIN round' = Usage!Rounds /\ \A q \in Usage!Rounds : round'[q] = IF q = r THEN s ELSE round[q]
  BY DEF UsageInv, RoundParts
<1> QED
  BY <1>1 DEF UsageInv, RoundParts, RenewalIsCovered, OneRenewal

\* Where the rounds and their times stay, so does the invariant.
LEMMA UsageRests ==
  ASSUME UsageInv, UNCHANGED <<now, renewAt, round>>
  PROVE  UsageInv'
  BY DEF UsageInv, RoundParts, RenewalIsCovered, OneRenewal

LEMMA EnterKeepsInv ==
  ASSUME UsageInv, NEW r \in Usage!Rounds, NEW force, Usage!Enter(r, force), now' = now, renewAt' = renewAt
  PROVE  UsageInv'
<1>1. CASE Usage!Skips(force)
  <2> DEFINE s == [Usage!NoRound EXCEPT !.at = "record", !.snap = Usage!Skipped]
  <2>1. DOMAIN s = {"at", "since", "renewed", "snap", "retry"} /\ s.at = "record"
    BY DEF Usage!NoRound
  <2>2. round' = [round EXCEPT ![r] = s]
    BY <1>1 DEF Usage!Enter
  <2> HIDE DEF s
  <2> QED
    BY <2>1, <2>2, RoundStep
<1>2. CASE ~Usage!Skips(force)
  <2> DEFINE s == [Usage!NoRound EXCEPT !.at = "fetch", !.since = now]
  <2>1. DOMAIN s = {"at", "since", "renewed", "snap", "retry"} /\ s.at = "fetch"
    BY DEF Usage!NoRound
  <2>2. round' = [round EXCEPT ![r] = s]
    BY <1>2 DEF Usage!Enter
  <2> HIDE DEF s
  <2> QED
    BY <2>1, <2>2, RoundStep
<1> QED
  BY <1>1, <1>2

LEMMA AnswerKeepsInv ==
  ASSUME UsageInv, NEW r \in Usage!Rounds, Usage!Answer(r)
  PROVE  UsageInv'
<1>0. PICK s \in Usage!Outcomes :
        IF Usage!Renewable(r, s)
        THEN /\ renewAt' = Usage!Claimed
             /\ round' = [round EXCEPT ![r].at = "renew", ![r].since = now]
        ELSE /\ round' = [round EXCEPT ![r].at = "record", ![r].snap = Usage!Fetched(r, s)]
             /\ UNCHANGED renewAt
  BY DEF Usage!Answer
<1>1. now' = now /\ round[r].at = "fetch"
  BY DEF Usage!Answer
<1>2. CASE Usage!Renewable(r, s)
  <2>1. renewAt' = now + Cooldown /\ now >= renewAt
    BY <1>0, <1>2 DEF Usage!Claimed, Usage!Renewable
  <2>2. /\ DOMAIN round' = Usage!Rounds
        /\ \A q \in Usage!Rounds \ {r} : round'[q] = round[q]
        /\ DOMAIN round'[r] = DOMAIN round[r] /\ round'[r].at = "renew" /\ round'[r].since = now
    BY <1>0, <1>2 DEF UsageInv, RoundParts
  <2>3. \A q \in Usage!Rounds : round[q].at # "renew"
    BY <2>1, CooldownAssumption DEF UsageInv, RenewalIsCovered
  <2> QED
    BY <1>1, <2>1, <2>2, <2>3, CooldownAssumption DEF UsageInv, RoundParts, RenewalIsCovered, OneRenewal
<1>3. CASE ~Usage!Renewable(r, s)
  <2> DEFINE t == [round[r] EXCEPT !.at = "record", !.snap = Usage!Fetched(r, s)]
  <2>1. round' = [round EXCEPT ![r] = t]
    BY <1>0, <1>3 DEF UsageInv, RoundParts
  <2>2. DOMAIN t = {"at", "since", "renewed", "snap", "retry"} /\ t.at = "record"
    BY DEF UsageInv, RoundParts
  <2> HIDE DEF t
  <2> QED
    BY <1>0, <1>1, <1>3, <2>1, <2>2, RoundStep
<1> QED
  BY <1>2, <1>3

LEMMA RenewKeepsInv ==
  ASSUME UsageInv, NEW r \in Usage!Rounds, Usage!Renew(r) \/ Usage!Record(r) \/ Usage!Rebuild(r)
  PROVE  UsageInv'
<1> DEFINE Quiet(s) == DOMAIN s = {"at", "since", "renewed", "snap", "retry"} /\ s.at # "renew"
<1>1. now' = now /\ renewAt' = renewAt
  BY DEF Usage!Renew, Usage!Record, Usage!Rebuild
<1>2. CASE Usage!Renew(r)
  <2> DEFINE s == [round[r] EXCEPT !.at = "fetch", !.since = now, !.renewed = TRUE]
  <2>1. round' = [round EXCEPT ![r] = s]
    BY <1>2 DEF Usage!Renew, UsageInv, RoundParts
  <2>2. DOMAIN s = {"at", "since", "renewed", "snap", "retry"} /\ s.at = "fetch"
    BY DEF UsageInv, RoundParts
  <2> HIDE DEF s
  <2> QED
    BY <1>1, <2>1, <2>2, RoundStep
<1>3. CASE Usage!Record(r)
  <2> DEFINE s(t) == [round[r] EXCEPT !.at = "rebuild", !.retry = t]
  <2>1. \A t : DOMAIN s(t) = {"at", "since", "renewed", "snap", "retry"} /\ s(t).at = "rebuild"
    BY DEF UsageInv, RoundParts
  <2>2. \/ round' = [round EXCEPT ![r].at = "rebuild"]
        \/ \E t : round' = [round EXCEPT ![r].at = "rebuild", ![r].retry = t]
    BY <1>3 DEF Usage!Record
  <2>3. CASE round' = [round EXCEPT ![r].at = "rebuild"]
    <3> DEFINE u == [round[r] EXCEPT !.at = "rebuild"]
    <3>1. DOMAIN u = {"at", "since", "renewed", "snap", "retry"} /\ u.at = "rebuild"
      BY DEF UsageInv, RoundParts
    <3>2. round' = [round EXCEPT ![r] = u]
      BY <2>3 DEF UsageInv, RoundParts
    <3> HIDE DEF u
    <3> QED
      BY <1>1, <3>1, <3>2, RoundStep
  <2>4. ASSUME NEW t, round' = [round EXCEPT ![r].at = "rebuild", ![r].retry = t]
        PROVE  UsageInv'
    <3>1. round' = [round EXCEPT ![r] = s(t)]
      BY <2>4 DEF UsageInv, RoundParts
    <3> HIDE DEF s
    <3> QED
      BY <1>1, <2>1, <3>1, RoundStep
  <2> QED
    BY <2>2, <2>3, <2>4
<1>4. CASE Usage!Rebuild(r)
  <2>1. round' = [round EXCEPT ![r] = Usage!NoRound]
    BY <1>4 DEF Usage!Rebuild
  <2>2. DOMAIN Usage!NoRound = {"at", "since", "renewed", "snap", "retry"} /\ Usage!NoRound.at = "idle"
    BY DEF Usage!NoRound
  <2> QED
    BY <1>1, <2>1, <2>2, RoundStep
<1> QED
  BY <1>2, <1>3, <1>4

\* The clock waits for a renewal that is at its timeout.
LEMMA TickKeepsInv ==
  ASSUME UsageInv, Usage!Tick
  PROVE  UsageInv'
<1>1. \A r \in Usage!Rounds : round[r].at = "renew" => now < round[r].since + CliTimeout
  BY DEF Usage!Tick
<1>2. now' = now + 1 /\ renewAt' = renewAt /\ round' = round
  BY DEF Usage!Tick
<1> QED
  BY <1>1, <1>2, CooldownAssumption DEF UsageInv, RoundParts, RenewalIsCovered, OneRenewal

LEMMA NextUsageInv == UsageInv /\ [Usage!UsageNext]_usageVars => UsageInv'
<1> SUFFICES ASSUME UsageInv, [Usage!UsageNext]_usageVars PROVE UsageInv'
  OBVIOUS
<1>0. {"loop", "request"} = Usage!Rounds
  BY DEF Usage!Rounds
<1>1. CASE UNCHANGED usageVars
  BY <1>1, UsageRests DEF usageVars
<1>2. CASE Usage!Poll
  <2>1. now' = now /\ renewAt' = renewAt
    BY <1>2 DEF Usage!Poll
  <2> QED
    BY <1>0, <1>2, <2>1, EnterKeepsInv DEF Usage!Poll
<1>3. CASE Usage!Request
  <2>1. now' = now /\ renewAt' = renewAt
    BY <1>3 DEF Usage!Request
  <2> QED
    BY <1>0, <1>3, <2>1, EnterKeepsInv DEF Usage!Request
<1>4. ASSUME NEW r \in Usage!Rounds,
             Usage!Answer(r) \/ Usage!Renew(r) \/ Usage!Record(r) \/ Usage!Rebuild(r)
      PROVE  UsageInv'
  BY <1>4, AnswerKeepsInv, RenewKeepsInv
<1>5. CASE Usage!TurnEnd \/ Usage!SignIn \/ Usage!Expire \/ \E p \in Profiles : Usage!Ingest(p)
  <2>1. UNCHANGED <<now, renewAt, round>>
    BY <1>5 DEF Usage!TurnEnd, Usage!SignIn, Usage!Expire, Usage!Ingest
  <2> QED
    BY <2>1, UsageRests
<1>6. CASE Usage!Tick
  BY <1>6, TickKeepsInv
<1> QED
  BY <1>1, <1>2, <1>3, <1>4, <1>5, <1>6 DEF Usage!UsageNext, Usage!UsageProgress

LEMMA UsageInvMeans == UsageInv => Usage!OneCliPerToken
<1> SUFFICES ASSUME UsageInv PROVE Usage!OneCliPerToken
  OBVIOUS
<1> DEFINE S == {r \in Usage!Rounds : round[r].at = "renew"}
<1>1. \A T : Usage!Cardinality(T) = Cardinality(T)
  BY DEF Usage!Cardinality, Cardinality
<1>2. CASE S = {}
  BY <1>1, <1>2, FS_EmptySet DEF Usage!OneCliPerToken
<1>3. ASSUME NEW r \in S PROVE Cardinality(S) = 1
  <2>1. S = {r}
    BY <1>3 DEF UsageInv, OneRenewal
  <2> QED
    BY <2>1, FS_Singleton
<1> QED
  BY <1>1, <1>2, <1>3 DEF Usage!OneCliPerToken

-----------------------------------------------------------------------------
(* Signing in: a submission marks a session that awaits a code, in one     *)
(* section, and writes after it; so at most one is marked, none while the  *)
(* CLI holds a code (Fine), and the session asks again only when the CLI   *)
(* has turned the code down.                                               *)

Sessions ==
  [at : {"new", "superseding", "listed", "swept"}, phase : Login!Phases,
   cli : {"none", "running", "passed", "failed"}, cancelled : BOOLEAN,
   url : BOOLEAN, codes : {0, 1}]

LoginTypes ==
  /\ login \in [Attempts -> Sessions]
  /\ submit \in [Submits -> [at : {"idle", "marked", "done"}, for : Attempts]]
  /\ needsCode \in BOOLEAN /\ signedIn \in BOOLEAN

Marked(i) == {s \in Submits : submit[s].at = "marked" /\ submit[s].for = i}

\* What a session and the submissions marked for it may be together.
Fine(l, marks) ==
  /\ marks # {} => l.codes = 0
  /\ l.phase = "awaiting_code" => l.codes = 0 /\ marks = {}
  /\ ~l.url => l.codes = 0 /\ marks = {} /\ l.phase # "awaiting_code"
  /\ l.phase = "succeeded" => l.cli = "passed"
  /\ l.at \in {"new", "superseding"} => l.cli = "none" /\ l.phase = "starting"

LoginInv ==
  /\ LoginTypes
  /\ \A i \in Attempts : /\ Fine(login[i], Marked(i))
                         /\ \A s, t \in Marked(i) : s = t
                         /\ login[i].cli = "passed" => signedIn

-----------------------------------------------------------------------------
LEMMA InitLoginInv == Login!LoginInit => LoginInv
<1> SUFFICES ASSUME Login!LoginInit PROVE LoginInv
  OBVIOUS
<1>1. \A s \in Submits : submit[s].at = "idle" /\ submit[s] \in [at : {"idle", "marked", "done"}, for : Attempts]
  BY DEF Login!LoginInit
<1>2. submit \in [Submits -> [at : {"idle", "marked", "done"}, for : Attempts]]
  BY <1>1 DEF Login!LoginInit
<1>3. [at |-> "new", phase |-> "starting", cli |-> "none", cancelled |-> FALSE, url |-> FALSE, codes |-> 0] \in Sessions
  BY DEF Sessions, Login!Phases
<1>4. \A i \in Attempts : Marked(i) = {}
  BY <1>1 DEF Marked
<1> QED
  BY <1>2, <1>3, <1>4 DEF Login!LoginInit, LoginInv, LoginTypes, Fine

\* A step of one session that leaves the submissions alone.
LEMMA SessionStep ==
  ASSUME LoginInv, NEW i \in Attempts, NEW l \in Sessions, login' = [login EXCEPT ![i] = l],
         submit' = submit, needsCode' = needsCode, signedIn' \in BOOLEAN,
         signedIn => signedIn', l.cli = "passed" => signedIn', Fine(l, Marked(i))
  PROVE  LoginInv'
<1>1. \A j \in Attempts : login'[j] = IF j = i THEN l ELSE login[j]
  BY DEF LoginInv, LoginTypes
<1>2. \A j \in Attempts : Marked(j)' = Marked(j)
  BY DEF Marked
<1>3. LoginTypes'
  BY DEF LoginInv, LoginTypes
<1>4. \A j \in Attempts : Fine(login[j], Marked(j))' = Fine(login'[j], Marked(j))
  BY <1>2 DEF Fine
<1> QED
  BY <1>1, <1>2, <1>3, <1>4 DEF LoginInv

\* A step of all sessions at once: Start and Shutdown.
LEMMA SessionsStep ==
  ASSUME LoginInv, login' \in [Attempts -> Sessions], UNCHANGED <<submit, needsCode, signedIn>>,
         \A i \in Attempts : Fine(login'[i], Marked(i)) /\ login'[i].cli = login[i].cli
  PROVE  LoginInv'
<1>2. \A j \in Attempts : Marked(j)' = Marked(j)
  BY DEF Marked
<1>3. LoginTypes'
  BY DEF LoginInv, LoginTypes
<1>4. \A j \in Attempts : Fine(login[j], Marked(j))' = Fine(login'[j], Marked(j))
  BY <1>2 DEF Fine
<1> QED
  BY <1>2, <1>3, <1>4 DEF LoginInv

LEMMA FailedIsFine ==
  ASSUME NEW l \in Sessions, NEW marks, Fine(l, marks), l.at = "listed", l.phase \notin {"succeeded", "failed"}
  PROVE  /\ Login!Failed(l) \in Sessions /\ Fine(Login!Failed(l), marks)
         /\ Login!Failed(l).at = l.at /\ Login!Failed(l).cli = l.cli
<1>1. "failed" \in Login!Phases
  BY DEF Login!Phases
<1> QED
  BY <1>1 DEF Login!Failed, Sessions, Fine

\* Where the list, the submissions and the sign-in stay, so does the invariant.
LEMMA LoginRests ==
  ASSUME LoginInv, UNCHANGED <<login, submit, needsCode, signedIn>>
  PROVE  LoginInv'
<1>1. \A j \in Attempts : Marked(j)' = Marked(j)
  BY DEF Marked
<1> QED
  BY <1>1 DEF LoginInv, LoginTypes, Fine

-----------------------------------------------------------------------------
LEMMA SupersedeKeepsInv ==
  ASSUME LoginInv, NEW i \in Attempts, Login!Supersede(i)
  PROVE  LoginInv'
<1>0. login \in [Attempts -> Sessions] /\ \A j \in Attempts : Fine(login[j], Marked(j))
  BY DEF LoginInv, LoginTypes
<1>1. PICK old \in SUBSET {j \in Attempts : login[j].at = "listed" /\ Login!Done(j)} :
        login' = [j \in Attempts |->
                   CASE j = i -> [login[i] EXCEPT !.at = "superseding"]
                     [] j # i /\ login[j].at = "listed" /\ ~Login!Done(j) -> Login!Failed(login[j])
                     [] j # i /\ j \in old -> [login[j] EXCEPT !.at = "swept"]
                     [] OTHER -> login[j]]
  BY DEF Login!Supersede
<1>2. \A j \in Attempts : Fine(login'[j], Marked(j)) /\ login'[j] \in Sessions /\ login'[j].cli = login[j].cli
  <2> SUFFICES ASSUME NEW j \in Attempts
               PROVE  Fine(login'[j], Marked(j)) /\ login'[j] \in Sessions /\ login'[j].cli = login[j].cli
    OBVIOUS
  <2>1. CASE j = i
    <3>1. login'[j] = [login[i] EXCEPT !.at = "superseding"] /\ login[i].at = "new"
      BY <1>1, <2>1 DEF Login!Supersede
    <3> QED
      BY <1>0, <2>1, <3>1 DEF Sessions, Fine
  <2>2. CASE j # i /\ login[j].at = "listed" /\ ~Login!Done(j)
    <3>1. login'[j] = Login!Failed(login[j])
      BY <1>1, <2>2
    <3> QED
      BY <1>0, <2>2, <3>1, FailedIsFine DEF Login!Done
  <2>3. CASE j # i /\ j \in old
    <3>1. login'[j] = [login[j] EXCEPT !.at = "swept"] /\ login[j].at = "listed"
      BY <1>1, <2>3
    <3> QED
      BY <1>0, <3>1 DEF Sessions, Fine
  <2>4. CASE j # i /\ ~(login[j].at = "listed" /\ ~Login!Done(j)) /\ j \notin old
    <3>1. login'[j] = login[j]
      BY <1>1, <2>4
    <3> QED
      BY <1>0, <3>1
  <2> QED
    BY <2>1, <2>2, <2>3, <2>4
<1>3. login' \in [Attempts -> Sessions]
  <2>1. login' = [j \in Attempts |-> login'[j]]
    BY <1>1
  <2> QED
    BY <1>2, <2>1
<1> QED
  BY <1>2, <1>3, SessionsStep DEF Login!Supersede, Login!statusVars

LEMMA ShutdownKeepsInv ==
  ASSUME LoginInv, Login!Shutdown
  PROVE  LoginInv'
<1>0. login \in [Attempts -> Sessions] /\ \A j \in Attempts : Fine(login[j], Marked(j))
  BY DEF LoginInv, LoginTypes
<1>1. login' = [i \in Attempts |->
                 IF login[i].at # "listed" THEN login[i]
                 ELSE [(IF Login!Done(i) THEN login[i] ELSE Login!Failed(login[i])) EXCEPT !.at = "swept",
                                                                              !.cancelled = TRUE]]
  BY DEF Login!Shutdown
<1>2. \A j \in Attempts : Fine(login'[j], Marked(j)) /\ login'[j] \in Sessions /\ login'[j].cli = login[j].cli
  <2> SUFFICES ASSUME NEW j \in Attempts
               PROVE  Fine(login'[j], Marked(j)) /\ login'[j] \in Sessions /\ login'[j].cli = login[j].cli
    OBVIOUS
  <2>1. CASE login[j].at # "listed"
    BY <1>0, <1>1, <2>1
  <2>2. CASE login[j].at = "listed"
    <3> DEFINE l == IF Login!Done(j) THEN login[j] ELSE Login!Failed(login[j])
    <3>1. l \in Sessions /\ Fine(l, Marked(j)) /\ l.cli = login[j].cli
      BY <1>0, <2>2, FailedIsFine DEF Login!Done
    <3>2. login'[j] = [l EXCEPT !.at = "swept", !.cancelled = TRUE]
      BY <1>1, <2>2
    <3> HIDE DEF l
    <3> QED
      BY <3>1, <3>2 DEF Sessions, Fine
  <2> QED
    BY <2>1, <2>2
<1>3. login' \in [Attempts -> Sessions]
  <2>1. login' = [j \in Attempts |-> login'[j]]
    BY <1>1
  <2> QED
    BY <1>2, <2>1
<1> QED
  BY <1>2, <1>3, SessionsStep DEF Login!Shutdown, Login!statusVars

\* The steps of one session that leave the submissions alone.
LEMMA SessionKeepsInv ==
  ASSUME LoginInv, NEW i \in Attempts,
         \/ Login!Launch(i) \/ Login!Cancel(i) \/ Login!PrintsUrl(i) \/ Login!Rejects(i)
         \/ Login!Passes(i) \/ Login!Fails(i) \/ Login!Reap(i)
  PROVE  LoginInv'
<1>0. /\ login \in [Attempts -> Sessions] /\ Fine(login[i], Marked(i)) /\ login[i] \in Sessions
      /\ needsCode \in BOOLEAN /\ signedIn \in BOOLEAN /\ (login[i].cli = "passed" => signedIn)
  BY DEF LoginInv, LoginTypes
<1>1. submit' = submit /\ needsCode' = needsCode
  BY DEF Login!Launch, Login!Cancel, Login!PrintsUrl, Login!Rejects, Login!Passes, Login!Fails,
         Login!Reap
<1>p. {"starting", "awaiting_code", "awaiting_authorization", "verifying", "succeeded", "failed"} = Login!Phases
  BY DEF Login!Phases
<1>2. CASE Login!Launch(i)
  <2> DEFINE l == [login[i] EXCEPT !.at = "listed", !.cli = "running"]
  <2>1. login' = [login EXCEPT ![i] = l] /\ signedIn' = signedIn /\ login[i].at = "superseding"
    BY <1>0, <1>2 DEF Login!Launch, Login!statusVars, Sessions
  <2>2. l \in Sessions /\ l.cli = "running" /\ Fine(l, Marked(i))
    BY <1>0, <2>1 DEF Sessions, Fine
  <2> HIDE DEF l
  <2> QED
    BY <1>0, <1>1, <2>1, <2>2, SessionStep
<1>3. CASE Login!Cancel(i)
  <2> DEFINE l == Login!Failed(login[i])
  <2>1. login' = [login EXCEPT ![i] = l] /\ signedIn' = signedIn
    BY <1>0, <1>3 DEF Login!Cancel, Login!statusVars, Login!Failed
  <2>2. l \in Sessions /\ Fine(l, Marked(i)) /\ l.cli = login[i].cli
    BY <1>0, <1>3, FailedIsFine DEF Login!Cancel, Login!Done
  <2> HIDE DEF l
  <2> QED
    BY <1>0, <1>1, <2>1, <2>2, SessionStep
<1>4. CASE Login!PrintsUrl(i)
  <2> DEFINE phase == IF Login!Done(i) THEN login[i].phase
                      ELSE IF needsCode THEN "awaiting_code" ELSE "awaiting_authorization"
             l == [login[i] EXCEPT !.url = TRUE, !.phase = phase]
  <2>1. login' = [login EXCEPT ![i] = l] /\ signedIn' = signedIn /\ ~login[i].url /\ login[i].cli = "running"
    BY <1>0, <1>4 DEF Login!PrintsUrl, Login!statusVars, Sessions, Login!Done
  <2>2. phase \in Login!Phases /\ (phase = "succeeded" => login[i].phase = "succeeded")
    BY <1>0, <1>p DEF Sessions
  <2> HIDE DEF phase
  <2>3. l \in Sessions /\ Fine(l, Marked(i)) /\ l.cli = login[i].cli
    BY <1>0, <2>1, <2>2 DEF Sessions, Fine
  <2> HIDE DEF l
  <2> QED
    BY <1>0, <1>1, <2>1, <2>3, SessionStep
<1>5. CASE Login!Rejects(i)
  <2> DEFINE phase == IF Login!Done(i) THEN login[i].phase ELSE "awaiting_code"
             l == [login[i] EXCEPT !.codes = 0, !.phase = phase]
  <2>0. login[i].codes = 1 /\ login[i].cli = "running" /\ signedIn' = signedIn
    BY <1>0, <1>5 DEF Login!Rejects, Login!statusVars, Sessions
  <2>1. login' = [login EXCEPT ![i] = l]
    <3>1. login' = [login EXCEPT ![i].codes = login[i].codes - 1, ![i].phase = phase]
      BY <1>0, <1>5 DEF Login!Rejects, Login!Done
    <3>2. login[i].codes - 1 = 0
      BY <2>0
    <3> QED
      BY <1>0, <3>1, <3>2
  <2>2. phase \in Login!Phases /\ (phase = "succeeded" => login[i].phase = "succeeded")
    BY <1>0, <1>p DEF Sessions
  <2> HIDE DEF phase
  <2>3. l \in Sessions /\ l.cli = login[i].cli
    BY <1>0, <2>2 DEF Sessions
  <2>4. Marked(i) = {} /\ login[i].url /\ login[i].at \notin {"new", "superseding"}
    BY <1>0, <2>0 DEF Fine
  <2>5. Fine(l, Marked(i))
    BY <1>0, <2>0, <2>2, <2>4 DEF Sessions, Fine
  <2> HIDE DEF l
  <2> QED
    BY <1>0, <1>1, <2>0, <2>1, <2>3, <2>5, SessionStep
<1>6. CASE Login!Passes(i) \/ Login!Fails(i)
  <2> DEFINE l(c) == [login[i] EXCEPT !.cli = c]
  <2>1. PICK c \in {"passed", "failed"} :
          login' = [login EXCEPT ![i] = l(c)] /\ signedIn' \in BOOLEAN /\ (signedIn \/ c = "passed" => signedIn')
    <3>1. CASE Login!Passes(i)
      BY <1>0, <3>1 DEF Login!Passes, Sessions
    <3>2. CASE Login!Fails(i)
      BY <1>0, <3>2 DEF Login!Fails, Login!statusVars, Sessions
    <3> QED
      BY <1>6, <3>1, <3>2
  <2>2. login[i].cli = "running"
    BY <1>6 DEF Login!Passes, Login!Fails
  <2>3. l(c) \in Sessions /\ Fine(l(c), Marked(i)) /\ l(c).cli = c
    BY <1>0, <2>2 DEF Sessions, Fine
  <2> HIDE DEF l
  <2> QED
    BY <1>0, <1>1, <2>1, <2>3, SessionStep
<1>7. CASE Login!Reap(i)
  <2> DEFINE phase == IF login[i].cli = "passed" THEN "succeeded" ELSE "failed"
             l == [login[i] EXCEPT !.phase = phase, !.cancelled = TRUE]
  <2>1. login' = [login EXCEPT ![i] = l] /\ signedIn' = signedIn /\ login[i].cli \in {"passed", "failed"}
    BY <1>0, <1>7 DEF Login!Reap, Login!statusVars, Sessions
  <2>2. phase \in Login!Phases /\ (phase = "succeeded" => login[i].cli = "passed")
        /\ phase \notin {"awaiting_code", "starting"}
    BY <1>p
  <2> HIDE DEF phase
  <2>3. l \in Sessions /\ Fine(l, Marked(i)) /\ l.cli = login[i].cli
    BY <1>0, <2>1, <2>2 DEF Sessions, Fine
  <2> HIDE DEF l
  <2> QED
    BY <1>0, <1>1, <2>1, <2>3, SessionStep
<1> QED
  BY <1>2, <1>3, <1>4, <1>5, <1>6, <1>7

-----------------------------------------------------------------------------
\* A submission moves on: what is marked for a session changes by it alone.
LEMMA MarksChange ==
  ASSUME LoginTypes, NEW s \in Submits, NEW a \in {"marked", "done"}, submit' = [submit EXCEPT ![s].at = a]
  PROVE  /\ submit' \in [Submits -> [at : {"idle", "marked", "done"}, for : Attempts]]
         /\ \A i \in Attempts :
              Marked(i)' = IF i # submit[s].for THEN Marked(i)
                           ELSE IF a = "marked" THEN Marked(i) \cup {s} ELSE Marked(i) \ {s}
<1>1. /\ submit' \in [Submits -> [at : {"idle", "marked", "done"}, for : Attempts]]
      /\ submit'[s].at = a /\ submit'[s].for = submit[s].for
      /\ \A t \in Submits \ {s} : submit'[t] = submit[t]
  BY DEF LoginTypes
<1>2. ASSUME NEW i \in Attempts
      PROVE  Marked(i)' = IF i # submit[s].for THEN Marked(i)
                          ELSE IF a = "marked" THEN Marked(i) \cup {s} ELSE Marked(i) \ {s}
  <2>1. \A t \in Submits : t \in Marked(i)' <=> submit'[t].at = "marked" /\ submit'[t].for = i
    BY DEF Marked
  <2>2. \A t \in Submits : t \in Marked(i) <=> submit[t].at = "marked" /\ submit[t].for = i
    BY DEF Marked
  <2>3. Marked(i) \subseteq Submits /\ Marked(i)' \subseteq Submits
    BY DEF Marked
  <2>4. \A t \in Submits \ {s} : t \in Marked(i)' <=> t \in Marked(i)
    BY <1>1, <2>1, <2>2
  <2>5. s \in Marked(i)' <=> a = "marked" /\ i = submit[s].for
    BY <1>1, <2>1
  <2>6. i # submit[s].for => s \notin Marked(i)
    BY <2>2
  <2>7. CASE i # submit[s].for
    BY <2>3, <2>4, <2>5, <2>6, <2>7
  <2>8. CASE i = submit[s].for /\ a = "marked"
    BY <2>3, <2>4, <2>5, <2>8
  <2>9. CASE i = submit[s].for /\ a = "done"
    BY <2>3, <2>4, <2>5, <2>9
  <2> QED
    BY <2>7, <2>8, <2>9
<1> QED
  BY <1>1, <1>2

\* Submit takes a code when the session awaits one, and leaves no second to await.
LEMMA MarkKeepsInv ==
  ASSUME LoginInv, NEW s \in Submits, Login!Mark(s)
  PROVE  LoginInv'
<1>i. PICK i \in Attempts : i = submit[s].for
  BY DEF LoginInv, LoginTypes
<1>0. /\ LoginTypes /\ i \in Attempts /\ login[i] \in Sessions /\ submit[s].at = "idle"
      /\ \A j \in Attempts : Fine(login[j], Marked(j))
      /\ UNCHANGED <<needsCode, signedIn>> /\ i = submit[s].for
  BY <1>i DEF LoginInv, LoginTypes, Login!Mark, Login!statusVars
<1>1. CASE Login!Awaited(i)
  <2>1. login' = [login EXCEPT ![i].phase = "verifying"] /\ submit' = [submit EXCEPT ![s].at = "marked"]
    BY <1>i, <1>1 DEF Login!Mark
  <2>2. login[i].phase = "awaiting_code"
    BY <1>1 DEF Login!Awaited
  <2>3. Marked(i) = {} /\ login[i].codes = 0
    BY <1>0, <2>2 DEF Fine
  <2>4. "verifying" \in Login!Phases
    BY DEF Login!Phases
  <2>5. /\ login' \in [Attempts -> Sessions]
        /\ \A j \in Attempts \ {i} : login'[j] = login[j]
        /\ login'[i].phase = "verifying" /\ login'[i].codes = 0 /\ login'[i].url = login[i].url
        /\ login'[i].at = login[i].at /\ login'[i].cli = login[i].cli
    BY <1>0, <2>1, <2>3, <2>4 DEF LoginTypes, Sessions
  <2>6. /\ submit' \in [Submits -> [at : {"idle", "marked", "done"}, for : Attempts]]
        /\ Marked(i)' = {s} /\ \A j \in Attempts \ {i} : Marked(j)' = Marked(j)
    BY <1>0, <2>1, <2>3, MarksChange
  <2>7. login[i].url /\ login[i].at \notin {"new", "superseding"}
    BY <1>0, <2>2 DEF Fine, Sessions
  <2>8. Fine(login'[i], {s})
    BY <2>5, <2>7 DEF Fine
  <2>9. \A j \in Attempts : Fine(login[j], Marked(j))' = Fine(login'[j], Marked(j)')
    BY DEF Fine
  <2>10. \A j \in Attempts : Fine(login[j], Marked(j))'
    BY <1>0, <2>5, <2>6, <2>8, <2>9
  <2>11. \A j \in Attempts : \A t, u \in Marked(j)' : t = u
    BY <2>6 DEF LoginInv
  <2>12. \A j \in Attempts : login'[j].cli = "passed" => signedIn'
    BY <1>0, <2>5 DEF LoginInv
  <2> QED
    BY <1>0, <2>5, <2>6, <2>10, <2>11, <2>12 DEF LoginInv, LoginTypes
<1>2. CASE ~Login!Awaited(i)
  <2>1. login' = login /\ submit' = [submit EXCEPT ![s].at = "done"]
    BY <1>i, <1>2 DEF Login!Mark
  <2>2. \A j \in Attempts : s \notin Marked(j)
    BY <1>0 DEF Marked
  <2>4. \A j \in Attempts : Marked(j) \ {s} = Marked(j)
    BY <2>2
  <2>3. /\ submit' \in [Submits -> [at : {"idle", "marked", "done"}, for : Attempts]]
        /\ \A j \in Attempts : Marked(j)' = IF j # i THEN Marked(j) ELSE Marked(j) \ {s}
    BY <1>0, <2>1, MarksChange
  <2>9. \A j \in Attempts : Fine(login[j], Marked(j))' = Fine(login[j], Marked(j)')
    BY <2>1 DEF Fine
  <2>5. \A j \in Attempts : Marked(j)' = Marked(j)
    BY <2>3, <2>4
  <2>6. \A j \in Attempts : Fine(login[j], Marked(j))'
    BY <1>0, <2>5, <2>9
  <2>7. \A j \in Attempts : \A t, u \in Marked(j)' : t = u
    BY <2>5 DEF LoginInv
  <2>8. \A j \in Attempts : login'[j].cli = "passed" => signedIn'
    BY <1>0, <2>1 DEF LoginInv
  <2> QED
    BY <1>0, <2>1, <2>3, <2>6, <2>7, <2>8 DEF LoginInv, LoginTypes
<1> QED
  BY <1>1, <1>2

\* The code it marked the session for is the only one the CLI then holds.
LEMMA WriteKeepsInv ==
  ASSUME LoginInv, NEW s \in Submits, Login!Write(s)
  PROVE  LoginInv'
<1>i. PICK i \in Attempts : i = submit[s].for
  BY DEF LoginInv, LoginTypes
<1>0. /\ LoginTypes /\ i \in Attempts /\ login[i] \in Sessions /\ s \in Marked(i)
      /\ \A j \in Attempts : Fine(login[j], Marked(j))
      /\ UNCHANGED <<needsCode, signedIn>> /\ submit' = [submit EXCEPT ![s].at = "done"]
      /\ i = submit[s].for
  BY <1>i DEF LoginInv, LoginTypes, Login!Write, Login!statusVars, Marked
<1>1. Marked(i) = {s} /\ login[i].codes = 0
  BY <1>0 DEF LoginInv, Fine
<1>2. /\ submit' \in [Submits -> [at : {"idle", "marked", "done"}, for : Attempts]]
      /\ Marked(i)' = {} /\ \A j \in Attempts \ {i} : Marked(j)' = Marked(j)
  BY <1>0, <1>1, MarksChange
<1>3. /\ login' \in [Attempts -> Sessions]
      /\ \A j \in Attempts \ {i} : login'[j] = login[j]
      /\ login'[i].phase = login[i].phase /\ login'[i].codes \in {0, 1} /\ login'[i].url = login[i].url
      /\ login'[i].at = login[i].at /\ login'[i].cli = login[i].cli
  BY <1>0, <1>1 DEF LoginTypes, Sessions, Login!Write
<1>4. login[i].url /\ login[i].phase # "awaiting_code"
  BY <1>0, <1>1 DEF Fine, Sessions
<1>5. Fine(login'[i], {})
  BY <1>0, <1>3, <1>4 DEF Fine
<1>6. \A j \in Attempts : Fine(login[j], Marked(j))' = Fine(login'[j], Marked(j)')
  BY DEF Fine
<1>7. \A j \in Attempts : Fine(login[j], Marked(j))'
  BY <1>0, <1>2, <1>3, <1>5, <1>6
<1>8. \A j \in Attempts : \A t, u \in Marked(j)' : t = u
  BY <1>2 DEF LoginInv
<1>9. \A j \in Attempts : login'[j].cli = "passed" => signedIn'
  BY <1>0, <1>3 DEF LoginInv
<1> QED
  BY <1>0, <1>2, <1>3, <1>7, <1>8, <1>9 DEF LoginInv, LoginTypes

LEMMA NextLoginInv == LoginInv /\ [Login!LoginNext]_loginVars => LoginInv'
<1> SUFFICES ASSUME LoginInv, [Login!LoginNext]_loginVars PROVE LoginInv'
  OBVIOUS
<1>1. CASE UNCHANGED loginVars
  BY <1>1, LoginRests DEF loginVars
<1>2. ASSUME NEW i \in Attempts,
             \/ Login!Launch(i) \/ Login!Cancel(i) \/ Login!PrintsUrl(i) \/ Login!Rejects(i)
             \/ Login!Passes(i) \/ Login!Fails(i) \/ Login!Reap(i)
      PROVE  LoginInv'
  BY <1>2, SessionKeepsInv
<1>3. ASSUME NEW i \in Attempts, Login!Supersede(i) PROVE LoginInv'
  BY <1>3, SupersedeKeepsInv
<1>4. CASE Login!Shutdown
  BY <1>4, ShutdownKeepsInv
<1>5. ASSUME NEW s \in Submits, Login!Mark(s) \/ Login!Write(s) PROVE LoginInv'
  BY <1>5, MarkKeepsInv, WriteKeepsInv
<1>6. CASE (\E i \in Attempts : Login!Poll(i)) \/ Login!Probe \/ Login!Put \/ Login!Stale
  <2>1. UNCHANGED <<login, submit, needsCode, signedIn>>
    BY <1>6 DEF Login!Poll, Login!Probe, Login!Put, Login!Stale
  <2> QED
    BY <2>1, LoginRests
<1> QED
  BY <1>1, <1>2, <1>3, <1>4, <1>5, <1>6 DEF Login!LoginNext

LEMMA LoginInvMeans == LoginInv => Login!OneCodePerQuestion
  BY DEF LoginInv, LoginTypes, Sessions, Fine, Login!OneCodePerQuestion

-----------------------------------------------------------------------------
(* The MCP servers of a turn: the overrides say of every server that was   *)
(* known whether it is on, so it does not matter what the app-server's own *)
(* file said of it, nor when it read it (Told).                            *)

ServingFields == {"at", "provider", "given", "known", "text", "sees"}

\* The overrides of a Codex turn that is prepared name each known server, on or off.
Told ==
  serving.at = "composed" /\ serving.provider = "codex" =>
    /\ serving.text.on = serving.given \cap serving.known
    /\ serving.text.off = serving.known \ serving.given

CatalogueInv ==
  /\ serving = [f \in ServingFields |-> serving[f]]
  /\ Told
  /\ Mcp!SeesAssigned

-----------------------------------------------------------------------------
LEMMA NoTurnFields ==
  Mcp!NoTurn = [f \in ServingFields |-> Mcp!NoTurn[f]] /\ Mcp!NoTurn.at = "idle"
BY DEF Mcp!NoTurn, ServingFields

LEMMA InitCatalogueInv == Mcp!McpInit => CatalogueInv
<1> SUFFICES ASSUME Mcp!McpInit PROVE CatalogueInv
  OBVIOUS
<1>1. serving = Mcp!NoTurn
  BY DEF Mcp!McpInit
<1> QED
  BY <1>1, NoTurnFields DEF CatalogueInv, Told, Mcp!SeesAssigned

\* Composing a turn writes its overrides, or fails it.
LEMMA ComposeKeepsInv ==
  ASSUME CatalogueInv, NEW p \in Mcp!Provider, NEW proxy \in BOOLEAN, Mcp!Compose(p, proxy)
  PROVE  CatalogueInv'
<1> DEFINE known == IF p = "codex" THEN {n \in Mcp!Catalogue : Mcp!Bridged(n, proxy)} ELSE Mcp!Catalogue
           text == IF p = "codex" THEN Mcp!CodexProfile(known) ELSE Mcp!NoText
           fine == [Mcp!NoTurn EXCEPT !.at = "composed", !.provider = p, !.given = assigned,
                                      !.known = known, !.text = text]
           bad == [Mcp!NoTurn EXCEPT !.at = "failed", !.provider = p]
<1>1. serving' = IF Mcp!Delivered(p, proxy) THEN fine ELSE bad
  BY DEF Mcp!Compose
<1>2. p = "codex" => text.on = assigned \cap known /\ text.off = known \ assigned
  BY DEF Mcp!CodexProfile, Mcp!NoText, Mcp!SwitchedOff
<1> HIDE DEF known, text
<1>3. /\ fine = [f \in ServingFields |-> fine[f]] /\ fine.at = "composed" /\ fine.provider = p
      /\ fine.given = assigned /\ fine.known = known /\ fine.text = text
  BY DEF Mcp!NoTurn, ServingFields
<1>4. bad = [f \in ServingFields |-> bad[f]] /\ bad.at = "failed"
  BY DEF Mcp!NoTurn, ServingFields
<1> HIDE DEF fine, bad
<1>5. CASE Mcp!Delivered(p, proxy)
  <2>1. serving' = fine
    BY <1>1, <1>5
  <2>2. serving.at' = "composed" /\ serving.provider' = p /\ serving.given' = assigned
        /\ serving.known' = known /\ serving.text' = text
    BY <2>1, <1>3
  <2> QED
    BY <1>2, <1>3, <2>1, <2>2 DEF CatalogueInv, Told, Mcp!SeesAssigned
<1>6. CASE ~Mcp!Delivered(p, proxy)
  <2>1. serving' = bad
    BY <1>1, <1>6
  <2> QED
    BY <1>4, <2>1 DEF CatalogueInv, Told, Mcp!SeesAssigned
<1> QED
  BY <1>5, <1>6

\* A launch: what is seen of the known servers is what was given.
LEMMA LaunchKeepsInv ==
  ASSUME CatalogueInv, Mcp!LaunchClaude \/ Mcp!LaunchCodex
  PROVE  CatalogueInv'
<1>1. ASSUME NEW s, serving' = [serving EXCEPT !.at = "running", !.sees = s],
             s \cap serving.known = serving.given \cap serving.known
      PROVE  CatalogueInv'
  <2>1. serving' = [f \in ServingFields |-> serving'[f]] /\ serving'.at = "running" /\ serving'.sees = s
        /\ serving'.known = serving.known /\ serving'.given = serving.given
    BY <1>1 DEF CatalogueInv, ServingFields
  <2> QED
    BY <1>1, <2>1 DEF CatalogueInv, Told, Mcp!SeesAssigned
<1>2. CASE Mcp!LaunchClaude
  BY <1>1, <1>2 DEF Mcp!LaunchClaude
<1>3. CASE Mcp!LaunchCodex
  <2>1. PICK a \in apps' : /\ a.text = serving.text
                           /\ serving' = [serving EXCEPT !.at = "running",
                                                         !.sees = a.text.on \cup (a.own \ a.text.off)]
    BY <1>3 DEF Mcp!LaunchCodex
  <2>2. /\ serving.text.on = serving.given \cap serving.known
        /\ serving.text.off = serving.known \ serving.given
    BY <1>3 DEF Mcp!LaunchCodex, CatalogueInv, Told
  <2>3. (a.text.on \cup (a.own \ a.text.off)) \cap serving.known = serving.given \cap serving.known
    BY <2>1, <2>2
  <2> QED
    BY <1>1, <2>1, <2>3
<1> QED
  BY <1>2, <1>3

LEMMA NextCatalogueInv == CatalogueInv /\ [Mcp!McpNext]_mcpVars => CatalogueInv'
<1> SUFFICES ASSUME CatalogueInv, [Mcp!McpNext]_mcpVars PROVE CatalogueInv'
  OBVIOUS
<1>1. ASSUME UNCHANGED serving PROVE CatalogueInv'
  BY <1>1 DEF CatalogueInv, Told, Mcp!SeesAssigned
<1>2. CASE UNCHANGED mcpVars
  BY <1>1, <1>2 DEF mcpVars
<1>3. CASE \E h \in Handlers, n \in Names :
             \/ Mcp!Remove(h, n) \/ Mcp!Assign(h, n) \/ Mcp!Unassign(h, n)
             \/ \E t \in Mcp!Transports : Mcp!Upsert(h, n, t)
  BY <1>1, <1>3 DEF Mcp!Remove, Mcp!Assign, Mcp!Unassign, Mcp!Upsert, Mcp!Takes
<1>4. CASE \E h \in Handlers : Mcp!SaveUserFile(h) \/ Mcp!UpdateRow(h)
  BY <1>1, <1>4 DEF Mcp!SaveUserFile, Mcp!UpdateRow
<1>5. CASE \E n \in Names, t \in Mcp!Transports \cup {"none", "other"} :
             Mcp!EditClaude(n, t) \/ Mcp!EditCodex(n, t)
  BY <1>1, <1>5 DEF Mcp!EditClaude, Mcp!EditCodex
<1>6. CASE \E p \in Mcp!Provider, proxy \in BOOLEAN : Mcp!Compose(p, proxy)
  BY <1>6, ComposeKeepsInv
<1>7. CASE Mcp!LaunchClaude \/ Mcp!LaunchCodex
  BY <1>7, LaunchKeepsInv
<1>8. CASE Mcp!Finish
  <2>1. serving' = Mcp!NoTurn
    BY <1>8 DEF Mcp!Finish
  <2> QED
    BY <2>1, NoTurnFields DEF CatalogueInv, Told, Mcp!SeesAssigned
<1>9. CASE \E a \in apps : Mcp!AppEnds(a)
  BY <1>1, <1>9 DEF Mcp!AppEnds
<1> QED
  BY <1>2, <1>3, <1>4, <1>5, <1>6, <1>7, <1>8, <1>9 DEF Mcp!McpNext

-----------------------------------------------------------------------------
(* The connection test: an answer on its way to the test is one the server *)
(* gave, and the test moves on, without an error, past a request only with *)
(* its answer.                                                             *)

Spoken == answered \cup Chatter

TestInv ==
  /\ asked \subseteq Test!Requests /\ answered \subseteq Test!Requests /\ error \in BOOLEAN
  /\ stdout \in Seq(Spoken) /\ lines \in Seq(Spoken)
  /\ scan = "push" => held \in Spoken
  /\ ~error /\ step \notin {"new", "init"} => "init" \in answered
  /\ ~error /\ step \notin {"new", "init", "initialized", "list"} => "list" \in answered

-----------------------------------------------------------------------------
LEMMA InitTestInv == Test!TestInit => TestInv
<1> SUFFICES ASSUME Test!TestInit PROVE TestInv
  OBVIOUS
<1>1. stdout = <<>> /\ lines = <<>>
  BY DEF Test!TestInit
<1>2. stdout \in Seq(Spoken) /\ lines \in Seq(Spoken)
  BY <1>1
<1> QED
  BY <1>2 DEF Test!TestInit, TestInv

LEMMA SeqGrows ==
  ASSUME NEW S, NEW T, S \subseteq T, NEW s \in Seq(S)
  PROVE  s \in Seq(T)
BY \A i \in 1..Len(s) : s[i] \in T

\* The server speaks, or is gone.
LEMMA ServerKeepsTestInv ==
  ASSUME TestInv, Test!Answer \/ Test!Exit \/ Test!CloseOutput \/ \E line \in Chatter : Test!Chat(line)
  PROVE  TestInv'
<1>1. CASE Test!Answer
  <2>1. PICK n \in asked \ answered : Test!Prints(n) /\ answered' = answered \cup {n}
    BY <1>1 DEF Test!Answer
  <2>2. Spoken \subseteq Spoken' /\ n \in Spoken'
    BY <2>1 DEF Spoken
  <2>3. stdout \in Seq(Spoken') /\ lines \in Seq(Spoken')
    BY <2>2, SeqGrows DEF TestInv
  <2>4. stdout' \in Seq(Spoken')
    BY <2>1, <2>2, <2>3 DEF Test!Prints
  <2> QED
    BY <1>1, <2>1, <2>2, <2>3, <2>4 DEF TestInv, Test!Answer
<1>2. CASE Test!Exit
  BY <1>2 DEF Test!Exit, TestInv, Spoken
<1>3. CASE Test!CloseOutput
  BY <1>3 DEF Test!CloseOutput, TestInv, Spoken
<1>4. ASSUME NEW line \in Chatter, Test!Chat(line) PROVE TestInv'
  BY <1>4 DEF Test!Chat, Test!Prints, TestInv, Spoken
<1> QED
  BY <1>1, <1>2, <1>3, <1>4

\* The scanner moves a line, or is done.
LEMMA ScannerKeepsTestInv ==
  ASSUME TestInv, Test!ScanLine \/ Test!PushLine \/ Test!ScanEnds
  PROVE  TestInv'
<1>1. CASE Test!ScanLine
  BY <1>1 DEF Test!ScanLine, TestInv, Spoken
<1>2. CASE Test!PushLine
  <2>1. /\ scan = "push" /\ lines' = Append(lines, held) /\ scan' = "read"
        /\ UNCHANGED <<asked, answered, stdout, step, error>>
    BY <1>2 DEF Test!PushLine
  <2>2. lines' \in Seq(Spoken)
    BY <2>1 DEF TestInv
  <2> QED
    BY <2>1, <2>2 DEF TestInv, Spoken
<1>3. CASE Test!ScanEnds
  BY <1>3 DEF Test!ScanEnds, TestInv, Spoken
<1> QED
  BY <1>1, <1>2, <1>3

\* Only the answer of the request it waits for moves the test on without an error.
LEMMA ReplyKeepsTestInv ==
  ASSUME TestInv, Test!Reply
  PROVE  TestInv'
<1>1. /\ lines # <<>> /\ lines' = Tail(lines) /\ step \in Test!Requests
      /\ UNCHANGED <<asked, answered, stdout, scan, held>>
  BY DEF Test!Reply, Test!Requests
<1>2. Head(lines) \in Spoken /\ lines' \in Seq(Spoken)
  BY <1>1 DEF TestInv
<1>3. CASE Test!Matches(Head(lines))
  <2>1. step \in answered
    BY <1>1, <1>2, <1>3, ChatterAssumption DEF Spoken, Test!Matches, Test!Requests
  <2>2. error' = error /\ step' = IF step = "init" THEN "initialized" ELSE "kill"
    BY <1>3 DEF Test!Reply, Test!Go, TestInv
  <2> QED
    BY <1>1, <1>2, <2>1, <2>2 DEF TestInv, Spoken, Test!Requests
<1>4. CASE ~Test!Matches(Head(lines))
  BY <1>1, <1>2, <1>4 DEF Test!Reply, TestInv, Spoken
<1> QED
  BY <1>3, <1>4

LEMMA NextTestInv == TestInv /\ [Test!TestNext]_mcpTestVars => TestInv'
<1> SUFFICES ASSUME TestInv, [Test!TestNext]_mcpTestVars PROVE TestInv'
  OBVIOUS
<1>1. CASE UNCHANGED mcpTestVars
  BY <1>1 DEF mcpTestVars, TestInv, Spoken
<1>2. CASE Test!Answer \/ Test!Exit \/ Test!CloseOutput \/ \E line \in Chatter : Test!Chat(line)
  BY <1>2, ServerKeepsTestInv
<1>3. CASE Test!ScanLine \/ Test!PushLine \/ Test!ScanEnds
  BY <1>3, ScannerKeepsTestInv
<1>4. CASE Test!Reply
  BY <1>4, ReplyKeepsTestInv
<1>5. CASE Test!NoReply \/ Test!Refused
  <2>1. error' = TRUE /\ step' = "kill" /\ UNCHANGED <<asked, answered, stdout, scan, held>>
    BY <1>5 DEF Test!NoReply, Test!Refused, Test!Go, TestInv
  <2>2. lines' = lines \/ (lines # <<>> /\ lines' = Tail(lines))
    BY <1>5 DEF Test!NoReply, Test!Refused
  <2>3. lines' \in Seq(Spoken)
    BY <2>2 DEF TestInv
  <2> QED
    BY <2>1, <2>3 DEF TestInv, Spoken
<1>6. CASE Test!Notify
  <2>1. /\ step = "initialized" /\ UNCHANGED <<answered, stdout, scan, held, lines>>
        /\ asked' \subseteq Test!Requests
    BY <1>6 DEF Test!Notify, Test!Requests, TestInv
  <2>2. \/ step' = "list" /\ error' = error
        \/ step' = "kill" /\ error' = TRUE
    BY <1>6 DEF Test!Notify, Test!Go, TestInv
  <2>3. CASE step' = "list" /\ error' = error
    BY <2>1, <2>3 DEF TestInv, Spoken
  <2>4. CASE step' = "kill" /\ error' = TRUE
    BY <2>1, <2>4 DEF TestInv, Spoken
  <2> QED
    BY <2>2, <2>3, <2>4
<1>7. CASE Test!Kill \/ Test!Reap \/ Test!Return
  <2>1. /\ step \in {"kill", "reap", "wait"} /\ step' \in {"reap", "wait", "done"} /\ error' = error
        /\ UNCHANGED <<asked, answered, stdout, scan, held, lines>>
    BY <1>7 DEF Test!Kill, Test!Reap, Test!Return, Test!Go, TestInv
  <2>2. ~error => "init" \in answered /\ "list" \in answered
    BY <2>1 DEF TestInv
  <2> QED
    BY <2>1, <2>2 DEF TestInv, Spoken
<1>8. CASE Test!Deadline
  <2>1. UNCHANGED <<asked, answered, stdout, scan, held, lines, step, error>>
    BY <1>8 DEF Test!Deadline
  <2> QED
    BY <2>1 DEF TestInv, Spoken
<1>9. ASSUME NEW ok \in BOOLEAN, Test!StartServer(ok) PROVE TestInv'
  <2>1. /\ UNCHANGED <<answered, stdout, held, lines>> /\ asked' \subseteq Test!Requests
        /\ error' \in BOOLEAN
    BY <1>9 DEF Test!StartServer, Test!Go, Test!Requests, TestInv
  <2>2. scan' = scan \/ scan' = "read"
    BY <1>9 DEF Test!StartServer
  <2>3. step' = "init" \/ error'
    BY <1>9 DEF Test!StartServer, Test!Go
  <2> QED
    BY <2>1, <2>2, <2>3 DEF TestInv, Spoken
<1> QED
  BY <1>1, <1>2, <1>3, <1>4, <1>5, <1>6, <1>7, <1>8, <1>9 DEF Test!TestNext, Test!TestProgress

LEMMA TestInvMeans == TestInv => Test!PassMeansAnswered
BY DEF TestInv, Test!PassMeansAnswered, Test!Requests
-----------------------------------------------------------------------------
\* Turns on one app-server. A turn is registered while it streams; of the process
\* its call went to readLoop hands over its notifications 1, 2, 3... - the first ones in
\* the buffer until the turn is registered, the rest through its channel and, one
\* at most, the send readLoop is blocked in. A failure may lie among them anywhere:
\* what is behind it is not read.
Pcs == {"new", "respawning", "ready", "calling", "failed", "started", "streaming", "done"}
Sends == [to : Turns, n : Nat]
Busy(q, t) == reader[q] \in Sends /\ reader[q].to = t
Unbroken(t) == \A i \in DOMAIN channel[t] : channel[t][i] # Codex!Failure

CodexTyped ==
  /\ proc \in Nat /\ started \in Nat
  /\ turn \in [Turns -> [pc : Pcs, on : Nat, tries : Nat]]
  /\ next \in [Turns -> Nat]
  /\ channel \in [Turns -> Seq(Nat)] /\ buffered \in [Turns -> Seq(Nat)] /\ got \in [Turns -> Seq(Nat)]
  /\ reader \in [Codex!Procs -> {Codex!Ready, Codex!Ended} \cup Sends]
  /\ active = {t \in Turns : turn[t].pc = "streaming"}

\* What is kept for the turn until it registers.
Kept(t) ==
  /\ turn[t].pc = "calling" => next[t] = 0 /\ buffered[t] = <<>>
  /\ turn[t].pc \notin {"streaming", "done"} => got[t] = <<>>
  /\ turn[t].pc = "started" => /\ next[t] = Len(buffered[t]) + 1
                               /\ \A i \in DOMAIN buffered[t] : buffered[t][i] = i
\* What is on its way to a turn that streams.
UnderWay(t) ==
  turn[t].pc = "streaming" =>
    /\ next[t] > 0
    /\ \A i \in DOMAIN got[t] : got[t][i] = i
    /\ \A i \in DOMAIN channel[t] :
         (\A j \in 1..i : channel[t][j] # Codex!Failure) => channel[t][i] = Len(got[t]) + i
    /\ Unbroken(t) /\ (\A q \in Codex!Procs : ~Busy(q, t)) =>
         next[t] = Len(got[t]) + Len(channel[t]) + 1
    /\ Unbroken(t) /\ (\E q \in Codex!Procs : Busy(q, t)) =>
         next[t] = Len(got[t]) + Len(channel[t]) + 2
\* The send readLoop is blocked in.
InSend(t) ==
  \A q \in Codex!Procs : Busy(q, t) =>
    /\ q = turn[t].on /\ turn[t].pc \in {"streaming", "done"}
    /\ turn[t].pc = "streaming" => reader[q].n + 1 = next[t]
ToldSoFar(t) ==
  \A i \in DOMAIN got[t] : got[t][i] = i \/ (i = Len(got[t]) /\ got[t][i] = Codex!Failure)
\* A call that waits was made on the current process.
OnCurrent(t) == turn[t].pc = "calling" => turn[t].on = proc /\ proc # 0

InOrder(t) == Kept(t) /\ UnderWay(t) /\ InSend(t) /\ ToldSoFar(t) /\ OnCurrent(t)
CodexInv == CodexTyped /\ \A t \in Turns : InOrder(t)

LEMMA NotSends == /\ Codex!Ready \notin Sends /\ Codex!Ended \notin Sends
                  /\ \A t \in Turns, n \in Nat : [to |-> t, n |-> n] \in Sends
<1>1. \A s \in Sends : DOMAIN s = {"to", "n"}
  BY DEF Sends
<1>2. DOMAIN Codex!Ready = {"to"} /\ DOMAIN Codex!Ended = {"to"}
  BY DEF Codex!Ready, Codex!Ended
<1>3. {"to", "n"} # {"to"}
  OBVIOUS
<1>4. \A t \in Turns, n \in Nat : [to |-> t, n |-> n] \in Sends
  BY DEF Sends
<1> QED
  BY <1>1, <1>2, <1>3, <1>4

LEMMA Sums ==
  ASSUME NEW x \in Nat, NEW y \in Nat, NEW n \in Nat
  PROVE  /\ n + 1 = x + y + 2 => n = x + y + 1
         /\ n = x + y + 1 => n + 1 = x + (y + 1) + 1
         /\ x + (y + 1) = x + y + 1
         /\ y > 0 => (x + 1) + (y - 1) = x + y
         /\ (x + 1) + n = x + (n + 1)
OBVIOUS

\* What is true of a turn stays so while nothing of it changes.
LEMMA TurnRests ==
  ASSUME NEW t \in Turns, InOrder(t),
         turn'[t] = turn[t], next'[t] = next[t], channel'[t] = channel[t],
         buffered'[t] = buffered[t], got'[t] = got[t],
         \A q \in Codex!Procs : Busy(q, t)' <=> Busy(q, t),
         \A q \in Codex!Procs : Busy(q, t) => reader'[q] = reader[q],
         turn[t].pc = "calling" => proc' = proc
  PROVE  InOrder(t)'
<1>1. Kept(t)' /\ ToldSoFar(t)' /\ OnCurrent(t)'
  BY DEF InOrder, Kept, ToldSoFar, OnCurrent
<1>2. InSend(t)'
  BY DEF InOrder, InSend
<1>3. Unbroken(t)' <=> Unbroken(t)
  BY DEF Unbroken
<1>4. UnderWay(t)'
  BY <1>3 DEF InOrder, UnderWay
<1> QED
  BY <1>1, <1>2, <1>4 DEF InOrder

LEMMA Streaming ==
  ASSUME NEW t \in Turns, InOrder(t), turn[t].pc = "streaming"
  PROVE  /\ next[t] > 0
         /\ \A i \in DOMAIN got[t] : got[t][i] = i
         /\ \A i \in DOMAIN channel[t] :
              (\A j \in 1..i : channel[t][j] # Codex!Failure) => channel[t][i] = Len(got[t]) + i
         /\ Unbroken(t) /\ (\A q \in Codex!Procs : ~Busy(q, t)) =>
              next[t] = Len(got[t]) + Len(channel[t]) + 1
         /\ Unbroken(t) /\ (\E q \in Codex!Procs : Busy(q, t)) =>
              next[t] = Len(got[t]) + Len(channel[t]) + 2
BY DEF InOrder, UnderWay

LEMMA InitCodexInv ==
  ASSUME Codex!CodexInit
  PROVE  CodexInv
<1>1. CodexTyped
  BY DEF Codex!CodexInit, CodexTyped, Pcs
<1>2. ASSUME NEW t \in Turns
      PROVE  InOrder(t)
  <2>1. \A q \in Codex!Procs : ~Busy(q, t)
    BY NotSends DEF Codex!CodexInit, Busy
  <2> QED
    BY <1>1, <2>1 DEF Codex!CodexInit, InOrder, Kept, UnderWay, InSend, ToldSoFar, OnCurrent
<1> QED
  BY <1>1, <1>2 DEF CodexInv

\* The failure of the current process: calls on it fail, a turn that streams may
\* be told, and at most one turn after that goes on (after).
LEMMA FailingKeeps ==
  ASSUME CodexInv, NEW after \in [Turns -> [pc : Pcs, on : Nat, tries : Nat]],
         Codex!FailLocked(after),
         UNCHANGED <<started, next, active, buffered, got>>,
         reader' \in [Codex!Procs -> {Codex!Ready, Codex!Ended} \cup Sends],
         \A q \in Codex!Procs : reader'[q] = reader[q] \/ (reader[q] \notin Sends /\ reader'[q] \notin Sends),
         \A u \in Turns : \/ after[u] = turn[u]
                          \/ /\ turn[u].pc \in {"respawning", "failed"} /\ after[u].pc \in {"ready", "done"}
                             /\ after[u].on = turn[u].on
  PROVE  CodexInv'
<1>1. turn' \in [Turns -> [pc : Pcs, on : Nat, tries : Nat]]
  <2>1. \A t \in Turns : Codex!Failed(t) \in [pc : Pcs, on : Nat, tries : Nat]
    BY DEF Codex!Failed, CodexInv, CodexTyped, Pcs
  <2> QED
    BY <2>1 DEF Codex!FailLocked
<1>2. channel' \in [Turns -> Seq(Nat)]
  BY DEF Codex!FailLocked, CodexInv, CodexTyped, Codex!Failure
<1>3. \A t \in Turns :
        /\ turn'[t].on = turn[t].on
        /\ turn[t].pc = "calling" => turn'[t].pc = "failed"
        /\ turn[t].pc \notin {"calling", "respawning", "failed"} => turn'[t].pc = turn[t].pc
        /\ turn[t].pc \in {"respawning", "failed"} => turn'[t].pc \in {"respawning", "failed", "ready", "done"}
  BY DEF Codex!FailLocked, Codex!Failed, Codex!Pending, CodexInv, CodexTyped, Pcs
<1>4. active' = {t \in Turns : turn'[t].pc = "streaming"}
  BY <1>3 DEF CodexInv, CodexTyped
<1>5. CodexTyped'
  BY <1>1, <1>2, <1>4 DEF CodexInv, CodexTyped, Codex!FailLocked
<1>6. ASSUME NEW t \in Turns
      PROVE  InOrder(t)'
  <2>0. InOrder(t)
    BY DEF CodexInv
  <2>1. \A q \in Codex!Procs : (Busy(q, t)' <=> Busy(q, t)) /\ (Busy(q, t) => reader'[q] = reader[q])
    BY DEF Busy
  <2>2. Kept(t)' /\ ToldSoFar(t)' /\ OnCurrent(t)'
    BY <1>3, <2>0 DEF InOrder, Kept, ToldSoFar, OnCurrent
  <2>3. InSend(t)'
    BY <1>3, <2>0, <2>1 DEF InOrder, InSend
  <2>4. CASE turn[t].pc # "streaming"
    BY <1>3, <2>2, <2>3, <2>4 DEF InOrder, UnderWay
  <2>5. CASE turn[t].pc = "streaming" /\ channel'[t] = channel[t]
    <3>1. Unbroken(t)' <=> Unbroken(t)
      BY <2>5 DEF Unbroken
    <3>2. UnderWay(t)'
      BY <2>0, <2>1, <2>5, <3>1 DEF InOrder, UnderWay
    <3> QED
      BY <2>2, <2>3, <3>2 DEF InOrder
  <2>6. CASE turn[t].pc = "streaming" /\ channel'[t] = Append(channel[t], Codex!Failure)
    <3>1. channel[t] \in Seq(Nat)
      BY DEF CodexInv, CodexTyped
    <3>2. channel'[t][Len(channel[t]) + 1] = Codex!Failure /\ DOMAIN channel'[t] = 1..(Len(channel[t]) + 1)
      BY <2>6, <3>1
    <3>3. ~Unbroken(t)'
      <4>1. Len(channel[t]) + 1 \in DOMAIN channel'[t]
        BY <3>1, <3>2
      <4> QED
        BY <3>2, <4>1 DEF Unbroken
    <3>4. \A i \in DOMAIN channel'[t] :
            (\A j \in 1..i : channel'[t][j] # Codex!Failure) => i \in DOMAIN channel[t]
      BY <3>1, <3>2
    <3>5. \A i \in DOMAIN channel[t] : channel'[t][i] = channel[t][i]
      BY <2>6, <3>1
    <3>6. \A i \in DOMAIN channel'[t] :
            (\A j \in 1..i : channel'[t][j] # Codex!Failure) => channel'[t][i] = Len(got[t]) + i
      <4> SUFFICES ASSUME NEW i \in DOMAIN channel'[t], \A j \in 1..i : channel'[t][j] # Codex!Failure
                   PROVE  channel'[t][i] = Len(got[t]) + i
        OBVIOUS
      <4>1. i \in DOMAIN channel[t] /\ \A j \in 1..i : j \in DOMAIN channel[t]
        BY <3>1, <3>4
      <4>2. \A j \in 1..i : channel[t][j] # Codex!Failure
        BY <3>5, <4>1
      <4>3. channel[t][i] = Len(got[t]) + i
        BY <2>0, <2>6, <4>1, <4>2 DEF InOrder, UnderWay
      <4> QED
        BY <3>5, <4>1, <4>3
    <3>7. UnderWay(t)'
      BY <2>0, <2>6, <3>3, <3>6 DEF InOrder, UnderWay
    <3> QED
      BY <2>2, <2>3, <3>7 DEF InOrder
  <2> QED
    BY <2>4, <2>5, <2>6 DEF Codex!FailLocked
<1> QED
  BY <1>5, <1>6 DEF CodexInv

\* The steps of a turn before it streams.
LEMMA BoundaryKeeps ==
  ASSUME CodexInv, NEW t \in Turns, Codex!Boundary(t)
  PROVE  CodexInv'
<1>1. turn[t].pc = "new" /\ \E pc \in {"respawning", "ready"} : turn' = [turn EXCEPT ![t].pc = pc]
  BY DEF Codex!Boundary
<1>2. PICK pc \in {"respawning", "ready"} : turn' = [turn EXCEPT ![t].pc = pc]
  BY <1>1
<1>3. UNCHANGED <<proc, started, alive, reader, next, channel, active, buffered, got>>
  BY DEF Codex!Boundary
<1>4. /\ turn' \in [Turns -> [pc : Pcs, on : Nat, tries : Nat]]
      /\ turn'[t].pc = pc /\ turn'[t].on = turn[t].on
      /\ \A u \in Turns \ {t} : turn'[u] = turn[u]
  BY <1>2 DEF CodexInv, CodexTyped, Pcs
<1>5. CodexTyped'
  BY <1>1, <1>3, <1>4 DEF CodexInv, CodexTyped
<1>6. ASSUME NEW u \in Turns
      PROVE  InOrder(u)'
  <2>0. InOrder(u) /\ \A q \in Codex!Procs : Busy(q, u)' <=> Busy(q, u)
    BY <1>3 DEF CodexInv, Busy
  <2>1. CASE u # t
    BY <1>3, <1>4, <2>0, <2>1, TurnRests
  <2>2. CASE u = t
    BY <1>1, <1>3, <1>4, <2>0, <2>2 DEF InOrder, Kept, UnderWay, InSend, ToldSoFar, OnCurrent
  <2> QED
    BY <2>1, <2>2
<1> QED
  BY <1>5, <1>6 DEF CodexInv

LEMMA ResetKeeps ==
  ASSUME CodexInv, NEW t \in Turns, Codex!Respawn(t) \/ Codex!Retry(t)
  PROVE  CodexInv'
<1>1. PICK pc \in {"ready", "done"} : /\ turn[t].pc \in {"respawning", "failed"}
                                      /\ Codex!FailLocked([turn EXCEPT ![t].pc = pc])
  BY DEF Codex!Respawn, Codex!Retry, Codex!Reset
<1>2. UNCHANGED <<started, reader, next, active, buffered, got>>
  BY DEF Codex!Respawn, Codex!Retry
<1> DEFINE after == [turn EXCEPT ![t].pc = pc]
<1>3. /\ after \in [Turns -> [pc : Pcs, on : Nat, tries : Nat]]
      /\ after[t].pc = pc /\ after[t].on = turn[t].on
      /\ \A u \in Turns \ {t} : after[u] = turn[u]
  BY DEF CodexInv, CodexTyped, Pcs
<1>4. reader' \in [Codex!Procs -> {Codex!Ready, Codex!Ended} \cup Sends]
  BY <1>2 DEF CodexInv, CodexTyped
<1>5. \A u \in Turns : \/ after[u] = turn[u]
                       \/ /\ turn[u].pc \in {"respawning", "failed"} /\ after[u].pc \in {"ready", "done"}
                          /\ after[u].on = turn[u].on
  BY <1>1, <1>3
<1>6. Codex!FailLocked(after)
  BY <1>1
<1> HIDE DEF after
<1> QED
  BY <1>2, <1>3, <1>4, <1>5, <1>6, FailingKeeps

LEMMA RefreshKeeps ==
  ASSUME CodexInv, NEW r \in Refreshers,
         Codex!RefreshMark(r) \/ Codex!RefreshReset(r) \/ Codex!RefreshClear(r)
  PROVE  CodexInv'
<1>1. CASE Codex!RefreshReset(r)
  <2>1. Codex!FailLocked(turn) /\ UNCHANGED <<started, reader, next, active, buffered, got>>
    BY <1>1 DEF Codex!RefreshReset, Codex!Reset
  <2>2. turn \in [Turns -> [pc : Pcs, on : Nat, tries : Nat]]
        /\ reader' \in [Codex!Procs -> {Codex!Ready, Codex!Ended} \cup Sends]
    BY <2>1 DEF CodexInv, CodexTyped
  <2> QED
    BY <2>1, <2>2, FailingKeeps
<1>2. CASE Codex!RefreshMark(r) \/ Codex!RefreshClear(r)
  <2>1. UNCHANGED <<proc, started, reader, turn, next, channel, active, buffered, got>>
    BY <1>2 DEF Codex!RefreshMark, Codex!RefreshClear
  <2>2. CodexTyped'
    BY <2>1 DEF CodexInv, CodexTyped
  <2>3. ASSUME NEW u \in Turns
        PROVE  InOrder(u)'
    BY <2>1, TurnRests DEF CodexInv, Busy
  <2> QED
    BY <2>2, <2>3 DEF CodexInv
<1> QED
  BY <1>1, <1>2

LEMMA CallKeeps ==
  ASSUME CodexInv, NEW t \in Turns, Codex!Call(t)
  PROVE  CodexInv'
<1>1. /\ turn[t].pc = "ready" /\ proc' \in Nat /\ proc' # 0 /\ started' \in Nat
      /\ proc' = proc \/ proc = 0
  BY DEF Codex!Call, CodexInv, CodexTyped
<1>2. /\ turn' = [turn EXCEPT ![t] = [pc |-> "calling", on |-> proc', tries |-> turn[t].tries + 1]]
      /\ next' = [next EXCEPT ![t] = 0] /\ buffered' = [buffered EXCEPT ![t] = <<>>]
      /\ UNCHANGED <<reader, channel, active, got>>
  BY DEF Codex!Call, CodexInv, CodexTyped
<1>3. /\ turn' \in [Turns -> [pc : Pcs, on : Nat, tries : Nat]]
      /\ turn'[t].pc = "calling" /\ turn'[t].on = proc'
      /\ \A u \in Turns \ {t} : turn'[u] = turn[u]
  BY <1>1, <1>2 DEF CodexInv, CodexTyped, Pcs
<1>4. CodexTyped'
  BY <1>1, <1>2, <1>3 DEF CodexInv, CodexTyped
<1>5. ASSUME NEW u \in Turns
      PROVE  InOrder(u)'
  <2>0. InOrder(u) /\ \A q \in Codex!Procs : Busy(q, u)' <=> Busy(q, u)
    BY <1>2 DEF CodexInv, Busy
  <2>1. CASE u # t
    <3>1. next'[u] = next[u] /\ buffered'[u] = buffered[u] /\ channel'[u] = channel[u] /\ got'[u] = got[u]
      BY <1>2, <2>1 DEF CodexInv, CodexTyped
    <3>2. turn[u].pc = "calling" => proc' = proc
      BY <1>1, <2>0 DEF InOrder, OnCurrent
    <3>3. turn'[u] = turn[u] /\ reader' = reader
      BY <1>2, <1>3, <2>1
    <3> QED
      BY <2>0, <3>1, <3>2, <3>3, TurnRests
  <2>2. CASE u = t
    <3>1. next'[t] = 0 /\ buffered'[t] = <<>> /\ got'[t] = got[t]
      BY <1>2 DEF CodexInv, CodexTyped
    <3> QED
      BY <1>1, <1>3, <2>0, <2>2, <3>1 DEF InOrder, Kept, UnderWay, InSend, ToldSoFar, OnCurrent
  <2> QED
    BY <2>1, <2>2
<1> QED
  BY <1>4, <1>5 DEF CodexInv

LEMMA CancelKeeps ==
  ASSUME CodexInv, NEW t \in Turns, Codex!CancelTurn(t)
  PROVE  CodexInv'
<1>1. /\ turn[t].pc \in {"calling", "streaming"}
      /\ turn' = [turn EXCEPT ![t].pc = "done"] /\ active' = active \ {t}
      /\ UNCHANGED <<proc, started, reader, next, channel, buffered, got>>
  BY DEF Codex!CancelTurn
<1>2. /\ turn' \in [Turns -> [pc : Pcs, on : Nat, tries : Nat]]
      /\ turn'[t].pc = "done" /\ turn'[t].on = turn[t].on
      /\ \A u \in Turns \ {t} : turn'[u] = turn[u]
  BY <1>1 DEF CodexInv, CodexTyped, Pcs
<1>3. CodexTyped'
  BY <1>1, <1>2 DEF CodexInv, CodexTyped
<1>4. ASSUME NEW u \in Turns
      PROVE  InOrder(u)'
  <2>0. InOrder(u) /\ \A q \in Codex!Procs : Busy(q, u)' <=> Busy(q, u)
    BY <1>1 DEF CodexInv, Busy
  <2>1. CASE u # t
    BY <1>1, <1>2, <2>0, <2>1, TurnRests
  <2>2. CASE u = t
    BY <1>1, <1>2, <2>0, <2>2 DEF InOrder, Kept, UnderWay, InSend, ToldSoFar, OnCurrent
  <2> QED
    BY <2>1, <2>2
<1> QED
  BY <1>3, <1>4 DEF CodexInv

\* The steps of readLoop.
LEMMA EofKeeps ==
  ASSUME CodexInv, NEW p \in Codex!Procs, Codex!Eof(p)
  PROVE  CodexInv'
<1>1. /\ reader[p] = Codex!Ready /\ reader' = [reader EXCEPT ![p] = Codex!Ended]
      /\ UNCHANGED <<started, next, active, buffered, got>>
  BY DEF Codex!Eof
<1>2. /\ reader' \in [Codex!Procs -> {Codex!Ready, Codex!Ended} \cup Sends]
      /\ \A q \in Codex!Procs : reader'[q] = reader[q] \/ (reader[q] \notin Sends /\ reader'[q] \notin Sends)
  BY <1>1, NotSends DEF CodexInv, CodexTyped
<1>3. CASE Codex!FailLocked(turn)
  BY <1>1, <1>2, <1>3, FailingKeeps DEF CodexInv, CodexTyped
<1>4. CASE UNCHANGED <<proc, turn, channel>>
  <2>1. CodexTyped'
    BY <1>1, <1>2, <1>4 DEF CodexInv, CodexTyped
  <2>2. ASSUME NEW u \in Turns
        PROVE  InOrder(u)'
    <3>1. \A q \in Codex!Procs : (Busy(q, u)' <=> Busy(q, u)) /\ (Busy(q, u) => reader'[q] = reader[q])
      BY <1>2 DEF Busy
    <3> QED
      BY <1>1, <1>4, <3>1, TurnRests DEF CodexInv
  <2> QED
    BY <2>1, <2>2 DEF CodexInv
<1> QED
  BY <1>3, <1>4 DEF Codex!Eof

LEMMA RespondKeeps ==
  ASSUME CodexInv, NEW p \in Codex!Procs, NEW t \in Turns, Codex!Respond(p, t)
  PROVE  CodexInv'
<1>1. /\ next[t] = 0 /\ next' = [next EXCEPT ![t] = next[t] + 1]
      /\ turn' = IF turn[t].pc = "calling" THEN [turn EXCEPT ![t].pc = "started"] ELSE turn
      /\ UNCHANGED <<proc, started, reader, channel, active, buffered, got>>
  BY DEF Codex!Respond, Codex!Heard, Codex!Take, Codex!Pending, CodexInv, CodexTyped
<1>2. /\ turn' \in [Turns -> [pc : Pcs, on : Nat, tries : Nat]]
      /\ turn'[t].pc = (IF turn[t].pc = "calling" THEN "started" ELSE turn[t].pc)
      /\ turn'[t].on = turn[t].on
      /\ \A u \in Turns \ {t} : turn'[u] = turn[u]
  BY <1>1 DEF CodexInv, CodexTyped, Pcs
<1>3. CodexTyped'
  BY <1>1, <1>2 DEF CodexInv, CodexTyped
<1>4. ASSUME NEW u \in Turns
      PROVE  InOrder(u)'
  <2>0. InOrder(u) /\ \A q \in Codex!Procs : Busy(q, u)' <=> Busy(q, u)
    BY <1>1 DEF CodexInv, Busy
  <2>1. CASE u # t
    <3>1. next'[u] = next[u]
      BY <1>1, <2>1 DEF CodexInv, CodexTyped
    <3> QED
      BY <1>1, <1>2, <2>0, <2>1, <3>1, TurnRests
  <2>2. CASE u = t
    <3>1. next'[t] = 1 /\ channel[t] \in Seq(Nat) /\ got[t] \in Seq(Nat)
      BY <1>1 DEF CodexInv, CodexTyped
    <3>2. turn[t].pc # "streaming"
      <4>1. InOrder(t) /\ turn[t].pc = "streaming" => next[t] > 0
        BY Streaming
      <4> QED
        BY <1>1, <2>0, <2>2, <4>1
    <3>3. InOrder(t) /\ turn'[t].pc # "streaming"
      BY <1>2, <2>0, <2>2, <3>2
    <3>4. Kept(t)' /\ ToldSoFar(t)' /\ OnCurrent(t)'
      BY <1>1, <1>2, <3>1, <3>3 DEF InOrder, Kept, ToldSoFar, OnCurrent
    <3>5. InSend(t)'
      BY <1>1, <1>2, <2>0, <2>2, <3>3 DEF InOrder, InSend
    <3> QED
      BY <2>2, <3>3, <3>4, <3>5 DEF InOrder, UnderWay
  <2> QED
    BY <2>1, <2>2
<1> QED
  BY <1>3, <1>4 DEF CodexInv

LEMMA NotifyKeeps ==
  ASSUME CodexInv, NEW p \in Codex!Procs, NEW t \in Turns, Codex!Notify(p, t)
  PROVE  CodexInv'
<1>1. /\ turn[t].on = p /\ reader[p] \notin Sends /\ next[t] \in Nat /\ next[t] > 0
      /\ next' = [next EXCEPT ![t] = next[t] + 1]
      /\ UNCHANGED <<proc, started, turn, channel, active, got>>
  BY NotSends DEF Codex!Notify, Codex!Heard, Codex!Take, CodexInv, CodexTyped
<1>2. \A q \in Codex!Procs : ~Busy(q, t)
  BY <1>1 DEF CodexInv, InOrder, InSend, Busy
<1>3. /\ next' \in [Turns -> Nat] /\ next'[t] = next[t] + 1
      /\ \A u \in Turns \ {t} : next'[u] = next[u]
  BY <1>1 DEF CodexInv, CodexTyped
<1>4. CASE turn[t].pc = "streaming"
  <2>1. reader' = [reader EXCEPT ![p] = [to |-> t, n |-> next[t]]] /\ UNCHANGED buffered
    BY <1>4 DEF Codex!Notify, CodexInv, CodexTyped
  <2> DEFINE sent_ == [to |-> t, n |-> next[t]]
  <2>2. sent_ \in Sends /\ sent_.to = t /\ sent_.n = next[t]
    BY <1>1, NotSends
  <2>3. reader' = [reader EXCEPT ![p] = sent_]
    BY <2>1
  <2> HIDE DEF sent_
  <2>4. /\ reader' \in [Codex!Procs -> {Codex!Ready, Codex!Ended} \cup Sends]
        /\ reader'[p] = sent_ /\ \A q \in Codex!Procs \ {p} : reader'[q] = reader[q]
    BY <2>2, <2>3 DEF CodexInv, CodexTyped
  <2>5. CodexTyped'
    BY <1>1, <1>3, <2>1, <2>4 DEF CodexInv, CodexTyped
  <2>6. ASSUME NEW u \in Turns
        PROVE  InOrder(u)'
    <3>0. InOrder(u)
      BY DEF CodexInv
    <3>1. CASE u # t
      <4>1. \A q \in Codex!Procs : (Busy(q, u)' <=> Busy(q, u)) /\ (Busy(q, u) => reader'[q] = reader[q])
        BY <1>1, <2>2, <2>4, <3>1 DEF Busy
      <4> QED
        BY <1>1, <1>3, <2>1, <3>0, <3>1, <4>1, TurnRests
    <3>2. CASE u = t
      <4>1. \A q \in Codex!Procs : Busy(q, t)' <=> q = p
        BY <1>2, <2>2, <2>4 DEF Busy
      <4>2. Unbroken(t)' <=> Unbroken(t)
        BY <1>1 DEF Unbroken
      <4>3. got[t] \in Seq(Nat) /\ channel[t] \in Seq(Nat)
        BY DEF CodexInv, CodexTyped
      <4>4. UnderWay(t)'
        <5>1. /\ \A i \in DOMAIN got[t] : got[t][i] = i
              /\ \A i \in DOMAIN channel[t] :
                   (\A j \in 1..i : channel[t][j] # Codex!Failure) => channel[t][i] = Len(got[t]) + i
              /\ Unbroken(t) => next[t] = Len(got[t]) + Len(channel[t]) + 1
          BY <1>2, <1>4, <3>0, <3>2, Streaming
        <5>2. next'[t] > 0
          BY <1>1, <1>3
        <5>3. ASSUME Unbroken(t)
              PROVE  next'[t] = Len(got[t]) + Len(channel[t]) + 2
          <6>1. next[t] = Len(got[t]) + Len(channel[t]) + 1
            BY <5>1, <5>3
          <6> QED
            BY <1>3, <4>3, <6>1
        <5> QED
          BY <1>1, <4>1, <4>2, <5>1, <5>2, <5>3 DEF UnderWay
      <4>5. InSend(t)'
        BY <1>1, <1>3, <1>4, <2>2, <2>4, <4>1 DEF InSend
      <4> QED
        BY <1>1, <1>4, <3>0, <3>2, <4>4, <4>5 DEF InOrder, Kept, ToldSoFar, OnCurrent
    <3> QED
      BY <3>1, <3>2
  <2> QED
    BY <2>5, <2>6 DEF CodexInv
<1>5. CASE turn[t].pc # "streaming"
  <2>1. buffered' = [buffered EXCEPT ![t] = Append(buffered[t], next[t])] /\ UNCHANGED reader
    BY <1>5 DEF Codex!Notify, CodexInv, CodexTyped
  <2>2. /\ buffered[t] \in Seq(Nat) /\ buffered'[t] = Append(buffered[t], next[t])
        /\ \A u \in Turns \ {t} : buffered'[u] = buffered[u]
        /\ buffered' \in [Turns -> Seq(Nat)]
    BY <1>1, <2>1 DEF CodexInv, CodexTyped
  <2>3. CodexTyped'
    BY <1>1, <1>3, <2>1, <2>2 DEF CodexInv, CodexTyped
  <2>4. ASSUME NEW u \in Turns
        PROVE  InOrder(u)'
    <3>0. InOrder(u) /\ \A q \in Codex!Procs : Busy(q, u)' <=> Busy(q, u)
      BY <2>1 DEF CodexInv, Busy
    <3>1. CASE u # t
      BY <1>1, <1>3, <2>1, <2>2, <3>0, <3>1, TurnRests
    <3>2. CASE u = t
      <4>1. Kept(t)'
        BY <1>1, <1>3, <2>2, <3>0, <3>2 DEF InOrder, Kept
      <4> QED
        BY <1>1, <1>2, <1>5, <3>0, <3>2, <4>1 DEF InOrder, UnderWay, InSend, ToldSoFar, OnCurrent
    <3> QED
      BY <3>1, <3>2
  <2> QED
    BY <2>3, <2>4 DEF CodexInv
<1> QED
  BY <1>4, <1>5

LEMMA SendKeeps ==
  ASSUME CodexInv, NEW p \in Codex!Procs, Codex!Send(p)
  PROVE  CodexInv'
<1> DEFINE m == reader[p]
<1>1. m \in Sends
  BY DEF Codex!Send, CodexInv, CodexTyped
<1>2. PICK t \in Turns, n \in Nat : m.to = t /\ m.n = n
  BY <1>1 DEF Sends
<1>3. /\ channel' = [channel EXCEPT ![t] = Append(channel[t], n)]
      /\ reader' = [reader EXCEPT ![p] = Codex!Ready]
      /\ UNCHANGED <<proc, started, turn, next, active, buffered, got>>
  BY <1>2 DEF Codex!Send
<1>4. /\ reader' \in [Codex!Procs -> {Codex!Ready, Codex!Ended} \cup Sends]
      /\ reader'[p] \notin Sends /\ \A q \in Codex!Procs \ {p} : reader'[q] = reader[q]
  BY <1>3, NotSends DEF CodexInv, CodexTyped
<1>5. /\ channel[t] \in Seq(Nat) /\ channel' \in [Turns -> Seq(Nat)]
      /\ channel'[t] = Append(channel[t], n) /\ \A u \in Turns \ {t} : channel'[u] = channel[u]
  BY <1>3 DEF CodexInv, CodexTyped
<1>6. CodexTyped'
  BY <1>3, <1>4, <1>5 DEF CodexInv, CodexTyped
<1>7. ASSUME NEW u \in Turns
      PROVE  InOrder(u)'
  <2>0. InOrder(u)
    BY DEF CodexInv
  <2>1. CASE u # t
    <3>1. \A q \in Codex!Procs : (Busy(q, u)' <=> Busy(q, u)) /\ (Busy(q, u) => reader'[q] = reader[q])
      BY <1>1, <1>2, <1>4, <2>1 DEF Busy
    <3> QED
      BY <1>3, <1>5, <2>0, <2>1, <3>1, TurnRests
  <2>2. CASE u = t
    <3>1. /\ Busy(p, t) /\ p = turn[t].on
          /\ turn[t].pc = "streaming" => n + 1 = next[t]
      BY <1>1, <1>2, <2>0, <2>2 DEF InOrder, InSend, Busy
    <3>2. \A q \in Codex!Procs : ~Busy(q, t)'
      BY <1>4, <2>0, <2>2, <3>1 DEF InOrder, InSend, Busy
    <3>3. Kept(t)' /\ ToldSoFar(t)' /\ OnCurrent(t)'
      BY <1>3, <2>0, <2>2 DEF InOrder, Kept, ToldSoFar, OnCurrent
    <3>4. InSend(t)'
      BY <3>2 DEF InSend
    <3>5. CASE turn[t].pc = "streaming"
      <4>0. Len(got[t]) \in Nat /\ Len(channel[t]) \in Nat /\ next[t] \in Nat
        BY DEF CodexInv, CodexTyped
      <4>1. /\ DOMAIN channel'[t] = 1..(Len(channel[t]) + 1) /\ channel'[t][Len(channel[t]) + 1] = n
            /\ \A i \in DOMAIN channel[t] : channel'[t][i] = channel[t][i] /\ i \in DOMAIN channel'[t]
            /\ Len(channel'[t]) = Len(channel[t]) + 1
        BY <1>5
      <4>2. ASSUME Unbroken(t)
            PROVE  n = Len(got[t]) + Len(channel[t]) + 1
        <5>1. next[t] = Len(got[t]) + Len(channel[t]) + 2
          BY <2>0, <2>2, <3>1, <3>5, <4>2, Streaming
        <5>2. n + 1 = next[t]
          BY <3>1, <3>5
        <5>3. n \in Nat /\ n + 1 = Len(got[t]) + Len(channel[t]) + 2
          BY <1>2, <5>1, <5>2
        <5> HIDE DEF m
        <5>4. \A x, y, k \in Nat : k + 1 = x + y + 2 => k = x + y + 1
          OBVIOUS
        <5> QED
          BY <4>0, <5>3, <5>4
      <4>3. Unbroken(t)' => Unbroken(t)
        BY <4>1 DEF Unbroken
      <4>4. ASSUME NEW i \in DOMAIN channel'[t], \A j \in 1..i : channel'[t][j] # Codex!Failure
            PROVE  channel'[t][i] = Len(got[t]) + i
        <5>1. CASE i \in DOMAIN channel[t]
          <6>1. \A j \in 1..i : j \in DOMAIN channel[t]
            BY <1>5, <5>1
          <6>2. \A j \in 1..i : channel[t][j] # Codex!Failure
            BY <4>1, <4>4, <6>1
          <6>3. channel[t][i] = Len(got[t]) + i
            BY <2>0, <2>2, <3>5, <5>1, <6>2, Streaming
          <6> QED
            BY <4>1, <5>1, <6>3
        <5>2. CASE i = Len(channel[t]) + 1
          <6>1. \A j \in DOMAIN channel[t] : j \in 1..i
            BY <1>5, <5>2
          <6>2. Unbroken(t)
            BY <4>1, <4>4, <6>1 DEF Unbroken
          <6>3. channel'[t][i] = Len(got[t]) + Len(channel[t]) + 1
            BY <4>1, <4>2, <5>2, <6>2
          <6>4. Len(got[t]) + i = Len(got[t]) + Len(channel[t]) + 1
            BY <4>0, <5>2, Sums
          <6> QED
            BY <6>3, <6>4
        <5> QED
          BY <1>5, <4>1, <5>1, <5>2
      <4>5. UnderWay(t)'
        <5>1. next[t] > 0 /\ \A i \in DOMAIN got[t] : got[t][i] = i
          BY <2>0, <2>2, <3>5, Streaming
        <5>2. ASSUME Unbroken(t)'
              PROVE  next[t] = Len(got[t]) + Len(channel'[t]) + 1
          <6>1. n = Len(got[t]) + Len(channel[t]) + 1
            BY <4>2, <4>3, <5>2
          <6>2. n + 1 = next[t] /\ Len(channel'[t]) = Len(channel[t]) + 1
            BY <3>1, <3>5, <4>1
          <6>3. n \in Nat
            BY <1>2
          <6>4. n + 1 = Len(got[t]) + (Len(channel[t]) + 1) + 1
            BY <4>0, <6>1, <6>3, Sums
          <6> QED
            BY <6>2, <6>4
        <5> QED
          BY <1>3, <3>2, <4>4, <5>1, <5>2 DEF UnderWay
      <4> QED
        BY <3>3, <3>4, <4>5, <2>2 DEF InOrder
    <3>6. CASE turn[t].pc # "streaming"
      BY <1>3, <2>2, <3>3, <3>4, <3>6 DEF InOrder, UnderWay
    <3> QED
      BY <3>5, <3>6
  <2> QED
    BY <2>1, <2>2
<1> QED
  BY <1>6, <1>7 DEF CodexInv

\* What begins and ends the stream of a turn.
LEMMA RegisterKeeps ==
  ASSUME CodexInv, NEW t \in Turns, Codex!Register(t)
  PROVE  CodexInv'
<1>1. /\ turn[t].pc = "started" /\ turn' = [turn EXCEPT ![t].pc = "streaming"]
      /\ active' = active \cup {t}
      /\ channel' = [channel EXCEPT ![t] = buffered[t]] /\ buffered' = [buffered EXCEPT ![t] = <<>>]
      /\ UNCHANGED <<proc, started, reader, next, got>>
  BY DEF Codex!Register, Codex!Replayed
<1>2. /\ turn' \in [Turns -> [pc : Pcs, on : Nat, tries : Nat]]
      /\ turn'[t].pc = "streaming" /\ turn'[t].on = turn[t].on
      /\ \A u \in Turns \ {t} : turn'[u] = turn[u]
  BY <1>1 DEF CodexInv, CodexTyped, Pcs
<1>3. /\ channel' \in [Turns -> Seq(Nat)] /\ buffered' \in [Turns -> Seq(Nat)]
      /\ channel'[t] = buffered[t] /\ buffered[t] \in Seq(Nat)
      /\ \A u \in Turns \ {t} : channel'[u] = channel[u] /\ buffered'[u] = buffered[u]
  BY <1>1 DEF CodexInv, CodexTyped
<1>4. CodexTyped'
  BY <1>1, <1>2, <1>3 DEF CodexInv, CodexTyped
<1>5. ASSUME NEW u \in Turns
      PROVE  InOrder(u)'
  <2>0. InOrder(u) /\ \A q \in Codex!Procs : Busy(q, u)' <=> Busy(q, u)
    BY <1>1 DEF CodexInv, Busy
  <2>1. CASE u # t
    BY <1>1, <1>2, <1>3, <2>0, <2>1, TurnRests
  <2>2. CASE u = t
    <3>1. /\ got[t] = <<>> /\ next[t] = Len(buffered[t]) + 1
          /\ \A i \in DOMAIN buffered[t] : buffered[t][i] = i
      BY <1>1, <2>0, <2>2 DEF InOrder, Kept
    <3>2. \A q \in Codex!Procs : ~Busy(q, t)'
      BY <1>1, <2>0, <2>2 DEF InOrder, InSend
    <3>3. Len(got[t]) = 0 /\ next[t] > 0 /\ next[t] = Len(got[t]) + Len(channel'[t]) + 1
      BY <1>3, <3>1
    <3>4. \A i \in DOMAIN channel'[t] : channel'[t][i] = Len(got[t]) + i
      BY <1>3, <3>1, <3>3
    <3>5. UnderWay(t)'
      BY <1>1, <3>1, <3>2, <3>3, <3>4 DEF UnderWay
    <3>6. Kept(t)' /\ ToldSoFar(t)' /\ OnCurrent(t)' /\ InSend(t)'
      BY <1>1, <1>2, <3>1, <3>2 DEF Kept, ToldSoFar, OnCurrent, InSend
    <3> QED
      BY <2>2, <3>5, <3>6 DEF InOrder
  <2> QED
    BY <2>1, <2>2
<1> QED
  BY <1>4, <1>5 DEF CodexInv

LEMMA StreamKeeps ==
  ASSUME CodexInv, NEW t \in Turns, Codex!Stream(t)
  PROVE  CodexInv'
<1>0. /\ channel[t] \in Seq(Nat) /\ channel[t] # <<>> /\ got[t] \in Seq(Nat) /\ next[t] \in Nat
      /\ turn[t].pc = "streaming" /\ InOrder(t)
  BY DEF Codex!Stream, CodexInv, CodexTyped
<1> DEFINE e == Head(channel[t])
<1>1. /\ e \in Nat /\ e = channel[t][1] /\ Len(channel[t]) > 0
      /\ Tail(channel[t]) \in Seq(Nat) /\ Len(Tail(channel[t])) = Len(channel[t]) - 1
      /\ \A i \in DOMAIN Tail(channel[t]) : /\ Tail(channel[t])[i] = channel[t][i + 1]
                                              /\ i + 1 \in DOMAIN channel[t]
  BY <1>0
<1>2. /\ Append(got[t], e) \in Seq(Nat) /\ Len(Append(got[t], e)) = Len(got[t]) + 1
      /\ Append(got[t], e)[Len(got[t]) + 1] = e
      /\ \A i \in DOMAIN got[t] : Append(got[t], e)[i] = got[t][i]
      /\ DOMAIN Append(got[t], e) = DOMAIN got[t] \cup {Len(got[t]) + 1}
  BY <1>0, <1>1
<1>3. /\ got' = [got EXCEPT ![t] = Append(got[t], e)]
      /\ channel' = [channel EXCEPT ![t] = Tail(channel[t])]
      /\ UNCHANGED <<proc, started, reader, next, buffered>>
  BY DEF Codex!Stream, CodexInv, CodexTyped
<1>4. \/ /\ e \in {Codex!Failure, Codex!Completed}
         /\ turn' = [turn EXCEPT ![t].pc = "done"] /\ active' = active \ {t}
      \/ e \notin {Codex!Failure, Codex!Completed} /\ turn' = turn /\ active' = active
  BY DEF Codex!Stream
<1> HIDE DEF e
<1>5. /\ got' \in [Turns -> Seq(Nat)] /\ channel' \in [Turns -> Seq(Nat)]
      /\ got'[t] = Append(got[t], e) /\ channel'[t] = Tail(channel[t])
      /\ \A u \in Turns \ {t} : got'[u] = got[u] /\ channel'[u] = channel[u]
  BY <1>1, <1>2, <1>3 DEF CodexInv, CodexTyped
<1>6. /\ turn' \in [Turns -> [pc : Pcs, on : Nat, tries : Nat]]
      /\ turn'[t].on = turn[t].on /\ turn'[t].pc \in {"streaming", "done"}
      /\ turn'[t].pc = "streaming" => turn' = turn /\ e # Codex!Failure
      /\ \A u \in Turns \ {t} : turn'[u] = turn[u]
      /\ active' = {u \in Turns : turn'[u].pc = "streaming"}
  <2>1. CASE turn' = [turn EXCEPT ![t].pc = "done"] /\ active' = active \ {t}
    BY <1>0, <2>1 DEF CodexInv, CodexTyped, Pcs
  <2>2. CASE e # Codex!Failure /\ turn' = turn /\ active' = active
    BY <1>0, <2>2 DEF CodexInv, CodexTyped
  <2> QED
    BY <1>4, <2>1, <2>2
<1>7. CodexTyped'
  BY <1>3, <1>5, <1>6 DEF CodexInv, CodexTyped
<1>8. ASSUME NEW u \in Turns
      PROVE  InOrder(u)'
  <2>0. InOrder(u) /\ \A q \in Codex!Procs : Busy(q, u)' <=> Busy(q, u)
    BY <1>3 DEF CodexInv, Busy
  <2>1. CASE u # t
    BY <1>3, <1>5, <1>6, <2>0, <2>1, TurnRests
  <2>2. CASE u = t
    <3>1. /\ \A i \in DOMAIN got[t] : got[t][i] = i
          /\ \A i \in DOMAIN channel[t] :
               (\A j \in 1..i : channel[t][j] # Codex!Failure) => channel[t][i] = Len(got[t]) + i
      BY <1>0, Streaming
    <3>2. e = Codex!Failure \/ e = Len(got[t]) + 1
      <4>1. 1 \in DOMAIN channel[t] /\ \A j \in 1..1 : j = 1
        BY <1>0, <1>1
      <4> QED
        BY <1>1, <3>1, <4>1
    <3>3. ToldSoFar(t)'
      BY <1>2, <1>5, <3>1, <3>2 DEF ToldSoFar
    <3>4. InSend(t)'
      BY <1>0, <1>3, <1>6, <2>0, <2>2 DEF InOrder, InSend
    <3>5. Kept(t)' /\ OnCurrent(t)'
      BY <1>6 DEF Kept, OnCurrent
    <3>6. CASE turn'[t].pc = "streaming"
      <4>1. e = Len(got[t]) + 1 /\ e # Codex!Failure
        BY <1>6, <3>2, <3>6
      <4>2. next'[t] > 0
        BY <1>0, <1>3, Streaming
      <4>3. \A i \in DOMAIN got'[t] : got'[t][i] = i
        BY <1>2, <1>5, <3>1, <4>1
      <4>4. ASSUME NEW i \in DOMAIN channel'[t], \A j \in 1..i : channel'[t][j] # Codex!Failure
            PROVE  channel'[t][i] = Len(got'[t]) + i
        <5>1. i + 1 \in DOMAIN channel[t] /\ channel'[t][i] = channel[t][i + 1]
          BY <1>1, <1>5
        <5>0. channel'[t] \in Seq(Nat) /\ i \in 1..Len(channel'[t])
          <6>1. channel'[t] \in Seq(Nat)
            BY <1>5
          <6> QED
            BY <4>4, <6>1
        <5>2. ASSUME NEW j \in 1..(i + 1)
              PROVE  channel[t][j] # Codex!Failure
          <6>1. CASE j = 1
            BY <1>1, <4>1, <6>1
          <6>2. CASE j # 1
            <7>1. j - 1 \in 1..i /\ (j - 1) + 1 = j
              BY <5>0, <6>2
            <7>2. 1..i \subseteq DOMAIN channel'[t]
              BY <5>0
            <7>3. channel'[t][j - 1] = channel[t][j]
              BY <1>1, <1>5, <7>1, <7>2
            <7> QED
              BY <4>4, <7>1, <7>3
          <6> QED
            BY <6>1, <6>2
        <5>3. channel[t][i + 1] = Len(got[t]) + (i + 1)
          BY <3>1, <5>1, <5>2
        <5>4. Len(got'[t]) + i = Len(got[t]) + (i + 1)
          <6>1. Len(got[t]) \in Nat /\ Len(got'[t]) = Len(got[t]) + 1
            BY <1>0, <1>2, <1>5
          <6> QED
            BY <5>0, <6>1, Sums
        <5> QED
          BY <5>1, <5>3, <5>4
      <4>5. Unbroken(t)' => Unbroken(t)
        <5> SUFFICES ASSUME Unbroken(t)', NEW j \in DOMAIN channel[t]
                     PROVE  channel[t][j] # Codex!Failure
          BY DEF Unbroken
        <5>1. CASE j = 1
          BY <1>1, <4>1, <5>1
        <5>2. CASE j # 1
          <6>1. j - 1 \in DOMAIN Tail(channel[t]) /\ (j - 1) + 1 = j
            BY <1>0, <1>1, <5>2
          <6> QED
            BY <1>1, <1>5, <6>1 DEF Unbroken
        <5> QED
          BY <5>1, <5>2
      <4>6. Len(got'[t]) + Len(channel'[t]) = Len(got[t]) + Len(channel[t])
        <5>1. Len(got[t]) \in Nat /\ Len(channel[t]) \in Nat
          BY <1>0
        <5>2. Len(got'[t]) = Len(got[t]) + 1 /\ Len(channel'[t]) = Len(channel[t]) - 1
          BY <1>1, <1>2, <1>5
        <5>3. (Len(got[t]) + 1) + (Len(channel[t]) - 1) = Len(got[t]) + Len(channel[t])
          BY <1>1, <5>1, Sums
        <5> QED
          BY <5>2, <5>3
      <4>7. ASSUME Unbroken(t)', \A q \in Codex!Procs : ~Busy(q, t)'
            PROVE  next[t] = Len(got'[t]) + Len(channel'[t]) + 1
        <5>1. next[t] = Len(got[t]) + Len(channel[t]) + 1
          BY <1>0, <2>0, <2>2, <4>5, <4>7, Streaming
        <5> QED
          BY <4>6, <5>1
      <4>8. ASSUME Unbroken(t)', \E q \in Codex!Procs : Busy(q, t)'
            PROVE  next[t] = Len(got'[t]) + Len(channel'[t]) + 2
        <5>1. next[t] = Len(got[t]) + Len(channel[t]) + 2
          BY <1>0, <2>0, <2>2, <4>5, <4>8, Streaming
        <5> QED
          BY <4>6, <5>1
      <4>9. UnderWay(t)'
        BY <1>3, <4>2, <4>3, <4>4, <4>7, <4>8 DEF UnderWay
      <4> QED
        BY <2>2, <3>3, <3>4, <3>5, <4>9 DEF InOrder
    <3>7. CASE turn'[t].pc # "streaming"
      BY <2>2, <3>3, <3>4, <3>5, <3>7 DEF InOrder, UnderWay
    <3> QED
      BY <3>6, <3>7
  <2> QED
    BY <2>1, <2>2
<1> QED
  BY <1>7, <1>8 DEF CodexInv

LEMMA NextCodexInv ==
  ASSUME CodexInv, [Codex!CodexNext]_codexVars
  PROVE  CodexInv'
<1>1. ASSUME UNCHANGED codexVars \/ \E p \in Codex!Procs : Codex!Crash(p)
      PROVE  CodexInv'
  <2>1. UNCHANGED <<proc, started, reader, turn, next, channel, active, buffered, got>>
    BY <1>1 DEF Codex!Crash, codexVars
  <2>2. CodexTyped'
    BY <2>1 DEF CodexInv, CodexTyped
  <2>3. ASSUME NEW u \in Turns
        PROVE  InOrder(u)'
    BY <2>1, TurnRests DEF CodexInv, Busy
  <2> QED
    BY <2>2, <2>3 DEF CodexInv
<1>2. ASSUME NEW t \in Turns, Codex!TurnStep(t) \/ Codex!CancelTurn(t)
      PROVE  CodexInv'
  BY <1>2, BoundaryKeeps, ResetKeeps, CallKeeps, RegisterKeeps, StreamKeeps, CancelKeeps
  DEF Codex!TurnStep
<1>3. ASSUME NEW p \in Codex!Procs, Codex!ReadLoop(p)
      PROVE  CodexInv'
  BY <1>3, RespondKeeps, NotifyKeeps, SendKeeps, EofKeeps DEF Codex!ReadLoop
<1> QED
  BY <1>1, <1>2, <1>3, RefreshKeeps DEF Codex!CodexNext

LEMMA CodexInvMeans ==
  ASSUME CodexInv
  PROVE  Codex!StreamInServerOrder /\ Codex!NoCallOnLostProcess
BY DEF CodexInv, CodexTyped, InOrder, ToldSoFar, OnCurrent,
       Codex!StreamInServerOrder, Codex!NoCallOnLostProcess, Codex!Pending

-----------------------------------------------------------------------------
\* One turn of the Claude adapter. The lines of the run are counted: the first
\* Ahead of them were handed to Core, the next are in parsed, the last in the pipe.
Given == Claude!Given
Utterances == Claude!Kinds \cup {"trouble", "done", "limited", "auth", "silence", "plan"}
Events == [kind : Utterances, n : Nat, run : 1..2]
Ahead == written - Len(pipe) - Len(parsed)

ClaudeTyped ==
  /\ process \in [state : {"running", "exited"}, code : 0..1, native : BOOLEAN, run : 1..2]
  /\ written \in Nat /\ Ahead \in Nat
  /\ pipe \in Seq(Events) /\ parsed \in Seq(Events) /\ out \in Seq(Events) /\ received \in Seq(Events)
  /\ parser \in {"reading", "done", "broken"} /\ tracker \in {"reading", "done"}
  /\ main \in {"parser", "report", "plan", "closed"}
  /\ said \in BOOLEAN /\ cancelled \in BOOLEAN

Counted ==
  /\ \A i \in DOMAIN parsed : parsed[i].n = Ahead + i /\ parsed[i].run = process.run
                              /\ parsed[i].kind \in Claude!Kinds
  /\ \A i \in DOMAIN pipe : pipe[i].n = Ahead + Len(parsed) + i /\ pipe[i].run = process.run
                            /\ pipe[i].kind \in Claude!Kinds

\* Who has finished, and what is then left behind.
Finished ==
  /\ process.state = "exited" /\ ~cancelled => written = MaxLines
  /\ parser = "done" /\ ~cancelled => pipe = <<>> /\ process.state = "exited"
  /\ tracker = "done" /\ ~cancelled => parsed = <<>> /\ parser # "reading"
  /\ main # "parser" => process.state = "exited" /\ parser # "reading" /\ tracker = "done"
  /\ process.run = 2 => ~process.native

\* What Core was given.
HandedOver == \A m \in 1..Ahead : \E j \in DOMAIN Given : Given[j].n = m /\ Given[j].run = process.run
NoGap ==
  \A i \in DOMAIN Given : \A m \in 1..Given[i].n :
     \E j \in 1..i : Given[j].n = m /\ Given[j].run = Given[i].run
DoneIsLast ==
  \A i \in DOMAIN Given : Given[i].kind = "done" =>
     /\ main \in {"plan", "closed"}
     /\ ~cancelled =>
          /\ \A m \in 1..MaxLines : \E j \in 1..i : Given[j].n = m /\ Given[j].run = Given[i].run
          /\ process.code = 0
OfTheRuns ==
  \A i \in DOMAIN Given : /\ Given[i].run <= process.run
                          /\ Given[i].kind = "text" => said /\ Given[i].run = process.run

ClaudeInv ==
  ClaudeTyped /\ Counted /\ Finished /\ HandedOver /\ NoGap /\ DoneIsLast /\ OfTheRuns

LEMMA Counts ==
  ASSUME ClaudeTyped
  PROVE  \E a, b, c \in Nat : /\ Ahead = a /\ Len(parsed) = b /\ Len(pipe) = c
                              /\ written = a + b + c
<1>1. /\ Len(parsed) \in Nat /\ Len(pipe) \in Nat /\ Ahead \in Nat /\ written \in Nat
      /\ Ahead = written - Len(pipe) - Len(parsed)
  BY DEF ClaudeTyped, Ahead
<1>2. \A w, b, c \in Nat : w - c - b \in Nat => w = (w - c - b) + b + c
  OBVIOUS
<1>3. written = Ahead + Len(parsed) + Len(pipe)
  BY <1>1, <1>2
<1> QED
  BY <1>1, <1>3

\* What Core is given grows by an event, or moves from the channel to Core.
LEMMA GivenGrows ==
  ASSUME received \in Seq(Events), out \in Seq(Events), NEW x \in Events,
         out' = Append(out, x), received' = received
  PROVE  /\ DOMAIN Given = 1..Len(Given) /\ Len(Given) \in Nat
         /\ DOMAIN Given' = 1..(Len(Given) + 1)
         /\ Given'[Len(Given) + 1] = x
         /\ \A i \in DOMAIN Given : i \in DOMAIN Given' /\ Given'[i] = Given[i]
BY DEF Given, Claude!Given

LEMMA GivenMoves ==
  ASSUME received \in Seq(Events), out \in Seq(Events), out # <<>>,
         received' = Append(received, Head(out)), out' = Tail(out)
  PROVE  DOMAIN Given' = DOMAIN Given /\ \A i \in DOMAIN Given : Given'[i] = Given[i]
BY DEF Given, Claude!Given

LEMMA GivenIsOfEvents ==
  ASSUME ClaudeTyped
  PROVE  \A i \in DOMAIN Given : Given[i] \in Events /\ i \in Nat /\ i > 0
BY DEF Given, Claude!Given, ClaudeTyped

\* What was given stays in order while the run, its verdict and the count are kept.
LEMMA GivenStays ==
  ASSUME ClaudeInv, DOMAIN Given' = DOMAIN Given, \A i \in DOMAIN Given : Given'[i] = Given[i],
         1..Ahead' \subseteq 1..Ahead \/ 1..Ahead' = {}, cancelled => cancelled',
         main' = main \/ (main = "parser" /\ main' \in {"plan", "report"}),
         process'.code = process.code \/ main = "parser",
         \/ process'.run = process.run /\ (said => said')
         \/ process'.run = 2 /\ ~said /\ Ahead' = 0
  PROVE  HandedOver' /\ NoGap' /\ DoneIsLast' /\ OfTheRuns'
<1>0. process.run \in 1..2 /\ \A i \in DOMAIN Given : Given[i] \in Events
  BY GivenIsOfEvents DEF ClaudeInv, ClaudeTyped
<1>1. NoGap'
  <2> SUFFICES ASSUME NEW i \in DOMAIN Given, NEW m \in 1..Given[i].n
               PROVE  \E j \in 1..i : Given'[j].n = m /\ Given'[j].run = Given'[i].run
    BY DEF NoGap
  <2>1. PICK j \in 1..i : Given[j].n = m /\ Given[j].run = Given[i].run
    BY DEF ClaudeInv, NoGap
  <2>2. j \in DOMAIN Given
    BY DEF Given, Claude!Given, ClaudeInv, ClaudeTyped
  <2> QED
    BY <2>1, <2>2
<1>2. HandedOver'
  <2>1. CASE 1..Ahead' = {}
    BY <2>1 DEF HandedOver
  <2>2. CASE 1..Ahead' \subseteq 1..Ahead /\ process'.run = process.run
    BY <2>2 DEF ClaudeInv, HandedOver
  <2>3. Ahead' = 0 => 1..Ahead' = {}
    OBVIOUS
  <2> QED
    BY <2>1, <2>2, <2>3
<1>3. DoneIsLast'
  <2> SUFFICES ASSUME NEW i \in DOMAIN Given, Given[i].kind = "done"
               PROVE  /\ main' \in {"plan", "closed"}
                      /\ ~cancelled' =>
                           /\ \A m \in 1..MaxLines : \E j \in 1..i :
                                Given'[j].n = m /\ Given'[j].run = Given'[i].run
                           /\ process'.code = 0
    BY DEF DoneIsLast
  <2>1. /\ main \in {"plan", "closed"}
        /\ ~cancelled =>
             /\ \A m \in 1..MaxLines : \E j \in 1..i : Given[j].n = m /\ Given[j].run = Given[i].run
             /\ process.code = 0
    BY DEF ClaudeInv, DoneIsLast
  <2>2. ASSUME NEW j \in 1..i
        PROVE  Given'[j] = Given[j]
    <3>1. j \in DOMAIN Given
      BY DEF Given, Claude!Given, ClaudeInv, ClaudeTyped
    <3> QED
      BY <3>1
  <2> QED
    BY <2>1, <2>2
<1>4. OfTheRuns'
  <2> SUFFICES ASSUME NEW i \in DOMAIN Given
               PROVE  /\ Given[i].run <= process'.run
                      /\ Given[i].kind = "text" => said' /\ Given[i].run = process'.run
    BY DEF OfTheRuns
  <2>1. Given[i].run <= process.run /\ (Given[i].kind = "text" => said /\ Given[i].run = process.run)
    BY DEF ClaudeInv, OfTheRuns
  <2>2. CASE process'.run = process.run /\ (said => said')
    BY <2>1, <2>2
  <2>3. CASE process'.run = 2 /\ ~said
    <3>1. Given[i].run \in 1..2
      BY <1>0 DEF Events
    <3> QED
      BY <1>0, <2>1, <2>3, <3>1
  <2> QED
    BY <2>2, <2>3
<1> QED
  BY <1>1, <1>2, <1>3, <1>4

\* An event is added: a line of the run, the next one, or a word on how it ended.
LEMMA GivenGains ==
  ASSUME ClaudeInv, NEW x \in Events, out' = Append(out, x), received' = received,
         process' = process, UNCHANGED cancelled, x.run = process.run,
         said => said', x.kind = "text" => said',
         main' = main \/ main' \in {"plan", "closed"},
         \/ Ahead' = Ahead + 1 /\ x.n = Ahead + 1 /\ x.kind # "done"
         \/ Ahead' = Ahead /\ x.n = 0,
         x.kind = "done" => /\ main' = "plan"
                            /\ ~cancelled => Ahead = MaxLines /\ process.code = 0
  PROVE  HandedOver' /\ NoGap' /\ DoneIsLast' /\ OfTheRuns'
<1> DEFINE k == Len(Given) + 1
<1>1. /\ DOMAIN Given = 1..Len(Given) /\ Len(Given) \in Nat
      /\ DOMAIN Given' = 1..k /\ Given'[k] = x
      /\ \A i \in DOMAIN Given : i \in DOMAIN Given' /\ Given'[i] = Given[i]
  BY GivenGrows DEF ClaudeInv, ClaudeTyped
<1>2. /\ \A i \in DOMAIN Given' : i \in DOMAIN Given \/ i = k
      /\ \A i \in DOMAIN Given : i \in 1..k /\ 1..i \subseteq DOMAIN Given
      /\ k \in 1..k
  BY <1>1
<1> HIDE DEF k
<1>3. Ahead \in Nat /\ \A m \in 1..Ahead : \E j \in DOMAIN Given : Given[j].n = m /\ Given[j].run = process.run
  BY DEF ClaudeInv, HandedOver, ClaudeTyped
<1>4. ASSUME NEW m \in 1..Ahead
      PROVE  \E j \in 1..k : Given'[j].n = m /\ Given'[j].run = process.run
  <2>1. PICK j \in DOMAIN Given : Given[j].n = m /\ Given[j].run = process.run
    BY <1>3
  <2>2. j \in 1..k /\ Given'[j] = Given[j]
    BY <1>1, <1>2
  <2> QED
    BY <2>1, <2>2
<1>5. HandedOver'
  <2> SUFFICES ASSUME NEW m \in 1..Ahead'
               PROVE  \E j \in DOMAIN Given' : Given'[j].n = m /\ Given'[j].run = process.run
    BY DEF HandedOver
  <2>1. m \in 1..Ahead \/ (m = Ahead + 1 /\ x.n = m)
    BY <1>3
  <2> QED
    BY <1>1, <1>2, <1>4, <2>1
<1>6. NoGap'
  <2> SUFFICES ASSUME NEW i \in DOMAIN Given', NEW m \in 1..Given'[i].n
               PROVE  \E j \in 1..i : Given'[j].n = m /\ Given'[j].run = Given'[i].run
    BY DEF NoGap
  <2>1. CASE i \in DOMAIN Given
    <3>1. m \in 1..Given[i].n /\ Given'[i] = Given[i]
      BY <1>1, <2>1
    <3>2. PICK j \in 1..i : Given[j].n = m /\ Given[j].run = Given[i].run
      BY <2>1, <3>1 DEF ClaudeInv, NoGap
    <3>3. Given'[j] = Given[j]
      BY <1>1, <1>2, <2>1
    <3> QED
      BY <3>1, <3>2, <3>3
  <2>2. CASE i = k
    <3>1. m \in 1..Ahead \/ m = x.n
      BY <1>1, <1>3, <2>2
    <3> QED
      BY <1>1, <1>2, <1>4, <2>2, <3>1
  <2> QED
    BY <1>2, <2>1, <2>2
<1>7. DoneIsLast'
  <2> SUFFICES ASSUME NEW i \in DOMAIN Given', Given'[i].kind = "done"
               PROVE  /\ main' \in {"plan", "closed"}
                      /\ ~cancelled =>
                           /\ \A m \in 1..MaxLines : \E j \in 1..i :
                                Given'[j].n = m /\ Given'[j].run = Given'[i].run
                           /\ process.code = 0
    BY DEF DoneIsLast
  <2>1. CASE i \in DOMAIN Given
    <3>1. Given[i].kind = "done" /\ \A j \in 1..i : Given'[j] = Given[j]
      BY <1>1, <1>2, <2>1
    <3>2. /\ main \in {"plan", "closed"}
          /\ ~cancelled =>
               /\ \A m \in 1..MaxLines : \E j \in 1..i : Given[j].n = m /\ Given[j].run = Given[i].run
               /\ process.code = 0
      BY <2>1, <3>1 DEF ClaudeInv, DoneIsLast
    <3> QED
      BY <1>1, <2>1, <3>1, <3>2
  <2>2. CASE i = k
    BY <1>1, <1>4, <2>2
  <2> QED
    BY <1>2, <2>1, <2>2
<1>8. OfTheRuns'
  <2> SUFFICES ASSUME NEW i \in DOMAIN Given'
               PROVE  /\ Given'[i].run <= process.run
                      /\ Given'[i].kind = "text" => said' /\ Given'[i].run = process.run
    BY DEF OfTheRuns
  <2>1. process.run <= process.run
    BY DEF ClaudeInv, ClaudeTyped
  <2>2. CASE i \in DOMAIN Given
    BY <1>1, <2>2 DEF ClaudeInv, OfTheRuns
  <2>3. CASE i = k
    BY <1>1, <2>1, <2>3
  <2> QED
    BY <1>2, <2>2, <2>3
<1> QED
  BY <1>5, <1>6, <1>7, <1>8

\* The lines behind those that were given are numbered on.
LEMMA InitClaudeInv ==
  ASSUME Claude!ClaudeInit
  PROVE  ClaudeInv
<1>1. /\ process.state = "running" /\ process.code = 0 /\ process.native \in BOOLEAN /\ process.run = 1
      /\ process \in [state : {"running", "exited"}, code : 0..1, native : BOOLEAN, run : 1..2]
  BY DEF Claude!ClaudeInit
<1>2. Ahead = 0
  <2>1. written = 0 /\ Len(pipe) = 0 /\ Len(parsed) = 0
    BY DEF Claude!ClaudeInit
  <2>2. 0 - 0 - 0 = 0
    OBVIOUS
  <2> QED
    BY <2>1, <2>2 DEF Ahead
<1>3. Given = <<>>
  BY DEF Claude!ClaudeInit, Given, Claude!Given
<1>4. ClaudeTyped
  <2>1. /\ written = 0 /\ pipe = <<>> /\ parser = "reading" /\ parsed = <<>>
        /\ tracker = "reading" /\ said = FALSE /\ out = <<>> /\ main = "parser"
        /\ cancelled = FALSE /\ received = <<>>
    BY DEF Claude!ClaudeInit
  <2>2. <<>> \in Seq(Events)
    OBVIOUS
  <2> QED
    BY <1>1, <1>2, <2>1, <2>2 DEF ClaudeTyped
<1>5. Counted /\ Finished
  BY <1>1 DEF Claude!ClaudeInit, Counted, Finished
<1>6. HandedOver /\ NoGap /\ DoneIsLast /\ OfTheRuns
  BY <1>2, <1>3 DEF HandedOver, NoGap, DoneIsLast, OfTheRuns
<1> QED
  BY <1>4, <1>5, <1>6 DEF ClaudeInv

LEMMA WriteKeeps ==
  ASSUME ClaudeInv, Claude!Write
  PROVE  ClaudeInv'
<1>1. PICK a, b, c \in Nat : Ahead = a /\ Len(parsed) = b /\ Len(pipe) = c /\ written = a + b + c
  BY Counts DEF ClaudeInv
<1>2. PICK kind \in Claude!Kinds : pipe' = Append(pipe, Claude!Line(kind))
  BY DEF Claude!Write
<1> DEFINE x == Claude!Line(kind)
<1>3. x \in Events /\ x.n = a + b + (c + 1) /\ x.run = process.run /\ x.kind \in Claude!Kinds
  <2>1. written + 1 \in Nat /\ written + 1 = a + b + (c + 1)
    BY <1>1
  <2> QED
    BY <2>1 DEF Claude!Line, ClaudeInv, ClaudeTyped, Events, Utterances, Claude!Kinds
<1> HIDE DEF x
<1>4. /\ written' = written + 1 /\ process.state = "running"
      /\ UNCHANGED <<process, parser, parsed, tracker, said, out, main, cancelled, received, planMode>>
  BY DEF Claude!Write
<1>5. /\ pipe' \in Seq(Events) /\ Len(pipe') = c + 1 /\ DOMAIN pipe' = 1..(c + 1)
      /\ pipe'[c + 1] = x /\ \A i \in 1..c : pipe'[i] = pipe[i]
      /\ DOMAIN pipe = 1..c
  <2>1. pipe \in Seq(Events) /\ DOMAIN pipe = 1..c /\ pipe' = Append(pipe, x)
    BY <1>1, <1>2 DEF ClaudeInv, ClaudeTyped, x
  <2> QED
    BY <1>1, <1>3, <2>1
<1>6. Ahead' = a
  <2>1. Ahead' = (a + b + c + 1) - (c + 1) - b
    BY <1>1, <1>4, <1>5 DEF Ahead
  <2> QED
    BY <1>1, <2>1
<1>7. ClaudeTyped'
  BY <1>1, <1>4, <1>5, <1>6 DEF ClaudeInv, ClaudeTyped
<1>8. Counted'
  <2>1. \A i \in DOMAIN parsed : parsed[i].n = a + i /\ parsed[i].run = process.run
                                 /\ parsed[i].kind \in Claude!Kinds
    BY <1>1 DEF ClaudeInv, Counted
  <2>2. \A i \in 1..c : pipe[i].n = a + b + i /\ pipe[i].run = process.run /\ pipe[i].kind \in Claude!Kinds
    BY <1>1, <1>5 DEF ClaudeInv, Counted
  <2>3. \A i \in 1..(c + 1) : i \in 1..c \/ i = c + 1
    OBVIOUS
  <2>4. \A i \in DOMAIN pipe' : pipe'[i].n = a + b + i /\ pipe'[i].run = process.run
                                /\ pipe'[i].kind \in Claude!Kinds
    BY <1>3, <1>5, <2>2, <2>3
  <2> QED
    BY <1>1, <1>4, <1>6, <2>1, <2>4 DEF Counted
<1>9. Finished'
  BY <1>4 DEF ClaudeInv, Finished
<1>10. HandedOver' /\ NoGap' /\ DoneIsLast' /\ OfTheRuns'
  BY <1>1, <1>4, <1>6, GivenStays DEF Given, Claude!Given
<1> QED
  BY <1>7, <1>8, <1>9, <1>10 DEF ClaudeInv

\* A line goes from the pipe to the tracker.
LEMMA ParseKeeps ==
  ASSUME ClaudeInv, Claude!Parse
  PROVE  ClaudeInv'
<1>1. PICK a, b, c \in Nat : Ahead = a /\ Len(parsed) = b /\ Len(pipe) = c /\ written = a + b + c
  BY Counts DEF ClaudeInv
<1>2. /\ UNCHANGED <<process, written, tracker, said, out, main, cancelled, received, planMode>>
      /\ parser = "reading" /\ pipe # <<>>
  BY DEF Claude!Parse
<1>3. Finished'
  BY DEF Claude!Parse, ClaudeInv, Finished, ClaudeTyped
<1>4. CASE UNCHANGED <<pipe, parsed>>
  <2>1. Ahead' = Ahead
    BY <1>2, <1>4 DEF Ahead
  <2>2. ClaudeTyped' /\ Counted'
    BY <1>2, <1>4, <2>1 DEF Claude!Parse, ClaudeInv, ClaudeTyped, Counted
  <2>3. HandedOver' /\ NoGap' /\ DoneIsLast' /\ OfTheRuns'
    BY <1>2, <2>1, GivenStays DEF Given, Claude!Given
  <2> QED
    BY <1>3, <2>2, <2>3 DEF ClaudeInv
<1>5. CASE parsed' = Append(parsed, Head(pipe)) /\ pipe' = Tail(pipe) /\ UNCHANGED parser
  <2>1. /\ pipe \in Seq(Events) /\ parsed \in Seq(Events)
    BY DEF ClaudeInv, ClaudeTyped
  <2>2. /\ c > 0 /\ DOMAIN pipe = 1..c /\ Head(pipe) = pipe[1] /\ pipe[1] \in Events
        /\ pipe' \in Seq(Events) /\ DOMAIN pipe' = 1..(c - 1) /\ Len(pipe') = c - 1
        /\ \A i \in 1..(c - 1) : pipe'[i] = pipe[i + 1]
    BY <1>1, <1>2, <1>5, <2>1
  <2>3. /\ DOMAIN parsed = 1..b /\ parsed' \in Seq(Events) /\ DOMAIN parsed' = 1..(b + 1)
        /\ Len(parsed') = b + 1 /\ parsed'[b + 1] = pipe[1]
        /\ \A i \in 1..b : parsed'[i] = parsed[i]
    BY <1>1, <1>5, <2>1, <2>2
  <2>4. Ahead' = a
    <3>1. Ahead' = (a + b + c) - (c - 1) - (b + 1)
      BY <1>1, <1>2, <2>2, <2>3 DEF Ahead
    <3> QED
      BY <1>1, <3>1
  <2>5. ClaudeTyped'
    BY <1>1, <1>2, <1>5, <2>2, <2>3, <2>4 DEF ClaudeInv, ClaudeTyped
  <2>6. \A i \in 1..b : parsed[i].n = a + i /\ parsed[i].run = process.run
                        /\ parsed[i].kind \in Claude!Kinds
    BY <1>1, <2>3 DEF ClaudeInv, Counted
  <2>7. \A i \in 1..c : pipe[i].n = a + b + i /\ pipe[i].run = process.run /\ pipe[i].kind \in Claude!Kinds
    BY <1>1, <2>2 DEF ClaudeInv, Counted
  <2>8. \A i \in 1..(b + 1) : i \in 1..b \/ i = b + 1
    OBVIOUS
  <2>9. 1 \in 1..c /\ a + b + 1 = a + (b + 1)
    BY <2>2
  <2>10. \A i \in 1..(b + 1) : parsed'[i].n = a + i /\ parsed'[i].run = process.run
                               /\ parsed'[i].kind \in Claude!Kinds
    <3> SUFFICES ASSUME NEW i \in 1..(b + 1)
                 PROVE  /\ parsed'[i].n = a + i /\ parsed'[i].run = process.run
                        /\ parsed'[i].kind \in Claude!Kinds
      OBVIOUS
    <3>1. CASE i \in 1..b
      BY <2>3, <2>6, <3>1
    <3>2. CASE i = b + 1
      <4>1. pipe[1].n = a + b + 1 /\ pipe[1].run = process.run /\ pipe[1].kind \in Claude!Kinds
        BY <2>7, <2>9
      <4> QED
        BY <2>3, <2>9, <3>2, <4>1
    <3> QED
      BY <2>8, <3>1, <3>2
  <2>11. \A i \in 1..(c - 1) : i + 1 \in 1..c /\ a + b + (i + 1) = a + (b + 1) + i
    OBVIOUS
  <2>12. \A i \in 1..(c - 1) : pipe'[i].n = a + (b + 1) + i /\ pipe'[i].run = process.run
                               /\ pipe'[i].kind \in Claude!Kinds
    BY <2>2, <2>7, <2>11
  <2>13. Counted'
    BY <1>2, <2>2, <2>3, <2>4, <2>10, <2>12 DEF Counted
  <2>14. HandedOver' /\ NoGap' /\ DoneIsLast' /\ OfTheRuns'
    BY <1>1, <1>2, <2>4, GivenStays DEF Given, Claude!Given
  <2> QED
    BY <1>3, <2>5, <2>13, <2>14 DEF ClaudeInv
<1> QED
  BY <1>4, <1>5 DEF Claude!Parse

\* A line goes from the parser's channel to Core's.
LEMMA TrackKeeps ==
  ASSUME ClaudeInv, Claude!Track
  PROVE  ClaudeInv'
<1>1. PICK a, b, c \in Nat : Ahead = a /\ Len(parsed) = b /\ Len(pipe) = c /\ written = a + b + c
  BY Counts DEF ClaudeInv
<1>2. /\ UNCHANGED <<process, written, pipe, parser, main, cancelled, received, planMode>>
      /\ tracker = "reading"
  BY DEF Claude!Track
<1>3. Finished'
  BY DEF Claude!Track, ClaudeInv, Finished, ClaudeTyped
<1>4. CASE UNCHANGED <<out, parsed, said>>
  <2>1. Ahead' = Ahead
    BY <1>2, <1>4 DEF Ahead
  <2>2. ClaudeTyped' /\ Counted'
    BY <1>2, <1>4, <2>1 DEF Claude!Track, ClaudeInv, ClaudeTyped, Counted
  <2>3. HandedOver' /\ NoGap' /\ DoneIsLast' /\ OfTheRuns'
    BY <1>2, <1>4, <2>1, GivenStays DEF Given, Claude!Given
  <2> QED
    BY <1>3, <2>2, <2>3 DEF ClaudeInv
<1>5. CASE /\ parsed # <<>> /\ out' = Append(out, Head(parsed)) /\ parsed' = Tail(parsed)
           /\ said' = (said \/ Head(parsed).kind = "text") /\ UNCHANGED tracker
  <2>1. parsed \in Seq(Events) /\ out \in Seq(Events)
    BY DEF ClaudeInv, ClaudeTyped
  <2>2. /\ b > 0 /\ DOMAIN parsed = 1..b /\ Head(parsed) = parsed[1] /\ parsed[1] \in Events
        /\ parsed' \in Seq(Events) /\ DOMAIN parsed' = 1..(b - 1) /\ Len(parsed') = b - 1
        /\ \A i \in 1..(b - 1) : parsed'[i] = parsed[i + 1]
    BY <1>1, <1>5, <2>1
  <2>3. Ahead' = a + 1
    <3>1. Ahead' = (a + b + c) - c - (b - 1)
      BY <1>1, <1>2, <2>2 DEF Ahead
    <3> QED
      BY <1>1, <3>1
  <2>4. ClaudeTyped'
    BY <1>1, <1>2, <1>5, <2>1, <2>2, <2>3 DEF ClaudeInv, ClaudeTyped
  <2>5. \A i \in 1..b : parsed[i].n = a + i /\ parsed[i].run = process.run
                        /\ parsed[i].kind \in Claude!Kinds
    BY <1>1, <2>2 DEF ClaudeInv, Counted
  <2>6. \A i \in 1..c : pipe[i].n = a + b + i /\ pipe[i].run = process.run /\ pipe[i].kind \in Claude!Kinds
    <3>1. DOMAIN pipe = 1..c
      BY <1>1 DEF ClaudeInv, ClaudeTyped
    <3> QED
      BY <1>1, <3>1 DEF ClaudeInv, Counted
  <2>7. \A i \in 1..(b - 1) : i + 1 \in 1..b /\ a + (i + 1) = (a + 1) + i
    OBVIOUS
  <2>8. \A i \in 1..(b - 1) : parsed'[i].n = (a + 1) + i /\ parsed'[i].run = process.run
                              /\ parsed'[i].kind \in Claude!Kinds
    BY <2>2, <2>5, <2>7
  <2>9. \A i \in 1..c : a + b + i = (a + 1) + (b - 1) + i
    OBVIOUS
  <2>10. \A i \in 1..c : pipe[i].n = (a + 1) + (b - 1) + i /\ pipe[i].run = process.run
                         /\ pipe[i].kind \in Claude!Kinds
    BY <2>6, <2>9
  <2>11. DOMAIN pipe = 1..c
    BY <1>1 DEF ClaudeInv, ClaudeTyped
  <2>12. Counted'
    BY <1>2, <2>2, <2>3, <2>8, <2>10, <2>11 DEF Counted
  <2>13. /\ parsed[1].n = a + 1 /\ parsed[1].run = process.run /\ parsed[1].kind # "done"
         /\ parsed[1].kind = "text" => said'
    <3>1. 1 \in 1..b
      BY <2>2
    <3>2. parsed[1].kind \in Claude!Kinds /\ parsed[1].n = a + 1 /\ parsed[1].run = process.run
      BY <2>5, <3>1
    <3>3. "done" \notin Claude!Kinds
      BY DEF Claude!Kinds
    <3> QED
      BY <1>5, <2>2, <3>2, <3>3
  <2>14. HandedOver' /\ NoGap' /\ DoneIsLast' /\ OfTheRuns'
    BY <1>1, <1>2, <1>5, <2>2, <2>3, <2>13, GivenGains
  <2> QED
    BY <1>3, <2>4, <2>12, <2>14 DEF ClaudeInv
<1> QED
  BY <1>4, <1>5 DEF Claude!Track

\* Core reads an event.
LEMMA ReceiveKeeps ==
  ASSUME ClaudeInv, Claude!Receive
  PROVE  ClaudeInv'
<1>1. /\ received' = Append(received, Head(out)) /\ out' = Tail(out) /\ out # <<>>
      /\ cancelled' = (Head(out).kind = "limited") /\ ~cancelled
      /\ UNCHANGED <<process, written, pipe, parser, parsed, tracker, said, main>>
  BY DEF Claude!Receive, Claude!Listening
<1>2. received \in Seq(Events) /\ out \in Seq(Events)
  BY DEF ClaudeInv, ClaudeTyped
<1>3. out' \in Seq(Events) /\ Head(out) \in Events
  BY <1>1, <1>2
<1>4. received' \in Seq(Events)
  BY <1>1, <1>2, <1>3
<1>5. Ahead' = Ahead
  BY <1>1 DEF Ahead
<1>6. ClaudeTyped' /\ Counted' /\ Finished'
  BY <1>1, <1>3, <1>4, <1>5 DEF ClaudeInv, ClaudeTyped, Counted, Finished
<1>7. DOMAIN Given' = DOMAIN Given /\ \A i \in DOMAIN Given : Given'[i] = Given[i]
  BY <1>1, <1>2, GivenMoves
<1>8. HandedOver' /\ NoGap' /\ DoneIsLast' /\ OfTheRuns'
  BY <1>1, <1>5, <1>7, GivenStays
<1> QED
  BY <1>6, <1>8 DEF ClaudeInv

\* The steps that neither read a line nor hand an event over.
LEMMA IdleKeeps ==
  ASSUME ClaudeInv, \/ Claude!Exit \/ Claude!ParseEnds \/ Claude!CancelAttempt
                    \/ UNCHANGED claudeVars
  PROVE  ClaudeInv'
<1>1. /\ UNCHANGED <<written, pipe, parsed, tracker, said, out, main, received>>
      /\ process' = process \/ (process.state = "running" /\ Claude!Exit)
      /\ cancelled => cancelled'
  BY DEF Claude!Exit, Claude!ParseEnds, Claude!CancelAttempt, claudeVars
<1>2. Ahead' = Ahead
  BY <1>1 DEF Ahead
<1>3. /\ process' \in [state : {"running", "exited"}, code : 0..1, native : BOOLEAN, run : 1..2]
      /\ process'.run = process.run /\ process'.native = process.native
      /\ process.state = "exited" => process' = process
  <2>1. CASE Claude!Exit
    <3>1. PICK d \in 0..1 : process' = [process EXCEPT !.state = "exited", !.code = d]
      BY <2>1 DEF Claude!Exit
    <3> QED
      BY <2>1, <3>1 DEF Claude!Exit, ClaudeInv, ClaudeTyped
  <2>2. CASE process' = process
    BY <2>2 DEF ClaudeInv, ClaudeTyped
  <2> QED
    BY <1>1, <2>1, <2>2
<1>4. parser' \in {"reading", "done", "broken"} /\ cancelled' \in BOOLEAN
  BY DEF Claude!Exit, Claude!ParseEnds, Claude!CancelAttempt, claudeVars, ClaudeInv, ClaudeTyped
<1>5. ClaudeTyped' /\ Counted'
  BY <1>1, <1>2, <1>3, <1>4 DEF ClaudeInv, ClaudeTyped, Counted
<1>6. Finished'
  <2>1. CASE Claude!Exit
    BY <1>3, <2>1 DEF Claude!Exit, ClaudeInv, ClaudeTyped, Finished
  <2>2. CASE Claude!ParseEnds \/ Claude!CancelAttempt \/ UNCHANGED claudeVars
    BY <2>2 DEF Claude!ParseEnds, Claude!CancelAttempt, claudeVars, ClaudeInv, ClaudeTyped, Finished
  <2> QED
    BY <2>1, <2>2
<1>7. process'.code = process.code \/ main = "parser"
  BY <1>1, <1>3 DEF ClaudeInv, Finished
<1>8. HandedOver' /\ NoGap' /\ DoneIsLast' /\ OfTheRuns'
  BY <1>1, <1>2, <1>3, <1>7, GivenStays DEF Given, Claude!Given
<1> QED
  BY <1>5, <1>6, <1>8 DEF ClaudeInv

\* The process is reaped: a second run starts from nothing, or the verdict is next.
LEMMA ReapKeeps ==
  ASSUME ClaudeInv, Claude!Reap
  PROVE  ClaudeInv'
<1>1. /\ main = "parser" /\ parser # "reading" /\ tracker = "done" /\ process.state = "exited"
      /\ UNCHANGED <<out, cancelled, received>>
  BY DEF Claude!Reap, Claude!Drained
<1>2. CASE /\ Claude!Retry
           /\ process' = [state |-> "running", code |-> 0, native |-> FALSE, run |-> 2]
           /\ written' = 0 /\ pipe' = <<>> /\ parser' = "reading" /\ parsed' = <<>>
           /\ tracker' = "reading" /\ said' = FALSE /\ UNCHANGED main
  <2>1. Ahead' = 0
    <3>1. Len(pipe') = 0 /\ Len(parsed') = 0 /\ 0 - 0 - 0 = 0
      BY <1>2
    <3> QED
      BY <1>2, <3>1 DEF Ahead
  <2>2. ClaudeTyped'
    <3>0. /\ process' = [state |-> "running", code |-> 0, native |-> FALSE, run |-> 2]
          /\ 0 \in 0..1 /\ 2 \in 1..2
      BY <1>2
    <3>1. /\ process' \in [state : {"running", "exited"}, code : 0..1, native : BOOLEAN, run : 1..2]
          /\ written' \in Nat /\ Ahead' \in Nat /\ parser' = "reading" /\ tracker' = "reading"
          /\ said' \in BOOLEAN
      <4>1. process' \in [state : {"running", "exited"}, code : 0..1, native : BOOLEAN, run : 1..2]
        BY <3>0
      <4> QED
        BY <1>2, <2>1, <4>1
    <3>2. pipe' \in Seq(Events) /\ parsed' \in Seq(Events)
      BY <1>2
    <3>3. /\ out \in Seq(Events) /\ received \in Seq(Events) /\ main' = main /\ cancelled \in BOOLEAN
          /\ main \in {"parser", "report", "plan", "closed"}
      BY <1>2 DEF ClaudeInv, ClaudeTyped
    <3> QED
      BY <1>1, <3>1, <3>2, <3>3 DEF ClaudeTyped
  <2>3. Counted' /\ Finished'
    BY <1>1, <1>2 DEF Counted, Finished
  <2>4. ~said /\ process'.run = 2 /\ 1..Ahead' = {}
    BY <1>2, <2>1 DEF Claude!Retry
  <2>5. HandedOver' /\ NoGap' /\ DoneIsLast' /\ OfTheRuns'
    BY <1>1, <1>2, <2>1, <2>4, GivenStays DEF Given, Claude!Given
  <2> QED
    BY <2>2, <2>3, <2>5 DEF ClaudeInv
<1>3. CASE /\ main' = IF cancelled THEN "plan" ELSE "report"
           /\ UNCHANGED <<process, written, pipe, parser, parsed, tracker, said>>
  <2>1. Ahead' = Ahead
    BY <1>3 DEF Ahead
  <2>2. ClaudeTyped' /\ Counted' /\ Finished'
    BY <1>1, <1>3, <2>1 DEF ClaudeInv, ClaudeTyped, Counted, Finished
  <2>3. HandedOver' /\ NoGap' /\ DoneIsLast' /\ OfTheRuns'
    BY <1>1, <1>3, <2>1, GivenStays DEF Given, Claude!Given
  <2> QED
    BY <2>2, <2>3 DEF ClaudeInv
<1> QED
  BY <1>2, <1>3 DEF Claude!Reap

\* The word on how the turn ended, and the proposal of a plan turn.
LEMMA VerdictKeeps ==
  ASSUME ClaudeInv, Claude!Report \/ Claude!Propose
  PROVE  ClaudeInv'
<1>1. /\ UNCHANGED <<process, written, pipe, parser, parsed, tracker, said, cancelled, received>>
      /\ main \in {"report", "plan"} /\ main' \in {"plan", "closed"}
      /\ main = "report" => main' = "plan"
  BY DEF Claude!Report, Claude!Propose
<1>2. Ahead' = Ahead
  BY <1>1 DEF Ahead
<1>3. Counted' /\ Finished'
  BY <1>1, <1>2 DEF ClaudeInv, Counted, Finished
<1>4. CASE UNCHANGED out
  <2>1. ClaudeTyped'
    BY <1>1, <1>2, <1>4 DEF ClaudeInv, ClaudeTyped
  <2>2. \A i \in DOMAIN Given : Given'[i] = Given[i]
    BY <1>1, <1>4 DEF Given, Claude!Given
  <2>3. DOMAIN Given' = DOMAIN Given
    BY <1>1, <1>4 DEF Given, Claude!Given
  <2>4. HandedOver' /\ NoGap' /\ OfTheRuns'
    BY <1>1, <1>2, <1>4, <2>2, <2>3 DEF ClaudeInv, HandedOver, NoGap, OfTheRuns, Given, Claude!Given
  <2>5. DoneIsLast'
    BY <1>1, <1>4, <2>2, <2>3 DEF ClaudeInv, DoneIsLast, Given, Claude!Given
  <2> QED
    BY <1>3, <2>1, <2>4, <2>5 DEF ClaudeInv
<1>5. ASSUME NEW kind, out' = Append(out, Claude!Word(kind)),
             \/ kind = "plan"
             \/ main = "report" /\ kind \in Claude!Verdict
      PROVE  ClaudeInv'
  <2> DEFINE x == Claude!Word(kind)
  <2>1. kind \in Utterances /\ kind # "text"
    BY <1>5 DEF Claude!Verdict, Utterances, Claude!Kinds
  <2>2. x \in Events /\ x.n = 0 /\ x.run = process.run /\ x.kind = kind
    BY <2>1 DEF Claude!Word, Events, ClaudeInv, ClaudeTyped
  <2>3. out' = Append(out, x)
    BY <1>5
  <2> HIDE DEF x
  <2>4. ClaudeTyped'
    <3>1. out' \in Seq(Events)
      BY <2>2, <2>3 DEF ClaudeInv, ClaudeTyped
    <3> QED
      BY <1>1, <1>2, <3>1 DEF ClaudeInv, ClaudeTyped
  <2>5. kind = "done" => /\ main = "report" /\ parser # "broken" /\ process.code = 0
    BY <1>5 DEF Claude!Verdict
  <2>6. kind = "done" /\ ~cancelled => Ahead = MaxLines
    <3> SUFFICES ASSUME kind = "done", ~cancelled
                 PROVE  Ahead = MaxLines
      OBVIOUS
    <3>1. parser = "done" /\ tracker = "done" /\ process.state = "exited"
      BY <2>5 DEF ClaudeInv, ClaudeTyped, Finished
    <3>2. pipe = <<>> /\ parsed = <<>> /\ written = MaxLines
      BY <3>1 DEF ClaudeInv, Finished
    <3>3. Len(pipe) = 0 /\ Len(parsed) = 0
      BY <3>2
    <3>4. \A w \in Nat : w - 0 - 0 = w
      OBVIOUS
    <3>5. written \in Nat
      BY DEF ClaudeInv, ClaudeTyped
    <3> QED
      BY <3>2, <3>3, <3>4, <3>5 DEF Ahead
  <2>7. HandedOver' /\ NoGap' /\ DoneIsLast' /\ OfTheRuns'
    BY <1>1, <1>2, <2>1, <2>2, <2>3, <2>5, <2>6, GivenGains
  <2> QED
    BY <1>3, <2>4, <2>7 DEF ClaudeInv
<1>6. CASE Claude!Report
  BY <1>4, <1>5, <1>6 DEF Claude!Report
<1>7. CASE Claude!Propose
  BY <1>4, <1>5, <1>7 DEF Claude!Propose
<1> QED
  BY <1>6, <1>7

LEMMA NextClaudeInv ==
  ASSUME ClaudeInv, [Claude!ClaudeNext]_claudeVars
  PROVE  ClaudeInv'
BY WriteKeeps, ParseKeeps, TrackKeeps, ReceiveKeeps, IdleKeeps, ReapKeeps, VerdictKeeps
DEF Claude!ClaudeNext, Claude!ClaudeProgress

LEMMA ClaudeInvMeans ==
  ASSUME ClaudeInv
  PROVE  Claude!OutputBeforeVerdict /\ Claude!NoRerunAfterSpeech
<1>1. \A i \in DOMAIN Given : Given[i] \in Events /\ i \in Nat
  BY GivenIsOfEvents DEF ClaudeInv
<1>2. Claude!OutputBeforeVerdict
  BY DEF ClaudeInv, NoGap, DoneIsLast, Given, Claude!OutputBeforeVerdict
<1>3. Claude!NoRerunAfterSpeech
  <2> SUFFICES ASSUME NEW i \in DOMAIN Given, NEW j \in DOMAIN Given, Given[j].run = 2,
                      Given[i].run = 1, Given[i].kind = "text"
               PROVE  FALSE
    BY DEF Claude!NoRerunAfterSpeech, Given
  <2>1. process.run = 1 /\ 2 <= process.run
    BY DEF ClaudeInv, OfTheRuns
  <2> QED
    BY <2>1
<1> QED
  BY <1>2, <1>3

-----------------------------------------------------------------------------
\* One Codex turn. Of each kind of notification, what streamTurn has taken and
\* what is still in the queue add up to what the app-server said.
Methods == {"delta", "usage", "agent", "started", "completed", "end"}
Says == [method : Methods,
         of : OneTurn!Tools \cup OneTurn!AgentStates \cup {"-", "completed", "error"}, number : Nat]
Servers == [note : Nat, requests : Nat, repeats : Nat, agent : OneTurn!AgentStates,
            tools : [OneTurn!Tools -> {"none", "started", "completed"}],
            ends : {"no", "completed", "error"}]
Tracks == [streamed : BOOLEAN, item : Nat, total : Nat, agent : OneTurn!AgentStates,
           at : {"reading", "closed"}]
Outs == [notes : Seq(Nat), billed : Nat, audited : Seq(OneTurn!Tools), cards : Seq(OneTurn!AgentStates)]

TurnTyped ==
  /\ streams \in BOOLEAN /\ context \in {"live", "done"}
  /\ queue \in Seq(Says) /\ server \in Servers /\ track \in Tracks /\ sent \in Outs

\* The numbers of the notifications of a method in q run up to hi, those after
\* lo are all there; deltas are told once, usage may be repeated.
Covers(q, method, lo, hi) ==
  /\ \A i \in DOMAIN q : q[i].method = method => q[i].number <= hi
  /\ \A i, j \in DOMAIN q : q[i].method = method /\ q[j].method = method /\ i < j =>
                              q[i].number <= q[j].number
  /\ \A m \in Nat : lo < m /\ m <= hi => \E i \in DOMAIN q : q[i].method = method /\ q[i].number = m
NoRepeat(q, method, lo) ==
  /\ \A i \in DOMAIN q : q[i].method = method => lo < q[i].number
  /\ \A i, j \in DOMAIN q : q[i].method = method /\ q[j].method = method /\ i < j =>
                              q[i].number < q[j].number

\* The notification that has tool t audited.
Audits(n, t) ==
  n.method \in {"started", "completed"} /\ n.of = t /\ ((t \in Patches) = (n.method = "completed"))
Due(t) == IF t \in Patches THEN server.tools[t] = "completed" ELSE server.tools[t] # "none"
\* It is in the queue or in the audit, once.
AuditedOnce(q, audited, t) ==
  /\ \A i, j \in DOMAIN q : Audits(q[i], t) /\ Audits(q[j], t) => i = j
  /\ \A i, j \in DOMAIN audited : audited[i] = t /\ audited[j] = t => i = j
  /\ \A i \in DOMAIN q, j \in DOMAIN audited : Audits(q[i], t) => audited[j] # t
IsAudited(q, audited, t) ==
  (\E i \in DOMAIN q : Audits(q[i], t)) \/ (\E j \in DOMAIN audited : audited[j] = t)

\* The last word on the subagent is the state it is in.
LastWord(q, has, is) ==
  /\ \A i \in DOMAIN q : q[i].method = "agent" => q[i].of \in OneTurn!AgentStates \ {"none"}
  /\ \A i \in DOMAIN q : q[i].method = "agent" /\ (\A j \in DOMAIN q : i < j => q[j].method # "agent") =>
                           q[i].of = is
  /\ (\A i \in DOMAIN q : q[i].method # "agent") => has = is
Carded(cards, has) ==
  IF has = "none" THEN cards = <<>> ELSE cards # <<>> /\ cards[Len(cards)] = has

\* The end of the turn is the last thing said.
EndsLast(q, ends) ==
  /\ \A i \in DOMAIN q : q[i].method = "end" => i = Len(q) /\ q[i].of = ends
  /\ ends # "no" => q # <<>> /\ q[Len(q)].method = "end"
  /\ ends = "no" => \A i \in DOMAIN q : q[i].method # "end"

NotesTold ==
  /\ \A i \in DOMAIN sent.notes : sent.notes[i] = i
  /\ IF streams THEN /\ Covers(queue, "delta", Len(sent.notes), server.note)
                     /\ NoRepeat(queue, "delta", Len(sent.notes))
                     /\ Len(sent.notes) <= server.note
     ELSE sent.notes = <<>> /\ \A i \in DOMAIN queue : queue[i].method # "delta"
  /\ track.streamed <=> sent.notes # <<>>
BillTold == Covers(queue, "usage", track.total, server.requests) /\ sent.billed = track.total
                                                              /\ track.total <= server.requests
ToolsTold ==
  /\ \A i \in DOMAIN queue : queue[i].method \in {"started", "completed"} => queue[i].of \in OneTurn!Tools
  /\ \A t \in OneTurn!Tools : /\ AuditedOnce(queue, sent.audited, t)
                              /\ IsAudited(queue, sent.audited, t) <=> Due(t)
AgentTold == LastWord(queue, track.agent, server.agent) /\ Carded(sent.cards, track.agent)
EndTold ==
  /\ EndsLast(queue, server.ends)
  /\ server.ends = "completed" => \A t \in OneTurn!Tools : server.tools[t] # "started"

OneTurnInv ==
  /\ TurnTyped
  /\ context = "live" /\ track.at = "reading" => NotesTold /\ BillTold /\ ToolsTold /\ AgentTold /\ EndTold
  /\ context = "live" /\ track.at = "closed" => server.ends # "no" /\ TurnIsToldOnce

\* One element more at the end, one less at the front.
LEMMA Appending ==
  ASSUME NEW S, NEW q \in Seq(S), NEW x \in S
  PROVE  /\ Append(q, x) \in Seq(S) /\ Append(q, x)[Len(q) + 1] = x
         /\ Len(Append(q, x)) = Len(q) + 1 /\ Append(q, x) # <<>>
         /\ Len(q) + 1 \in DOMAIN Append(q, x)
         /\ \A i \in DOMAIN q : i \in DOMAIN Append(q, x) /\ Append(q, x)[i] = q[i] /\ i < Len(q) + 1
         /\ \A i \in DOMAIN Append(q, x) : i \in DOMAIN q \/ i = Len(q) + 1
         /\ \A i, j \in DOMAIN Append(q, x) : i < j => i \in DOMAIN q
OBVIOUS

LEMMA Taking ==
  ASSUME NEW S, NEW q \in Seq(S), q # <<>>
  PROVE  /\ Head(q) = q[1] /\ q[1] \in S /\ 1 \in DOMAIN q
         /\ Tail(q) \in Seq(S) /\ Len(Tail(q)) = Len(q) - 1
         /\ \A i \in DOMAIN Tail(q) : /\ i + 1 \in DOMAIN q /\ Tail(q)[i] = q[i + 1]
                                      /\ i + 1 # 1 /\ 1 < i + 1 /\ i \in Nat
         /\ \A i \in DOMAIN q : i # 1 => \E k \in DOMAIN Tail(q) : i = k + 1
         /\ \A i, j \in DOMAIN Tail(q) : i < j <=> i + 1 < j + 1
<1>1. /\ Head(q) = q[1] /\ Tail(q) \in Seq(S) /\ Len(Tail(q)) = Len(q) - 1 /\ Len(q) \in Nat \ {0}
      /\ DOMAIN q = 1..Len(q) /\ DOMAIN Tail(q) = 1..(Len(q) - 1)
      /\ \A i \in 1..(Len(q) - 1) : Tail(q)[i] = q[i + 1]
  OBVIOUS
<1>2. /\ 1 \in 1..Len(q) /\ q[1] \in S
  BY <1>1
<1>3. \A n \in Nat \ {0} : \A i \in 1..(n - 1) : i + 1 \in 1..n /\ i + 1 # 1 /\ 1 < i + 1 /\ i \in Nat
  OBVIOUS
<1>4. ASSUME NEW i \in DOMAIN q, i # 1
      PROVE  \E k \in DOMAIN Tail(q) : i = k + 1
  <2>1. \A n \in Nat \ {0} : \A k \in 1..n : k # 1 => k - 1 \in 1..(n - 1) /\ k = (k - 1) + 1
    OBVIOUS
  <2>2. i - 1 \in DOMAIN Tail(q) /\ i = (i - 1) + 1
    BY <1>1, <1>4, <2>1
  <2> QED
    BY <2>2
<1>5. \A n \in Nat : \A i, j \in 1..(n - 1) : i < j <=> i + 1 < j + 1
  OBVIOUS
<1> QED
  BY <1>1, <1>2, <1>3, <1>4, <1>5

LEMMA SaysAll ==
  ASSUME NEW q \in Seq(Says)
  PROVE  \A i \in DOMAIN q : /\ q[i] \in Says /\ q[i].number \in Nat /\ q[i].method \in Methods
                             /\ i \in Nat /\ i > 0
<1>1. \A n \in Says : n.number \in Nat /\ n.method \in Methods
  BY DEF Says
<1>2. \A i \in DOMAIN q : q[i] \in Says /\ i \in Nat /\ i > 0
  OBVIOUS
<1> QED
  BY <1>1, <1>2

\* Numbers.
LEMMA CoversAppend ==
  ASSUME NEW q \in Seq(Says), NEW x \in Says, NEW method, NEW lo \in Nat, NEW hi \in Nat,
         Covers(q, method, lo, hi)
  PROVE  /\ x.method # method => Covers(Append(q, x), method, lo, hi)
         /\ x.method = method /\ x.number = hi /\ lo < hi => Covers(Append(q, x), method, lo, hi)
         /\ x.method = method /\ x.number = hi /\ lo >= hi => Covers(Append(q, x), method, lo, hi)
         /\ x.method = method /\ x.number = hi + 1 => Covers(Append(q, x), method, lo, hi + 1)
<1> DEFINE r == Append(q, x)
           k == Len(q) + 1
<1>1. /\ r[k] = x /\ k \in DOMAIN r
      /\ \A i \in DOMAIN q : i \in DOMAIN r /\ r[i] = q[i]
      /\ \A i \in DOMAIN r : i \in DOMAIN q \/ i = k
      /\ \A i, j \in DOMAIN r : i < j => i \in DOMAIN q
  BY Appending
<1>2. \A i \in DOMAIN q : q[i].number \in Nat
  BY SaysAll
<1> HIDE DEF r, k
<1>3. /\ \A i \in DOMAIN q : q[i].method = method => q[i].number <= hi
      /\ \A i, j \in DOMAIN q : q[i].method = method /\ q[j].method = method /\ i < j =>
                                  q[i].number <= q[j].number
      /\ \A m \in Nat : lo < m /\ m <= hi => \E i \in DOMAIN q : q[i].method = method /\ q[i].number = m
  BY DEF Covers
<1>4. ASSUME NEW top \in {hi, hi + 1}, x.method = method => x.number = top,
             x.method # method => top = hi
      PROVE  Covers(r, method, lo, top)
  <2>1. ASSUME NEW i \in DOMAIN r, r[i].method = method
        PROVE  r[i].number <= top
    <3>1. CASE i \in DOMAIN q
      BY <1>1, <1>2, <1>3, <1>4, <2>1, <3>1
    <3>2. CASE i = k
      BY <1>1, <1>4, <2>1, <3>2
    <3> QED
      BY <1>1, <3>1, <3>2
  <2>2. ASSUME NEW i \in DOMAIN r, NEW j \in DOMAIN r, r[i].method = method, r[j].method = method, i < j
        PROVE  r[i].number <= r[j].number
    <3>1. i \in DOMAIN q /\ r[i] = q[i]
      BY <1>1, <2>2
    <3>2. CASE j \in DOMAIN q
      BY <1>1, <1>3, <2>2, <3>1, <3>2
    <3>3. CASE j = k
      BY <1>1, <1>2, <1>3, <1>4, <2>2, <3>1, <3>3
    <3> QED
      BY <1>1, <3>2, <3>3
  <2>3. ASSUME NEW m \in Nat, lo < m, m <= top
        PROVE  \E i \in DOMAIN r : r[i].method = method /\ r[i].number = m
    <3>1. CASE m <= hi
      BY <1>1, <1>3, <2>3, <3>1
    <3>2. CASE m = hi + 1
      BY <1>1, <1>4, <2>3, <3>2
    <3> QED
      BY <2>3, <3>1, <3>2
  <2> QED
    BY <2>1, <2>2, <2>3 DEF Covers
<1> QED
  BY <1>4 DEF r

LEMMA CoversTail ==
  ASSUME NEW q \in Seq(Says), q # <<>>, NEW method, NEW lo \in Nat, NEW hi \in Nat,
         Covers(q, method, lo, hi)
  PROVE  /\ Head(q).method # method => Covers(Tail(q), method, lo, hi)
         /\ Head(q).method = method =>
              /\ Head(q).number <= hi
              /\ Head(q).number <= lo => Covers(Tail(q), method, lo, hi)
              /\ Head(q).number > lo => Head(q).number = lo + 1 /\ Covers(Tail(q), method, lo + 1, hi)
<1> DEFINE r == Tail(q)
           x == q[1]
<1>1. /\ Head(q) = x /\ x \in Says /\ 1 \in DOMAIN q
      /\ \A i \in DOMAIN r : i + 1 \in DOMAIN q /\ r[i] = q[i + 1] /\ 1 < i + 1
      /\ \A i \in DOMAIN q : i # 1 => \E k \in DOMAIN r : i = k + 1
      /\ \A i, j \in DOMAIN r : i < j <=> i + 1 < j + 1
  BY Taking
<1>2. /\ \A i \in DOMAIN q : q[i].number \in Nat
      /\ \A i \in DOMAIN q : i # 1 => 1 < i
  BY SaysAll
<1>3. /\ \A i \in DOMAIN q : q[i].method = method => q[i].number <= hi
      /\ \A i, j \in DOMAIN q : q[i].method = method /\ q[j].method = method /\ i < j =>
                                  q[i].number <= q[j].number
      /\ \A m \in Nat : lo < m /\ m <= hi => \E i \in DOMAIN q : q[i].method = method /\ q[i].number = m
  BY DEF Covers
<1> HIDE DEF r
<1>4. ASSUME NEW low \in Nat, lo <= low,
             \A m \in Nat : low < m /\ m <= hi => ~(x.method = method /\ x.number = m)
      PROVE  Covers(r, method, low, hi)
  <2>1. \A i \in DOMAIN r : r[i].method = method => r[i].number <= hi
    BY <1>1, <1>3
  <2>2. \A i, j \in DOMAIN r : r[i].method = method /\ r[j].method = method /\ i < j =>
                                 r[i].number <= r[j].number
    BY <1>1, <1>3
  <2>3. ASSUME NEW m \in Nat, low < m, m <= hi
        PROVE  \E i \in DOMAIN r : r[i].method = method /\ r[i].number = m
    <3>1. PICK i \in DOMAIN q : q[i].method = method /\ q[i].number = m
      BY <1>3, <1>4, <2>3
    <3>2. i # 1
      BY <1>4, <2>3, <3>1
    <3> QED
      BY <1>1, <3>1, <3>2
  <2> QED
    BY <2>1, <2>2, <2>3 DEF Covers
<1>5. CASE x.method # method
  BY <1>1, <1>4, <1>5 DEF r
<1>6. CASE x.method = method /\ x.number <= lo
  BY <1>1, <1>2, <1>3, <1>4, <1>6 DEF r
<1>7. CASE x.method = method /\ x.number > lo
  <2>1. x.number <= hi /\ x.number \in Nat
    BY <1>1, <1>2, <1>3, <1>7
  <2>2. lo < lo + 1 /\ lo + 1 <= hi /\ lo + 1 \in Nat
    BY <1>7, <2>1
  <2>3. PICK i \in DOMAIN q : q[i].method = method /\ q[i].number = lo + 1
    BY <1>3, <2>2
  <2>4. x.number <= lo + 1
    <3>1. CASE i = 1
      BY <2>3, <3>1
    <3>2. CASE i # 1
      BY <1>1, <1>2, <1>3, <1>7, <2>3, <3>2
    <3> QED
      BY <3>1, <3>2
  <2>5. x.number = lo + 1
    BY <1>7, <2>1, <2>4
  <2>6. Covers(r, method, lo + 1, hi)
    BY <1>4, <2>2, <2>5
  <2>7. ~(x.number <= lo)
    BY <1>7, <2>1
  <2> QED
    BY <1>1, <1>7, <2>1, <2>5, <2>6, <2>7 DEF r
<1> QED
  BY <1>1, <1>2, <1>5, <1>6, <1>7

LEMMA NoRepeatAppend ==
  ASSUME NEW q \in Seq(Says), NEW x \in Says, NEW method, NEW lo \in Nat, NEW hi \in Nat,
         NoRepeat(q, method, lo), Covers(q, method, lo, hi), lo <= hi
  PROVE  /\ x.method # method => NoRepeat(Append(q, x), method, lo)
         /\ x.method = method /\ x.number = hi + 1 => NoRepeat(Append(q, x), method, lo)
<1> DEFINE r == Append(q, x)
           k == Len(q) + 1
<1>1. /\ r[k] = x /\ k \in DOMAIN r
      /\ \A i \in DOMAIN q : i \in DOMAIN r /\ r[i] = q[i]
      /\ \A i \in DOMAIN r : i \in DOMAIN q \/ i = k
      /\ \A i, j \in DOMAIN r : i < j => i \in DOMAIN q
  BY Appending
<1>2. \A i \in DOMAIN q : q[i].number \in Nat
  BY SaysAll
<1> HIDE DEF r, k
<1>3. /\ \A i \in DOMAIN q : q[i].method = method => lo < q[i].number /\ q[i].number <= hi
      /\ \A i, j \in DOMAIN q : q[i].method = method /\ q[j].method = method /\ i < j =>
                                  q[i].number < q[j].number
  BY DEF Covers, NoRepeat
<1>4. ASSUME x.method = method => x.number = hi + 1
      PROVE  NoRepeat(r, method, lo)
  <2>1. ASSUME NEW i \in DOMAIN r, r[i].method = method
        PROVE  lo < r[i].number
    BY <1>1, <1>3, <1>4, <2>1
  <2>2. ASSUME NEW i \in DOMAIN r, NEW j \in DOMAIN r, r[i].method = method, r[j].method = method, i < j
        PROVE  r[i].number < r[j].number
    <3>1. i \in DOMAIN q /\ r[i] = q[i]
      BY <1>1, <2>2
    <3>2. CASE j \in DOMAIN q
      BY <1>1, <1>3, <2>2, <3>1, <3>2
    <3>3. CASE j = k
      BY <1>1, <1>2, <1>3, <1>4, <2>2, <3>1, <3>3
    <3> QED
      BY <1>1, <3>2, <3>3
  <2> QED
    BY <2>1, <2>2 DEF NoRepeat
<1> QED
  BY <1>4 DEF r

LEMMA NoRepeatTail ==
  ASSUME NEW q \in Seq(Says), q # <<>>, NEW method, NEW lo \in Nat, NoRepeat(q, method, lo)
  PROVE  /\ Head(q).method # method => NoRepeat(Tail(q), method, lo)
         /\ Head(q).method = method => lo < Head(q).number
         /\ Head(q).method = method /\ Head(q).number = lo + 1 => NoRepeat(Tail(q), method, lo + 1)
<1> DEFINE r == Tail(q)
           x == q[1]
<1>1. /\ Head(q) = x /\ x \in Says /\ 1 \in DOMAIN q
      /\ \A i \in DOMAIN r : i + 1 \in DOMAIN q /\ r[i] = q[i + 1] /\ 1 < i + 1
      /\ \A i, j \in DOMAIN r : i < j <=> i + 1 < j + 1
  BY Taking
<1> HIDE DEF r
<1>2. /\ \A i \in DOMAIN q : q[i].method = method => lo < q[i].number
      /\ \A i, j \in DOMAIN q : q[i].method = method /\ q[j].method = method /\ i < j =>
                                  q[i].number < q[j].number
  BY DEF NoRepeat
<1>3. \A i, j \in DOMAIN r : r[i].method = method /\ r[j].method = method /\ i < j => r[i].number < r[j].number
  BY <1>1, <1>2
<1>4. \A i \in DOMAIN r : r[i].method = method => lo < r[i].number
  BY <1>1, <1>2
<1>5. x.method = method => \A i \in DOMAIN r : r[i].method = method => x.number < r[i].number
  BY <1>1, <1>2
<1>6. x.method = method /\ x.number = lo + 1 => NoRepeat(r, method, lo + 1)
  BY <1>3, <1>5 DEF NoRepeat
<1> QED
  BY <1>1, <1>2, <1>3, <1>4, <1>6 DEF NoRepeat, r

\* Tools.
LEMMA AuditAppend ==
  ASSUME NEW q \in Seq(Says), NEW x \in Says, NEW a \in Seq(OneTurn!Tools), NEW t \in OneTurn!Tools,
         AuditedOnce(q, a, t)
  PROVE  /\ ~Audits(x, t) => /\ AuditedOnce(Append(q, x), a, t)
                             /\ IsAudited(Append(q, x), a, t) <=> IsAudited(q, a, t)
         /\ Audits(x, t) /\ ~IsAudited(q, a, t) => /\ AuditedOnce(Append(q, x), a, t)
                                                   /\ IsAudited(Append(q, x), a, t)
<1> DEFINE r == Append(q, x)
           k == Len(q) + 1
<1>1. /\ r[k] = x /\ k \in DOMAIN r
      /\ \A i \in DOMAIN q : i \in DOMAIN r /\ r[i] = q[i]
      /\ \A i \in DOMAIN r : i \in DOMAIN q \/ i = k
  BY Appending
<1> HIDE DEF r, k
<1>2. CASE ~Audits(x, t)
  <2>1. AuditedOnce(r, a, t)
    BY <1>1, <1>2 DEF AuditedOnce
  <2>2. IsAudited(r, a, t) <=> IsAudited(q, a, t)
    BY <1>1, <1>2 DEF IsAudited
  <2> QED
    BY <1>2, <2>1, <2>2 DEF r
<1>3. CASE Audits(x, t) /\ ~IsAudited(q, a, t)
  <2>1. /\ \A i \in DOMAIN q : ~Audits(q[i], t)
        /\ \A j \in DOMAIN a : a[j] # t
    BY <1>3 DEF IsAudited
  <2>2. AuditedOnce(r, a, t)
    BY <1>1, <2>1 DEF AuditedOnce
  <2>3. IsAudited(r, a, t)
    BY <1>1, <1>3 DEF IsAudited
  <2> QED
    BY <1>3, <2>2, <2>3 DEF r
<1> QED
  BY <1>2, <1>3

LEMMA AuditTail ==
  ASSUME NEW q \in Seq(Says), q # <<>>, NEW a \in Seq(OneTurn!Tools), NEW t \in OneTurn!Tools,
         AuditedOnce(q, a, t)
  PROVE  /\ ~Audits(Head(q), t) => /\ AuditedOnce(Tail(q), a, t)
                                   /\ IsAudited(Tail(q), a, t) <=> IsAudited(q, a, t)
         /\ Audits(Head(q), t) => /\ AuditedOnce(Tail(q), Append(a, t), t)
                                  /\ IsAudited(Tail(q), Append(a, t), t) /\ IsAudited(q, a, t)
<1> DEFINE r == Tail(q)
           b == Append(a, t)
           k == Len(a) + 1
<1>1. /\ Head(q) = q[1] /\ 1 \in DOMAIN q
      /\ \A i \in DOMAIN r : i + 1 \in DOMAIN q /\ r[i] = q[i + 1] /\ i + 1 # 1 /\ i \in Nat
      /\ \A i \in DOMAIN q : i # 1 => \E j \in DOMAIN r : i = j + 1
  BY Taking
<1>2. /\ b[k] = t /\ k \in DOMAIN b
      /\ \A i \in DOMAIN a : i \in DOMAIN b /\ b[i] = a[i]
      /\ \A i \in DOMAIN b : i \in DOMAIN a \/ i = k
  BY Appending
<1> HIDE DEF r, b, k
<1>3. /\ \A i, j \in DOMAIN q : Audits(q[i], t) /\ Audits(q[j], t) => i = j
      /\ \A i, j \in DOMAIN a : a[i] = t /\ a[j] = t => i = j
      /\ \A i \in DOMAIN q, j \in DOMAIN a : Audits(q[i], t) => a[j] # t
  BY DEF AuditedOnce
<1>4. \A i, j \in DOMAIN r : Audits(r[i], t) /\ Audits(r[j], t) => i = j
  <2> SUFFICES ASSUME NEW i \in DOMAIN r, NEW j \in DOMAIN r, Audits(r[i], t), Audits(r[j], t)
               PROVE  i = j
    OBVIOUS
  <2>1. i + 1 = j + 1
    BY <1>1, <1>3
  <2> QED
    BY <1>1, <2>1
<1>5. CASE ~Audits(q[1], t)
  <2>1. AuditedOnce(r, a, t)
    BY <1>1, <1>3, <1>4 DEF AuditedOnce
  <2>2. (\E i \in DOMAIN r : Audits(r[i], t)) <=> (\E i \in DOMAIN q : Audits(q[i], t))
    <3>1. ASSUME NEW i \in DOMAIN r, Audits(r[i], t)
          PROVE  \E j \in DOMAIN q : Audits(q[j], t)
      BY <1>1, <3>1
    <3>2. ASSUME NEW i \in DOMAIN q, Audits(q[i], t)
          PROVE  \E j \in DOMAIN r : Audits(r[j], t)
      <4>1. i # 1
        BY <1>5, <3>2
      <4>2. PICK j \in DOMAIN r : i = j + 1
        BY <1>1, <4>1
      <4> QED
        BY <1>1, <3>2, <4>2
    <3> QED
      BY <3>1, <3>2
  <2>3. IsAudited(r, a, t) <=> IsAudited(q, a, t)
    BY <2>2 DEF IsAudited
  <2> QED
    BY <1>1, <1>5, <2>1, <2>3 DEF r
<1>6. CASE Audits(q[1], t)
  <2>1. \A i \in DOMAIN r : ~Audits(r[i], t)
    BY <1>1, <1>3, <1>6
  <2>2. \A j \in DOMAIN a : a[j] # t
    BY <1>1, <1>3, <1>6
  <2>3. AuditedOnce(r, b, t)
    BY <1>2, <2>1, <2>2 DEF AuditedOnce
  <2>4. IsAudited(r, b, t) /\ IsAudited(q, a, t)
    BY <1>1, <1>2, <1>6 DEF IsAudited
  <2> QED
    BY <1>1, <1>6, <2>3, <2>4 DEF r, b
<1> QED
  BY <1>5, <1>6

LEMMA AuditOther ==
  ASSUME NEW q \in Seq(Says), NEW a \in Seq(OneTurn!Tools), NEW t \in OneTurn!Tools,
         NEW u \in OneTurn!Tools, u # t, AuditedOnce(q, a, u)
  PROVE  /\ AuditedOnce(q, Append(a, t), u)
         /\ IsAudited(q, Append(a, t), u) <=> IsAudited(q, a, u)
<1> DEFINE b == Append(a, t)
           k == Len(a) + 1
<1>1. /\ b[k] = t /\ k \in DOMAIN b
      /\ \A i \in DOMAIN a : i \in DOMAIN b /\ b[i] = a[i]
      /\ \A i \in DOMAIN b : i \in DOMAIN a \/ i = k
  BY Appending
<1> HIDE DEF b, k
<1>2. AuditedOnce(q, b, u)
  BY <1>1 DEF AuditedOnce
<1>3. IsAudited(q, b, u) <=> IsAudited(q, a, u)
  BY <1>1 DEF IsAudited
<1> QED
  BY <1>2, <1>3 DEF b

\* The subagent.
LEMMA LastWordAppend ==
  ASSUME NEW q \in Seq(Says), NEW x \in Says, NEW has, NEW is, LastWord(q, has, is)
  PROVE  /\ x.method # "agent" => LastWord(Append(q, x), has, is)
         /\ x.method = "agent" /\ x.of \in OneTurn!AgentStates \ {"none"} => LastWord(Append(q, x), has, x.of)
<1> DEFINE r == Append(q, x)
           k == Len(q) + 1
<1>1. /\ r[k] = x /\ k \in DOMAIN r
      /\ \A i \in DOMAIN q : i \in DOMAIN r /\ r[i] = q[i] /\ i < k
      /\ \A i \in DOMAIN r : i \in DOMAIN q \/ i = k
  BY Appending
<1> HIDE DEF r, k
<1>2. CASE x.method # "agent"
  BY <1>1, <1>2 DEF LastWord, r
<1>3. CASE x.method = "agent" /\ x.of \in OneTurn!AgentStates \ {"none"}
  BY <1>1, <1>3 DEF LastWord, r
<1> QED
  BY <1>2, <1>3

LEMMA LastWordTail ==
  ASSUME NEW q \in Seq(Says), q # <<>>, NEW has, NEW is, LastWord(q, has, is)
  PROVE  /\ Head(q).method # "agent" => LastWord(Tail(q), has, is)
         /\ Head(q).method = "agent" => /\ LastWord(Tail(q), Head(q).of, is)
                                        /\ Head(q).of \in OneTurn!AgentStates \ {"none"}
<1> DEFINE r == Tail(q)
<1>1. /\ Head(q) = q[1] /\ 1 \in DOMAIN q
      /\ \A i \in DOMAIN r : i + 1 \in DOMAIN q /\ r[i] = q[i + 1] /\ 1 < i + 1
      /\ \A i \in DOMAIN q : i # 1 => \E j \in DOMAIN r : i = j + 1
      /\ \A i, j \in DOMAIN r : i < j <=> i + 1 < j + 1
  BY Taking
<1>2. \A i \in DOMAIN q : ~(i < 1)
  BY SaysAll
<1> HIDE DEF r
<1>3. /\ \A i \in DOMAIN q : q[i].method = "agent" => q[i].of \in OneTurn!AgentStates \ {"none"}
      /\ \A i \in DOMAIN q : q[i].method = "agent" /\ (\A j \in DOMAIN q : i < j => q[j].method # "agent") =>
                               q[i].of = is
      /\ (\A i \in DOMAIN q : q[i].method # "agent") => has = is
  BY DEF LastWord
<1>4. \A i \in DOMAIN r : r[i].method = "agent" => r[i].of \in OneTurn!AgentStates \ {"none"}
  BY <1>1, <1>3
<1>5. ASSUME NEW i \in DOMAIN r, r[i].method = "agent", \A j \in DOMAIN r : i < j => r[j].method # "agent"
      PROVE  r[i].of = is
  <2>1. i + 1 \in DOMAIN q /\ q[i + 1] = r[i] /\ 1 < i + 1
    BY <1>1
  <2>2. ASSUME NEW j \in DOMAIN q, i + 1 < j
        PROVE  q[j].method # "agent"
    <3>1. j # 1
      BY <1>2, <2>1, <2>2
    <3>2. PICK l \in DOMAIN r : j = l + 1
      BY <1>1, <3>1
    <3> QED
      BY <1>1, <1>5, <2>2, <3>2
  <2> QED
    BY <1>3, <1>5, <2>1, <2>2
<1>6. ASSUME \A i \in DOMAIN r : r[i].method # "agent"
      PROVE  IF q[1].method = "agent" THEN q[1].of = is ELSE has = is
  <2>1. \A i \in DOMAIN q : i # 1 => q[i].method # "agent"
    BY <1>1, <1>6
  <2>2. \A i \in DOMAIN q : 1 < i => i # 1
    OBVIOUS
  <2> QED
    BY <1>1, <1>3, <2>1, <2>2
<1>7. CASE q[1].method = "agent"
  BY <1>1, <1>3, <1>4, <1>5, <1>6, <1>7 DEF LastWord, r
<1>8. CASE q[1].method # "agent"
  BY <1>1, <1>4, <1>5, <1>6, <1>8 DEF LastWord, r
<1> QED
  BY <1>7, <1>8

\* The end.
LEMMA EndsAppend ==
  ASSUME NEW q \in Seq(Says), NEW x \in Says, EndsLast(q, "no")
  PROVE  /\ x.method # "end" => EndsLast(Append(q, x), "no")
         /\ x.method = "end" /\ x.of # "no" => EndsLast(Append(q, x), x.of)
<1> DEFINE r == Append(q, x)
           k == Len(q) + 1
<1>1. /\ r[k] = x /\ k \in DOMAIN r /\ Len(r) = k /\ r # <<>>
      /\ \A i \in DOMAIN q : i \in DOMAIN r /\ r[i] = q[i]
      /\ \A i \in DOMAIN r : i \in DOMAIN q \/ i = k
  BY Appending
<1> HIDE DEF r, k
<1>2. \A i \in DOMAIN q : q[i].method # "end"
  BY DEF EndsLast
<1>3. CASE x.method # "end"
  BY <1>1, <1>2, <1>3 DEF EndsLast, r
<1>4. CASE x.method = "end" /\ x.of # "no"
  BY <1>1, <1>2, <1>4 DEF EndsLast, r
<1> QED
  BY <1>3, <1>4

LEMMA EndsTail ==
  ASSUME NEW q \in Seq(Says), q # <<>>, NEW ends, EndsLast(q, ends)
  PROVE  /\ Head(q).method # "end" => EndsLast(Tail(q), ends)
         /\ Head(q).method = "end" => Tail(q) = <<>> /\ Head(q).of = ends /\ ends # "no"
<1> DEFINE r == Tail(q)
<1>1. /\ Head(q) = q[1] /\ 1 \in DOMAIN q /\ r \in Seq(Says) /\ Len(r) = Len(q) - 1
      /\ \A i \in DOMAIN r : i + 1 \in DOMAIN q /\ r[i] = q[i + 1] /\ i \in Nat
      /\ \A i \in DOMAIN q : i # 1 => \E j \in DOMAIN r : i = j + 1
  BY Taking
<1>2. Len(q) \in DOMAIN q /\ Len(q) \in Nat
  OBVIOUS
<1>3. /\ \A i \in DOMAIN q : q[i].method = "end" => i = Len(q) /\ q[i].of = ends
      /\ ends # "no" => q # <<>> /\ q[Len(q)].method = "end"
      /\ ends = "no" => \A i \in DOMAIN q : q[i].method # "end"
  BY DEF EndsLast
<1>4. CASE q[1].method = "end"
  <2>1. Len(q) = 1
    BY <1>1, <1>3, <1>4
  <2>2. Tail(q) = <<>>
    <3>1. r \in Seq(Says) /\ Len(r) = Len(q) - 1 /\ Len(r) \in Nat
      BY <1>1
    <3>2. Len(r) = 0
      <4>1. \A n, m \in Nat : n = m - 1 /\ m = 1 => n = 0
        OBVIOUS
      <4> QED
        BY <1>2, <2>1, <3>1, <4>1
    <3> HIDE DEF r
    <3>3. r = <<>>
      BY <3>1, <3>2
    <3> QED
      BY <3>3 DEF r
  <2> QED
    BY <1>1, <1>3, <1>4, <2>2
<1>5. CASE q[1].method # "end"
  <2>1. \A i \in DOMAIN r : r[i].method = "end" => i = Len(r) /\ r[i].of = ends
    <3> SUFFICES ASSUME NEW i \in DOMAIN r, r[i].method = "end"
                 PROVE  i = Len(r) /\ r[i].of = ends
      OBVIOUS
    <3>1. i + 1 = Len(q) /\ r[i].of = ends
      BY <1>1, <1>3
    <3>2. \A n, m \in Nat : n + 1 = m => n = m - 1
      OBVIOUS
    <3> QED
      BY <1>1, <1>2, <3>1, <3>2
  <2>2. ASSUME ends # "no"
        PROVE  r # <<>> /\ r[Len(r)].method = "end"
    <3>1. Len(q) # 1
      BY <1>3, <1>5, <2>2
    <3>2. PICK j \in DOMAIN r : Len(q) = j + 1
      BY <1>1, <1>2, <3>1
    <3>3. r[j].method = "end"
      BY <1>1, <1>3, <2>2, <3>2
    <3>4. j = Len(r) /\ r # <<>>
      BY <2>1, <3>3
    <3> QED
      BY <3>3, <3>4
  <2>3. ends = "no" => \A i \in DOMAIN r : r[i].method # "end"
    BY <1>1, <1>3
  <2> HIDE DEF r
  <2>4. EndsLast(r, ends)
    BY <2>1, <2>2, <2>3 DEF EndsLast
  <2> QED
    BY <1>1, <1>5, <2>4 DEF r
<1> QED
  BY <1>4, <1>5

LEMMA InitOneTurnInv ==
  ASSUME OneTurn!CodexTurnInit
  PROVE  OneTurnInv
<1>1. /\ streams \in BOOLEAN /\ queue = <<>> /\ context = "live"
      /\ server = [note |-> 0, requests |-> 0, repeats |-> 0, agent |-> "none",
                   tools |-> [t \in OneTurn!Tools |-> "none"], ends |-> "no"]
      /\ track = [streamed |-> FALSE, item |-> 0, total |-> 0, agent |-> "none", at |-> "reading"]
      /\ sent = [notes |-> <<>>, billed |-> 0, audited |-> <<>>, cards |-> <<>>]
  BY DEF OneTurn!CodexTurnInit
<1>2. /\ server.note = 0 /\ server.requests = 0 /\ server.agent = "none" /\ server.ends = "no"
      /\ server.tools = [t \in OneTurn!Tools |-> "none"]
      /\ track.streamed = FALSE /\ track.total = 0 /\ track.agent = "none" /\ track.at = "reading"
      /\ sent.notes = <<>> /\ sent.billed = 0 /\ sent.audited = <<>> /\ sent.cards = <<>>
  BY <1>1
<1>3. TurnTyped
  <2>1. server \in Servers
    BY <1>1 DEF Servers, OneTurn!AgentStates
  <2>2. track \in Tracks
    BY <1>1 DEF Tracks, OneTurn!AgentStates
  <2>3. sent \in Outs
    BY <1>1 DEF Outs
  <2> QED
    BY <1>1, <2>1, <2>2, <2>3 DEF TurnTyped
<1>4. NotesTold
  <2>1. Covers(<<>>, "delta", 0, 0) /\ NoRepeat(<<>>, "delta", 0) /\ Len(<<>>) = 0 /\ 0 <= 0
    BY DEF Covers, NoRepeat
  <2> QED
    BY <1>1, <1>2, <2>1 DEF NotesTold
<1>5. BillTold
  <2>1. Covers(<<>>, "usage", 0, 0)
    BY DEF Covers
  <2> QED
    BY <1>1, <1>2, <2>1 DEF BillTold
<1>6. ToolsTold
  BY <1>1, <1>2 DEF ToolsTold, AuditedOnce, IsAudited, Due
<1>7. AgentTold /\ EndTold
  BY <1>1, <1>2 DEF AgentTold, LastWord, Carded, EndTold, EndsLast
<1> QED
  BY <1>1, <1>2, <1>3, <1>4, <1>5, <1>6, <1>7 DEF OneTurnInv

\* The app-server says something: x is what it says, s what it then is.
LEMMA SayingKeeps ==
  ASSUME OneTurnInv, server.ends = "no", NEW x \in Says, NEW s \in Servers,
         server' = s, queue' = Append(queue, x), UNCHANGED <<streams, track, sent, context>>,
         \/ x.method # "delta" /\ s.note = server.note
         \/ x.method = "delta" /\ streams /\ x.number = server.note + 1 /\ s.note = server.note + 1,
         \/ x.method # "usage" /\ s.requests = server.requests
         \/ x.method = "usage" /\ x.number = s.requests /\ s.requests = server.requests
         \/ x.method = "usage" /\ x.number = s.requests /\ s.requests = server.requests + 1,
         \/ x.method # "agent" /\ s.agent = server.agent
         \/ x.method = "agent" /\ s.agent = x.of /\ x.of \in OneTurn!AgentStates \ {"none"},
         x.method \in {"started", "completed"} => x.of \in OneTurn!Tools,
         \A t \in OneTurn!Tools : IF Audits(x, t) THEN ~Due(t) /\ Due(t)' ELSE Due(t)' <=> Due(t),
         \/ x.method # "end" /\ s.ends = "no"
         \/ x.method = "end" /\ s.ends = x.of /\ x.of # "no",
         s.ends = "completed" => \A t \in OneTurn!Tools : s.tools[t] # "started"
  PROVE  OneTurnInv'
<1>1. /\ queue \in Seq(Says) /\ server \in Servers /\ track \in Tracks /\ sent \in Outs
      /\ queue' \in Seq(Says)
  BY Appending DEF OneTurnInv, TurnTyped
<1>2. TurnTyped'
  BY <1>1 DEF OneTurnInv, TurnTyped
<1>3. /\ server.note \in Nat /\ server.requests \in Nat /\ track.total \in Nat /\ Len(sent.notes) \in Nat
      /\ sent.audited \in Seq(OneTurn!Tools)
  BY <1>1 DEF Servers, Tracks, Outs
<1>4. CASE ~(context = "live" /\ track.at = "reading")
  BY <1>2, <1>4 DEF OneTurnInv, TurnTyped, Tracks
<1>5. CASE context = "live" /\ track.at = "reading"
  <2>0. NotesTold /\ BillTold /\ ToolsTold /\ AgentTold /\ EndTold
    BY <1>5 DEF OneTurnInv
  <2>1. NotesTold'
    <3>1. CASE streams
      <4>1. /\ Covers(queue, "delta", Len(sent.notes), server.note)
            /\ NoRepeat(queue, "delta", Len(sent.notes)) /\ Len(sent.notes) <= server.note
        BY <2>0, <3>1 DEF NotesTold
      <4>2. Covers(queue', "delta", Len(sent.notes), s.note)
        BY <1>1, <1>3, <4>1, CoversAppend
      <4>3. NoRepeat(queue', "delta", Len(sent.notes))
        BY <1>1, <1>3, <4>1, NoRepeatAppend
      <4>4. Len(sent.notes) <= s.note
        BY <1>3, <4>1
      <4> QED
        BY <2>0, <3>1, <4>2, <4>3, <4>4 DEF NotesTold
    <3>2. CASE ~streams
      <4>1. \A i \in DOMAIN queue' : queue'[i].method # "delta"
        BY <1>1, <2>0, <3>2, Appending DEF NotesTold
      <4> QED
        BY <2>0, <3>2, <4>1 DEF NotesTold
    <3> QED
      BY <3>1, <3>2
  <2>2. BillTold'
    <3>1. Covers(queue', "usage", track.total, s.requests)
      BY <1>1, <1>3, <2>0, CoversAppend DEF BillTold
    <3>2. track.total <= s.requests
      BY <1>3, <2>0 DEF BillTold
    <3> QED
      BY <2>0, <3>1, <3>2 DEF BillTold
  <2>3. ToolsTold'
    <3>1. \A i \in DOMAIN queue' : queue'[i].method \in {"started", "completed"} => queue'[i].of \in OneTurn!Tools
      BY <1>1, <2>0, Appending DEF ToolsTold
    <3>2. ASSUME NEW t \in OneTurn!Tools
          PROVE  AuditedOnce(queue', sent.audited, t) /\ (IsAudited(queue', sent.audited, t) <=> Due(t)')
      BY <1>1, <1>3, <2>0, AuditAppend DEF ToolsTold
    <3> QED
      BY <3>1, <3>2 DEF ToolsTold
  <2>4. AgentTold'
    BY <1>1, <2>0, LastWordAppend DEF AgentTold
  <2>5. EndTold'
    BY <1>1, <2>0, EndsAppend DEF EndTold
  <2> QED
    BY <1>2, <1>5, <2>1, <2>2, <2>3, <2>4, <2>5 DEF OneTurnInv
<1> QED
  BY <1>4, <1>5

LEMMA OneTurnTyped ==
  ASSUME OneTurnInv
  PROVE  /\ queue \in Seq(Says) /\ server \in Servers /\ track \in Tracks /\ sent \in Outs
         /\ server.note \in Nat /\ server.requests \in Nat /\ server.repeats \in Nat
         /\ server.agent \in OneTurn!AgentStates
         /\ server.tools \in [OneTurn!Tools -> {"none", "started", "completed"}]
BY DEF OneTurnInv, TurnTyped, Servers

LEMMA NoteKeeps ==
  ASSUME OneTurnInv, OneTurn!Note
  PROVE  OneTurnInv'
<1> DEFINE x == [method |-> "delta", of |-> "-", number |-> server.note + 1]
           s == [server EXCEPT !.note = @ + 1]
<1>1. /\ server.ends = "no" /\ server' = s /\ UNCHANGED <<streams, track, sent, context>>
      /\ IF streams THEN queue' = Append(queue, x) ELSE UNCHANGED queue
  BY DEF OneTurn!Note, OneTurn!Busy, OneTurn!rest, OneTurn!Say, OneTurn!Numbered
<1>2. /\ s \in Servers /\ s.note = server.note + 1 /\ s.requests = server.requests
      /\ s.agent = server.agent /\ s.tools = server.tools /\ s.ends = "no"
  BY <1>1, OneTurnTyped DEF Servers
<1>3. x \in Says /\ x.method = "delta" /\ x.number = server.note + 1
  BY OneTurnTyped DEF Says, Methods
<1> HIDE DEF x, s
<1>4. \A t \in OneTurn!Tools : (Due(t)' <=> Due(t)) /\ ~Audits(x, t)
  BY <1>1, <1>2, <1>3 DEF Due, Audits
<1>5. CASE streams
  BY <1>1, <1>2, <1>3, <1>4, <1>5, SayingKeeps
<1>6. CASE ~streams
  <2>1. TurnTyped' /\ queue' = queue
    BY <1>1, <1>2, <1>6 DEF OneTurnInv, TurnTyped
  <2>2. NotesTold => NotesTold'
    BY <1>1, <1>6, <2>1 DEF NotesTold
  <2>3. /\ BillTold => BillTold'
        /\ ToolsTold => ToolsTold'
        /\ AgentTold => AgentTold'
        /\ EndTold => EndTold'
    BY <1>1, <1>2, <1>4, <2>1 DEF BillTold, ToolsTold, AgentTold, EndTold
  <2>4. ~(context = "live" /\ track.at = "closed")
    BY <1>1 DEF OneTurnInv
  <2> QED
    BY <1>1, <2>1, <2>2, <2>3, <2>4 DEF OneTurnInv
<1> QED
  BY <1>5, <1>6 DEF OneTurnInv, TurnTyped

LEMMA UsageKeeps ==
  ASSUME OneTurnInv, OneTurn!Spend \/ OneTurn!Repeat
  PROVE  OneTurnInv'
<1>1. /\ server.ends = "no" /\ UNCHANGED <<streams, track, sent, context>>
      /\ \/ /\ server' = [server EXCEPT !.requests = @ + 1]
            /\ queue' = Append(queue, [method |-> "usage", of |-> "-", number |-> server.requests + 1])
         \/ /\ server' = [server EXCEPT !.repeats = @ + 1]
            /\ queue' = Append(queue, [method |-> "usage", of |-> "-", number |-> server.requests])
  BY DEF OneTurn!Spend, OneTurn!Repeat, OneTurn!Busy, OneTurn!rest, OneTurn!Say, OneTurn!Numbered
<1>2. PICK s : s = server'
  OBVIOUS
<1>3. /\ s \in Servers /\ s.note = server.note /\ s.agent = server.agent /\ s.tools = server.tools
      /\ s.ends = "no" /\ s.requests \in {server.requests, server.requests + 1}
      /\ queue' = Append(queue, [method |-> "usage", of |-> "-", number |-> s.requests])
  BY <1>1, <1>2, OneTurnTyped DEF Servers
<1> DEFINE x == [method |-> "usage", of |-> "-", number |-> s.requests]
<1>4. x \in Says /\ x.method = "usage" /\ x.number = s.requests
  BY <1>3 DEF Says, Methods, Servers
<1> HIDE DEF x
<1>5. \A t \in OneTurn!Tools : (Due(t)' <=> Due(t)) /\ ~Audits(x, t)
  BY <1>2, <1>3, <1>4 DEF Due, Audits
<1>6. queue' = Append(queue, x)
  BY <1>3 DEF x
<1> QED
  BY <1>1, <1>2, <1>3, <1>4, <1>5, <1>6, SayingKeeps

LEMMA AgentKeeps ==
  ASSUME OneTurnInv, NEW a \in OneTurn!AgentStates, OneTurn!Agent(a)
  PROVE  OneTurnInv'
<1> DEFINE x == [method |-> "agent", of |-> a, number |-> 0]
<1>1. /\ server.ends = "no" /\ UNCHANGED <<streams, track, sent, context>>
      /\ server' = [server EXCEPT !.agent = a, !.repeats = IF a = server.agent THEN @ + 1 ELSE @]
      /\ queue' = Append(queue, x) /\ a # "none"
  BY DEF OneTurn!Agent, OneTurn!Busy, OneTurn!rest, OneTurn!Say, OneTurn!Msg
<1>2. PICK s : s = server'
  OBVIOUS
<1>3. /\ s \in Servers /\ s.note = server.note /\ s.requests = server.requests /\ s.agent = a
      /\ s.tools = server.tools /\ s.ends = "no"
  <2>1. PICK k \in Nat : server' = [server EXCEPT !.agent = a, !.repeats = k]
    <3>1. /\ a = server.agent => server' = [server EXCEPT !.agent = a, !.repeats = server.repeats + 1]
          /\ a # server.agent => server' = [server EXCEPT !.agent = a, !.repeats = server.repeats]
      BY <1>1, OneTurnTyped DEF Servers
    <3>2. server.repeats \in Nat /\ server.repeats + 1 \in Nat
      BY OneTurnTyped
    <3> QED
      BY <3>1, <3>2
  <2> QED
    BY <1>1, <1>2, <2>1, OneTurnTyped DEF Servers
<1>4. x \in Says /\ x.method = "agent" /\ x.of = a
  BY DEF Says, Methods
<1> HIDE DEF x
<1>5. \A t \in OneTurn!Tools : (Due(t)' <=> Due(t)) /\ ~Audits(x, t)
  BY <1>2, <1>3, <1>4 DEF Due, Audits
<1> QED
  BY <1>1, <1>2, <1>3, <1>4, <1>5, SayingKeeps

LEMMA ToolKeeps ==
  ASSUME OneTurnInv, NEW u \in OneTurn!Tools, OneTurn!Start(u) \/ OneTurn!Complete(u)
  PROVE  OneTurnInv'
<1>1. PICK m \in {"started", "completed"} :
        /\ server.ends = "no" /\ UNCHANGED <<streams, track, sent, context>>
        /\ server.tools[u] = IF m = "started" THEN "none" ELSE "started"
        /\ server' = [server EXCEPT !.tools[u] = m]
        /\ queue' = Append(queue, [method |-> m, of |-> u, number |-> 0])
  BY DEF OneTurn!Start, OneTurn!Complete, OneTurn!Busy, OneTurn!rest, OneTurn!Say, OneTurn!Msg
<1> DEFINE x == [method |-> m, of |-> u, number |-> 0]
           s == [server EXCEPT !.tools[u] = m]
<1>2. /\ s.tools = [server.tools EXCEPT ![u] = m]
      /\ s.note = server.note /\ s.requests = server.requests /\ s.agent = server.agent /\ s.ends = "no"
  BY <1>1, OneTurnTyped DEF Servers
<1>3. [server.tools EXCEPT ![u] = m] \in [OneTurn!Tools -> {"none", "started", "completed"}]
  BY <1>1, OneTurnTyped
<1>4. s \in Servers
  <2>1. s = [server EXCEPT !.tools = [server.tools EXCEPT ![u] = m]]
    BY OneTurnTyped DEF Servers
  <2> HIDE DEF s
  <2> QED
    BY <1>3, <2>1, OneTurnTyped DEF Servers
<1>5. x \in Says /\ x.method = m /\ x.of = u
  BY <1>1 DEF Says, Methods
<1>6. server' = s /\ queue' = Append(queue, x)
  BY <1>1
<1> HIDE DEF x, s
<1>7. s.tools[u] = m /\ \A t \in OneTurn!Tools \ {u} : s.tools[t] = server.tools[t]
  BY <1>2, OneTurnTyped
<1>8. \A t \in OneTurn!Tools : IF Audits(x, t) THEN ~Due(t) /\ Due(t)' ELSE Due(t)' <=> Due(t)
  <2> SUFFICES ASSUME NEW t \in OneTurn!Tools
               PROVE  IF Audits(x, t) THEN ~Due(t) /\ Due(t)' ELSE Due(t)' <=> Due(t)
    OBVIOUS
  <2>1. CASE t # u
    BY <1>5, <1>6, <1>7, <2>1 DEF Audits, Due
  <2>2. CASE t = u
    <3>1. server'.tools[u] = m /\ server.tools[u] = (IF m = "started" THEN "none" ELSE "started")
      BY <1>1, <1>6, <1>7
    <3>2. Due(u)' <=> IF u \in Patches THEN m = "completed" ELSE TRUE
      BY <1>1, <3>1 DEF Due
    <3>3. Due(u) <=> IF u \in Patches THEN FALSE ELSE m = "completed"
      BY <1>1, <3>1 DEF Due
    <3>4. Audits(x, u) <=> ((u \in Patches) = (m = "completed"))
      BY <1>1, <1>5 DEF Audits
    <3> QED
      BY <1>1, <2>2, <3>2, <3>3, <3>4
  <2> QED
    BY <2>1, <2>2
<1>9. x.method \notin {"delta", "usage", "agent", "end"} /\ s.ends # "completed"
  BY <1>1, <1>2, <1>5
<1> QED
  BY <1>1, <1>2, <1>4, <1>5, <1>6, <1>8, <1>9, SayingKeeps

LEMMA EndKeeps ==
  ASSUME OneTurnInv, NEW how \in {"completed", "error"}, OneTurn!End(how)
  PROVE  OneTurnInv'
<1> DEFINE x == [method |-> "end", of |-> how, number |-> 0]
           s == [server EXCEPT !.ends = how]
<1>1. /\ server.ends = "no" /\ UNCHANGED <<streams, track, sent, context>>
      /\ server' = s /\ queue' = Append(queue, x)
      /\ how = "completed" => \A t \in OneTurn!Tools : server.tools[t] # "started"
  BY DEF OneTurn!End, OneTurn!Busy, OneTurn!rest, OneTurn!Say, OneTurn!Msg
<1>2. /\ s \in Servers /\ s.note = server.note /\ s.requests = server.requests
      /\ s.agent = server.agent /\ s.tools = server.tools /\ s.ends = how
  BY OneTurnTyped DEF Servers
<1>3. x \in Says /\ x.method = "end" /\ x.of = how /\ how # "no"
  BY DEF Says, Methods
<1> HIDE DEF x, s
<1>4. \A t \in OneTurn!Tools : (Due(t)' <=> Due(t)) /\ ~Audits(x, t)
  BY <1>1, <1>2, <1>3 DEF Due, Audits
<1> QED
  BY <1>1, <1>2, <1>3, <1>4, SayingKeeps
\* streamTurn takes a notification: what each part of the invariant says of the rest.
Takes ==
  /\ track.at = "reading" /\ context = "live" /\ queue # <<>>
  /\ queue' = Tail(queue) /\ UNCHANGED <<streams, server, context>>
  /\ track' \in Tracks /\ sent' \in Outs

LEMMA TakingKeeps ==
  ASSUME OneTurnInv, Takes
  PROVE  /\ TurnTyped'
         /\ /\ Head(queue).method # "delta"
            /\ sent'.notes = sent.notes /\ track'.streamed = track.streamed
            => NotesTold'
         /\ Head(queue).method # "usage" /\ sent'.billed = sent.billed /\ track'.total = track.total => BillTold'
         /\ /\ Head(queue).method \notin {"started", "completed"} /\ sent'.audited = sent.audited
            => ToolsTold'
         /\ Head(queue).method # "agent" /\ sent'.cards = sent.cards /\ track'.agent = track.agent => AgentTold'
         /\ Head(queue).method # "end" => EndTold'
<1>1. /\ queue \in Seq(Says) /\ queue # <<>> /\ queue' = Tail(queue)
      /\ server.note \in Nat /\ server.requests \in Nat /\ track.total \in Nat /\ Len(sent.notes) \in Nat
      /\ sent.audited \in Seq(OneTurn!Tools) /\ UNCHANGED <<streams, server, context>>
  BY OneTurnTyped DEF Takes, Tracks, Outs
<1>2. /\ queue' \in Seq(Says)
      /\ \A i \in DOMAIN queue' : \E j \in DOMAIN queue : queue'[i] = queue[j]
  BY <1>1, Taking
<1>3. TurnTyped'
  BY <1>1, <1>2 DEF OneTurnInv, TurnTyped, Takes
<1>4. NotesTold /\ BillTold /\ ToolsTold /\ AgentTold /\ EndTold
  BY DEF OneTurnInv, Takes
<1>5. ASSUME Head(queue).method # "delta", sent'.notes = sent.notes, track'.streamed = track.streamed
      PROVE  NotesTold'
  <2>1. CASE streams
    <3>1. /\ Covers(queue, "delta", Len(sent.notes), server.note)
          /\ NoRepeat(queue, "delta", Len(sent.notes))
      BY <1>4, <2>1 DEF NotesTold
    <3>2. /\ Covers(queue', "delta", Len(sent.notes), server.note)
          /\ NoRepeat(queue', "delta", Len(sent.notes))
      BY <1>1, <1>5, <3>1, CoversTail, NoRepeatTail
    <3> QED
      BY <1>1, <1>4, <1>5, <2>1, <3>2 DEF NotesTold
  <2>2. CASE ~streams
    BY <1>1, <1>2, <1>4, <1>5, <2>2 DEF NotesTold
  <2> QED
    BY <2>1, <2>2
<1>6. ASSUME Head(queue).method # "usage", sent'.billed = sent.billed, track'.total = track.total
      PROVE  BillTold'
  <2>1. Covers(queue', "usage", track.total, server.requests)
    BY <1>1, <1>4, <1>6, CoversTail DEF BillTold
  <2> QED
    BY <1>1, <1>4, <1>6, <2>1 DEF BillTold
<1>7. ASSUME Head(queue).method \notin {"started", "completed"}, sent'.audited = sent.audited
      PROVE  ToolsTold'
  <2>1. \A i \in DOMAIN queue' : queue'[i].method \in {"started", "completed"} => queue'[i].of \in OneTurn!Tools
    BY <1>2, <1>4 DEF ToolsTold
  <2>2. ASSUME NEW t \in OneTurn!Tools
        PROVE  /\ AuditedOnce(queue', sent.audited, t)
               /\ IsAudited(queue', sent.audited, t) <=> Due(t)
    <3>1. ~Audits(Head(queue), t)
      BY <1>7 DEF Audits
    <3> QED
      BY <1>1, <1>4, <3>1, AuditTail DEF ToolsTold
  <2>3. \A t \in OneTurn!Tools : Due(t)' <=> Due(t)
    BY <1>1 DEF Due
  <2> QED
    BY <1>7, <2>1, <2>2, <2>3 DEF ToolsTold
<1>8. ASSUME Head(queue).method # "agent", sent'.cards = sent.cards, track'.agent = track.agent
      PROVE  AgentTold'
  <2>1. LastWord(queue', track.agent, server.agent)
    BY <1>1, <1>4, <1>8, LastWordTail DEF AgentTold
  <2> QED
    BY <1>1, <1>4, <1>8, <2>1 DEF AgentTold
<1>9. ASSUME Head(queue).method # "end"
      PROVE  EndTold'
  <2>1. EndsLast(queue', server.ends)
    BY <1>1, <1>4, <1>9, EndsTail DEF EndTold
  <2> QED
    BY <1>1, <1>4, <2>1 DEF EndTold
<1> QED
  BY <1>3, <1>5, <1>6, <1>7, <1>8, <1>9

LEMMA ReadNumbered ==
  ASSUME OneTurnInv, OneTurn!Read, Head(queue).method \in {"delta", "usage"}
  PROVE  OneTurnInv'
<1>0. PICK n \in Says : n = Head(queue)
  BY OneTurnTyped, Taking DEF OneTurn!Read
<1>1. /\ queue \in Seq(Says) /\ track \in Tracks /\ sent \in Outs /\ n.number \in Nat
      /\ track.at = "reading" /\ context = "live" /\ queue # <<>>
      /\ queue' = Tail(queue) /\ UNCHANGED <<streams, server, context>>
  BY OneTurnTyped DEF OneTurn!Read, Says
<1>2. NotesTold /\ BillTold
  BY <1>1 DEF OneTurnInv
<1>3. CASE n.method = "delta"
  <2>1. /\ sent' = [sent EXCEPT !.notes = Append(@, n.number)]
        /\ track' = [track EXCEPT !.streamed = TRUE, !.item = n.number]
    BY <1>0, <1>3 DEF OneTurn!Read
  <2>2. sent.notes \in Seq(Nat) /\ Append(sent.notes, n.number) \in Seq(Nat)
    BY <1>1 DEF Outs
  <2>3. /\ Takes /\ track'.at = "reading" /\ track'.streamed = TRUE
        /\ track'.total = track.total /\ track'.agent = track.agent
        /\ sent'.notes = Append(sent.notes, n.number) /\ sent'.billed = sent.billed
        /\ sent'.audited = sent.audited /\ sent'.cards = sent.cards
    BY <1>1, <2>1, <2>2 DEF Takes, Tracks, Outs
  <2>4. streams
    <3>1. Head(queue) = queue[1] /\ 1 \in DOMAIN queue
      BY <1>1
    <3> QED
      BY <1>0, <1>2, <1>3, <3>1 DEF NotesTold
  <2>5. PICK k \in Nat : k = Len(sent.notes)
    BY <2>2
  <2>6. /\ Covers(queue, "delta", k, server.note) /\ NoRepeat(queue, "delta", k) /\ server.note \in Nat
    BY <1>2, <2>4, <2>5, OneTurnTyped DEF NotesTold
  <2>7. n.number > k /\ n.number = k + 1 /\ n.number <= server.note
    <3>1. k < n.number
      BY <1>0, <1>1, <1>3, <2>6, NoRepeatTail
    <3>2. n.number > k
      BY <1>1, <3>1
    <3> QED
      BY <1>0, <1>1, <1>3, <2>6, <3>2, CoversTail
  <2>8. Covers(queue', "delta", k + 1, server.note) /\ NoRepeat(queue', "delta", k + 1)
    BY <1>0, <1>1, <1>3, <2>6, <2>7, CoversTail, NoRepeatTail
  <2>9. /\ Len(sent'.notes) = k + 1 /\ sent'.notes # <<>>
        /\ \A i \in DOMAIN sent'.notes : sent'.notes[i] = i
    <3>1. /\ Append(sent.notes, n.number)[k + 1] = n.number
          /\ Len(Append(sent.notes, n.number)) = k + 1 /\ Append(sent.notes, n.number) # <<>>
          /\ \A i \in DOMAIN sent.notes : Append(sent.notes, n.number)[i] = sent.notes[i]
          /\ \A i \in DOMAIN Append(sent.notes, n.number) : i \in DOMAIN sent.notes \/ i = k + 1
      BY <1>1, <2>2, <2>5, Appending
    <3> QED
      BY <1>2, <2>3, <2>7, <3>1 DEF NotesTold
  <2>10. k + 1 <= server.note
    BY <2>6, <2>7
  <2>11. NotesTold'
    BY <1>1, <2>3, <2>4, <2>8, <2>9, <2>10 DEF NotesTold
  <2> QED
    BY <1>0, <1>1, <1>3, <2>3, <2>11, TakingKeeps DEF OneTurnInv
<1>4. CASE n.method = "usage"
  <2>1. /\ sent' = IF n.number > track.total THEN [sent EXCEPT !.billed = @ + 1] ELSE sent
        /\ track' = [track EXCEPT !.total = IF n.number > @ THEN n.number ELSE @]
    BY <1>0, <1>4 DEF OneTurn!Read, OneTurn!Billed
  <2>2. PICK k \in Nat : k = track.total
    BY <1>1 DEF Tracks
  <2>3. sent.billed = k /\ k + 1 \in Nat
    BY <1>2, <2>2 DEF BillTold
  <2>4. /\ Covers(queue, "usage", k, server.requests) /\ server.requests \in Nat /\ k <= server.requests
    BY <1>2, <2>2, OneTurnTyped DEF BillTold
  <2>5. PICK new \in Nat : /\ new = (IF n.number > k THEN n.number ELSE k)
                           /\ new = (IF n.number > k THEN k + 1 ELSE k) /\ new <= server.requests
                           /\ Covers(queue', "usage", new, server.requests)
    <3>1. CASE n.number > k
      BY <1>0, <1>1, <1>4, <2>4, <3>1, CoversTail
    <3>2. CASE ~(n.number > k)
      <4>1. n.number <= k
        BY <1>1, <3>2
      <4> QED
        BY <1>0, <1>1, <1>4, <2>4, <3>2, <4>1, CoversTail
    <3> QED
      BY <3>1, <3>2
  <2>6. /\ sent' = [sent EXCEPT !.billed = new]
        /\ track' = [track EXCEPT !.total = new]
    <3>1. CASE n.number > k
      BY <1>1, <2>1, <2>2, <2>3, <2>5, <3>1 DEF Outs, Tracks
    <3>2. CASE ~(n.number > k)
      BY <1>1, <2>1, <2>2, <2>3, <2>5, <3>2 DEF Outs, Tracks
    <3> QED
      BY <3>1, <3>2
  <2>7. /\ Takes /\ track'.at = "reading" /\ track'.streamed = track.streamed
        /\ track'.total = new /\ track'.agent = track.agent
        /\ sent'.notes = sent.notes /\ sent'.billed = new
        /\ sent'.audited = sent.audited /\ sent'.cards = sent.cards
    BY <1>1, <2>6 DEF Takes, Tracks, Outs
  <2>8. BillTold'
    BY <1>1, <2>5, <2>7 DEF BillTold
  <2> QED
    BY <1>0, <1>1, <1>4, <2>7, <2>8, TakingKeeps DEF OneTurnInv
<1> QED
  BY <1>0, <1>3, <1>4

LEMMA ReadAgent ==
  ASSUME OneTurnInv, OneTurn!Read, Head(queue).method = "agent"
  PROVE  OneTurnInv'
<1>0. PICK n \in Says : n = Head(queue)
  BY OneTurnTyped, Taking DEF OneTurn!Read
<1>1. /\ queue \in Seq(Says) /\ track \in Tracks /\ sent \in Outs
      /\ track.at = "reading" /\ context = "live" /\ queue # <<>>
      /\ queue' = Tail(queue) /\ UNCHANGED <<streams, server, context>>
  BY OneTurnTyped DEF OneTurn!Read
<1>2. AgentTold
  BY <1>1 DEF OneTurnInv
<1>3. LastWord(queue', n.of, server.agent) /\ n.of \in OneTurn!AgentStates \ {"none"}
  BY <1>0, <1>1, <1>2, LastWordTail DEF AgentTold
<1>4. /\ sent' = IF track.agent = n.of THEN sent ELSE [sent EXCEPT !.cards = Append(@, n.of)]
      /\ track' = [track EXCEPT !.agent = n.of]
  BY <1>0 DEF OneTurn!Read, OneTurn!Carded
<1>5. PICK cards : cards = IF track.agent = n.of THEN sent.cards ELSE Append(sent.cards, n.of)
  OBVIOUS
<1>6. cards \in Seq(OneTurn!AgentStates) /\ sent' = [sent EXCEPT !.cards = cards]
  <2>1. sent.cards \in Seq(OneTurn!AgentStates)
    BY <1>1 DEF Outs
  <2>2. Append(sent.cards, n.of) \in Seq(OneTurn!AgentStates)
    BY <1>3, <2>1
  <2>3. CASE track.agent = n.of
    BY <1>1, <1>4, <1>5, <2>1, <2>3 DEF Outs
  <2>4. CASE track.agent # n.of
    BY <1>1, <1>4, <1>5, <2>2, <2>4 DEF Outs
  <2> QED
    BY <2>3, <2>4
<1>7. /\ Takes /\ track'.at = "reading" /\ track'.streamed = track.streamed
      /\ track'.total = track.total /\ track'.agent = n.of
      /\ sent'.notes = sent.notes /\ sent'.billed = sent.billed
      /\ sent'.audited = sent.audited /\ sent'.cards = cards
  BY <1>1, <1>3, <1>4, <1>6 DEF Takes, Tracks, Outs
<1>8. Carded(cards, n.of)
  <2>1. CASE track.agent = n.of
    BY <1>2, <1>5, <2>1 DEF AgentTold
  <2>2. CASE track.agent # n.of
    <3>1. cards # <<>> /\ cards[Len(cards)] = n.of
      <4>1. sent.cards \in Seq(OneTurn!AgentStates) /\ n.of \in OneTurn!AgentStates
        BY <1>1, <1>3 DEF Outs
      <4>2. cards = Append(sent.cards, n.of)
        BY <1>5, <2>2
      <4> QED
        BY <4>1, <4>2, Appending
    <3> QED
      BY <1>3, <3>1 DEF Carded
  <2> QED
    BY <2>1, <2>2
<1>9. AgentTold'
  BY <1>1, <1>3, <1>7, <1>8 DEF AgentTold
<1> QED
  BY <1>0, <1>1, <1>7, <1>9, TakingKeeps DEF OneTurnInv

LEMMA ReadTool ==
  ASSUME OneTurnInv, OneTurn!Read, Head(queue).method \in {"started", "completed"}
  PROVE  OneTurnInv'
<1>0. PICK n \in Says : n = Head(queue)
  BY OneTurnTyped, Taking DEF OneTurn!Read
<1>1. /\ queue \in Seq(Says) /\ track \in Tracks /\ sent \in Outs
      /\ track.at = "reading" /\ context = "live" /\ queue # <<>>
      /\ queue' = Tail(queue) /\ UNCHANGED <<streams, server, context>>
  BY OneTurnTyped DEF OneTurn!Read
<1>2. ToolsTold
  BY <1>1 DEF OneTurnInv
<1>3. n.of \in OneTurn!Tools
  <2>1. Head(queue) = queue[1] /\ 1 \in DOMAIN queue
    BY <1>1
  <2> QED
    BY <1>0, <1>2, <2>1 DEF ToolsTold
<1>4. /\ sent' = IF (n.of \in Patches) = (n.method = "completed")
                 THEN [sent EXCEPT !.audited = Append(@, n.of)] ELSE sent
      /\ track' = track
  <2>1. n.method \notin {"delta", "usage", "agent", "end"}
    BY <1>0
  <2> QED
    BY <1>0, <2>1 DEF OneTurn!Read, OneTurn!Audited
<1>5. PICK audited : audited = IF Audits(n, n.of) THEN Append(sent.audited, n.of) ELSE sent.audited
  OBVIOUS
<1>6. audited \in Seq(OneTurn!Tools) /\ sent' = [sent EXCEPT !.audited = audited]
  <2>1. sent.audited \in Seq(OneTurn!Tools) /\ Append(sent.audited, n.of) \in Seq(OneTurn!Tools)
    BY <1>1, <1>3 DEF Outs
  <2>2. Audits(n, n.of) <=> ((n.of \in Patches) = (n.method = "completed"))
    BY <1>0 DEF Audits
  <2>3. CASE Audits(n, n.of)
    BY <1>1, <1>4, <1>5, <2>1, <2>2, <2>3 DEF Outs
  <2>4. CASE ~Audits(n, n.of)
    BY <1>1, <1>4, <1>5, <2>1, <2>2, <2>4 DEF Outs
  <2> QED
    BY <2>3, <2>4
<1>7. /\ Takes /\ track'.at = "reading" /\ track'.streamed = track.streamed
      /\ track'.total = track.total /\ track'.agent = track.agent
      /\ sent'.notes = sent.notes /\ sent'.billed = sent.billed
      /\ sent'.audited = audited /\ sent'.cards = sent.cards
  BY <1>1, <1>4, <1>6 DEF Takes, Outs
<1>8. ASSUME NEW t \in OneTurn!Tools
      PROVE  /\ AuditedOnce(queue', audited, t)
             /\ IsAudited(queue', audited, t) <=> Due(t)
  <2>0. /\ AuditedOnce(queue, sent.audited, t)
        /\ IsAudited(queue, sent.audited, t) <=> Due(t)
        /\ sent.audited \in Seq(OneTurn!Tools)
    BY <1>1, <1>2 DEF ToolsTold, Outs
  <2>1. CASE t = n.of /\ Audits(n, t)
    BY <1>0, <1>1, <1>5, <2>0, <2>1, AuditTail
  <2>2. CASE ~Audits(n, t)
    <3>1. /\ AuditedOnce(queue', sent.audited, t)
          /\ IsAudited(queue', sent.audited, t) <=> Due(t)
      BY <1>0, <1>1, <2>0, <2>2, AuditTail
    <3>2. CASE audited = sent.audited
      BY <3>1, <3>2
    <3>3. CASE audited = Append(sent.audited, n.of) /\ t # n.of
      <4>1. queue' \in Seq(Says)
        BY <1>1
      <4> QED
        BY <1>3, <2>0, <3>1, <3>3, <4>1, AuditOther
    <3> QED
      BY <1>5, <2>2, <3>2, <3>3
  <2> QED
    BY <2>1, <2>2 DEF Audits
<1>9. ToolsTold'
  <2>1. \A i \in DOMAIN queue' : \E j \in DOMAIN queue : queue'[i] = queue[j]
    BY <1>1, Taking
  <2>2. \A i \in DOMAIN queue' : queue'[i].method \in {"started", "completed"} => queue'[i].of \in OneTurn!Tools
    BY <1>2, <2>1 DEF ToolsTold
  <2>3. \A t \in OneTurn!Tools : Due(t)' <=> Due(t)
    BY <1>1 DEF Due
  <2> QED
    BY <1>7, <1>8, <2>2, <2>3 DEF ToolsTold
<1> QED
  BY <1>0, <1>1, <1>7, <1>9, TakingKeeps DEF OneTurnInv
LEMMA ReadEnd ==
  ASSUME OneTurnInv, OneTurn!Read, Head(queue).method = "end"
  PROVE  OneTurnInv'
<1>0. PICK n \in Says : n = Head(queue)
  BY OneTurnTyped, Taking DEF OneTurn!Read
<1>1. /\ queue \in Seq(Says) /\ track \in Tracks /\ sent \in Outs
      /\ server.note \in Nat /\ server.requests \in Nat
      /\ track.at = "reading" /\ context = "live" /\ queue # <<>>
      /\ queue' = Tail(queue) /\ UNCHANGED <<streams, server, context>>
  BY OneTurnTyped DEF OneTurn!Read
<1>2. NotesTold /\ BillTold /\ ToolsTold /\ AgentTold /\ EndTold
  BY <1>1 DEF OneTurnInv
<1>3. queue' = <<>> /\ n.of = server.ends /\ server.ends # "no"
  BY <1>0, <1>1, <1>2, EndsTail DEF EndTold
<1>4. \A i \in DOMAIN queue : queue[i].method = "end"
  <2>1. /\ Head(queue) = queue[1]
        /\ \A i \in DOMAIN queue : i # 1 => \E k \in DOMAIN queue' : i = k + 1
    BY <1>1, Taking
  <2>2. \A i \in DOMAIN queue : i = 1
    BY <1>3, <2>1
  <2> QED
    BY <2>1, <2>2
<1>5. sent.notes \in Seq(Nat)
  BY <1>1 DEF Outs
<1> DEFINE whole == [i \in 1..server.note |-> i]
<1>7. whole \in Seq(Nat) /\ <<>> \o whole = whole
  BY <1>1
<1>8. PICK notes : notes = IF server.ends = "completed" /\ ~track.streamed THEN whole ELSE sent.notes
  OBVIOUS
<1>9. /\ notes \in Seq(Nat) /\ sent' = [sent EXCEPT !.notes = notes]
      /\ track' = [track EXCEPT !.at = "closed"]
  <2>1. /\ sent' = IF n.of = "completed"
                   THEN IF track.streamed THEN sent ELSE [sent EXCEPT !.notes = @ \o whole] ELSE sent
        /\ track' = [track EXCEPT !.at = "closed"]
    BY <1>0 DEF OneTurn!Read, OneTurn!Whole
  <2>2. ~track.streamed => sent.notes = <<>>
    BY <1>1, <1>2 DEF NotesTold, Tracks
  <2> HIDE DEF whole
  <2>3. CASE server.ends = "completed" /\ ~track.streamed
    BY <1>1, <1>3, <1>7, <1>8, <2>1, <2>2, <2>3 DEF Outs
  <2>4. CASE ~(server.ends = "completed" /\ ~track.streamed)
    BY <1>1, <1>3, <1>5, <1>8, <2>1, <2>4 DEF Outs
  <2> QED
    BY <2>1, <2>3, <2>4
<1>10. /\ track'.at = "closed" /\ track' \in Tracks /\ sent' \in Outs
       /\ sent'.notes = notes /\ sent'.billed = sent.billed /\ sent'.audited = sent.audited
       /\ sent'.cards = sent.cards
  BY <1>1, <1>9 DEF Tracks, Outs
<1>11. TurnTyped'
  BY <1>1, <1>3, <1>10 DEF OneTurnInv, TurnTyped
<1>12. server.ends = "completed" => notes = whole
  <2>1. CASE ~track.streamed
    BY <1>8, <2>1
  <2>2. CASE track.streamed
    <3>1. sent.notes # <<>> /\ streams /\ \A i \in DOMAIN sent.notes : sent.notes[i] = i
      BY <1>2, <2>2 DEF NotesTold
    <3>2. PICK k \in Nat : k = Len(sent.notes)
      BY <1>5
    <3>3. Covers(queue, "delta", k, server.note) /\ k <= server.note
      BY <1>2, <3>1, <3>2 DEF NotesTold
    <3>4. ~(k < k + 1 /\ k + 1 <= server.note)
      <4>1. k + 1 \in Nat
        OBVIOUS
      <4> QED
        BY <1>4, <3>3, <4>1 DEF Covers
    <3>5. k = server.note
      BY <1>1, <3>3, <3>4
    <3>6. sent.notes = whole
      <4>1. DOMAIN sent.notes = 1..server.note
        <5>1. \A q \in Seq(Nat) : DOMAIN q = 1..Len(q)
          OBVIOUS
        <5>2. DOMAIN sent.notes = 1..k
          BY <1>5, <3>2, <5>1
        <5> QED
          BY <3>5, <5>2
      <4>2. sent.notes = [i \in DOMAIN sent.notes |-> sent.notes[i]]
        BY <1>5
      <4> QED
        BY <3>1, <4>1, <4>2
    <3> QED
      BY <1>8, <3>6
  <2> QED
    BY <2>1, <2>2
<1>13. sent.billed = server.requests
  <2>1. PICK k \in Nat : k = track.total
    BY <1>1 DEF Tracks
  <2>2. Covers(queue, "usage", k, server.requests) /\ k <= server.requests /\ sent.billed = k
    BY <1>2, <2>1 DEF BillTold
  <2>3. ~(k < k + 1 /\ k + 1 <= server.requests)
    <3>1. k + 1 \in Nat
      OBVIOUS
    <3> QED
      BY <1>4, <2>2, <3>1 DEF Covers
  <2> QED
    BY <1>1, <2>2, <2>3
<1>14. ASSUME server.ends = "completed", NEW t \in OneTurn!Tools
       PROVE  OneTurn!Cardinality({i \in DOMAIN sent.audited : sent.audited[i] = t})
                = IF server.tools[t] = "none" THEN 0 ELSE 1
  <2> DEFINE A == {i \in DOMAIN sent.audited : sent.audited[i] = t}
  <2>1. /\ \A i, j \in DOMAIN sent.audited : sent.audited[i] = t /\ sent.audited[j] = t => i = j
        /\ (\E j \in DOMAIN sent.audited : sent.audited[j] = t) <=> Due(t)
    <3>1. AuditedOnce(queue, sent.audited, t) /\ (IsAudited(queue, sent.audited, t) <=> Due(t))
      BY <1>2 DEF ToolsTold
    <3>2. \A i \in DOMAIN queue : ~Audits(queue[i], t)
      BY <1>4 DEF Audits
    <3> QED
      BY <3>1, <3>2 DEF AuditedOnce, IsAudited
  <2>2. Due(t) <=> server.tools[t] # "none"
    <3>1. server.tools[t] \in {"none", "started", "completed"} /\ server.tools[t] # "started"
      BY <1>2, <1>14, OneTurnTyped DEF EndTold
    <3> QED
      BY <3>1 DEF Due
  <2>3. \A S : OneTurn!Cardinality(S) = Cardinality(S)
    BY DEF OneTurn!Cardinality, Cardinality
  <2>4. CASE server.tools[t] = "none"
    <3>1. A = {}
      BY <2>1, <2>2, <2>4
    <3> QED
      BY <2>3, <2>4, <3>1, FS_EmptySet
  <2>5. CASE server.tools[t] # "none"
    <3>1. PICK i : A = {i}
      BY <2>1, <2>2, <2>5
    <3>2. Cardinality({i}) = 1
      BY FS_Singleton
    <3> QED
      BY <2>3, <2>5, <3>1, <3>2
  <2> QED
    BY <2>4, <2>5
<1>15. IF server.agent = "none" THEN sent.cards = <<>> ELSE OneTurn!Last(sent.cards) = server.agent
  <2>1. track.agent = server.agent /\ Carded(sent.cards, server.agent)
    BY <1>2, <1>4 DEF AgentTold, LastWord
  <2> QED
    BY <2>1 DEF Carded, OneTurn!Last
<1>16. TurnIsToldOnce'
  BY <1>1, <1>10, <1>12, <1>13, <1>14, <1>15 DEF TurnIsToldOnce, OneTurn!TurnIsToldOnce
<1> QED
  BY <1>1, <1>3, <1>10, <1>11, <1>16 DEF OneTurnInv

LEMMA InitMeetsOneTurn == Init => OneTurnInv
BY InitOneTurnInv DEF Init

LEMMA NextOneTurnInv ==
  ASSUME OneTurnInv, [OneTurn!CodexTurnNext]_codexTurnVars
  PROVE  OneTurnInv'
<1>1. CASE OneTurn!Note \/ OneTurn!Spend \/ OneTurn!Repeat
  BY <1>1, NoteKeeps, UsageKeeps
<1>2. CASE OneTurn!Read
  <2>1. Head(queue) \in Says
    BY <1>2, OneTurnTyped, Taking DEF OneTurn!Read
  <2>2. Head(queue).method \in Methods
    BY <2>1 DEF Says
  <2> QED
    BY <1>2, <2>2, ReadNumbered, ReadAgent, ReadTool, ReadEnd DEF Methods
<1>3. CASE OneTurn!Leave
  <2>1. /\ context' = "done" /\ track' = [track EXCEPT !.at = "closed"]
        /\ UNCHANGED <<streams, server, queue, sent>>
    BY <1>3 DEF OneTurn!Leave
  <2>2. track' \in Tracks
    BY <2>1, OneTurnTyped DEF Tracks
  <2> QED
    BY <2>1, <2>2 DEF OneTurnInv, TurnTyped
<1>4. ASSUME UNCHANGED <<streams, server, queue, track, sent, context>>
      PROVE  OneTurnInv'
  BY <1>4 DEF OneTurnInv, TurnTyped, NotesTold, BillTold, ToolsTold, AgentTold, EndTold, Due,
    TurnIsToldOnce, OneTurn!TurnIsToldOnce
<1>5. ASSUME NEW t \in OneTurn!Tools,
             OneTurn!Ask(t) \/ OneTurn!Relay(t) \/ \E v \in {"accepted", "declined"} : OneTurn!Decide(t, v)
      PROVE  OneTurnInv'
  BY <1>4, <1>5 DEF OneTurn!Ask, OneTurn!Relay, OneTurn!Decide, OneTurn!rest
<1>6. CASE UNCHANGED codexTurnVars
  BY <1>4, <1>6 DEF codexTurnVars
<1> QED
  BY <1>1, <1>2, <1>3, <1>5, <1>6, AgentKeeps, EndKeeps, ToolKeeps DEF OneTurn!CodexTurnNext

LEMMA OneTurnInvMeans == OneTurnInv => TurnIsToldOnce
<1> SUFFICES ASSUME OneTurnInv, track.at = "closed", context = "live" PROVE TurnIsToldOnce
  BY DEF TurnIsToldOnce, OneTurn!TurnIsToldOnce
<1> QED
  BY DEF OneTurnInv

-----------------------------------------------------------------------------
(* Types of the usage tracker. Its backoff is a power of two, and it takes the youngest   *)
(* snapshot and the soonest deadline: a power of two counts the subsets of an interval,   *)
(* and what is not empty among the naturals has a least element.                          *)
LEMMA PowersOfTwo == \A n \in Nat : 2 ^ n \in Nat
<1> SUFFICES ASSUME NEW n \in Nat PROVE 2 ^ n \in Nat
  OBVIOUS
<1>1. IsFiniteSet(1..n) /\ Cardinality(1..n) = n
  BY FS_Interval, SMT
<1>2. IsFiniteSet(SUBSET (1..n)) /\ Cardinality(SUBSET (1..n)) = 2 ^ n
  BY <1>1, FS_SUBSET
<1> QED
  BY <1>2, FS_CardinalityType

Below == {ss \in Nat \X Nat : ss[1] < ss[2]}
LEMMA BelowIsWellFounded == IsWellFoundedOn(Below, Nat)
BY NatLessThanWellFounded DEF Below, OpToRel

LEMMA LeastOf ==
  ASSUME NEW S \in SUBSET Nat, S # {}
  PROVE  \E s \in S : \A t \in S : s <= t
<1>1. PICK s \in S : \A t \in S : ~ (<<t, s>> \in Below)
  BY BelowIsWellFounded, WFMin
<1>2. ASSUME NEW t \in S PROVE s <= t
  <2>1. s \in Nat /\ t \in Nat /\ <<t, s>> \in Nat \X Nat
    OBVIOUS
  <2>2. ~ (t < s)
    BY <1>1, <2>1 DEF Below
  <2> QED
    BY <2>1, <2>2
<1> QED
  BY <1>2

\* No delay leads past the horizon.
LEMMA HorizonFits ==
  /\ Usage!Horizon \in Nat
  /\ \A t \in 1..MaxTime, d \in {0, RetryAfter, BackoffCap, Interval, Cooldown} : t + d \in 0..Usage!Horizon
<1> DEFINE S == {RetryAfter, BackoffCap, Interval, Cooldown}
<1>1. \E m \in S : \A d \in S : d <= m
  BY BoundsAssumption, CooldownAssumption
<1> DEFINE m == Usage!Max(S)
<1>2. m \in S /\ \A d \in S : d <= m
  BY <1>1, BoundsAssumption, CooldownAssumption DEF Usage!Max
<1>3. m \in Nat
  BY <1>2, BoundsAssumption, CooldownAssumption
<1>4. Usage!Horizon = MaxTime + m
  BY DEF Usage!Horizon
<1> HIDE DEF m
<1> QED
  BY <1>2, <1>3, <1>4, BoundsAssumption, CooldownAssumption

RoundStates ==
  [at : {"idle", "fetch", "renew", "record", "rebuild"}, since : 0..MaxTime, renewed : BOOLEAN,
   snap : Usage!Snapshot, retry : 0..Usage!Horizon]

LEMMA UsageTypes ==
  Usage!UsageTypeOK <=>
    /\ now \in 1..MaxTime /\ token \in {"good", "expired", "absent"}
    /\ cache \in [Profiles -> Usage!Snapshot]
    /\ gate \in 0..Usage!Horizon /\ backoff \in 0..Usage!Horizon /\ failures \in Nat
    /\ renewAt \in 0..Usage!Horizon /\ nudge \in {"none", "kick", "now"} /\ wakeAt \in 0..Usage!Horizon
    /\ round \in [Usage!Rounds -> RoundStates] /\ happened \in 0..MaxEvents
BY DEF Usage!UsageTypeOK, RoundStates

LEMMA NothingYet == Usage!NoSnapshot \in Usage!Snapshot /\ Usage!NoRound \in RoundStates
<1>1. 0 \in 0..MaxTime /\ 0 \in 0..Usage!Horizon
  BY BoundsAssumption, HorizonFits
<1>2. Usage!NoSnapshot \in Usage!Snapshot
  BY <1>1 DEF Usage!NoSnapshot, Usage!Snapshot, Usage!Statuses
<1> QED
  BY <1>1, <1>2 DEF Usage!NoRound, RoundStates

\* The last snapshot is some profile's: times are bounded, so one of them is the youngest.
LEMMA LastTyped ==
  ASSUME Usage!UsageTypeOK
  PROVE  Usage!Last \in Usage!Snapshot
<1> DEFINE Ages == {MaxTime - cache[p].at : p \in Profiles}
           Snaps == {cache[p] : p \in Profiles}
<1>1. \A p \in Profiles : cache[p] \in Usage!Snapshot /\ cache[p].at \in 0..MaxTime
  BY UsageTypes DEF Usage!Snapshot
<1>2. Ages \in SUBSET Nat /\ Ages # {}
  BY <1>1, BoundsAssumption, NamesAssumption
<1>3. PICK p \in Profiles : \A t \in Ages : MaxTime - cache[p].at <= t
  BY <1>2, LeastOf
<1>4. \A q \in Profiles : cache[q].at <= cache[p].at
  <2> TAKE q \in Profiles
  <2>1. MaxTime - cache[p].at <= MaxTime - cache[q].at
    BY <1>3
  <2> QED
    BY <1>1, <2>1, BoundsAssumption
<1>5. \E s \in Snaps : \A q \in Profiles : cache[q].at <= s.at
  BY <1>4
<1>6. Usage!Last \in Snaps
  BY <1>5 DEF Usage!Last
<1> QED
  BY <1>1, <1>6

LEMMA WaitsTyped ==
  ASSUME Usage!UsageTypeOK, NEW first \in Nat, NEW most \in {Interval, BackoffCap}
  PROVE  Usage!Waits(first, most) \in 0..Usage!Horizon
<1> DEFINE d == first * (2 ^ failures)
<1>1. 2 ^ failures \in Nat
  BY PowersOfTwo, UsageTypes
<1>2. d \in Nat
  <2> DEFINE power == 2 ^ failures
  <2> HIDE DEF power
  <2>1. first * power \in Nat
    BY <1>1 DEF power
  <2> QED
    BY <2>1 DEF power
<1>3. now \in 1..MaxTime /\ most \in Nat /\ now + most \in 0..Usage!Horizon
  BY UsageTypes, HorizonFits, BoundsAssumption
<1>4. Usage!Waits(first, most) = now + Usage!Least(d, most)
  BY DEF Usage!Waits
<1> HIDE DEF d
<1>5. Usage!Least(d, most) \in Nat /\ Usage!Least(d, most) <= most
  BY <1>2, <1>3 DEF Usage!Least
<1> QED
  BY <1>3, <1>4, <1>5, HorizonFits, BoundsAssumption

LEMMA InitUsageTyped == Usage!UsageInit => Usage!UsageTypeOK
<1> SUFFICES ASSUME Usage!UsageInit PROVE Usage!UsageTypeOK
  OBVIOUS
<1>1. 0 \in 0..Usage!Horizon /\ 1 \in 0..Usage!Horizon /\ 1 \in 1..MaxTime /\ 0 \in 0..MaxEvents
  <2>1. 1 \in 1..MaxTime
    BY BoundsAssumption
  <2>2. 1 + 0 \in 0..Usage!Horizon
    BY <2>1, HorizonFits
  <2> QED
    BY <2>1, <2>2, HorizonFits, BoundsAssumption
<1> QED
  BY <1>1, NothingYet, UsageTypes DEF Usage!UsageInit

\* A round's step that leaves the clock, the cache and the delays alone.
LEMMA RoundTyped ==
  ASSUME Usage!UsageTypeOK, NEW r \in Usage!Rounds, NEW s \in RoundStates, round' = [round EXCEPT ![r] = s],
         token' \in {"good", "expired", "absent"}, renewAt' \in 0..Usage!Horizon,
         gate' \in 0..Usage!Horizon, backoff' \in 0..Usage!Horizon, failures' \in Nat,
         nudge' \in {"none", "kick", "now"}, happened' \in 0..MaxEvents,
         UNCHANGED <<now, cache, wakeAt>>
  PROVE  Usage!UsageTypeOK'
<1> USE UsageTypes
<1>1. round' \in [Usage!Rounds -> RoundStates]
  OBVIOUS
<1> QED
  BY <1>1 DEF Usage!UsageTypeOK, RoundStates

LEMMA EnterTyped ==
  ASSUME Usage!UsageTypeOK, NEW r \in Usage!Rounds, NEW force \in BOOLEAN, Usage!Enter(r, force),
         nudge' \in {"none", "kick", "now"}, happened' \in 0..MaxEvents,
         UNCHANGED <<now, token, cache, gate, backoff, failures, renewAt, wakeAt>>
  PROVE  Usage!UsageTypeOK'
<1>1. /\ now \in 1..MaxTime /\ gate \in 0..Usage!Horizon /\ backoff \in 0..Usage!Horizon
      /\ failures \in Nat /\ renewAt \in 0..Usage!Horizon /\ token \in {"good", "expired", "absent"}
  BY UsageTypes
<1>2. now \in 0..MaxTime
  BY <1>1, BoundsAssumption
<1>3. [Usage!NoRound EXCEPT !.at = "fetch", !.since = now] \in RoundStates
  BY <1>2, NothingYet DEF RoundStates
<1>4. Usage!Skipped \in Usage!Snapshot
  BY <1>1, <1>2, LastTyped DEF Usage!Skipped, Usage!Snapshot, Usage!Statuses
<1>5. [Usage!NoRound EXCEPT !.at = "record", !.snap = Usage!Skipped] \in RoundStates
  BY <1>4, NothingYet DEF RoundStates
<1>6. \E s \in RoundStates : round' = [round EXCEPT ![r] = s]
  BY <1>3, <1>5 DEF Usage!Enter
<1> QED
  BY <1>1, <1>6, RoundTyped

LEMMA AnswerTyped ==
  ASSUME Usage!UsageTypeOK, NEW r \in Usage!Rounds, Usage!Answer(r)
  PROVE  Usage!UsageTypeOK'
<1>1. /\ now \in 1..MaxTime /\ gate \in 0..Usage!Horizon /\ backoff \in 0..Usage!Horizon
      /\ failures \in Nat /\ renewAt \in 0..Usage!Horizon /\ token \in {"good", "expired", "absent"}
      /\ nudge \in {"none", "kick", "now"} /\ happened \in 0..MaxEvents /\ round[r] \in RoundStates
      /\ round \in [Usage!Rounds -> RoundStates]
  BY UsageTypes
<1>2. now \in 0..MaxTime /\ now + Cooldown \in 0..Usage!Horizon /\ now + RetryAfter \in 0..Usage!Horizon
  BY <1>1, HorizonFits, BoundsAssumption
<1>3. UNCHANGED <<now, token, cache, gate, backoff, failures, nudge, wakeAt, happened>>
  BY DEF Usage!Answer, Usage!gates
<1>4. PICK s \in Usage!Outcomes :
        IF Usage!Renewable(r, s)
        THEN /\ renewAt' = Usage!Claimed
             /\ round' = [round EXCEPT ![r].at = "renew", ![r].since = now]
        ELSE /\ round' = [round EXCEPT ![r].at = "record", ![r].snap = Usage!Fetched(r, s)]
             /\ UNCHANGED renewAt
  BY DEF Usage!Answer
<1>5. CASE Usage!Renewable(r, s)
  <2> DEFINE renewing == [round[r] EXCEPT !.at = "renew", !.since = now]
  <2>1. renewing \in RoundStates
    BY <1>1, <1>2 DEF RoundStates
  <2>2. renewAt' \in 0..Usage!Horizon /\ round' = [round EXCEPT ![r] = renewing]
    BY <1>1, <1>2, <1>4, <1>5 DEF Usage!Claimed
  <2> HIDE DEF renewing
  <2> QED
    BY <1>1, <1>3, <2>1, <2>2, RoundTyped
<1>6. CASE ~Usage!Renewable(r, s)
  <2> DEFINE recording == [round[r] EXCEPT !.at = "record", !.snap = Usage!Fetched(r, s)]
  <2>1. s \in Usage!Statuses
    BY <1>1 DEF Usage!Outcomes, Usage!Statuses
  <2>2. round[r].since \in 0..MaxTime /\ 0 \in 0..Usage!Horizon
    BY <1>1, HorizonFits DEF RoundStates
  <2>3. Usage!Fetched(r, s) \in Usage!Snapshot
    BY <1>2, <2>1, <2>2, NothingYet DEF Usage!Fetched, Usage!Snapshot
  <2>4. recording \in RoundStates
    BY <1>1, <2>3 DEF RoundStates
  <2>5. renewAt' = renewAt /\ round' = [round EXCEPT ![r] = recording]
    BY <1>1, <1>4, <1>6
  <2> HIDE DEF recording
  <2> QED
    BY <1>1, <1>3, <2>4, <2>5, RoundTyped
<1> QED
  BY <1>5, <1>6

LEMMA RenewTyped ==
  ASSUME Usage!UsageTypeOK, NEW r \in Usage!Rounds, Usage!Renew(r)
  PROVE  Usage!UsageTypeOK'
<1>1. /\ now \in 1..MaxTime /\ gate \in 0..Usage!Horizon /\ backoff \in 0..Usage!Horizon
      /\ failures \in Nat /\ renewAt \in 0..Usage!Horizon /\ token \in {"good", "expired", "absent"}
      /\ nudge \in {"none", "kick", "now"} /\ happened \in 0..MaxEvents /\ round[r] \in RoundStates
      /\ round \in [Usage!Rounds -> RoundStates]
  BY UsageTypes
<1>2. now \in 0..MaxTime
  BY <1>1, BoundsAssumption
<1> DEFINE again == [round[r] EXCEPT !.at = "fetch", !.since = now, !.renewed = TRUE]
<1>3. again \in RoundStates
  BY <1>1, <1>2 DEF RoundStates
<1>4. round' = [round EXCEPT ![r] = again]
  BY <1>1 DEF Usage!Renew
<1>5. UNCHANGED <<now, cache, gate, backoff, failures, renewAt, nudge, wakeAt, happened>>
  BY DEF Usage!Renew, Usage!gates
<1>6. token' \in {"good", "expired", "absent"}
  BY <1>1 DEF Usage!Renew
<1> HIDE DEF again
<1> QED
  BY <1>1, <1>3, <1>4, <1>5, <1>6, RoundTyped

LEMMA RecordTyped ==
  ASSUME Usage!UsageTypeOK, NEW r \in Usage!Rounds, Usage!Record(r)
  PROVE  Usage!UsageTypeOK'
<1>1. /\ now \in 1..MaxTime /\ gate \in 0..Usage!Horizon /\ backoff \in 0..Usage!Horizon
      /\ failures \in Nat /\ renewAt \in 0..Usage!Horizon /\ token \in {"good", "expired", "absent"}
      /\ nudge \in {"none", "kick", "now"} /\ happened \in 0..MaxEvents /\ round[r] \in RoundStates
      /\ round \in [Usage!Rounds -> RoundStates]
  BY UsageTypes
<1>2. round[r].snap.retry \in 0..Usage!Horizon /\ 0 \in 0..Usage!Horizon
  BY <1>1, HorizonFits DEF RoundStates, Usage!Snapshot
<1>3. Usage!Waits(StaleRetry, Interval) \in 0..Usage!Horizon /\ Usage!Waits(BackoffBase, BackoffCap) \in 0..Usage!Horizon
  BY WaitsTyped, BoundsAssumption
<1>4. UNCHANGED <<now, token, cache, renewAt, nudge, wakeAt, happened>>
  BY DEF Usage!Record
<1>5. gate' \in 0..Usage!Horizon /\ backoff' \in 0..Usage!Horizon /\ failures' \in Nat
  BY <1>1, <1>2, <1>3 DEF Usage!Record
<1>6. \/ round' = [round EXCEPT ![r].at = "rebuild"]
      \/ \E t \in 0..Usage!Horizon : round' = [round EXCEPT ![r].at = "rebuild", ![r].retry = t]
  BY <1>5 DEF Usage!Record
<1>7. \E s \in RoundStates : round' = [round EXCEPT ![r] = s]
  <2>1. CASE round' = [round EXCEPT ![r].at = "rebuild"]
    <3>1. [round[r] EXCEPT !.at = "rebuild"] \in RoundStates
      BY <1>1 DEF RoundStates
    <3> QED
      BY <1>1, <2>1, <3>1
  <2>2. ASSUME NEW t \in 0..Usage!Horizon, round' = [round EXCEPT ![r].at = "rebuild", ![r].retry = t]
        PROVE  \E s \in RoundStates : round' = [round EXCEPT ![r] = s]
    <3>1. [round[r] EXCEPT !.at = "rebuild", !.retry = t] \in RoundStates
      BY <1>1 DEF RoundStates
    <3> QED
      BY <1>1, <2>2, <3>1
  <2> QED
    BY <1>6, <2>1, <2>2
<1> QED
  BY <1>1, <1>4, <1>5, <1>7, RoundTyped

LEMMA RebuildTyped ==
  ASSUME Usage!UsageTypeOK, NEW r \in Usage!Rounds, Usage!Rebuild(r)
  PROVE  Usage!UsageTypeOK'
<1>1. /\ now \in 1..MaxTime /\ gate \in 0..Usage!Horizon /\ backoff \in 0..Usage!Horizon
      /\ failures \in Nat /\ renewAt \in 0..Usage!Horizon /\ token \in {"good", "expired", "absent"}
      /\ nudge \in {"none", "kick", "now"} /\ wakeAt \in 0..Usage!Horizon /\ happened \in 0..MaxEvents
      /\ round[r] \in RoundStates /\ round \in [Usage!Rounds -> RoundStates]
      /\ cache \in [Profiles -> Usage!Snapshot]
  BY UsageTypes
<1>2. Usage!Published(r) \in Usage!Snapshot
  BY <1>1 DEF RoundStates, Usage!Published, Usage!Snapshot
<1>3. ASSUME NEW prev \in Usage!Snapshot, NEW soon \in Usage!Snapshot
      PROVE  Usage!Carry(prev, soon) \in Usage!Snapshot
  BY <1>3 DEF Usage!Carry, Usage!Snapshot
<1>4. cache' \in [Profiles -> Usage!Snapshot]
  BY <1>1, <1>2, <1>3 DEF Usage!Rebuild
<1>5. round' \in [Usage!Rounds -> RoundStates]
  BY <1>1, NothingYet DEF Usage!Rebuild
<1>6. wakeAt' \in 0..Usage!Horizon
  <2> DEFINE dues == {t \in {now + Interval} \cup {cache'[p].retry : p \in Profiles} : t > now}
  <2>1. now \in Nat /\ now + Interval \in 0..Usage!Horizon /\ now + Interval > now
    BY <1>1, HorizonFits, BoundsAssumption
  <2>2. \A p \in Profiles : cache'[p].retry \in 0..Usage!Horizon
    BY <1>4 DEF Usage!Snapshot
  <2>3. dues \subseteq 0..Usage!Horizon /\ now + Interval \in dues
    BY <2>1, <2>2
  <2>4. wakeAt' = IF r # "loop" THEN wakeAt ELSE CHOOSE t \in dues : \A u \in dues : t <= u
    BY DEF Usage!Rebuild
  <2> HIDE DEF dues
  <2>5. \E t \in dues : \A u \in dues : t <= u
    BY <2>3, LeastOf, HorizonFits
  <2> QED
    BY <1>1, <2>3, <2>4, <2>5
<1>7. UNCHANGED <<now, token, gate, backoff, failures, renewAt, nudge, happened>>
  BY DEF Usage!Rebuild, Usage!gates
<1> QED
  BY <1>1, <1>4, <1>5, <1>6, <1>7 DEF Usage!UsageTypeOK, RoundStates

LEMMA NextUsageTyped == Usage!UsageTypeOK /\ [Usage!UsageNext]_usageVars => Usage!UsageTypeOK'
<1> SUFFICES ASSUME Usage!UsageTypeOK, [Usage!UsageNext]_usageVars PROVE Usage!UsageTypeOK'
  OBVIOUS
<1>0. {"loop", "request"} = Usage!Rounds
  BY DEF Usage!Rounds
<1>1. /\ now \in 1..MaxTime /\ token \in {"good", "expired", "absent"}
      /\ cache \in [Profiles -> Usage!Snapshot]
      /\ gate \in 0..Usage!Horizon /\ backoff \in 0..Usage!Horizon /\ failures \in Nat
      /\ renewAt \in 0..Usage!Horizon /\ nudge \in {"none", "kick", "now"} /\ wakeAt \in 0..Usage!Horizon
      /\ round \in [Usage!Rounds -> RoundStates] /\ happened \in 0..MaxEvents
  BY UsageTypes
<1>2. Usage!Outside => happened' \in 0..MaxEvents
  BY <1>1, BoundsAssumption DEF Usage!Outside
<1>3. CASE UNCHANGED usageVars
  BY <1>3 DEF usageVars, Usage!UsageTypeOK, Usage!Rounds, Usage!Snapshot, Usage!Statuses
<1>4. CASE Usage!Poll
  <2>1. UNCHANGED <<now, token, cache, gate, backoff, failures, renewAt, wakeAt, happened>>
    BY <1>4 DEF Usage!Poll, Usage!gates
  <2>2. nudge' \in {"none", "kick", "now"} /\ happened' \in 0..MaxEvents
    BY <1>1, <1>4, <2>1 DEF Usage!Poll
  <2>3. \E force \in BOOLEAN : Usage!Enter("loop", force)
    BY <1>4 DEF Usage!Poll
  <2> QED
    BY <1>0, <2>1, <2>2, <2>3, EnterTyped
<1>5. CASE Usage!Request
  <2>1. UNCHANGED <<now, token, cache, gate, backoff, failures, renewAt, nudge, wakeAt>>
    BY <1>5 DEF Usage!Request, Usage!gates
  <2>2. nudge' \in {"none", "kick", "now"} /\ happened' \in 0..MaxEvents
    BY <1>1, <1>2, <1>5, <2>1 DEF Usage!Request
  <2>3. Usage!Enter("request", TRUE)
    BY <1>5 DEF Usage!Request
  <2> QED
    BY <1>0, <2>1, <2>2, <2>3, EnterTyped
<1>6. ASSUME NEW r \in Usage!Rounds,
             Usage!Answer(r) \/ Usage!Renew(r) \/ Usage!Record(r) \/ Usage!Rebuild(r)
      PROVE  Usage!UsageTypeOK'
  BY <1>6, AnswerTyped, RenewTyped, RecordTyped, RebuildTyped
<1>7. CASE Usage!TurnEnd \/ Usage!SignIn \/ Usage!Expire
  <2>1. UNCHANGED <<now, cache, gate, backoff, failures, renewAt, wakeAt, round>> /\ Usage!Outside
    BY <1>7 DEF Usage!TurnEnd, Usage!SignIn, Usage!Expire, Usage!gates
  <2>2. token' \in {"good", "expired", "absent"} /\ nudge' \in {"none", "kick", "now"}
    BY <1>1, <1>7 DEF Usage!TurnEnd, Usage!SignIn, Usage!Expire, Usage!Kicked
  <2> QED
    BY <1>1, <1>2, <2>1, <2>2 DEF Usage!UsageTypeOK, RoundStates
<1>8. ASSUME NEW p \in Profiles, Usage!Ingest(p) PROVE Usage!UsageTypeOK'
  <2> DEFINE snap == [status |-> "ok", at |-> now, windows |-> TRUE, fetched |-> now,
                      stale |-> FALSE, retry |-> 0, passive |-> TRUE]
  <2>1. snap \in Usage!Snapshot
    BY <1>1, HorizonFits, BoundsAssumption DEF Usage!Snapshot, Usage!Statuses
  <2>2. cache' = [cache EXCEPT ![p] = snap]
    BY <1>8 DEF Usage!Ingest
  <2>3. UNCHANGED <<now, token, gate, backoff, failures, renewAt, nudge, wakeAt, round>> /\ Usage!Outside
    BY <1>8 DEF Usage!Ingest, Usage!gates
  <2> HIDE DEF snap
  <2>4. cache' \in [Profiles -> Usage!Snapshot]
    BY <1>1, <2>1, <2>2
  <2> QED
    BY <1>1, <1>2, <2>3, <2>4 DEF Usage!UsageTypeOK, RoundStates
<1>9. CASE Usage!Tick
  <2>1. UNCHANGED <<token, cache, gate, backoff, failures, renewAt, nudge, wakeAt, round, happened>>
    BY <1>9 DEF Usage!Tick, Usage!gates
  <2>2. now' \in 1..MaxTime
    BY <1>1, <1>9, BoundsAssumption DEF Usage!Tick
  <2> QED
    BY <1>1, <2>1, <2>2 DEF Usage!UsageTypeOK, RoundStates
<1> QED
  BY <1>3, <1>4, <1>5, <1>6, <1>7, <1>8, <1>9 DEF Usage!UsageNext, Usage!UsageProgress

-----------------------------------------------------------------------------
(* Types of a sign-in: LoginInv has those of the sessions and the submissions. *)
LoginTyped ==
  LoginInv /\ rejects \in 0..MaxRejects /\ status \in Login!Seen /\ probe \in Login!Seen

LEMMA LoginTypedMeans == LoginTyped => Login!LoginTypeOK
<1> SUFFICES ASSUME LoginTyped PROVE Login!LoginTypeOK
  OBVIOUS
<1> DEFINE Logins == [at : {"new", "superseding", "listed", "swept"}, phase : Login!Phases,
                      cli : {"none", "running", "passed", "failed"}, cancelled : BOOLEAN,
                      url : BOOLEAN, codes : 0..2]
<1>1. Sessions \subseteq Logins
  BY DEF Sessions
<1>2. login \in [Attempts -> Logins]
  BY <1>1 DEF LoginTyped, LoginInv, LoginTypes
<1> QED
  BY <1>2 DEF LoginTyped, LoginInv, LoginTypes, Login!LoginTypeOK

LEMMA InitLoginTyped == Login!LoginInit => LoginTyped
BY InitLoginInv, BoundsAssumption DEF Login!LoginInit, LoginTyped, Login!Seen

LEMMA NextLoginTyped == LoginTyped /\ [Login!LoginNext]_loginVars => LoginTyped'
<1> SUFFICES ASSUME LoginTyped, [Login!LoginNext]_loginVars PROVE LoginTyped'
  OBVIOUS
<1>1. rejects \in 0..MaxRejects /\ status \in Login!Seen /\ probe \in Login!Seen
  BY DEF LoginTyped
<1>2. CASE UNCHANGED <<rejects, status, probe>>
  BY <1>1, <1>2, NextLoginInv DEF LoginTyped
<1>3. CASE UNCHANGED loginVars
  BY <1>2, <1>3 DEF loginVars
<1>4. ASSUME NEW i \in Attempts,
             \/ Login!Supersede(i) \/ Login!Launch(i) \/ Login!Cancel(i) \/ Login!PrintsUrl(i)
             \/ Login!Passes(i) \/ Login!Fails(i) \/ Login!Reap(i)
      PROVE  LoginTyped'
  BY <1>2, <1>4 DEF Login!Supersede, Login!Launch, Login!Cancel, Login!PrintsUrl, Login!Passes,
     Login!Fails, Login!Reap, Login!statusVars
<1>5. ASSUME NEW i \in Attempts, Login!Rejects(i) PROVE LoginTyped'
  <2>1. rejects' \in 0..MaxRejects /\ UNCHANGED <<status, probe>>
    BY <1>1, <1>5, BoundsAssumption DEF Login!Rejects, Login!statusVars
  <2> QED
    BY <1>1, <2>1, NextLoginInv DEF LoginTyped
<1>6. ASSUME NEW s \in Submits, Login!Mark(s) \/ Login!Write(s) PROVE LoginTyped'
  BY <1>2, <1>6 DEF Login!Mark, Login!Write, Login!statusVars
<1>7. CASE Login!Shutdown
  BY <1>2, <1>7 DEF Login!Shutdown, Login!statusVars
<1>8. ASSUME Login!Probe \/ Login!Put \/ Login!Stale \/ \E i \in Attempts : Login!Poll(i)
      PROVE  LoginTyped'
  <2>1. rejects' = rejects /\ status' \in Login!Seen /\ probe' \in Login!Seen
    BY <1>1, <1>8 DEF Login!Probe, Login!Put, Login!Stale, Login!Poll, Login!Seen
  <2> QED
    BY <1>1, <2>1, NextLoginInv DEF LoginTyped
<1> QED
  BY <1>3, <1>4, <1>5, <1>6, <1>7, <1>8 DEF Login!LoginNext

-----------------------------------------------------------------------------
(* Types of the connection test: TestInv has those of what was said. *)
TestCounts ==
  /\ spoken \in 0..MaxChatter /\ Len(stdout) <= TestPipeCap /\ Len(lines) <= ChanCap
TestStates ==
  /\ tested \in {"none", "up", "dead"} /\ scan \in {"off", "read", "push", "done"}
  /\ held \in Test!Lines \cup {""} /\ due \in BOOLEAN
  /\ step \in {"new", "init", "initialized", "list", "kill", "reap", "wait", "done"}
TestTyped == TestInv /\ TestCounts /\ TestStates

LEMMA SpokenIsLine == TestInv => Spoken \subseteq Test!Lines
BY DEF TestInv, Spoken, Test!Lines, Test!Requests

LEMMA TestTypedMeans == TestTyped => Test!TestTypeOK
<1> SUFFICES ASSUME TestTyped PROVE Test!TestTypeOK
  OBVIOUS
<1>1. stdout \in Seq(Test!Lines) /\ lines \in Seq(Test!Lines)
  BY SpokenIsLine, SeqGrows DEF TestTyped, TestInv
<1> QED
  BY <1>1 DEF TestTyped, TestInv, TestCounts, TestStates, Test!TestTypeOK

LEMMA InitTestTyped == Test!TestInit => TestTyped
<1> SUFFICES ASSUME Test!TestInit PROVE TestTyped
  OBVIOUS
<1>1. stdout = <<>> /\ lines = <<>> /\ spoken = 0
  BY DEF Test!TestInit
<1>2. TestCounts
  BY <1>1, BoundsAssumption DEF TestCounts
<1>3. TestStates
  BY DEF Test!TestInit, TestStates
<1> QED
  BY <1>2, <1>3, InitTestInv DEF TestTyped

\* What the server prints fits the pipe, and a line that is moved makes room.
LEMMA NextTestCounts == TestTyped /\ [Test!TestNext]_mcpTestVars => TestCounts'
<1> SUFFICES ASSUME TestTyped, [Test!TestNext]_mcpTestVars PROVE TestCounts'
  OBVIOUS
<1>0. TestCounts /\ stdout \in Seq(Test!Lines) /\ lines \in Seq(Test!Lines)
  BY SpokenIsLine, SeqGrows DEF TestTyped, TestInv
<1>1. ASSUME UNCHANGED <<spoken, stdout, lines>> PROVE TestCounts'
  BY <1>0, <1>1 DEF TestCounts
<1>2. ASSUME NEW line \in Test!Lines, Test!Prints(line), spoken' \in 0..MaxChatter, lines' = lines
      PROVE  TestCounts'
  <2>1. Len(stdout') <= TestPipeCap
    BY <1>0, <1>2, BoundsAssumption DEF Test!Prints
  <2> QED
    BY <1>0, <1>2, <2>1 DEF TestCounts
<1>3. CASE Test!Answer
  <2>1. PICK n \in asked \ answered : Test!Prints(n)
    BY <1>3 DEF Test!Answer
  <2>2. n \in Test!Lines
    BY DEF TestTyped, TestInv, Test!Lines
  <2>3. spoken' \in 0..MaxChatter /\ lines' = lines
    BY <1>0, <1>3 DEF Test!Answer, TestCounts
  <2> QED
    BY <1>2, <2>1, <2>2, <2>3
<1>4. ASSUME NEW line \in Chatter, Test!Chat(line) PROVE TestCounts'
  <2>1. spoken < MaxChatter /\ spoken' = spoken + 1 /\ Test!Prints(line) /\ lines' = lines
    BY <1>4 DEF Test!Chat
  <2>2. spoken' \in 0..MaxChatter
    BY <1>0, <2>1, BoundsAssumption DEF TestCounts
  <2>3. line \in Test!Lines
    BY DEF Test!Lines
  <2> QED
    BY <1>2, <2>1, <2>2, <2>3
<1>5. ASSUME stdout' = <<>> \/ (stdout # <<>> /\ stdout' = Tail(stdout)), UNCHANGED <<spoken, lines>>
      PROVE  TestCounts'
  <2>1. Len(stdout') <= TestPipeCap
    BY <1>0, <1>5, BoundsAssumption DEF TestCounts
  <2> QED
    BY <1>0, <1>5, <2>1 DEF TestCounts
<1>6. CASE Test!CloseOutput \/ Test!ScanLine
  <2>1. stdout' = <<>> \/ (stdout # <<>> /\ stdout' = Tail(stdout))
    BY <1>6 DEF Test!CloseOutput, Test!ScanLine
  <2>2. UNCHANGED <<spoken, lines>>
    BY <1>6 DEF Test!CloseOutput, Test!ScanLine
  <2> QED
    BY <1>5, <2>1, <2>2
<1>7. CASE Test!PushLine
  <2>1. Len(lines) < ChanCap /\ lines' = Append(lines, held) /\ UNCHANGED <<spoken, stdout>>
    BY <1>7 DEF Test!PushLine
  <2>2. held \in Test!Lines
    BY <1>7, SpokenIsLine DEF Test!PushLine, TestTyped, TestInv
  <2>3. Len(lines') <= ChanCap
    BY <1>0, <2>1, <2>2, BoundsAssumption
  <2> QED
    BY <1>0, <2>1, <2>3 DEF TestCounts
<1>8. CASE Test!Reply \/ Test!Refused \/ Test!NoReply
  <2>1. UNCHANGED <<spoken, stdout>> /\ (lines' = lines \/ (lines # <<>> /\ lines' = Tail(lines)))
    BY <1>8 DEF Test!Reply, Test!Refused, Test!NoReply
  <2>2. Len(lines') <= ChanCap
    BY <1>0, <2>1, BoundsAssumption DEF TestCounts
  <2> QED
    BY <1>0, <2>1, <2>2 DEF TestCounts
<1>9. CASE \/ UNCHANGED mcpTestVars \/ Test!Exit \/ Test!ScanEnds \/ Test!Notify \/ Test!Kill
           \/ Test!Reap \/ Test!Return \/ Test!Deadline \/ \E ok \in BOOLEAN : Test!StartServer(ok)
  BY <1>1, <1>9 DEF mcpTestVars, Test!Exit, Test!ScanEnds, Test!Notify, Test!Kill, Test!Reap,
     Test!Return, Test!Deadline, Test!StartServer
<1> QED
  BY <1>3, <1>4, <1>6, <1>7, <1>8, <1>9 DEF Test!TestNext, Test!TestProgress

LEMMA NextTestStates == TestTyped /\ [Test!TestNext]_mcpTestVars => TestStates'
<1> SUFFICES ASSUME TestTyped, [Test!TestNext]_mcpTestVars PROVE TestStates'
  OBVIOUS
<1>0. TestStates /\ stdout \in Seq(Test!Lines)
  BY SpokenIsLine, SeqGrows DEF TestTyped, TestInv
<1>1. CASE UNCHANGED mcpTestVars
  BY <1>0, <1>1 DEF mcpTestVars, TestStates
<1>2. CASE Test!Answer \/ Test!Exit \/ Test!CloseOutput \/ Test!ScanEnds \/ Test!Deadline
  BY <1>0, <1>2 DEF Test!Answer, Test!Exit, Test!CloseOutput, Test!ScanEnds, Test!Deadline, TestStates
<1>3. ASSUME NEW line \in Chatter, Test!Chat(line) PROVE TestStates'
  BY <1>0, <1>3 DEF Test!Chat, TestStates
<1>4. CASE Test!ScanLine
  <2>1. held' \in Test!Lines
    BY <1>0, <1>4 DEF Test!ScanLine
  <2> QED
    BY <1>0, <1>4, <2>1 DEF Test!ScanLine, TestStates
<1>5. CASE Test!PushLine
  BY <1>0, <1>5 DEF Test!PushLine, TestStates
<1>6. CASE Test!Reply \/ Test!Refused \/ Test!NoReply
  <2>1. step' \in {step, "initialized", "kill"}
    BY <1>6 DEF Test!Reply, Test!Refused, Test!NoReply, Test!Go
  <2>2. UNCHANGED <<tested, scan, held, due>>
    BY <1>6 DEF Test!Reply, Test!Refused, Test!NoReply
  <2> QED
    BY <1>0, <2>1, <2>2 DEF TestStates
<1>7. CASE Test!Notify \/ Test!Kill \/ Test!Reap \/ Test!Return
  BY <1>0, <1>7 DEF Test!Notify, Test!Kill, Test!Reap, Test!Return, Test!Go, TestStates
<1>8. ASSUME NEW ok \in BOOLEAN, Test!StartServer(ok) PROVE TestStates'
  BY <1>0, <1>8 DEF Test!StartServer, Test!Go, TestStates
<1> QED
  BY <1>1, <1>2, <1>3, <1>4, <1>5, <1>6, <1>7, <1>8 DEF Test!TestNext, Test!TestProgress

LEMMA NextTestTyped == TestTyped /\ [Test!TestNext]_mcpTestVars => TestTyped'
BY NextTestInv, NextTestCounts, NextTestStates DEF TestTyped

-----------------------------------------------------------------------------
(* Types of the catalogue and of what a turn sees of it. *)
Running == [at : {"idle", "composed", "running", "failed"}, provider : Mcp!Provider,
            given : SUBSET Names, known : SUBSET Names, text : Mcp!Texts, sees : SUBSET Names]
AppServers == [text : Mcp!Texts, own : SUBSET Names]

LEMMA McpTypes ==
  Mcp!McpTypeOK <=>
    /\ user \in Mcp!Defs /\ claude \in Mcp!Defs /\ codex \in Mcp!Defs /\ assigned \in SUBSET Names
    /\ ops \in 0..MaxOps /\ handler \in [Handlers -> Mcp!Requests]
    /\ apps \subseteq AppServers /\ serving \in Running
BY DEF Mcp!McpTypeOK, Running, AppServers

LEMMA TextTyped ==
  ASSUME NEW on \in SUBSET Names, NEW off \in SUBSET Names, NEW S \in SUBSET Names,
         NEW how \in [S -> Mcp!Transports]
  PROVE  [on |-> on, off |-> off, how |-> how] \in Mcp!Texts
<1> DEFINE These(A) == [on : SUBSET Names, off : SUBSET Names, how : [A -> Mcp!Transports]]
<1>1. [on |-> on, off |-> off, how |-> how] \in These(S)
  OBVIOUS
<1>2. These(S) \in {These(A) : A \in SUBSET Names}
  OBVIOUS
<1>3. Mcp!Texts = UNION {These(A) : A \in SUBSET Names}
  BY DEF Mcp!Texts
<1> HIDE DEF These
<1> QED
  BY <1>1, <1>2, <1>3

LEMMA NothingServed ==
  /\ Mcp!NoDefs \in Mcp!Defs /\ Mcp!Quiet \in Mcp!Requests /\ Mcp!NoText \in Mcp!Texts
  /\ Mcp!NoTurn \in Running
<1>1. Mcp!NoDefs \in Mcp!Defs
  BY DEF Mcp!NoDefs, Mcp!Defs
<1>2. (CHOOSE n \in Names : TRUE) \in Names
  BY NamesAssumption
<1>3. Mcp!Quiet \in Mcp!Requests
  BY <1>1, <1>2 DEF Mcp!Quiet, Mcp!Requests
<1>4. [n \in {} |-> "none"] \in [{} -> Mcp!Transports] /\ {} \in SUBSET Names
  OBVIOUS
<1>5. Mcp!NoText \in Mcp!Texts
  BY <1>4, TextTyped DEF Mcp!NoText
<1> QED
  BY <1>1, <1>3, <1>5 DEF Mcp!NoTurn, Running, Mcp!Provider

LEMMA InitMcpTyped == Mcp!McpInit => Mcp!McpTypeOK
BY NothingServed, McpTypes, BoundsAssumption DEF Mcp!McpInit

LEMMA ComposeTyped ==
  ASSUME Mcp!McpTypeOK, NEW p \in Mcp!Provider, NEW proxy \in BOOLEAN, Mcp!Compose(p, proxy)
  PROVE  Mcp!McpTypeOK'
<1> DEFINE known == IF p = "codex" THEN {n \in Mcp!Catalogue : Mcp!Bridged(n, proxy)} ELSE Mcp!Catalogue
           text == IF p = "codex" THEN Mcp!CodexProfile(known) ELSE Mcp!NoText
           fine == [Mcp!NoTurn EXCEPT !.at = "composed", !.provider = p, !.given = assigned,
                                      !.known = known, !.text = text]
           bad == [Mcp!NoTurn EXCEPT !.at = "failed", !.provider = p]
<1>1. serving' = IF Mcp!Delivered(p, proxy) THEN fine ELSE bad
  BY DEF Mcp!Compose
<1>2. UNCHANGED <<user, claude, codex, assigned, handler, apps, ops>>
  BY DEF Mcp!Compose
<1>3. Mcp!Catalogue \subseteq Names /\ assigned \subseteq Names
  BY McpTypes DEF Mcp!Catalogue, Mcp!Defined, Mcp!ImportClaude, Mcp!ImportCodex
<1>4. known \in SUBSET Names
  BY <1>3
<1>5. text \in Mcp!Texts
  <2>1. CASE p = "codex"
    <3> DEFINE on == assigned \cap known
               off == Mcp!SwitchedOff(known)
               how == [n \in on \cup off |-> Mcp!Transport(n)]
    <3>1. off = known \ assigned
      BY DEF Mcp!SwitchedOff
    <3>2. \A n \in known : Mcp!Transport(n) \in Mcp!Transports
      BY <2>1 DEF Mcp!Bridged, Mcp!Transports
    <3>3. on \cup off \in SUBSET Names /\ on \in SUBSET Names /\ off \in SUBSET Names /\ on \cup off \subseteq known
      BY <1>4, <3>1
    <3>4. how \in [on \cup off -> Mcp!Transports]
      BY <3>2, <3>3
    <3>5. text = [on |-> on, off |-> off, how |-> how]
      BY <2>1 DEF Mcp!CodexProfile, Mcp!NoText
    <3> HIDE DEF on, off, how, known, text
    <3> QED
      BY <3>3, <3>4, <3>5, TextTyped
  <2>2. CASE p # "codex"
    BY <2>2, NothingServed
  <2> QED
    BY <2>1, <2>2
<1> HIDE DEF known, text
<1>6. fine \in Running /\ bad \in Running
  BY <1>3, <1>4, <1>5, NothingServed DEF Running
<1> HIDE DEF fine, bad
<1>7. serving' \in Running
  BY <1>1, <1>6
<1> QED
  BY <1>2, <1>7, McpTypes DEF Mcp!McpTypeOK, Running

LEMMA NextMcpTyped == Mcp!McpTypeOK /\ [Mcp!McpNext]_mcpVars => Mcp!McpTypeOK'
<1> SUFFICES ASSUME Mcp!McpTypeOK, [Mcp!McpNext]_mcpVars PROVE Mcp!McpTypeOK'
  OBVIOUS
<1>1. /\ user \in Mcp!Defs /\ claude \in Mcp!Defs /\ codex \in Mcp!Defs /\ assigned \in SUBSET Names
      /\ ops \in 0..MaxOps /\ handler \in [Handlers -> Mcp!Requests]
      /\ apps \subseteq AppServers /\ serving \in Running
  BY McpTypes
<1>2. SUFFICES /\ user' \in Mcp!Defs /\ claude' \in Mcp!Defs /\ codex' \in Mcp!Defs
               /\ assigned' \in SUBSET Names /\ ops' \in 0..MaxOps
               /\ handler' \in [Handlers -> Mcp!Requests] /\ apps' \subseteq AppServers
               /\ serving' \in Running
  BY DEF Mcp!McpTypeOK, Running, AppServers
<1>3. CASE UNCHANGED mcpVars
  BY <1>1, <1>3 DEF mcpVars
<1>4. Mcp!Edit => ops' \in 0..MaxOps
  BY <1>1, BoundsAssumption DEF Mcp!Edit
<1>5. ASSUME NEW h \in Handlers, NEW kind \in {"write", "assign", "unassign"}, NEW n \in Names,
             NEW t \in Mcp!Transports \cup {"none"}, Mcp!Takes(h, kind, n, t)
      PROVE  /\ handler' \in [Handlers -> Mcp!Requests] /\ ops' \in 0..MaxOps
             /\ UNCHANGED <<user, claude, codex, assigned, apps, serving>>
  <2> DEFINE r == [op |-> kind, name |-> n, to |-> t, file |-> user, row |-> assigned]
  <2>1. r \in Mcp!Requests
    BY <1>1 DEF Mcp!Requests
  <2>2. handler' = [handler EXCEPT ![h] = r]
    BY <1>5 DEF Mcp!Takes
  <2> HIDE DEF r
  <2> QED
    BY <1>1, <1>4, <1>5, <2>1, <2>2 DEF Mcp!Takes
<1>6. ASSUME NEW h \in Handlers, NEW n \in Names,
             \/ Mcp!Remove(h, n) \/ Mcp!Assign(h, n) \/ Mcp!Unassign(h, n)
             \/ \E t \in Mcp!Transports : Mcp!Upsert(h, n, t)
      PROVE  /\ handler' \in [Handlers -> Mcp!Requests] /\ ops' \in 0..MaxOps
             /\ UNCHANGED <<user, claude, codex, assigned, apps, serving>>
  BY <1>5, <1>6 DEF Mcp!Remove, Mcp!Assign, Mcp!Unassign, Mcp!Upsert
<1>7. ASSUME NEW h \in Handlers, Mcp!SaveUserFile(h) \/ Mcp!UpdateRow(h)
      PROVE  /\ handler' \in [Handlers -> Mcp!Requests] /\ user' \in Mcp!Defs /\ assigned' \in SUBSET Names
             /\ UNCHANGED <<claude, codex, apps, serving, ops>>
  <2>1. handler' = [handler EXCEPT ![h] = Mcp!Quiet]
    BY <1>7 DEF Mcp!SaveUserFile, Mcp!UpdateRow
  <2>2. handler' \in [Handlers -> Mcp!Requests]
    BY <1>1, <2>1, NothingServed
  <2>3. handler[h] \in Mcp!Requests
    BY <1>1
  <2>4. CASE Mcp!SaveUserFile(h)
    <3>1. handler[h].file \in Mcp!Defs /\ handler[h].to \in Mcp!Transports \cup {"none"}
      BY <2>3 DEF Mcp!Requests
    <3>2. user' \in Mcp!Defs
      BY <2>4, <3>1 DEF Mcp!SaveUserFile, Mcp!Defs
    <3> QED
      BY <1>1, <2>2, <2>4, <3>2 DEF Mcp!SaveUserFile
  <2>5. CASE Mcp!UpdateRow(h)
    <3>1. handler[h].row \in SUBSET Names /\ handler[h].name \in Names
      BY <2>3 DEF Mcp!Requests
    <3>2. assigned' \in SUBSET Names
      BY <2>5, <3>1 DEF Mcp!UpdateRow
    <3> QED
      BY <1>1, <2>2, <2>5, <3>2 DEF Mcp!UpdateRow
  <2> QED
    BY <1>7, <2>4, <2>5
<1>8. ASSUME NEW n \in Names, NEW t \in Mcp!Transports \cup {"none", "other"},
             Mcp!EditClaude(n, t) \/ Mcp!EditCodex(n, t)
      PROVE  /\ claude' \in Mcp!Defs /\ codex' \in Mcp!Defs /\ ops' \in 0..MaxOps
             /\ UNCHANGED <<user, assigned, handler, apps, serving>>
  BY <1>1, <1>4, <1>8 DEF Mcp!EditClaude, Mcp!EditCodex, Mcp!Defs
<1>9. ASSUME NEW p \in Mcp!Provider, NEW proxy \in BOOLEAN, Mcp!Compose(p, proxy)
      PROVE  Mcp!McpTypeOK'
  BY <1>9, ComposeTyped
<1>10. CASE Mcp!LaunchClaude
  <2>1. [serving EXCEPT !.at = "running", !.sees = serving.given] \in Running
    BY <1>1 DEF Running
  <2> QED
    BY <1>1, <1>10, <2>1 DEF Mcp!LaunchClaude
<1>11. CASE Mcp!LaunchCodex
  <2>1. [text |-> serving.text, own |-> Mcp!Defined(codex)] \in AppServers
    BY <1>1 DEF AppServers, Running, Mcp!Defined
  <2>2. apps' \subseteq AppServers
    BY <1>1, <1>11, <2>1 DEF Mcp!LaunchCodex
  <2>3. PICK a \in apps' : serving' = [serving EXCEPT !.at = "running", !.sees = a.text.on \cup (a.own \ a.text.off)]
    BY <1>11 DEF Mcp!LaunchCodex
  <2>4. a.text \in Mcp!Texts /\ a.own \subseteq Names
    BY <2>2 DEF AppServers
  <2>5. a.text.on \subseteq Names
    BY <2>4 DEF Mcp!Texts
  <2>6. a.text.on \cup (a.own \ a.text.off) \in SUBSET Names
    BY <2>4, <2>5
  <2>7. serving' \in Running
    BY <1>1, <2>3, <2>6 DEF Running
  <2> QED
    BY <1>1, <1>11, <2>2, <2>7 DEF Mcp!LaunchCodex
<1>12. CASE Mcp!Finish
  BY <1>1, <1>12, NothingServed DEF Mcp!Finish
<1>13. ASSUME NEW a \in apps, Mcp!AppEnds(a) PROVE apps' \subseteq AppServers /\ UNCHANGED <<user, claude, codex, assigned, handler, serving, ops>>
  BY <1>1, <1>13 DEF Mcp!AppEnds
<1> QED
  BY <1>1, <1>3, <1>6, <1>7, <1>8, <1>9, <1>10, <1>11, <1>12, <1>13, McpTypes DEF Mcp!McpNext, Mcp!McpTypeOK, Running, AppServers

-----------------------------------------------------------------------------
\* Bounds of a Claude turn: pipes and channels take an element only while they have room.
ClaudeCounts ==
  /\ written <= MaxLines /\ Len(pipe) <= PipeCap /\ Len(parsed) <= ChanCap /\ Len(out) <= ChanCap
ClaudeWhole == ClaudeInv /\ ClaudeCounts

LEMMA Shrinks ==
  ASSUME NEW S, NEW q \in Seq(S), NEW n \in Nat
  PROVE  /\ Len(q) < n => \A x \in S : Len(Append(q, x)) <= n
         /\ Len(q) <= n /\ q # <<>> => Len(Tail(q)) <= n
<1>1. Len(q) \in Nat /\ \A x \in S : Len(Append(q, x)) = Len(q) + 1
  OBVIOUS
<1>2. q # <<>> => Len(Tail(q)) = Len(q) - 1
  OBVIOUS
<1> QED
  BY <1>1, <1>2

LEMMA ClaudeWholeMeans == ClaudeWhole => Claude!ClaudeTypeOK
BY BoundsAssumption DEF ClaudeWhole, ClaudeInv, ClaudeTyped, ClaudeCounts, Claude!ClaudeTypeOK

LEMMA InitClaudeWhole ==
  ASSUME Claude!ClaudeInit
  PROVE  ClaudeWhole
<1>1. written = 0 /\ pipe = <<>> /\ parsed = <<>> /\ out = <<>>
  BY DEF Claude!ClaudeInit
<1>2. Len(pipe) = 0 /\ Len(parsed) = 0 /\ Len(out) = 0
  BY <1>1
<1> QED
  BY <1>1, <1>2, InitClaudeInv, BoundsAssumption DEF ClaudeWhole, ClaudeCounts

LEMMA NextClaudeWhole ==
  ASSUME ClaudeWhole, [Claude!ClaudeNext]_claudeVars
  PROVE  ClaudeWhole'
<1>1. /\ pipe \in Seq(Events) /\ parsed \in Seq(Events) /\ out \in Seq(Events) /\ written \in Nat
      /\ process.run \in 1..2 /\ ClaudeCounts
  BY DEF ClaudeWhole, ClaudeInv, ClaudeTyped
<1>2. /\ Len(pipe) \in Nat /\ Len(parsed) \in Nat /\ Len(out) \in Nat
      /\ MaxLines \in Nat /\ PipeCap \in Nat /\ ChanCap \in Nat
  BY <1>1, BoundsAssumption
<1>3. SUFFICES ClaudeCounts'
  BY NextClaudeInv DEF ClaudeWhole
<1>4. ASSUME UNCHANGED <<written, pipe, parsed, out>> PROVE ClaudeCounts'
  BY <1>1, <1>4 DEF ClaudeCounts
<1>5. CASE Claude!Write
  <2>1. PICK kind \in Claude!Kinds : pipe' = Append(pipe, Claude!Line(kind))
    BY <1>5 DEF Claude!Write
  <2>2. Claude!Line(kind) \in Events
    BY <1>1, <2>1 DEF Claude!Line, Events, Utterances
  <2>3. Len(pipe) < PipeCap /\ written < MaxLines /\ written' = written + 1 /\ UNCHANGED <<parsed, out>>
    BY <1>5 DEF Claude!Write
  <2>4. Len(pipe') <= PipeCap
    BY <1>1, <1>2, <2>1, <2>2, <2>3, Shrinks
  <2> QED
    BY <1>1, <1>2, <2>3, <2>4 DEF ClaudeCounts
<1>6. CASE Claude!Parse
  <2>1. UNCHANGED <<written, out>> /\ pipe # <<>> /\ Head(pipe) \in Events
    BY <1>1, <1>6, Taking DEF Claude!Parse
  <2>2. CASE UNCHANGED <<pipe, parsed>>
    BY <1>4, <2>1, <2>2
  <2>3. CASE Len(parsed) < ChanCap /\ parsed' = Append(parsed, Head(pipe)) /\ pipe' = Tail(pipe)
    <3>1. Len(parsed') <= ChanCap /\ Len(pipe') <= PipeCap
      BY <1>1, <1>2, <2>1, <2>3, Shrinks DEF ClaudeCounts
    <3> QED
      BY <1>1, <2>1, <3>1 DEF ClaudeCounts
  <2> QED
    BY <1>6, <2>2, <2>3 DEF Claude!Parse
<1>7. CASE Claude!Track
  <2>1. UNCHANGED <<written, pipe>>
    BY <1>7 DEF Claude!Track
  <2>2. CASE UNCHANGED <<out, parsed>>
    BY <1>4, <2>1, <2>2
  <2>3. CASE parsed # <<>> /\ Len(out) < ChanCap /\ out' = Append(out, Head(parsed)) /\ parsed' = Tail(parsed)
    <3>1. Head(parsed) \in Events
      BY <1>1, <2>3, Taking
    <3>2. Len(out') <= ChanCap /\ Len(parsed') <= ChanCap
      BY <1>1, <1>2, <2>3, <3>1, Shrinks DEF ClaudeCounts
    <3> QED
      BY <1>1, <2>1, <3>2 DEF ClaudeCounts
  <2> QED
    BY <1>7, <2>2, <2>3 DEF Claude!Track
<1>8. CASE Claude!Receive
  <2>1. out # <<>> /\ out' = Tail(out) /\ UNCHANGED <<written, pipe, parsed>>
    BY <1>8 DEF Claude!Receive
  <2>2. Len(out') <= ChanCap
    BY <1>1, <1>2, <2>1, Shrinks DEF ClaudeCounts
  <2> QED
    BY <1>1, <2>1, <2>2 DEF ClaudeCounts
<1>9. CASE Claude!Reap
  <2>1. out' = out /\ (UNCHANGED <<written, pipe, parsed>> \/ (written' = 0 /\ pipe' = <<>> /\ parsed' = <<>>))
    BY <1>9 DEF Claude!Reap
  <2>2. CASE written' = 0 /\ pipe' = <<>> /\ parsed' = <<>>
    <3>1. Len(pipe') = 0 /\ Len(parsed') = 0
      BY <2>2
    <3> QED
      BY <1>1, <1>2, <2>1, <2>2, <3>1 DEF ClaudeCounts
  <2> QED
    BY <1>4, <2>1, <2>2
<1>10. ASSUME Claude!Report \/ Claude!Propose PROVE ClaudeCounts'
  <2>1. UNCHANGED <<written, pipe, parsed>>
    BY <1>10 DEF Claude!Report, Claude!Propose
  <2>2. out' = out \/ \E v \in Utterances : Len(out) < ChanCap /\ out' = Append(out, Claude!Word(v))
    <3>1. Claude!Verdict \subseteq Utterances /\ "plan" \in Utterances
      BY DEF Claude!Verdict, Utterances
    <3> QED
      BY <1>10, <3>1 DEF Claude!Report, Claude!Propose
  <2>3. \A v \in Utterances : Claude!Word(v) \in Events
    BY <1>1 DEF Claude!Word, Events
  <2>4. Len(out') <= ChanCap
    BY <1>1, <1>2, <2>2, <2>3, Shrinks DEF ClaudeCounts
  <2> QED
    BY <1>1, <2>1, <2>4 DEF ClaudeCounts
<1>11. CASE Claude!Exit \/ Claude!ParseEnds \/ Claude!CancelAttempt \/ UNCHANGED claudeVars
  BY <1>4, <1>11 DEF Claude!Exit, Claude!ParseEnds, Claude!CancelAttempt, claudeVars
<1> QED
  BY <1>5, <1>6, <1>7, <1>8, <1>9, <1>10, <1>11 DEF Claude!ClaudeNext, Claude!ClaudeProgress

-----------------------------------------------------------------------------
\* Bounds of the turns on one app-server: a turn that registers takes over the
\* notifications buffered for it, of which there are no more than the turn has.
Fits(q) == Len(q) <= ChanCap \/ Len(q) <= Codex!Completed
CodexCounts ==
  /\ started \in 0..MaxProcs /\ proc \in 0..started /\ alive \subseteq 1..started
  /\ refresh \in [Refreshers -> {"idle", "reset", "clear", "done"}]
  /\ \A t \in Turns : next[t] <= Codex!Completed + 1 /\ Fits(channel[t])
CodexWhole == CodexInv /\ CodexCounts

LEMMA CodexWholeMeans == CodexWhole => Codex!CodexTypeOK
BY DEF CodexWhole, CodexInv, CodexTyped, CodexCounts, Fits, Pcs, Codex!CodexTypeOK

LEMMA InitCodexWhole ==
  ASSUME Codex!CodexInit
  PROVE  CodexWhole
<1>1. /\ started = 0 /\ proc = 0 /\ alive = {} /\ refresh = [r \in Refreshers |-> "idle"]
      /\ next = [t \in Turns |-> 0] /\ channel = [t \in Turns |-> <<>>]
  BY DEF Codex!CodexInit
<1>2. \A t \in Turns : next[t] = 0 /\ Len(channel[t]) = 0
  BY <1>1
<1> QED
  BY <1>1, <1>2, InitCodexInv, BoundsAssumption DEF CodexWhole, CodexCounts, Fits, Codex!Completed

LEMMA FailingFits ==
  ASSUME CodexWhole, NEW after, Codex!FailLocked(after)
  PROVE  proc' = 0 /\ \A t \in Turns : Fits(channel'[t])
<1>1. proc' = 0 /\ channel' = [t \in Turns |-> IF t \in active /\ Len(channel[t]) < ChanCap
                                   THEN Append(channel[t], Codex!Failure) ELSE channel[t]]
  BY DEF Codex!FailLocked
<1>2. ASSUME NEW t \in Turns PROVE Fits(channel'[t])
  <2>1. channel[t] \in Seq(Nat) /\ Fits(channel[t]) /\ Codex!Failure \in Nat /\ ChanCap \in Nat
    BY BoundsAssumption DEF CodexWhole, CodexInv, CodexTyped, CodexCounts, Codex!Failure
  <2>2. CASE Len(channel[t]) < ChanCap /\ channel'[t] = Append(channel[t], Codex!Failure)
    <3>1. Len(channel'[t]) <= ChanCap
      BY <2>1, <2>2, Shrinks
    <3> QED
      BY <3>1 DEF Fits
  <2>3. CASE channel'[t] = channel[t]
    BY <2>1, <2>3
  <2> QED
    BY <1>1, <2>2, <2>3
<1> QED
  BY <1>1, <1>2

LEMMA NextCodexWhole ==
  ASSUME CodexWhole, [Codex!CodexNext]_codexVars
  PROVE  CodexWhole'
<1>1. /\ next \in [Turns -> Nat] /\ channel \in [Turns -> Seq(Nat)] /\ buffered \in [Turns -> Seq(Nat)]
      /\ reader \in [Codex!Procs -> {Codex!Ready, Codex!Ended} \cup Sends]
      /\ \A t \in Turns : InOrder(t)
  BY DEF CodexWhole, CodexInv, CodexTyped
<1>2. CodexCounts
  BY DEF CodexWhole
<1>3. /\ MaxProcs \in Nat /\ ChanCap \in Nat /\ Codex!Completed \in Nat
  BY BoundsAssumption DEF Codex!Completed
<1>4. SUFFICES CodexCounts'
  BY NextCodexInv DEF CodexWhole
<1>5. ASSUME UNCHANGED <<started, proc, alive, refresh, next, channel>> PROVE CodexCounts'
  BY <1>2, <1>5 DEF CodexCounts
<1>6. ASSUME NEW after, Codex!FailLocked(after), UNCHANGED <<started, next>>, alive' \subseteq alive,
             refresh' \in [Refreshers -> {"idle", "reset", "clear", "done"}]
      PROVE  CodexCounts'
  <2>1. proc' = 0 /\ \A t \in Turns : Fits(channel'[t])
    BY <1>6, FailingFits
  <2> QED
    BY <1>2, <1>3, <1>6, <2>1 DEF CodexCounts, Fits, Codex!Completed
<1>7. ASSUME NEW t \in Turns, UNCHANGED <<started, proc, alive, refresh, next>>,
             \A u \in Turns \ {t} : channel'[u] = channel[u], Fits(channel'[t])
      PROVE  CodexCounts'
  BY <1>2, <1>7 DEF CodexCounts, Fits, Codex!Completed
<1>8. ASSUME NEW t \in Turns, Codex!Boundary(t) \/ Codex!CancelTurn(t) PROVE CodexCounts'
  BY <1>5, <1>8 DEF Codex!Boundary, Codex!CancelTurn
<1>9. ASSUME NEW t \in Turns, Codex!Respawn(t) \/ Codex!Retry(t) PROVE CodexCounts'
  <2>1. \E after : Codex!FailLocked(after)
    BY <1>9 DEF Codex!Respawn, Codex!Retry, Codex!Reset
  <2>2. UNCHANGED <<started, next, refresh>> /\ alive' \subseteq alive
    BY <1>9 DEF Codex!Respawn, Codex!Retry, Codex!Reset
  <2> QED
    BY <1>2, <1>6, <2>1, <2>2 DEF CodexCounts
<1>10. ASSUME NEW t \in Turns, Codex!Call(t) PROVE CodexCounts'
  <2>1. next' = [next EXCEPT ![t] = 0] /\ UNCHANGED <<channel, refresh>>
    BY <1>10 DEF Codex!Call
  <2>2. \A u \in Turns : next'[u] <= Codex!Completed + 1
    <3>1. \A u \in Turns : next'[u] = 0 \/ next'[u] = next[u]
      BY <1>1, <2>1
    <3> QED
      BY <1>2, <1>3, <3>1 DEF CodexCounts
  <2>3. /\ started' \in 0..MaxProcs /\ proc' \in 0..started' /\ alive' \subseteq 1..started'
    <3>1. CASE UNCHANGED <<proc, started, alive>>
      BY <1>2, <3>1 DEF CodexCounts
    <3>2. CASE started < MaxProcs /\ started' = started + 1 /\ proc' = started' /\ alive' = alive \cup {started'}
      <4>1. started + 1 \in 0..MaxProcs /\ started + 1 \in 1..(started + 1) /\ started + 1 \in 0..(started + 1)
            /\ 1..started \subseteq 1..(started + 1)
        BY <1>2, <1>3, <3>2 DEF CodexCounts
      <4>2. alive \subseteq 1..started
        BY <1>2 DEF CodexCounts
      <4> QED
        BY <3>2, <4>1, <4>2
    <3> QED
      BY <1>10, <3>1, <3>2 DEF Codex!Call
  <2> QED
    BY <1>2, <2>1, <2>2, <2>3 DEF CodexCounts, Fits, Codex!Completed
<1>11. ASSUME NEW p \in Codex!Procs, NEW t \in Turns, Codex!Respond(p, t) \/ Codex!Notify(p, t)
       PROVE  CodexCounts'
  <2>1. /\ next[t] <= Codex!Completed /\ next' = [next EXCEPT ![t] = @ + 1]
        /\ UNCHANGED <<started, proc, alive, refresh, channel>>
    BY <1>11 DEF Codex!Respond, Codex!Notify, Codex!Heard, Codex!Take
  <2>2. \A u \in Turns : next'[u] = next[u] \/ (u = t /\ next'[u] = next[u] + 1)
    BY <1>1, <2>1
  <2>3. \A u \in Turns : next'[u] <= Codex!Completed + 1
    BY <1>1, <1>2, <1>3, <2>1, <2>2 DEF CodexCounts
  <2> QED
    BY <1>2, <2>1, <2>3 DEF CodexCounts, Fits, Codex!Completed
<1>12. ASSUME NEW p \in Codex!Procs, Codex!Send(p) PROVE CodexCounts'
  <2> DEFINE m == reader[p]
  <2>1. /\ m \in Sends /\ Len(channel[m.to]) < ChanCap
        /\ channel' = [channel EXCEPT ![m.to] = Append(@, m.n)]
        /\ UNCHANGED <<started, proc, alive, refresh, next>>
    BY <1>1, <1>12 DEF Codex!Send
  <2>2. m.to \in Turns /\ m.n \in Nat
    BY <2>1 DEF Sends
  <2> HIDE DEF m
  <2>3. channel'[m.to] = Append(channel[m.to], m.n) /\ \A u \in Turns \ {m.to} : channel'[u] = channel[u]
    BY <1>1, <2>1, <2>2
  <2>4. Len(channel'[m.to]) <= ChanCap
    BY <1>1, <1>3, <2>1, <2>2, <2>3, Shrinks
  <2> QED
    BY <1>7, <2>1, <2>2, <2>3, <2>4 DEF Fits
<1>13. ASSUME NEW p \in Codex!Procs, Codex!Eof(p) PROVE CodexCounts'
  <2>1. UNCHANGED <<started, next, alive, refresh>> /\ (Codex!FailLocked(turn) \/ UNCHANGED <<proc, channel>>)
    BY <1>13 DEF Codex!Eof
  <2> QED
    BY <1>2, <1>5, <1>6, <2>1 DEF CodexCounts
<1>14. ASSUME NEW t \in Turns, Codex!Register(t) PROVE CodexCounts'
  <2>1. /\ turn[t].pc = "started" /\ channel' = [channel EXCEPT ![t] = buffered[t]]
        /\ UNCHANGED <<started, proc, alive, refresh, next>>
    BY <1>14 DEF Codex!Register, Codex!Replayed
  <2>2. next[t] = Len(buffered[t]) + 1 /\ next[t] <= Codex!Completed + 1
    BY <1>1, <1>2, <2>1 DEF InOrder, Kept, CodexCounts
  <2>3. Len(buffered[t]) \in Nat
    BY <1>1
  <2>4. Len(buffered[t]) <= Codex!Completed
    BY <1>3, <2>2, <2>3
  <2>5. channel'[t] = buffered[t] /\ \A u \in Turns \ {t} : channel'[u] = channel[u]
    BY <1>1, <2>1
  <2> QED
    BY <1>7, <2>1, <2>4, <2>5 DEF Fits
<1>15. ASSUME NEW t \in Turns, Codex!Stream(t) PROVE CodexCounts'
  <2>1. /\ channel[t] # <<>> /\ channel' = [channel EXCEPT ![t] = Tail(@)]
        /\ UNCHANGED <<started, proc, alive, refresh, next>>
    BY <1>15 DEF Codex!Stream
  <2>2. channel'[t] = Tail(channel[t]) /\ \A u \in Turns \ {t} : channel'[u] = channel[u]
    BY <1>1, <2>1
  <2>3. Fits(channel[t])
    BY <1>2 DEF CodexCounts
  <2>4. Fits(channel'[t])
    BY <1>1, <1>3, <2>1, <2>2, <2>3, Shrinks DEF Fits
  <2> QED
    BY <1>7, <2>1, <2>2, <2>4
<1>16. ASSUME NEW p \in Codex!Procs, Codex!Crash(p) PROVE CodexCounts'
  <2>1. alive' \subseteq alive /\ UNCHANGED <<started, proc, refresh, next, channel>>
    BY <1>16 DEF Codex!Crash
  <2> QED
    BY <1>2, <2>1 DEF CodexCounts, Fits, Codex!Completed
<1>17. ASSUME NEW r \in Refreshers, Codex!RefreshMark(r) \/ Codex!RefreshReset(r) \/ Codex!RefreshClear(r)
       PROVE  CodexCounts'
  <2>1. refresh \in [Refreshers -> {"idle", "reset", "clear", "done"}]
    BY <1>2 DEF CodexCounts
  <2>2. refresh' \in [Refreshers -> {"idle", "reset", "clear", "done"}]
    BY <1>17, <2>1 DEF Codex!RefreshMark, Codex!RefreshReset, Codex!RefreshClear
  <2>3. CASE UNCHANGED <<started, proc, alive, next, channel>>
    BY <1>2, <2>2, <2>3 DEF CodexCounts, Fits, Codex!Completed
  <2>4. CASE Codex!RefreshReset(r)
    BY <1>6, <2>2, <2>4 DEF Codex!RefreshReset, Codex!Reset
  <2> QED
    BY <1>17, <2>3, <2>4 DEF Codex!RefreshMark, Codex!RefreshClear
<1>18. CASE UNCHANGED codexVars
  BY <1>5, <1>18 DEF codexVars
<1> QED
  BY <1>8, <1>9, <1>10, <1>11, <1>12, <1>13, <1>14, <1>15, <1>16, <1>17, <1>18
  DEF Codex!CodexNext, Codex!TurnStep, Codex!ReadLoop

-----------------------------------------------------------------------------
\* Bounds of one Codex turn: the notes on their way and the notes told are notes of the turn.
OneTurnCounts ==
  /\ server.note <= TurnNotes /\ server.requests <= MaxRequests /\ server.repeats <= MaxRepeats
  /\ Len(queue) <= QueueCap
  /\ \A i \in DOMAIN queue : queue[i].method = "delta" => queue[i].number \in 1..TurnNotes
  /\ track.item <= TurnNotes /\ sent.notes \in Seq(1..TurnNotes)
  /\ asks \in [OneTurn!Tools -> OneTurn!Asking] /\ patches \subseteq Patches
OneTurnWhole == OneTurnInv /\ OneTurnCounts

LEMMA OneTurnWholeMeans == OneTurnWhole => OneTurn!CodexTurnTypeOK
<1> SUFFICES ASSUME OneTurnWhole PROVE OneTurn!CodexTurnTypeOK
  OBVIOUS
<1>1. server \in Servers /\ track \in Tracks /\ sent \in Outs /\ OneTurnCounts
      /\ streams \in BOOLEAN /\ context \in {"live", "done"}
  BY DEF OneTurnWhole, OneTurnInv, TurnTyped
<1>2. server \in [note: 0..TurnNotes, requests: 0..MaxRequests, repeats: 0..MaxRepeats,
                  agent: OneTurn!AgentStates, tools: [OneTurn!Tools -> {"none", "started", "completed"}],
                  ends: {"no", "completed", "error"}]
  BY <1>1, BoundsAssumption DEF OneTurnCounts, Servers
<1>3. track \in [streamed: BOOLEAN, item: 0..TurnNotes, total: Nat, agent: OneTurn!AgentStates,
                 at: {"reading", "closed"}]
  BY <1>1, BoundsAssumption DEF OneTurnCounts, Tracks
<1>4. sent \in [notes: Seq(1..TurnNotes), billed: Nat, audited: Seq(OneTurn!Tools),
                cards: Seq(OneTurn!AgentStates)]
  BY <1>1 DEF OneTurnCounts, Outs
<1> QED
  BY <1>1, <1>2, <1>3, <1>4 DEF OneTurnCounts, OneTurn!CodexTurnTypeOK

LEMMA InitOneTurnWhole ==
  ASSUME Init
  PROVE  OneTurnWhole
<1>1. OneTurn!CodexTurnInit
  BY DEF Init
<1>2. /\ server.note = 0 /\ server.requests = 0 /\ server.repeats = 0 /\ queue = <<>>
      /\ track.item = 0 /\ sent.notes = <<>> /\ patches = {}
      /\ asks = [t \in OneTurn!Tools |-> "none"]
  BY <1>1 DEF OneTurn!CodexTurnInit
<1>3. Len(queue) = 0 /\ DOMAIN queue = {} /\ <<>> \in Seq(1..TurnNotes)
  BY <1>2
<1> QED
  BY <1>2, <1>3, InitMeetsOneTurn, BoundsAssumption DEF OneTurnWhole, OneTurnCounts, OneTurn!Asking

\* Something said takes a place in the queue; a note said is one of the turn.
LEMMA SayingCounts ==
  ASSUME OneTurnWhole, NEW x \in Says, queue' = Append(queue, x), Len(queue) < QueueCap,
         x.method = "delta" => x.number \in 1..TurnNotes,
         server'.note <= TurnNotes, server'.requests <= MaxRequests, server'.repeats <= MaxRepeats,
         patches' \subseteq Patches, UNCHANGED <<track, sent, asks>>
  PROVE  OneTurnCounts'
<1>1. queue \in Seq(Says) /\ OneTurnCounts /\ QueueCap \in Nat
  BY OneTurnTyped, BoundsAssumption DEF OneTurnWhole
<1>2. Len(queue') <= QueueCap
  BY <1>1, Shrinks
<1>3. \A i \in DOMAIN queue' : queue'[i].method = "delta" => queue'[i].number \in 1..TurnNotes
  <2>1. /\ Append(queue, x)[Len(queue) + 1] = x
        /\ \A i \in DOMAIN queue : Append(queue, x)[i] = queue[i]
        /\ \A i \in DOMAIN Append(queue, x) : i \in DOMAIN queue \/ i = Len(queue) + 1
    BY <1>1, Appending
  <2> QED
    BY <1>1, <2>1 DEF OneTurnCounts
<1> QED
  BY <1>1, <1>2, <1>3 DEF OneTurnCounts

LEMMA NextOneTurnWhole ==
  ASSUME OneTurnWhole, [OneTurn!CodexTurnNext]_codexTurnVars
  PROVE  OneTurnWhole'
<1>1. /\ queue \in Seq(Says) /\ server \in Servers /\ track \in Tracks /\ sent \in Outs
      /\ server.note \in Nat /\ server.requests \in Nat /\ server.repeats \in Nat
      /\ OneTurnCounts
  BY OneTurnTyped DEF OneTurnWhole
<1>2. TurnNotes \in Nat /\ MaxRequests \in Nat /\ MaxRepeats \in Nat /\ QueueCap \in Nat
  BY BoundsAssumption
<1>3. SUFFICES OneTurnCounts'
  BY NextOneTurnInv DEF OneTurnWhole
<1>4. ASSUME UNCHANGED <<server, queue, track, sent>>,
             asks' \in [OneTurn!Tools -> OneTurn!Asking], patches' \subseteq Patches
      PROVE  OneTurnCounts'
  BY <1>1, <1>4 DEF OneTurnCounts
<1>5. asks \in [OneTurn!Tools -> OneTurn!Asking] /\ patches \subseteq Patches
  BY <1>1 DEF OneTurnCounts
<1>6. CASE OneTurn!Note
  <2> DEFINE x == [method |-> "delta", of |-> "-", number |-> server.note + 1]
  <2>1. /\ server.note < TurnNotes /\ server' = [server EXCEPT !.note = @ + 1] /\ Len(queue) < QueueCap
        /\ queue' = Append(queue, x) \/ queue' = queue
        /\ UNCHANGED <<track, sent, asks, patches>>
    BY <1>6 DEF OneTurn!Note, OneTurn!Busy, OneTurn!rest, OneTurn!Say, OneTurn!Numbered
  <2>2. /\ server'.note = server.note + 1 /\ server'.requests = server.requests
        /\ server'.repeats = server.repeats
    BY <1>1, <2>1 DEF Servers
  <2>3. /\ server'.note <= TurnNotes /\ server'.requests <= MaxRequests /\ server'.repeats <= MaxRepeats
        /\ server.note + 1 \in 1..TurnNotes
    BY <1>1, <1>2, <2>1, <2>2 DEF OneTurnCounts
  <2>4. x \in Says /\ x.method = "delta" /\ x.number \in 1..TurnNotes
    BY <1>1, <2>3 DEF Says, Methods
  <2> HIDE DEF x
  <2>5. CASE queue' = queue
    BY <1>1, <2>1, <2>3, <2>5 DEF OneTurnCounts
  <2>6. CASE queue' = Append(queue, x)
    BY <1>5, <2>1, <2>3, <2>4, <2>6, SayingCounts
  <2> QED
    BY <2>1, <2>5, <2>6
<1>7. ASSUME OneTurn!Spend \/ OneTurn!Repeat PROVE OneTurnCounts'
  <2>1. /\ Len(queue) < QueueCap /\ UNCHANGED <<track, sent, asks, patches>>
        /\ \/ queue' = Append(queue, [method |-> "usage", of |-> "-", number |-> server.requests + 1])
           \/ queue' = Append(queue, [method |-> "usage", of |-> "-", number |-> server.requests])
    BY <1>7 DEF OneTurn!Spend, OneTurn!Repeat, OneTurn!Busy, OneTurn!rest, OneTurn!Say, OneTurn!Numbered
  <2>2. PICK k \in Nat : queue' = Append(queue, [method |-> "usage", of |-> "-", number |-> k])
    BY <1>1, <2>1
  <2>3. [method |-> "usage", of |-> "-", number |-> k] \in Says
    BY DEF Says, Methods
  <2>4. \/ /\ server.requests < MaxRequests /\ server' = [server EXCEPT !.requests = @ + 1]
        \/ /\ server.repeats < MaxRepeats /\ server' = [server EXCEPT !.repeats = @ + 1]
    BY <1>7 DEF OneTurn!Spend, OneTurn!Repeat
  <2>5. \/ /\ server.requests < MaxRequests /\ server'.requests = server.requests + 1
           /\ server'.repeats = server.repeats /\ server'.note = server.note
        \/ /\ server.repeats < MaxRepeats /\ server'.repeats = server.repeats + 1
           /\ server'.requests = server.requests /\ server'.note = server.note
    BY <1>1, <2>4 DEF Servers
  <2>6. server'.note <= TurnNotes /\ server'.requests <= MaxRequests /\ server'.repeats <= MaxRepeats
    BY <1>1, <1>2, <2>5 DEF OneTurnCounts
  <2> QED
    BY <1>5, <2>1, <2>2, <2>3, <2>6, SayingCounts
<1>8. ASSUME NEW a \in OneTurn!AgentStates, OneTurn!Agent(a) PROVE OneTurnCounts'
  <2>1. /\ Len(queue) < QueueCap /\ UNCHANGED <<track, sent, asks, patches>>
        /\ queue' = Append(queue, [method |-> "agent", of |-> a, number |-> 0])
        /\ server' = [server EXCEPT !.agent = a, !.repeats = IF a = server.agent THEN @ + 1 ELSE @]
        /\ a = server.agent => server.repeats < MaxRepeats
    BY <1>8 DEF OneTurn!Agent, OneTurn!Busy, OneTurn!rest, OneTurn!Say, OneTurn!Msg
  <2>2. [method |-> "agent", of |-> a, number |-> 0] \in Says
    BY <1>8 DEF Says, Methods
  <2>3. /\ server'.note = server.note /\ server'.requests = server.requests
        /\ server'.repeats = IF a = server.agent THEN server.repeats + 1 ELSE server.repeats
    BY <1>1, <2>1 DEF Servers
  <2>4. /\ server'.note <= TurnNotes /\ server'.requests <= MaxRequests /\ server'.repeats <= MaxRepeats
    BY <1>1, <1>2, <2>1, <2>3 DEF OneTurnCounts
  <2> QED
    BY <1>5, <2>1, <2>2, <2>4, SayingCounts
<1>9. ASSUME NEW t \in OneTurn!Tools, OneTurn!Start(t) \/ OneTurn!Complete(t) PROVE OneTurnCounts'
  <2>1. /\ Len(queue) < QueueCap /\ UNCHANGED <<track, sent, asks>> /\ patches' \subseteq Patches
        /\ \E m \in {"started", "completed"} : /\ queue' = Append(queue, [method |-> m, of |-> t, number |-> 0])
                                               /\ server' = [server EXCEPT !.tools[t] = m]
    BY <1>5, <1>9 DEF OneTurn!Start, OneTurn!Complete, OneTurn!Busy, OneTurn!rest, OneTurn!Say, OneTurn!Msg
  <2>2. \A m \in {"started", "completed"} : [method |-> m, of |-> t, number |-> 0] \in Says
    BY <1>9 DEF Says, Methods
  <2>3. /\ server'.note = server.note /\ server'.requests = server.requests /\ server'.repeats = server.repeats
    BY <1>1, <2>1 DEF Servers
  <2> QED
    BY <1>1, <2>1, <2>2, <2>3, SayingCounts DEF OneTurnCounts
<1>10. ASSUME NEW how \in {"completed", "error"}, OneTurn!End(how) PROVE OneTurnCounts'
  <2>1. /\ Len(queue) < QueueCap /\ UNCHANGED <<track, sent, asks, patches>>
        /\ queue' = Append(queue, [method |-> "end", of |-> how, number |-> 0])
        /\ server' = [server EXCEPT !.ends = how]
    BY <1>10 DEF OneTurn!End, OneTurn!Busy, OneTurn!rest, OneTurn!Say, OneTurn!Msg
  <2>2. [method |-> "end", of |-> how, number |-> 0] \in Says
    BY <1>10 DEF Says, Methods
  <2>3. /\ server'.note = server.note /\ server'.requests = server.requests /\ server'.repeats = server.repeats
    BY <1>1, <2>1 DEF Servers
  <2> QED
    BY <1>1, <2>1, <2>2, <2>3, SayingCounts DEF OneTurnCounts
<1>11. CASE OneTurn!Read
  <2> DEFINE n == Head(queue)
  <2>1. /\ queue # <<>> /\ queue' = Tail(queue) /\ UNCHANGED <<server, asks>>
        /\ patches' \subseteq Patches
    BY <1>5, <1>11 DEF OneTurn!Read
  <2>2. n \in Says /\ n = queue[1] /\ 1 \in DOMAIN queue
    BY <1>1, <2>1, Taking
  <2>3. n.method \in Methods /\ (n.method = "delta" => n.number \in 1..TurnNotes)
    BY <1>1, <2>2 DEF OneTurnCounts, Says
  <2>4. Len(queue') <= QueueCap
    BY <1>1, <1>2, <2>1, Shrinks DEF OneTurnCounts
  <2>5. \A i \in DOMAIN queue' : queue'[i].method = "delta" => queue'[i].number \in 1..TurnNotes
    <3>1. \A i \in DOMAIN queue' : i + 1 \in DOMAIN queue /\ queue'[i] = queue[i + 1]
      BY <1>1, <2>1, Taking
    <3> QED
      BY <1>1, <3>1 DEF OneTurnCounts
  <2>6. sent.notes \in Seq(1..TurnNotes) /\ track.item <= TurnNotes /\ track.item \in Nat
    BY <1>1 DEF OneTurnCounts, Tracks
  <2> HIDE DEF n
  <2>7. /\ track'.item \in {track.item, n.number}
        /\ track'.item # track.item => n.method = "delta"
        /\ \/ sent'.notes = sent.notes
           \/ n.method = "delta" /\ sent'.notes = Append(sent.notes, n.number)
           \/ sent'.notes = sent.notes \o [i \in 1..server.note |-> i]
    <3>1. CASE n.method = "delta"
      <4>1. /\ sent' = [sent EXCEPT !.notes = Append(@, n.number)]
            /\ track' = [track EXCEPT !.streamed = TRUE, !.item = n.number]
        BY <1>11, <3>1 DEF OneTurn!Read, n
      <4> QED
        BY <1>1, <3>1, <4>1 DEF Tracks, Outs
    <3>2. CASE n.method = "usage"
      <4>1. /\ sent' = OneTurn!Billed(n.number)
            /\ track' = [track EXCEPT !.total = IF n.number > @ THEN n.number ELSE @]
        BY <1>11, <3>2 DEF OneTurn!Read, n
      <4> QED
        BY <1>1, <4>1 DEF Tracks, Outs, OneTurn!Billed
    <3>3. CASE n.method = "agent"
      <4>1. sent' = OneTurn!Carded(n.of) /\ track' = [track EXCEPT !.agent = n.of]
        BY <1>11, <3>3 DEF OneTurn!Read, n
      <4> QED
        BY <1>1, <4>1 DEF Tracks, Outs, OneTurn!Carded
    <3>4. CASE n.method \in {"started", "completed"}
      <4>1. sent' = OneTurn!Audited(n) /\ track' = track
        BY <1>11, <3>4 DEF OneTurn!Read, n
      <4> QED
        BY <1>1, <4>1 DEF Outs, OneTurn!Audited
    <3>5. CASE n.method = "end"
      <4>1. sent' \in {OneTurn!Whole, sent} /\ track' = [track EXCEPT !.at = "closed"]
        BY <1>11, <3>5 DEF OneTurn!Read, n
      <4> QED
        BY <1>1, <4>1 DEF Tracks, Outs, OneTurn!Whole
    <3> QED
      BY <2>3, <3>1, <3>2, <3>3, <3>4, <3>5 DEF Methods
  <2>8. track'.item <= TurnNotes
    BY <1>2, <2>3, <2>6, <2>7
  <2>9. sent'.notes \in Seq(1..TurnNotes)
    <3>1. [i \in 1..server.note |-> i] \in Seq(1..TurnNotes)
      <4>1. PICK k \in Nat : k = server.note /\ k <= TurnNotes
        BY <1>1 DEF OneTurnCounts
      <4>2. \A i \in 1..k : i \in 1..TurnNotes
        BY <1>2, <4>1
      <4>3. [i \in 1..k |-> i] \in [1..k -> 1..TurnNotes]
        BY <4>2
      <4>4. [i \in 1..k |-> i] \in Seq(1..TurnNotes)
        BY <4>3
      <4> QED
        BY <4>1, <4>4
    <3>2. sent.notes \o [i \in 1..server.note |-> i] \in Seq(1..TurnNotes)
      BY <2>6, <3>1
    <3>3. n.method = "delta" => Append(sent.notes, n.number) \in Seq(1..TurnNotes)
      BY <2>3, <2>6
    <3> QED
      BY <2>6, <2>7, <3>2, <3>3
  <2> QED
    BY <1>1, <2>1, <2>4, <2>5, <2>8, <2>9 DEF OneTurnCounts
<1>12. CASE OneTurn!Leave
  <2>1. /\ track' = [track EXCEPT !.at = "closed"] /\ patches' = {}
        /\ UNCHANGED <<server, queue, sent, asks>>
    BY <1>12 DEF OneTurn!Leave
  <2>2. track'.item = track.item
    BY <1>1, <2>1 DEF Tracks
  <2> QED
    BY <1>1, <2>1, <2>2 DEF OneTurnCounts
<1>13. ASSUME NEW t \in OneTurn!Tools,
              OneTurn!Ask(t) \/ OneTurn!Relay(t) \/ \E v \in {"accepted", "declined"} : OneTurn!Decide(t, v)
       PROVE  OneTurnCounts'
  <2>1. UNCHANGED <<server, queue, track, sent, patches>>
    BY <1>13 DEF OneTurn!Ask, OneTurn!Relay, OneTurn!Decide, OneTurn!rest
  <2>2. asks' \in [OneTurn!Tools -> OneTurn!Asking]
    BY <1>5, <1>13 DEF OneTurn!Ask, OneTurn!Relay, OneTurn!Decide, OneTurn!Asking
  <2> QED
    BY <1>4, <1>5, <2>1, <2>2
<1>14. CASE UNCHANGED codexTurnVars
  BY <1>4, <1>5, <1>14 DEF codexTurnVars
<1> QED
  BY <1>6, <1>7, <1>8, <1>9, <1>10, <1>11, <1>12, <1>13, <1>14 DEF OneTurn!CodexTurnNext

-----------------------------------------------------------------------------
\* Expired tokens start one CLI a cooldown, and a sign-in takes one code for each time
\* it asks, however polls, refreshes and submissions meet (usage/tracker.go:464-493,
\* providerlogin/providerlogin.go:252-287).
THEOREM OneCliAndCode == Spec => []OneCliPerToken
<1>1. Init => UsageInv /\ LoginInv
  BY InitUsageInv, InitLoginInv DEF Init
<1>2. UsageInv /\ [Next]_vars => UsageInv'
  BY StepsOfOne, NextUsageInv
<1>3. LoginInv /\ [Next]_vars => LoginInv'
  BY StepsOfOne, NextLoginInv
<1>4. UsageInv /\ LoginInv => OneCliPerToken
  BY UsageInvMeans, LoginInvMeans DEF OneCliPerToken
<1> QED
  BY <1>1, <1>2, <1>3, <1>4, PTL DEF Spec

\* A running turn sees its agent's MCP servers and no other known one, however old its
\* app-server is; a connection test that passes had both answers (mcp/mcp.go:351-469,
\* adapter/codex.go:2310-2420, mcp/test.go:87-190).
THEOREM SeesItsServers == Spec => []SeesAssigned
<1>1. Init => CatalogueInv /\ TestInv
  BY InitCatalogueInv, InitTestInv DEF Init
<1>2. CatalogueInv /\ [Next]_vars => CatalogueInv'
  BY StepsOfOne, NextCatalogueInv
<1>3. TestInv /\ [Next]_vars => TestInv'
  BY StepsOfOne, NextTestInv
<1>4. CatalogueInv /\ TestInv => SeesAssigned
  BY TestInvMeans DEF CatalogueInv, SeesAssigned
<1> QED
  BY <1>1, <1>2, <1>3, <1>4, PTL DEF Spec

\* A turn of either adapter is told what its provider wrote, once and in order, before
\* the word on how it ended; no Codex call waits on a replaced process, and a
\* Claude run that spoke is not repeated (adapter/codex.go:660-979, adapter/claude.go:205-390).
THEOREM ToldInOrder == Spec => []EventsInOrder
<1>1. Init => CodexInv /\ ClaudeInv
  BY InitCodexInv, InitClaudeInv DEF Init
<1>2. CodexInv /\ [Next]_vars => CodexInv'
  BY StepsOfOne, NextCodexInv
<1>3. ClaudeInv /\ [Next]_vars => ClaudeInv'
  BY StepsOfOne, NextClaudeInv
<1>4. CodexInv /\ ClaudeInv => EventsInOrder
  BY CodexInvMeans, ClaudeInvMeans DEF EventsInOrder
<1> QED
  BY <1>1, <1>2, <1>3, <1>4, PTL DEF Spec

\* A Codex turn read to its completion has told all of it once: the working notes,
\* one bill for each model request, each tool in the audit, the subagent's card as
\* it was left, whatever came again (adapter/codex.go:1167-1377).
THEOREM ToldWhole == Spec => []TurnIsToldOnce
<1>1. Init => OneTurnInv
  BY InitMeetsOneTurn
<1>2. OneTurnInv /\ [Next]_vars => OneTurnInv'
  BY StepsOfOne, NextOneTurnInv
<1> QED
  BY <1>1, <1>2, OneTurnInvMeans, PTL DEF Spec

\* The type invariant of every component, with the bounds of its channels, pipes and
\* queues: a registered turn takes over no more notifications than a turn has, the
\* tracker's delays stay within its horizon, what a turn sees are names of servers
\* (adapter/codex.go:660-979, adapter/claude.go:205-390, usage/tracker.go:253-493,
\* providerlogin/providerlogin.go:103-423, mcp/mcp.go:351-469, mcp/test.go:87-190).
THEOREM TypeCorrect == Spec => []TypeOK
<1> DEFINE Inv == /\ CodexWhole /\ ClaudeWhole /\ OneTurnWhole /\ Usage!UsageTypeOK
                  /\ LoginTyped /\ Mcp!McpTypeOK /\ TestTyped
<1>1. Init => Inv
  BY InitCodexWhole, InitClaudeWhole, InitOneTurnWhole, InitUsageTyped, InitLoginTyped, InitMcpTyped,
     InitTestTyped DEF Init
<1>2. Inv /\ [Next]_vars => Inv'
  <2> SUFFICES ASSUME Inv, [Next]_vars PROVE Inv'
    OBVIOUS
  <2>1. CodexWhole'
    BY StepsOfOne, NextCodexWhole
  <2>2. ClaudeWhole'
    BY StepsOfOne, NextClaudeWhole
  <2>3. OneTurnWhole'
    BY StepsOfOne, NextOneTurnWhole
  <2>4. Usage!UsageTypeOK'
    BY StepsOfOne, NextUsageTyped
  <2>5. LoginTyped'
    BY StepsOfOne, NextLoginTyped
  <2>6. Mcp!McpTypeOK'
    BY StepsOfOne, NextMcpTyped
  <2>7. TestTyped'
    BY StepsOfOne, NextTestTyped
  <2> QED
    BY <2>1, <2>2, <2>3, <2>4, <2>5, <2>6, <2>7
<1>3. Inv => TypeOK
  BY CodexWholeMeans, ClaudeWholeMeans, OneTurnWholeMeans, LoginTypedMeans, TestTypedMeans DEF TypeOK
<1> QED
  <2> HIDE DEF Inv
  <2> QED
    BY <1>1, <1>2, <1>3, PTL DEF Spec
=============================================================================
