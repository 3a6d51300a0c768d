---------------------------- MODULE ProviderLogin ----------------------------
(***************************************************************************)
(* Signing a profile in from the browser: internal/providerlogin runs the  *)
(* provider's own login CLI and reads what it prints,                      *)
(* internal/server/provider_login.go serves the polls, the pasted code and *)
(* the cached sign-in status that internal/providercheck probes.           *)
(*                                                                         *)
(* All attempts here are for one provider and profile, the target that     *)
(* Start supersedes by; the manager's lock makes each step atomic, what    *)
(* lies between two of its sections is not.                                *)
(***************************************************************************)
EXTENDS Naturals

CONSTANTS
  Attempts,    \* login attempts, each of a Start request of its own
  Submits,     \* code submissions of the user's browsers
  MaxRejects   \* bound on codes the CLI turns down

VARIABLES
  needsCode,  \* Claude's flow takes a code, Codex's polls by itself
  login,      \* attempt -> its session and its CLI
  submit,     \* submission -> where it is and the attempt it is for
  rejects,    \* codes turned down so far
  signedIn,   \* are the profile's credentials on disk
  cache,      \* providerStatusCache: what it says, "none" when empty
  probe       \* a status request: what its probe saw, "none" when there is none

loginVars == <<needsCode, login, submit, rejects, signedIn, cache, probe>>

Phases == {"starting", "awaiting_code", "awaiting_authorization", "verifying", "succeeded", "failed"}
Done(i) == login[i].phase \in {"succeeded", "failed"}
Seen == {"none", "in", "out"}

LoginTypeOK ==
  /\ needsCode \in BOOLEAN /\ signedIn \in BOOLEAN /\ rejects \in 0..MaxRejects
  /\ login \in [Attempts -> [at: {"new", "superseding", "listed", "swept"}, phase: Phases,
                             cli: {"none", "running", "passed", "failed"}, cancelled: BOOLEAN,
                             url: BOOLEAN, codes: 0..2]]
  /\ submit \in [Submits -> [at: {"idle", "marked", "done"}, for: Attempts]]
  /\ cache \in Seen /\ probe \in Seen

LoginInit ==
  /\ needsCode \in BOOLEAN /\ signedIn = FALSE /\ rejects = 0
  /\ login = [i \in Attempts |-> [at |-> "new", phase |-> "starting", cli |-> "none",
                                  cancelled |-> FALSE, url |-> FALSE, codes |-> 0]]
  /\ submit \in [Submits -> [at: {"idle"}, for: Attempts]]
  /\ cache = "none" /\ probe = "none"

statusVars == <<signedIn, cache, probe>>
---------------------------------------------------------------------------
Failed(l) == [l EXCEPT !.phase = "failed", !.cancelled = TRUE]
\* Start: cancelTarget fails what is listed and unfinished, sweep drops what
\* finished long enough ago ...
Supersede(i) ==
  /\ login[i].at = "new"
  /\ \E old \in SUBSET {j \in Attempts : login[j].at = "listed" /\ Done(j)} :
       login' = [j \in Attempts |->
                   CASE j = i -> [login[i] EXCEPT !.at = "superseding"]
                     [] j # i /\ login[j].at = "listed" /\ ~Done(j) -> Failed(login[j])
                     [] j # i /\ j \in old -> [login[j] EXCEPT !.at = "swept"]
                     [] OTHER -> login[j]]
  /\ UNCHANGED <<needsCode, submit, rejects, statusVars>>
\* ... and the CLI runs and is listed, whatever was listed since.
Launch(i) ==
  /\ login[i].at = "superseding"
  /\ login' = [login EXCEPT ![i].at = "listed", ![i].cli = "running"]
  /\ UNCHANGED <<needsCode, submit, rejects, statusVars>>
Cancel(i) ==
  /\ login[i].at = "listed" /\ ~Done(i)
  /\ login' = [login EXCEPT ![i] = Failed(@)]
  /\ UNCHANGED <<needsCode, submit, rejects, statusVars>>
Shutdown ==
  /\ \E i \in Attempts : login[i].at = "listed"
  /\ login' = [i \in Attempts |->
                 IF login[i].at # "listed" THEN login[i]
                 ELSE [(IF Done(i) THEN login[i] ELSE Failed(login[i])) EXCEPT !.at = "swept",
                                                                              !.cancelled = TRUE]]
  /\ UNCHANGED <<needsCode, submit, rejects, statusVars>>

\* onLine: a finished session hears nothing. The first URL opens the browser step,
\* a code that was turned down puts the user back there.
PrintsUrl(i) ==
  /\ login[i].cli = "running" /\ ~login[i].url
  /\ login' = [login EXCEPT ![i].url = TRUE,
                 ![i].phase = IF Done(i) THEN @
                              ELSE IF needsCode THEN "awaiting_code" ELSE "awaiting_authorization"]
  /\ UNCHANGED <<needsCode, submit, rejects, statusVars>>
Rejects(i) ==
  /\ login[i].cli = "running" /\ login[i].codes > 0 /\ rejects < MaxRejects
  /\ rejects' = rejects + 1
  /\ login' = [login EXCEPT ![i].codes = @ - 1, ![i].phase = IF Done(i) THEN @ ELSE "awaiting_code"]
  /\ UNCHANGED <<needsCode, submit, statusVars>>
\* The CLI ends: signed in, which takes a code where one is needed, or not; killed
\* when its context ends, cancelled or after its fifteen minutes.
Passes(i) ==
  /\ login[i].cli = "running" /\ login[i].url /\ (needsCode => login[i].codes > 0)
  /\ login' = [login EXCEPT ![i].cli = "passed"] /\ signedIn' = TRUE
  /\ UNCHANGED <<needsCode, submit, rejects, cache, probe>>
Fails(i) ==
  /\ login[i].cli = "running"
  /\ login' = [login EXCEPT ![i].cli = "failed"]
  /\ UNCHANGED <<needsCode, submit, rejects, statusVars>>
\* wait: the exit status decides, unless the session is finished already.
Reap(i) ==
  /\ login[i].cli \in {"passed", "failed"} /\ ~Done(i)
  /\ login' = [login EXCEPT ![i].phase = IF login[i].cli = "passed" THEN "succeeded" ELSE "failed",
                            ![i].cancelled = TRUE]
  /\ UNCHANGED <<needsCode, submit, rejects, statusVars>>

\* Mutation of Awaited: a code is taken as long as the login is under way.
AwaitedNot(i) == ~Done(i)
Awaited(i) == login[i].phase = "awaiting_code"
\* Submit marks the session and writes to the CLI outside the lock.
Mark(s) == LET i == submit[s].for IN
  /\ submit[s].at = "idle" /\ login[i].at = "listed" /\ needsCode
  /\ IF Awaited(i) THEN /\ login' = [login EXCEPT ![i].phase = "verifying"]
                        /\ submit' = [submit EXCEPT ![s].at = "marked"]
     ELSE submit' = [submit EXCEPT ![s].at = "done"] /\ UNCHANGED login
  /\ UNCHANGED <<needsCode, rejects, statusVars>>
Write(s) == LET i == submit[s].for IN
  /\ submit[s].at = "marked"
  /\ submit' = [submit EXCEPT ![s].at = "done"]
  /\ login' = IF login[i].cli = "running" THEN [login EXCEPT ![i].codes = @ + 1] ELSE login
  /\ UNCHANGED <<needsCode, rejects, statusVars>>

\* A poll that sees the login succeed empties the status cache.
Poll(i) ==
  /\ login[i].at = "listed" /\ login[i].phase = "succeeded"
  /\ cache' = "none"
  /\ UNCHANGED <<needsCode, login, submit, rejects, signedIn, probe>>
\* handleProviderStatus: what the cache says while it is fresh, else a probe, whose
\* answer is stored when the slowest of its CLIs has returned.
Probe ==
  /\ cache = "none" /\ probe = "none"
  /\ probe' = IF signedIn THEN "in" ELSE "out"
  /\ UNCHANGED <<needsCode, login, submit, rejects, signedIn, cache>>
Put ==
  /\ probe # "none" /\ cache' = probe /\ probe' = "none"
  /\ UNCHANGED <<needsCode, login, submit, rejects, signedIn>>
\* Thirty seconds, or a refresh the user asks for.
Stale ==
  /\ cache # "none" /\ cache' = "none"
  /\ UNCHANGED <<needsCode, login, submit, rejects, signedIn, probe>>

LoginNext ==
  \/ \E i \in Attempts : \/ Supersede(i) \/ Launch(i) \/ Cancel(i) \/ PrintsUrl(i) \/ Rejects(i)
                         \/ Passes(i) \/ Fails(i) \/ Reap(i) \/ Poll(i)
  \/ \E s \in Submits : Mark(s) \/ Write(s)
  \/ Shutdown \/ Probe \/ Put \/ Stale
LoginSpec == LoginInit /\ [][LoginNext]_loginVars

---------------------------------------------------------------------------
\* The CLI reads at most one code for each time it asks: two browsers that paste
\* theirs do not answer the same question twice (providerlogin.go:265-275).
\* And a login that passed reads as such, whoever superseded or cancelled others.
OneCodePerQuestion ==
  \A i \in Attempts : /\ login[i].codes <= 1
                      /\ login[i].phase = "succeeded" => login[i].cli = "passed" /\ signedIn

=============================================================================
