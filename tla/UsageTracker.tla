---------------------------- MODULE UsageTracker ----------------------------
(***************************************************************************)
(* Plan usage: internal/usage/tracker.go with the fetchers claude.go and   *)
(* codex.go, the forced refresh of internal/server/usage.go and the        *)
(* renewal of internal/providercheck.                                      *)
(*                                                                         *)
(* One credential path shared by every profile in Profiles. Two rounds     *)
(* may run at once: the poll loop's, and a request's forced one. A round   *)
(* decides at its gate whether to ask the provider, may have the provider  *)
(* CLI renew an expired token, records what the answer means for the next  *)
(* rounds, and rebuilds the cache; the lock is taken four times, not once. *)
(***************************************************************************)
EXTENDS Naturals, FiniteSets, FiniteSetsExt

CONSTANTS
  Profiles,    \* profile keys resolving to the one credential path
  MinGap, StaleRetry, BackoffBase, BackoffCap, RetryAfter, Interval,
  Cooldown,    \* renewCooldown
  CliTimeout,  \* how long one renewal may take
  CarryMax,    \* staleCarryMax
  MaxTime,     \* bound on the clock
  MaxEvents    \* bound on requests, turns, passive reports and expiries

VARIABLES
  now,       \* the clock; 0 is Go's zero time
  token,     \* the access token on disk
  cache,     \* t.cache
  gate,      \* t.rateGate[path]
  backoff,   \* t.backoff[path]
  failures,  \* t.failure[path]
  renewAt,   \* t.renewAt[path]
  nudge,     \* the buffered channel of one
  wakeAt,    \* when the loop's timer fires
  round,     \* the two rounds
  happened   \* how many outside events there were

usageVars == <<now, token, cache, gate, backoff, failures, renewAt, nudge, wakeAt, round, happened>>

Rounds == {"loop", "request"}
Statuses == {"none", "ok", "no_credentials", "stale", "unauthorized", "rate_limited", "error"}
Horizon == MaxTime + Max({RetryAfter, BackoffCap, Interval, Cooldown})
Snapshot == [status: Statuses, at: 0..MaxTime, windows: BOOLEAN, fetched: 0..MaxTime,
             stale: BOOLEAN, retry: 0..Horizon, passive: BOOLEAN]
NoSnapshot == [status |-> "none", at |-> 0, windows |-> FALSE, fetched |-> 0,
               stale |-> FALSE, retry |-> 0, passive |-> FALSE]

UsageTypeOK ==
  /\ now \in 1..MaxTime /\ token \in {"good", "expired", "absent"}
  /\ cache \in [Profiles -> Snapshot]
  /\ gate \in 0..Horizon /\ backoff \in 0..Horizon /\ failures \in Nat /\ renewAt \in 0..Horizon
  /\ nudge \in {"none", "kick", "now"} /\ wakeAt \in 0..Horizon
  /\ round \in [Rounds -> [at: {"idle", "fetch", "renew", "record", "rebuild"}, since: 0..MaxTime,
                           renewed: BOOLEAN, snap: Snapshot, retry: 0..Horizon]]
  /\ happened \in 0..MaxEvents

NoRound == [at |-> "idle", since |-> 0, renewed |-> FALSE, snap |-> NoSnapshot, retry |-> 0]

UsageInit ==
  /\ now = 1 /\ token \in {"good", "expired", "absent"}
  /\ cache = [p \in Profiles |-> NoSnapshot]
  /\ gate = 0 /\ backoff = 0 /\ failures = 0 /\ renewAt = 0
  /\ nudge = "none" /\ wakeAt = 1
  /\ round = [r \in Rounds |-> NoRound] /\ happened = 0

gates == <<gate, backoff, failures>>
Outside == happened < MaxEvents /\ happened' = happened + 1
Least(a, b) == IF a < b THEN a ELSE b

\* lastForPathLocked: the youngest snapshot of any profile on this path.
Last == CHOOSE s \in {cache[p] : p \in Profiles} : \A p \in Profiles : cache[p].at <= s.at

\* gateCheck: is this round skipped, and what does it then report.
Gated == now < gate
Backing == now < backoff /\ Last.status # "none"
Fresh == Last.status # "none" /\ now - Last.at < MinGap /\ ~Last.passive
Skips(force) == Gated \/ (~force /\ (Backing \/ Fresh))
Skipped == IF Gated THEN [Last EXCEPT !.status = "rate_limited", !.retry = gate,
                                      !.at = IF Last.status = "none" THEN now ELSE @]
           ELSE IF Backing THEN [Last EXCEPT !.retry = backoff] ELSE Last

\* Refresh up to the request: skipped rounds go straight to recordBackoff.
Enter(r, force) == round' = [round EXCEPT ![r] =
  IF Skips(force) THEN [NoRound EXCEPT !.at = "record", !.snap = Skipped]
                  ELSE [NoRound EXCEPT !.at = "fetch", !.since = now]]

\* The loop starts a round when its timer fires or a nudge is there.
Poll ==
  /\ round["loop"].at = "idle"
  /\ \/ /\ now >= wakeAt /\ Enter("loop", FALSE) /\ UNCHANGED nudge
     \/ /\ nudge # "none" /\ Enter("loop", nudge = "now") /\ nudge' = "none"
  /\ UNCHANGED <<now, token, cache, gates, renewAt, wakeAt, happened>>
\* GET /api/usage?refresh=1.
Request ==
  /\ round["request"].at = "idle" /\ Outside /\ Enter("request", TRUE)
  /\ UNCHANGED <<now, token, cache, gates, renewAt, nudge, wakeAt>>

\* FetchClaude, FetchCodex: a snapshot carries the time its fetch began. A
\* request that is given up, or a network in trouble, is an error.
Outcomes == CASE token = "absent" -> {"no_credentials"}
              [] token = "expired" -> {"stale", "unauthorized", "error"}
              [] token = "good" -> {"ok", "rate_limited", "error"}
Fetched(r, s) == [NoSnapshot EXCEPT !.status = s, !.at = round[r].since, !.windows = (s = "ok"),
                                    !.retry = IF s = "rate_limited" THEN now + RetryAfter ELSE 0]
\* Mutation of Claimed: the cooldown is looked at but not taken.
ClaimedNot == renewAt
\* claimRenew takes the cooldown under the lock it was checked in.
Claimed == now + Cooldown
Renewable(r, s) == s \in {"stale", "unauthorized"} /\ ~round[r].renewed /\ now >= renewAt
Answer(r) ==
  /\ round[r].at = "fetch"
  /\ \E s \in Outcomes :
       IF Renewable(r, s)
       THEN /\ renewAt' = Claimed
            /\ round' = [round EXCEPT ![r].at = "renew", ![r].since = now]
       ELSE /\ round' = [round EXCEPT ![r].at = "record", ![r].snap = Fetched(r, s)]
            /\ UNCHANGED renewAt
  /\ UNCHANGED <<now, token, cache, gates, nudge, wakeAt, happened>>
\* renewAndRefetch: whatever the CLI did, the credentials are read once more.
Renew(r) ==
  /\ round[r].at = "renew"
  /\ token' \in IF token = "expired" THEN {"good", "expired", "absent"} ELSE {token}
  /\ round' = [round EXCEPT ![r].at = "fetch", ![r].since = now, ![r].renewed = TRUE]
  /\ UNCHANGED <<now, cache, gates, renewAt, nudge, wakeAt, happened>>

---------------------------------------------------------------------------
\* recordBackoff, for fetched and for skipped rounds alike.
\* Mutation of Waits: the delay doubles without end.
WaitsUncapped(first, most) == now + first * (2 ^ failures)

Waits(first, most) == now + Least(first * (2 ^ failures), most)
Record(r) == LET s == round[r].snap IN
  /\ round[r].at = "record"
  /\ \/ /\ s.status \in {"ok", "no_credentials"}
        /\ gate' = 0 /\ backoff' = 0 /\ failures' = 0
        /\ round' = [round EXCEPT ![r].at = "rebuild"]
     \/ /\ s.status = "stale"
        /\ gate' = 0 /\ failures' = failures + 1 /\ backoff' = Waits(StaleRetry, Interval)
        /\ round' = [round EXCEPT ![r].at = "rebuild", ![r].retry = backoff']
     \/ /\ s.status = "rate_limited"
        /\ gate' = s.retry /\ backoff' = 0 /\ failures' = 0
        /\ round' = [round EXCEPT ![r].at = "rebuild", ![r].retry = gate']
     \/ /\ s.status \in {"unauthorized", "error"}
        /\ failures' = failures + 1 /\ backoff' = Waits(BackoffBase, BackoffCap)
        /\ round' = [round EXCEPT ![r].at = "rebuild", ![r].retry = backoff']
        /\ UNCHANGED gate
  /\ UNCHANGED <<now, token, cache, renewAt, nudge, wakeAt, happened>>

\* carryWindows: numbers stay visible while rounds fail, marked stale, for CarryMax.
Carry(prev, next) ==
  LET at == IF prev.fetched = 0 THEN prev.at ELSE prev.fetched IN
  IF next.status = "ok" /\ next.windows THEN [next EXCEPT !.stale = FALSE, !.fetched = next.at]
  ELSE IF next.windows THEN [next EXCEPT !.stale = TRUE,
                                         !.fetched = IF @ = 0 THEN next.at ELSE @]
  ELSE IF next.status = "no_credentials" \/ ~prev.windows \/ now - at > CarryMax THEN next
  ELSE [next EXCEPT !.windows = TRUE, !.stale = TRUE, !.fetched = at]
\* The end of Refresh: every profile on the path gets the snapshot, and the
\* loop sleeps until the soonest deadline the snapshots publish (nextWake).
Published(r) == LET s == round[r].snap IN [s EXCEPT !.retry = IF @ = 0 THEN round[r].retry ELSE @]
Rebuild(r) ==
  /\ round[r].at = "rebuild"
  /\ cache' = [p \in Profiles |-> Carry(cache[p], Published(r))]
  /\ wakeAt' = IF r # "loop" THEN wakeAt
               ELSE LET due == {t \in {now + Interval} \cup {cache'[p].retry : p \in Profiles} : t > now}
                    IN CHOOSE t \in due : \A u \in due : t <= u
  /\ round' = [round EXCEPT ![r] = NoRound]
  /\ UNCHANGED <<now, token, gates, renewAt, nudge, happened>>

---------------------------------------------------------------------------
\* IngestPassive: a turn reports its plan's windows.
Ingest(p) ==
  /\ ~(cache[p].status # "none" /\ ~cache[p].passive /\ now - cache[p].at < MinGap) /\ Outside
  /\ cache' = [cache EXCEPT ![p] = [status |-> "ok", at |-> now, windows |-> TRUE, fetched |-> now,
                                    stale |-> FALSE, retry |-> 0, passive |-> TRUE]]
  /\ UNCHANGED <<now, token, gates, renewAt, nudge, wakeAt, round>>
\* kick: it never blocks and is dropped when one is queued.
Kicked(k) == nudge' = IF nudge = "none" THEN k ELSE nudge
\* A turn ends; the provider CLI may have refreshed its token meanwhile.
TurnEnd ==
  /\ Outside /\ Kicked("kick")
  /\ token' \in IF token = "expired" THEN {"expired", "good"} ELSE {token}
  /\ UNCHANGED <<now, cache, gates, renewAt, wakeAt, round>>
\* A sign-in writes the token and asks for a refresh at once.
SignIn ==
  /\ Outside /\ token' = "good" /\ Kicked("now")
  /\ UNCHANGED <<now, cache, gates, renewAt, wakeAt, round>>
Expire ==
  /\ token = "good" /\ Outside /\ token' = "expired"
  /\ UNCHANGED <<now, cache, gates, renewAt, nudge, wakeAt, round>>
\* A renewal does not outlive its timeout.
Tick ==
  /\ now < MaxTime /\ \A r \in Rounds : round[r].at = "renew" => now < round[r].since + CliTimeout
  /\ now' = now + 1
  /\ UNCHANGED <<token, cache, gates, renewAt, nudge, wakeAt, round, happened>>

UsageProgress == Poll \/ \E r \in Rounds : Answer(r) \/ Renew(r) \/ Record(r) \/ Rebuild(r)
UsageNext ==
  \/ UsageProgress \/ Request \/ TurnEnd \/ SignIn \/ Expire \/ Tick
  \/ \E p \in Profiles : Ingest(p)
UsageSpec == UsageInit /\ [][UsageNext]_usageVars

---------------------------------------------------------------------------
\* Concurrent rounds never have two provider CLIs renewing the same
\* credentials: the cooldown a round claims outlasts its renewal
\* (tracker.go:457-459).
OneCliPerToken == Cardinality({r \in Rounds : round[r].at = "renew"}) <= 1

=============================================================================
