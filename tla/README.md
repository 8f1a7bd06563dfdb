# Verification of the AI-powered WAF

TLA+ models, model-checking runs and machine-checked proofs for the web
application firewall in this repository: a Go reverse proxy (`tier-0`), its
adaptive trust engine and asynchronous second-opinion pipeline (`trustscore`),
and a C agent that reports effects from inside the protected process (`rasp`).
The modules are written from the source; `PROJECT.json` names the lines each
definition stands for.

## 1. The system

| part | state it keeps | operations | hard behaviours |
|---|---|---|---|
| Decision logic (`fusion.go`, `user_fusion.go`) | none | override ladder, policy layer, bands, corrections | order of rungs, boundaries, what the boost may cross |
| IP layer of the trust engine (`ip_store.go`, `types.go`, `fusion.go`, `api.go`) | a store of profiles: counters, RASP hits, score history, the sticky `WasBlocked` | Gatekeeper before a request; one learner goroutine per request after it: load, Phase 1 (read lock), Phase 2 (overrides, policy), Phase 3 `Update` (write lock); eviction | learners hold profiles the store has evicted; a verdict is computed long before it is written; an increment under a read lock |
| User layer (`user_fusion.go`, `user_profile.go`, `user_store.go`) | a store of account profiles with a smoothed score | signals, `RecordLogin`, override or `UpdateEWMA`, read back, sticky flag | almost all of it without the profile's lock |
| RASP ingest (`rasp.go`) | none | IP half and user half of a confirmed effect | two halves; races with every learner in flight |
| Tier 1 pipeline (`tier1*.go`) | Redis list, dead-letter list, results; SQLite audit rows; workers | enqueue, pop, predict, requeue, bury, store, correct, audit, stop | destructive pops, ambiguous timeouts, crashes, audit writes in detached goroutines |
| Score export, reset (`redis_exporter.go`) | Redis keys | export a score, reset everything | reset against learners in flight |
| Detection modules (`recon.go`, `ddos.go`, ...) | request windows, number sequences and counters in the profile | nine sub-scores; the part of `Update` that records a request | learners of one address record in any order; a window is only trimmed by the next request |
| Proxy cascade (`proxy.go`, `coraza.go`, `crypto.go`) | clearance cookies (in clients' hands) | Gatekeeper, challenge, rate limits, Coraza, ML score, Tier 1 enqueue, forward, `/challenge-solve` | reads six parts of the configuration one by one, without a lock; endings without an answer |
| Rate limiter (`rate_limiter.go`) | token buckets per address and per user | take a token by address, by user; evict | a bucket created twice, shared by tiers, evicted while in use; rounding of `Retry-After` |
| Configuration and administration (`config_manager.go`, `admin.go`, `main.go`) | live configuration, four places it is applied to, its file, the JWT secret's file; accounts, their file, sessions | load, save, reset; set up, create, log in | memory and file disagree after a failure; crashes between steps; check-then-act; torn files |
| Identity (`middleware/resolver.go`) | a resolver, replaced on save; a token cache | resolve a user | replacement under running requests; stale cache |
| RASP agent (`rasp/src/*.c`) | a socket and a lock per process, a context per thread | hook, judge, emit, refuse | threads, fork, a reader that dies or stops reading |

**How they interact.** For each request the proxy resolves an identity, asks the
Gatekeeper (which reads both profiles), and serves, challenges or rejects. After
the answer it starts a learner goroutine that scores the request and updates the
profiles for the *next* one. Grey-zone requests are pushed to Redis, where Tier 1
workers judge them and correct the profiles' `EWMAScore`. The RASP agent reports
confirmed effects over a socket; the ingest craters the score. All of them share
the profiles through two in-memory stores, which an eviction loop and the
administrator's reset empty under them.

**What makes the parts correct.** *Trust engine:* a rejection is never followed by
unchallenged service before the address is forgotten; a confirmed exploit is
contained in every interleaving; counters never punish what did not happen.
*Tier 1:* a submitted job is always accounted for, attempted a bounded number of
times, judged and applied at most once, and the audit never claims more than
happened. *Proxy:* a request ends as one configuration says, and where a save overlaps it, as
far as each part it read was in effect; clearance is worth only what was worked for, at
the client's own address or for the whole of its network.
*Rate limiter:* no client gets more than burst and refill, and `Retry-After` is
honest. *Detection:* what is raised was done. *Configuration:* memory, parts and file
agree between saves and after a restart. *Administration:* only people who were let
in hold sessions. *RASP agent:* no verdict is copied, none vanishes but in the named
ways (its reader dies, its line does not parse, its child is killed), and no thread of
the backend hangs in it.

## 2. Modules

    Reputation          what the engine promises about an entity (abstract)
      ^ refined by
    IPTrust             IP layer: store, learners, writers, eviction
      | EXTENDS TrustScoring    pure decision logic and its thresholds
      ^ EXTENDS
    TrustEngine         IP layer + user layer + two-step writers

    Tier1Review         what the pipeline promises about a job (abstract)
      ^ refined by
    Tier1Pipeline       queue, workers, audit, shutdown, crash

    WafConfig           live configuration, files, the parts it is applied to
      ^ EXTENDS                            ^ EXTENDS
    WafProxy            request cascade,   WafAdmin    configuration endpoints behind
                        cookies                        the sessions of AdminStore

    RateLimiter         token buckets
    Detection           request windows and the detectors that read them
    RaspAgent           the agent in the backend and the WAF's ingest

Proofs: `TrustEngineProofs` (part one the IP layer, part two the whole engine),
`Tier1Proofs`, `RateLimiterProofs`, `DetectionProofs`, `RaspAgentProofs`,
`WafConfigProofs`, and on top of that one `WafAdminProofs` and `WafProxyProofs`. The `MC...` modules are the instances for TLC.

In several modules the definitions of a plausible bug stand beside the correct ones,
commented "(mutant: ...)". No specification uses them; `PROJECT.json` lists which
property each of them violates when it takes the place of the original.

### TrustScoring
Scores are integers in hundredths (`0..1000` for 0.00 to 10.00); everything the
code stores was rounded to two decimals. `HardOverride` is `checkHardOverrides`,
rung by rung; `EventScore` is the base, the challenge boost (0.15, added to an
override too) and the Tier 1 delta (not added to an override); `ApplyPolicy`
and `ApplyUserPolicy` are the policy layers, `UserRaw` the raw score of an account. The weighted sum of
the detection modules is an input. Thresholds are constants with their order as
the only assumption (`Thresholds`), so that small instances reach every rung.
`BlendsTo` allows the EWMA half a hundredth of rounding of the result and the 7.5
parts of ten thousand that rounding its raw input can add.

### IPTrust
State: `store` maps an address to a profile object, `prof` is the heap of these
objects, and `pc`, `ptr`, `job`, `seen`, `verdict` are the locals of the learner
goroutines. Each action is one critical section: `LearnerLoad`; Phase 1
(`ScoreEvent`, or for a login POST the two halves `ReadLoginAttempts` and
`BumpLoginAttempts`, because the increment runs under the *read* lock);
`CheckHardOverrides`; `ApplyPolicyOverrides`; `UpdateProfile`. The other writers
are `RASPHitIP`, `ChallengeSolvedIP` and `Tier1CorrectionIP`. `Evict` and
`ResetAllData` take objects out of the store while learners still hold them.

Abstractions, each explained at its place: a writer's load and its critical
section are one action (an eviction between them has the effect of one after
them); time is an hour without traffic (`HourPasses`), an expiry of the boost and
a slide of the burst window; counters saturate at the highest threshold that
reads them; `last` stands for the newest of `PreviousScores`, and only that one is
ever read by a decision. The Gatekeeper's read of it takes no lock in the code; the
model reads it atomically; the torn slice header that this data race allows is outside
the model.

### TrustEngine
Adds the user layer. `ComputeUserTrustScore` uses the account's mutex only inside
`RecordLogin` and `UpdateEWMA`; every other access to the shared profile is a step of
its own: `UserLoad`, `RecordLogin`, `ScoreUser` (raw score, expiry of a solved
challenge), `BoostUser`, `CorrectUser`, the three reads of `checkUserHardOverrides`
(`CheckExploit`, `CheckFailures`, `CheckNewDevice`), and then either `StoreOverride`
followed by two unlocked reads and writes back (`ReadBack`, `WriteBack`, for the clamp
and the rounding) or `BeginBlend` and `EndBlend`, between which `UpdateEWMA` holds the
mutex: that keeps out other blends, `RecordLogin` and the writers (`Unlocked`), but
not an override being stored. `ReadFinalScore` and `FlagUser` end the learner. The
three assignments inside `UpdateEWMA` are one write: what an override stored between
them would only be clamped and rounded. RASP, challenge, Tier 1 and reset update an IP profile first and an
account later; `tail` holds the half still to come. `GatekeeperFor` is the
Gatekeeper for both identities: the account's score replaces the address's, the
sticky flags of both count.

### Tier1Pipeline
Every call to Redis, the model or SQLite is a step. A Redis call has three
outcomes: `ok`, `lost` (error, no effect) and `unsure` (error although it took
effect, as on a timeout). Audit writes of `go func` wait in `pending` for any later
moment. `Restart` kills the process at any point; Redis and SQLite survive.
Commands take effect at most once: retries inside the Redis client library
(go-redis retries on its own), which might push a job twice, are not modelled, and what
is checked and proved of the pipeline is subject to that. Heartbeats and statistics are written and
never read by this code and are left out, and so is a panic of a worker.

### RateLimiter
State: `buckets` is the two maps, `heap` the `TokenBucket` objects, and `pc`, `key`,
`user`, `tier`, `ptr` the locals of the handlers in `checkRateLimits`. A handler goes
through `Lookup` (read lock), `Create` (write lock, second look) and `Allow` (the
bucket's lock), for its address and then for its user; `Sweep` is one pass of the
eviction goroutine and `Tick` a second. Rate and burst come with every call, so all
tiers of a client share its bucket. Tokens are counted in units of `1/Unit`, which
makes rates below one per second natural numbers; the code's floating-point refill
between whole seconds is rounded to seconds. Four histories carry the properties:
`credit` is an ideal bucket at the highest setting that is never evicted, `extra`
what was granted to a handler whose bucket a sweep had removed (`late`), `promise` the
last `Retry-After`.

### WafConfig
A configuration is four fields: the trust engine's thresholds, the JWT secret, the
Coraza switch, and a `tuning` for all other controls. `live` is `LiveConfig`;
`cfgFile` and `secretFile` are the disk; `weights`, `trust`, `threshold`, `resolver`,
`coraza` the places a save applies it to. `Fetch` is a dashboard that takes a copy and
changes one control, `Reset` the reset endpoint, and `SaveWafConfig` is one action per
effect: `Assign` (lock, `LiveConfig`), `WriteTmp`, `Rename`, `ApplyWeights`,
`ApplyThreshold`, `ApplyResolver`, `ApplyCoraza`. Writing and renaming may fail, Coraza's
rules may not load, and the process may crash anywhere; `RestartConfig` is
`LoadWafConfig` and the wiring of `main`. `acked` and `failed` are histories.

Worth knowing, and in the model without a property of their own because they are what
the code says: a dashboard posts the *whole* configuration it fetched, so of two that
save at once the later undoes the earlier's change; a reset takes over the trust
thresholds in effect, not the compiled ones; a save that fails leaves `LiveConfig`
ahead of everything else.

### AdminStore and WafAdmin
`store` is the account store in memory, `file` is `admins.json` (or `Torn`), `call`
where each setup or create request is, `sessions` the cookies people hold.
`SetupCheck` and `CreateCheck` are the check that lets a request in, `CreateAdmin` the
second lock up to the truncation of the file, `WriteStore` the rest of `os.WriteFile`;
`Login`, `Expire`, `CrashStore`, `RestartStore` complete it. Passwords are who knows
them, and signatures are compared by key. `WafAdmin` puts both into one process: a
configuration change needs a session at the moment it comes in.

### WafProxy
EXTENDS `WafConfig`; `req[r]` is the request a handler serves, which moves through
`identify`, `gate`, `limit`, `consult`, `switch`, `inspect`, `predict`, `margin`, `consult again`, `switch
again`, `inspect again`, `forward` to `done`. One step of the cascade is what happens between
two reads of shared state, so a save can change each part in between: `Resolve` reads
the resolver's secret, `Gate` the cookie's secret, `Consult` and `Inspect` the Coraza
engine (twice: compared with nil, then called) with `CheckSwitch` reading
`LiveConfig.EnableCoraza` in between, `Predict` the threshold, `CheckMargin`
the margin. Every ending is there: 403, challenge, 429, a body that cannot be read,
Coraza's denial, the model's block, the forwarded answer, a client that leaves, a
panic. `Solve` and `IssueCookie` are `/challenge-solve`, `Midnight` the change of date
the salt depends on. A salt names an address; `SaltBindsTo` is
`verifyChallengeCookie`'s comparison: the client's own address or, as the comments at
`proxy.go:121` and `crypto.go:22-24` intend, the client's address masked to its /24 or
/64 (`MaskOf`). So a cookie earned at the first address of a network opens the whole
network, and any other one only its own address. The Gatekeeper's verdict, the limiter's answer, the predicted
probability and what Coraza finds are inputs, so the cascade is checked against all of
them. `seen` is the history of what was in effect during a request, `worked` the salts
somebody solved.

`checkRateLimits` answers a refused request and its learner itself; the copy for
Tier 1 is part of `Predict` and has no effect on the handler. The WAF has no other
shared state in the cascade: `Tier1Config` and the rate settings are read once.

### Detection
The sets `recent`, `burst` and `byPath` are the profile's timestamp windows, `ids` the
numbers asked for under one path, `last429` and `pauses` the pause counter. A request
is stamped on `Arrive`, scored on `Score` (Phase 1: what the detectors raise goes into
`flags`) and recorded on `Update`; learners overlap, so requests are recorded in any
order. `Trim`, `WindowCount` and `TopRun` are `trimTimestamps`, `slidingWindowCount`
and the run `detectIDSequence` finds. A window is a set of requests where the code
keeps a list of timestamps, in the order of recording: only counts are ever taken.
`late` remembers which requests were recorded after one newer by more than the window.

### RaspAgent
One backend process with threads, and the children they fork. `ctx` is the
thread-local request context, `lock` and `sock` are `g_emit_lock` and `g_sock` of each
process, `link` its connection seen from the ingest. `Attempt` classifies an effect;
`Lock`, `EnsureSocket`, `Write`, `WriteFails`, `Fallback`, `Unlock` are `rasp_emit`;
`Fork` includes `rasp_atfork_child`. On the other side `Accept`, `HandleLine` and
`HandleEnd` are the accept loop and a connection's goroutine; `AcceptFails` ends the
loop for good, `CloseListener` is the finalizer of the listener nobody references any
more, `IngestDies` and `StartRASPIngest` a restart of the WAF. `NoSocket` is
`socket()` itself failing. Two ways to lose a verdict are actions: a line whose request
id, address or user carries a character JSON would have escaped (`Garbling`; `rasp_emit`
escapes `evidence` only) is logged and skipped by `handleRASPConn` (`skipped`), and a
child whose connection has died is killed by its own write where `SIGPIPE` has its
default (`SigpipeKills`, `killed`). CPython ignores the signal in the backend, whose
threads therefore retry; `subprocess` restores the default in the child before it
executes the command, other children may not, so in a child both can happen.

Outside the model: a garbled line that still parses, but as another verdict; a write
interrupted by a signal; a verdict longer than the kernel takes at once, or than the
1024 bytes of `rasp_emit`'s buffer; children made by `vfork`, which share the parent's
memory.

## 3. Runs

| run | instance | checks | shows |
|---|---|---|---|
| `ip_trust` | 1 address, 2 learners, 3 profile objects; 3 events, 1 RASP hit, 1 other intervention | `TypeOK` `RejectedIsFlagged` `ExploitContained` `NoPhantomLogins` `LearnedAfterExploitBans` `RefinesReputation` | flags and scores stay consistent although verdicts are written late and profiles are evicted under learners |
| `trust_engine` | 1 address, 1 account, 2 learners, 1 other writer | `EngineTypeOK` `ExploitContainedForAll` `SettledUserIsFlagged` `SingleEventInertia` | what the unlocked user layer still guarantees |
| `tier1_safety` | 2 jobs, 2 workers, 2 retries, 2 faults, 1 crash | `PipeTypeOK` `Accounted` `AuditSound` `MarkedAfterApplied` `RefinesReview` | no job disappears unaccounted, attempts are bounded, at most one judgement and one correction, the audit never over-claims |
| `tier1_liveness` | 2 jobs, 2 workers, 2 retries, 1 fault | `EveryJobSettles` `StopTerminates` | queued jobs end, and `Stop` returns |
| `rate_limiter` | 1 address, 1 user, 2 handlers, 4 buckets, 2 settings, 4 seconds | `LimiterTypeOK` `WithinBudget` `RetryAfterHonoured` | creation races, shared tiers and sweeps give nothing away but one request per overtaken handler; an obedient client is not refused again |
| `waf_admin` | 2 editors, 2 people, 2 names, 2 account calls, 2 changes, 1 crash | `ConfigTypeOK` `SettledConfigAgrees` `AckedConfigIsStored` `OnlyAdmittedHoldSessions` `AckedAccountsAreStored` `NoTakeover` | saves, failures and restarts leave one configuration everywhere; only those hold sessions whom a check let in (a second setup that raced the first is one of them) |
| `waf_proxy` | 1 handler, 2 addresses of one network (its first and another), 2 tunings, 3 probabilities, 1 change, 1 crash, 1 solution, 2 midnights | `ProxyTypeOK` `CalmRequestsFollowThePolicy` `OverlappedRequestsKeepTheCore` `PanicsNeedASwitch` `ClearanceIsEarned` | what a request can rely on while the configuration changes under it |
| `rasp_agent` | 2 threads (the requests of one garble its lines), 1 child, 2 verdicts, a buffer of 1, 1 death of the WAF | `RaspTypeOK` `VerdictsAccounted` `RetryReachesIngest` `EmitReturns` | forks, restarts and a dead accept loop copy no verdict, drop none but with its reader, as a line that does not parse or with a killed child, and hang no thread |
| `detection` | 2 learners, 4 requests, 4 seconds, a minute of 2 | `WindowsKeepTheRecent` `FlagsAreEarned` | learners in any order lose no recent request, raise only what was done, and miss no flood recorded |
| `exploit_next_request` | as `ip_trust` | `ExploitBansNextRequest` (violated) | a comment's claim that fails |
| `bursts_are_current` | as `detection` | `BurstsAreCurrent` (violated) | the same |
| `corrections_audited` | no faults, no crashes | `CorrectionsAreAudited` (violated) | the same |

**Bounds and why they are enough.**

* *Trust engine.* The races of the IP layer are between one learner and one other
  actor, or between two learners on one profile: two learners and one address contain
  each of them. Three profile objects are one per learner plus one in the store, the
  most that can be in use. The instance thresholds are the smallest that keep the rungs
  apart (`LoginBlock = 1`, `LoginBan = 2`, `SensBlock = 2`, `SensBan = 3`,
  `MaxRASPHits = 1`), so three events reach the count-driven rungs.
* *Tier 1.* Two jobs and two workers let a duplicated copy of one job meet the other
  worker, two faults cover "the requeue timed out and the dead-letter push failed
  too", and one crash separates a before from an after.
* *Rate limiter.* Two handlers race on one key; four buckets are one per handler and
  key. The settings differ in rate and burst, one of them refills slower than a token
  a second so that `Retry-After` is rounded, and four seconds exceed `MaxIdle` and
  leave time to come back after a sweep.
* *Configuration.* Two editors race for `ConfigMu`; a second change follows a failed or
  crashed first one. Two people are the insider and the stranger.
* *Proxy.* Handlers share nothing they write, so one handler meets everything a second
  one would; the tunings differ in threshold and margin such that the three
  probabilities fall in every band of one and on another side of the other. Two
  midnights age a cookie past its second day. Two addresses, the first of a network and
  another of it, tell the two comparisons of a salt apart in both directions.
* *RASP agent.* A buffer of one makes the second verdict wait; a child forked while
  another thread holds the lock needs two threads. `MaxDeaths = 1` gives a stale socket.
* *Detection.* A minute of two seconds and a clock of four let a request leave the
  window while another, older one is still to be recorded.

The theorems of section 5 remove these bounds for every safety property, action
property and refinement that a run checks and finds to hold. Bounds in modules: `MaxFaults` and `MaxCrashes` (`Tier1Pipeline`), `MaxDay`
(`WafProxy`), `MaxVerdicts` and `MaxDeaths` (`RaspAgent`), `MaxTime` and `MaxRequests`
(`Detection`); in MC modules only: `MaxEvents`, `MaxHits`, `MaxInterventions`,
`MaxWrites`, `MaxCalls`, `MaxChanges`, `MaxCrashes`, `MaxSolutions`, and the limiter's
`MaxTime`. `MCTrustEngine` lets learners through the IP layer one at a time and runs only writers
with a user half, because `ip_trust` interleaves the IP layer and has the others.
`MCWafProxy` lets a handler that has its answer return before anything
else happens, because it touches nothing any more, and has solutions, cookies and
midnights only while no handler is past the gate, the last place that looks at them; `MCRaspAgent` starts nothing
new once the last verdict is on its way. Deadlock checking is off throughout: a
bounded environment runs out, and these systems rest when nobody asks them for anything.

**Symmetry** is used for objects, learners, workers, handlers, editors, people, names
and secrets, only in runs without liveness. `MCRateLimiter` has a `VIEW` that ignores
the locals of idle handlers and the contents of unreachable buckets.

**Fairness.** `tier1_liveness` assumes weak fairness of each worker and of
`CloseAudit`. Workers are goroutines whose calls all have timeouts (the model call
has the client's timeout, the pop five seconds), so each of them is eventually
scheduled and its call returns; `CloseAudit` is `Stop` after `wg.Wait`. `rasp_agent`
assumes weak fairness of each thread inside `rasp_emit` (a lock it waits for is in
one process and held for a few calls), of the ingest's `Accept` and of each
connection's goroutine, and of `CloseListener`: after the accept loop has ended only
the garbage collector, which Go runs at least every two minutes, frees an agent that
waits in `write` on a full socket. Nothing obliges a client to send, `Stop` to be
called, a fault to happen or the WAF to come back. The other runs check safety and
need no fairness.

## 4. What the runs found

* **A CRITICAL RASP hit does not always ban the next request** (`rasp.go:77-80`
  says it does). A learner that checked the overrides before the hit appends its own
  score after the 0.0 of `AddRASPHit`. The address is still challenged, never served
  (`ExploitContained`), and the next learner bans it (`LearnedAfterExploitBans`).
* **A burst is not of the current second** (`README.md:24,46` of `trustscore` count
  "req/s", and `ddos.go:24` reports the count as such). Only `Update` trims the burst
  window, after the request is scored: the first request after a silence, however long,
  is scored, challenged or banned by the burst before it (`BurstsAreCurrent`). What is
  raised is around the newest request recorded, requests that were recorded late apart
  (`FlagsAreEarned`); the window spans two clock seconds because timestamps are whole.
* **Corrections can be missing from the audit** (`tier1_audit.go:125`): the row is
  inserted by a goroutine started after the job is visible, and an update that finds no row
  is not an error.

Those three are checked as violations. More observations made on the way are modelled
as the code has them, without a property of their own:

* When Coraza denies a request the handler returns without writing an answer: the
  client sees an empty 200 while the learner records 403 (`dropped`).
* A save that disables Coraza between a handler's nil check and its call makes the
  handler panic, without a learner or a log line (`panicked`, which `PanicsNeedASwitch`
  confines to that race).
* The policy layer, called a first-touch guardrail at `fusion.go:165-168`, looks at
  profile fields `Update` fills in only after the decision (`fusion.go:330`): the first
  probe of a VPN address is served.
* A verdict whose request id, address or user contains a character JSON escapes never
  reaches the trust engine (`emitter.c:148-157`, `rasp.go:263-267`).
* A child with the default `SIGPIPE` whose connection died with the WAF is killed by its
  next `write`, without the retry and without stderr, although the comment at
  `emitter.c:166-168` says that it reconnects "rather than losing the event".
* A hard override of an account is stored outside the mutex. A blend that read the score
  before it and writes after it takes it back: the learner then reads a good score,
  decides on that and sets no flag, although the comment at `user_fusion.go:171-173` says
  that a critical condition "takes immediate effect rather than washing out". A confirmed
  exploit is not affected, because `AddRASPHit` sets the account's flag itself
  (`ExploitContainedForAll`).
* Of two first setups that race, both may pass the check before either account exists;
  `OnlyAdmittedHoldSessions` counts the second as admitted.

## 5. Proofs

Part one of `TrustEngineProofs` proves, with TLAPS, for any number of addresses, learners, profile
objects and events and any thresholds satisfying `Thresholds` and `IPConstants`:

| theorem | statement |
|---|---|
| `NextKeepsInv`, `Invariance` | `IInv` is inductive and holds |
| `TypeCorrectness` | `Spec => []TypeOK` |
| `RejectedCarryTheFlag` | `Spec => []RejectedIsFlagged` |
| `ExploitIsContained` | `Spec => []ExploitContained` |
| `LoginsAreReal` | `Spec => []NoPhantomLogins` |
| `LearnedExploitBans` | `Spec => LearnedAfterExploitBans` |
| `EngineRefinesReputation` | `Spec => RefinesReputation` |
| `OverrideNeverServes`, `PolicyNeverRelaxes` | the ladder and the policy layer, for all inputs |

*Argument.* None of the properties is inductive by itself: a profile that satisfies
it can be overwritten by a learner that computed its verdict long ago. `IInv` adds
what such a learner carries (`Carries`): its decision rejects exactly if its score
does (so `Update` writes flag and score consistently, whatever happened since), if
it knew of the exploit its score is below 1.00 even with the boost, and the login
count it read is not above today's, which the read lock guarantees because `Update`
needs the write lock to reset. It also says that a profile object belongs to one
address, that every object, live or orphaned, is `Sound`, and that objects nobody
points to are as good as new; the refinement needs the last one, because loading a
recycled object must not change anybody's standing. For the refinement, `View(ip)`
is the profile the Gatekeeper sees; every step is shown to judge one address, to
forget a set of them, or to leave all views alone.

`Tier1Proofs` does the same for the pipeline, for any number of jobs and workers,
any `MaxRetries`, and any number of storage faults and crashes (`PipelineConstants`),
the client library's own retries apart:

| theorem | statement |
|---|---|
| `PipelineIsSafe` | `SafeInv` is inductive and holds |
| `PipelineTypes` | `Spec => []PipeTypeOK` |
| `NoJobVanishes` | `Spec => []Accounted` |
| `AuditIsSound` | `Spec => []AuditSound` |
| `MarkIsTruthful` | `Spec => []MarkedAfterApplied` |
| `PipelineRefinesReview` | `Spec => RefinesReview` |
| `WorkersRunOut` | every step of a worker brings it nearer to its exit, except that it takes jobs until `Stop`; nobody else's step moves it but a crash |

*Argument.* A requeue that reports an error may have pushed the job all the same,
and the worker then buries its own copy. So copies of one job coexist, and what
holds is `OneCopy`: at most one of them is queued or in the hands of a worker that
may still attempt, judge or correct it; the others are on their way to the
dead-letter list. From it follow `JudgedOnce` and `AppliedOnce` (nobody else can be
judging or correcting the same job) and `AttemptsCounted` (the counter in that
copy is not below the number of calls made), which bounds the attempts.
`PendingSound` says that the writes waiting in goroutines are already true, so
their order does not matter to `AuditSound`. Each action has a lemma; a step of a
worker that leaves the queue alone shares `WorkerMoves`. For the refinement a job is
live while it is queued or in a worker's hands; a step that only makes that set
smaller is `Lose`, and only five actions need one of their own. `WorkersRunOut` is
the bound (`StepsLeft`, at most six) behind `StopTerminates`.

Part two of `TrustEngineProofs` lifts part one to both layers, for any number of accounts and writers:

| theorem | statement |
|---|---|
| `EngineKeepsInv`, `EngineIsSafe` | `EngineInv` is inductive and holds |
| `EngineImplementsIPLayer` | `EngineSpec => Spec`: the engine inherits every theorem of part one |
| `EngineTypes` | `EngineSpec => []EngineTypeOK` |
| `ExploitIsContainedForAll` | `EngineSpec => []ExploitContainedForAll` |
| `SettledUsersAreFlagged` | `EngineSpec => []SettledUserIsFlagged` |
| `OneEventOneBand` | `EngineSpec => SingleEventInertia`: against the score read under the mutex |
| `BlendKeepsBand` | one smoothed update moves an account by at most one band, rounding included |

*Argument.* An account's score is written, read back and only then flagged, an override
even written three times, all without one lock around it, so "a rejecting score carries
the flag" does not hold. `DebtInv` replaces it: a rejecting score without the flag is
owed by a learner that has begun to store a score and has yet to read it back, or has
already read a rejecting one (`Owes`). `UserMoves` covers the steps up to the judgement,
`UserStores` every one that stores a score. A writer that raises the score cancels the debt, and
one that reads somebody else's good score leaves it to whoever wrote the bad one. When
no learner is at work, nobody owes anything, and the property follows.

`RateLimiterProofs`, for any settings within `TopRate` and `TopBurst`:

| theorem | statement |
|---|---|
| `NextIsSafe`, `LimiterIsSafe` | `LimiterInv` is inductive and holds |
| `LimiterTypes` | `Spec => []LimiterTypeOK` |
| `BudgetIsKept` | `Spec => []WithinBudget` |
| `RetryAfterIsHonoured` | `Spec => []RetryAfterHonoured` |

*Argument.* `Holding`: a handler holds its key's live bucket or one that no map knows.
`Budget`: what the next handler of a key can find, a missing bucket counting as a full
one, is covered by the ideal bucket and what overtaken handlers got. Eviction is
harmless because a bucket idle for `MaxIdle` is full again: that is the assumption
`TopBurst <= MaxIdle * TopRate` of `LimiterAssumption`, which the code's ten minutes
meet for every setting that refills its burst in that time (the defaults do). `Promised`: a
bucket of a refused key is older than the refusal or has a token.

`WafConfigProofs` and `WafAdminProofs`, for any editors, calls, people, names, secrets
and settings, and any number of failures and crashes:

| theorem | statement |
|---|---|
| `AdminImplementsBoth` | `AdminSpec => ConfigSpec /\ StoreSpec` |
| `ConfigIsSafe`, `StoreIsSafe` | `ConfigInv` and `StoreInv` are inductive and hold |
| `ConfigTypes`, `SettledSavesAgree`, `SuccessIsStored` | `ConfigTypeOK`, `SettledConfigAgrees`, `AckedConfigIsStored` |
| `SessionsAreAdmitted`, `AccountsAreStored`, `AccountsAreNotTakenOver` | `OnlyAdmittedHoldSessions`, `AckedAccountsAreStored`, `NoTakeover` |

*Argument.* `SaveProgress` says how far the save under `ConfigMu` has come: past its
rename the file is what it is about to apply, so a crash there is made good by the
restart, and before it nothing but `LiveConfig` has changed. `AllAreAdmitted` follows
every way to a session back to a check: accounts in memory, in the file, calls under
way, and cookies with the present key; a torn file brings a new key, which voids them.

`WafProxyProofs`, for any handlers, addresses, probabilities, thresholds and margins:

| theorem | statement |
|---|---|
| `ProxyKeepsInv`, `ProxyIsSafe` | `ProxyInv` is inductive and holds |
| `ProxyTypeCorrectness` | `ProxySpec => []ProxyTypeOK` |
| `CalmRequestsAreDecidedByPolicy` | `ProxySpec => []CalmRequestsFollowThePolicy` |
| `OverlapsKeepTheCore` | `ProxySpec => []OverlappedRequestsKeepTheCore` |
| `PanicsComeFromASwitch` | `ProxySpec => []PanicsNeedASwitch` |
| `ClearanceIsWorkedFor` | `ProxySpec => []ClearanceIsEarned` |

*Argument.* While a request is in flight, what is in effect belongs to its history, so
whatever a handler reads is something it has seen (`Core`). If it has seen one
settled configuration only, `ConfigInv` gives that all parts agree with it, and the
request is where the policy puts it (`Calm`). Every cookie goes back to a salt that was
solved (`CookiesAreEarned`).

`DetectionProofs`, for any learners, windows, thresholds, numbers and clock
(`DetectionAssumption`):

| theorem | statement |
|---|---|
| `DetectionKeepsWInv`, `RecentRequestsAreKept` | `WInv` is inductive; `DetectionSpec => []WindowsKeepTheRecent` |
| `TopRunIsTheRun` | `TopRun(s)` is exactly how many members of `s` follow each other down from its largest, for every set `s` of numbers that has one |
| `DetectionKeepsProfile`, `DetectorsAreRight` | `ProfileInv` is inductive; `DetectionSpec => FlagsAreEarned` |

*Argument.* Trimming from any request's own timestamp removes only what is old seen
from the newest, so the windows keep the recent ones (`WInv`), and hold besides only
requests that were recorded late. A detector's count therefore lies between the requests
around the newest recorded (`sure`) and those with the late ones (`possible`), whatever
order they were recorded in. The enumeration detector needs
to know that the numbers in the profile were asked for, and the pause detector that
each pause, and the 429 that may still become one, has an answer of its own
(`Remembered`), for which requests must be told apart (`Numbered`). `TopRun` is a
recursive function, and the library's induction theorems cannot be instantiated
here; its existence is proved by a witness and its value by a least counterexample
(`LeastNumber`, from the well-foundedness of the numbers).

`RaspAgentProofs`, for any threads, children, requests and effects, any capacity of a
socket, any number of verdicts and any number of deaths of the WAF (`RaspAssumption`):

| theorem | statement |
|---|---|
| `RaspKeepsInv`, `RaspIsSafe` | `RaspInv` is inductive and holds |
| `RaspTypes` | `RaspSpec => []RaspTypeOK` |
| `EveryVerdictIsAccounted` | `RaspSpec => []VerdictsAccounted` |
| `RetryIsEnough` | `RaspSpec => []RetryReachesIngest` |
| `EmitIsShort` | each step of a thread in `rasp_emit` shortens its way out, of seven steps at most with the retry, and nobody else's step lengthens it |
| `NobodyWaitsInVain` | always: who waits for the lock waits for a running thread of its own process, which can go on or whose socket will be emptied or closed |

*Argument.* A verdict is numbered under the lock, and one thread per process holds it,
so at most one numbered verdict per process is still to be put out (`LocksAreHeld`). A
new connection is opened only where nothing is left of the old one (`LinksAreWhole`);
without that, reconnecting would drop or overtake what is in the buffer. With both, a
verdict is in exactly one place (`VerdictsInOnePlace`), those of one process reach the
ingest in order (`StreamsInOrder`), and an effect follows its verdict
(`EffectsFollowVerdicts`). Most steps leave all of that alone (`Quiet`); the others
move one verdict, or lose those of some sockets. For the retry, `ConnectionOf` says
that a thread in whose emission the ingest was never away cannot find the second
connection dead. `NobodyIsStuck` also needs that a connection waits in the backlog
only while the listener is open (`BacklogListens`).

*Only model-checked.* The liveness properties (`EveryJobSettles`, `StopTerminates`,
`EmitReturns`): the prover has no rules for fairness and `ENABLED`. What they rest on
besides fairness is proved: a worker and a thread in `rasp_emit` have a bounded
number of steps left (`WorkersRunOut`, `EmitIsShort`), and nobody waits for something
that cannot come (`NobodyWaitsInVain`). The guards in `NobodyIsStuck` are written out
for the prover; they are those of the actions. The three claims of section 4 are
violated and have nothing to prove.

## 6. Not modelled

* **Feature extraction and the LightGBM model** (`features.go`): floating-point data
  without state. The probability is an input of `WafProxy`.
* **The weights of the sub-scores**, and the detectors without any order or shared
  window in them (session, scraping, vulnerability probes, boosters, behaviour of an
  account): their sums are inputs of `IPTrust` and `TrustEngine`, over the values that
  reach every band.
* **Header and opaque resolvers** (`middleware/resolver.go`). The header resolver
  keeps no state; it deletes the identity headers before it reads them, so every request it resolves is
  anonymous. The opaque one has a cache with an expiry, written and read
  under one lock; a revoked token stays valid for its five minutes. `WafProxy` models
  the JWT resolver and its replacement.
* **The Redis rate limiter**: no code constructs it; `main` wires the in-memory one.
* **Exported scores, heartbeats, statistics and the RASP feed in Redis**: written for the
  dashboard and never read by the WAF.
* **The dashboard, training and demo scripts**: outside the WAF's decisions. The
  dashboard's fetch-change-post is the environment of `WafConfig`.
* **Data races on a word or a slice header** (the Gatekeeper's unlocked read of
  `PreviousScores`, `LiveConfig` assigned while handlers read it): reads are atomic in
  the models. The two configuration fields a decision depends on are separate reads.

**Open ends.** Three hazards in `PROJECT.json` have no property: a reset against
learners in flight (a verdict on the forgotten profile can reach the new one of an
account; stating that it must not needs evidence marked with the epoch it is from),
the policy layer that reads fields `Update` has yet to fill in (section 4), and the
missing answer after Coraza's denial, which no document specifies. The trust engine and the
proxy are checked separately, joined by the verdict as an input: their product adds
the feedback of the proxy's own 403 answers into `LoginAttempts`, which needs an
instance larger than one address and two learners.
