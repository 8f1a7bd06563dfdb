------------------------------ MODULE WafProxy ------------------------------
(***************************************************************************)
(* The decision cascade of the reverse proxy (proxy.go, coraza.go,         *)
(* crypto.go, middleware/resolver.go) while the configuration is saved     *)
(* under it.  No lock spans a request: the resolver, the secret, the       *)
(* Coraza engine, its switch, the threshold and the margin are read one by *)
(* one, and WafConfig may change each of them in between.                  *)
(*                                                                         *)
(* What other modules model is an input here: the Gatekeeper's verdict     *)
(* (TrustEngine), the rate limiter's (RateLimiter), the probability the    *)
(* model predicts and what Coraza's rules say of a request.                *)
(***************************************************************************)
EXTENDS WafConfig, Naturals

CONSTANTS
  Requests,   \* handlers in flight
  Addresses,  \* client addresses
  MaskOf,     \* the first address of each one's /24 (IPv4) or /64 (IPv6) network
  Probs,      \* the probabilities the model predicts
  Unit,       \* the probability 1
  BlockAt,    \* the threshold of each tuning
  Margin,     \* its StricterMargin, as a part of Unit
  MaxDay,     \* bound: how often midnight passes
  NoToken,    \* a request whose bearer token names no user
  NoAddress   \* no client's address

ProxyAssumption ==
  /\ ConfigAssumption
  /\ Unit \in Nat \ {0} /\ MaxDay \in Nat
  /\ Probs \subseteq 0 .. Unit
  /\ BlockAt \in [Tunings -> 0 .. Unit]
  /\ Margin \in [Tunings -> 0 .. Unit]
  /\ MaskOf \in [Addresses -> Addresses \cup {NoAddress}]
  /\ NoToken \notin JWTSecrets

ASSUME ProxyConstants == ProxyAssumption

VARIABLES
  req,      \* the request each handler serves
  day,      \* the date
  solving,  \* challenge solutions accepted, whose cookie is not signed yet
  cookies,  \* the clearance cookies clients have got
  worked,   \* history: the salts somebody found a nonce for
  seen      \* history: what was in effect since each request came in

proxyVars == <<configVars, req, day, solving, cookies, worked, seen>>

-----------------------------------------------------------------------------
Days == 0 .. MaxDay

Decisions == {"allow", "allow+stricter", "challenge", "block", "ban"}

\* The tiers whose requests Coraza always inspects.
Suspicious == {"allow+stricter", "challenge"}

\* Answers after which the handler starts a learner, and the other endings: a
\* body that could not be read, a nil Coraza engine, a client that went away
\* while the response was copied.
Answers == {"forbidden", "challenged", "limited", "dropped", "blocked", "forwarded"}
Silent  == {"malformed", "panicked", "cut"}

\* The answers that follow from the verdict alone.
Rejections == {"forbidden", "challenged"}

Idle == [at |-> "idle"]

\* A request before anything is known of it: whose secret signed the token that
\* named its user, its address, the verdict, whether a cookie cleared it and on
\* which day that was checked, its probability, the threshold it was held
\* against, whether Coraza passed it, how it ended and what its learner is told.
Arrived ==
  [at |-> "identify", signer |-> NoToken, addr |-> NoAddress, verdict |-> "none",
   cleared |-> FALSE, checked |-> 0, prob |-> 0, cur |-> 0, passed |-> FALSE,
   out |-> "none", learn |-> "nothing"]

InFlight(r) == req[r].at \notin {"idle", "done"}

\* What is in effect: one entry of a request's history.
Policy == [live |-> live, threshold |-> threshold, engine |-> coraza,
           settled |-> ~Locked /\ ~failed]

\* The histories of the requests that are in flight after the step.
Witness == seen' = [r \in Requests |-> IF req'[r].at = "idle" THEN {}
                                       ELSE IF req[r].at = "idle" THEN {Policy}
                                       ELSE IF req[r].at = "done" THEN seen[r]
                                       ELSE seen[r] \cup {Policy'}]

-----------------------------------------------------------------------------
ProxyInit ==
  /\ ConfigInit
  /\ req = [r \in Requests |-> Idle]
  /\ day = 0
  /\ solving = {}
  /\ cookies = {}
  /\ worked = {}
  /\ seen = [r \in Requests |-> {}]

Becomes(r, q) == req' = [req EXCEPT ![r] = q]

\* (mutant: the learner of a rejected request is told of the cookie too)
EndsToldAll(q, out) ==
  [q EXCEPT !.at = "done", !.out = out,
            !.learn = IF out \in Silent THEN "nothing" ELSE IF q.cleared THEN "passed" ELSE "plain"]

\* The request is over.  fireAsyncLearner or fireTelemetry starts a learner,
\* which is told whether the client has passed a challenge.
Ends(q, out) ==
  [q EXCEPT !.at = "done", !.out = out,
            !.learn = IF out \in Silent THEN "nothing"
                      ELSE IF q.cleared /\ out \notin Rejections THEN "passed" ELSE "plain"]

\* ServeHTTP is entered.
Arrive(r) ==
  /\ up
  /\ req[r].at = "idle"
  /\ Becomes(r, Arrived)
  /\ UNCHANGED <<day, solving, cookies, worked>>

\* JWTResolver.Resolve: a token counts if the resolver's secret signed it, any
\* failure leaves the request anonymous.  Then the body is read, or cannot be.
Resolve(r) ==
  /\ req[r].at = "identify"
  /\ \E t \in {NoToken, resolver.secret} :
       LET q == [req[r] EXCEPT !.signer = t]
       IN  Becomes(r, [q EXCEPT !.at = "gate"]) \/ Becomes(r, Ends(q, "malformed"))
  /\ UNCHANGED <<day, solving, cookies, worked>>

\* (mutant: the salt's address is masked as well)
SaltBindsToNeighbours(salt, a) == MaskOf[salt] = MaskOf[a]

\* verifyChallengeCookie: the salt's address is the client's own, or the client's
\* masked to its /24 or /64 network.
SaltBindsTo(salt, a) == salt = a \/ salt = MaskOf[a]

\* verifyClearanceToken, then the address: the cookie is signed with the secret of
\* LiveConfig, today or yesterday, and bound to this client.
VerifyClearance(c, a) ==
  /\ c.secret = live.secret
  /\ c.day = day \/ c.day + 1 = day
  /\ SaltBindsTo(c.addr, a)

\* The Gatekeeper's verdict, the clearance cookie the client may have sent, and
\* the switch on the verdict.
Gate(r) ==
  /\ req[r].at = "gate"
  /\ \E a \in Addresses, d \in Decisions, cleared \in BOOLEAN :
       LET q == [req[r] EXCEPT !.addr = a, !.verdict = d, !.cleared = cleared, !.checked = day]
       IN  /\ cleared => \E c \in cookies : VerifyClearance(c, a)
           /\ Becomes(r, IF d \in {"ban", "block"} THEN Ends(q, "forbidden")
                         ELSE IF d = "challenge" /\ ~cleared THEN Ends(q, "challenged")
                         ELSE [q EXCEPT !.at = "limit"])
  /\ UNCHANGED <<day, solving, cookies, worked>>

\* (mutant: a solved challenge skips the inspection)
LimitClearedToPredict(r) ==
  /\ req[r].at = "limit"
  /\ \/ Becomes(r, Ends(req[r], "limited"))
     \/ Becomes(r, [req[r] EXCEPT !.at = IF req[r].verdict = "allow+stricter" THEN "consult" ELSE "predict"])
  /\ UNCHANGED <<day, solving, cookies, worked>>

\* checkRateLimits; a cleared request is limited as "allow+stricter".
Limit(r) ==
  /\ req[r].at = "limit"
  /\ \/ Becomes(r, Ends(req[r], "limited"))
     \/ Becomes(r, [req[r] EXCEPT !.at = IF req[r].verdict \in Suspicious THEN "consult" ELSE "predict"])
  /\ UNCHANGED <<day, solving, cookies, worked>>

\* (mutant: the engine is not compared with nil)
EngineAssumed == TRUE

\* "wp.Coraza != nil" ...
EngineThere == coraza

Consult(r) ==
  /\ \/ /\ req[r].at = "consult"
        /\ Becomes(r, [req[r] EXCEPT !.at = IF EngineThere THEN "switch" ELSE "predict"])
     \/ /\ req[r].at = "consult again"
        /\ Becomes(r, [req[r] EXCEPT !.at = IF EngineThere THEN "switch again" ELSE "forward"])
  /\ UNCHANGED <<day, solving, cookies, worked>>

\* ... "&& LiveConfig.EnableCoraza", read after it.
CheckSwitch(r) ==
  /\ \/ /\ req[r].at = "switch"
        /\ Becomes(r, [req[r] EXCEPT !.at = IF live.coraza THEN "inspect" ELSE "predict"])
     \/ /\ req[r].at = "switch again"
        /\ Becomes(r, [req[r] EXCEPT !.at = IF live.coraza THEN "inspect again" ELSE "forward"])
  /\ UNCHANGED <<day, solving, cookies, worked>>

\* ProcessRequest: Coraza's rules deny the request, or fail on it, and the
\* handler returns; or they pass it.  wp.Coraza is read a second time for the call: the
\* engine looked at is still there, or it is nil by now and the handler panics.
Inspect(r) ==
  LET q == req[r]
      next == IF q.at = "inspect" THEN "predict" ELSE "forward"
  IN  /\ q.at \in {"inspect", "inspect again"}
      /\ \/ Becomes(r, Ends(q, "dropped"))
         \/ Becomes(r, [q EXCEPT !.at = next, !.passed = TRUE])
         \/ ~coraza /\ Becomes(r, Ends(q, "panicked"))
      /\ UNCHANGED <<day, solving, cookies, worked>>

\* The model's probability, the threshold of the proxy, and the block.  (Whether
\* the copy for Tier 1 is enqueued before it is nothing a handler depends on.)
Predict(r) ==
  /\ req[r].at = "predict"
  /\ \E p \in Probs :
       LET q == [req[r] EXCEPT !.prob = p, !.cur = BlockAt[threshold]]
       IN  Becomes(r, IF p >= q.cur THEN Ends(q, "blocked") ELSE [q EXCEPT !.at = "margin"])
  /\ UNCHANGED <<day, solving, cookies, worked>>

\* prob >= currentThreshold * (1 - StricterMargin), in parts of Unit.
Uncertain(prob, cur, margin) == prob * Unit >= cur * (Unit - margin)

\* The margin is read from LiveConfig, not with the threshold.
CheckMargin(r) ==
  /\ req[r].at = "margin"
  /\ Becomes(r, [req[r] EXCEPT !.at =
       IF Uncertain(req[r].prob, req[r].cur, Margin[live.tuning]) THEN "consult again" ELSE "forward"])
  /\ UNCHANGED <<day, solving, cookies, worked>>

\* The backend's answer is copied to the client, if the client waits for it.
Forward(r) ==
  /\ req[r].at = "forward"
  /\ \/ Becomes(r, Ends(req[r], "forwarded"))
     \/ Becomes(r, Ends(req[r], "cut"))
  /\ UNCHANGED <<day, solving, cookies, worked>>

\* The handler returns.
Return(r) ==
  /\ req[r].at = "done"
  /\ Becomes(r, Idle)
  /\ UNCHANGED <<day, solving, cookies, worked>>

ServeHTTP(r) ==
  \/ Arrive(r) \/ Resolve(r) \/ Gate(r) \/ Limit(r) \/ Consult(r) \/ CheckSwitch(r)
  \/ Inspect(r) \/ Predict(r) \/ CheckMargin(r) \/ Forward(r) \/ Return(r)

-----------------------------------------------------------------------------
(* /challenge-solve.                                                       *)

\* (mutant: the nonce is not checked against the client's own salt)
SolveAnySalt(a, salt) ==
  /\ up
  /\ worked' = worked \cup {salt}
  /\ solving' = solving \cup {[addr |-> a, day |-> day]}
  /\ UNCHANGED <<req, day, cookies>>

\* A client at address a posts the nonce it found for a salt.  verifyNonce takes
\* it if the salt is today's for this address; else nothing changes.
Solve(a, salt) ==
  /\ up
  /\ worked' = worked \cup {salt}
  /\ solving' = IF salt = [addr |-> a, day |-> day] THEN solving \cup {salt} ELSE solving
  /\ UNCHANGED <<req, day, cookies>>

\* (mutant: the day the cookie ends is signed)
IssueCookieExpiry(s) ==
  /\ s \in solving
  /\ cookies' = cookies \cup {[addr |-> s.addr, day |-> day + 1, secret |-> live.secret]}
  /\ solving' = solving \ {s}
  /\ UNCHANGED <<req, day, worked>>

\* generateClearanceToken signs the salt with the secret of LiveConfig.
IssueCookie(s) ==
  /\ s \in solving
  /\ cookies' = cookies \cup {[addr |-> s.addr, day |-> s.day, secret |-> live.secret]}
  /\ solving' = solving \ {s}
  /\ UNCHANGED <<req, day, worked>>

Midnight ==
  /\ day < MaxDay
  /\ day' = day + 1
  /\ UNCHANGED <<req, solving, cookies, worked>>

-----------------------------------------------------------------------------
Handle ==
  /\ \/ \E r \in Requests : ServeHTTP(r)
     \/ \E a, b \in Addresses, d \in Days : Solve(a, [addr |-> b, day |-> d])
     \/ \E s \in solving : IssueCookie(s)
     \/ Midnight
  /\ UNCHANGED configVars
  /\ Witness

Configure ==
  /\ \/ \E e \in Editors, c \in Config : Fetch(e, c)
     \/ \E e \in Editors, s \in JWTSecrets : Reset(e, s)
     \/ \E e \in Editors : SaveStep(e)
  /\ UNCHANGED <<req, day, solving, cookies, worked>>
  /\ Witness

\* The process dies with everything it was serving.
CrashProxy ==
  /\ CrashConfig
  /\ req' = [r \in Requests |-> Idle]
  /\ solving' = {}
  /\ UNCHANGED <<day, cookies, worked>>
  /\ Witness

RestartProxy ==
  /\ RestartConfig
  /\ UNCHANGED <<req, day, solving, cookies, worked>>
  /\ Witness

ProxyNext == Handle \/ Configure \/ CrashProxy \/ RestartProxy

ProxySpec == ProxyInit /\ [][ProxyNext]_proxyVars

-----------------------------------------------------------------------------
(* Properties.                                                             *)

Request ==
  [at : {"identify", "gate", "limit", "consult", "switch", "inspect", "predict", "margin",
         "consult again", "switch again", "inspect again", "forward", "done"},
   signer : JWTSecrets \cup {NoToken}, addr : Addresses \cup {NoAddress},
   verdict : Decisions \cup {"none"}, cleared : BOOLEAN, checked : Days,
   prob : Probs \cup {0}, cur : 0 .. Unit, passed : BOOLEAN,
   out : Answers \cup Silent \cup {"none"},
   learn : {"nothing", "plain", "passed"}]

Salt == [addr : Addresses, day : Days]

ProxyTypeOK ==
  /\ ConfigTypeOK
  /\ req \in [Requests -> Request \cup {Idle}]
  /\ day \in Days
  /\ solving \subseteq Salt
  /\ cookies \subseteq [addr : Addresses, day : Days, secret : JWTSecrets]
  /\ worked \subseteq Salt
  /\ \A r \in Requests : (seen[r] = {} <=> req[r] = Idle) /\ (req[r] # Idle /\ InFlight(r) => up)

\* What the documented policy makes of a request under a configuration: the
\* tiers of trustscore/README.md, the threshold and its uncertain band.
Admitted(q) == q.verdict \notin {"ban", "block"} /\ (q.verdict = "challenge" => q.cleared)

Inspected(q, p) ==
  /\ p.engine /\ p.live.coraza
  /\ \/ q.verdict \in Suspicious
     \/ /\ q.prob < BlockAt[p.live.tuning]
        /\ Uncertain(q.prob, BlockAt[p.live.tuning], Margin[p.live.tuning])

Follows(q, p) ==
  /\ q.signer \in {NoToken, p.live.secret}
  /\ CASE q.out = "malformed" -> TRUE
       [] q.out = "panicked" -> FALSE
       [] q.out = "forbidden" -> q.verdict \in {"ban", "block"}
       [] q.out = "challenged" -> q.verdict = "challenge" /\ ~q.cleared
       [] q.out = "limited" -> Admitted(q)
       [] q.out = "dropped" -> Admitted(q) /\ Inspected(q, p)
       [] q.out = "blocked" -> Admitted(q) /\ q.prob >= BlockAt[p.live.tuning]
       [] OTHER -> /\ Admitted(q)
                   /\ q.prob < BlockAt[p.live.tuning]
                   /\ Inspected(q, p) => q.passed

\* A request no save has overlapped, with no failed save before it, ends as the
\* one configuration in effect says, although the cascade reads it in six places
\* that are applied one after the other.
CalmRequestsFollowThePolicy ==
  \A r \in Requests : \A p \in seen[r] :
    req[r].at = "done" /\ seen[r] = {p} /\ p.settled => Follows(req[r], p)

\* Whatever saves, failures and crashes overlap it: a request is forwarded only
\* below a threshold that was in effect during it; one of a suspicious tier is
\* forwarded uninspected only if Coraza was off at some moment of it;
\* and a learner is told "challenge passed" only of a client that was let in.
OverlappedRequestsKeepTheCore ==
  \A r \in Requests :
    /\ req[r].at = "done" /\ req[r].out \in {"forwarded", "cut"} =>
         /\ Admitted(req[r])
         /\ \E p \in seen[r] : req[r].prob < BlockAt[p.threshold]
         /\ req[r].verdict \in Suspicious /\ ~req[r].passed =>
              \E p \in seen[r] : ~p.engine \/ ~p.live.coraza
    /\ req[r].at = "done" /\ req[r].learn = "passed" => Admitted(req[r])

\* The handler dies on a nil Coraza engine only if the engine was there and was
\* taken away while it ran.
PanicsNeedASwitch ==
  \A r \in Requests :
    req[r].at = "done" /\ req[r].out = "panicked" =>
      (\E p \in seen[r] : p.engine) /\ (\E p \in seen[r] : ~p.engine)

\* A request counts as cleared only if somebody has worked for the salt of its own
\* address, or of the first address of its network, on the day of the check or the
\* day before: a cookie taken to any other address (a neighbour's included), kept
\* for longer or solved for another salt is worth nothing.
ClearanceIsEarned ==
  \A r \in Requests :
    req[r] # Idle /\ req[r].cleared =>
      \E w \in worked : /\ w.addr \in {req[r].addr, MaskOf[req[r].addr]}
                        /\ req[r].checked = w.day \/ req[r].checked = w.day + 1
=============================================================================
