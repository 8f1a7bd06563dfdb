--------------------------- MODULE WafProxyProofs ---------------------------
(***************************************************************************)
(* Proofs about WafProxy for any number of requests, addresses and         *)
(* editors, any probabilities, thresholds and margins.                     *)
(*                                                                         *)
(* While a request is in flight the configuration in effect belongs to its *)
(* history, so what a handler reads is always something it has seen (Core).*)
(* If it has seen one settled configuration only, every part it reads is   *)
(* that configuration's, because the parts agree between saves             *)
(* (WafConfigProofs), and the request is where the policy puts it (Calm).  *)
(* Every clearance cookie goes back to a salt somebody worked for.         *)
(***************************************************************************)
EXTENDS WafProxy, WafConfigProofs

\* Where the verdict has let a request through; where Coraza's turn for the
\* suspicious tiers is over; where the model's is.
PastGate    == {"limit", "consult", "switch", "inspect", "predict", "margin", "consult again",
                "switch again", "inspect again", "forward"}
PastInspect == {"predict", "margin", "consult again", "switch again", "inspect again", "forward"}
PastPredict == {"margin", "consult again", "switch again", "inspect again", "forward"}

\* Where the engine has been found there, and where its switch has been found on.
AtSwitch == {"switch", "switch again"}
AtCall   == {"inspect", "inspect again"}

CorazaOn(p) == p.engine /\ p.live.coraza

\* What a request can rely on that has seen the configurations S.
Core(q, S) ==
  /\ q.at \in PastGate => Admitted(q)
  /\ q.at \in AtSwitch \cup AtCall => \E p \in S : p.engine
  /\ q.at \in PastInspect /\ q.verdict \in Suspicious /\ ~q.passed => \E p \in S : ~CorazaOn(p)
  /\ q.at \in PastPredict => \E p \in S : q.prob < BlockAt[p.threshold]
  /\ q.at = "done" /\ q.out \in {"forwarded", "cut"} =>
       /\ Admitted(q)
       /\ \E p \in S : q.prob < BlockAt[p.threshold]
       /\ q.verdict \in Suspicious /\ ~q.passed => \E p \in S : ~CorazaOn(p)
  /\ q.at = "done" /\ q.out = "panicked" => (\E p \in S : p.engine) /\ (\E p \in S : ~p.engine)
  /\ q.at = "done" /\ q.learn = "passed" => Admitted(q)

\* prob is in the uncertain band of a tuning.
InBand(q, t) == Uncertain(q.prob, BlockAt[t], Margin[t])

\* Where a request is that has seen nothing but p.
Calm(q, p) ==
  /\ q.signer \in {NoToken, p.live.secret}
  /\ q.at \in AtSwitch => p.engine
  /\ q.at \in AtCall => CorazaOn(p)
  /\ q.at \in {"consult", "switch", "inspect"} => q.verdict \in Suspicious
  /\ q.at \in PastInspect /\ q.verdict \in Suspicious /\ CorazaOn(p) => q.passed
  /\ q.at \in PastPredict => q.cur = BlockAt[p.live.tuning] /\ q.prob < q.cur
  /\ q.at \in {"consult again", "switch again", "inspect again"} => InBand(q, p.live.tuning)
  /\ q.at = "forward" /\ InBand(q, p.live.tuning) /\ CorazaOn(p) => q.passed
  /\ q.at = "done" => Follows(q, p)

\* A cleared request has its salt.
Earned(q) ==
  q.cleared => \E w \in worked : /\ w.addr \in {q.addr, MaskOf[q.addr]}
                                 /\ q.checked = w.day \/ q.checked = w.day + 1

CookiesAreEarned ==
  /\ day \in Days
  /\ worked \subseteq Salt
  /\ solving \subseteq worked
  /\ cookies \subseteq [addr : Addresses, day : Days, secret : JWTSecrets]
  /\ \A c \in cookies : [addr |-> c.addr, day |-> c.day] \in worked

\* r's history: empty, or what was in effect at any moment of it.
HistoryOK(r) ==
  /\ req[r] \in Request \cup {Idle}
  /\ seen[r] = {} <=> req[r] = Idle
  /\ req[r] # Idle /\ req[r].at # "done" => up /\ Policy \in seen[r]

RequestOK(r) ==
  req[r] # Idle =>
    /\ Core(req[r], seen[r])
    /\ Earned(req[r])
    /\ \A p : seen[r] = {p} /\ p.settled => Calm(req[r], p)

ProxyInv ==
  /\ ConfigInv
  /\ CookiesAreEarned
  /\ req \in [Requests -> Request \cup {Idle}]
  /\ \A r \in Requests : HistoryOK(r) /\ RequestOK(r)

-----------------------------------------------------------------------------
LEMMA IdleIsNoRequest ==
  /\ Idle.at = "idle" /\ Idle \notin Request
  /\ \A q \in Request : q.at # "idle" /\ q # Idle
<1>1. \A q \in Request : q.at # "idle"
  BY DEF Request
<1>2. Idle.at = "idle"
  BY DEF Idle
<1> QED
  BY <1>1, <1>2

\* A request stays one when it is over.
LEMMA RequestFields ==
  ASSUME NEW q \in Request, NEW out \in Answers \cup Silent \cup {"none"},
         NEW learn \in {"nothing", "plain", "passed"}
  PROVE  [at |-> "done", signer |-> q.signer, addr |-> q.addr, verdict |-> q.verdict,
          cleared |-> q.cleared, checked |-> q.checked, prob |-> q.prob, cur |-> q.cur,
          passed |-> q.passed, out |-> out, learn |-> learn] \in Request
  BY DEF Request

\* What Ends leaves of a request.
LEMMA EndsFields ==
  ASSUME NEW q \in Request, NEW out \in Answers \cup Silent
  PROVE  /\ Ends(q, out) \in Request
         /\ Ends(q, out).at = "done" /\ Ends(q, out).out = out
         /\ Ends(q, out).learn = "passed" => q.cleared /\ out \notin Rejections \cup Silent
         /\ Ends(q, out).signer = q.signer /\ Ends(q, out).addr = q.addr
         /\ Ends(q, out).verdict = q.verdict /\ Ends(q, out).cleared = q.cleared
         /\ Ends(q, out).checked = q.checked /\ Ends(q, out).prob = q.prob
         /\ Ends(q, out).cur = q.cur /\ Ends(q, out).passed = q.passed
<1> DEFINE learn == IF out \in Silent THEN "nothing"
                    ELSE IF q.cleared /\ out \notin Rejections THEN "passed" ELSE "plain"
<1>1. learn \in {"nothing", "plain", "passed"}
  OBVIOUS
<1>2. learn = "passed" => q.cleared /\ out \notin Rejections \cup Silent
  OBVIOUS
<1>3. Ends(q, out) = [q EXCEPT !.at = "done", !.out = out, !.learn = learn]
  BY DEF Ends
<1> HIDE DEF learn
<1>4. Ends(q, out) = [at |-> "done", signer |-> q.signer, addr |-> q.addr, verdict |-> q.verdict,
                      cleared |-> q.cleared, checked |-> q.checked, prob |-> q.prob, cur |-> q.cur,
                      passed |-> q.passed, out |-> out, learn |-> learn]
  BY <1>3 DEF Request
<1>5. out \in Answers \cup Silent \cup {"none"}
  OBVIOUS
<1>6. [at |-> "done", signer |-> q.signer, addr |-> q.addr, verdict |-> q.verdict,
       cleared |-> q.cleared, checked |-> q.checked, prob |-> q.prob, cur |-> q.cur,
       passed |-> q.passed, out |-> out, learn |-> learn] \in Request
  BY <1>1, <1>5, RequestFields
<1>7. Ends(q, out) \in Request
  BY <1>4, <1>6
<1> QED
  BY <1>2, <1>4, <1>7

LEMMA ProxyTypes ==
  /\ ConfigAssumption
  /\ Unit \in Nat \ {0} /\ 0 \in Days /\ Days \subseteq Nat
  /\ \A p \in Probs \cup {0} : p \in Nat
  /\ BlockAt \in [Tunings -> 0 .. Unit] /\ \A t \in Tunings : BlockAt[t] \in Nat
  /\ Margin \in [Tunings -> 0 .. Unit]
  BY ProxyConstants DEF ProxyAssumption, Days

\* A configuration change or a handler's step adds to a history: what Core says
\* of it stays true.
LEMMA CoreIsMonotone ==
  ASSUME NEW q, NEW S, NEW T, S \subseteq T, Core(q, S)
  PROVE  Core(q, T)
  BY DEF Core

\* What is in effect stays the same while no configuration variable changes.
LEMMA PolicyKept ==
  ASSUME UNCHANGED configVars
  PROVE  Policy' = Policy /\ up' = up
  BY DEF configVars, Policy, Locked, diskVars, partVars

\* A request that has seen one settled configuration only: it is in effect, and
\* all its parts are.
LEMMA OnePolicy ==
  ASSUME ProxyInv, NEW r \in Requests, req[r] # Idle, req[r].at # "done",
         NEW p, seen[r] = {p}, p.settled
  PROVE  /\ p.live = live /\ p.engine = coraza /\ p.threshold = threshold
         /\ live \in Config /\ threshold = live.tuning /\ resolver.secret = live.secret
<1>1. up /\ p = Policy
  BY DEF ProxyInv, HistoryOK
<1>2. ~Locked /\ ~failed
  BY <1>1 DEF Policy
<1>3. SettledConfigAgrees
  BY ConfigInvSettles DEF ProxyInv
<1>4. live \in {Stored, Overridden(Stored)} /\ threshold = Stored.tuning /\ resolver = Identity(Stored)
  BY <1>1, <1>2, <1>3 DEF SettledConfigAgrees
<1>5. live \in Config /\ cfgFile \in Config \cup {NoFile} /\ (cfgFile = NoFile => secretFile \in JWTSecrets)
  BY DEF ProxyInv, ConfigInv, ConfigTypeOK
<1>6. Stored \in Config
  BY <1>5, ProxyTypes DEF Stored, DefaultConfig, Config, ConfigAssumption
<1>7. live.tuning = Stored.tuning /\ live.secret = Stored.secret
  BY <1>4, <1>6 DEF Overridden, Config
<1> QED
  BY <1>1, <1>4, <1>5, <1>7 DEF Policy, Identity

\* A step of the handler of r that is in flight and stays a request q: q has
\* seen what was seen before, as what is in effect was among it.
LEMMA StepOfHandler ==
  ASSUME ProxyInv, NEW r \in Requests, req[r] # Idle, req[r].at # "done",
         NEW q \in Request, Becomes(r, q), Witness,
         UNCHANGED configVars, UNCHANGED <<day, solving, cookies, worked>>,
         Core(q, seen[r]), Earned(q),
         \A p : seen[r] = {p} /\ p.settled => Calm(q, p)
  PROVE  ProxyInv'
<1>1. ConfigInv' /\ CookiesAreEarned'
  BY ConfigStutters DEF ProxyInv, CookiesAreEarned
<1>2. req' = [req EXCEPT ![r] = q] /\ req \in [Requests -> Request \cup {Idle}]
  BY DEF Becomes, ProxyInv
<1>3. /\ req'[r] = q /\ q # Idle /\ q.at # "idle" /\ req' \in [Requests -> Request \cup {Idle}]
      /\ \A s \in Requests : s # r => req'[s] = req[s]
  BY <1>2, IdleIsNoRequest
<1>4. \A s \in Requests : HistoryOK(s) /\ RequestOK(s)
  BY DEF ProxyInv
<1>5. Policy' = Policy /\ up' = up
  BY PolicyKept
<1>6. \A s \in Requests : req[s] # Idle => req[s].at # "idle"
  BY <1>4, IdleIsNoRequest DEF HistoryOK
<1>7. ASSUME NEW s \in Requests PROVE seen'[s] = seen[s]
  <2>1. seen'[s] = IF req'[s].at = "idle" THEN {}
                   ELSE IF req[s].at = "idle" THEN {Policy}
                   ELSE IF req[s].at = "done" THEN seen[s]
                   ELSE seen[s] \cup {Policy}
    BY <1>5 DEF Witness
  <2>2. CASE s = r
    <3>1. req[r].at # "idle" /\ Policy \in seen[r] /\ req'[r].at # "idle"
      BY <1>3, <1>4, <1>6 DEF HistoryOK
    <3> QED  BY <2>1, <2>2, <3>1
  <2>3. CASE s # r
    <3>1. req'[s] = req[s]
      BY <1>3, <2>3
    <3>2. CASE req[s] = Idle
      BY <1>4, <2>1, <3>1, <3>2, IdleIsNoRequest DEF HistoryOK
    <3>3. CASE req[s] # Idle
      BY <1>4, <1>6, <2>1, <3>1, <3>3 DEF HistoryOK
    <3> QED  BY <3>2, <3>3
  <2> QED  BY <2>2, <2>3
<1>8. \A s \in Requests : HistoryOK(s)'
  BY <1>3, <1>4, <1>5, <1>7 DEF HistoryOK
<1>9. ASSUME NEW s \in Requests PROVE RequestOK(s)'
  <2>1. CASE s = r
    BY <1>3, <1>7, <2>1 DEF RequestOK, Earned
  <2>2. CASE s # r
    <3>1. req'[s] = req[s] /\ seen'[s] = seen[s] /\ RequestOK(s) /\ worked' = worked
      BY <1>3, <1>4, <1>7, <2>2
    <3> QED  BY <3>1 DEF RequestOK, Earned
  <2> QED  BY <2>1, <2>2
<1> QED
  BY <1>1, <1>3, <1>8, <1>9 DEF ProxyInv

\* What ProxyInv says of a request in flight.
LEMMA InFlightFacts ==
  ASSUME ProxyInv, NEW r \in Requests, req[r].at # "idle", req[r].at # "done"
  PROVE  /\ req[r] \in Request /\ req[r] # Idle
         /\ Core(req[r], seen[r]) /\ Earned(req[r])
         /\ up /\ Policy \in seen[r]
         /\ \A p : seen[r] = {p} /\ p.settled => Calm(req[r], p)
<1>1. HistoryOK(r) /\ RequestOK(r)
  BY DEF ProxyInv
<1>2. req[r] # Idle
  BY IdleIsNoRequest
<1> QED
  BY <1>1, <1>2 DEF HistoryOK, RequestOK

\* A request ends.  What Core and Calm ask of it depends on its answer.
LEMMA EndIsSafe ==
  ASSUME ProxyInv, NEW r \in Requests, req[r].at # "idle", req[r].at # "done",
         NEW q \in Request, NEW out \in Answers \cup Silent, Becomes(r, Ends(q, out)), Witness,
         UNCHANGED configVars, UNCHANGED <<day, solving, cookies, worked>>,
         Earned(q),
         out \in {"forwarded", "cut"} =>
           /\ Admitted(q)
           /\ \E p \in seen[r] : q.prob < BlockAt[p.threshold]
           /\ q.verdict \in Suspicious /\ ~q.passed => \E p \in seen[r] : ~CorazaOn(p),
         out = "panicked" => (\E p \in seen[r] : p.engine) /\ (\E p \in seen[r] : ~p.engine),
         q.cleared /\ out \notin Rejections \cup Silent => Admitted(q),
         \A p : seen[r] = {p} /\ p.settled => Follows(Ends(q, out), p) /\ q.signer \in {NoToken, p.live.secret}
  PROVE  ProxyInv'
<1> DEFINE e == Ends(q, out)
<1>1. /\ e \in Request /\ e.at = "done" /\ e.out = out
      /\ e.learn = "passed" => q.cleared /\ out \notin Rejections \cup Silent
      /\ e.signer = q.signer /\ e.addr = q.addr /\ e.verdict = q.verdict /\ e.cleared = q.cleared
      /\ e.checked = q.checked /\ e.prob = q.prob /\ e.cur = q.cur /\ e.passed = q.passed
  BY EndsFields
<1>2. Admitted(e) <=> Admitted(q)
  BY <1>1 DEF Admitted
<1>3. Earned(e)
  BY <1>1 DEF Earned
<1> HIDE DEF e
<1>4. Core(e, seen[r])
  BY <1>1, <1>2 DEF Core, PastGate, PastInspect, PastPredict, AtSwitch, AtCall
<1>5. \A p : seen[r] = {p} /\ p.settled => Follows(e, p)
  BY DEF e
<1>6. \A p : seen[r] = {p} /\ p.settled => Calm(e, p)
  BY <1>1, <1>5 DEF Calm, PastInspect, PastPredict, AtSwitch, AtCall
<1>7. req[r] # Idle /\ Becomes(r, e)
  BY InFlightFacts DEF e
<1> QED
  BY <1>1, <1>3, <1>4, <1>6, <1>7, StepOfHandler

-----------------------------------------------------------------------------
(* The handler, step by step.                                              *)

LEMMA ResolveIsSafe ==
  ASSUME ProxyInv, NEW r \in Requests, Resolve(r), Witness, UNCHANGED configVars
  PROVE  ProxyInv'
<1>1. /\ req[r].at = "identify" /\ UNCHANGED <<day, solving, cookies, worked>>
  BY DEF Resolve
<1>2. /\ req[r] \in Request /\ req[r] # Idle /\ Earned(req[r])
      /\ \A p : seen[r] = {p} /\ p.settled => Calm(req[r], p)
  BY <1>1, InFlightFacts
<1>3. PICK t \in {NoToken, resolver.secret} :
        LET q == [req[r] EXCEPT !.signer = t]
        IN  Becomes(r, [q EXCEPT !.at = "gate"]) \/ Becomes(r, Ends(q, "malformed"))
  BY DEF Resolve
<1>4. t \in JWTSecrets \cup {NoToken}
  BY DEF ProxyInv, ConfigInv, ConfigTypeOK
<1> DEFINE q == [req[r] EXCEPT !.signer = t]
           g == [q EXCEPT !.at = "gate"]
<1>5. /\ q \in Request /\ q.signer = t /\ q.cleared = req[r].cleared
      /\ q.addr = req[r].addr /\ q.checked = req[r].checked
  BY <1>2, <1>4 DEF Request
<1>6. /\ g \in Request /\ g.signer = t /\ g.at = "gate" /\ g.cleared = req[r].cleared
      /\ g.addr = req[r].addr /\ g.checked = req[r].checked
  BY <1>2, <1>4 DEF Request
<1>7. Becomes(r, g) \/ Becomes(r, Ends(q, "malformed"))
  BY <1>3
<1>8. Earned(q) /\ Earned(g)
  BY <1>2, <1>5, <1>6 DEF Earned
<1>9. \A p : seen[r] = {p} /\ p.settled => t \in {NoToken, p.live.secret}
  BY <1>1, <1>2, OnePolicy
<1> HIDE DEF q, g
<1>10. CASE Becomes(r, g)
  <2>1. Core(g, seen[r])
    BY <1>6 DEF Core, PastGate, PastInspect, PastPredict, AtSwitch, AtCall
  <2>2. \A p : seen[r] = {p} /\ p.settled => Calm(g, p)
    BY <1>6, <1>9 DEF Calm, PastInspect, PastPredict, AtSwitch, AtCall
  <2> QED  BY <1>1, <1>2, <1>6, <1>8, <1>10, <2>1, <2>2, StepOfHandler
<1>11. CASE Becomes(r, Ends(q, "malformed"))
  <2>1. "malformed" \in Answers \cup Silent /\ "malformed" \in Silent
    BY DEF Silent
  <2>2. Ends(q, "malformed").out = "malformed" /\ Ends(q, "malformed").signer = t
    BY <1>5, <2>1, EndsFields
  <2>3. \A p : seen[r] = {p} /\ p.settled => Follows(Ends(q, "malformed"), p) /\ q.signer \in {NoToken, p.live.secret}
    BY <1>5, <1>9, <2>2 DEF Follows
  <2> QED  BY <1>1, <1>5, <1>8, <1>11, <2>1, <2>3, EndIsSafe
<1> QED
  BY <1>7, <1>10, <1>11

LEMMA GateIsSafe ==
  ASSUME ProxyInv, NEW r \in Requests, Gate(r), Witness, UNCHANGED configVars
  PROVE  ProxyInv'
<1>1. /\ req[r].at = "gate" /\ UNCHANGED <<day, solving, cookies, worked>>
  BY DEF Gate
<1>2. /\ req[r] \in Request /\ req[r] # Idle
      /\ \A p : seen[r] = {p} /\ p.settled => Calm(req[r], p)
  BY <1>1, InFlightFacts
<1>3. PICK a \in Addresses, d \in Decisions, cleared \in BOOLEAN :
        LET q == [req[r] EXCEPT !.addr = a, !.verdict = d, !.cleared = cleared, !.checked = day]
        IN  /\ cleared => \E c \in cookies : VerifyClearance(c, a)
            /\ Becomes(r, IF d \in {"ban", "block"} THEN Ends(q, "forbidden")
                          ELSE IF d = "challenge" /\ ~cleared THEN Ends(q, "challenged")
                          ELSE [q EXCEPT !.at = "limit"])
  BY DEF Gate
<1> DEFINE q == [req[r] EXCEPT !.addr = a, !.verdict = d, !.cleared = cleared, !.checked = day]
           g == [q EXCEPT !.at = "limit"]
<1>4. day \in Days
  BY DEF ProxyInv, CookiesAreEarned
<1>5. /\ q \in Request /\ q.signer = req[r].signer /\ q.cleared = cleared
      /\ q.addr = a /\ q.verdict = d /\ q.checked = day
  BY <1>2, <1>4 DEF Request
<1>6. /\ g \in Request /\ g.at = "limit" /\ g.signer = req[r].signer /\ g.cleared = cleared
      /\ g.addr = a /\ g.verdict = d /\ g.checked = day
  BY <1>2, <1>4 DEF Request
<1>7. cleared => \E w \in worked : w.addr \in {a, MaskOf[a]} /\ (day = w.day \/ day = w.day + 1)
  <2> SUFFICES ASSUME cleared
               PROVE  \E w \in worked : w.addr \in {a, MaskOf[a]} /\ (day = w.day \/ day = w.day + 1)
    OBVIOUS
  <2>1. PICK c \in cookies : VerifyClearance(c, a)
    BY <1>3
  <2>2. [addr |-> c.addr, day |-> c.day] \in worked
    BY DEF ProxyInv, CookiesAreEarned
  <2> QED  BY <2>1, <2>2 DEF VerifyClearance, SaltBindsTo
<1>8. Earned(q) /\ Earned(g)
  BY <1>5, <1>6, <1>7 DEF Earned
<1>9. \A p : seen[r] = {p} /\ p.settled => req[r].signer \in {NoToken, p.live.secret}
  BY <1>2 DEF Calm
<1>10. Becomes(r, IF d \in {"ban", "block"} THEN Ends(q, "forbidden")
                  ELSE IF d = "challenge" /\ ~cleared THEN Ends(q, "challenged") ELSE g)
  BY <1>3
<1> HIDE DEF q, g
<1>11. CASE d \in {"ban", "block"}
  <2>1. "forbidden" \in Answers /\ "forbidden" \in Rejections
    BY DEF Answers, Rejections
  <2>2. \A p : seen[r] = {p} /\ p.settled => Follows(Ends(q, "forbidden"), p) /\ q.signer \in {NoToken, p.live.secret}
    BY <1>5, <1>9, <1>11, <2>1, EndsFields DEF Follows
  <2> QED  BY <1>1, <1>5, <1>8, <1>10, <1>11, <2>1, <2>2, EndIsSafe
<1>12. CASE d \notin {"ban", "block"} /\ d = "challenge" /\ ~cleared
  <2>1. "challenged" \in Answers /\ "challenged" \in Rejections
    BY DEF Answers, Rejections
  <2>2. \A p : seen[r] = {p} /\ p.settled => Follows(Ends(q, "challenged"), p) /\ q.signer \in {NoToken, p.live.secret}
    BY <1>5, <1>9, <1>12, <2>1, EndsFields DEF Follows
  <2> QED  BY <1>1, <1>5, <1>8, <1>10, <1>12, <2>1, <2>2, EndIsSafe
<1>13. CASE d \notin {"ban", "block"} /\ ~(d = "challenge" /\ ~cleared)
  <2>1. Core(g, seen[r])
    BY <1>6, <1>13 DEF Core, PastInspect, PastPredict, Admitted, AtSwitch, AtCall
  <2>2. \A p : seen[r] = {p} /\ p.settled => Calm(g, p)
    BY <1>6, <1>9 DEF Calm, PastInspect, PastPredict, AtSwitch, AtCall
  <2>3. Becomes(r, g)
    BY <1>10, <1>13
  <2> QED  BY <1>1, <1>2, <1>6, <1>8, <2>1, <2>2, <2>3, StepOfHandler
<1> QED
  BY <1>11, <1>12, <1>13

\* g is q at the place a.
Moved(q, a, g) ==
  /\ g \in Request /\ g.at = a /\ g.signer = q.signer /\ g.addr = q.addr
  /\ g.verdict = q.verdict /\ g.cleared = q.cleared /\ g.checked = q.checked
  /\ g.prob = q.prob /\ g.cur = q.cur /\ g.passed = q.passed
  /\ Admitted(q) => Admitted(g)
  /\ Earned(q) => Earned(g)
  /\ \A t : InBand(g, t) <=> InBand(q, t)

\* A request goes on to its next place a.
LEMMA PlaceFields ==
  ASSUME NEW q \in Request,
         NEW a \in {"consult", "predict", "consult again", "forward"} \cup AtSwitch \cup AtCall,
         NEW g, g = [q EXCEPT !.at = a]
  PROVE  Moved(q, a, g)
<1>1. g \in Request
  BY DEF Request, AtSwitch, AtCall
<1>2. /\ g.at = a /\ g.signer = q.signer /\ g.addr = q.addr
      /\ g.verdict = q.verdict /\ g.cleared = q.cleared /\ g.checked = q.checked
      /\ g.prob = q.prob /\ g.cur = q.cur /\ g.passed = q.passed
  BY DEF Request
<1>3. (Admitted(q) => Admitted(g)) /\ (Earned(q) => Earned(g)) /\ \A t : InBand(g, t) <=> InBand(q, t)
  BY <1>2 DEF Admitted, Earned, InBand
<1> QED
  BY <1>1, <1>2, <1>3 DEF Moved

\* One of those that are past the gate moves on: its Core and Calm have to be
\* looked at for the new place only.
LEMMA MoveIsSafe ==
  ASSUME ProxyInv, NEW r \in Requests, req[r].at \in PastGate,
         NEW a \in {"consult", "predict", "consult again", "forward"} \cup AtSwitch \cup AtCall,
         Becomes(r, [req[r] EXCEPT !.at = a]), Witness,
         UNCHANGED configVars, UNCHANGED <<day, solving, cookies, worked>>,
         a \in AtSwitch \cup AtCall => \E p \in seen[r] : p.engine,
         a \in PastInspect /\ req[r].verdict \in Suspicious /\ ~req[r].passed => \E p \in seen[r] : ~CorazaOn(p),
         a \in PastPredict => req[r].at \in PastPredict,
         \A p : seen[r] = {p} /\ p.settled =>
           LET q == req[r]
           IN  /\ a \in AtSwitch => p.engine
               /\ a \in AtCall => CorazaOn(p)
               /\ a \in {"consult", "switch", "inspect"} => q.verdict \in Suspicious
               /\ a \in PastInspect /\ q.verdict \in Suspicious /\ CorazaOn(p) => q.passed
               /\ a \in {"consult again", "switch again", "inspect again"} => InBand(q, p.live.tuning)
               /\ a = "forward" /\ InBand(q, p.live.tuning) /\ CorazaOn(p) => q.passed
  PROVE  ProxyInv'
<1> DEFINE g == [req[r] EXCEPT !.at = a]
<1>1. req[r].at # "idle" /\ req[r].at # "done"
  BY DEF PastGate
<1>2. /\ req[r] \in Request /\ req[r] # Idle /\ Earned(req[r]) /\ Core(req[r], seen[r])
      /\ \A p : seen[r] = {p} /\ p.settled => Calm(req[r], p)
  BY <1>1, InFlightFacts
<1>0. g = [req[r] EXCEPT !.at = a]
  OBVIOUS
<1>3. Becomes(r, g)
  OBVIOUS
<1>4. a # "done"
  BY DEF AtSwitch, AtCall
<1> HIDE DEF g
<1>5. Moved(req[r], a, g)
  BY <1>0, <1>2, PlaceFields
<1>6. Core(g, seen[r])
  BY <1>2, <1>4, <1>5 DEF Core, Moved
<1>7. ASSUME NEW p, seen[r] = {p}, p.settled PROVE Calm(g, p)
  <2>1. Calm(req[r], p)
    BY <1>2, <1>7
  <2> QED  BY <1>4, <1>5, <1>7, <2>1 DEF Calm, Moved
<1> QED
  BY <1>1, <1>2, <1>3, <1>5, <1>6, <1>7, StepOfHandler DEF Moved

LEMMA LimitIsSafe ==
  ASSUME ProxyInv, NEW r \in Requests, Limit(r), Witness, UNCHANGED configVars
  PROVE  ProxyInv'
<1>1. /\ req[r].at = "limit" /\ UNCHANGED <<day, solving, cookies, worked>>
      /\ \/ Becomes(r, Ends(req[r], "limited"))
         \/ Becomes(r, [req[r] EXCEPT !.at = IF req[r].verdict \in Suspicious THEN "consult" ELSE "predict"])
  BY DEF Limit
<1>2. /\ req[r] \in Request /\ Earned(req[r]) /\ Admitted(req[r])
      /\ \A p : seen[r] = {p} /\ p.settled => Calm(req[r], p)
  BY <1>1, InFlightFacts DEF Core, PastGate
<1>3. CASE Becomes(r, Ends(req[r], "limited"))
  <2>1. "limited" \in Answers
    BY DEF Answers
  <2>2. Ends(req[r], "limited").out = "limited" /\ Admitted(Ends(req[r], "limited"))
        /\ Ends(req[r], "limited").signer = req[r].signer
    BY <1>2, <2>1, EndsFields DEF Admitted
  <2>3. \A p : seen[r] = {p} /\ p.settled =>
          Follows(Ends(req[r], "limited"), p) /\ req[r].signer \in {NoToken, p.live.secret}
    BY <1>2, <2>2 DEF Follows, Calm
  <2> QED  BY <1>1, <1>2, <1>3, <2>1, <2>3, EndIsSafe
<1>4. CASE req[r].verdict \in Suspicious /\ Becomes(r, [req[r] EXCEPT !.at = "consult"])
  BY <1>1, <1>4, MoveIsSafe DEF PastGate, PastInspect, PastPredict, AtSwitch, AtCall
<1>5. CASE req[r].verdict \notin Suspicious /\ Becomes(r, [req[r] EXCEPT !.at = "predict"])
  BY <1>1, <1>5, MoveIsSafe DEF PastGate, PastPredict, AtSwitch, AtCall
<1> QED
  BY <1>1, <1>3, <1>4, <1>5

\* wp.Coraza is compared with nil, and found there or not.
LEMMA ConsultIsSafe ==
  ASSUME ProxyInv, NEW r \in Requests, Consult(r), Witness, UNCHANGED configVars
  PROVE  ProxyInv'
<1>1. /\ UNCHANGED <<day, solving, cookies, worked>>
      /\ \/ /\ req[r].at = "consult"
            /\ Becomes(r, [req[r] EXCEPT !.at = IF coraza THEN "switch" ELSE "predict"])
         \/ /\ req[r].at = "consult again"
            /\ Becomes(r, [req[r] EXCEPT !.at = IF coraza THEN "switch again" ELSE "forward"])
  BY DEF Consult, EngineThere
<1>2. /\ req[r] # Idle /\ Core(req[r], seen[r]) /\ Policy \in seen[r]
      /\ \A p : seen[r] = {p} /\ p.settled => Calm(req[r], p)
  BY <1>1, InFlightFacts
<1>3. Policy.engine = coraza /\ (~coraza => ~CorazaOn(Policy))
  BY DEF Policy, CorazaOn
<1>4. \A p : seen[r] = {p} => p.engine = coraza /\ (~coraza => ~CorazaOn(p))
  BY <1>2, <1>3
<1>5. coraza => \E p \in seen[r] : p.engine
  BY <1>2, <1>3
<1>6. ~coraza => \E p \in seen[r] : ~CorazaOn(p)
  BY <1>2, <1>3
<1>7. CASE req[r].at = "consult" /\ coraza /\ Becomes(r, [req[r] EXCEPT !.at = "switch"])
  <2>1. \A p : seen[r] = {p} /\ p.settled => p.engine /\ req[r].verdict \in Suspicious
    BY <1>2, <1>4, <1>7 DEF Calm
  <2> QED  BY <1>1, <1>5, <1>7, <2>1, MoveIsSafe DEF PastGate, PastInspect, PastPredict, AtSwitch, AtCall
<1>8. CASE req[r].at = "consult" /\ ~coraza /\ Becomes(r, [req[r] EXCEPT !.at = "predict"])
  BY <1>1, <1>4, <1>6, <1>8, MoveIsSafe DEF PastGate, PastPredict, AtSwitch, AtCall
<1>9. CASE req[r].at = "consult again" /\ coraza /\ Becomes(r, [req[r] EXCEPT !.at = "switch again"])
  <2>1. req[r].verdict \in Suspicious /\ ~req[r].passed => \E p \in seen[r] : ~CorazaOn(p)
    BY <1>2, <1>9 DEF Core, PastInspect
  <2>2. \A p : seen[r] = {p} /\ p.settled =>
          /\ p.engine /\ InBand(req[r], p.live.tuning)
          /\ req[r].verdict \in Suspicious /\ CorazaOn(p) => req[r].passed
    BY <1>2, <1>4, <1>9 DEF Calm, PastInspect
  <2> QED  BY <1>1, <1>5, <1>9, <2>1, <2>2, MoveIsSafe DEF PastGate, PastPredict, AtSwitch, AtCall
<1>10. CASE req[r].at = "consult again" /\ ~coraza /\ Becomes(r, [req[r] EXCEPT !.at = "forward"])
  BY <1>1, <1>4, <1>6, <1>10, MoveIsSafe DEF PastGate, PastPredict, AtSwitch, AtCall
<1> QED
  BY <1>1, <1>7, <1>8, <1>9, <1>10

\* LiveConfig.EnableCoraza is read, after it.
LEMMA CheckSwitchIsSafe ==
  ASSUME ProxyInv, NEW r \in Requests, CheckSwitch(r), Witness, UNCHANGED configVars
  PROVE  ProxyInv'
<1>1. /\ UNCHANGED <<day, solving, cookies, worked>>
      /\ \/ /\ req[r].at = "switch"
            /\ Becomes(r, [req[r] EXCEPT !.at = IF live.coraza THEN "inspect" ELSE "predict"])
         \/ /\ req[r].at = "switch again"
            /\ Becomes(r, [req[r] EXCEPT !.at = IF live.coraza THEN "inspect again" ELSE "forward"])
  BY DEF CheckSwitch
<1>2. /\ req[r] # Idle /\ Core(req[r], seen[r]) /\ Policy \in seen[r]
      /\ \A p : seen[r] = {p} /\ p.settled => Calm(req[r], p)
  BY <1>1, InFlightFacts
<1>3. Policy.live = live
  BY DEF Policy
<1>4. \E p \in seen[r] : p.engine
  BY <1>1, <1>2 DEF Core, AtSwitch
<1>5. ~live.coraza => \E p \in seen[r] : ~CorazaOn(p)
  BY <1>2, <1>3 DEF CorazaOn
<1>6. \A p : seen[r] = {p} /\ p.settled => (CorazaOn(p) <=> live.coraza)
  BY <1>1, <1>2, <1>3 DEF Calm, CorazaOn, AtSwitch
<1>7. CASE req[r].at = "switch" /\ live.coraza /\ Becomes(r, [req[r] EXCEPT !.at = "inspect"])
  <2>1. \A p : seen[r] = {p} /\ p.settled => CorazaOn(p) /\ req[r].verdict \in Suspicious
    BY <1>2, <1>6, <1>7 DEF Calm
  <2> QED  BY <1>1, <1>4, <1>7, <2>1, MoveIsSafe DEF PastGate, PastInspect, PastPredict, AtSwitch, AtCall
<1>8. CASE req[r].at = "switch" /\ ~live.coraza /\ Becomes(r, [req[r] EXCEPT !.at = "predict"])
  BY <1>1, <1>5, <1>6, <1>8, MoveIsSafe DEF PastGate, PastPredict, AtSwitch, AtCall
<1>9. CASE req[r].at = "switch again" /\ live.coraza /\ Becomes(r, [req[r] EXCEPT !.at = "inspect again"])
  <2>1. req[r].verdict \in Suspicious /\ ~req[r].passed => \E p \in seen[r] : ~CorazaOn(p)
    BY <1>2, <1>9 DEF Core, PastInspect
  <2>2. \A p : seen[r] = {p} /\ p.settled =>
          /\ CorazaOn(p) /\ InBand(req[r], p.live.tuning)
          /\ req[r].verdict \in Suspicious => req[r].passed
    BY <1>2, <1>6, <1>9 DEF Calm, PastInspect
  <2> QED  BY <1>1, <1>4, <1>9, <2>1, <2>2, MoveIsSafe DEF PastGate, PastPredict, AtSwitch, AtCall
<1>10. CASE req[r].at = "switch again" /\ ~live.coraza /\ Becomes(r, [req[r] EXCEPT !.at = "forward"])
  BY <1>1, <1>5, <1>6, <1>10, MoveIsSafe DEF PastGate, PastPredict, AtSwitch, AtCall
<1> QED
  BY <1>1, <1>7, <1>8, <1>9, <1>10

\* g is q, which Coraza has passed, at the place a.
Cleared(q, a, g) ==
  /\ g \in Request /\ g.at = a /\ g.passed /\ g.signer = q.signer
  /\ g.prob = q.prob /\ g.cur = q.cur
  /\ Admitted(q) => Admitted(g)
  /\ Earned(q) => Earned(g)

LEMMA ClearedFields ==
  ASSUME NEW q \in Request, NEW a \in {"predict", "forward"},
         NEW g, g = [q EXCEPT !.at = a, !.passed = TRUE]
  PROVE  Cleared(q, a, g)
<1>1. g \in Request
  BY DEF Request
<1>2. /\ g.at = a /\ g.passed /\ g.signer = q.signer /\ g.prob = q.prob /\ g.cur = q.cur
      /\ g.verdict = q.verdict /\ g.cleared = q.cleared /\ g.addr = q.addr /\ g.checked = q.checked
  BY DEF Request
<1>3. (Earned(q) => Earned(g)) /\ (Admitted(q) => Admitted(g))
  BY <1>2 DEF Earned, Admitted
<1> QED
  BY <1>1, <1>2, <1>3 DEF Cleared

LEMMA InspectIsSafe ==
  ASSUME ProxyInv, NEW r \in Requests, Inspect(r), Witness, UNCHANGED configVars
  PROVE  ProxyInv'
<1> DEFINE q == req[r]
           next == IF q.at = "inspect" THEN "predict" ELSE "forward"
<1>1. /\ q.at \in {"inspect", "inspect again"} /\ UNCHANGED <<day, solving, cookies, worked>>
      /\ \/ Becomes(r, Ends(q, "dropped"))
         \/ Becomes(r, [q EXCEPT !.at = next, !.passed = TRUE])
         \/ ~coraza /\ Becomes(r, Ends(q, "panicked"))
  BY DEF Inspect
<1>2. /\ q \in Request /\ q # Idle /\ Earned(q) /\ Core(q, seen[r]) /\ Policy \in seen[r]
      /\ \A p : seen[r] = {p} /\ p.settled => Calm(q, p)
  BY <1>1, InFlightFacts
<1>3. q.at # "idle" /\ q.at # "done" /\ next \in {"predict", "forward"}
  BY <1>1
<1>4. Admitted(q) /\ \E p \in seen[r] : p.engine
  BY <1>1, <1>2 DEF Core, PastGate, AtSwitch, AtCall
<1>5. ASSUME NEW p, seen[r] = {p}, p.settled
      PROVE  /\ q.signer \in {NoToken, p.live.secret} /\ CorazaOn(p) /\ p.engine = coraza
             /\ q.at = "inspect" => q.verdict \in Suspicious
             /\ q.at = "inspect again" =>
                  /\ InBand(q, p.live.tuning)
                  /\ q.cur = BlockAt[p.live.tuning] /\ q.prob < q.cur
  <2>1. Calm(q, p)
    BY <1>2, <1>5
  <2>2. p = Policy
    BY <1>2, <1>5
  <2> QED  BY <1>1, <2>1, <2>2 DEF Calm, PastPredict, Policy, AtSwitch, AtCall, CorazaOn, Core
<1>6. CASE Becomes(r, Ends(q, "dropped"))
  <2>1. "dropped" \in Answers
    BY DEF Answers
  <2> DEFINE e == Ends(q, "dropped")
  <2>2. /\ e.out = "dropped" /\ e.signer = q.signer /\ e.verdict = q.verdict /\ e.prob = q.prob
        /\ e.cleared = q.cleared
    BY <1>2, <2>1, EndsFields
  <2> HIDE DEF e
  <2>3. Admitted(e)
    BY <1>4, <2>2 DEF Admitted
  <2>4. ASSUME NEW p, seen[r] = {p}, p.settled PROVE Follows(e, p)
    <3>1. Inspected(e, p)
      BY <1>1, <1>5, <2>2, <2>4 DEF Inspected, CorazaOn, InBand
    <3> QED  BY <1>5, <2>2, <2>3, <2>4, <3>1 DEF Follows
  <2>5. \A p : seen[r] = {p} /\ p.settled => Follows(Ends(q, "dropped"), p) /\ q.signer \in {NoToken, p.live.secret}
    BY <1>5, <2>4 DEF e
  <2> QED  BY <1>1, <1>2, <1>3, <1>4, <1>6, <2>1, <2>5, EndIsSafe
<1>7. CASE ~coraza /\ Becomes(r, Ends(q, "panicked"))
  <2>1. "panicked" \in Silent
    BY DEF Silent
  <2>2. \E p \in seen[r] : ~p.engine
    BY <1>2, <1>7 DEF Policy
  <2>3. \A p : seen[r] = {p} /\ p.settled => Follows(Ends(q, "panicked"), p) /\ q.signer \in {NoToken, p.live.secret}
    BY <1>5, <1>7 DEF CorazaOn
  <2> QED  BY <1>1, <1>2, <1>3, <1>4, <1>7, <2>1, <2>2, <2>3, EndIsSafe
<1>8. CASE Becomes(r, [q EXCEPT !.at = next, !.passed = TRUE])
  <2> DEFINE g == [q EXCEPT !.at = next, !.passed = TRUE]
  <2>1. g = [q EXCEPT !.at = next, !.passed = TRUE]
    OBVIOUS
  <2>2. Becomes(r, g)
    BY <1>8
  <2> HIDE DEF g, next, q
  <2>3. Cleared(q, next, g)
    BY <1>2, <1>3, <2>1, ClearedFields
  <2>4. next = "forward" => \E p \in seen[r] : q.prob < BlockAt[p.threshold]
    BY <1>1, <1>2 DEF Core, PastPredict, next
  <2>5. Core(g, seen[r])
    BY <1>3, <1>4, <2>3, <2>4 DEF Core, PastPredict, Cleared
  <2>6. ASSUME NEW p, seen[r] = {p}, p.settled PROVE Calm(g, p)
    BY <1>1, <1>3, <1>5, <2>3, <2>6 DEF Calm, PastPredict, Cleared, next, AtSwitch, AtCall
  <2> QED  BY <1>1, <1>2, <1>3, <2>2, <2>3, <2>5, <2>6, StepOfHandler DEF Cleared, q
<1> QED
  BY <1>1, <1>6, <1>7, <1>8

LEMMA PredictIsSafe ==
  ASSUME ProxyInv, NEW r \in Requests, Predict(r), Witness, UNCHANGED configVars
  PROVE  ProxyInv'
<1>1. req[r].at = "predict" /\ UNCHANGED <<day, solving, cookies, worked>>
  BY DEF Predict
<1>2. /\ req[r] \in Request /\ req[r] # Idle /\ Earned(req[r]) /\ Core(req[r], seen[r]) /\ Policy \in seen[r]
      /\ \A p : seen[r] = {p} /\ p.settled => Calm(req[r], p)
  BY <1>1, InFlightFacts
<1>3. PICK x \in Probs :
        LET q == [req[r] EXCEPT !.prob = x, !.cur = BlockAt[threshold]]
        IN  Becomes(r, IF x >= q.cur THEN Ends(q, "blocked") ELSE [q EXCEPT !.at = "margin"])
  BY DEF Predict
<1> DEFINE q == [req[r] EXCEPT !.prob = x, !.cur = BlockAt[threshold]]
           g == [q EXCEPT !.at = "margin"]
<1>4. threshold \in Tunings
  BY DEF ProxyInv, ConfigInv, ConfigTypeOK
<1>5. BlockAt[threshold] \in 0 .. Unit /\ BlockAt[threshold] \in Nat /\ x \in Nat
  BY <1>4, ProxyTypes
<1>6. /\ q \in Request /\ q.at = "predict" /\ q.prob = x /\ q.cur = BlockAt[threshold]
      /\ q.signer = req[r].signer /\ q.verdict = req[r].verdict /\ q.passed = req[r].passed
      /\ q.cleared = req[r].cleared /\ q.addr = req[r].addr /\ q.checked = req[r].checked
  BY <1>1, <1>2, <1>5 DEF Request
<1>7. /\ g \in Request /\ g.at = "margin" /\ g.prob = x /\ g.cur = BlockAt[threshold]
      /\ g.signer = req[r].signer /\ g.verdict = req[r].verdict /\ g.passed = req[r].passed
      /\ g.cleared = req[r].cleared /\ g.addr = req[r].addr /\ g.checked = req[r].checked
  BY <1>1, <1>2, <1>5 DEF Request
<1>8. Becomes(r, IF x >= q.cur THEN Ends(q, "blocked") ELSE g)
  BY <1>3
<1> HIDE DEF q, g
<1>9. Earned(q) /\ Earned(g) /\ Admitted(q) /\ Admitted(g)
  BY <1>1, <1>2, <1>6, <1>7 DEF Earned, Admitted, Core, PastGate
<1>10. ASSUME NEW p, seen[r] = {p}, p.settled
       PROVE  Calm(req[r], p) /\ BlockAt[threshold] = BlockAt[p.live.tuning]
  BY <1>1, <1>2, <1>10, OnePolicy
<1>11. CASE x >= q.cur
  <2>1. "blocked" \in Answers
    BY DEF Answers
  <2> DEFINE e == Ends(q, "blocked")
  <2>2. /\ e.out = "blocked" /\ e.signer = q.signer /\ e.verdict = q.verdict /\ e.prob = x
        /\ e.cleared = q.cleared
    BY <1>6, <2>1, EndsFields
  <2> HIDE DEF e
  <2>3. Admitted(e)
    BY <1>9, <2>2 DEF Admitted
  <2>4. \A p : seen[r] = {p} /\ p.settled => Follows(e, p)
    BY <1>6, <1>10, <1>11, <2>2, <2>3 DEF Follows, Calm
  <2>5. \A p : seen[r] = {p} /\ p.settled => Follows(Ends(q, "blocked"), p) /\ q.signer \in {NoToken, p.live.secret}
    BY <1>6, <1>10, <2>4 DEF Calm, e
  <2>6. Becomes(r, Ends(q, "blocked"))
    BY <1>8, <1>11
  <2> QED  BY <1>1, <1>6, <1>9, <2>1, <2>5, <2>6, EndIsSafe
<1>12. CASE ~(x >= q.cur)
  <2>1. x < BlockAt[threshold] /\ Becomes(r, g)
    BY <1>5, <1>6, <1>8, <1>12
  <2>2. Policy.threshold = threshold
    BY DEF Policy
  <2>3. Core(g, seen[r])
    BY <1>1, <1>2, <1>7, <1>9, <2>1, <2>2 DEF Core, PastInspect, AtSwitch, AtCall
  <2>4. ASSUME NEW p, seen[r] = {p}, p.settled PROVE Calm(g, p)
    BY <1>1, <1>7, <1>10, <2>1, <2>4 DEF Calm, PastInspect, AtSwitch, AtCall
  <2> QED  BY <1>1, <1>2, <1>7, <1>9, <2>1, <2>3, <2>4, StepOfHandler
<1> QED
  BY <1>11, <1>12

LEMMA CheckMarginIsSafe ==
  ASSUME ProxyInv, NEW r \in Requests, CheckMargin(r), Witness, UNCHANGED configVars
  PROVE  ProxyInv'
<1> DEFINE q == req[r]
           uncertain == Uncertain(q.prob, q.cur, Margin[live.tuning])
<1>1. /\ q.at = "margin" /\ UNCHANGED <<day, solving, cookies, worked>>
      /\ Becomes(r, [q EXCEPT !.at = IF uncertain THEN "consult again" ELSE "forward"])
  BY DEF CheckMargin
<1>2. /\ q # Idle /\ Core(q, seen[r])
      /\ \A p : seen[r] = {p} /\ p.settled => Calm(q, p)
  BY <1>1, InFlightFacts
<1>3. q.verdict \in Suspicious /\ ~q.passed => \E p \in seen[r] : ~CorazaOn(p)
  BY <1>1, <1>2 DEF Core, PastInspect
<1>4. ASSUME NEW p, seen[r] = {p}, p.settled
      PROVE  /\ uncertain <=> InBand(q, p.live.tuning)
             /\ q.verdict \in Suspicious /\ CorazaOn(p) => q.passed
  <2>1. Calm(q, p) /\ p.live = live
    BY <1>1, <1>2, <1>4, OnePolicy
  <2> QED  BY <1>1, <2>1 DEF Calm, InBand, PastInspect, PastPredict
<1> HIDE DEF uncertain
<1>5. CASE uncertain /\ Becomes(r, [q EXCEPT !.at = "consult again"])
  BY <1>1, <1>3, <1>4, <1>5, MoveIsSafe DEF PastGate, PastPredict, AtSwitch, AtCall
<1>6. CASE ~uncertain /\ Becomes(r, [q EXCEPT !.at = "forward"])
  BY <1>1, <1>3, <1>4, <1>6, MoveIsSafe DEF PastGate, PastPredict, AtSwitch, AtCall
<1> QED
  BY <1>1, <1>5, <1>6

LEMMA ForwardIsSafe ==
  ASSUME ProxyInv, NEW r \in Requests, Forward(r), Witness, UNCHANGED configVars
  PROVE  ProxyInv'
<1> DEFINE q == req[r]
<1>1. q.at = "forward" /\ UNCHANGED <<day, solving, cookies, worked>>
  BY DEF Forward
<1>2. PICK out \in {"forwarded", "cut"} : Becomes(r, Ends(q, out))
  BY DEF Forward
<1>3. /\ q \in Request /\ Earned(q) /\ Core(q, seen[r])
      /\ \A p : seen[r] = {p} /\ p.settled => Calm(q, p)
  BY <1>1, InFlightFacts
<1>4. out \in Answers \cup Silent /\ out \notin Rejections /\ out # "panicked"
  BY DEF Answers, Silent, Rejections
<1>5. /\ Admitted(q)
      /\ \E p \in seen[r] : q.prob < BlockAt[p.threshold]
      /\ q.verdict \in Suspicious /\ ~q.passed => \E p \in seen[r] : ~CorazaOn(p)
  BY <1>1, <1>3 DEF Core, PastGate, PastInspect, PastPredict
<1> DEFINE e == Ends(q, out)
<1>6. /\ e.out = out /\ e.signer = q.signer /\ e.verdict = q.verdict /\ e.prob = q.prob
      /\ e.cleared = q.cleared /\ e.passed = q.passed
  BY <1>3, <1>4, EndsFields
<1> HIDE DEF e
<1>7. Admitted(e)
  BY <1>5, <1>6 DEF Admitted
<1>8. ASSUME NEW p, seen[r] = {p}, p.settled PROVE Follows(e, p) /\ q.signer \in {NoToken, p.live.secret}
  <2>1. Calm(q, p)
    BY <1>3, <1>8
  <2>2. q.signer \in {NoToken, p.live.secret} /\ q.prob < BlockAt[p.live.tuning]
    BY <1>1, <2>1 DEF Calm, PastPredict
  <2>3. Inspected(e, p) => e.passed
    BY <1>1, <1>6, <2>1 DEF Calm, Inspected, CorazaOn, InBand, PastInspect
  <2> QED  BY <1>6, <1>7, <2>2, <2>3 DEF Follows
<1>9. \A p : seen[r] = {p} /\ p.settled => Follows(Ends(q, out), p) /\ q.signer \in {NoToken, p.live.secret}
  BY <1>8 DEF e
<1> QED
  BY <1>1, <1>2, <1>3, <1>4, <1>5, <1>9, EndIsSafe

\* A handler starts, with what is in effect as its history, or returns.
LEMMA ArriveOrReturnIsSafe ==
  ASSUME ProxyInv, NEW r \in Requests, Arrive(r) \/ Return(r), Witness, UNCHANGED configVars
  PROVE  ProxyInv'
<1>1. UNCHANGED <<day, solving, cookies, worked>>
  BY DEF Arrive, Return
<1>2. Arrived \in Request /\ Arrived.at = "identify" /\ ~Arrived.cleared /\ Arrived.signer = NoToken
  BY ProxyTypes DEF Arrived, Request
<1>3. PICK q \in {Arrived, Idle} :
        /\ req' = [req EXCEPT ![r] = q]
        /\ q = Arrived => up /\ req[r].at = "idle"
  BY <1>2, IdleIsNoRequest DEF Arrive, Return, Becomes
<1>4. /\ req'[r] = q /\ req' \in [Requests -> Request \cup {Idle}]
      /\ \A s \in Requests : s # r => req'[s] = req[s]
  BY <1>2, <1>3 DEF ProxyInv
<1>5. ConfigInv' /\ CookiesAreEarned'
  BY <1>1, ConfigStutters DEF ProxyInv, CookiesAreEarned
<1>6. Policy' = Policy /\ up' = up
  BY PolicyKept
<1>7. \A s \in Requests : HistoryOK(s) /\ RequestOK(s)
  BY DEF ProxyInv
<1>8. \A s \in Requests :
        seen'[s] = IF req'[s].at = "idle" THEN {}
                   ELSE IF req[s].at = "idle" THEN {Policy}
                   ELSE IF req[s].at = "done" THEN seen[s] ELSE seen[s] \cup {Policy}
  BY <1>6 DEF Witness
<1>9. ASSUME NEW s \in Requests, s # r PROVE HistoryOK(s)' /\ RequestOK(s)'
  <2>1. req'[s] = req[s] /\ HistoryOK(s) /\ RequestOK(s)
    BY <1>4, <1>7, <1>9
  <2>2. seen'[s] = seen[s]
    BY <1>8, <2>1, IdleIsNoRequest DEF HistoryOK
  <2> QED  BY <1>1, <1>6, <2>1, <2>2 DEF HistoryOK, RequestOK, Earned
<1>10. HistoryOK(r)' /\ RequestOK(r)'
  <2>1. CASE q = Idle
    BY <1>4, <1>8, <2>1, IdleIsNoRequest DEF HistoryOK, RequestOK
  <2>2. CASE q = Arrived
    <3>1. seen'[r] = {Policy}
      BY <1>2, <1>3, <1>4, <1>8, <2>2
    <3>2. HistoryOK(r)'
      BY <1>2, <1>3, <1>4, <1>6, <2>2, <3>1, IdleIsNoRequest DEF HistoryOK
    <3>3. Core(Arrived, {Policy}) /\ \A p : Calm(Arrived, p)
      BY <1>2 DEF Core, Calm, PastGate, PastInspect, PastPredict, AtSwitch, AtCall
    <3>4. RequestOK(r)'
      BY <1>2, <1>4, <2>2, <3>1, <3>3 DEF RequestOK, Earned
    <3> QED  BY <3>2, <3>4
  <2> QED  BY <1>3, <2>1, <2>2
<1> QED
  BY <1>4, <1>5, <1>9, <1>10 DEF ProxyInv

-----------------------------------------------------------------------------
(* The other steps.                                                        *)

\* Whatever happens around the handlers is added to the histories, and what was
\* said of a request with less in its history is still true.
LEMMA RequestsUntouched ==
  ASSUME ProxyInv, ConfigInv', CookiesAreEarned', req' = req, worked \subseteq worked',
         up => up', Witness
  PROVE  ProxyInv'
<1>1. \A s \in Requests : HistoryOK(s) /\ RequestOK(s)
  BY DEF ProxyInv
<1>2. \A s \in Requests :
        seen'[s] = IF req[s].at = "idle" THEN {}
                   ELSE IF req[s].at = "done" THEN seen[s] ELSE seen[s] \cup {Policy'}
  BY DEF Witness
<1>3. ASSUME NEW s \in Requests PROVE HistoryOK(s)' /\ RequestOK(s)'
  <2>1. CASE req[s] = Idle
    BY <1>2, <2>1, IdleIsNoRequest DEF HistoryOK, RequestOK
  <2>2. CASE req[s] # Idle
    <3>1. req[s] \in Request /\ req[s].at # "idle" /\ seen[s] # {} /\ seen[s] \subseteq seen'[s]
      BY <1>1, <1>2, <2>2, IdleIsNoRequest DEF HistoryOK
    <3>2. HistoryOK(s)'
      BY <1>1, <1>2, <2>2, <3>1 DEF HistoryOK
    <3>3. Core(req[s], seen'[s])
      BY <1>1, <2>2, <3>1, CoreIsMonotone DEF RequestOK
    <3>4. Earned(req[s]) => Earned(req[s])'
      BY DEF Earned
    <3>5. ASSUME NEW p, seen'[s] = {p}, p.settled PROVE Calm(req[s], p)
      <4>1. seen[s] = {p}
        BY <3>1, <3>5
      <4> QED  BY <1>1, <2>2, <3>5, <4>1 DEF RequestOK
    <3>6. RequestOK(s)'
      BY <1>1, <2>2, <3>3, <3>4, <3>5 DEF RequestOK
    <3> QED  BY <3>2, <3>6
  <2> QED  BY <2>1, <2>2
<1> QED
  BY <1>3 DEF ProxyInv

LEMMA SolveIsSafe ==
  ASSUME ProxyInv, NEW a \in Addresses, NEW b \in Addresses, NEW d \in Days,
         Solve(a, [addr |-> b, day |-> d]), Witness, UNCHANGED configVars
  PROVE  ProxyInv'
<1>1. ConfigInv' /\ up' = up
  BY ConfigStutters, PolicyKept DEF ProxyInv
<1>2. [addr |-> b, day |-> d] \in Salt
  BY DEF Salt
<1>3. CookiesAreEarned' /\ req' = req /\ worked \subseteq worked'
  BY <1>2 DEF ProxyInv, CookiesAreEarned, Solve
<1> QED
  BY <1>1, <1>3, RequestsUntouched

LEMMA IssueCookieIsSafe ==
  ASSUME ProxyInv, NEW s \in solving, IssueCookie(s), Witness, UNCHANGED configVars
  PROVE  ProxyInv'
<1>1. ConfigInv' /\ up' = up
  BY ConfigStutters, PolicyKept DEF ProxyInv
<1>2. /\ cookies' = cookies \cup {[addr |-> s.addr, day |-> s.day, secret |-> live.secret]}
      /\ solving' = solving \ {s} /\ UNCHANGED <<req, day, worked>>
  BY DEF IssueCookie
<1>3. s \in worked /\ s \in Salt /\ live.secret \in JWTSecrets
  BY DEF ProxyInv, CookiesAreEarned, ConfigInv, ConfigTypeOK, Config
<1>4. s = [addr |-> s.addr, day |-> s.day] /\ s.addr \in Addresses /\ s.day \in Days
  BY <1>3 DEF Salt
<1>5. CookiesAreEarned'
  BY <1>2, <1>3, <1>4 DEF ProxyInv, CookiesAreEarned
<1> QED
  BY <1>1, <1>2, <1>5, RequestsUntouched

LEMMA MidnightIsSafe ==
  ASSUME ProxyInv, Midnight, Witness, UNCHANGED configVars
  PROVE  ProxyInv'
<1>1. ConfigInv' /\ up' = up
  BY ConfigStutters, PolicyKept DEF ProxyInv
<1>2. day' \in Days
  BY ProxyConstants DEF Midnight, Days, ProxyInv, CookiesAreEarned, ProxyAssumption
<1>3. CookiesAreEarned' /\ req' = req /\ worked \subseteq worked'
  BY <1>2 DEF ProxyInv, CookiesAreEarned, Midnight
<1> QED
  BY <1>1, <1>3, RequestsUntouched

LEMMA ConfigureIsSafe ==
  ASSUME ProxyInv, Configure
  PROVE  ProxyInv'
<1>1. Witness /\ UNCHANGED <<req, day, solving, cookies, worked>> /\ ConfigNext
  BY DEF Configure, ConfigNext
<1>2. ConfigInv'
  BY <1>1, ProxyTypes, ConfigNextIsSafe DEF ProxyInv
<1>3. up' = up
  BY DEF Configure, Fetch, Reset, SaveStep, Assign, WriteTmp, Rename, ApplyWeights, ApplyThreshold,
         ApplyResolver, ApplyCoraza
<1>4. CookiesAreEarned'
  BY <1>1 DEF ProxyInv, CookiesAreEarned
<1> QED
  BY <1>1, <1>2, <1>3, <1>4, RequestsUntouched

LEMMA CrashProxyIsSafe ==
  ASSUME ProxyInv, CrashProxy
  PROVE  ProxyInv'
<1>1. ConfigInv'
  BY ProxyTypes, CrashConfigIsSafe DEF ProxyInv, CrashProxy
<1>2. CookiesAreEarned'
  BY DEF ProxyInv, CookiesAreEarned, CrashProxy
<1>3. req' = [r \in Requests |-> Idle] /\ \A r \in Requests : req'[r] = Idle /\ seen'[r] = {}
  BY IdleIsNoRequest DEF CrashProxy, Witness
<1>4. \A r \in Requests : HistoryOK(r)' /\ RequestOK(r)'
  BY <1>3 DEF HistoryOK, RequestOK
<1> QED
  BY <1>1, <1>2, <1>3, <1>4 DEF ProxyInv

LEMMA RestartProxyIsSafe ==
  ASSUME ProxyInv, RestartProxy
  PROVE  ProxyInv'
<1>1. ConfigInv' /\ up'
  BY ProxyTypes, RestartConfigIsSafe DEF ProxyInv, RestartProxy, RestartConfig
<1>2. CookiesAreEarned'
  BY DEF ProxyInv, CookiesAreEarned, RestartProxy
<1> QED
  BY <1>1, <1>2, RequestsUntouched DEF RestartProxy

LEMMA ProxyInitIsSafe ==
  ASSUME ProxyInit
  PROVE  ProxyInv
<1>1. ConfigInv
  BY ProxyTypes, ConfigInitIsSafe DEF ProxyInit
<1>2. CookiesAreEarned
  BY ProxyTypes DEF ProxyInit, CookiesAreEarned
<1>3. \A r \in Requests : req[r] = Idle /\ seen[r] = {}
  BY DEF ProxyInit
<1>4. \A r \in Requests : HistoryOK(r) /\ RequestOK(r)
  BY <1>3 DEF HistoryOK, RequestOK
<1> QED
  BY <1>1, <1>2, <1>4 DEF ProxyInv, ProxyInit

LEMMA ProxyStutters ==
  ASSUME ProxyInv, UNCHANGED proxyVars
  PROVE  ProxyInv'
<1>1. UNCHANGED configVars /\ UNCHANGED <<req, day, solving, cookies, worked, seen>>
  BY DEF proxyVars
<1>2. ConfigInv' /\ Policy' = Policy /\ up' = up
  BY <1>1, ConfigStutters, PolicyKept DEF ProxyInv
<1>3. CookiesAreEarned'
  BY <1>1 DEF ProxyInv, CookiesAreEarned
<1>4. \A r \in Requests : HistoryOK(r)' /\ RequestOK(r)'
  BY <1>1, <1>2 DEF ProxyInv, HistoryOK, RequestOK, Earned
<1> QED
  BY <1>1, <1>2, <1>3, <1>4 DEF ProxyInv

-----------------------------------------------------------------------------
(* The theorems.                                                           *)

\* ProxyInv is inductive: no step of a handler, of a save, of a client that solves
\* a challenge, of midnight, of a crash or of a restart breaks it.
THEOREM ProxyKeepsInv == ProxyInv /\ [ProxyNext]_proxyVars => ProxyInv'
<1> SUFFICES ASSUME ProxyInv, [ProxyNext]_proxyVars PROVE ProxyInv'
  OBVIOUS
<1>1. ASSUME Handle PROVE ProxyInv'
  <2>1. Witness /\ UNCHANGED configVars
    BY <1>1 DEF Handle
  <2>2. ASSUME NEW r \in Requests, ServeHTTP(r) PROVE ProxyInv'
    BY <2>1, <2>2, ArriveOrReturnIsSafe, ResolveIsSafe, GateIsSafe, LimitIsSafe, ConsultIsSafe,
       CheckSwitchIsSafe, InspectIsSafe, PredictIsSafe, CheckMarginIsSafe, ForwardIsSafe DEF ServeHTTP
  <2>3. ASSUME NEW a \in Addresses, NEW b \in Addresses, NEW d \in Days, Solve(a, [addr |-> b, day |-> d])
        PROVE  ProxyInv'
    BY <2>1, <2>3, SolveIsSafe
  <2>4. ASSUME NEW s \in solving, IssueCookie(s) PROVE ProxyInv'
    BY <2>1, <2>4, IssueCookieIsSafe
  <2>5. CASE Midnight
    BY <2>1, <2>5, MidnightIsSafe
  <2> QED
    BY <1>1, <2>2, <2>3, <2>4, <2>5 DEF Handle
<1>2. CASE Configure
  BY <1>2, ConfigureIsSafe
<1>3. CASE CrashProxy
  BY <1>3, CrashProxyIsSafe
<1>4. CASE RestartProxy
  BY <1>4, RestartProxyIsSafe
<1>5. CASE UNCHANGED proxyVars
  BY <1>5, ProxyStutters
<1> QED
  BY <1>1, <1>2, <1>3, <1>4, <1>5 DEF ProxyNext

THEOREM ProxyIsSafe == ProxySpec => []ProxyInv
<1>1. ProxyInit => ProxyInv
  BY ProxyInitIsSafe
<1> QED
  BY <1>1, ProxyKeepsInv, PTL DEF ProxySpec

\* Requests, cookies and histories keep their types, and only a running process
\* serves (proxy.go ServeHTTP).
THEOREM ProxyTypeCorrectness == ProxySpec => []ProxyTypeOK
<1>1. ProxyInv => ProxyTypeOK
  <2> SUFFICES ASSUME ProxyInv PROVE ProxyTypeOK
    OBVIOUS
  <2>1. ConfigTypeOK /\ day \in Days /\ solving \subseteq Salt /\ worked \subseteq Salt
        /\ cookies \subseteq [addr : Addresses, day : Days, secret : JWTSecrets]
    BY DEF ProxyInv, ConfigInv, CookiesAreEarned
  <2>2. \A r \in Requests : (seen[r] = {} <=> req[r] = Idle) /\ (req[r] # Idle /\ InFlight(r) => up)
    BY DEF ProxyInv, HistoryOK, InFlight
  <2> QED  BY <2>1, <2>2 DEF ProxyTypeOK, ProxyInv
<1> QED
  BY <1>1, ProxyIsSafe, PTL

\* The cascade reads the configuration in six places that are applied one after
\* the other (proxy.go:315-639, config_manager.go:155-184); a request no save has
\* overlapped nevertheless ends as the one configuration in effect says.
THEOREM CalmRequestsAreDecidedByPolicy == ProxySpec => []CalmRequestsFollowThePolicy
<1>1. ProxyInv => CalmRequestsFollowThePolicy
  <2> SUFFICES ASSUME ProxyInv, NEW r \in Requests, NEW p \in seen[r],
                      req[r].at = "done", seen[r] = {p}, p.settled
               PROVE  Follows(req[r], p)
    BY DEF CalmRequestsFollowThePolicy
  <2>1. req[r] # Idle /\ RequestOK(r)
    BY IdleIsNoRequest DEF ProxyInv
  <2> QED  BY <2>1 DEF RequestOK, Calm
<1> QED
  BY <1>1, ProxyIsSafe, PTL

\* Saves, failed saves, crashes and restarts overlap a request as they like
\* (proxy.go:490-639): what it was held against was in effect during it.
THEOREM OverlapsKeepTheCore == ProxySpec => []OverlappedRequestsKeepTheCore
<1>1. ProxyInv => OverlappedRequestsKeepTheCore
  <2> SUFFICES ASSUME ProxyInv, NEW r \in Requests, req[r].at = "done"
               PROVE  /\ req[r].out \in {"forwarded", "cut"} =>
                           /\ Admitted(req[r])
                           /\ \E p \in seen[r] : req[r].prob < BlockAt[p.threshold]
                           /\ req[r].verdict \in Suspicious /\ ~req[r].passed =>
                                \E p \in seen[r] : ~CorazaOn(p)
                      /\ req[r].learn = "passed" => Admitted(req[r])
    BY DEF OverlappedRequestsKeepTheCore, CorazaOn
  <2>1. req[r] # Idle /\ RequestOK(r)
    BY IdleIsNoRequest DEF ProxyInv
  <2> QED  BY <2>1 DEF RequestOK, Core
<1> QED
  BY <1>1, ProxyIsSafe, PTL

\* wp.Coraza is read twice (proxy.go:491, 508): a handler dies on nil only if the
\* engine was taken away while it ran.
THEOREM PanicsComeFromASwitch == ProxySpec => []PanicsNeedASwitch
<1>1. ProxyInv => PanicsNeedASwitch
  <2> SUFFICES ASSUME ProxyInv, NEW r \in Requests, req[r].at = "done", req[r].out = "panicked"
               PROVE  (\E p \in seen[r] : p.engine) /\ (\E p \in seen[r] : ~p.engine)
    BY DEF PanicsNeedASwitch
  <2>1. req[r] # Idle /\ RequestOK(r)
    BY IdleIsNoRequest DEF ProxyInv
  <2> QED  BY <2>1 DEF RequestOK, Core
<1> QED
  BY <1>1, ProxyIsSafe, PTL

\* A clearance cookie (crypto.go, proxy.go:94-131, 198-259) counts only for the day and
\* the day after of a salt somebody has worked for, at its address, or in the network
\* whose first address it is.
THEOREM ClearanceIsWorkedFor == ProxySpec => []ClearanceIsEarned
<1>1. ProxyInv => ClearanceIsEarned
  <2> SUFFICES ASSUME ProxyInv, NEW r \in Requests, req[r] # Idle, req[r].cleared
               PROVE  \E w \in worked : /\ w.addr \in {req[r].addr, MaskOf[req[r].addr]}
                                        /\ req[r].checked = w.day \/ req[r].checked = w.day + 1
    BY DEF ClearanceIsEarned
  <2>1. Earned(req[r])
    BY DEF ProxyInv, RequestOK
  <2> QED  BY <2>1 DEF Earned
<1> QED
  BY <1>1, ProxyIsSafe, PTL
=============================================================================
