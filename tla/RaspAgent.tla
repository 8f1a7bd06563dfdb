----------------------------- MODULE RaspAgent -----------------------------
(***************************************************************************)
(* The RASP agent inside a backend (rasp/src) and the trust engine's       *)
(* ingest (rasp.go), joined by unix stream sockets.                        *)
(*                                                                         *)
(* The backend is one process with several threads that fork children, as  *)
(* subprocess does for a command.  Every interposed effect sends one       *)
(* verdict through rasp_emit: under the process's lock it connects if it   *)
(* has no socket, writes, reconnects once if the write fails, and falls    *)
(* back to stderr.  The ingest accepts connections and reads each one in a *)
(* goroutine of its own; the WAF process may die and come back, and its    *)
(* accept loop ends for good at the first error.                           *)
(*                                                                         *)
(* The backend's threads ignore SIGPIPE, as CPython does; a child may have *)
(* its default back, as subprocess restores it before the command, and is  *)
(* killed then by the write that fails.  A verdict is short enough for the *)
(* kernel to take it whole or not at all, and no signal interrupts the     *)
(* write.                                                                  *)
(***************************************************************************)
EXTENDS Naturals, Sequences, FiniteSets

CONSTANTS
  Backend,      \* the backend's process
  Threads,      \* its threads
  Children,     \* the processes it forks, of one thread each
  Requests,     \* the requests it serves
  Garbling,     \* those whose id, address or user no JSON string can hold as it is
  NoRequest,
  NoJob,        \* the thread is not in rasp_emit
  Free,         \* the lock is not held
  Effects,      \* the kinds of effect that happen
  Enforce,      \* RASP_ENFORCE=1
  DBEnforce,    \* RASP_DB_ENFORCE=1
  Capacity,     \* how many verdicts a socket buffers
  MaxVerdicts,  \* bound: verdicts emitted
  MaxDeaths     \* bound: how often the WAF process dies

Procs  == {Backend} \cup Children
Actors == Threads \cup Children

\* The severity of an effect (rasp_classify_*).
Critical == {"exec", "secret", "script", "catalog", "stacked", "union"}
High     == {"traversal", "metadata", "tautology"}
Queries  == {"catalog", "stacked", "union", "tautology"}
Harmless == {"file", "host", "query"}

RaspAssumption ==
  /\ Backend \notin Children /\ Threads \cap Children = {}
  /\ NoRequest \notin Requests /\ Garbling \subseteq Requests
  /\ Free \notin Actors
  /\ Effects \subseteq Critical \cup High \cup Harmless
  /\ Enforce \in BOOLEAN /\ DBEnforce \in BOOLEAN
  /\ Capacity \in Nat \ {0} /\ MaxVerdicts \in Nat /\ MaxDeaths \in Nat

ASSUME RaspConstants == RaspAssumption

VARIABLES
  alive,    \* the children that run
  serving,  \* the request each thread works for, in truth
  ctx,      \* the one the agent knows of: its thread-local context
  at,       \* where in rasp_emit each thread is
  job,      \* the verdict it is sending
  lock,     \* g_emit_lock of each process
  sock,     \* g_sock of each process: it has one
  link,     \* the connection of each process, seen from the ingest
  ingest,   \* the WAF process: up, its socket listening, its loop accepting
  handled,  \* verdicts handed to ProcessRASPEvent, in order
  skipped,  \* verdicts whose line the ingest could not parse
  stderr,   \* verdicts written to stderr
  lost,     \* verdicts that were in a socket when its reader went away
  killed,   \* verdicts whose process was killed while it sent them
  taken,    \* effects that took place
  sent,     \* history: verdicts emitted
  deaths    \* history: deaths of the WAF process

raspVars == <<alive, serving, ctx, at, job, lock, sock, link, ingest, handled,
              skipped, stderr, lost, killed, taken, sent, deaths>>

threadVars == <<alive, serving, ctx>>
outcomes   == <<handled, skipped, stderr, lost, killed>>

-----------------------------------------------------------------------------
ProcOf(a) == IF a \in Threads THEN Backend ELSE a
Runs(a)   == a \in Threads \/ a \in alive

\* action_for and inspect_query: severe effects are refused where enforcement
\* is on, each channel by its own switch.
Refused(k) ==
  /\ k \in Critical \cup High
  /\ IF k \in Queries THEN DBEnforce ELSE Enforce

\* rasp_emit escapes the evidence only: the line of such a request is no JSON.
Parses(v) == v.req \notin Garbling

Holding == {"connect", "send", "fallback", "unlock"}

\* A process without a connection, and one it has just opened.
Unlinked == [server |-> "none", client |-> FALSE, buf |-> <<>>]
Pending  == [server |-> "backlog", client |-> TRUE, buf |-> <<>>]

\* The ingest's end goes away, and what it had not read with it.
Dropped(l) == [l EXCEPT !.server = IF l.client THEN "dead" ELSE "none", !.buf = <<>>]
InBuffer(l) == {l.buf[i].id : i \in DOMAIN l.buf}

Listening == [up |-> TRUE, listening |-> TRUE, accepting |-> TRUE]
Down      == [up |-> FALSE, listening |-> FALSE, accepting |-> FALSE]

RaspInit ==
  /\ alive = {}
  /\ serving = [a \in Actors |-> NoRequest]
  /\ ctx = [a \in Actors |-> NoRequest]
  /\ at = [a \in Actors |-> "idle"]
  /\ job = [a \in Actors |-> NoJob]
  /\ lock = [p \in Procs |-> Free]
  /\ sock = [p \in Procs |-> FALSE]
  /\ link = [p \in Procs |-> Unlinked]
  /\ ingest \in {Listening, Down}
  /\ handled = <<>> /\ skipped = {} /\ stderr = {} /\ lost = {} /\ killed = {}
  /\ taken = {}
  /\ sent = 0 /\ deaths = 0

-----------------------------------------------------------------------------
(* The backend: requests, their context, children.                         *)

\* The server hands a request to a thread, its before_request hook sets the
\* context, the teardown hook clears it and the thread is done with it.
BeginRequest(t, r) ==
  /\ serving[t] = NoRequest /\ at[t] = "idle"
  /\ \A a \in Actors : serving[a] # r
  /\ serving' = [serving EXCEPT ![t] = r]
  /\ UNCHANGED <<alive, ctx, at, job, lock, sock, link, ingest, outcomes, taken, sent, deaths>>

\* (mutant: one context for the process)
CtxSetShared(t) ==
  /\ serving[t] # NoRequest /\ ctx[t] # serving[t] /\ at[t] = "idle"
  /\ ctx' = [a \in Actors |-> IF a \in Threads THEN serving[t] ELSE ctx[a]]
  /\ UNCHANGED <<alive, serving, at, job, lock, sock, link, ingest, outcomes, taken, sent, deaths>>

CtxSet(t) ==
  /\ serving[t] # NoRequest /\ ctx[t] # serving[t] /\ at[t] = "idle"
  /\ ctx' = [ctx EXCEPT ![t] = serving[t]]
  /\ UNCHANGED <<alive, serving, at, job, lock, sock, link, ingest, outcomes, taken, sent, deaths>>

EndRequest(t) ==
  /\ serving[t] # NoRequest /\ ctx[t] = serving[t] /\ at[t] = "idle"
  /\ ctx' = [ctx EXCEPT ![t] = NoRequest]
  /\ serving' = [serving EXCEPT ![t] = NoRequest]
  /\ UNCHANGED <<alive, at, job, lock, sock, link, ingest, outcomes, taken, sent, deaths>>

\* (mutant: no pthread_atfork handler)
ForkPlain(t, c) ==
  /\ serving[t] # NoRequest /\ at[t] = "idle"
  /\ c \notin alive /\ link[c] = Unlinked
  /\ alive' = alive \cup {c}
  /\ serving' = [serving EXCEPT ![c] = serving[t]]
  /\ ctx' = [ctx EXCEPT ![c] = ctx[t]]
  /\ lock' = [lock EXCEPT ![c] = lock[Backend]]
  /\ sock' = [sock EXCEPT ![c] = FALSE]
  /\ UNCHANGED <<at, job, link, ingest, outcomes, taken, sent, deaths>>

\* The child has a copy of the thread that called fork, its context included;
\* rasp_atfork_child resets the lock, which another thread may hold, and drops
\* the inherited socket.
Fork(t, c) ==
  /\ serving[t] # NoRequest /\ at[t] = "idle"
  /\ c \notin alive /\ link[c] = Unlinked
  /\ alive' = alive \cup {c}
  /\ serving' = [serving EXCEPT ![c] = serving[t]]
  /\ ctx' = [ctx EXCEPT ![c] = ctx[t]]
  /\ lock' = [lock EXCEPT ![c] = Free]
  /\ sock' = [sock EXCEPT ![c] = FALSE]
  /\ UNCHANGED <<at, job, link, ingest, outcomes, taken, sent, deaths>>

\* The child executes its command, or gives up: its end of the socket closes.
ChildEnds(c) ==
  /\ c \in alive /\ at[c] = "idle"
  /\ alive' = alive \ {c}
  /\ serving' = [serving EXCEPT ![c] = NoRequest]
  /\ ctx' = [ctx EXCEPT ![c] = NoRequest]
  /\ sock' = [sock EXCEPT ![c] = FALSE]
  /\ link' = [link EXCEPT ![c] = IF @.server = "dead" THEN Unlinked ELSE [@ EXCEPT !.client = FALSE]]
  /\ UNCHANGED <<at, job, lock, ingest, outcomes, taken, sent, deaths>>

-----------------------------------------------------------------------------
(* rasp_emit.                                                              *)

\* An interposer classifies an effect; a harmless one passes at once.
Attempt(a, k) ==
  /\ Runs(a) /\ at[a] = "idle" /\ serving[a] # NoRequest
  /\ sent + Cardinality({b \in Actors : at[b] = "lock"}) < MaxVerdicts
  /\ k \notin Harmless
  /\ at' = [at EXCEPT ![a] = "lock"]
  /\ job' = [job EXCEPT ![a] = [id |-> 0, by |-> ProcOf(a), req |-> ctx[a], effect |-> k,
                                 try |-> 0, calm |-> ingest.listening]]
  /\ UNCHANGED <<threadVars, lock, sock, link, ingest, outcomes, taken, sent, deaths>>

\* (mutant: no lock)
LockNothing(a) ==
  /\ at[a] = "lock"
  /\ lock' = [lock EXCEPT ![ProcOf(a)] = a]
  /\ at' = [at EXCEPT ![a] = "connect"]
  /\ sent' = sent + 1
  /\ job' = [job EXCEPT ![a].id = sent + 1]
  /\ UNCHANGED <<threadVars, sock, link, ingest, outcomes, taken, deaths>>

Lock(a) ==
  /\ at[a] = "lock"
  /\ lock[ProcOf(a)] = Free
  /\ lock' = [lock EXCEPT ![ProcOf(a)] = a]
  /\ at' = [at EXCEPT ![a] = "connect"]
  /\ sent' = sent + 1
  /\ job' = [job EXCEPT ![a].id = sent + 1]
  /\ UNCHANGED <<threadVars, sock, link, ingest, outcomes, taken, deaths>>

\* ensure_socket: the socket the process has, a new connection, or none.
EnsureSocket(a) ==
  LET p == ProcOf(a)
  IN  /\ at[a] = "connect"
      /\ \/ /\ sock[p]
            /\ at' = [at EXCEPT ![a] = "send"]
            /\ UNCHANGED <<sock, link>>
         \/ /\ ~sock[p] /\ ingest.listening
            /\ at' = [at EXCEPT ![a] = "send"]
            /\ sock' = [sock EXCEPT ![p] = TRUE]
            /\ link' = [link EXCEPT ![p] = Pending]
         \/ /\ ~sock[p] /\ ~ingest.listening
            /\ at' = [at EXCEPT ![a] = "fallback"]
            /\ UNCHANGED <<sock, link>>
      /\ UNCHANGED <<threadVars, job, lock, ingest, outcomes, taken, sent, deaths>>

\* socket() itself fails: the process is out of descriptors.
NoSocket(a) ==
  /\ at[a] = "connect" /\ ~sock[ProcOf(a)]
  /\ at' = [at EXCEPT ![a] = "fallback"]
  /\ job' = [job EXCEPT ![a].calm = FALSE]
  /\ UNCHANGED <<threadVars, lock, sock, link, ingest, outcomes, taken, sent, deaths>>

\* The kernel takes the line; with a full buffer write waits.
Write(a) ==
  LET p == ProcOf(a)
  IN  /\ at[a] = "send"
      /\ link[p].server # "dead"
      /\ Len(link[p].buf) < Capacity
      /\ link' = [link EXCEPT ![p].buf = Append(@, job[a])]
      /\ at' = [at EXCEPT ![a] = "unlock"]
      /\ UNCHANGED <<threadVars, job, lock, sock, ingest, outcomes, taken, sent, deaths>>

\* (mutant: one attempt)
WriteFailsForGood(a) ==
  LET p == ProcOf(a)
  IN  /\ at[a] = "send"
      /\ link[p].server = "dead"
      /\ sock' = [sock EXCEPT ![p] = FALSE]
      /\ link' = [link EXCEPT ![p] = Unlinked]
      /\ at' = [at EXCEPT ![a] = "fallback"]
      /\ UNCHANGED <<threadVars, job, lock, ingest, outcomes, taken, sent, deaths>>

\* The peer is gone: the socket is closed, and the first time connected anew.
WriteFails(a) ==
  LET p == ProcOf(a)
  IN  /\ at[a] = "send"
      /\ link[p].server = "dead"
      /\ sock' = [sock EXCEPT ![p] = FALSE]
      /\ link' = [link EXCEPT ![p] = Unlinked]
      /\ at' = [at EXCEPT ![a] = IF job[a].try = 0 THEN "connect" ELSE "fallback"]
      /\ job' = [job EXCEPT ![a].try = 1]
      /\ UNCHANGED <<threadVars, lock, ingest, outcomes, taken, sent, deaths>>

\* In a child SIGPIPE may have its default: the failing write kills it, and the
\* verdict reaches neither a new connection nor stderr.
SigpipeKills(c) ==
  /\ c \in Children
  /\ at[c] = "send"
  /\ link[c].server = "dead"
  /\ killed' = killed \cup {job[c].id}
  /\ alive' = alive \ {c}
  /\ serving' = [serving EXCEPT ![c] = NoRequest]
  /\ ctx' = [ctx EXCEPT ![c] = NoRequest]
  /\ at' = [at EXCEPT ![c] = "idle"]
  /\ job' = [job EXCEPT ![c] = NoJob]
  /\ lock' = [lock EXCEPT ![c] = Free]
  /\ sock' = [sock EXCEPT ![c] = FALSE]
  /\ link' = [link EXCEPT ![c] = Unlinked]
  /\ UNCHANGED <<ingest, handled, skipped, stderr, lost, taken, sent, deaths>>

Fallback(a) ==
  /\ at[a] = "fallback"
  /\ stderr' = stderr \cup {job[a].id}
  /\ at' = [at EXCEPT ![a] = "unlock"]
  /\ UNCHANGED <<threadVars, job, lock, sock, link, ingest, handled, skipped, lost, killed, taken, sent, deaths>>

\* The lock is released and the interposer refuses the effect or lets it happen.
Unlock(a) ==
  /\ at[a] = "unlock"
  /\ lock' = [lock EXCEPT ![ProcOf(a)] = Free]
  /\ at' = [at EXCEPT ![a] = "idle"]
  /\ job' = [job EXCEPT ![a] = NoJob]
  /\ taken' = IF Refused(job[a].effect) THEN taken ELSE taken \cup {job[a].id}
  /\ UNCHANGED <<threadVars, sock, link, ingest, outcomes, sent, deaths>>

Emit(a) ==
  \/ Lock(a) \/ EnsureSocket(a) \/ NoSocket(a) \/ Write(a) \/ WriteFails(a) \/ SigpipeKills(a)
  \/ Fallback(a) \/ Unlock(a)

-----------------------------------------------------------------------------
(* The ingest.                                                             *)

Accept(p) ==
  /\ ingest.accepting
  /\ link[p].server = "backlog"
  /\ link' = [link EXCEPT ![p].server = "open"]
  /\ UNCHANGED <<threadVars, at, job, lock, sock, ingest, outcomes, taken, sent, deaths>>

\* handleRASPConn reads the next line: it hands the verdict to ProcessRASPEvent, or
\* logs and skips what does not parse.
HandleLine(p) ==
  LET v == Head(link[p].buf)
  IN  /\ link[p].server = "open" /\ link[p].buf # <<>>
      /\ \/ Parses(v) /\ handled' = Append(handled, v) /\ skipped' = skipped
         \/ ~Parses(v) /\ skipped' = skipped \cup {v.id} /\ handled' = handled
      /\ link' = [link EXCEPT ![p].buf = Tail(@)]
      /\ UNCHANGED <<threadVars, at, job, lock, sock, ingest, stderr, lost, killed, taken, sent, deaths>>

\* It returns at the end of the stream.
HandleEnd(p) ==
  /\ link[p].server = "open" /\ link[p].buf = <<>> /\ ~link[p].client
  /\ link' = [link EXCEPT ![p] = Unlinked]
  /\ UNCHANGED <<threadVars, at, job, lock, sock, ingest, outcomes, taken, sent, deaths>>

\* Accept returns an error: the loop ends, the socket still listens ...
AcceptFails ==
  /\ ingest.accepting
  /\ ingest' = [ingest EXCEPT !.accepting = FALSE]
  /\ UNCHANGED <<threadVars, at, job, lock, sock, link, outcomes, taken, sent, deaths>>

\* ... until the finalizer of the unreachable listener closes it, and with it the
\* connections nobody has accepted.
CloseListener ==
  LET waiting == {p \in Procs : link[p].server = "backlog"}
  IN  /\ ingest.listening /\ ~ingest.accepting
      /\ ingest' = [ingest EXCEPT !.listening = FALSE]
      /\ link' = [p \in Procs |-> IF p \in waiting THEN Dropped(link[p]) ELSE link[p]]
      /\ lost' = lost \cup UNION {InBuffer(link[p]) : p \in waiting}
      /\ job' = [a \in Actors |-> IF at[a] = "idle" THEN job[a] ELSE [job[a] EXCEPT !.calm = FALSE]]
      /\ UNCHANGED <<threadVars, at, lock, sock, handled, skipped, stderr, killed, taken, sent, deaths>>

IngestDies ==
  /\ ingest.up /\ deaths < MaxDeaths
  /\ deaths' = deaths + 1
  /\ ingest' = Down
  /\ link' = [p \in Procs |-> IF link[p].server \in {"backlog", "open"} THEN Dropped(link[p]) ELSE link[p]]
  /\ lost' = lost \cup UNION {InBuffer(link[p]) : p \in Procs}
  /\ job' = [a \in Actors |-> IF at[a] = "idle" THEN job[a] ELSE [job[a] EXCEPT !.calm = FALSE]]
  /\ UNCHANGED <<threadVars, at, lock, sock, handled, skipped, stderr, killed, taken, sent>>

\* StartRASPIngest: the stale socket file is removed and a new one bound.
StartRASPIngest ==
  /\ ~ingest.up
  /\ ingest' = Listening
  /\ UNCHANGED <<threadVars, at, job, lock, sock, link, outcomes, taken, sent, deaths>>

-----------------------------------------------------------------------------
Serve ==
  \/ \E t \in Threads, r \in Requests : BeginRequest(t, r)
  \/ \E t \in Threads : CtxSet(t) \/ EndRequest(t)
  \/ \E t \in Threads, c \in Children : Fork(t, c)
  \/ \E c \in Children : ChildEnds(c)
  \/ \E a \in Actors, k \in Effects : Attempt(a, k)

Ingest ==
  \/ \E p \in Procs : Accept(p) \/ HandleLine(p) \/ HandleEnd(p)
  \/ AcceptFails \/ CloseListener \/ IngestDies \/ StartRASPIngest

RaspNext == Serve \/ (\E a \in Actors : Emit(a)) \/ Ingest

RaspSpec == RaspInit /\ [][RaspNext]_raspVars

\* Threads inside rasp_emit run on; so do the ingest's goroutines and the
\* garbage collector.  Nobody has to serve, to die or to come back.
RaspFairness ==
  /\ \A a \in Actors : WF_raspVars(Emit(a))
  /\ \A p \in Procs : WF_raspVars(Accept(p)) /\ WF_raspVars(HandleLine(p)) /\ WF_raspVars(HandleEnd(p))
  /\ WF_raspVars(CloseListener)

RaspLiveSpec == RaspSpec /\ RaspFairness

-----------------------------------------------------------------------------
(* Properties.                                                             *)

Verdict == [id : 0 .. MaxVerdicts, by : Procs, req : Requests \cup {NoRequest},
            effect : Effects \ Harmless, try : {0, 1}, calm : BOOLEAN]

RaspTypeOK ==
  /\ alive \subseteq Children
  /\ serving \in [Actors -> Requests \cup {NoRequest}]
  /\ ctx \in [Actors -> Requests \cup {NoRequest}]
  /\ at \in [Actors -> {"idle", "lock"} \cup Holding]
  /\ \A a \in Actors : IF at[a] = "idle" THEN job[a] = NoJob ELSE job[a] \in Verdict /\ Runs(a)
  /\ \A p \in Procs : lock[p] = Free \/ (lock[p] \in Actors /\ ProcOf(lock[p]) = p /\ at[lock[p]] \in Holding)
  /\ \A a \in Actors : at[a] \in Holding => lock[ProcOf(a)] = a
  /\ sock \in [Procs -> BOOLEAN]
  /\ \A p \in Procs : /\ link[p].server \in {"none", "backlog", "open", "dead"}
                      /\ link[p].client = sock[p]
                      /\ Len(link[p].buf) <= Capacity
  /\ ingest.accepting => ingest.listening
  /\ ingest.listening => ingest.up
  /\ sent <= MaxVerdicts

\* The places verdict i is in: a thread that sends it, sockets, the ingest ...
AtThreads(i) ==
  {<<"thread", a>> : a \in {a \in Actors : at[a] \in {"connect", "send", "fallback"} /\ job[a].id = i}}
InSockets(i) ==
  UNION {{<<"socket", p, k>> : k \in {k \in DOMAIN link[p].buf : link[p].buf[k].id = i}} : p \in Procs}
AtIngest(i) == {<<"handled", k>> : k \in {k \in DOMAIN handled : handled[k].id = i}}

\* ... or where the trust engine never sees it.
Aside(i) ==
  UNION {IF i \in skipped THEN {<<"skipped">>} ELSE {}, IF i \in stderr THEN {<<"stderr">>} ELSE {},
         IF i \in lost THEN {<<"lost">>} ELSE {}, IF i \in killed THEN {<<"killed">>} ELSE {}}

Places(i) == AtThreads(i) \cup InSockets(i) \cup AtIngest(i) \cup Aside(i)

\* Every verdict is in one place at a time: on its way, handled once, skipped as its
\* line does not parse, on stderr, lost with the reader of its socket, or gone with
\* the child that was killed sending it.  Reconnects, retries, forks and restarts
\* neither copy it nor lose it in another way.
\* The verdicts of a process are handled in the order they were emitted in, no
\* verdict names another request than the one its thread worked for, and an
\* effect takes place only once its verdict is out and does not say "blocked".
VerdictsAccounted ==
  /\ \A i \in 1 .. sent : Cardinality(Places(i)) = 1
  /\ \A j, k \in DOMAIN handled : j < k /\ handled[j].by = handled[k].by => handled[j].id < handled[k].id
  /\ \A a \in Actors : at[a] # "idle" => job[a].req \in {serving[a], NoRequest}
  /\ \A i \in taken : i \notin killed /\ \A a \in Actors : <<"thread", a>> \notin Places(i)
  /\ \A k \in DOMAIN handled : handled[k].id \in taken => ~Refused(handled[k].effect)

\* "a connection left stale by an ingest restart fails the first write, so we
\* drop it and reconnect for an immediate retry rather than losing the event": a
\* verdict goes to stderr only if the ingest was away, or no socket was to be had, at
\* some moment of its emission.
RetryReachesIngest ==
  \A a \in Actors : at[a] = "fallback" => ~job[a].calm

\* "Never blocks the caller for long": every thread that reports an effect gets out
\* of rasp_emit, if only by being killed, whatever forks, dies or stops accepting.
EmitReturns == \A a \in Actors : at[a] # "idle" ~> at[a] = "idle"
=============================================================================
