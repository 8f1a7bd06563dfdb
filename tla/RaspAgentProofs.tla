-------------------------- MODULE RaspAgentProofs --------------------------
(***************************************************************************)
(* Proofs about RaspAgent, for any number of threads, children, requests   *)
(* and effects, any capacity of a socket, any number of verdicts and any   *)
(* number of deaths of the WAF process.                                    *)
(*                                                                         *)
(* Each process sends under its lock, so that one of its threads at most   *)
(* has a numbered verdict still to put out (LocksAreHeld), and it opens a  *)
(* connection only where nothing is left of the one before (LinksAreWhole).*)
(* That is why a verdict is never in two places, and why those of one      *)
(* process stay in order (VerdictsInOnePlace, StreamsInOrder).             *)
(***************************************************************************)
EXTENDS RaspAgent, TLAPS, FiniteSetTheorems

-----------------------------------------------------------------------------
(* The inductive invariant.                                                *)

Link == [server : {"none", "backlog", "open", "dead"}, client : BOOLEAN, buf : Seq(Verdict)]

\* A thread that has a numbered verdict, not yet put out or just put out.
Sending == {"connect", "send", "fallback"}

Waiting == {b \in Actors : at[b] = "lock"}

Types ==
  /\ alive \subseteq Children
  /\ serving \in [Actors -> Requests \cup {NoRequest}]
  /\ ctx \in [Actors -> Requests \cup {NoRequest}]
  /\ at \in [Actors -> {"idle", "lock"} \cup Holding]
  /\ job \in [Actors -> Verdict \cup {NoJob}]
  /\ lock \in [Procs -> Actors \cup {Free}]
  /\ sock \in [Procs -> BOOLEAN]
  /\ link \in [Procs -> Link]
  /\ ingest \in [up : BOOLEAN, listening : BOOLEAN, accepting : BOOLEAN]
  /\ handled \in Seq(Verdict)
  /\ sent \in Nat
  /\ skipped \subseteq 1 .. sent /\ stderr \subseteq 1 .. sent
  /\ lost \subseteq 1 .. sent /\ killed \subseteq 1 .. sent /\ taken \subseteq 1 .. sent

\* Each thread that waits for the lock will take one more number.
Bounded ==
  /\ IsFiniteSet(Waiting)
  /\ sent + Cardinality(Waiting) <= MaxVerdicts

\* What a thread in rasp_emit sends is its own, and numbered once it has the lock.
JobOf(a) ==
  IF at[a] = "idle" THEN job[a] = NoJob
  ELSE /\ job[a] \in Verdict /\ Runs(a)
       /\ job[a].by = ProcOf(a)
       /\ job[a].req \in {serving[a], NoRequest}
       /\ at[a] \in Holding => job[a].id \in 1 .. sent

ThreadsAreSound ==
  \A a \in Actors : JobOf(a) /\ ctx[a] \in {serving[a], NoRequest}

LocksAreHeld ==
  /\ \A p \in Procs : lock[p] # Free => ProcOf(lock[p]) = p /\ at[lock[p]] \in Holding
  /\ \A a \in Actors : at[a] \in Holding => lock[ProcOf(a)] = a

\* A process that runs and has no socket has left no connection behind.
LinksAreWhole ==
  \A p \in Procs :
    /\ link[p].client = sock[p]
    /\ Len(link[p].buf) <= Capacity
    /\ link[p].server \in {"none", "dead"} => link[p].buf = <<>>
    /\ link[p].server = "none" => ~link[p].client
    /\ link[p].server = "dead" => link[p].client
    /\ (p = Backend \/ p \in alive) /\ ~sock[p] => link[p].server = "none"

IngestIsSound ==
  /\ ingest.accepting => ingest.listening
  /\ ingest.listening => ingest.up

\* The socket under a thread: whoever writes has one; who has lost one connection
\* already finds the next one dead only if the ingest went away again.
ConnectionOf(a) ==
  /\ at[a] = "lock" => job[a].try = 0
  /\ at[a] = "send" => sock[ProcOf(a)]
  /\ at[a] = "connect" /\ job[a].try = 1 => ~sock[ProcOf(a)]
  /\ at[a] # "idle" /\ job[a].calm => ingest.listening
  /\ at[a] = "send" /\ job[a].try = 1 /\ job[a].calm => link[ProcOf(a)].server # "dead"
  /\ at[a] = "fallback" => ~job[a].calm

Shape ==
  /\ Types /\ Bounded /\ ThreadsAreSound /\ LocksAreHeld /\ LinksAreWhole
  /\ IngestIsSound /\ \A a \in Actors : ConnectionOf(a)

\* What has been written: by whom a verdict in a socket is, and what has been
\* handed to ProcessRASPEvent or will be.
Elems(s) == {s[k] : k \in DOMAIN s}

Written == Elems(handled) \cup UNION {Elems(link[p].buf) : p \in Procs}

\* Every number given out is in one place.
VerdictsInOnePlace ==
  /\ \A i \in 1 .. sent : \E x : Places(i) = {x}
  /\ \A x \in Written : x.id \in 1 .. sent
  /\ \A a, b \in Actors : a # b /\ at[a] \in Holding /\ at[b] \in Holding => job[a].id # job[b].id

\* The numbers of a process grow along its stream, up to the one it sends.
Grows(s) == \A j, k \in DOMAIN s : j < k /\ s[j].by = s[k].by => s[j].id < s[k].id

StreamsInOrder ==
  /\ Grows(handled)
  /\ \A p \in Procs :
       /\ Grows(link[p].buf)
       /\ \A y \in Elems(link[p].buf) :
            /\ y.by = p
            /\ \A x \in Elems(handled) : x.by = p => x.id < y.id
  /\ \A a \in Actors : at[a] \in Sending =>
       \A x \in Written : x.by = job[a].by => x.id < job[a].id

\* A verdict that is out and still in the hands of its thread says there what it
\* says in the stream; its effect, and that of those that are being sent, has not
\* taken place, and who was killed over a verdict has not come to its effect.
EffectsFollowVerdicts ==
  /\ \A a \in Actors : at[a] \in Holding => job[a].id \notin taken \cup killed
  /\ \A i \in taken : i \notin killed
  /\ \A a \in Actors : at[a] = "unlock" =>
       \A x \in Written : x.id = job[a].id => x.effect = job[a].effect
  /\ \A x \in Written : x.id \in taken => ~Refused(x.effect)

Stream == VerdictsInOnePlace /\ StreamsInOrder /\ EffectsFollowVerdicts

RaspInv == Shape /\ Stream

-----------------------------------------------------------------------------
(* Sequences, and the places of a verdict.                                 *)

\* What Append makes of a sequence, element by element.
LEMMA AppendElems ==
  ASSUME NEW S, NEW s \in Seq(S), NEW x \in S
  PROVE  /\ Append(s, x) \in Seq(S) /\ Len(Append(s, x)) = Len(s) + 1
         /\ DOMAIN Append(s, x) = DOMAIN s \cup {Len(s) + 1}
         /\ DOMAIN s = 1 .. Len(s) /\ Len(s) \in Nat
         /\ Append(s, x)[Len(s) + 1] = x
         /\ \A k \in DOMAIN s : Append(s, x)[k] = s[k]
         /\ Elems(Append(s, x)) = Elems(s) \cup {x}
<1>1. /\ Append(s, x) \in Seq(S) /\ Len(Append(s, x)) = Len(s) + 1
      /\ DOMAIN s = 1 .. Len(s) /\ Len(s) \in Nat
      /\ DOMAIN Append(s, x) = 1 .. (Len(s) + 1)
      /\ Append(s, x)[Len(s) + 1] = x
      /\ \A k \in 1 .. Len(s) : Append(s, x)[k] = s[k]
  OBVIOUS
<1>2. DOMAIN Append(s, x) = DOMAIN s \cup {Len(s) + 1}
  BY <1>1
<1>3. Elems(Append(s, x)) = Elems(s) \cup {x}
  <2>1. ASSUME NEW y \in Elems(Append(s, x)) PROVE y \in Elems(s) \cup {x}
    BY <1>1, <1>2 DEF Elems
  <2>2. ASSUME NEW y \in Elems(s) \cup {x} PROVE y \in Elems(Append(s, x))
    <3>1. CASE y = x
      BY <1>1, <1>2, <3>1 DEF Elems
    <3>2. CASE y \in Elems(s)
      <4>1. PICK k \in DOMAIN s : y = s[k]
        BY <3>2 DEF Elems
      <4>2. k \in DOMAIN Append(s, x) /\ y = Append(s, x)[k]
        BY <1>1, <1>2, <4>1
      <4> QED  BY <4>2 DEF Elems
    <3> QED  BY <3>1, <3>2
  <2> QED  BY <2>1, <2>2
<1> QED  BY <1>1, <1>2, <1>3

\* What Head and Tail take from it.
LEMMA TailElems ==
  ASSUME NEW S, NEW s \in Seq(S), s # <<>>
  PROVE  /\ Head(s) \in S /\ Tail(s) \in Seq(S) /\ Len(Tail(s)) = Len(s) - 1
         /\ 1 \in DOMAIN s /\ Head(s) = s[1] /\ DOMAIN s = 1 .. Len(s) /\ Len(s) \in Nat
         /\ \A k \in DOMAIN Tail(s) : k \in Nat \ {0} /\ k + 1 \in DOMAIN s /\ Tail(s)[k] = s[k + 1]
         /\ \A k \in DOMAIN s : k # 1 => k - 1 \in DOMAIN Tail(s) /\ Tail(s)[k - 1] = s[k]
         /\ Elems(s) = {Head(s)} \cup Elems(Tail(s))
<1>1. /\ Head(s) \in S /\ Tail(s) \in Seq(S) /\ Len(Tail(s)) = Len(s) - 1
      /\ Head(s) = s[1] /\ DOMAIN s = 1 .. Len(s) /\ Len(s) \in Nat /\ Len(s) > 0
      /\ DOMAIN Tail(s) = 1 .. (Len(s) - 1)
  OBVIOUS
<1>2. \A k \in DOMAIN Tail(s) : k \in Nat \ {0} /\ k + 1 \in DOMAIN s /\ Tail(s)[k] = s[k + 1]
  BY <1>1
<1>3. \A k \in DOMAIN s : k # 1 => k - 1 \in DOMAIN Tail(s) /\ Tail(s)[k - 1] = s[k]
  <2> SUFFICES ASSUME NEW k \in DOMAIN s, k # 1
               PROVE  k - 1 \in DOMAIN Tail(s) /\ Tail(s)[k - 1] = s[k]
    OBVIOUS
  <2>1. k - 1 \in DOMAIN Tail(s) /\ (k - 1) + 1 = k
    BY <1>1
  <2> QED  BY <1>2, <2>1
<1>4. Elems(s) = {Head(s)} \cup Elems(Tail(s))
  <2>1. ASSUME NEW y \in Elems(s) PROVE y \in {Head(s)} \cup Elems(Tail(s))
    <3>1. PICK k \in DOMAIN s : y = s[k]
      BY DEF Elems
    <3>2. CASE k = 1
      BY <1>1, <3>1, <3>2
    <3>3. CASE k # 1
      BY <1>3, <3>1, <3>3 DEF Elems
    <3> QED  BY <3>2, <3>3
  <2>2. ASSUME NEW y \in {Head(s)} \cup Elems(Tail(s)) PROVE y \in Elems(s)
    <3>1. CASE y = Head(s)
      BY <1>1, <3>1 DEF Elems
    <3>2. CASE y \in Elems(Tail(s))
      <4>1. PICK k \in DOMAIN Tail(s) : y = Tail(s)[k]
        BY <3>2 DEF Elems
      <4> QED  BY <1>2, <4>1 DEF Elems
    <3> QED  BY <3>1, <3>2
  <2> QED  BY <2>1, <2>2
<1> QED  BY <1>1, <1>2, <1>3, <1>4

\* Nothing is in the empty sequence, and it is ordered.
LEMMA NoElems == Elems(<<>>) = {} /\ Grows(<<>>) /\ DOMAIN <<>> = {} /\ Len(<<>>) = 0
<1>1. DOMAIN <<>> = {} /\ Len(<<>>) = 0
  OBVIOUS
<1> QED  BY <1>1 DEF Elems, Grows

\* What it means that a verdict is somewhere, place by place.
PlacesAre(i) ==
  /\ \A a : <<"thread", a>> \in Places(i) <=> a \in Actors /\ at[a] \in Sending /\ job[a].id = i
  /\ \A p, k : <<"socket", p, k>> \in Places(i)
       <=> p \in Procs /\ k \in DOMAIN link[p].buf /\ link[p].buf[k].id = i
  /\ \A k : <<"handled", k>> \in Places(i) <=> k \in DOMAIN handled /\ handled[k].id = i
  /\ <<"skipped">> \in Places(i) <=> i \in skipped
  /\ <<"stderr">> \in Places(i) <=> i \in stderr
  /\ <<"lost">> \in Places(i) <=> i \in lost
  /\ <<"killed">> \in Places(i) <=> i \in killed
  /\ \A x \in Places(i) :
       \/ \E a \in Actors : x = <<"thread", a>>
       \/ \E p \in Procs : \E k \in DOMAIN link[p].buf : x = <<"socket", p, k>>
       \/ \E k \in DOMAIN handled : x = <<"handled", k>>
       \/ x = <<"skipped">> \/ x = <<"stderr">> \/ x = <<"lost">> \/ x = <<"killed">>

LEMMA PlaceKinds ==
  ASSUME NEW i
  PROVE  PlacesAre(i)
<1> DEFINE T == AtThreads(i)
           S == InSockets(i)
           H == AtIngest(i)
           A == Aside(i)
           K(p) == {k \in DOMAIN link[p].buf : link[p].buf[k].id = i}
<1>1. Places(i) = T \cup S \cup H \cup A
  BY Zenon DEF Places
<1>2. /\ \A x \in T : \E a \in Actors : x = <<"thread", a>>
      /\ \A x \in H : \E k \in DOMAIN handled : x = <<"handled", k>>
      /\ \A x \in A : x = <<"skipped">> \/ x = <<"stderr">> \/ x = <<"lost">> \/ x = <<"killed">>
  BY DEF AtThreads, AtIngest, Aside
<1>3. \A x \in S : \E p \in Procs : \E k \in DOMAIN link[p].buf : x = <<"socket", p, k>>
  BY DEF InSockets
<1>4. /\ \A a : <<"thread", a>> \in T <=> a \in Actors /\ at[a] \in Sending /\ job[a].id = i
      /\ \A k : <<"handled", k>> \in H <=> k \in DOMAIN handled /\ handled[k].id = i
      /\ <<"skipped">> \in A <=> i \in skipped
      /\ <<"stderr">> \in A <=> i \in stderr
      /\ <<"lost">> \in A <=> i \in lost
      /\ <<"killed">> \in A <=> i \in killed
  BY DEF Sending, AtThreads, AtIngest, Aside
<1>5. \A p, k : <<"socket", p, k>> \in S
              <=> p \in Procs /\ k \in DOMAIN link[p].buf /\ link[p].buf[k].id = i
  <2>1. ASSUME NEW p, NEW k, <<"socket", p, k>> \in S
        PROVE  p \in Procs /\ k \in DOMAIN link[p].buf /\ link[p].buf[k].id = i
    <3>1. PICK q \in Procs : <<"socket", p, k>> \in {<<"socket", q, m>> : m \in K(q)}
      BY <2>1 DEF InSockets
    <3>2. PICK m \in K(q) : <<"socket", p, k>> = <<"socket", q, m>>
      BY <3>1
    <3> QED  BY <3>2
  <2>2. ASSUME NEW p \in Procs, NEW k \in K(p) PROVE <<"socket", p, k>> \in S
    BY DEF InSockets
  <2> QED  BY <2>1, <2>2
<1> HIDE DEF T, S, H, A
<1>6. \A a, p, k : /\ <<"thread", a>> # <<"socket", p, k>>
                   /\ <<"thread", a>> # <<"handled", k>>
                   /\ <<"handled", a>> # <<"socket", p, k>>
  OBVIOUS
<1>7. \A a : <<"thread", a>> \in Places(i) <=> <<"thread", a>> \in T
  BY <1>1, <1>2, <1>3, <1>6
<1>8. \A p, k : <<"socket", p, k>> \in Places(i) <=> <<"socket", p, k>> \in S
  BY <1>1, <1>2, <1>3, <1>6
<1>9. \A k : <<"handled", k>> \in Places(i) <=> <<"handled", k>> \in H
  BY <1>1, <1>2, <1>3, <1>6
<1>10. /\ <<"skipped">> \in Places(i) <=> <<"skipped">> \in A
       /\ <<"stderr">> \in Places(i) <=> <<"stderr">> \in A
       /\ <<"lost">> \in Places(i) <=> <<"lost">> \in A
       /\ <<"killed">> \in Places(i) <=> <<"killed">> \in A
  BY <1>1, <1>2, <1>3
<1>11. \A x \in Places(i) :
         \/ \E a \in Actors : x = <<"thread", a>>
         \/ \E p \in Procs : \E k \in DOMAIN link[p].buf : x = <<"socket", p, k>>
         \/ \E k \in DOMAIN handled : x = <<"handled", k>>
         \/ x = <<"skipped">> \/ x = <<"stderr">> \/ x = <<"lost">> \/ x = <<"killed">>
  BY <1>1, <1>2, <1>3
<1> QED  BY <1>4, <1>5, <1>7, <1>8, <1>9, <1>10, <1>11 DEF PlacesAre

LEMMA PlaceKindsNext ==
  ASSUME NEW i
  PROVE  PlacesAre(i)'
BY PlaceKinds, PTL

\* The kinds of place are different things.
LEMMA PlacesDiffer ==
  /\ \A a, p, k, m : /\ <<"thread", a>> # <<"socket", p, k>> /\ <<"thread", a>> # <<"handled", m>>
                     /\ <<"handled", m>> # <<"socket", p, k>>
  /\ \A z \in {<<"skipped">>, <<"stderr">>, <<"lost">>, <<"killed">>} :
       \A a, p, k, m : z # <<"thread", a>> /\ z # <<"socket", p, k>> /\ z # <<"handled", m>>
  /\ <<"skipped">> # <<"stderr">> /\ <<"skipped">> # <<"lost">> /\ <<"skipped">> # <<"killed">>
  /\ <<"stderr">> # <<"lost">> /\ <<"stderr">> # <<"killed">> /\ <<"lost">> # <<"killed">>
OBVIOUS

-----------------------------------------------------------------------------
(* Steps that leave every verdict where it is.                             *)

\* The sockets hold what they held, and every thread with a number keeps it and
\* stays before, or after, the point where its verdict is out.
Quiet ==
  /\ UNCHANGED <<handled, skipped, stderr, lost, killed, taken, sent>>
  /\ \A p \in Procs : link'[p].buf = link[p].buf
  /\ \A a \in Actors :
       /\ at'[a] \in Sending <=> at[a] \in Sending
       /\ at'[a] = "unlock" <=> at[a] = "unlock"
       /\ at[a] \in Holding =>
            job'[a].id = job[a].id /\ job'[a].by = job[a].by /\ job'[a].effect = job[a].effect

LEMMA PlacesKept ==
  ASSUME \A a \in Actors : /\ at'[a] \in Sending <=> at[a] \in Sending
                           /\ at[a] \in Sending => job'[a].id = job[a].id,
         \A p \in Procs : link'[p].buf = link[p].buf,
         UNCHANGED <<handled, skipped, stderr, lost, killed>>,
         NEW i
  PROVE  Places(i)' = Places(i)
<1>1. AtThreads(i)' = AtThreads(i)
  BY DEF AtThreads, Sending
<1>2. InSockets(i)' = InSockets(i)
  BY DEF InSockets
<1>3. AtIngest(i)' = AtIngest(i) /\ Aside(i)' = Aside(i)
  BY DEF AtIngest, Aside
<1> QED  BY <1>1, <1>2, <1>3 DEF Places

LEMMA QuietKeepsStream ==
  ASSUME Stream, Quiet
  PROVE  Stream'
<1>1. \A i : Places(i)' = Places(i)
  <2> SUFFICES ASSUME NEW i PROVE Places(i)' = Places(i)
    OBVIOUS
  <2> QED  BY PlacesKept DEF Quiet, Sending, Holding
<1>2. /\ Written' = Written
      /\ \A p \in Procs : Elems(link'[p].buf) = Elems(link[p].buf)
  BY DEF Quiet, Written
<1>3. \A a \in Actors : at'[a] \in Holding <=> at[a] \in Holding
  BY DEF Quiet, Sending, Holding
<1>4. VerdictsInOnePlace'
  <2>1. sent' = sent /\ VerdictsInOnePlace
    BY DEF Quiet, Stream
  <2>2. \A i \in 1 .. sent' : \E x : Places(i)' = {x}
    BY <1>1, <2>1 DEF VerdictsInOnePlace
  <2>3. \A x \in Written' : x.id \in 1 .. sent'
    BY <1>2, <2>1 DEF VerdictsInOnePlace
  <2>4. \A a, b \in Actors : a # b /\ at'[a] \in Holding /\ at'[b] \in Holding => job'[a].id # job'[b].id
    BY <1>3, <2>1 DEF VerdictsInOnePlace, Quiet
  <2> QED  BY <2>2, <2>3, <2>4 DEF VerdictsInOnePlace
<1>5. StreamsInOrder'
  BY <1>2, <1>3 DEF Quiet, Stream, StreamsInOrder, Grows, Sending, Holding
<1>6. EffectsFollowVerdicts'
  BY <1>2, <1>3 DEF Quiet, Stream, EffectsFollowVerdicts, Holding
<1> QED  BY <1>4, <1>5, <1>6 DEF Stream

-----------------------------------------------------------------------------
(* The shape of the state, action by action.                               *)

\* Who belongs to which process.
LEMMA ProcFacts ==
  /\ \A a \in Actors : ProcOf(a) \in Procs
  /\ \A a \in Children : ProcOf(a) = a /\ a \in Actors /\ a \in Procs /\ a # Backend /\ a \notin Threads
  /\ \A a \in Threads : ProcOf(a) = Backend /\ a \in Actors /\ a \notin Children
  /\ Backend \in Procs /\ Free \notin Actors
  /\ \A a \in Actors : a \in Threads \/ a \in Children
  /\ \A a \in Actors, c \in Children : ProcOf(a) = c <=> a = c
  BY RaspConstants DEF RaspAssumption, ProcOf, Procs, Actors

LEMMA InitHasShape == RaspInit => Shape
<1> SUFFICES ASSUME RaspInit PROVE Shape
  OBVIOUS
<1>1. Types
  <2>1. Unlinked \in Link /\ <<>> \in Seq(Verdict)
    BY DEF Unlinked, Link
  <2>2. link \in [Procs -> Link] /\ handled \in Seq(Verdict)
    BY <2>1 DEF RaspInit
  <2>3. ingest \in [up : BOOLEAN, listening : BOOLEAN, accepting : BOOLEAN]
    <3>1. Listening \in [up : BOOLEAN, listening : BOOLEAN, accepting : BOOLEAN]
      BY DEF Listening
    <3>2. Down \in [up : BOOLEAN, listening : BOOLEAN, accepting : BOOLEAN]
      BY DEF Down
    <3> QED  BY <3>1, <3>2 DEF RaspInit
  <2> QED  BY <2>2, <2>3 DEF RaspInit, Types
<1>2. Waiting = {}
  BY DEF RaspInit, Waiting
<1>3. Bounded
  BY <1>2, FS_EmptySet, RaspConstants DEF RaspInit, Bounded, RaspAssumption
<1>4. ThreadsAreSound /\ LocksAreHeld /\ \A a \in Actors : ConnectionOf(a)
  BY ProcFacts DEF RaspInit, ThreadsAreSound, JobOf, LocksAreHeld, ConnectionOf, Holding
<1>5. LinksAreWhole
  <2>1. Capacity \in Nat
    BY RaspConstants DEF RaspAssumption
  <2>2. /\ Unlinked.server = "none" /\ Unlinked.client = FALSE /\ Unlinked.buf = <<>>
    BY DEF Unlinked
  <2>3. \A p \in Procs : link[p] = Unlinked /\ sock[p] = FALSE
    BY DEF RaspInit
  <2>4. ASSUME NEW p \in Procs
        PROVE  /\ link[p].client = sock[p]
               /\ link[p].server # "dead"
               /\ link[p].server = "none" => ~link[p].client
    BY <2>2, <2>3
  <2>5. ASSUME NEW p \in Procs
        PROVE  Len(link[p].buf) <= Capacity /\ link[p].buf = <<>>
    BY <2>1, <2>2, <2>3, NoElems
  <2>6. \A p \in Procs : link[p].server = "none"
    BY <2>2, <2>3
  <2> QED  BY <2>4, <2>5, <2>6 DEF LinksAreWhole
<1>6. IngestIsSound
  BY DEF RaspInit, IngestIsSound, Listening, Down
<1> QED  BY <1>1, <1>3, <1>4, <1>5, <1>6 DEF Shape

\* The backend's requests (rasp/src: the context hooks) leave rasp_emit alone.
LEMMA RequestsKeepShape ==
  ASSUME Shape, NEW t \in Threads,
         (\E r \in Requests : BeginRequest(t, r)) \/ CtxSet(t) \/ EndRequest(t)
  PROVE  Shape' /\ Quiet
<1>1. UNCHANGED <<alive, at, job, lock, sock, link, ingest, outcomes, taken, sent>>
  BY DEF BeginRequest, CtxSet, EndRequest
<1>2. /\ \A a \in Actors \ {t} : serving'[a] = serving[a] /\ ctx'[a] = ctx[a]
      /\ at[t] = "idle"
      /\ ctx'[t] \in {serving'[t], NoRequest}
      /\ serving' \in [Actors -> Requests \cup {NoRequest}]
      /\ ctx' \in [Actors -> Requests \cup {NoRequest}]
  BY ProcFacts DEF Shape, Types, ThreadsAreSound, BeginRequest, CtxSet, EndRequest
<1>3. Types' /\ Bounded'
  BY <1>1, <1>2 DEF Shape, Types, Bounded, Waiting, outcomes
<1>4. ThreadsAreSound'
  BY <1>1, <1>2, ProcFacts DEF Shape, ThreadsAreSound, JobOf, Runs
<1>5. LocksAreHeld' /\ LinksAreWhole' /\ IngestIsSound' /\ \A a \in Actors : ConnectionOf(a)'
  BY <1>1 DEF Shape, LocksAreHeld, LinksAreWhole, IngestIsSound, ConnectionOf
<1>6. Quiet
  BY <1>1 DEF Quiet, outcomes
<1> QED  BY <1>3, <1>4, <1>5, <1>6 DEF Shape

\* What each change makes of a connection.
LEMMA LinkForms ==
  ASSUME NEW l \in Link
  PROVE  /\ Unlinked \in Link /\ Unlinked.server = "none" /\ Unlinked.client = FALSE /\ Unlinked.buf = <<>>
         /\ Pending \in Link /\ Pending.server = "backlog" /\ Pending.client = TRUE /\ Pending.buf = <<>>
         /\ Dropped(l) \in Link /\ Dropped(l).client = l.client /\ Dropped(l).buf = <<>>
         /\ Dropped(l).server = IF l.client THEN "dead" ELSE "none"
         /\ LET m == [l EXCEPT !.client = FALSE]
            IN  m \in Link /\ m.server = l.server /\ m.client = FALSE /\ m.buf = l.buf
         /\ LET m == [l EXCEPT !.server = "open"]
            IN  m \in Link /\ m.server = "open" /\ m.client = l.client /\ m.buf = l.buf
         /\ \A b \in Seq(Verdict) :
              LET m == [l EXCEPT !.buf = b]
              IN  m \in Link /\ m.server = l.server /\ m.client = l.client /\ m.buf = b
<1>1. Unlinked \in Link /\ Unlinked.server = "none" /\ Unlinked.client = FALSE /\ Unlinked.buf = <<>>
  BY DEF Unlinked, Link
<1>2. Pending \in Link /\ Pending.server = "backlog" /\ Pending.client = TRUE /\ Pending.buf = <<>>
  BY DEF Pending, Link
<1> DEFINE s == IF l.client THEN "dead" ELSE "none"
<1>s. s \in {"none", "backlog", "open", "dead"} /\ <<>> \in Seq(Verdict) /\ l.client \in BOOLEAN
  BY DEF Link
<1>d. Dropped(l) = [l EXCEPT !.server = s, !.buf = <<>>]
  BY DEF Dropped
<1> HIDE DEF s
<1>3. Dropped(l) \in Link /\ Dropped(l).client = l.client /\ Dropped(l).buf = <<>>
  BY <1>s, <1>d DEF Link
<1>4. Dropped(l).server = s
  BY <1>d DEF Link
<1>5. LET m == [l EXCEPT !.client = FALSE]
      IN  m \in Link /\ m.server = l.server /\ m.client = FALSE /\ m.buf = l.buf
  BY DEF Link
<1>6. LET m == [l EXCEPT !.server = "open"]
      IN  m \in Link /\ m.server = "open" /\ m.client = l.client /\ m.buf = l.buf
  BY DEF Link
<1>7. ASSUME NEW b \in Seq(Verdict)
      PROVE  LET m == [l EXCEPT !.buf = b]
             IN  m \in Link /\ m.server = l.server /\ m.client = l.client /\ m.buf = b
  BY DEF Link
<1> QED  BY <1>1, <1>2, <1>3, <1>4, <1>5, <1>6, <1>7 DEF s

\* rasp_atfork_child: nobody holds anything of a child that does not run.
LEMMA ForkKeepsShape ==
  ASSUME Shape, NEW t \in Threads, NEW c \in Children, Fork(t, c)
  PROVE  Shape' /\ Quiet
<1>1. /\ UNCHANGED <<at, job, link, ingest, outcomes, taken, sent>>
      /\ c \notin alive /\ alive' = alive \cup {c} /\ link[c] = Unlinked
      /\ serving' = [serving EXCEPT ![c] = serving[t]]
      /\ ctx' = [ctx EXCEPT ![c] = ctx[t]]
      /\ lock' = [lock EXCEPT ![c] = Free]
      /\ sock' = [sock EXCEPT ![c] = FALSE]
  BY DEF Fork
<1>p. c \in Actors /\ c \in Procs /\ t \in Actors /\ c # Backend /\ c \notin Threads
  BY ProcFacts
<1>2. at[c] = "idle"
  BY <1>1, <1>p DEF Shape, ThreadsAreSound, JobOf, Runs
<1>3. Types'
  BY <1>1, <1>p DEF Shape, Types, outcomes
<1>4. Bounded'
  BY <1>1 DEF Shape, Bounded, Waiting
<1>5. ThreadsAreSound'
  <2> SUFFICES ASSUME NEW a \in Actors
               PROVE  JobOf(a)' /\ ctx'[a] \in {serving'[a], NoRequest}
    BY DEF ThreadsAreSound
  <2>1. JobOf(a) /\ ctx[a] \in {serving[a], NoRequest} /\ ctx[t] \in {serving[t], NoRequest}
    BY <1>p DEF Shape, ThreadsAreSound
  <2>2. CASE a = c
    BY <1>1, <1>2, <1>p, <2>1, <2>2 DEF JobOf, Shape, Types
  <2>3. CASE a # c
    BY <1>1, <2>1, <2>3 DEF JobOf, Runs, Shape, Types
  <2> QED  BY <2>2, <2>3
<1>6. LocksAreHeld'
  BY <1>1, <1>2, <1>p, ProcFacts DEF Shape, Types, LocksAreHeld, Holding
<1>7. LinksAreWhole'
  <2>1. Unlinked.server = "none" /\ Unlinked.client = FALSE
    BY DEF Unlinked
  <2> SUFFICES ASSUME NEW p \in Procs
               PROVE  /\ link[p].client = sock'[p]
                      /\ (p = Backend \/ p \in alive') /\ ~sock'[p] => link[p].server = "none"
    BY <1>1 DEF Shape, LinksAreWhole
  <2>2. CASE p = c
    BY <1>1, <1>p, <2>1, <2>2 DEF Shape, Types
  <2>3. CASE p # c
    BY <1>1, <2>3 DEF Shape, Types, LinksAreWhole
  <2> QED  BY <2>2, <2>3
<1>8. IngestIsSound' /\ \A a \in Actors : ConnectionOf(a)'
  BY <1>1, <1>2, <1>p, ProcFacts DEF Shape, Types, IngestIsSound, ConnectionOf
<1>9. Quiet
  BY <1>1 DEF Quiet, outcomes
<1> QED  BY <1>3, <1>4, <1>5, <1>6, <1>7, <1>8, <1>9 DEF Shape

\* The end of a child: it holds no lock, and what it wrote can still be read.
LEMMA ChildEndsKeepsShape ==
  ASSUME Shape, NEW c \in Children, ChildEnds(c)
  PROVE  Shape' /\ Quiet
<1> DEFINE m == IF link[c].server = "dead" THEN Unlinked ELSE [link[c] EXCEPT !.client = FALSE]
<1>1. /\ UNCHANGED <<at, job, lock, ingest, outcomes, taken, sent>>
      /\ c \in alive /\ at[c] = "idle" /\ alive' = alive \ {c}
      /\ serving' = [serving EXCEPT ![c] = NoRequest]
      /\ ctx' = [ctx EXCEPT ![c] = NoRequest]
      /\ sock' = [sock EXCEPT ![c] = FALSE]
      /\ link' = [link EXCEPT ![c] = m]
  BY DEF ChildEnds
<1>p. c \in Actors /\ c \in Procs /\ c # Backend /\ c \notin Threads
  BY ProcFacts
<1>l. link[c] \in Link /\ link \in [Procs -> Link]
  BY <1>p DEF Shape, Types
<1> HIDE DEF m
<1>m. /\ m \in Link /\ m.client = FALSE /\ m.buf = link[c].buf
      /\ m.server \in {link[c].server, "none"} /\ m.server # "dead"
      /\ m.server = "none" => m.buf = <<>>
  <2>0. link[c].server \in {"none", "dead"} => link[c].buf = <<>>
    BY <1>p DEF Shape, LinksAreWhole
  <2>1. CASE link[c].server = "dead"
    <3>1. m = Unlinked
      BY <2>1 DEF m
    <3> QED  BY <1>l, <2>0, <2>1, <3>1, LinkForms
  <2>2. CASE link[c].server # "dead"
    <3>1. m = [link[c] EXCEPT !.client = FALSE]
      BY <2>2 DEF m
    <3>2. m \in Link /\ m.server = link[c].server /\ m.client = FALSE /\ m.buf = link[c].buf
      BY <1>l, <3>1, LinkForms
    <3> QED  BY <2>0, <2>2, <3>2
  <2> QED  BY <2>1, <2>2
<1>3. Types'
  BY <1>1, <1>l, <1>m, <1>p DEF Shape, Types, outcomes
<1>4. Bounded'
  BY <1>1 DEF Shape, Bounded, Waiting
<1>5. ThreadsAreSound'
  <2> SUFFICES ASSUME NEW a \in Actors
               PROVE  JobOf(a)' /\ ctx'[a] \in {serving'[a], NoRequest}
    BY DEF ThreadsAreSound
  <2>1. JobOf(a) /\ ctx[a] \in {serving[a], NoRequest}
    BY DEF Shape, ThreadsAreSound
  <2>2. CASE a = c
    BY <1>1, <1>p, <2>1, <2>2 DEF JobOf, Shape, Types
  <2>3. CASE a # c
    BY <1>1, <2>1, <2>3 DEF JobOf, Runs, Shape, Types
  <2> QED  BY <2>2, <2>3
<1>6. LocksAreHeld'
  BY <1>1 DEF Shape, LocksAreHeld
<1>7. LinksAreWhole'
  <2> SUFFICES ASSUME NEW p \in Procs
               PROVE  /\ link'[p].client = sock'[p]
                      /\ Len(link'[p].buf) <= Capacity
                      /\ link'[p].server \in {"none", "dead"} => link'[p].buf = <<>>
                      /\ link'[p].server = "none" => ~link'[p].client
                      /\ link'[p].server = "dead" => link'[p].client
                      /\ (p = Backend \/ p \in alive') /\ ~sock'[p] => link'[p].server = "none"
    BY DEF LinksAreWhole
  <2>1. CASE p = c
    <3>1. link'[p] = m /\ sock'[p] = FALSE /\ p \notin alive' /\ p # Backend
      BY <1>1, <1>l, <1>p, <2>1 DEF Shape, Types
    <3> QED  BY <1>m, <2>1, <3>1 DEF Shape, LinksAreWhole
  <2>2. CASE p # c
    <3>1. link'[p] = link[p] /\ sock'[p] = sock[p] /\ (p \in alive' <=> p \in alive)
      BY <1>1, <1>l, <2>2 DEF Shape, Types
    <3> QED  BY <3>1 DEF Shape, LinksAreWhole
  <2> QED  BY <2>1, <2>2
<1>8. IngestIsSound' /\ \A a \in Actors : ConnectionOf(a)'
  <2>1. ASSUME NEW a \in Actors PROVE ConnectionOf(a)'
    <3>1. CASE a = c
      BY <1>1, <3>1 DEF ConnectionOf
    <3>2. CASE a # c
      <4>1. ProcOf(a) # c /\ ProcOf(a) \in Procs
        BY <3>2, ProcFacts
      <4>2. link'[ProcOf(a)] = link[ProcOf(a)] /\ sock'[ProcOf(a)] = sock[ProcOf(a)]
        BY <1>1, <1>l, <4>1 DEF Shape, Types
      <4> QED  BY <1>1, <4>2 DEF ConnectionOf, Shape
    <3> QED  BY <3>1, <3>2
  <2> QED  BY <1>1, <2>1 DEF Shape, IngestIsSound
<1>9. Quiet
  BY <1>1, <1>l, <1>m DEF Quiet, outcomes
<1> QED  BY <1>3, <1>4, <1>5, <1>6, <1>7, <1>8, <1>9 DEF Shape

\* An interposer reports: one more thread waits for the lock.
LEMMA AttemptKeepsShape ==
  ASSUME Shape, NEW a \in Actors, NEW k \in Effects, Attempt(a, k)
  PROVE  Shape' /\ Quiet
<1> DEFINE v == [id |-> 0, by |-> ProcOf(a), req |-> ctx[a], effect |-> k,
                 try |-> 0, calm |-> ingest.listening]
<1>1. /\ UNCHANGED <<alive, serving, ctx, lock, sock, link, ingest, outcomes, taken, sent>>
      /\ Runs(a) /\ at[a] = "idle" /\ k \notin Harmless
      /\ sent + Cardinality(Waiting) < MaxVerdicts
      /\ at' = [at EXCEPT ![a] = "lock"]
      /\ job' = [job EXCEPT ![a] = v]
  BY DEF Attempt, Waiting, threadVars
<1>2. v \in Verdict /\ v.by = ProcOf(a) /\ v.req = ctx[a] /\ v.calm = ingest.listening
  <2>1. ProcOf(a) \in Procs /\ ctx[a] \in Requests \cup {NoRequest} /\ ingest.listening \in BOOLEAN
    BY ProcFacts DEF Shape, Types
  <2>2. 0 \in 0 .. MaxVerdicts /\ k \in Effects \ Harmless
    BY <1>1, RaspConstants DEF RaspAssumption
  <2> QED  BY <2>1, <2>2 DEF Verdict
<1> HIDE DEF v
<1>3. Types'
  BY <1>1, <1>2 DEF Shape, Types, outcomes
<1>4. Bounded'
  <2>1. Waiting' = Waiting \cup {a} /\ a \notin Waiting
    BY <1>1 DEF Waiting, Shape, Types
  <2>2. IsFiniteSet(Waiting) /\ sent' = sent /\ sent \in Nat /\ MaxVerdicts \in Nat
    BY <1>1, RaspConstants DEF Shape, Types, Bounded, RaspAssumption
  <2>3. Cardinality(Waiting) \in Nat
    BY <2>2, FS_CardinalityType
  <2>4. IsFiniteSet(Waiting') /\ Cardinality(Waiting') = Cardinality(Waiting) + 1
    BY <2>1, <2>2, FS_AddElement
  <2> QED  BY <1>1, <2>2, <2>3, <2>4 DEF Bounded
<1>5. ThreadsAreSound'
  <2> SUFFICES ASSUME NEW b \in Actors
               PROVE  JobOf(b)' /\ ctx'[b] \in {serving'[b], NoRequest}
    BY DEF ThreadsAreSound
  <2>1. JobOf(b) /\ ctx[b] \in {serving[b], NoRequest}
    BY DEF Shape, ThreadsAreSound
  <2>2. CASE b = a
    BY <1>1, <1>2, <2>1, <2>2 DEF JobOf, Runs, Holding, Shape, Types
  <2>3. CASE b # a
    BY <1>1, <2>1, <2>3 DEF JobOf, Runs, Shape, Types
  <2> QED  BY <2>2, <2>3
<1>6. LocksAreHeld'
  BY <1>1 DEF Shape, Types, LocksAreHeld, Holding
<1>7. LinksAreWhole' /\ IngestIsSound'
  BY <1>1 DEF Shape, LinksAreWhole, IngestIsSound
<1>8. \A b \in Actors : ConnectionOf(b)'
  <2> SUFFICES ASSUME NEW b \in Actors PROVE ConnectionOf(b)'
    OBVIOUS
  <2>1. ConnectionOf(b) /\ UNCHANGED <<sock, link, ingest>>
    BY <1>1 DEF Shape
  <2>2. CASE b = a
    <3>1. at'[b] = "lock" /\ job'[b] = v
      BY <1>1, <2>2 DEF Shape, Types
    <3>2. v.try = 0
      BY DEF v
    <3> QED  BY <1>2, <2>1, <3>1, <3>2 DEF ConnectionOf
  <2>3. CASE b # a
    <3>1. at'[b] = at[b] /\ job'[b] = job[b]
      BY <1>1, <2>3 DEF Shape, Types
    <3> QED  BY <2>1, <3>1 DEF ConnectionOf
  <2> QED  BY <2>2, <2>3
<1>9. Quiet
  BY <1>1 DEF Shape, Types, Quiet, outcomes, Sending, Holding
<1> QED  BY <1>3, <1>4, <1>5, <1>6, <1>7, <1>8, <1>9 DEF Shape

-----------------------------------------------------------------------------
(* rasp_emit.                                                              *)

\* Who holds the lock of a process is alone there with a numbered verdict, its own.
LEMMA HolderIsAlone ==
  ASSUME Shape, NEW a \in Actors, at[a] \in Holding
  PROVE  /\ lock[ProcOf(a)] = a /\ ProcOf(a) \in Procs
         /\ \A b \in Actors \ {a} : at[b] \in Holding => ProcOf(b) # ProcOf(a)
         /\ job[a] \in Verdict /\ job[a].by = ProcOf(a) /\ job[a].id \in 1 .. sent
         /\ ProcOf(a) = Backend \/ ProcOf(a) \in alive
         /\ link[ProcOf(a)] \in Link
<1>1. lock[ProcOf(a)] = a /\ ProcOf(a) \in Procs
  BY ProcFacts DEF Shape, LocksAreHeld
<1>2. \A b \in Actors \ {a} : at[b] \in Holding => ProcOf(b) # ProcOf(a)
  BY <1>1 DEF Shape, LocksAreHeld
<1>3. JobOf(a) /\ at[a] # "idle"
  BY DEF Shape, ThreadsAreSound, Holding
<1>4. ProcOf(a) = Backend \/ ProcOf(a) \in alive
  BY <1>3, ProcFacts DEF JobOf, Runs
<1> QED  BY <1>1, <1>2, <1>3, <1>4 DEF JobOf, Shape, Types

\* The holder of a lock goes on inside rasp_emit with the verdict it has: its
\* socket is what remains to be checked.
LEMMA HolderMoves ==
  ASSUME Shape, NEW a \in Actors, at[a] \in Holding,
         NEW next \in Holding, at' = [at EXCEPT ![a] = next],
         NEW v \in Verdict, job' = [job EXCEPT ![a] = v],
         v.id = job[a].id, v.by = job[a].by, v.req = job[a].req,
         UNCHANGED <<alive, serving, ctx, lock, ingest, taken, sent>>
  PROVE  /\ Bounded' /\ ThreadsAreSound' /\ LocksAreHeld' /\ IngestIsSound'
         /\ at' \in [Actors -> {"idle", "lock"} \cup Holding]
         /\ job' \in [Actors -> Verdict \cup {NoJob}]
         /\ at'[a] = next /\ job'[a] = v
         /\ \A b \in Actors \ {a} : at'[b] = at[b] /\ job'[b] = job[b]
<1>1. /\ at' \in [Actors -> {"idle", "lock"} \cup Holding]
      /\ job' \in [Actors -> Verdict \cup {NoJob}]
      /\ \A b \in Actors \ {a} : at'[b] = at[b] /\ job'[b] = job[b]
      /\ job'[a] = v
  BY DEF Shape, Types
<1>a. at'[a] = next /\ at[a] # "lock" /\ next # "lock" /\ at[a] # "idle" /\ next # "idle"
  BY DEF Shape, Types, Holding
<1>2. Bounded'
  <2>1. Waiting' = Waiting
    BY <1>1, <1>a DEF Waiting
  <2> QED  BY <2>1 DEF Bounded, Shape
<1>3. ThreadsAreSound'
  <2> SUFFICES ASSUME NEW b \in Actors
               PROVE  JobOf(b)' /\ ctx'[b] \in {serving'[b], NoRequest}
    BY DEF ThreadsAreSound
  <2>1. JobOf(b) /\ ctx[b] \in {serving[b], NoRequest}
    BY DEF Shape, ThreadsAreSound
  <2>2. CASE b = a
    BY <1>1, <1>a, <2>1, <2>2 DEF JobOf, Runs
  <2>3. CASE b # a
    BY <1>1, <2>1, <2>3 DEF JobOf, Runs
  <2> QED  BY <2>2, <2>3
<1>4. LocksAreHeld'
  BY <1>1, <1>a DEF Shape, LocksAreHeld
<1>5. IngestIsSound'
  BY DEF Shape, IngestIsSound
<1> QED  BY <1>1, <1>a, <1>2, <1>3, <1>4, <1>5

\* The lock is taken by a thread that finds it free, with the next number.
LEMMA LockKeepsShape ==
  ASSUME Shape, NEW a \in Actors, Lock(a)
  PROVE  Shape'
<1> DEFINE v == [job[a] EXCEPT !.id = sent + 1]
           p == ProcOf(a)
<1>1. /\ UNCHANGED <<alive, serving, ctx, sock, link, ingest, outcomes, taken>>
      /\ at[a] = "lock" /\ lock[p] = Free
      /\ lock' = [lock EXCEPT ![p] = a]
      /\ at' = [at EXCEPT ![a] = "connect"]
      /\ sent' = sent + 1
      /\ job' = [job EXCEPT ![a] = v]
  BY DEF Lock, threadVars
<1>p. p \in Procs /\ sent \in Nat /\ MaxVerdicts \in Nat
  BY ProcFacts, RaspConstants DEF Shape, Types, RaspAssumption
<1>b. IsFiniteSet(Waiting') /\ sent + 1 <= MaxVerdicts /\ sent' + Cardinality(Waiting') <= MaxVerdicts
  <2>1. Waiting' = Waiting \ {a} /\ a \in Waiting
    BY <1>1 DEF Waiting, Shape, Types
  <2>2. IsFiniteSet(Waiting) /\ sent + Cardinality(Waiting) <= MaxVerdicts
    BY DEF Shape, Bounded
  <2>3. IsFiniteSet(Waiting') /\ Cardinality(Waiting') = Cardinality(Waiting) - 1
    BY <2>1, <2>2, FS_RemoveElement
  <2>4. Cardinality(Waiting) \in Nat /\ Cardinality(Waiting') \in Nat
    BY <2>2, <2>3, FS_CardinalityType
  <2> QED  BY <1>1, <1>p, <2>2, <2>3, <2>4
<1>j. JobOf(a) /\ job[a] \in Verdict
  BY <1>1 DEF Shape, ThreadsAreSound, JobOf
<1>v. /\ v \in Verdict /\ v.id = sent + 1 /\ v.by = job[a].by /\ v.req = job[a].req
      /\ v.try = job[a].try /\ v.calm = job[a].calm
  BY <1>b, <1>j, <1>p DEF Verdict
<1> HIDE DEF v, p
<1>3. Types'
  BY <1>1, <1>p, <1>v DEF Shape, Types, outcomes, Holding
<1>4. Bounded'
  BY <1>b DEF Bounded
<1>5. ThreadsAreSound'
  <2> SUFFICES ASSUME NEW b \in Actors
               PROVE  JobOf(b)' /\ ctx'[b] \in {serving'[b], NoRequest}
    BY DEF ThreadsAreSound
  <2>1. JobOf(b) /\ ctx[b] \in {serving[b], NoRequest}
    BY DEF Shape, ThreadsAreSound
  <2>2. CASE b = a
    <3>1. /\ at'[b] = "connect" /\ job'[b] = v
          /\ sent + 1 \in 1 .. sent'
      BY <1>1, <1>p, <2>2 DEF Shape, Types
    <3>2. job[b].by = ProcOf(b) /\ job[b].req \in {serving[b], NoRequest} /\ Runs(b)
      BY <1>1, <2>1, <2>2 DEF JobOf
    <3> QED  BY <1>1, <1>v, <2>1, <2>2, <3>1, <3>2 DEF JobOf, Runs
  <2>3. CASE b # a
    <3>1. at'[b] = at[b] /\ job'[b] = job[b]
      BY <1>1, <2>3 DEF Shape, Types
    <3>2. at[b] \in Holding /\ at[b] # "idle" => job[b].id \in 1 .. sent'
      BY <1>1, <1>p, <2>1 DEF JobOf
    <3> QED  BY <1>1, <2>1, <3>1, <3>2 DEF JobOf, Runs, Holding
  <2> QED  BY <2>2, <2>3
<1>6. LocksAreHeld'
  <2>1. \A b \in Actors : at[b] \in Holding => ProcOf(b) # p
    BY <1>1, ProcFacts DEF Shape, LocksAreHeld, p
  <2>2. /\ at'[a] = "connect" /\ \A b \in Actors \ {a} : at'[b] = at[b]
        /\ lock'[p] = a /\ \A q \in Procs \ {p} : lock'[q] = lock[q]
    BY <1>1, <1>p DEF Shape, Types
  <2>3. ASSUME NEW q \in Procs, lock'[q] # Free
        PROVE  ProcOf(lock'[q]) = q /\ at'[lock'[q]] \in Holding
    <3>1. CASE q = p
      BY <2>2, <3>1 DEF Holding, p
    <3>2. CASE q # p
      <4>1. lock[q] \in Actors /\ ProcOf(lock[q]) = q /\ at[lock[q]] \in Holding
        BY <2>2, <2>3, <3>2 DEF Shape, LocksAreHeld, Types
      <4>2. lock[q] # a
        BY <1>1, <4>1 DEF Holding
      <4> QED  BY <2>2, <3>2, <4>1, <4>2
    <3> QED  BY <3>1, <3>2
  <2>4. ASSUME NEW b \in Actors, at'[b] \in Holding PROVE lock'[ProcOf(b)] = b
    <3>1. CASE b = a
      BY <2>2, <3>1 DEF p
    <3>2. CASE b # a
      BY <2>1, <2>2, <2>4, <3>2, ProcFacts DEF Shape, LocksAreHeld
    <3> QED  BY <3>1, <3>2
  <2> QED  BY <2>3, <2>4 DEF LocksAreHeld
<1>7. LinksAreWhole' /\ IngestIsSound'
  BY <1>1 DEF Shape, LinksAreWhole, IngestIsSound
<1>8. \A b \in Actors : ConnectionOf(b)'
  <2> TAKE b \in Actors
  <2>1. ConnectionOf(b)
    BY DEF Shape
  <2>2. CASE b = a
    <3>1. at'[b] = "connect" /\ job'[b] = v
      BY <1>1, <2>2 DEF Shape, Types
    <3> QED  BY <1>1, <1>v, <2>1, <2>2, <3>1 DEF ConnectionOf
  <2>3. CASE b # a
    <3>1. at'[b] = at[b] /\ job'[b] = job[b]
      BY <1>1, <2>3 DEF Shape, Types
    <3> QED  BY <1>1, <2>1, <3>1 DEF ConnectionOf
  <2> QED  BY <2>2, <2>3
<1> QED  BY <1>3, <1>4, <1>5, <1>6, <1>7, <1>8 DEF Shape

\* ... and when it changes the socket of its process, or leaves it, nobody else in
\* rasp_emit looks at that one.
LEMMA HolderLinks ==
  ASSUME Shape, NEW a \in Actors, at[a] \in Holding,
         \A b \in Actors \ {a} : at'[b] = at[b] /\ job'[b] = job[b],
         UNCHANGED ingest,
         \A q \in Procs \ {ProcOf(a)} : link'[q] = link[q] /\ sock'[q] = sock[q]
  PROVE  \A b \in Actors \ {a} : ConnectionOf(b)'
<1> SUFFICES ASSUME NEW b \in Actors \ {a} PROVE ConnectionOf(b)'
  OBVIOUS
<1>1. ConnectionOf(b) /\ at'[b] = at[b] /\ job'[b] = job[b]
  BY DEF Shape
<1>2. CASE at[b] \in Holding
  <2>1. ProcOf(b) # ProcOf(a) /\ ProcOf(b) \in Procs
    BY <1>2, HolderIsAlone, ProcFacts
  <2> QED  BY <1>1, <2>1 DEF ConnectionOf
<1>3. CASE at[b] \notin Holding
  BY <1>1, <1>3 DEF ConnectionOf, Holding
<1> QED  BY <1>2, <1>3

LEMMA EnsureSocketKeepsShape ==
  ASSUME Shape, NEW a \in Actors, EnsureSocket(a)
  PROVE  Shape' /\ Quiet
<1> DEFINE p == ProcOf(a)
<1>1. /\ UNCHANGED <<alive, serving, ctx, job, lock, ingest, outcomes, taken, sent>>
      /\ at[a] = "connect" /\ at[a] \in Holding
  BY DEF EnsureSocket, threadVars, Holding
<1>2. PICK next \in {"send", "fallback"} : at' = [at EXCEPT ![a] = next]
  BY DEF EnsureSocket
<1>n. next \in Holding /\ job' = [job EXCEPT ![a] = job[a]]
  BY <1>1, <1>2 DEF Holding, Shape, Types
<1>h. /\ job[a] \in Verdict /\ p \in Procs /\ (p = Backend \/ p \in alive) /\ link[p] \in Link
  BY <1>1, HolderIsAlone
<1>3. /\ Bounded' /\ ThreadsAreSound' /\ LocksAreHeld' /\ IngestIsSound'
      /\ at' \in [Actors -> {"idle", "lock"} \cup Holding]
      /\ job' \in [Actors -> Verdict \cup {NoJob}]
      /\ at'[a] = next /\ job'[a] = job[a]
      /\ \A b \in Actors \ {a} : at'[b] = at[b] /\ job'[b] = job[b]
  BY <1>1, <1>2, <1>n, <1>h, HolderMoves
<1>c. ConnectionOf(a) /\ LinksAreWhole
  BY DEF Shape
<1>4. CASE UNCHANGED <<sock, link>>
  <2>1. Types' /\ LinksAreWhole'
    BY <1>1, <1>3, <1>4 DEF Shape, Types, LinksAreWhole, outcomes
  <2>2. (next = "send" /\ sock[p]) \/ (next = "fallback" /\ ~sock[p] /\ ~ingest.listening)
    BY <1>1, <1>3, <1>4, <1>h DEF EnsureSocket, Shape, Types
  <2>3. ConnectionOf(a)'
    BY <1>1, <1>3, <1>4, <1>c, <2>2 DEF ConnectionOf
  <2>4. \A b \in Actors : ConnectionOf(b)'
    BY <1>1, <1>3, <1>4, <2>3, HolderLinks
  <2>5. Quiet
    BY <1>1, <1>2, <1>3, <1>4 DEF Quiet, outcomes, Sending
  <2> QED  BY <1>3, <2>1, <2>4, <2>5 DEF Shape
<1>5. CASE ~UNCHANGED <<sock, link>>
  <2>1. /\ ~sock[p] /\ ingest.listening /\ at' = [at EXCEPT ![a] = "send"]
        /\ sock' = [sock EXCEPT ![p] = TRUE]
        /\ link' = [link EXCEPT ![p] = Pending]
    BY <1>5 DEF EnsureSocket
  <2>2. /\ Pending \in Link /\ Pending.server = "backlog" /\ Pending.client = TRUE /\ Pending.buf = <<>>
        /\ link[p].server = "none" /\ link[p].buf = <<>>
    BY <1>c, <1>h, <2>1, LinkForms DEF LinksAreWhole
  <2>3. /\ at'[a] = "send" /\ sock'[p] = TRUE /\ link'[p] = Pending
        /\ \A q \in Procs \ {p} : link'[q] = link[q] /\ sock'[q] = sock[q]
    BY <1>h, <2>1 DEF Shape, Types
  <2>4. Types'
    BY <1>1, <1>3, <2>1, <2>2 DEF Shape, Types, outcomes
  <2>5. LinksAreWhole'
    <3>1. Capacity \in Nat /\ Len(<<>>) = 0
      BY RaspConstants, NoElems DEF RaspAssumption
    <3> HIDE DEF p
    <3> QED  BY <1>1, <1>c, <2>2, <2>3, <3>1 DEF LinksAreWhole
  <2>6. ConnectionOf(a)'
    BY <1>1, <1>3, <2>1, <2>2, <2>3 DEF ConnectionOf
  <2>7. \A b \in Actors : ConnectionOf(b)'
    BY <1>1, <1>3, <2>3, <2>6, HolderLinks
  <2>8. Quiet
    BY <1>1, <1>2, <1>3, <2>2, <2>3 DEF Quiet, outcomes, Sending
  <2> QED  BY <1>3, <2>4, <2>5, <2>7, <2>8 DEF Shape
<1> QED  BY <1>4, <1>5

\* Without a socket the thread goes on to stderr, and knows that it had none.
LEMMA NoSocketKeepsShape ==
  ASSUME Shape, NEW a \in Actors, NoSocket(a)
  PROVE  Shape' /\ Quiet
<1> DEFINE v == [job[a] EXCEPT !.calm = FALSE]
<1>1. /\ UNCHANGED <<alive, serving, ctx, lock, sock, link, ingest, outcomes, taken, sent>>
      /\ at[a] = "connect" /\ at[a] \in Holding
      /\ at' = [at EXCEPT ![a] = "fallback"]
      /\ job' = [job EXCEPT ![a] = v]
  BY DEF NoSocket, threadVars, Holding
<1>h. job[a] \in Verdict /\ "fallback" \in Holding
  BY <1>1, HolderIsAlone DEF Holding
<1>v. /\ v \in Verdict /\ v.id = job[a].id /\ v.by = job[a].by /\ v.req = job[a].req
      /\ v.effect = job[a].effect /\ v.calm = FALSE
  BY <1>h DEF Verdict
<1> HIDE DEF v
<1>3. /\ Bounded' /\ ThreadsAreSound' /\ LocksAreHeld' /\ IngestIsSound'
      /\ at' \in [Actors -> {"idle", "lock"} \cup Holding]
      /\ job' \in [Actors -> Verdict \cup {NoJob}]
      /\ at'[a] = "fallback" /\ job'[a] = v
      /\ \A b \in Actors \ {a} : at'[b] = at[b] /\ job'[b] = job[b]
  BY <1>1, <1>h, <1>v, HolderMoves
<1>4. Types' /\ LinksAreWhole'
  BY <1>1, <1>3 DEF Shape, Types, LinksAreWhole, outcomes
<1>5. \A b \in Actors : ConnectionOf(b)'
  <2>1. ConnectionOf(a)'
    BY <1>1, <1>3, <1>v DEF ConnectionOf
  <2> QED  BY <1>1, <1>3, <2>1, HolderLinks
<1>6. Quiet
  BY <1>1, <1>3, <1>v DEF Quiet, outcomes, Sending
<1> QED  BY <1>3, <1>4, <1>5, <1>6 DEF Shape

\* The kernel takes the verdict: the connection is not dead and not full.
LEMMA WriteKeepsShape ==
  ASSUME Shape, NEW a \in Actors, Write(a)
  PROVE  /\ Shape'
         /\ link'[ProcOf(a)].buf = Append(link[ProcOf(a)].buf, job[a])
         /\ \A q \in Procs \ {ProcOf(a)} : link'[q] = link[q]
<1> DEFINE p == ProcOf(a)
           longer == Append(link[p].buf, job[a])
           m == [link[p] EXCEPT !.buf = longer]
<1>1. /\ UNCHANGED <<alive, serving, ctx, job, lock, sock, ingest, outcomes, taken, sent>>
      /\ at[a] = "send" /\ at[a] \in Holding
      /\ link[p].server # "dead" /\ Len(link[p].buf) < Capacity
      /\ link' = [link EXCEPT ![p] = m]
      /\ at' = [at EXCEPT ![a] = "unlock"]
  BY DEF Write, threadVars, Holding
<1>h. /\ job[a] \in Verdict /\ p \in Procs /\ link[p] \in Link
      /\ job' = [job EXCEPT ![a] = job[a]] /\ "unlock" \in Holding
  BY <1>1, HolderIsAlone DEF Shape, Types, Holding
<1>l. longer \in Seq(Verdict) /\ Len(longer) = Len(link[p].buf) + 1 /\ Len(link[p].buf) \in Nat
  BY <1>h, AppendElems DEF Link
<1> HIDE DEF longer
<1>m. m \in Link /\ m.server = link[p].server /\ m.client = link[p].client /\ m.buf = longer
  BY <1>h, <1>l DEF Link
<1>3. /\ Bounded' /\ ThreadsAreSound' /\ LocksAreHeld' /\ IngestIsSound'
      /\ at' \in [Actors -> {"idle", "lock"} \cup Holding]
      /\ job' \in [Actors -> Verdict \cup {NoJob}]
      /\ at'[a] = "unlock" /\ job'[a] = job[a]
      /\ \A b \in Actors \ {a} : at'[b] = at[b] /\ job'[b] = job[b]
  BY <1>1, <1>h, HolderMoves
<1> HIDE DEF m
<1>4. link'[p] = m /\ \A q \in Procs \ {p} : link'[q] = link[q]
  BY <1>1, <1>h DEF Shape, Types
<1>5. Types'
  BY <1>1, <1>3, <1>m DEF Shape, Types, outcomes
<1>c. ConnectionOf(a) /\ LinksAreWhole
  BY DEF Shape
<1>6. LinksAreWhole'
  <2>1. sock[p] /\ link[p].server # "none" /\ Len(longer) <= Capacity
    <3>1. sock[p] /\ link[p].client = sock[p]
      BY <1>1, <1>c, <1>h DEF ConnectionOf, LinksAreWhole
    <3>2. Capacity \in Nat
      BY RaspConstants DEF RaspAssumption
    <3> QED  BY <1>1, <1>c, <1>h, <1>l, <3>1, <3>2 DEF LinksAreWhole
  <2> HIDE DEF p
  <2> QED  BY <1>1, <1>c, <1>m, <1>4, <2>1 DEF LinksAreWhole
<1>7. \A b \in Actors : ConnectionOf(b)'
  <2>1. ConnectionOf(a)'
    BY <1>1, <1>3, <1>c DEF ConnectionOf
  <2> QED  BY <1>1, <1>3, <1>4, <2>1, HolderLinks
<1>8. link'[p].buf = longer
  BY <1>4, <1>m
<1> QED  BY <1>3, <1>4, <1>5, <1>6, <1>7, <1>8 DEF Shape, longer

\* The peer is gone: nothing was left in that socket, and a thread for which this is
\* the second time knows that the ingest went away.
LEMMA WriteFailsKeepsShape ==
  ASSUME Shape, NEW a \in Actors, WriteFails(a)
  PROVE  Shape' /\ Quiet
<1> DEFINE p == ProcOf(a)
           next == IF job[a].try = 0 THEN "connect" ELSE "fallback"
           v == [job[a] EXCEPT !.try = 1]
<1>1. /\ UNCHANGED <<alive, serving, ctx, lock, ingest, outcomes, taken, sent>>
      /\ at[a] = "send" /\ at[a] \in Holding /\ link[p].server = "dead"
      /\ sock' = [sock EXCEPT ![p] = FALSE]
      /\ link' = [link EXCEPT ![p] = Unlinked]
      /\ at' = [at EXCEPT ![a] = next]
      /\ job' = [job EXCEPT ![a] = v]
  BY DEF WriteFails, threadVars, Holding
<1>h. /\ job[a] \in Verdict /\ p \in Procs /\ link[p] \in Link /\ next \in Sending /\ next \in Holding
  BY <1>1, HolderIsAlone DEF Holding, Sending
<1>v. /\ v \in Verdict /\ v.id = job[a].id /\ v.by = job[a].by /\ v.req = job[a].req
      /\ v.effect = job[a].effect /\ v.try = 1 /\ v.calm = job[a].calm /\ job[a].try \in {0, 1}
  BY <1>h DEF Verdict
<1>n. next = "connect" \/ (next = "fallback" /\ job[a].try = 1)
  BY <1>v
<1> HIDE DEF next, v
<1>3. /\ Bounded' /\ ThreadsAreSound' /\ LocksAreHeld' /\ IngestIsSound'
      /\ at' \in [Actors -> {"idle", "lock"} \cup Holding]
      /\ job' \in [Actors -> Verdict \cup {NoJob}]
      /\ at'[a] = next /\ job'[a] = v
      /\ \A b \in Actors \ {a} : at'[b] = at[b] /\ job'[b] = job[b]
  BY <1>1, <1>h, <1>v, HolderMoves
<1>4. /\ link'[p] = Unlinked /\ sock'[p] = FALSE
      /\ \A q \in Procs \ {p} : link'[q] = link[q] /\ sock'[q] = sock[q]
  BY <1>1, <1>h DEF Shape, Types
<1>u. Unlinked \in Link /\ Unlinked.server = "none" /\ Unlinked.client = FALSE /\ Unlinked.buf = <<>>
  BY <1>h, LinkForms
<1>c. ConnectionOf(a) /\ LinksAreWhole
  BY DEF Shape
<1>5. Types'
  BY <1>1, <1>3, <1>u DEF Shape, Types, outcomes
<1>6. LinksAreWhole'
  <2>1. Capacity \in Nat /\ Len(<<>>) = 0
    BY RaspConstants, NoElems DEF RaspAssumption
  <2> HIDE DEF p
  <2> QED  BY <1>1, <1>c, <1>u, <1>4, <2>1 DEF LinksAreWhole
<1>7. \A b \in Actors : ConnectionOf(b)'
  <2>1. ConnectionOf(a)'
    BY <1>1, <1>3, <1>4, <1>c, <1>n, <1>v DEF ConnectionOf
  <2> QED  BY <1>1, <1>3, <1>4, <2>1, HolderLinks
<1>8. Quiet
  <2>1. link[p].buf = <<>>
    BY <1>1, <1>c, <1>h DEF LinksAreWhole
  <2>2. next # "unlock" /\ at[a] \in Sending
    BY <1>n, <1>1 DEF Sending
  <2> HIDE DEF p
  <2> QED  BY <1>1, <1>h, <1>u, <1>v, <1>3, <1>4, <2>1, <2>2 DEF Quiet, outcomes
<1> QED  BY <1>3, <1>5, <1>6, <1>7, <1>8 DEF Shape

\* The child is gone, with its lock, its dead connection and its verdict.
LEMMA SigpipeKillsKeepsShape ==
  ASSUME Shape, NEW c \in Children, SigpipeKills(c)
  PROVE  Shape'
<1>1. /\ UNCHANGED <<ingest, handled, skipped, stderr, lost, taken, sent>>
      /\ at[c] = "send" /\ at[c] \in Holding
      /\ killed' = killed \cup {job[c].id}
      /\ alive' = alive \ {c}
      /\ serving' = [serving EXCEPT ![c] = NoRequest]
      /\ ctx' = [ctx EXCEPT ![c] = NoRequest]
      /\ at' = [at EXCEPT ![c] = "idle"]
      /\ job' = [job EXCEPT ![c] = NoJob]
      /\ lock' = [lock EXCEPT ![c] = Free]
      /\ sock' = [sock EXCEPT ![c] = FALSE]
      /\ link' = [link EXCEPT ![c] = Unlinked]
  BY DEF SigpipeKills, Holding
<1>p. c \in Actors /\ c \in Procs /\ c # Backend /\ c \notin Threads /\ ProcOf(c) = c
  BY ProcFacts
<1>h. lock[c] = c /\ job[c].id \in 1 .. sent /\ link[c] \in Link
  BY <1>1, <1>p, HolderIsAlone
<1>u. Unlinked \in Link /\ Unlinked.server = "none" /\ Unlinked.client = FALSE /\ Unlinked.buf = <<>>
  BY <1>h, LinkForms
<1>2. /\ at'[c] = "idle" /\ job'[c] = NoJob /\ lock'[c] = Free /\ serving'[c] = NoRequest /\ ctx'[c] = NoRequest
      /\ \A b \in Actors \ {c} : /\ at'[b] = at[b] /\ job'[b] = job[b]
                                 /\ serving'[b] = serving[b] /\ ctx'[b] = ctx[b]
      /\ link'[c] = Unlinked /\ sock'[c] = FALSE
      /\ \A q \in Procs \ {c} : lock'[q] = lock[q] /\ link'[q] = link[q] /\ sock'[q] = sock[q]
  BY <1>1, <1>p DEF Shape, Types
<1>3. Types'
  <2>1. killed' \subseteq 1 .. sent /\ alive' \subseteq Children
    BY <1>1, <1>h DEF Shape, Types
  <2> QED  BY <1>1, <1>u, <2>1 DEF Shape, Types
<1>4. Bounded'
  <2>1. Waiting' = Waiting
    BY <1>1, <1>2 DEF Waiting
  <2> QED  BY <1>1, <2>1 DEF Shape, Bounded
<1>5. ThreadsAreSound'
  <2> SUFFICES ASSUME NEW b \in Actors
               PROVE  JobOf(b)' /\ ctx'[b] \in {serving'[b], NoRequest}
    BY DEF ThreadsAreSound
  <2>1. JobOf(b) /\ ctx[b] \in {serving[b], NoRequest}
    BY DEF Shape, ThreadsAreSound
  <2>2. CASE b = c
    BY <1>2, <2>2 DEF JobOf
  <2>3. CASE b # c
    BY <1>1, <1>2, <2>1, <2>3 DEF JobOf, Runs
  <2> QED  BY <2>2, <2>3
<1>6. LocksAreHeld'
  <2>1. ASSUME NEW q \in Procs, lock'[q] # Free
        PROVE  ProcOf(lock'[q]) = q /\ at'[lock'[q]] \in Holding
    <3>1. q # c /\ lock[q] \in Actors /\ ProcOf(lock[q]) = q /\ at[lock[q]] \in Holding
      BY <1>2, <2>1 DEF Shape, LocksAreHeld, Types
    <3>2. lock[q] # c
      BY <1>p, <3>1
    <3> QED  BY <1>2, <3>1, <3>2
  <2>2. ASSUME NEW b \in Actors, at'[b] \in Holding PROVE lock'[ProcOf(b)] = b
    <3>1. b # c /\ at[b] \in Holding
      BY <1>2, <2>2 DEF Holding
    <3>2. ProcOf(b) \in Procs \ {c}
      BY <3>1, ProcFacts
    <3> QED  BY <1>2, <3>1, <3>2 DEF Shape, LocksAreHeld
  <2> QED  BY <2>1, <2>2 DEF LocksAreHeld
<1>7. LinksAreWhole'
  <2>1. Capacity \in Nat /\ Len(<<>>) = 0
    BY RaspConstants, NoElems DEF RaspAssumption
  <2>2. LinksAreWhole /\ \A q \in Procs \ {c} : q \in alive' <=> q \in alive
    BY <1>1 DEF Shape
  <2>3. Capacity >= 0
    BY <2>1
  <2> SUFFICES ASSUME NEW q \in Procs
               PROVE  /\ link'[q].client = sock'[q]
                      /\ Len(link'[q].buf) <= Capacity
                      /\ link'[q].server \in {"none", "dead"} => link'[q].buf = <<>>
                      /\ link'[q].server = "none" => ~link'[q].client
                      /\ link'[q].server = "dead" => link'[q].client
                      /\ (q = Backend \/ q \in alive') /\ ~sock'[q] => link'[q].server = "none"
    BY DEF LinksAreWhole
  <2>4. CASE q = c
    BY <1>2, <1>u, <2>1, <2>3, <2>4
  <2>5. CASE q # c
    BY <1>2, <2>2, <2>5 DEF LinksAreWhole
  <2> QED  BY <2>4, <2>5
<1>8. IngestIsSound'
  BY <1>1 DEF Shape, IngestIsSound
<1>9. ASSUME NEW b \in Actors PROVE ConnectionOf(b)'
  <2>1. ConnectionOf(b)
    BY DEF Shape
  <2>2. CASE b = c
    BY <1>2, <2>2 DEF ConnectionOf
  <2>3. CASE b # c
    <3>1. ProcOf(b) \in Procs \ {c}
      BY <2>3, ProcFacts
    <3> QED  BY <1>1, <1>2, <2>1, <2>3, <3>1 DEF ConnectionOf
  <2> QED  BY <2>2, <2>3
<1> QED  BY <1>3, <1>4, <1>5, <1>6, <1>7, <1>8, <1>9 DEF Shape

LEMMA FallbackKeepsShape ==
  ASSUME Shape, NEW a \in Actors, Fallback(a)
  PROVE  Shape'
<1>1. /\ UNCHANGED <<alive, serving, ctx, job, lock, sock, link, ingest, handled, skipped, lost, killed, taken, sent>>
      /\ at[a] = "fallback" /\ at[a] \in Holding
      /\ stderr' = stderr \cup {job[a].id}
      /\ at' = [at EXCEPT ![a] = "unlock"]
  BY DEF Fallback, threadVars, Holding
<1>h. /\ job[a] \in Verdict /\ job[a].id \in 1 .. sent
      /\ job' = [job EXCEPT ![a] = job[a]] /\ "unlock" \in Holding
  BY <1>1, HolderIsAlone DEF Shape, Types, Holding
<1>3. /\ Bounded' /\ ThreadsAreSound' /\ LocksAreHeld' /\ IngestIsSound'
      /\ at' \in [Actors -> {"idle", "lock"} \cup Holding]
      /\ job' \in [Actors -> Verdict \cup {NoJob}]
      /\ at'[a] = "unlock" /\ job'[a] = job[a]
      /\ \A b \in Actors \ {a} : at'[b] = at[b] /\ job'[b] = job[b]
  BY <1>1, <1>h, HolderMoves
<1>4. Types' /\ LinksAreWhole'
  BY <1>1, <1>3, <1>h DEF Shape, Types, LinksAreWhole
<1>5. \A b \in Actors : ConnectionOf(b)'
  <2>1. ConnectionOf(a)'
    BY <1>1, <1>3 DEF Shape, ConnectionOf
  <2> QED  BY <1>1, <1>3, <2>1, HolderLinks
<1> QED  BY <1>3, <1>4, <1>5 DEF Shape

LEMMA UnlockKeepsShape ==
  ASSUME Shape, NEW a \in Actors, Unlock(a)
  PROVE  Shape'
<1> DEFINE p == ProcOf(a)
<1>1. /\ UNCHANGED <<alive, serving, ctx, sock, link, ingest, outcomes, sent>>
      /\ at[a] = "unlock" /\ at[a] \in Holding
      /\ lock' = [lock EXCEPT ![p] = Free]
      /\ at' = [at EXCEPT ![a] = "idle"]
      /\ job' = [job EXCEPT ![a] = NoJob]
      /\ taken' \subseteq taken \cup {job[a].id}
  BY DEF Unlock, threadVars, Holding
<1>h. /\ p \in Procs /\ lock[p] = a /\ job[a].id \in 1 .. sent
      /\ \A b \in Actors \ {a} : at[b] \in Holding => ProcOf(b) # p
  BY <1>1, HolderIsAlone
<1>2. /\ at'[a] = "idle" /\ job'[a] = NoJob /\ lock'[p] = Free
      /\ \A b \in Actors \ {a} : at'[b] = at[b] /\ job'[b] = job[b]
      /\ \A q \in Procs \ {p} : lock'[q] = lock[q]
  BY <1>1, <1>h DEF Shape, Types
<1> HIDE DEF p
<1>3. Types'
  BY <1>1, <1>h DEF Shape, Types, outcomes
<1>4. Bounded'
  <2>1. Waiting' = Waiting
    BY <1>1, <1>2 DEF Waiting
  <2> QED  BY <1>1, <2>1 DEF Shape, Bounded
<1>5. ThreadsAreSound'
  <2> SUFFICES ASSUME NEW b \in Actors
               PROVE  JobOf(b)' /\ ctx'[b] \in {serving'[b], NoRequest}
    BY DEF ThreadsAreSound
  <2>1. JobOf(b) /\ ctx[b] \in {serving[b], NoRequest}
    BY DEF Shape, ThreadsAreSound
  <2>2. CASE b = a
    BY <1>1, <1>2, <2>1, <2>2 DEF JobOf
  <2>3. CASE b # a
    BY <1>1, <1>2, <2>1, <2>3 DEF JobOf, Runs
  <2> QED  BY <2>2, <2>3
<1>6. LocksAreHeld'
  <2>1. ASSUME NEW q \in Procs, lock'[q] # Free
        PROVE  ProcOf(lock'[q]) = q /\ at'[lock'[q]] \in Holding
    <3>1. q # p /\ lock[q] \in Actors /\ ProcOf(lock[q]) = q /\ at[lock[q]] \in Holding
      BY <1>2, <2>1 DEF Shape, LocksAreHeld, Types
    <3> QED  BY <1>2, <3>1 DEF p
  <2>2. ASSUME NEW b \in Actors, at'[b] \in Holding PROVE lock'[ProcOf(b)] = b
    <3>1. b # a /\ at[b] \in Holding
      BY <1>2, <2>2 DEF Holding
    <3> QED  BY <1>h, <1>2, <3>1, ProcFacts DEF Shape, LocksAreHeld
  <2> QED  BY <2>1, <2>2 DEF LocksAreHeld
<1>7. LinksAreWhole' /\ IngestIsSound'
  BY <1>1 DEF Shape, LinksAreWhole, IngestIsSound
<1>8. \A b \in Actors : ConnectionOf(b)'
  <2> TAKE b \in Actors
  <2>1. ConnectionOf(b)
    BY DEF Shape
  <2>2. CASE b = a
    BY <1>2, <2>2 DEF ConnectionOf
  <2>3. CASE b # a
    BY <1>1, <1>2, <2>1, <2>3 DEF ConnectionOf
  <2> QED  BY <2>2, <2>3
<1> QED  BY <1>3, <1>4, <1>5, <1>6, <1>7, <1>8 DEF Shape

-----------------------------------------------------------------------------
(* The ingest.                                                             *)

\* It moves on along a connection that it has: whoever is in rasp_emit may go on,
\* because the connection is not dead for that.
LEMMA LinkStepKeepsShape ==
  ASSUME Shape, NEW p \in Procs, NEW m \in Link, link' = [link EXCEPT ![p] = m],
         link[p].server \in {"backlog", "open"}, m.client = link[p].client,
         m.server # "dead", Len(m.buf) <= Capacity,
         m.server = "none" => m.buf = <<>> /\ ~m.client,
         UNCHANGED <<alive, serving, ctx, at, job, lock, sock, ingest, stderr, lost, killed, taken, sent>>,
         handled' \in Seq(Verdict), skipped' \subseteq 1 .. sent
  PROVE  Shape'
<1>1. link'[p] = m /\ \A q \in Procs \ {p} : link'[q] = link[q]
  BY DEF Shape, Types
<1>2. Types'
  BY DEF Shape, Types
<1>3. Bounded' /\ LocksAreHeld' /\ IngestIsSound'
  BY DEF Shape, Bounded, Waiting, LocksAreHeld, IngestIsSound
<1>4. ThreadsAreSound'
  BY DEF Shape, ThreadsAreSound, JobOf, Runs
<1>5. LinksAreWhole'
  <2>1. LinksAreWhole
    BY DEF Shape
  <2> QED  BY <1>1, <2>1 DEF LinksAreWhole
<1>6. ASSUME NEW a \in Actors PROVE ConnectionOf(a)'
  <2>1. ConnectionOf(a) /\ ProcOf(a) \in Procs
    BY ProcFacts DEF Shape
  <2>2. link'[ProcOf(a)].server = "dead" => link[ProcOf(a)].server = "dead"
    BY <1>1, <2>1
  <2> QED  BY <2>1, <2>2 DEF ConnectionOf
<1> QED  BY <1>2, <1>3, <1>4, <1>5, <1>6 DEF Shape

LEMMA AcceptKeepsShape ==
  ASSUME Shape, NEW p \in Procs, Accept(p)
  PROVE  Shape' /\ Quiet
<1> DEFINE m == [link[p] EXCEPT !.server = "open"]
<1>1. /\ UNCHANGED <<alive, serving, ctx, at, job, lock, sock, ingest, outcomes, taken, sent>>
      /\ link[p].server = "backlog" /\ link' = [link EXCEPT ![p] = m]
  BY DEF Accept, threadVars
<1>2. link[p] \in Link /\ LinksAreWhole
  BY DEF Shape, Types
<1>3. m \in Link /\ m.server = "open" /\ m.client = link[p].client /\ m.buf = link[p].buf
  BY <1>2, LinkForms
<1> HIDE DEF m
<1>4. Len(m.buf) <= Capacity
  BY <1>2, <1>3 DEF LinksAreWhole
<1>5. handled' \in Seq(Verdict) /\ skipped' \subseteq 1 .. sent /\ UNCHANGED <<handled, skipped, stderr, lost, killed>>
  BY <1>1 DEF Shape, Types, outcomes
<1>6. Shape'
  BY <1>1, <1>3, <1>4, <1>5, LinkStepKeepsShape
<1>7. Quiet
  BY <1>1, <1>3, <1>5 DEF Quiet, Shape, Types
<1> QED  BY <1>6, <1>7

\* handleRASPConn takes the first line, and hands its verdict on or skips it.
Taken(v) ==
  \/ handled' = Append(handled, v) /\ skipped' = skipped
  \/ handled' = handled /\ skipped' = skipped \cup {v.id}

LEMMA HandleLineKeepsShape ==
  ASSUME Shape, Stream, NEW p \in Procs, HandleLine(p)
  PROVE  /\ Shape'
         /\ link[p].buf \in Seq(Verdict) /\ link[p].buf # <<>> /\ handled \in Seq(Verdict)
         /\ Taken(Head(link[p].buf))
         /\ link'[p].buf = Tail(link[p].buf)
         /\ \A q \in Procs \ {p} : link'[q] = link[q]
         /\ UNCHANGED <<at, job, stderr, lost, killed, taken, sent>>
<1> DEFINE rest == Tail(link[p].buf)
           v == Head(link[p].buf)
           m == [link[p] EXCEPT !.buf = rest]
<1>1. /\ UNCHANGED <<alive, serving, ctx, at, job, lock, sock, ingest, stderr, lost, killed, taken, sent>>
      /\ link[p].server = "open" /\ link[p].buf # <<>>
      /\ Taken(v)
      /\ link' = [link EXCEPT ![p] = m]
  BY DEF HandleLine, Taken, threadVars
<1>2. link[p] \in Link /\ LinksAreWhole /\ handled \in Seq(Verdict) /\ link \in [Procs -> Link]
  BY DEF Shape, Types
<1>3. link[p].buf \in Seq(Verdict) /\ Capacity \in Nat
  BY <1>2, RaspConstants DEF Link, RaspAssumption
<1>4. /\ rest \in Seq(Verdict) /\ Len(rest) = Len(link[p].buf) - 1 /\ Len(link[p].buf) \in Nat
      /\ v \in Verdict /\ v \in Elems(link[p].buf)
  BY <1>1, <1>3, TailElems
<1> HIDE DEF rest, v
<1>5. m \in Link /\ m.server = "open" /\ m.client = link[p].client /\ m.buf = rest
  BY <1>1, <1>2, <1>4 DEF Link
<1> HIDE DEF m
<1>6. Len(m.buf) <= Capacity
  <2>1. Len(link[p].buf) <= Capacity
    BY <1>2 DEF LinksAreWhole
  <2> QED  BY <1>3, <1>4, <1>5, <2>1
<1>7. handled' \in Seq(Verdict) /\ skipped' \subseteq 1 .. sent
  <2>1. Append(handled, v) \in Seq(Verdict)
    BY <1>2, <1>4, AppendElems
  <2>2. v.id \in 1 .. sent
    BY <1>4 DEF Stream, VerdictsInOnePlace, Written
  <2>3. skipped \subseteq 1 .. sent
    BY DEF Shape, Types
  <2> QED  BY <1>1, <1>2, <2>1, <2>2, <2>3 DEF Taken
<1>8. Shape'
  BY <1>1, <1>5, <1>6, <1>7, LinkStepKeepsShape
<1>9. link'[p].buf = rest /\ \A q \in Procs \ {p} : link'[q] = link[q]
  BY <1>1, <1>2, <1>5
<1> QED  BY <1>1, <1>2, <1>3, <1>8, <1>9 DEF rest, v

LEMMA HandleEndKeepsShape ==
  ASSUME Shape, NEW p \in Procs, HandleEnd(p)
  PROVE  Shape' /\ Quiet
<1>1. /\ UNCHANGED <<alive, serving, ctx, at, job, lock, sock, ingest, outcomes, taken, sent>>
      /\ link[p].server = "open" /\ link[p].buf = <<>> /\ ~link[p].client
      /\ link' = [link EXCEPT ![p] = Unlinked]
  BY DEF HandleEnd, threadVars
<1>2. link[p] \in Link /\ LinksAreWhole /\ link \in [Procs -> Link]
  BY DEF Shape, Types
<1>3. /\ Unlinked \in Link /\ Unlinked.server = "none" /\ Unlinked.client = FALSE /\ Unlinked.buf = <<>>
      /\ Len(Unlinked.buf) <= Capacity /\ Unlinked.client = link[p].client
  <2>1. /\ Unlinked \in Link /\ Unlinked.server = "none" /\ Unlinked.client = FALSE /\ Unlinked.buf = <<>>
    BY <1>2, LinkForms
  <2>2. Capacity \in Nat /\ Len(<<>>) = 0
    BY NoElems, RaspConstants DEF RaspAssumption
  <2>3. link[p].client = FALSE
    BY <1>1, <1>2 DEF Link
  <2>4. Len(Unlinked.buf) <= Capacity
    BY <2>1, <2>2
  <2>5. Unlinked.client = link[p].client
    BY <2>1, <2>3
  <2> QED  BY <2>1, <2>4, <2>5
<1>4. handled' \in Seq(Verdict) /\ skipped' \subseteq 1 .. sent /\ UNCHANGED <<handled, skipped, stderr, lost, killed>>
  BY <1>1 DEF Shape, Types, outcomes
<1>5. Shape'
  BY <1>1, <1>3, <1>4, LinkStepKeepsShape
<1>6. Quiet
  BY <1>1, <1>2, <1>3, <1>4 DEF Quiet
<1> QED  BY <1>5, <1>6

\* The accept loop ends, or the process starts: no connection changes.
LEMMA IngestTurnsKeepShape ==
  ASSUME Shape, AcceptFails \/ StartRASPIngest
  PROVE  Shape' /\ Quiet
<1>1. UNCHANGED <<alive, serving, ctx, at, job, lock, sock, link, outcomes, taken, sent>>
  BY DEF AcceptFails, StartRASPIngest, threadVars
<1>2. /\ ingest' \in [up : BOOLEAN, listening : BOOLEAN, accepting : BOOLEAN]
      /\ IngestIsSound' /\ (ingest.listening => ingest'.listening)
  <2>1. ingest \in [up : BOOLEAN, listening : BOOLEAN, accepting : BOOLEAN] /\ IngestIsSound
    BY DEF Shape, Types
  <2>2. CASE AcceptFails
    <3>1. ingest' = [ingest EXCEPT !.accepting = FALSE]
      BY <2>2 DEF AcceptFails
    <3> QED  BY <2>1, <3>1 DEF IngestIsSound
  <2>3. CASE StartRASPIngest
    <3>1. /\ Listening \in [up : BOOLEAN, listening : BOOLEAN, accepting : BOOLEAN]
          /\ Listening.up /\ Listening.listening /\ Listening.accepting
      BY DEF Listening
    <3>2. ingest' = Listening
      BY <2>3 DEF StartRASPIngest
    <3> QED  BY <3>1, <3>2 DEF IngestIsSound
  <2> QED  BY <2>2, <2>3
<1>3. Types'
  BY <1>1, <1>2 DEF Shape, Types, outcomes
<1>4. Bounded' /\ LocksAreHeld' /\ LinksAreWhole'
  BY <1>1 DEF Shape, Bounded, Waiting, LocksAreHeld, LinksAreWhole
<1>5. ThreadsAreSound'
  BY <1>1 DEF Shape, ThreadsAreSound, JobOf, Runs
<1>6. \A a \in Actors : ConnectionOf(a)'
  BY <1>1, <1>2 DEF Shape, ConnectionOf
<1>7. Quiet
  BY <1>1 DEF Quiet, outcomes
<1> QED  BY <1>2, <1>3, <1>4, <1>5, <1>6, <1>7 DEF Shape

\* The ingest drops the connections D: what they hold is lost, and every thread
\* in rasp_emit has seen it away.
Drops(D) ==
  /\ D \subseteq Procs /\ \A p \in D : link[p].server \in {"backlog", "open"}
  /\ link' = [p \in Procs |-> IF p \in D THEN Dropped(link[p]) ELSE link[p]]
  /\ lost' = lost \cup UNION {InBuffer(link[p]) : p \in D}
  /\ job' = [a \in Actors |-> IF at[a] = "idle" THEN job[a] ELSE [job[a] EXCEPT !.calm = FALSE]]
  /\ UNCHANGED <<alive, serving, ctx, at, lock, sock, handled, skipped, stderr, killed, taken, sent>>

IngestAway ==
  /\ ingest' \in [up : BOOLEAN, listening : BOOLEAN, accepting : BOOLEAN]
  /\ ~ingest'.listening /\ IngestIsSound'

\* CloseListener and IngestDies are such steps: where there is no reader there is
\* nothing in the socket.
LEMMA DropSteps ==
  ASSUME Shape, CloseListener \/ IngestDies
  PROVE  IngestAway /\ \E D : Drops(D)
<1>0. ingest \in [up : BOOLEAN, listening : BOOLEAN, accepting : BOOLEAN] /\ link \in [Procs -> Link]
  BY DEF Shape, Types
<1>1. CASE CloseListener
  <2>1. ingest' = [ingest EXCEPT !.listening = FALSE] /\ ~ingest.accepting
    BY <1>1 DEF CloseListener
  <2>2. IngestAway
    BY <1>0, <2>1 DEF IngestAway, IngestIsSound
  <2>3. Drops({p \in Procs : link[p].server = "backlog"})
    BY <1>1, Zenon DEF CloseListener, Drops, threadVars
  <2> QED  BY <2>2, <2>3
<1>2. CASE IngestDies
  <2>1. ingest' = Down
    BY <1>2 DEF IngestDies
  <2>2. /\ Down \in [up : BOOLEAN, listening : BOOLEAN, accepting : BOOLEAN]
        /\ Down.listening = FALSE /\ Down.accepting = FALSE /\ Down.up = FALSE
    BY DEF Down
  <2>3. IngestAway
    BY <2>1, <2>2 DEF IngestAway, IngestIsSound
  <2> DEFINE D == {p \in Procs : link[p].server \in {"backlog", "open"}}
  <2>4. UNION {InBuffer(link[p]) : p \in Procs} = UNION {InBuffer(link[p]) : p \in D}
    <3>1. \A p \in Procs \ D : link[p].buf = <<>>
      BY <1>0 DEF Shape, LinksAreWhole, Link
    <3>2. \A p \in Procs \ D : InBuffer(link[p]) = {}
      BY <3>1, NoElems DEF InBuffer
    <3> QED  BY <3>2
  <2>5. link' = [p \in Procs |-> IF p \in D THEN Dropped(link[p]) ELSE link[p]]
    BY <1>2 DEF IngestDies
  <2>6. /\ lost' = lost \cup UNION {InBuffer(link[p]) : p \in D}
        /\ job' = [a \in Actors |-> IF at[a] = "idle" THEN job[a] ELSE [job[a] EXCEPT !.calm = FALSE]]
        /\ UNCHANGED <<alive, serving, ctx, at, lock, sock, handled, skipped, stderr, killed, taken, sent>>
    BY <1>2, <2>4 DEF IngestDies, threadVars
  <2>7. Drops(D)
    BY <2>5, <2>6 DEF Drops
  <2>8. \E S : Drops(S)
    BY <2>7, Zenon
  <2> QED  BY <2>3, <2>8
<1> QED  BY <1>1, <1>2

\* What InBuffer gives up is what was in the sockets.
LEMMA InBufferIs ==
  ASSUME NEW l
  PROVE  InBuffer(l) = {x.id : x \in Elems(l.buf)}
  BY DEF InBuffer, Elems

\* What a drop makes of the threads and of the connections.
LEMMA DropFacts ==
  ASSUME Shape, NEW D, Drops(D)
  PROVE  /\ \A p \in D : /\ link'[p] \in Link /\ link'[p].client = link[p].client /\ link'[p].buf = <<>>
                         /\ link'[p].server = IF link[p].client THEN "dead" ELSE "none"
         /\ \A p \in Procs \ D : link'[p] = link[p]
         /\ \A a \in Actors : at[a] = "idle" => job'[a] = job[a]
         /\ \A a \in Actors : at[a] # "idle" =>
              /\ job'[a] \in Verdict /\ job'[a].calm = FALSE
              /\ job'[a].id = job[a].id /\ job'[a].by = job[a].by /\ job'[a].req = job[a].req
              /\ job'[a].effect = job[a].effect /\ job'[a].try = job[a].try
<1>0. link \in [Procs -> Link] /\ D \subseteq Procs
  BY DEF Shape, Types, Drops
<1>1. ASSUME NEW p \in D
      PROVE  /\ link'[p] \in Link /\ link'[p].client = link[p].client /\ link'[p].buf = <<>>
             /\ link'[p].server = IF link[p].client THEN "dead" ELSE "none"
  <2>1. link[p] \in Link /\ link'[p] = Dropped(link[p])
    BY <1>0 DEF Drops
  <2>2. LET m == Dropped(link[p])
        IN  /\ m \in Link /\ m.client = link[p].client /\ m.buf = <<>>
            /\ m.server = IF link[p].client THEN "dead" ELSE "none"
    BY <2>1, LinkForms, Zenon
  <2> QED  BY <2>1, <2>2
<1>2. \A p \in Procs \ D : link'[p] = link[p]
  BY DEF Drops
<1>3. \A a \in Actors : at[a] = "idle" => job'[a] = job[a]
  BY DEF Drops
<1>4. ASSUME NEW a \in Actors, at[a] # "idle"
      PROVE  /\ job'[a] \in Verdict /\ job'[a].calm = FALSE
             /\ job'[a].id = job[a].id /\ job'[a].by = job[a].by /\ job'[a].req = job[a].req
             /\ job'[a].effect = job[a].effect /\ job'[a].try = job[a].try
  <2>1. job'[a] = [job[a] EXCEPT !.calm = FALSE]
    BY <1>4 DEF Drops
  <2>2. job[a] \in Verdict
    BY <1>4 DEF Shape, ThreadsAreSound, JobOf
  <2> QED  BY <2>1, <2>2 DEF Verdict
<1> QED  BY <1>1, <1>2, <1>3, <1>4

LEMMA DropsKeepShape ==
  ASSUME Shape, Stream, NEW D, Drops(D), IngestAway
  PROVE  Shape'
<1>d. D \subseteq Procs /\ UNCHANGED <<alive, serving, ctx, at, lock, sock, handled, skipped, stderr, killed, taken, sent>>
  BY DEF Drops
<1>1. Types'
  <2>1. link' \in [Procs -> Link]
    <3>1. \A p \in Procs : link'[p] \in Link
      BY DropFacts DEF Shape, Types
    <3> QED  BY <3>1 DEF Drops
  <2>2. job' \in [Actors -> Verdict \cup {NoJob}]
    <3>1. \A a \in Actors : job'[a] \in Verdict \cup {NoJob}
      BY DropFacts DEF Shape, Types
    <3> QED  BY <3>1 DEF Drops
  <2>3. lost' \subseteq 1 .. sent
    <3>1. \A p \in D : Elems(link[p].buf) \subseteq Written
      BY <1>d DEF Written
    <3>2. \A p \in D : InBuffer(link[p]) \subseteq 1 .. sent
      BY <3>1, InBufferIs DEF Stream, VerdictsInOnePlace
    <3>3. lost \subseteq 1 .. sent
      BY DEF Shape, Types
    <3> QED  BY <3>2, <3>3 DEF Drops
  <2> QED  BY <1>d, <2>1, <2>2, <2>3 DEF Shape, Types, IngestAway
<1>2. Bounded' /\ LocksAreHeld' /\ IngestIsSound'
  BY <1>d DEF Shape, Bounded, Waiting, LocksAreHeld, IngestAway
<1>3. ThreadsAreSound'
  <2> SUFFICES ASSUME NEW a \in Actors
               PROVE  JobOf(a)' /\ ctx'[a] \in {serving'[a], NoRequest}
    BY DEF ThreadsAreSound
  <2>1. JobOf(a) /\ ctx[a] \in {serving[a], NoRequest}
    BY DEF Shape, ThreadsAreSound
  <2> QED  BY <1>d, <2>1, DropFacts DEF JobOf, Runs
<1>4. LinksAreWhole'
  <2> SUFFICES ASSUME NEW p \in Procs
               PROVE  /\ link'[p].client = sock'[p]
                      /\ Len(link'[p].buf) <= Capacity
                      /\ link'[p].server \in {"none", "dead"} => link'[p].buf = <<>>
                      /\ link'[p].server = "none" => ~link'[p].client
                      /\ link'[p].server = "dead" => link'[p].client
                      /\ (p = Backend \/ p \in alive') /\ ~sock'[p] => link'[p].server = "none"
    BY DEF LinksAreWhole
  <2>1. LinksAreWhole /\ link[p] \in Link
    BY DEF Shape, Types
  <2>2. CASE p \in D
    <3>1. /\ link'[p].client = link[p].client /\ link'[p].buf = <<>>
          /\ link'[p].server = IF link[p].client THEN "dead" ELSE "none"
      BY <2>2, DropFacts
    <3>2. Len(link'[p].buf) <= Capacity
      <4>1. Capacity \in Nat /\ Len(<<>>) = 0
        BY NoElems, RaspConstants DEF RaspAssumption
      <4> QED  BY <3>1, <4>1
    <3>3. link'[p].client = sock'[p] /\ link[p].client = sock[p] /\ sock'[p] = sock[p]
      BY <1>d, <2>1, <3>1 DEF LinksAreWhole
    <3> QED  BY <3>1, <3>2, <3>3
  <2>3. CASE p \notin D
    <3>1. link'[p] = link[p]
      BY <2>3, DropFacts
    <3> QED  BY <1>d, <2>1, <3>1 DEF LinksAreWhole
  <2> QED  BY <2>2, <2>3
<1>5. ASSUME NEW a \in Actors PROVE ConnectionOf(a)'
  <2>1. ConnectionOf(a)
    BY DEF Shape
  <2>2. CASE at[a] = "idle"
    BY <1>d, <2>2 DEF ConnectionOf
  <2>3. CASE at[a] # "idle"
    <3>1. job'[a].calm = FALSE /\ job'[a].try = job[a].try
      BY <2>3, DropFacts
    <3> QED  BY <1>d, <2>1, <2>3, <3>1 DEF ConnectionOf
  <2> QED  BY <2>2, <2>3
<1> QED  BY <1>1, <1>2, <1>3, <1>4, <1>5 DEF Shape

-----------------------------------------------------------------------------
(* The stream of verdicts, action by action.                               *)

LEMMA InitHasStream == RaspInit => Stream
<1> SUFFICES ASSUME RaspInit PROVE Stream
  OBVIOUS
<1>1. Unlinked.buf = <<>>
  BY DEF Unlinked
<1>2. \A p \in Procs : link[p].buf = <<>>
  BY <1>1 DEF RaspInit
<1>3. Written = {} /\ handled = <<>>
  BY <1>2, NoElems DEF RaspInit, Written
<1>4. \A a \in Actors : at[a] = "idle"
  BY DEF RaspInit
<1>5. VerdictsInOnePlace
  BY <1>3, <1>4 DEF RaspInit, VerdictsInOnePlace, Holding
<1>6. StreamsInOrder
  BY <1>2, <1>3, <1>4, NoElems DEF StreamsInOrder, Sending
<1>7. EffectsFollowVerdicts
  BY <1>3, <1>4 DEF RaspInit, EffectsFollowVerdicts, Holding
<1> QED  BY <1>5, <1>6, <1>7 DEF Stream

LEMMA WrittenIs ==
  \A x : x \in Written <=> x \in Elems(handled) \/ \E p \in Procs : x \in Elems(link[p].buf)
BY DEF Written

LEMMA WrittenIsNext ==
  \A x : x \in Written' <=> x \in Elems(handled') \/ \E p \in Procs : x \in Elems(link'[p].buf)
BY DEF Written

\* A new number is with the thread that took it, and above all others.
LEMMA LockKeepsStream ==
  ASSUME Shape, Stream, NEW a \in Actors, Lock(a)
  PROVE  Stream'
<1> DEFINE p == ProcOf(a)
<1>1. /\ UNCHANGED <<link, handled, skipped, stderr, lost, killed, taken>>
      /\ at[a] = "lock" /\ lock[p] = Free /\ sent' = sent + 1
      /\ at' = [at EXCEPT ![a] = "connect"]
      /\ job' = [job EXCEPT ![a] = [job[a] EXCEPT !.id = sent + 1]]
  BY DEF Lock, outcomes
<1>t. /\ sent \in Nat /\ skipped \subseteq 1 .. sent /\ stderr \subseteq 1 .. sent /\ lost \subseteq 1 .. sent
      /\ killed \subseteq 1 .. sent /\ taken \subseteq 1 .. sent
      /\ job[a] \in Verdict
  BY <1>1 DEF Shape, Types, ThreadsAreSound, JobOf
<1>2. /\ at'[a] = "connect" /\ job'[a].id = sent + 1 /\ job'[a].by = job[a].by
      /\ \A b \in Actors \ {a} : at'[b] = at[b] /\ job'[b] = job[b]
  BY <1>1, <1>t DEF Shape, Types, Verdict
<1>3. Written' = Written /\ \A x \in Written : x.id \in 1 .. sent
  BY <1>1 DEF Written, Stream, VerdictsInOnePlace
<1>4. \A b \in Actors : at[b] \in Holding => job[b].id \in 1 .. sent
  BY DEF Shape, ThreadsAreSound, JobOf, Holding
<1>5. ASSUME NEW i \in 1 .. sent PROVE Places(i)' = Places(i)
  <2>1. i # sent + 1
    BY <1>t
  <2>2. AtThreads(i)' = AtThreads(i)
    BY <1>1, <1>2, <2>1 DEF AtThreads
  <2>3. InSockets(i)' = InSockets(i) /\ AtIngest(i)' = AtIngest(i) /\ Aside(i)' = Aside(i)
    BY <1>1 DEF InSockets, AtIngest, Aside
  <2> QED  BY <2>2, <2>3 DEF Places
<1>6. ASSUME NEW n, n = sent + 1 PROVE Places(n)' = {<<"thread", a>>}
  <2>0. n \notin 1 .. sent
    BY <1>6, <1>t
  <2>1. PlacesAre(n)'
    BY PlaceKindsNext
  <2>2. <<"thread", a>> \in Places(n)'
    BY <1>2, <1>6, <2>1 DEF PlacesAre, Sending
  <2>3. ASSUME NEW x \in Places(n)' PROVE x = <<"thread", a>>
    <3>1. ASSUME NEW b \in Actors, x = <<"thread", b>> PROVE b = a
      <4>1. at'[b] \in Sending /\ job'[b].id = n
        BY <2>1, <3>1 DEF PlacesAre
      <4> QED  BY <1>2, <1>4, <2>0, <4>1 DEF Sending, Holding
    <3>2. ASSUME NEW q \in Procs, NEW k \in DOMAIN link[q].buf, x = <<"socket", q, k>> PROVE FALSE
      <4>1. link[q].buf[k].id = n /\ link[q].buf[k] \in Written
        BY <1>1, <2>1, <3>2 DEF PlacesAre, Written, Elems
      <4> QED  BY <1>3, <2>0, <4>1
    <3>3. ASSUME NEW k \in DOMAIN handled, x = <<"handled", k>> PROVE FALSE
      <4>1. handled[k].id = n /\ handled[k] \in Written
        BY <1>1, <2>1, <3>3 DEF PlacesAre, Written, Elems
      <4> QED  BY <1>3, <2>0, <4>1
    <3>4. x \notin {<<"skipped">>, <<"stderr">>, <<"lost">>, <<"killed">>}
      BY <1>1, <1>t, <2>0, <2>1 DEF PlacesAre
    <3> QED  BY <1>1, <2>1, <3>1, <3>2, <3>3, <3>4 DEF PlacesAre
  <2> QED  BY <2>2, <2>3
<1>7. VerdictsInOnePlace'
  <2>1. \A i \in 1 .. sent' : \E x : Places(i)' = {x}
    <3>1. \A i \in 1 .. sent' : i \in 1 .. sent \/ i = sent + 1
      BY <1>1, <1>t
    <3>2. \A i \in 1 .. sent : \E x : Places(i) = {x}
      BY DEF Stream, VerdictsInOnePlace
    <3> QED  BY <1>5, <1>6, <3>1, <3>2
  <2>2. \A x \in Written' : x.id \in 1 .. sent'
    BY <1>1, <1>3, <1>t
  <2>3. \A b, c \in Actors : b # c /\ at'[b] \in Holding /\ at'[c] \in Holding => job'[b].id # job'[c].id
    BY <1>2, <1>4, <1>t DEF Stream, VerdictsInOnePlace
  <2> QED  BY <2>1, <2>2, <2>3 DEF VerdictsInOnePlace
<1>8. StreamsInOrder'
  <2>1. \A x \in Written : x.id < sent + 1
    BY <1>3, <1>t
  <2>2. ASSUME NEW b \in Actors, at'[b] \in Sending, NEW x \in Written, x.by = job'[b].by
        PROVE  x.id < job'[b].id
    <3>1. CASE b = a
      BY <1>2, <2>1, <3>1
    <3>2. CASE b # a
      BY <1>2, <2>2, <3>2 DEF Stream, StreamsInOrder
    <3> QED  BY <3>1, <3>2
  <2> QED  BY <1>1, <1>3, <2>2 DEF Stream, StreamsInOrder, Grows
<1>9. EffectsFollowVerdicts'
  <2>1. \A b \in Actors : at'[b] \in Holding => job'[b].id \notin taken \cup killed
    BY <1>2, <1>t DEF Stream, EffectsFollowVerdicts
  <2> QED  BY <1>1, <1>2, <1>3, <2>1 DEF Stream, EffectsFollowVerdicts
<1> QED  BY <1>7, <1>8, <1>9 DEF Stream

\* The verdict goes from its thread to the end of the socket's queue.
LEMMA WriteKeepsStream ==
  ASSUME Shape, Stream, NEW a \in Actors, Write(a)
  PROVE  Stream'
<1> DEFINE v == job[a]
           p == ProcOf(a)
           old == link[p].buf
<1>1. /\ UNCHANGED <<job, handled, skipped, stderr, lost, killed, taken, sent>>
      /\ at[a] = "send" /\ at' = [at EXCEPT ![a] = "unlock"]
  BY DEF Write, outcomes
<1>2. /\ link'[p].buf = Append(old, v)
      /\ \A q \in Procs \ {p} : link'[q] = link[q]
  BY WriteKeepsShape
<1>h. /\ p \in Procs /\ old \in Seq(Verdict) /\ v \in Verdict /\ v.by = p /\ v.id \in 1 .. sent
      /\ \A b \in Actors \ {a} : at[b] \in Holding => ProcOf(b) # p
  BY <1>1, HolderIsAlone DEF Holding, Link
<1>3. at'[a] = "unlock" /\ \A b \in Actors \ {a} : at'[b] = at[b]
  BY <1>1 DEF Shape, Types
<1> HIDE DEF v, p, old
<1>4. /\ DOMAIN link'[p].buf = DOMAIN old \cup {Len(old) + 1} /\ DOMAIN old = 1 .. Len(old) /\ Len(old) \in Nat
      /\ link'[p].buf[Len(old) + 1] = v
      /\ \A k \in DOMAIN old : link'[p].buf[k] = old[k]
      /\ Elems(link'[p].buf) = Elems(old) \cup {v}
  BY <1>2, <1>h, AppendElems
<1>5. Written' = Written \cup {v} /\ Elems(old) \subseteq Written
  <2>1. Elems(link[p].buf) = Elems(old) /\ \A q \in Procs \ {p} : Elems(link'[q].buf) = Elems(link[q].buf)
    BY <1>2 DEF old
  <2>2. \A x : x \in Written' <=> x \in Written \/ x = v
    BY <1>1, <1>4, <1>h, <2>1, WrittenIs, WrittenIsNext
  <2>3. Elems(old) \subseteq Written
    BY <1>h, <2>1, WrittenIs
  <2> QED  BY <2>2, <2>3
<1>s. /\ \A x \in Written : x.id \in 1 .. sent /\ (x.by = p => x.id < v.id)
      /\ at[a] \in Sending /\ at[a] \in Holding /\ v.id \notin taken
      /\ \A b \in Actors \ {a} : at[b] \in Holding => job[b].id # v.id
  <2>1. at[a] \in Sending /\ at[a] \in Holding
    BY <1>1 DEF Sending, Holding
  <2> QED  BY <1>h, <2>1 DEF Stream, VerdictsInOnePlace, StreamsInOrder, EffectsFollowVerdicts, v
<1>6. ASSUME NEW i, i # v.id PROVE Places(i)' = Places(i)
  <2>1. AtThreads(i)' = AtThreads(i)
    BY <1>1, <1>3, <1>6 DEF AtThreads, v
  <2>2. ASSUME NEW q \in Procs
        PROVE  {k \in DOMAIN link'[q].buf : link'[q].buf[k].id = i} = {k \in DOMAIN link[q].buf : link[q].buf[k].id = i}
    <3>1. CASE q = p
      BY <1>4, <1>6, <3>1 DEF old
    <3>2. CASE q # p
      BY <1>2, <3>2
    <3> QED  BY <3>1, <3>2
  <2>3. InSockets(i)' = InSockets(i)
    BY <2>2 DEF InSockets
  <2>4. AtIngest(i)' = AtIngest(i) /\ Aside(i)' = Aside(i)
    BY <1>1 DEF AtIngest, Aside
  <2> QED  BY <2>1, <2>3, <2>4 DEF Places
<1>7. ASSUME NEW i, i = v.id PROVE Places(i)' = {<<"socket", p, Len(old) + 1>>}
  <2>1. PlacesAre(i) /\ PlacesAre(i)'
    BY PlaceKinds, PlaceKindsNext
  <2>2. Places(i) = {<<"thread", a>>}
    <3>1. <<"thread", a>> \in Places(i)
      BY <1>7, <1>s, <2>1 DEF PlacesAre, v
    <3>2. \E x : Places(i) = {x}
      BY <1>7, <1>h DEF Stream, VerdictsInOnePlace
    <3> QED  BY <3>1, <3>2
  <2>f. \A q \in Procs : \A k \in DOMAIN link[q].buf : link[q].buf[k].id # i
    BY <2>1, <2>2, PlacesDiffer DEF PlacesAre
  <2>3. ASSUME NEW m, m = Len(old) + 1 PROVE Places(i)' = {<<"socket", p, m>>}
    <3>1. <<"socket", p, m>> \in Places(i)'
      BY <1>4, <1>7, <1>h, <2>1, <2>3 DEF PlacesAre
    <3>2. ASSUME NEW x \in Places(i)' PROVE x = <<"socket", p, m>>
      <4>1. ASSUME NEW b \in Actors, x = <<"thread", b>> PROVE FALSE
        <5>1. at'[b] \in Sending /\ job[b].id = i
          BY <1>1, <2>1, <4>1 DEF PlacesAre
        <5>2. b # a
          BY <1>3, <5>1 DEF Sending
        <5> QED  BY <1>3, <1>7, <1>s, <5>1, <5>2 DEF Sending, Holding
      <4>2. ASSUME NEW q \in Procs, NEW k \in DOMAIN link'[q].buf, x = <<"socket", q, k>> PROVE q = p /\ k = m
        <5>1. link'[q].buf[k].id = i
          BY <2>1, <4>2 DEF PlacesAre
        <5>2. CASE q = p
          BY <1>4, <2>3, <2>f, <4>2, <5>1, <5>2 DEF old
        <5>3. CASE q # p
          BY <1>2, <2>f, <4>2, <5>1, <5>3
        <5> QED  BY <5>2, <5>3
      <4>3. ASSUME NEW k, x = <<"handled", k>> PROVE FALSE
        BY <1>1, <2>1, <2>2, <4>3, PlacesDiffer DEF PlacesAre
      <4>4. x \notin {<<"skipped">>, <<"stderr">>, <<"lost">>, <<"killed">>}
        BY <1>1, <2>1, <2>2, PlacesDiffer DEF PlacesAre
      <4> QED  BY <2>1, <4>1, <4>2, <4>3, <4>4 DEF PlacesAre
    <3> QED  BY <3>1, <3>2
  <2> QED  BY <2>3
<1>8. VerdictsInOnePlace'
  <2>1. ASSUME NEW i \in 1 .. sent' PROVE \E x : Places(i)' = {x}
    <3>1. \E x : Places(i) = {x}
      BY <1>1 DEF Stream, VerdictsInOnePlace
    <3> QED  BY <1>6, <1>7, <3>1
  <2>2. \A x \in Written' : x.id \in 1 .. sent'
    BY <1>1, <1>5, <1>h, <1>s
  <2>3. \A b \in Actors : at'[b] \in Holding => at[b] \in Holding
    BY <1>3, <1>s
  <2>4. \A b, c \in Actors : b # c /\ at'[b] \in Holding /\ at'[c] \in Holding => job'[b].id # job'[c].id
    BY <1>1, <2>3 DEF Stream, VerdictsInOnePlace
  <2> QED  BY <2>1, <2>2, <2>4 DEF VerdictsInOnePlace
<1>9. StreamsInOrder'
  <2>0. StreamsInOrder
    BY DEF Stream
  <2>1. Grows(link'[p].buf)
    <3>1. Grows(old) /\ \A k \in DOMAIN old : old[k] \in Written /\ old[k].by = p
      BY <1>5, <1>h, <2>0 DEF StreamsInOrder, Elems, old
    <3>2. \A k \in DOMAIN old : old[k].id < v.id
      BY <1>s, <3>1
    <3> QED  BY <1>4, <3>1, <3>2 DEF Grows
  <2>2. ASSUME NEW q \in Procs
        PROVE  /\ Grows(link'[q].buf)
               /\ \A y \in Elems(link'[q].buf) :
                    /\ y.by = q
                    /\ \A x \in Elems(handled) : x.by = q => x.id < y.id
    <3>1. CASE q = p
      <4>1. ASSUME NEW y \in Elems(old) PROVE y.by = p /\ \A x \in Elems(handled) : x.by = p => x.id < y.id
        BY <1>h, <2>0 DEF StreamsInOrder, old
      <4>2. \A x \in Elems(handled) : x.by = p => x.id < v.id
        BY <1>s DEF Written
      <4> QED  BY <1>4, <1>h, <2>1, <3>1, <4>1, <4>2
    <3>2. CASE q # p
      BY <1>2, <2>0, <3>2 DEF StreamsInOrder
    <3> QED  BY <3>1, <3>2
  <2>3. ASSUME NEW b \in Actors, at'[b] \in Sending, NEW x \in Written', x.by = job'[b].by PROVE x.id < job'[b].id
    <3>1. b # a /\ at[b] \in Sending
      BY <1>3, <2>3 DEF Sending
    <3>2. CASE x \in Written
      BY <1>1, <2>0, <2>3, <3>1, <3>2 DEF StreamsInOrder
    <3>3. CASE x = v
      <4>1. at[b] \in Holding
        BY <3>1 DEF Sending, Holding
      <4>2. job[b].by = ProcOf(b)
        BY <4>1, HolderIsAlone
      <4> QED  BY <1>1, <1>h, <2>3, <3>1, <3>3, <4>1, <4>2
    <3> QED  BY <1>5, <3>2, <3>3
  <2> QED  BY <1>1, <2>0, <2>2, <2>3 DEF StreamsInOrder, Grows
<1>10. EffectsFollowVerdicts'
  <2>0. EffectsFollowVerdicts
    BY DEF Stream
  <2>1. \A b \in Actors : at'[b] \in Holding => job'[b].id \notin taken' \cup killed'
    BY <1>1, <1>3, <1>s, <2>0 DEF EffectsFollowVerdicts
  <2>2. ASSUME NEW b \in Actors, at'[b] = "unlock", NEW x \in Written', x.id = job'[b].id
        PROVE  x.effect = job'[b].effect
    <3>1. CASE b = a
      <4>1. x \notin Written
        <5>1. PlacesAre(v.id) /\ <<"thread", a>> \in Places(v.id)
          BY <1>s, PlaceKinds DEF PlacesAre, v
        <5>2. \E y : Places(v.id) = {y}
          BY <1>h DEF Stream, VerdictsInOnePlace
        <5>3. \A k \in DOMAIN handled : handled[k].id # v.id
          BY <5>1, <5>2, PlacesDiffer DEF PlacesAre
        <5>4. \A q \in Procs : \A k \in DOMAIN link[q].buf : link[q].buf[k].id # v.id
          BY <5>1, <5>2, PlacesDiffer DEF PlacesAre
        <5>5. x.id = v.id
          BY <1>1, <2>2, <3>1 DEF v
        <5> QED  BY <5>3, <5>4, <5>5 DEF Written, Elems
      <4> QED  BY <1>1, <1>5, <3>1, <4>1 DEF v
    <3>2. CASE b # a
      <4>1. at[b] = "unlock" /\ at[b] \in Holding
        BY <1>3, <2>2, <3>2 DEF Holding
      <4>2. x # v
        BY <1>1, <1>s, <2>2, <3>2, <4>1
      <4> QED  BY <1>1, <1>5, <2>0, <2>2, <4>1, <4>2 DEF EffectsFollowVerdicts
    <3> QED  BY <3>1, <3>2
  <2>3. \A x \in Written' : x.id \in taken' => ~Refused(x.effect)
    BY <1>1, <1>5, <1>s, <2>0 DEF EffectsFollowVerdicts
  <2> QED  BY <1>1, <2>0, <2>1, <2>2, <2>3 DEF EffectsFollowVerdicts
<1> QED  BY <1>8, <1>9, <1>10 DEF Stream

\* The verdict goes from its thread to stderr.
LEMMA FallbackKeepsStream ==
  ASSUME Shape, Stream, NEW a \in Actors, Fallback(a)
  PROVE  Stream'
<1> DEFINE n == job[a].id
<1>1. /\ UNCHANGED <<job, link, handled, skipped, lost, killed, taken, sent>>
      /\ at[a] = "fallback" /\ at' = [at EXCEPT ![a] = "unlock"]
      /\ stderr' = stderr \cup {n}
  BY DEF Fallback
<1>h. n \in 1 .. sent /\ at[a] \in Sending /\ at[a] \in Holding
  BY <1>1, HolderIsAlone DEF Holding, Sending
<1> HIDE DEF n
<1>2. at'[a] = "unlock" /\ \A b \in Actors \ {a} : at'[b] = at[b]
  BY <1>1 DEF Shape, Types
<1>3. Written' = Written
  BY <1>1 DEF Written
<1>4. /\ \A b \in Actors \ {a} : at[b] \in Holding => job[b].id # n
      /\ \A b \in Actors : at'[b] \in Holding => at[b] \in Holding
  BY <1>2, <1>h DEF Stream, VerdictsInOnePlace, n
<1>5. ASSUME NEW i, i # n PROVE Places(i)' = Places(i)
  <2>1. AtThreads(i)' = AtThreads(i)
    BY <1>1, <1>2, <1>5 DEF AtThreads, n
  <2>2. InSockets(i)' = InSockets(i) /\ AtIngest(i)' = AtIngest(i) /\ Aside(i)' = Aside(i)
    BY <1>1, <1>5 DEF InSockets, AtIngest, Aside
  <2> QED  BY <2>1, <2>2 DEF Places
<1>w. \A x \in Written : x.id # n
  <2>1. PlacesAre(n) /\ <<"thread", a>> \in Places(n)
    BY <1>h, PlaceKinds DEF PlacesAre, n
  <2>2. \E y : Places(n) = {y}
    BY <1>h DEF Stream, VerdictsInOnePlace
  <2>3. \A k \in DOMAIN handled : handled[k].id # n
    BY <2>1, <2>2, PlacesDiffer DEF PlacesAre
  <2>4. \A q \in Procs : \A k \in DOMAIN link[q].buf : link[q].buf[k].id # n
    BY <2>1, <2>2, PlacesDiffer DEF PlacesAre
  <2> QED  BY <2>3, <2>4 DEF Written, Elems
<1>6. ASSUME NEW i, i = n PROVE Places(i)' = {<<"stderr">>}
  <2>1. PlacesAre(i) /\ PlacesAre(i)'
    BY PlaceKinds, PlaceKindsNext
  <2>2. Places(i) = {<<"thread", a>>}
    <3>1. <<"thread", a>> \in Places(i)
      BY <1>6, <1>h, <2>1 DEF PlacesAre, n
    <3>2. \E x : Places(i) = {x}
      BY <1>6, <1>h DEF Stream, VerdictsInOnePlace
    <3> QED  BY <3>1, <3>2
  <2>3. <<"stderr">> \in Places(i)'
    BY <1>1, <1>6, <2>1 DEF PlacesAre
  <2>4. ASSUME NEW x \in Places(i)' PROVE x = <<"stderr">>
    <3>1. ASSUME NEW b \in Actors, x = <<"thread", b>> PROVE FALSE
      <4>1. at'[b] \in Sending /\ job[b].id = i
        BY <1>1, <2>1, <3>1 DEF PlacesAre
      <4>2. b # a
        BY <1>2, <4>1 DEF Sending
      <4> QED  BY <1>2, <1>4, <1>6, <4>1, <4>2 DEF Sending, Holding
    <3>2. ASSUME NEW q \in Procs, NEW k \in DOMAIN link[q].buf, x = <<"socket", q, k>> PROVE FALSE
      BY <1>1, <2>1, <2>2, <3>2, PlacesDiffer DEF PlacesAre
    <3>3. ASSUME NEW k, x = <<"handled", k>> PROVE FALSE
      BY <1>1, <2>1, <2>2, <3>3, PlacesDiffer DEF PlacesAre
    <3>4. x \notin {<<"skipped">>, <<"lost">>, <<"killed">>}
      BY <1>1, <2>1, <2>2, PlacesDiffer DEF PlacesAre
    <3> QED  BY <1>1, <2>1, <3>1, <3>2, <3>3, <3>4 DEF PlacesAre
  <2> QED  BY <2>3, <2>4
<1>7. VerdictsInOnePlace'
  <2>1. ASSUME NEW i \in 1 .. sent' PROVE \E x : Places(i)' = {x}
    <3>1. \E x : Places(i) = {x}
      BY <1>1 DEF Stream, VerdictsInOnePlace
    <3> QED  BY <1>5, <1>6, <3>1
  <2>2. \A x \in Written' : x.id \in 1 .. sent'
    BY <1>1, <1>3 DEF Stream, VerdictsInOnePlace
  <2>3. \A b, c \in Actors : b # c /\ at'[b] \in Holding /\ at'[c] \in Holding => job'[b].id # job'[c].id
    BY <1>1, <1>4 DEF Stream, VerdictsInOnePlace
  <2> QED  BY <2>1, <2>2, <2>3 DEF VerdictsInOnePlace
<1>8. StreamsInOrder'
  <2>1. \A b \in Actors : at'[b] \in Sending => at[b] \in Sending
    BY <1>2, <1>h
  <2> QED  BY <1>1, <1>3, <2>1 DEF Stream, StreamsInOrder, Grows
<1>9. EffectsFollowVerdicts'
  <2>1. \A b \in Actors : at'[b] = "unlock" =>
          \A x \in Written : x.id = job[b].id => x.effect = job[b].effect
    BY <1>2, <1>w DEF Stream, EffectsFollowVerdicts, n
  <2> QED  BY <1>1, <1>3, <1>4, <2>1 DEF Stream, EffectsFollowVerdicts
<1> QED  BY <1>7, <1>8, <1>9 DEF Stream

\* The verdict goes with the child that is killed; its socket is dead, and so empty.
LEMMA SigpipeKillsKeepsStream ==
  ASSUME Shape, Stream, NEW c \in Children, SigpipeKills(c)
  PROVE  Stream'
<1> DEFINE n == job[c].id
<1>1. /\ UNCHANGED <<handled, skipped, stderr, lost, taken, sent>>
      /\ at[c] = "send" /\ at' = [at EXCEPT ![c] = "idle"]
      /\ job' = [job EXCEPT ![c] = NoJob]
      /\ link[c].server = "dead" /\ link' = [link EXCEPT ![c] = Unlinked]
      /\ killed' = killed \cup {n}
  BY DEF SigpipeKills
<1>p. c \in Actors /\ c \in Procs
  BY ProcFacts
<1>h. n \in 1 .. sent /\ at[c] \in Sending /\ at[c] \in Holding
  BY <1>1, <1>p, HolderIsAlone DEF Holding, Sending
<1> HIDE DEF n
<1>2. /\ at'[c] = "idle"
      /\ \A b \in Actors \ {c} : at'[b] = at[b] /\ job'[b] = job[b]
  BY <1>1, <1>p DEF Shape, Types
<1>b. \A q \in Procs : link'[q].buf = link[q].buf
  <2>1. link[c].buf = <<>> /\ Unlinked.buf = <<>>
    BY <1>1, <1>p DEF Shape, LinksAreWhole, Unlinked
  <2> QED  BY <1>1, <2>1 DEF Shape, Types
<1>3. Written' = Written
  BY <1>1, <1>b DEF Written
<1>4. /\ \A b \in Actors \ {c} : at[b] \in Holding => job[b].id # n
      /\ \A b \in Actors : at'[b] \in Holding => b # c /\ at[b] \in Holding /\ job'[b] = job[b]
  BY <1>2, <1>h, <1>p DEF Stream, VerdictsInOnePlace, Holding, n
<1>5. ASSUME NEW i, i # n PROVE Places(i)' = Places(i)
  <2>1. AtThreads(i)' = AtThreads(i)
    <3>1. ASSUME NEW b \in Actors
          PROVE  (at'[b] \in Sending /\ job'[b].id = i) <=> (at[b] \in Sending /\ job[b].id = i)
      <4>1. CASE b = c
        BY <1>2, <1>5, <4>1 DEF Sending, n
      <4>2. CASE b # c
        BY <1>2, <4>2
      <4> QED  BY <4>1, <4>2
    <3> QED  BY <3>1 DEF AtThreads, Sending
  <2>2. InSockets(i)' = InSockets(i)
    BY <1>b DEF InSockets
  <2>3. AtIngest(i)' = AtIngest(i) /\ Aside(i)' = Aside(i)
    BY <1>1, <1>5 DEF AtIngest, Aside
  <2> QED  BY <2>1, <2>2, <2>3 DEF Places
<1>6. ASSUME NEW i, i = n PROVE Places(i)' = {<<"killed">>}
  <2>1. PlacesAre(i) /\ PlacesAre(i)'
    BY PlaceKinds, PlaceKindsNext
  <2>2. Places(i) = {<<"thread", c>>}
    <3>1. <<"thread", c>> \in Places(i)
      BY <1>6, <1>h, <1>p, <2>1 DEF PlacesAre, n
    <3>2. \E x : Places(i) = {x}
      BY <1>6, <1>h DEF Stream, VerdictsInOnePlace
    <3> QED  BY <3>1, <3>2
  <2>3. <<"killed">> \in Places(i)'
    BY <1>1, <1>6, <2>1 DEF PlacesAre
  <2>4. ASSUME NEW x \in Places(i)' PROVE x = <<"killed">>
    <3>1. ASSUME NEW b \in Actors, x = <<"thread", b>> PROVE FALSE
      <4>1. at'[b] \in Sending /\ job'[b].id = i
        BY <2>1, <3>1 DEF PlacesAre
      <4>2. at'[b] \in Holding
        BY <4>1 DEF Sending, Holding
      <4> QED  BY <1>4, <1>6, <4>1, <4>2
    <3>2. ASSUME NEW q \in Procs, NEW k \in DOMAIN link'[q].buf, x = <<"socket", q, k>> PROVE FALSE
      BY <1>b, <2>1, <2>2, <3>2, PlacesDiffer DEF PlacesAre
    <3>3. ASSUME NEW k, x = <<"handled", k>> PROVE FALSE
      BY <1>1, <2>1, <2>2, <3>3, PlacesDiffer DEF PlacesAre
    <3>4. x \notin {<<"skipped">>, <<"stderr">>, <<"lost">>}
      BY <1>1, <2>1, <2>2, PlacesDiffer DEF PlacesAre
    <3> QED  BY <1>1, <2>1, <3>1, <3>2, <3>3, <3>4 DEF PlacesAre
  <2> QED  BY <2>3, <2>4
<1>7. VerdictsInOnePlace'
  <2>1. ASSUME NEW i \in 1 .. sent' PROVE \E x : Places(i)' = {x}
    <3>1. \E x : Places(i) = {x}
      BY <1>1 DEF Stream, VerdictsInOnePlace
    <3> QED  BY <1>5, <1>6, <3>1
  <2>2. \A x \in Written' : x.id \in 1 .. sent'
    BY <1>1, <1>3 DEF Stream, VerdictsInOnePlace
  <2>3. \A b, d \in Actors : b # d /\ at'[b] \in Holding /\ at'[d] \in Holding => job'[b].id # job'[d].id
    BY <1>4 DEF Stream, VerdictsInOnePlace
  <2> QED  BY <2>1, <2>2, <2>3 DEF VerdictsInOnePlace
<1>8. StreamsInOrder'
  <2>1. \A b \in Actors : at'[b] \in Sending => at[b] \in Sending /\ job'[b] = job[b]
    BY <1>2 DEF Sending
  <2> QED  BY <1>1, <1>3, <1>b, <2>1 DEF Stream, StreamsInOrder, Grows
<1>9. EffectsFollowVerdicts'
  <2>0. EffectsFollowVerdicts
    BY DEF Stream
  <2>1. \A b \in Actors : at'[b] \in Holding => job'[b].id \notin taken \cup killed'
    BY <1>1, <1>4, <2>0 DEF EffectsFollowVerdicts
  <2>2. \A b \in Actors : at'[b] = "unlock" => b # c /\ at[b] = "unlock" /\ job'[b] = job[b]
    BY <1>2
  <2>3. \A i \in taken : i \notin killed'
    BY <1>1, <1>h, <1>p, <2>0 DEF EffectsFollowVerdicts, n
  <2> QED  BY <1>1, <1>3, <2>0, <2>1, <2>2, <2>3 DEF EffectsFollowVerdicts
<1> QED  BY <1>7, <1>8, <1>9 DEF Stream

\* Its effect takes place, unless it was refused.
LEMMA UnlockKeepsStream ==
  ASSUME Shape, Stream, NEW a \in Actors, Unlock(a)
  PROVE  Stream'
<1> DEFINE n == job[a].id
<1>1. /\ UNCHANGED <<link, handled, skipped, stderr, lost, killed, sent>>
      /\ at[a] = "unlock" /\ at' = [at EXCEPT ![a] = "idle"]
      /\ job' = [job EXCEPT ![a] = NoJob]
      /\ taken' = IF Refused(job[a].effect) THEN taken ELSE taken \cup {n}
  BY DEF Unlock, outcomes
<1> HIDE DEF n
<1>2. /\ at'[a] = "idle" /\ at[a] \in Holding /\ at[a] \notin Sending
      /\ \A b \in Actors \ {a} : at'[b] = at[b] /\ job'[b] = job[b]
  BY <1>1 DEF Shape, Types, Holding, Sending
<1>3. Written' = Written
  BY <1>1 DEF Written
<1>4. \A b \in Actors : at'[b] \in Holding => b # a /\ at[b] \in Holding /\ job'[b] = job[b] /\ job[b].id # n
  BY <1>2 DEF Holding, Stream, VerdictsInOnePlace, n
<1>5. \A i : Places(i)' = Places(i)
  <2> SUFFICES ASSUME NEW i PROVE Places(i)' = Places(i)
    OBVIOUS
  <2>1. \A b \in Actors : /\ at'[b] \in Sending <=> at[b] \in Sending
                          /\ at[b] \in Sending => job'[b].id = job[b].id
    BY <1>2 DEF Sending
  <2> QED  BY <1>1, <2>1, PlacesKept
<1>6. VerdictsInOnePlace'
  <2>1. \A i \in 1 .. sent' : \E x : Places(i)' = {x}
    BY <1>1, <1>5 DEF Stream, VerdictsInOnePlace
  <2>2. \A x \in Written' : x.id \in 1 .. sent'
    BY <1>1, <1>3 DEF Stream, VerdictsInOnePlace
  <2>3. \A b, c \in Actors : b # c /\ at'[b] \in Holding /\ at'[c] \in Holding => job'[b].id # job'[c].id
    BY <1>4 DEF Stream, VerdictsInOnePlace
  <2> QED  BY <2>1, <2>2, <2>3 DEF VerdictsInOnePlace
<1>7. StreamsInOrder'
  <2>1. \A b \in Actors : at'[b] \in Sending => at[b] \in Sending /\ job'[b] = job[b]
    BY <1>2 DEF Sending
  <2> QED  BY <1>1, <1>3, <2>1 DEF Stream, StreamsInOrder, Grows
<1>8. EffectsFollowVerdicts'
  <2>0. EffectsFollowVerdicts
    BY DEF Stream
  <2>1. \A b \in Actors : at'[b] \in Holding => job'[b].id \notin taken' \cup killed
    BY <1>1, <1>4, <2>0 DEF EffectsFollowVerdicts
  <2>4. \A i \in taken' : i \notin killed
    BY <1>1, <1>2, <2>0 DEF EffectsFollowVerdicts, n
  <2>2. \A b \in Actors : at'[b] = "unlock" =>
          \A x \in Written : x.id = job'[b].id => x.effect = job'[b].effect
    BY <1>2, <2>0 DEF EffectsFollowVerdicts
  <2>3. ASSUME NEW x \in Written, x.id \in taken' PROVE ~Refused(x.effect)
    <3>1. CASE x.id \in taken
      BY <2>0, <3>1 DEF EffectsFollowVerdicts
    <3>2. CASE x.id \notin taken
      <4>1. x.id = n /\ ~Refused(job[a].effect)
        BY <1>1, <2>3, <3>2
      <4>2. x.effect = job[a].effect
        BY <1>1, <2>0, <4>1 DEF EffectsFollowVerdicts, n
      <4> QED  BY <4>1, <4>2
    <3> QED  BY <3>1, <3>2
  <2> QED  BY <1>1, <1>3, <2>1, <2>2, <2>3, <2>4 DEF EffectsFollowVerdicts
<1> QED  BY <1>6, <1>7, <1>8 DEF Stream

\* The first of a socket goes to the end of what has been handled, or is skipped; those
\* behind it move up.
LEMMA HandleLineKeepsStream ==
  ASSUME Shape, Stream, NEW p \in Procs, HandleLine(p)
  PROVE  Stream'
<1> DEFINE buf == link[p].buf
           h == Head(buf)
           rest == Tail(buf)
           m == Len(handled) + 1
           place == IF handled' = handled THEN <<"skipped">> ELSE <<"handled", m>>
<1>1. /\ buf \in Seq(Verdict) /\ buf # <<>> /\ handled \in Seq(Verdict)
      /\ Taken(h)
      /\ link'[p].buf = rest
      /\ \A q \in Procs \ {p} : link'[q] = link[q]
      /\ UNCHANGED <<at, job, stderr, lost, killed, taken, sent>>
  BY HandleLineKeepsShape
<1>2. /\ h \in Verdict /\ 1 \in DOMAIN buf /\ h = buf[1] /\ DOMAIN buf \subseteq Nat
      /\ \A k \in DOMAIN rest : k \in Nat \ {0} /\ k + 1 \in DOMAIN buf /\ rest[k] = buf[k + 1]
      /\ \A k \in DOMAIN buf : k # 1 => k - 1 \in DOMAIN rest /\ rest[k - 1] = buf[k]
      /\ Elems(buf) = {h} \cup Elems(rest)
  BY <1>1, TailElems
<1>3. \/ /\ place = <<"handled", m>> /\ skipped' = skipped
         /\ DOMAIN handled' = DOMAIN handled \cup {m} /\ m \notin DOMAIN handled
         /\ DOMAIN handled \subseteq Nat /\ m \in Nat /\ \A k \in DOMAIN handled : k < m
         /\ handled'[m] = h
         /\ \A k \in DOMAIN handled : handled'[k] = handled[k]
         /\ Elems(handled') = Elems(handled) \cup {h}
      \/ place = <<"skipped">> /\ handled' = handled /\ skipped' = skipped \cup {h.id}
  <2>1. CASE handled' = Append(handled, h) /\ skipped' = skipped
    <3>1. /\ DOMAIN handled' = DOMAIN handled \cup {m} /\ m \notin DOMAIN handled
          /\ DOMAIN handled \subseteq Nat /\ m \in Nat /\ \A k \in DOMAIN handled : k < m
          /\ handled'[m] = h
          /\ \A k \in DOMAIN handled : handled'[k] = handled[k]
          /\ Elems(handled') = Elems(handled) \cup {h}
      BY <1>1, <1>2, <2>1, AppendElems
    <3>2. handled' # handled
      BY <3>1
    <3> QED  BY <2>1, <3>1, <3>2
  <2>2. CASE handled' = handled /\ skipped' = skipped \cup {h.id}
    BY <2>2
  <2> QED  BY <1>1, <2>1, <2>2 DEF Taken
<1>e. Elems(handled') \subseteq Elems(handled) \cup {h}
  BY <1>3
<1>d. \A a, q, k : place # <<"thread", a>> /\ place # <<"socket", q, k>>
  BY PlacesDiffer
<1> HIDE DEF buf, h, rest, m, place
<1>4. Written' \subseteq Written
  <2>1. Elems(link[p].buf) = {h} \cup Elems(rest) /\ Elems(link'[p].buf) = Elems(rest)
    BY <1>1, <1>2 DEF buf
  <2>2. \A q \in Procs \ {p} : Elems(link'[q].buf) = Elems(link[q].buf)
    BY <1>1
  <2>3. \A x : x \in Written' => x \in Written
    BY <1>e, <2>1, <2>2, WrittenIs, WrittenIsNext
  <2> QED  BY <2>3
\* A verdict is where it was, or it was behind the first, or it was the first.
<1>5. ASSUME NEW i, NEW y \in Places(i)'
      PROVE  \/ y = place /\ i = h.id
             \/ \E k \in Nat \ {0} : y = <<"socket", p, k>> /\ <<"socket", p, k + 1>> \in Places(i)
             \/ y \in Places(i) /\ \A k : y # <<"socket", p, k>>
  <2>1. PlacesAre(i) /\ PlacesAre(i)'
    BY PlaceKinds, PlaceKindsNext
  <2>2. CASE \E a \in Actors : y = <<"thread", a>>
    BY <1>1, <2>1, <2>2, PlacesDiffer DEF PlacesAre
  <2>3. ASSUME NEW q \in Procs, NEW k \in DOMAIN link'[q].buf, y = <<"socket", q, k>>
        PROVE  \/ \E j \in Nat \ {0} : y = <<"socket", p, j>> /\ <<"socket", p, j + 1>> \in Places(i)
               \/ y \in Places(i) /\ \A j : y # <<"socket", p, j>>
    <3>1. link'[q].buf[k].id = i
      BY <2>1, <2>3 DEF PlacesAre
    <3>2. CASE q = p
      <4>1. k \in Nat \ {0} /\ k + 1 \in DOMAIN link[p].buf /\ link[p].buf[k + 1].id = i
        BY <1>1, <1>2, <2>3, <3>1, <3>2 DEF buf
      <4>2. <<"socket", p, k + 1>> \in Places(i)
        BY <2>1, <4>1 DEF PlacesAre
      <4> QED  BY <2>3, <3>2, <4>1, <4>2
    <3>3. CASE q # p
      <4>1. <<"socket", q, k>> \in Places(i)
        BY <1>1, <2>1, <2>3, <3>1, <3>3 DEF PlacesAre
      <4>2. \A j : <<"socket", q, k>> # <<"socket", p, j>>
        BY <3>3
      <4> QED  BY <2>3, <4>1, <4>2
    <3> QED  BY <3>2, <3>3
  <2>4. ASSUME NEW k \in DOMAIN handled', y = <<"handled", k>>
        PROVE  (y = place /\ i = h.id) \/ (y \in Places(i) /\ \A j : y # <<"socket", p, j>>)
    <3>1. handled'[k].id = i
      BY <2>1, <2>4 DEF PlacesAre
    <3>2. CASE k \notin DOMAIN handled
      BY <1>3, <2>4, <3>1, <3>2
    <3>3. CASE k \in DOMAIN handled
      <4>1. handled[k].id = i
        BY <1>3, <3>1, <3>3
      <4>2. y \in Places(i)
        BY <2>1, <2>4, <3>3, <4>1 DEF PlacesAre
      <4> QED  BY <2>4, <4>2, PlacesDiffer
    <3> QED  BY <3>2, <3>3
  <2>5. CASE y = <<"skipped">>
    <3>1. i \in skipped'
      BY <2>1, <2>5 DEF PlacesAre
    <3>2. CASE i \in skipped
      BY <2>1, <2>5, <3>2, PlacesDiffer DEF PlacesAre
    <3>3. CASE i \notin skipped
      BY <1>3, <2>5, <3>1, <3>3
    <3> QED  BY <3>2, <3>3
  <2>6. CASE y = <<"stderr">> \/ y = <<"lost">> \/ y = <<"killed">>
    BY <1>1, <2>1, <2>6, PlacesDiffer DEF PlacesAre
  <2>7. \/ \E a \in Actors : y = <<"thread", a>>
        \/ \E q \in Procs : \E k \in DOMAIN link'[q].buf : y = <<"socket", q, k>>
        \/ \E k \in DOMAIN handled' : y = <<"handled", k>>
        \/ y = <<"skipped">> \/ y = <<"stderr">> \/ y = <<"lost">> \/ y = <<"killed">>
    BY <2>1 DEF PlacesAre
  <2> QED  BY <2>2, <2>3, <2>4, <2>5, <2>6, <2>7
\* It is somewhere.
<1>6. ASSUME NEW i, NEW x \in Places(i) PROVE \E y : y \in Places(i)'
  <2>1. PlacesAre(i) /\ PlacesAre(i)'
    BY PlaceKinds, PlaceKindsNext
  <2>2. CASE \E a \in Actors : x = <<"thread", a>>
    BY <1>1, <2>1, <2>2 DEF PlacesAre
  <2>3. ASSUME NEW q \in Procs, NEW k \in DOMAIN link[q].buf, x = <<"socket", q, k>>
        PROVE  \E y : y \in Places(i)'
    <3>1. link[q].buf[k].id = i
      BY <2>1, <2>3 DEF PlacesAre
    <3>2. CASE q # p
      <4>1. <<"socket", q, k>> \in Places(i)'
        BY <1>1, <2>1, <2>3, <3>1, <3>2 DEF PlacesAre
      <4> QED  BY <4>1
    <3>3. CASE q = p /\ k = 1
      <4>1. i = h.id
        BY <1>2, <3>1, <3>3 DEF buf
      <4>2. place \in Places(i)'
        BY <1>3, <2>1, <4>1 DEF PlacesAre
      <4> QED  BY <4>2
    <3>4. CASE q = p /\ k # 1
      <4>1. k - 1 \in DOMAIN link'[p].buf /\ link'[p].buf[k - 1].id = i
        BY <1>1, <1>2, <2>3, <3>1, <3>4 DEF buf
      <4>2. <<"socket", p, k - 1>> \in Places(i)'
        BY <2>1, <4>1 DEF PlacesAre
      <4> QED  BY <4>2
    <3> QED  BY <3>2, <3>3, <3>4
  <2>4. ASSUME NEW k \in DOMAIN handled, x = <<"handled", k>> PROVE \E y : y \in Places(i)'
    <3>1. <<"handled", k>> \in Places(i)'
      BY <1>3, <2>1, <2>4 DEF PlacesAre
    <3> QED  BY <3>1
  <2>5. CASE x = <<"skipped">> \/ x = <<"stderr">> \/ x = <<"lost">> \/ x = <<"killed">>
    BY <1>1, <1>3, <2>1, <2>5 DEF PlacesAre
  <2> QED  BY <2>1, <2>2, <2>3, <2>4, <2>5 DEF PlacesAre
<1>7. ASSUME NEW i \in 1 .. sent' PROVE \E x : Places(i)' = {x}
  <2>1. PICK x : Places(i) = {x}
    BY <1>1 DEF Stream, VerdictsInOnePlace
  <2>2. PICK y : y \in Places(i)'
    BY <1>6, <2>1
  <2>3. CASE i = h.id
    <3>1. Places(i) = {<<"socket", p, 1>>}
      <4>1. <<"socket", p, 1>> \in Places(i)
        <5>1. PlacesAre(i)
          BY PlaceKinds
        <5> QED  BY <1>2, <2>3, <5>1 DEF PlacesAre, buf
      <4> QED  BY <2>1, <4>1
    <3>2. ASSUME NEW z \in Places(i)' PROVE z = place
      <4>1. ASSUME NEW k \in Nat \ {0}, <<"socket", p, k + 1>> \in Places(i) PROVE FALSE
        <5>1. k + 1 # 1
          OBVIOUS
        <5> QED  BY <3>1, <4>1, <5>1
      <4> QED  BY <1>5, <3>1, <4>1
    <3> QED  BY <2>2, <3>2
  <2>4. CASE i # h.id
    <3>1. ASSUME NEW z \in Places(i)' PROVE z = y
      <4>1. CASE y \in Places(i) /\ \A k : y # <<"socket", p, k>>
        BY <1>5, <2>1, <2>4, <4>1
      <4>2. CASE \E k \in Nat \ {0} : y = <<"socket", p, k>> /\ <<"socket", p, k + 1>> \in Places(i)
        <5>1. PICK k \in Nat \ {0} : y = <<"socket", p, k>> /\ <<"socket", p, k + 1>> \in Places(i)
          BY <4>2
        <5>0. ~(z \in Places(i) /\ \A j : z # <<"socket", p, j>>)
          BY <2>1, <5>1
        <5>2. PICK j \in Nat \ {0} : z = <<"socket", p, j>> /\ <<"socket", p, j + 1>> \in Places(i)
          BY <1>5, <2>4, <5>0, Zenon
        <5>3. <<"socket", p, j + 1>> = <<"socket", p, k + 1>>
          BY <2>1, <5>1, <5>2
        <5>4. j + 1 = k + 1
          BY <5>3
        <5> QED  BY <5>1, <5>2, <5>4
      <4> QED  BY <1>5, <2>2, <2>4, <4>1, <4>2
    <3> QED  BY <2>2, <3>1
  <2> QED  BY <2>3, <2>4
<1>8. VerdictsInOnePlace'
  BY <1>1, <1>4, <1>7 DEF Stream, VerdictsInOnePlace
<1>9. StreamsInOrder'
  <2>0. StreamsInOrder /\ h.by = p /\ h \in Elems(buf)
    <3>1. h \in Elems(buf)
      BY <1>2
    <3> QED  BY <3>1 DEF Stream, StreamsInOrder, buf
  <2>1. Grows(handled')
    <3>1. \A k \in DOMAIN handled : handled[k].by = h.by => handled[k].id < h.id
      BY <2>0 DEF StreamsInOrder, Elems, buf
    <3>2. Grows(handled)
      BY <2>0 DEF StreamsInOrder
    <3>3. ASSUME NEW j \in DOMAIN handled', NEW k \in DOMAIN handled', j < k, handled'[j].by = handled'[k].by
          PROVE  handled'[j].id < handled'[k].id
      <4>1. CASE handled' = handled
        BY <3>2, <3>3, <4>1 DEF Grows
      <4>2. CASE handled' # handled
        <5>1. j \in DOMAIN handled
          BY <1>3, <3>3, <4>2
        <5> QED  BY <1>3, <3>1, <3>2, <3>3, <4>2, <5>1 DEF Grows
      <4> QED  BY <4>1, <4>2
    <3> QED  BY <3>3 DEF Grows
  <2>2. Grows(rest) /\ \A y \in Elems(rest) : y.by = p /\ h.id < y.id
    <3>1. Grows(buf) /\ \A y \in Elems(buf) : y.by = p
      BY <2>0 DEF StreamsInOrder, buf
    <3>2. ASSUME NEW j \in DOMAIN rest, NEW k \in DOMAIN rest, j < k, rest[j].by = rest[k].by
          PROVE  rest[j].id < rest[k].id
      <4>1. j + 1 \in DOMAIN buf /\ k + 1 \in DOMAIN buf /\ rest[j] = buf[j + 1] /\ rest[k] = buf[k + 1] /\ j + 1 < k + 1
        BY <1>2, <3>2
      <4> QED  BY <3>1, <3>2, <4>1 DEF Grows
    <3>3. ASSUME NEW y \in Elems(rest) PROVE y.by = p /\ h.id < y.id
      <4>1. PICK k \in DOMAIN rest : y = rest[k]
        BY DEF Elems
      <4>2. k + 1 \in DOMAIN buf /\ y = buf[k + 1] /\ 1 < k + 1
        BY <1>2, <4>1
      <4>3. y.by = p
        BY <1>2, <3>1
      <4> QED  BY <1>2, <2>0, <3>1, <4>2, <4>3 DEF Grows
    <3> QED  BY <3>2, <3>3 DEF Grows
  <2>3. ASSUME NEW q \in Procs
        PROVE  /\ Grows(link'[q].buf)
               /\ \A y \in Elems(link'[q].buf) :
                    /\ y.by = q
                    /\ \A x \in Elems(handled') : x.by = q => x.id < y.id
    <3>1. CASE q = p
      <4>1. link'[q].buf = rest
        BY <1>1, <3>1
      <4>2. ASSUME NEW y \in Elems(rest), NEW x \in Elems(handled), x.by = p PROVE x.id < y.id
        <5>1. y \in Elems(link[p].buf)
          BY <1>2 DEF buf
        <5> QED  BY <2>0, <4>2, <5>1 DEF StreamsInOrder
      <4> QED  BY <1>e, <2>2, <3>1, <4>1, <4>2
    <3>2. CASE q # p
      BY <1>1, <1>e, <2>0, <3>2 DEF StreamsInOrder
    <3> QED  BY <3>1, <3>2
  <2> QED  BY <1>1, <1>4, <2>0, <2>1, <2>3 DEF StreamsInOrder
<1>10. EffectsFollowVerdicts'
  BY <1>1, <1>4 DEF Stream, EffectsFollowVerdicts
<1> QED  BY <1>8, <1>9, <1>10 DEF Stream

\* What was in the dropped sockets is lost, once; the rest stays where it is.
LEMMA DropsKeepStream ==
  ASSUME Shape, Stream, NEW D, Drops(D)
  PROVE  Stream'
<1>1. /\ D \subseteq Procs /\ UNCHANGED <<at, handled, skipped, stderr, killed, taken, sent>>
      /\ lost' = lost \cup UNION {InBuffer(link[p]) : p \in D}
  BY DEF Drops
<1>2. /\ \A p \in D : link'[p].buf = <<>>
      /\ \A p \in Procs \ D : link'[p] = link[p]
      /\ \A a \in Actors : at[a] # "idle" =>
           job'[a].id = job[a].id /\ job'[a].by = job[a].by /\ job'[a].effect = job[a].effect
  BY DropFacts
<1>3. Written' \subseteq Written
  <2>1. \A p \in D : Elems(link'[p].buf) = {}
    BY <1>2, NoElems
  <2> QED  BY <1>1, <1>2, <2>1, WrittenIs, WrittenIsNext
<1>4. ASSUME NEW i
      PROVE  i \in lost' <=> i \in lost \/ \E p \in D : \E k \in DOMAIN link[p].buf : link[p].buf[k].id = i
  BY <1>1 DEF InBuffer
\* A verdict is where it was, or it was in a dropped socket and is lost.
<1>5. ASSUME NEW i, NEW y \in Places(i)'
      PROVE  \/ y \in Places(i) /\ \A p \in D : \A k : y # <<"socket", p, k>>
             \/ y = <<"lost">> /\ \E p \in D : \E k : <<"socket", p, k>> \in Places(i)
  <2>1. PlacesAre(i) /\ PlacesAre(i)'
    BY PlaceKinds, PlaceKindsNext
  <2>2. CASE \E a \in Actors : y = <<"thread", a>>
    <3>1. PICK a \in Actors : y = <<"thread", a>>
      BY <2>2
    <3>2. at[a] \in Sending /\ job[a].id = i
      BY <1>1, <1>2, <2>1, <3>1 DEF PlacesAre, Sending
    <3>3. y \in Places(i)
      BY <2>1, <3>1, <3>2 DEF PlacesAre
    <3> QED  BY <3>1, <3>3, PlacesDiffer
  <2>3. ASSUME NEW q \in Procs, NEW k \in DOMAIN link'[q].buf, y = <<"socket", q, k>>
        PROVE  y \in Places(i) /\ \A p \in D : \A j : y # <<"socket", p, j>>
    <3>1. q \notin D
      BY <1>2, <2>3, NoElems
    <3>2. y \in Places(i)
      BY <1>2, <2>1, <2>3, <3>1 DEF PlacesAre
    <3> QED  BY <2>3, <3>1, <3>2
  <2>4. CASE \E k \in DOMAIN handled : y = <<"handled", k>>
    BY <1>1, <2>1, <2>4, PlacesDiffer DEF PlacesAre
  <2>5. CASE y = <<"skipped">> \/ y = <<"stderr">> \/ y = <<"killed">>
    BY <1>1, <2>1, <2>5, PlacesDiffer DEF PlacesAre
  <2>6. CASE y = <<"lost">>
    <3>1. i \in lost'
      BY <2>1, <2>6 DEF PlacesAre
    <3>2. CASE i \in lost
      BY <2>1, <2>6, <3>2, PlacesDiffer DEF PlacesAre
    <3>3. ASSUME NEW p \in D, NEW k \in DOMAIN link[p].buf, link[p].buf[k].id = i
          PROVE  <<"socket", p, k>> \in Places(i)
      BY <1>1, <2>1, <3>3 DEF PlacesAre
    <3> QED  BY <1>4, <2>6, <3>1, <3>2, <3>3
  <2>7. \/ \E a \in Actors : y = <<"thread", a>>
        \/ \E q \in Procs : \E k \in DOMAIN link'[q].buf : y = <<"socket", q, k>>
        \/ \E k \in DOMAIN handled : y = <<"handled", k>>
        \/ y = <<"skipped">> \/ y = <<"stderr">> \/ y = <<"lost">> \/ y = <<"killed">>
    BY <1>1, <2>1 DEF PlacesAre
  <2> QED  BY <2>2, <2>3, <2>4, <2>5, <2>6, <2>7
\* It is somewhere.
<1>6. ASSUME NEW i, NEW x \in Places(i) PROVE \E y : y \in Places(i)'
  <2>1. PlacesAre(i) /\ PlacesAre(i)'
    BY PlaceKinds, PlaceKindsNext
  <2>2. ASSUME NEW a \in Actors, x = <<"thread", a>> PROVE x \in Places(i)'
    <3>1. at[a] \in Sending /\ job[a].id = i
      BY <2>1, <2>2 DEF PlacesAre
    <3> QED  BY <1>1, <1>2, <2>1, <2>2, <3>1 DEF PlacesAre, Sending
  <2>3. ASSUME NEW q \in Procs, NEW k \in DOMAIN link[q].buf, x = <<"socket", q, k>>
        PROVE  \E y : y \in Places(i)'
    <3>1. link[q].buf[k].id = i
      BY <2>1, <2>3 DEF PlacesAre
    <3>2. CASE q \in D
      <4>1. i \in lost'
        BY <1>4, <3>1, <3>2
      <4>2. <<"lost">> \in Places(i)'
        BY <2>1, <4>1 DEF PlacesAre
      <4> QED  BY <4>2
    <3>3. CASE q \notin D
      <4>1. <<"socket", q, k>> \in Places(i)'
        BY <1>2, <2>1, <3>1, <3>3 DEF PlacesAre
      <4> QED  BY <4>1
    <3> QED  BY <3>2, <3>3
  <2>4. ASSUME NEW k \in DOMAIN handled, x = <<"handled", k>> PROVE x \in Places(i)'
    BY <1>1, <2>1, <2>4 DEF PlacesAre
  <2>5. CASE x = <<"skipped">> \/ x = <<"stderr">> \/ x = <<"lost">> \/ x = <<"killed">>
    BY <1>1, <1>4, <2>1, <2>5 DEF PlacesAre
  <2> QED  BY <2>1, <2>2, <2>3, <2>4, <2>5 DEF PlacesAre
<1>7. ASSUME NEW i \in 1 .. sent' PROVE \E x : Places(i)' = {x}
  <2>1. PICK x : Places(i) = {x}
    BY <1>1 DEF Stream, VerdictsInOnePlace
  <2>2. PICK y : y \in Places(i)'
    BY <1>6, <2>1
  <2>3. ASSUME NEW z \in Places(i)' PROVE z = y
    <3>1. CASE \E p \in D : \E k : <<"socket", p, k>> \in Places(i)
      <4>1. PICK p \in D : \E k : x = <<"socket", p, k>>
        BY <2>1, <3>1
      <4>2. z = <<"lost">>
        BY <1>5, <2>1, <4>1
      <4>3. y = <<"lost">>
        BY <1>5, <2>1, <2>2, <4>1
      <4> QED  BY <4>2, <4>3
    <3>2. CASE ~\E p \in D : \E k : <<"socket", p, k>> \in Places(i)
      <4>1. z \in Places(i)
        BY <1>5, <3>2
      <4>2. y \in Places(i)
        BY <1>5, <2>2, <3>2
      <4> QED  BY <2>1, <4>1, <4>2
    <3> QED  BY <3>1, <3>2
  <2> QED  BY <2>2, <2>3
<1>h. \A a \in Actors : at[a] \in Holding \/ at[a] \in Sending \/ at[a] = "unlock" => at[a] # "idle"
  BY DEF Holding, Sending
<1>8. VerdictsInOnePlace'
  <2>1. \A x \in Written' : x.id \in 1 .. sent'
    BY <1>1, <1>3 DEF Stream, VerdictsInOnePlace
  <2>2. \A a, b \in Actors : a # b /\ at'[a] \in Holding /\ at'[b] \in Holding => job'[a].id # job'[b].id
    BY <1>1, <1>2, <1>h DEF Stream, VerdictsInOnePlace
  <2> QED  BY <1>7, <2>1, <2>2 DEF VerdictsInOnePlace
<1>9. StreamsInOrder'
  <2>0. StreamsInOrder
    BY DEF Stream
  <2>1. ASSUME NEW q \in Procs
        PROVE  /\ Grows(link'[q].buf)
               /\ \A y \in Elems(link'[q].buf) :
                    /\ y.by = q
                    /\ \A x \in Elems(handled) : x.by = q => x.id < y.id
    <3>1. CASE q \in D
      <4>1. link'[q].buf = <<>>
        BY <1>2, <3>1
      <4> QED  BY <4>1, NoElems
    <3>2. CASE q \notin D
      <4>1. link'[q] = link[q]
        BY <1>2, <3>2
      <4> QED  BY <2>0, <4>1 DEF StreamsInOrder
    <3> QED  BY <3>1, <3>2
  <2>2. Grows(handled)'
    BY <1>1, <2>0 DEF StreamsInOrder, Grows
  <2>3. ASSUME NEW a \in Actors, at[a] \in Sending, NEW x \in Written', x.by = job'[a].by
        PROVE  x.id < job'[a].id
    BY <1>2, <1>3, <1>h, <2>0, <2>3 DEF StreamsInOrder
  <2> QED  BY <1>1, <2>1, <2>2, <2>3 DEF StreamsInOrder
<1>10. EffectsFollowVerdicts'
  <2>0. EffectsFollowVerdicts
    BY DEF Stream
  <2>1. \A a \in Actors : at[a] \in Holding => job'[a].id \notin taken \cup killed
    BY <1>2, <1>h, <2>0 DEF EffectsFollowVerdicts
  <2>2. ASSUME NEW a \in Actors, at[a] = "unlock", NEW x \in Written', x.id = job'[a].id
        PROVE  x.effect = job'[a].effect
    BY <1>2, <1>3, <2>0, <2>2 DEF EffectsFollowVerdicts
  <2>3. \A x \in Written' : x.id \in taken => ~Refused(x.effect)
    BY <1>3, <2>0 DEF EffectsFollowVerdicts
  <2> QED  BY <1>1, <2>0, <2>1, <2>2, <2>3 DEF EffectsFollowVerdicts
<1> QED  BY <1>8, <1>9, <1>10 DEF Stream

-----------------------------------------------------------------------------
(* Invariance, and what follows from it.                                   *)

\* RaspInv is inductive: most steps leave the stream alone (Quiet), the others
\* move one verdict, or lose those of some sockets.
THEOREM RaspKeepsInv == RaspInv /\ [RaspNext]_raspVars => RaspInv'
<1> SUFFICES ASSUME Shape, Stream, [RaspNext]_raspVars PROVE Shape' /\ Stream'
  BY DEF RaspInv
<1>1. CASE Serve
  <2>1. ASSUME NEW t \in Threads, (\E r \in Requests : BeginRequest(t, r)) \/ CtxSet(t) \/ EndRequest(t)
        PROVE  Shape' /\ Stream'
    BY <2>1, RequestsKeepShape, QuietKeepsStream
  <2>2. ASSUME NEW t \in Threads, NEW c \in Children, Fork(t, c) PROVE Shape' /\ Stream'
    BY <2>2, ForkKeepsShape, QuietKeepsStream
  <2>3. ASSUME NEW c \in Children, ChildEnds(c) PROVE Shape' /\ Stream'
    BY <2>3, ChildEndsKeepsShape, QuietKeepsStream
  <2>4. ASSUME NEW a \in Actors, NEW k \in Effects, Attempt(a, k) PROVE Shape' /\ Stream'
    BY <2>4, AttemptKeepsShape, QuietKeepsStream
  <2> QED  BY <1>1, <2>1, <2>2, <2>3, <2>4 DEF Serve
<1>2. ASSUME NEW a \in Actors, Emit(a) PROVE Shape' /\ Stream'
  <2>1. CASE Lock(a)
    BY <2>1, LockKeepsShape, LockKeepsStream
  <2>2. CASE EnsureSocket(a)
    BY <2>2, EnsureSocketKeepsShape, QuietKeepsStream
  <2>3. CASE Write(a)
    BY <2>3, WriteKeepsShape, WriteKeepsStream
  <2>4. CASE WriteFails(a)
    BY <2>4, WriteFailsKeepsShape, QuietKeepsStream
  <2>5. CASE Fallback(a)
    BY <2>5, FallbackKeepsShape, FallbackKeepsStream
  <2>6. CASE Unlock(a)
    BY <2>6, UnlockKeepsShape, UnlockKeepsStream
  <2>7. CASE NoSocket(a)
    BY <2>7, NoSocketKeepsShape, QuietKeepsStream
  <2>8. CASE SigpipeKills(a)
    <3>1. a \in Children
      BY <2>8 DEF SigpipeKills
    <3> QED  BY <2>8, <3>1, SigpipeKillsKeepsShape, SigpipeKillsKeepsStream
  <2> QED  BY <1>2, <2>1, <2>2, <2>3, <2>4, <2>5, <2>6, <2>7, <2>8 DEF Emit
<1>3. CASE Ingest
  <2>1. ASSUME NEW p \in Procs, Accept(p) PROVE Shape' /\ Stream'
    BY <2>1, AcceptKeepsShape, QuietKeepsStream
  <2>2. ASSUME NEW p \in Procs, HandleLine(p) PROVE Shape' /\ Stream'
    BY <2>2, HandleLineKeepsShape, HandleLineKeepsStream
  <2>3. ASSUME NEW p \in Procs, HandleEnd(p) PROVE Shape' /\ Stream'
    BY <2>3, HandleEndKeepsShape, QuietKeepsStream
  <2>4. CASE AcceptFails \/ StartRASPIngest
    BY <2>4, IngestTurnsKeepShape, QuietKeepsStream
  <2>5. CASE CloseListener \/ IngestDies
    BY <2>5, DropSteps, DropsKeepShape, DropsKeepStream
  <2> QED  BY <1>3, <2>1, <2>2, <2>3, <2>4, <2>5 DEF Ingest
<1>4. CASE UNCHANGED raspVars
  <2>1. UNCHANGED <<alive, serving, ctx, at, job, lock, sock, link, ingest, handled, skipped, stderr, lost, killed, taken, sent>>
    BY <1>4 DEF raspVars
  <2>2. Types' /\ Bounded' /\ ThreadsAreSound' /\ LocksAreHeld' /\ LinksAreWhole' /\ IngestIsSound'
    BY <2>1 DEF Shape, Types, Bounded, Waiting, ThreadsAreSound, JobOf, Runs, LocksAreHeld,
                LinksAreWhole, IngestIsSound
  <2>3. \A a \in Actors : ConnectionOf(a)'
    BY <2>1 DEF Shape, ConnectionOf
  <2>4. Quiet
    BY <2>1 DEF Quiet
  <2> QED  BY <2>2, <2>3, <2>4, QuietKeepsStream DEF Shape
<1> QED  BY <1>1, <1>2, <1>3, <1>4 DEF RaspNext

\* It holds of every behaviour of the agent and the ingest.
THEOREM RaspIsSafe == RaspSpec => []RaspInv
<1>1. RaspInit => RaspInv
  BY InitHasShape, InitHasStream DEF RaspInv
<1> QED  BY <1>1, RaspKeepsInv, PTL DEF RaspSpec

\* The lock of rasp_emit is held by one thread of its process at a time, which is in
\* rasp_emit and runs; a thread outside has no verdict in hand.
THEOREM RaspTypes == RaspSpec => []RaspTypeOK
<1>1. RaspInv => RaspTypeOK
  <2> SUFFICES ASSUME Shape PROVE RaspTypeOK
    BY DEF RaspInv
  <2>1. /\ alive \subseteq Children
        /\ serving \in [Actors -> Requests \cup {NoRequest}]
        /\ ctx \in [Actors -> Requests \cup {NoRequest}]
        /\ at \in [Actors -> {"idle", "lock"} \cup Holding]
        /\ sock \in [Procs -> BOOLEAN]
    BY DEF Shape, Types
  <2>2. \A a \in Actors : IF at[a] = "idle" THEN job[a] = NoJob ELSE job[a] \in Verdict /\ Runs(a)
    BY DEF Shape, ThreadsAreSound, JobOf
  <2>3. /\ \A p \in Procs : lock[p] = Free \/ (lock[p] \in Actors /\ ProcOf(lock[p]) = p /\ at[lock[p]] \in Holding)
        /\ \A a \in Actors : at[a] \in Holding => lock[ProcOf(a)] = a
    BY DEF Shape, Types, LocksAreHeld
  <2>4. ASSUME NEW p \in Procs
        PROVE  /\ link[p].server \in {"none", "backlog", "open", "dead"}
               /\ link[p].client = sock[p]
               /\ Len(link[p].buf) <= Capacity
    <3>1. link[p] \in Link /\ LinksAreWhole
      BY DEF Shape, Types
    <3>2. link[p].server \in {"none", "backlog", "open", "dead"}
      BY <3>1 DEF Link
    <3> QED  BY <3>1, <3>2 DEF LinksAreWhole
  <2>5. /\ ingest.accepting => ingest.listening
        /\ ingest.listening => ingest.up
    BY DEF Shape, IngestIsSound
  <2>6. sent <= MaxVerdicts
    <3>1. sent \in Nat /\ MaxVerdicts \in Nat /\ IsFiniteSet(Waiting) /\ sent + Cardinality(Waiting) <= MaxVerdicts
      BY RaspConstants DEF Shape, Types, Bounded, RaspAssumption
    <3>2. Cardinality(Waiting) \in Nat
      BY <3>1, FS_CardinalityType
    <3> QED  BY <3>1, <3>2
  <2> QED  BY <2>1, <2>2, <2>3, <2>4, <2>5, <2>6 DEF RaspTypeOK
<1> QED  BY <1>1, RaspIsSafe, PTL

\* rasp_emit, rasp_atfork_child and handleRASPConn account for every verdict: each is in
\* one place, which may be the log line of a verdict that did not parse or the end of a
\* child that SIGPIPE killed, those handled are in order and under the request their
\* thread worked for, and an effect takes place only once its verdict is out and does
\* not refuse it, never after its child was killed.
THEOREM EveryVerdictIsAccounted == RaspSpec => []VerdictsAccounted
<1>1. RaspInv => VerdictsAccounted
  <2> SUFFICES ASSUME Shape, Stream PROVE VerdictsAccounted
    BY DEF RaspInv
  <2>1. \A i \in 1 .. sent : Cardinality(Places(i)) = 1
    BY FS_Singleton DEF Stream, VerdictsInOnePlace
  <2>2. \A j, k \in DOMAIN handled : j < k /\ handled[j].by = handled[k].by => handled[j].id < handled[k].id
    BY DEF Stream, StreamsInOrder, Grows
  <2>3. \A a \in Actors : at[a] # "idle" => job[a].req \in {serving[a], NoRequest}
    BY DEF Shape, ThreadsAreSound, JobOf
  <2>4. ASSUME NEW i \in taken, NEW a \in Actors PROVE <<"thread", a>> \notin Places(i)
    <3>1. PlacesAre(i)
      BY PlaceKinds
    <3> QED  BY <3>1 DEF PlacesAre, Stream, EffectsFollowVerdicts, Sending, Holding
  <2>5. \A k \in DOMAIN handled : handled[k].id \in taken => ~Refused(handled[k].effect)
    BY WrittenIs DEF Stream, EffectsFollowVerdicts, Elems
  <2>6. \A i \in taken : i \notin killed
    BY DEF Stream, EffectsFollowVerdicts
  <2> QED  BY <2>1, <2>2, <2>3, <2>4, <2>5, <2>6 DEF VerdictsAccounted
<1> QED  BY <1>1, RaspIsSafe, PTL

\* The retry of rasp_emit after an ingest restart: a verdict goes to stderr only if the
\* ingest was away, or no socket was to be had, while it was being emitted.
THEOREM RetryIsEnough == RaspSpec => []RetryReachesIngest
<1>1. RaspInv => RetryReachesIngest
  BY DEF RaspInv, Shape, ConnectionOf, RetryReachesIngest
<1> QED  BY <1>1, RaspIsSafe, PTL

-----------------------------------------------------------------------------
(* rasp_emit is short, and nobody waits in it for nothing: what the        *)
(* liveness property EmitReturns rests on besides fairness.                *)

\* How many steps of rasp_emit thread a has left at most.
StepsLeft(a) ==
  CASE at[a] = "idle" -> 0
    [] at[a] = "unlock" -> 1
    [] at[a] = "fallback" -> 2
    [] at[a] = "send" -> IF job[a].try = 1 THEN 3 ELSE 5
    [] at[a] = "connect" -> IF job[a].try = 1 THEN 4 ELSE 6
    [] at[a] = "lock" -> 7

\* The values of StepsLeft, case by case.
LEMMA StepsLeftIs ==
  ASSUME Shape, NEW a \in Actors
  PROVE  /\ StepsLeft(a) \in 0 .. 7
         /\ at[a] = "idle" => StepsLeft(a) = 0
         /\ at[a] = "unlock" => StepsLeft(a) = 1
         /\ at[a] = "fallback" => StepsLeft(a) = 2
         /\ at[a] = "send" => StepsLeft(a) = IF job[a].try = 1 THEN 3 ELSE 5
         /\ at[a] = "connect" => StepsLeft(a) = IF job[a].try = 1 THEN 4 ELSE 6
         /\ at[a] = "lock" => StepsLeft(a) = 7
<1>1. at[a] \in {"idle", "lock", "connect", "send", "fallback", "unlock"}
  BY DEF Shape, Types, Holding
<1> QED  BY <1>1 DEF StepsLeft

\* The same, of the next state.
LEMMA StepsLeftNext ==
  ASSUME Shape', NEW a \in Actors
  PROVE  /\ StepsLeft(a)' \in 0 .. 7
         /\ at'[a] = "idle" => StepsLeft(a)' = 0
         /\ at'[a] = "unlock" => StepsLeft(a)' = 1
         /\ at'[a] = "fallback" => StepsLeft(a)' = 2
         /\ at'[a] = "send" => StepsLeft(a)' = IF job'[a].try = 1 THEN 3 ELSE 5
         /\ at'[a] = "connect" => StepsLeft(a)' = IF job'[a].try = 1 THEN 4 ELSE 6
         /\ at'[a] = "lock" => StepsLeft(a)' = 7
<1>1. at'[a] \in {"idle", "lock", "connect", "send", "fallback", "unlock"}
  BY DEF Shape, Types, Holding
<1> QED  BY <1>1 DEF StepsLeft

\* What a step does to a thread that is in rasp_emit: its own brings it nearer to the
\* end, and everybody else's leaves it where it is.
Advances(a) ==
  at[a] # "idle" => IF Emit(a) THEN StepsLeft(a)' < StepsLeft(a)
                    ELSE at'[a] = at[a] /\ StepsLeft(a)' = StepsLeft(a)

\* A step of a thread itself.
LEMMA EmitAdvances ==
  ASSUME Shape, Shape', NEW a \in Actors, Emit(a)
  PROVE  StepsLeft(a)' < StepsLeft(a)
<1>l. StepsLeft(a) \in Nat /\ StepsLeft(a)' \in Nat
  BY StepsLeftIs, StepsLeftNext
<1>t. at \in [Actors -> {"idle", "lock"} \cup Holding] /\ job \in [Actors -> Verdict \cup {NoJob}]
  BY DEF Shape, Types
<1>j. at[a] # "idle" => job[a] \in Verdict /\ job[a].try \in {0, 1}
  BY DEF Shape, ThreadsAreSound, JobOf, Verdict
<1>1. CASE Lock(a)
  <2>1. at[a] = "lock" /\ at'[a] = "connect"
    BY <1>1, <1>t DEF Lock
  <2>2. StepsLeft(a) = 7 /\ StepsLeft(a)' \in {4, 6}
    BY <2>1, StepsLeftIs, StepsLeftNext
  <2> QED  BY <2>2
<1>2. CASE EnsureSocket(a)
  <2>1. at[a] = "connect" /\ at'[a] \in {"send", "fallback"} /\ job'[a] = job[a]
    BY <1>2, <1>t DEF EnsureSocket
  <2>2. StepsLeft(a) = IF job[a].try = 1 THEN 4 ELSE 6
    BY <2>1, StepsLeftIs
  <2>3. StepsLeft(a)' = 2 \/ StepsLeft(a)' = IF job[a].try = 1 THEN 3 ELSE 5
    BY <2>1, StepsLeftNext
  <2> QED  BY <2>2, <2>3
<1>3. CASE Write(a)
  <2>1. at[a] = "send" /\ at'[a] = "unlock"
    BY <1>3, <1>t DEF Write
  <2>2. StepsLeft(a) \in {3, 5} /\ StepsLeft(a)' = 1
    BY <2>1, StepsLeftIs, StepsLeftNext
  <2> QED  BY <2>2
<1>4. CASE WriteFails(a)
  <2>1. at[a] = "send" /\ at'[a] = IF job[a].try = 0 THEN "connect" ELSE "fallback"
    BY <1>4, <1>t DEF WriteFails
  <2>2. job'[a].try = 1
    BY <1>4, <1>t, <1>j, <2>1 DEF WriteFails, Verdict
  <2>3. StepsLeft(a) = IF job[a].try = 1 THEN 3 ELSE 5
    BY <2>1, StepsLeftIs
  <2>4. CASE job[a].try = 0
    <3>1. StepsLeft(a)' = 4
      BY <2>1, <2>2, <2>4, StepsLeftNext
    <3> QED  BY <2>3, <2>4, <3>1
  <2>5. CASE job[a].try = 1
    <3>1. StepsLeft(a)' = 2
      BY <2>1, <2>5, StepsLeftNext
    <3> QED  BY <2>3, <2>5, <3>1
  <2> QED  BY <1>j, <2>1, <2>4, <2>5
<1>5. CASE Fallback(a)
  <2>1. at[a] = "fallback" /\ at'[a] = "unlock"
    BY <1>5, <1>t DEF Fallback
  <2>2. StepsLeft(a) = 2 /\ StepsLeft(a)' = 1
    BY <2>1, StepsLeftIs, StepsLeftNext
  <2> QED  BY <2>2
<1>6. CASE Unlock(a)
  <2>1. at[a] = "unlock" /\ at'[a] = "idle"
    BY <1>6, <1>t DEF Unlock
  <2>2. StepsLeft(a) = 1 /\ StepsLeft(a)' = 0
    BY <2>1, StepsLeftIs, StepsLeftNext
  <2> QED  BY <2>2
<1>7. CASE NoSocket(a)
  <2>1. at[a] = "connect" /\ at'[a] = "fallback"
    BY <1>7, <1>t DEF NoSocket
  <2>2. StepsLeft(a) \in {4, 6} /\ StepsLeft(a)' = 2
    BY <2>1, StepsLeftIs, StepsLeftNext
  <2> QED  BY <2>2
<1>8. CASE SigpipeKills(a)
  <2>1. at[a] = "send" /\ at'[a] = "idle"
    BY <1>8, <1>t DEF SigpipeKills
  <2>2. StepsLeft(a) \in {3, 5} /\ StepsLeft(a)' = 0
    BY <2>1, StepsLeftIs, StepsLeftNext
  <2> QED  BY <2>2
<1> QED  BY <1>1, <1>2, <1>3, <1>4, <1>5, <1>6, <1>7, <1>8 DEF Emit

\* A step of anybody else: where a thread in rasp_emit is and how often it has tried
\* is its own business.
LEMMA OthersLeaveTheThread ==
  ASSUME Shape, NEW a \in Actors, at[a] # "idle", [RaspNext]_raspVars, ~Emit(a)
  PROVE  at'[a] = at[a] /\ job'[a].try = job[a].try
<1>t. at \in [Actors -> {"idle", "lock"} \cup Holding] /\ job \in [Actors -> Verdict \cup {NoJob}]
  BY DEF Shape, Types
<1>j. job[a] \in Verdict
  BY DEF Shape, ThreadsAreSound, JobOf
<1>1. CASE Serve
  <2>1. ASSUME NEW b \in Actors, NEW k \in Effects, Attempt(b, k)
        PROVE  at'[a] = at[a] /\ job'[a] = job[a]
    <3>1. b # a /\ at' = [at EXCEPT ![b] = "lock"] /\ \E v : job' = [job EXCEPT ![b] = v]
      BY <2>1 DEF Attempt
    <3> QED  BY <1>t, <3>1
  <2>2. (\A b \in Actors, k \in Effects : ~Attempt(b, k)) => UNCHANGED <<at, job>>
    BY <1>1 DEF Serve, BeginRequest, CtxSet, EndRequest, Fork, ChildEnds
  <2> QED  BY <2>1, <2>2
<1>2. ASSUME NEW b \in Actors, Emit(b) PROVE at'[a] = at[a] /\ job'[a] = job[a]
  <2>0. b # a
    BY <1>2
  <2>1. /\ \E x : at' = [at EXCEPT ![b] = x]
        /\ job' = job \/ \E v : job' = [job EXCEPT ![b] = v]
    BY <1>2 DEF Emit, Lock, EnsureSocket, NoSocket, Write, WriteFails, SigpipeKills, Fallback, Unlock
  <2> QED  BY <1>t, <2>0, <2>1
<1>3. CASE Ingest
  <2>1. CASE CloseListener \/ IngestDies
    <3>1. at' = at /\ job'[a] = [job[a] EXCEPT !.calm = FALSE]
      BY <2>1 DEF CloseListener, IngestDies
    <3> QED  BY <1>j, <3>1 DEF Verdict
  <2>2. CASE ~(CloseListener \/ IngestDies)
    BY <1>3, <2>2 DEF Ingest, Accept, HandleLine, HandleEnd, AcceptFails, StartRASPIngest
  <2> QED  BY <2>1, <2>2
<1>4. CASE UNCHANGED raspVars
  BY <1>4 DEF raspVars
<1> QED  BY <1>1, <1>2, <1>3, <1>4 DEF RaspNext

\* rasp_emit ends after seven steps of its own, its one retry included, and nobody
\* else's step sets it back: not a fork, not the death of the WAF, not another thread.
THEOREM EmitIsShort == RaspSpec => [][\A a \in Actors : Advances(a)]_raspVars
<1>1. ASSUME RaspInv, RaspInv', [RaspNext]_raspVars, NEW a \in Actors PROVE Advances(a)
  <2> SUFFICES ASSUME at[a] # "idle"
               PROVE  IF Emit(a) THEN StepsLeft(a)' < StepsLeft(a)
                      ELSE at'[a] = at[a] /\ StepsLeft(a)' = StepsLeft(a)
    BY DEF Advances
  <2>s. Shape /\ Shape'
    BY <1>1 DEF RaspInv
  <2>1. CASE Emit(a)
    BY <2>1, <2>s, EmitAdvances
  <2>2. CASE ~Emit(a)
    <3>1. at'[a] = at[a] /\ job'[a].try = job[a].try
      BY <1>1, <2>2, <2>s, OthersLeaveTheThread
    <3>2. at[a] \in {"idle", "lock", "connect", "send", "fallback", "unlock"}
      BY <2>s DEF Shape, Types, Holding
    <3>3. StepsLeft(a)' = StepsLeft(a)
      BY <2>s, <3>1, <3>2, StepsLeftIs, StepsLeftNext
    <3> QED  BY <2>2, <3>1, <3>3
  <2> QED  BY <2>1, <2>2
<1>2. RaspInv /\ RaspInv' /\ [RaspNext]_raspVars => [\A a \in Actors : Advances(a)]_raspVars
  BY <1>1
<1> QED  BY <1>2, RaspIsSafe, PTL DEF RaspSpec

\* Where thread a is in rasp_emit, its next step can be taken at once.
CanGoOn(a) ==
  \/ at[a] = "lock" /\ lock[ProcOf(a)] = Free
  \/ at[a] \in {"connect", "fallback", "unlock"}
  \/ at[a] = "send" /\ (link[ProcOf(a)].server = "dead" \/ Len(link[ProcOf(a)].buf) < Capacity)

\* The ingest empties the socket of process p, accepts its connection first, or the
\* listener nobody references any more is closed and the connection with it.
IsServed(p) ==
  \/ link[p].server = "open" /\ link[p].buf # <<>>
  \/ link[p].server = "backlog" /\ ingest.listening

\* Whom a thread waits for: the holder of its process's lock, or nobody.
Holder(a) == IF at[a] = "lock" /\ lock[ProcOf(a)] # Free THEN lock[ProcOf(a)] ELSE a

\* Nobody waits in a circle, for a thread that is gone, or for a socket that nobody
\* will read and nobody will close.
NobodyIsStuck ==
  \A a \in Actors : at[a] # "idle" =>
    /\ Holder(a) \in Actors /\ Runs(Holder(a)) /\ ProcOf(Holder(a)) = ProcOf(a)
    /\ CanGoOn(Holder(a)) \/ (at[Holder(a)] = "send" /\ IsServed(ProcOf(a)))

\* A connection waits to be accepted only while the listener is open.
BacklogListens == \A p \in Procs : link[p].server = "backlog" => ingest.listening

LEMMA BacklogListensIsKept ==
  ASSUME RaspInv, BacklogListens, [RaspNext]_raspVars
  PROVE  BacklogListens'
<1>t. link \in [Procs -> Link] /\ ingest \in [up : BOOLEAN, listening : BOOLEAN, accepting : BOOLEAN]
  BY DEF RaspInv, Shape, Types
<1> SUFFICES ASSUME NEW q \in Procs, link'[q].server = "backlog" PROVE ingest'.listening
  BY DEF BacklogListens
<1>b. link[q].server = "backlog" => ingest.listening
  BY DEF BacklogListens
<1>1. CASE Serve
  <2>1. ASSUME NEW c \in Children, ChildEnds(c) PROVE ingest' = ingest /\ link[q].server = "backlog"
    <3>1. /\ ingest' = ingest
          /\ link' = [link EXCEPT ![c] = IF @.server = "dead" THEN Unlinked
                                         ELSE [@ EXCEPT !.client = FALSE]]
      BY <2>1 DEF ChildEnds
    <3>2. CASE q = c
      BY <1>t, <3>1, <3>2 DEF Unlinked, Link
    <3>3. CASE q # c
      BY <1>t, <3>1, <3>3
    <3> QED  BY <3>1, <3>2, <3>3
  <2>2. CASE \A c \in Children : ~ChildEnds(c)
    <3>1. UNCHANGED <<link, ingest>>
      BY <1>1, <2>2 DEF Serve, BeginRequest, CtxSet, EndRequest, Fork, Attempt
    <3> QED  BY <1>b, <3>1
  <2> QED  BY <1>b, <2>1, <2>2
<1>2. ASSUME NEW a \in Actors, Emit(a) PROVE ingest'.listening
  <2> DEFINE p == ProcOf(a)
  <2>0. ingest' = ingest /\ p \in Procs
    BY <1>2, ProcFacts DEF Emit, Lock, EnsureSocket, NoSocket, Write, WriteFails, SigpipeKills, Fallback, Unlock
  <2>1. CASE EnsureSocket(a)
    <3>1. link' = link \/ ingest.listening
      BY <2>1 DEF EnsureSocket
    <3> QED  BY <1>b, <2>0, <3>1
  <2>2. CASE Write(a)
    <3>1. link' = [link EXCEPT ![p].buf = Append(@, job[a])]
      BY <2>2 DEF Write
    <3>2. link'[q].server = link[q].server
      BY <1>t, <2>0, <3>1 DEF Link
    <3> QED  BY <1>b, <2>0, <3>2
  <2>3. CASE WriteFails(a)
    <3>1. link' = [link EXCEPT ![p] = Unlinked]
      BY <2>3 DEF WriteFails
    <3>2. link'[q] = link[q]
      BY <1>t, <2>0, <3>1 DEF Unlinked
    <3> QED  BY <1>b, <2>0, <3>2
  <2>4. CASE Lock(a) \/ NoSocket(a) \/ Fallback(a) \/ Unlock(a)
    <3>1. link' = link
      BY <2>4 DEF Lock, NoSocket, Fallback, Unlock
    <3> QED  BY <1>b, <2>0, <3>1
  <2>5. CASE SigpipeKills(a)
    <3>1. link' = [link EXCEPT ![a] = Unlinked]
      BY <2>5 DEF SigpipeKills
    <3>2. link'[q] = link[q]
      BY <1>t, <2>0, <3>1 DEF Unlinked
    <3> QED  BY <1>b, <2>0, <3>2
  <2> QED  BY <1>2, <2>1, <2>2, <2>3, <2>4, <2>5 DEF Emit
<1>3. ASSUME NEW p \in Procs, Accept(p) \/ HandleLine(p) \/ HandleEnd(p) PROVE ingest'.listening
  <2>1. ingest' = ingest
    BY <1>3 DEF Accept, HandleLine, HandleEnd
  <2>2. link'[q].server = "backlog" => link[q].server = "backlog"
    <3>1. CASE Accept(p)
      BY <1>t, <3>1 DEF Accept, Link
    <3>2. CASE HandleLine(p)
      BY <1>t, <3>2 DEF HandleLine, Link
    <3>3. CASE HandleEnd(p)
      BY <1>t, <3>3 DEF HandleEnd, Unlinked
    <3> QED  BY <1>3, <3>1, <3>2, <3>3
  <2> QED  BY <1>b, <2>1, <2>2
<1>4. CASE AcceptFails \/ StartRASPIngest
  <2>1. link' = link /\ (ingest.listening => ingest'.listening)
    BY <1>4, <1>t DEF AcceptFails, StartRASPIngest, Listening
  <2> QED  BY <1>b, <2>1
<1>5. CASE CloseListener \/ IngestDies
  <2>1. link'[q] = Dropped(link[q]) \/ (link'[q] = link[q] /\ link[q].server # "backlog")
    BY <1>5 DEF CloseListener, IngestDies
  <2>2. Dropped(link[q]).server # "backlog"
    BY <1>t DEF Dropped, Link
  <2> QED  BY <2>1, <2>2
<1>6. CASE UNCHANGED raspVars
  BY <1>6, <1>b DEF raspVars
<1> QED  BY <1>1, <1>2, <1>3, <1>4, <1>5, <1>6 DEF RaspNext, Ingest

\* What waits in rasp_emit can always be helped: a thread that waits for the lock waits
\* for a running thread of its own process, and one whose write waits on a full socket
\* has a reader, or a listener that will still be closed.
THEOREM NobodyWaitsInVain == RaspSpec => []NobodyIsStuck
<1>1. RaspInit => BacklogListens
  BY DEF RaspInit, BacklogListens, Unlinked
<1>2. ASSUME RaspInv, BacklogListens PROVE NobodyIsStuck
  <2> SUFFICES ASSUME NEW a \in Actors, at[a] # "idle"
               PROVE  /\ Holder(a) \in Actors /\ Runs(Holder(a)) /\ ProcOf(Holder(a)) = ProcOf(a)
                      /\ CanGoOn(Holder(a)) \/ (at[Holder(a)] = "send" /\ IsServed(ProcOf(a)))
    BY DEF NobodyIsStuck
  <2>s. Shape
    BY <1>2 DEF RaspInv
  <2>p. ProcOf(a) \in Procs
    BY ProcFacts
  <2> DEFINE h == Holder(a)
  <2>1. h \in Actors /\ ProcOf(h) = ProcOf(a) /\ at[h] # "idle" /\ (at[h] = "lock" => lock[ProcOf(h)] = Free)
    <3>1. CASE at[a] = "lock" /\ lock[ProcOf(a)] # Free
      <4>1. h = lock[ProcOf(a)]
        BY <3>1 DEF Holder
      <4>2. h \in Actors /\ ProcOf(h) = ProcOf(a) /\ at[h] \in Holding
        BY <2>s, <2>p, <3>1, <4>1 DEF Shape, Types, LocksAreHeld
      <4> QED  BY <4>2 DEF Holding
    <3>2. CASE ~(at[a] = "lock" /\ lock[ProcOf(a)] # Free)
      <4>1. h = a
        BY <3>2 DEF Holder
      <4> QED  BY <3>2, <4>1
    <3> QED  BY <3>1, <3>2
  <2> HIDE DEF h
  <2>2. Runs(h)
    BY <2>1, <2>s DEF Shape, ThreadsAreSound, JobOf
  <2>3. at[h] \in {"lock", "connect", "send", "fallback", "unlock"}
    BY <2>1, <2>s DEF Shape, Types, Holding
  <2>4. CanGoOn(h) \/ (at[h] = "send" /\ IsServed(ProcOf(h)))
    <3>1. CASE at[h] # "send"
      BY <2>1, <2>3, <3>1 DEF CanGoOn
    <3>2. CASE at[h] = "send"
      <4> DEFINE k == link[ProcOf(h)]
      <4>1. k \in Link /\ LinksAreWhole /\ k.client = sock[ProcOf(h)] /\ sock[ProcOf(h)]
        BY <2>1, <3>2, <2>p, <2>s DEF Shape, Types, ConnectionOf, LinksAreWhole
      <4>2. k.server \in {"backlog", "open", "dead"}
        BY <2>1, <2>p, <4>1 DEF Link, LinksAreWhole
      <4>3. CASE Len(k.buf) < Capacity \/ k.server = "dead"
        BY <3>2, <4>3 DEF CanGoOn
      <4>4. CASE ~(Len(k.buf) < Capacity) /\ k.server = "open"
        <5>1. Len(<<>>) = 0 /\ Capacity > 0
          BY RaspConstants DEF RaspAssumption
        <5>2. k.buf # <<>>
          BY <4>4, <5>1
        <5> QED  BY <2>1, <3>2, <4>4, <5>2 DEF IsServed
      <4>5. CASE k.server = "backlog"
        <5>1. ingest.listening
          BY <1>2, <2>1, <2>p, <4>5 DEF BacklogListens
        <5> QED  BY <2>1, <3>2, <4>5, <5>1 DEF IsServed
      <4> QED  BY <4>2, <4>3, <4>4, <4>5
    <3> QED  BY <3>1, <3>2
  <2> QED  BY <2>1, <2>2, <2>4 DEF h
<1>3. RaspInv /\ BacklogListens /\ [RaspNext]_raspVars => BacklogListens'
  BY BacklogListensIsKept
<1> QED  BY <1>1, <1>2, <1>3, RaspIsSafe, PTL DEF RaspSpec
=============================================================================
