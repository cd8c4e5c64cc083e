-------------------------- MODULE CronServiceProofs --------------------------
(***************************************************************************)
(* Proofs about CronService for every set of processes and definitions,    *)
(* every lease and batch limit, and every outcome of the transactions.     *)
(***************************************************************************)
EXTENDS CronService, FiniteSetTheorems, WellFoundedInduction, TLAPS

Record == [status : Terminal \cup {"none", "running"}, attempt : 0 .. MaxTime,
           until : 0 .. MaxTime + Lease]
Job    == [def : Definition, next : 0 .. MaxTime + 1, startup : BOOLEAN]
Worker == [step : {"none", "run", "finish"}, proc : Proc \cup {None},
           renewAt : Time \cup {None}, finishAt : Time, as : Terminal \cup {"none"},
           lost : BOOLEAN]

-----------------------------------------------------------------------------
(* Instants and lists of work.                                             *)

\* A set of numbers that is not empty has a least one: what Schedule.Next and
\* the order of a batch rest on.
LEMMA NatMin ==
    ASSUME NEW S \in SUBSET Nat, S # {}
    PROVE  \E m \in S : \A x \in S : m <= x
<1>1. IsWellFoundedOn(OpToRel(<, Nat), Nat)
  BY NatLessThanWellFounded
<1>2. \E m \in S : \A x \in S : ~(<<x, m>> \in OpToRel(<, Nat))
  BY <1>1, WFMin
<1>3. \A x, y \in S : ~(<<x, y>> \in OpToRel(<, Nat)) => y <= x
  BY DEF OpToRel
<1> QED
  BY <1>2, <1>3

\* The instants of a definition are instants of the model.
LEMMA Instants ==
    ASSUME NEW d \in Definition
    PROVE  /\ d.at \subseteq Instant
           /\ d.catchUp \in CatchUp /\ d.overlap \in Overlap
           /\ d # None
  BY CronAssumption DEF Instant

\* Schedule.Next: the first instant after t, or one past the last.
LEMMA NextRunIsNext ==
    ASSUME NEW d \in Definition, NEW t \in Time
    PROVE  /\ NextRun(d, t) \in d.at \cup {MaxTime + 1}
           /\ NextRun(d, t) \in 0 .. MaxTime + 1
           /\ t < NextRun(d, t)
           /\ \A u \in d.at : t < u => NextRun(d, t) <= u
<1> DEFINE later == {u \in d.at : u > t}
<1>1. d.at \subseteq Instant /\ MaxTime \in Nat
  BY Instants, CronAssumption
<1>2. NextRun(d, t) = IF later = {} THEN MaxTime + 1
                      ELSE CHOOSE u \in later : \A v \in later : u <= v
  BY Zenon DEF NextRun
<1>3. CASE later = {}
  BY <1>1, <1>2, <1>3 DEF Time, Instant
<1>4. CASE later # {}
  <2>1. later \in SUBSET Nat
    BY <1>1 DEF Instant
  <2>2. \E u \in later : \A v \in later : u <= v
    BY <1>4, <2>1, NatMin
  <2>3. NextRun(d, t) \in later /\ \A v \in later : NextRun(d, t) <= v
    BY <1>2, <1>4, <2>2, Zenon
  <2> QED
    BY <1>1, <2>3 DEF Instant, Time
<1> QED
  BY <1>3, <1>4

\* A list of work with one entry for every occurrence has a first entry: the
\* earliest of those whose lease ended first.
LEMMA FirstIsFirst ==
    ASSUME NEW S \in SUBSET Work, S # {},
           \A x, y \in S : x.at = y.at => x = y
    PROVE  First(S) \in S /\ \A y \in S \ {First(S)} : Before(First(S), y)
<1> DEFINE U == {x.until : x \in S}
<1>1. U \in SUBSET Nat /\ U # {}
  BY CronAssumption DEF Work
<1>2. PICK m \in U : \A u \in U : m <= u
  BY <1>1, NatMin
<1> DEFINE R == {x \in S : x.until = m}
           A == {x.at : x \in R}
<1>3. A \in SUBSET Nat /\ A # {}
  BY <1>2 DEF Work, Instant
<1>4. PICK b \in A : \A u \in A : b <= u
  BY <1>3, NatMin
<1>5. PICK x \in R : x.at = b
  BY <1>4
<1>6. x \in S /\ x.until = m
  BY <1>5
<1>7. ASSUME NEW y \in S \ {x}
      PROVE  Before(x, y)
  <2>1. m \in Nat /\ y.until \in Nat /\ x.at \in Nat /\ y.at \in Nat /\ m <= y.until
    BY <1>1, <1>2, <1>6 DEF Work, Instant
  <2>2. x.at # y.at
    BY <1>6, <1>7
  <2>3. y.until = m => x.at <= y.at
    BY <1>4, <1>5
  <2> QED
    BY <1>6, <2>1, <2>2, <2>3 DEF Before
<1>8. \E z \in S : \A y \in S \ {z} : Before(z, y)
  BY <1>6, <1>7
<1> QED
  BY <1>8, Zenon DEF First

\* collectDue takes its batch of what is due, and something of it when anything
\* is.
LEMMA BatchOfDue ==
    ASSUME NEW d \in Definition, NEW from \in Nat, NEW t \in Time
    PROVE  /\ batch(d, from, t) \subseteq due(d, from, t)
           /\ batch(d, from, t) = {} => due(d, from, t) = {}
<1> DEFINE D == due(d, from, t)
<1>1. batch(d, from, t) = {u \in D : Cardinality({v \in D : v < u}) < Limit}
  BY Zenon DEF batch
<1>2. ASSUME D # {}
      PROVE  batch(d, from, t) # {}
  <2>1. D \in SUBSET Nat
    BY Instants DEF due, Instant
  <2> HIDE DEF D
  <2>2. PICK m \in D : \A u \in D : m <= u
    BY <1>2, <2>1, NatMin
  <2>3. {v \in D : v < m} = {}
    <3>1. \A v \in D : ~(v < m)
      BY <2>1, <2>2
    <3> QED
      BY <3>1, Zenon
  <2>4. Cardinality({v \in D : v < m}) = 0
    BY <2>3, FS_EmptySet
  <2>5. m \in batch(d, from, t)
    BY <1>1, <2>2, <2>4, CronAssumption
  <2> QED
    BY <2>5
<1> QED
  BY <1>1, <1>2

\* What recoverExpired lists: occurrences that run on a lease that has ended.
LEMMA ExpiredIsRunning ==
    ASSUME rec \in [Instant -> Record], NEW t \in Time, NEW x \in expired(t)
    PROVE  /\ x \in Work /\ ~x.skip
           /\ rec[x.at].status = "running"
           /\ rec[x.at].until = x.until
<1> DEFINE E == {[at |-> u, until |-> rec[u].until, skip |-> FALSE] :
                   u \in {v \in Instant : rec[v].status = "running" /\ rec[v].until <= t}}
<1>1. expired(t) \subseteq E
  BY Zenon DEF expired, Limited
<1>2. PICK u \in Instant : /\ rec[u].status = "running"
                           /\ x = [at |-> u, until |-> rec[u].until, skip |-> FALSE]
  BY <1>1
<1>3. rec[u].until \in 0 .. MaxTime + Lease
  BY DEF Record
<1> QED
  BY <1>2, <1>3 DEF Work

-----------------------------------------------------------------------------
(* The inductive invariant.                                                *)

\* An occurrence with a record has come and lies behind the cursor.  Every
\* attempt was claimed a lease after the one before it, so the number of
\* attempts is bounded by the clock, and no lease ends later than one that is
\* claimed now.
RecordInv(t) ==
    /\ rec[t].status # "none" => t <= now /\ t < next /\ definition # None
    /\ rec[t].status = "none" => rec[t].attempt = 0
    /\ rec[t].status = "running" => /\ 1 <= rec[t].attempt
                                    /\ rec[t].attempt + Lease <= rec[t].until
                                    /\ rec[t].until <= now + Lease

\* The cursor is an instant of the schedule, or past the last of them, and has
\* passed over nothing.
CursorInv ==
    /\ definition # None => next \in definition.at \cup {MaxTime + 1}
    /\ \A t \in Instant : Scheduled(t) /\ t < next => rec[t].status # "none"

\* A process at work has reconciled its definition, and what it has listed has
\* come by the times it has read.
ProcInv(p) ==
    /\ state[p] = "up" => job[p] \in Job /\ definition # None
    /\ todo[p] # {} => state[p] = "up"
    /\ cycle[p] <= now
    /\ stamp[p] # None => stamp[p] <= now /\ todo[p] # {}
    /\ \A x \in todo[p] : x.at <= now /\ (stamp[p] # None => x.at <= stamp[p])
    /\ \A x, y \in todo[p] : x.at = y.at => x = y

\* A handler belongs to an attempt that was claimed, and renews its lease with
\* a time read after it was claimed or last renewed.
WorkerInv(t, a) ==
    LET w == worker[<<t, a>>] IN
    /\ w.step = "none" => w = NoWorker
    /\ w.step # "none" => w.proc \in Proc /\ a <= now /\ a <= rec[t].attempt
    /\ w.step = "finish" => w.as \in {"succeeded", "failed", "canceled"}
    /\ w.renewAt # None => /\ a <= w.renewAt /\ w.renewAt <= now
                           /\ rec[t].status = "running" /\ rec[t].attempt = a =>
                                 rec[t].until <= w.renewAt + Lease

\* What a process works off follows its catch-up policy: what it has listed as
\* due begins at its cursor, an instant missed before the start is only listed
\* to be run if the policy allows it, and startup ends when the cursor has
\* passed the last of them.
CatchUpInv(p) ==
    LET j == job[p] IN
    state[p] = "up" =>
        /\ pc[p] \in {"start", "recover"} => started[p] <= cycle[p]
        /\ started[p] <= now
        /\ pc[p] \in {"start", "wait"} => todo[p] = {}
        /\ pc[p] = "recover" => \A x \in todo[p] : ~x.skip /\ rec[x.at].status # "none"
        /\ ~j.startup => \A u \in j.def.at : j.next <= u => started[p] < u
        /\ pc[p] = "due" =>
              /\ \A x \in todo[p] : x.until = 0 /\ x.at \in j.def.at /\ j.next <= x.at
              /\ \A x \in todo[p] : ~x.skip /\ x.at <= started[p] =>
                    \/ j.def.catchUp = "all"
                    \/ /\ j.def.catchUp = "latest"
                       /\ \A u \in j.def.at : u <= started[p] => u <= x.at
              /\ ~more[p] => \A u \in j.def.at : j.next <= u /\ u <= started[p] =>
                                \E x \in todo[p] : x.at = u

\* The invariant by part: the store, the loops of the processes, the handlers.
StoreInv ==
    /\ now \in Time
    /\ definition \in Definition \cup {None} /\ next \in 0 .. MaxTime + 1
    /\ rec \in [Instant -> Record]
    /\ since \in Time
    /\ \A t \in Instant : RecordInv(t)
    /\ CursorInv

LoopInv ==
    /\ state \in [Proc -> {"down", "up", "stopping"}]
    /\ job \in [Proc -> Job \cup {None}]
    /\ pc \in [Proc -> {"start", "wait", "recover", "due"}]
    /\ cycle \in [Proc -> Time] /\ todo \in [Proc -> SUBSET Work]
    /\ stamp \in [Proc -> Time \cup {None}] /\ more \in [Proc -> BOOLEAN]
    /\ started \in [Proc -> Time]
    /\ \A p \in Proc : ProcInv(p) /\ CatchUpInv(p)

HandlerInv ==
    /\ worker \in [Instant \X Attempt -> Worker]
    /\ \A t \in Instant, a \in Attempt : WorkerInv(t, a)

Inv ==
    /\ StoreInv /\ LoopInv /\ HandlerInv
    /\ failed \subseteq Proc /\ faults \in 0 .. MaxFaults /\ revived \subseteq Instant

\* The invariant has every type in it.
LEMMA InvTypes == Inv => TypeOK
  BY Zenon DEF Inv, StoreInv, LoopInv, HandlerInv, TypeOK, Record, Job, Worker

-----------------------------------------------------------------------------
(* What the transactions do to the store.                                  *)

RunRecord(t, r) == [status |-> "running", attempt |-> rec[t].attempt + 1, until |-> r + Lease]
EndRecord(t, end) == [status |-> end, attempt |-> rec[t].attempt, until |-> 0]

\* At a time r that was read after it had come, an occurrence is taken that is
\* the next one, or whose lease had ended by then.
Takes(t, r, e) ==
    /\ t \in Instant /\ r \in Time /\ t <= r /\ r <= now
    /\ definition \in Definition
    /\ \/ rec[t].status = "running" /\ rec[t].until <= r
       \/ rec[t].status = "none" /\ next = t
    /\ rec' = [rec EXCEPT ![t] = e]
    /\ next' = Later(next, NextRun(definition, t))

\* The record of an occurrence, its lease and its fields.
LEMMA RecordType ==
    ASSUME StoreInv, NEW t \in Instant
    PROVE  /\ rec[t] \in Record /\ RecordInv(t)
           /\ rec[t].status \in Terminal \cup {"none", "running"}
           /\ rec[t].attempt \in Nat /\ rec[t].until \in Nat
           /\ rec[t].attempt <= MaxTime /\ rec[t].until <= MaxTime + Lease
           /\ now \in Nat /\ now <= MaxTime /\ next \in Nat /\ MaxTime \in Nat
           /\ Lease \in Nat /\ 1 <= Lease
           /\ t \in Nat /\ 1 <= t /\ t <= MaxTime
<1>1. rec[t] \in Record /\ RecordInv(t)
  BY DEF StoreInv
<1>2. MaxTime \in Nat /\ Lease \in Nat /\ 1 <= Lease
  BY CronAssumption
<1> QED
  BY <1>1, <1>2 DEF StoreInv, Record, Time, Instant

\* The end of an occurrence keeps its attempt.
LEMMA Ended ==
    ASSUME NEW v \in Record, NEW end
    PROVE  [v EXCEPT !.status = end, !.until = 0] =
           [status |-> end, attempt |-> v.attempt, until |-> 0]
<1> DEFINE e == [v EXCEPT !.status = end]
<1>1. [v EXCEPT !.status = end, !.until = 0] = [e EXCEPT !.until = 0]
  BY Zenon
<1>2. e = [status |-> end, attempt |-> v.attempt, until |-> v.until]
  BY DEF Record
<1> HIDE DEF e
<1>3. [e EXCEPT !.until = 0] = [status |-> end, attempt |-> v.attempt, until |-> 0]
  BY <1>2
<1> QED
  BY <1>1, <1>3

\* What a process has at the head of its list has come by the time it has read.
LEMMA HeadHasCome ==
    ASSUME StoreInv, LoopInv, NEW p \in Proc, todo[p] # {}
    PROVE  /\ First(todo[p]) \in todo[p]
           /\ \A y \in todo[p] \ {First(todo[p])} : Before(First(todo[p]), y)
           /\ First(todo[p]) \in Work
           /\ First(todo[p]).at \in Instant /\ First(todo[p]).at <= now
           /\ stamp[p] # None => /\ stamp[p] \in Time /\ stamp[p] <= now
                                 /\ First(todo[p]).at <= stamp[p]
           /\ state[p] = "up" /\ job[p] \in Job /\ job[p].def \in Definition
           /\ definition \in Definition
<1>1. todo[p] \in SUBSET Work /\ ProcInv(p) /\ stamp[p] \in Time \cup {None}
  BY DEF LoopInv
<1>2. \A x, y \in todo[p] : x.at = y.at => x = y
  BY <1>1 DEF ProcInv
<1>3. /\ First(todo[p]) \in todo[p]
      /\ \A y \in todo[p] \ {First(todo[p])} : Before(First(todo[p]), y)
  BY <1>1, <1>2, FirstIsFirst
<1>4. First(todo[p]) \in Work /\ First(todo[p]).at \in Instant
  BY <1>1, <1>3 DEF Work
<1>5. state[p] = "up" /\ job[p] \in Job /\ definition \in Definition
  BY <1>1 DEF ProcInv, StoreInv
<1>6. job[p].def \in Definition
  BY <1>5 DEF Job
<1> QED
  BY <1>1, <1>3, <1>4, <1>5, <1>6 DEF ProcInv

\* Claim's disposition says what it found.
LEMMA DispositionFacts ==
    ASSUME StoreInv, NEW t \in Instant, NEW n, NEW r \in Time
    PROVE  /\ disposition(t, n, r) \in {"acquired", "skipped_overlap"} =>
                /\ n = NextRun(definition, t)
                /\ \/ rec[t].status = "running" /\ rec[t].until <= r
                   \/ rec[t].status = "none" /\ next = t
           /\ disposition(t, n, r) = "acquired" => ~overlaps(t, r)
           /\ disposition(t, n, r) = "skipped_overlap" => rec[t].status = "none"
<1> DEFINE o == overlaps(t, r)
           z == NextRun(definition, t)
<1>1. disposition(t, n, r) =
        IF z # n THEN "conflict"
        ELSE IF rec[t].status \in Terminal THEN "already_terminal"
        ELSE IF rec[t].status = "running"
             THEN IF rec[t].until > r \/ o THEN "lease_held" ELSE "acquired"
        ELSE IF next # t THEN "conflict"
        ELSE IF o THEN "skipped_overlap" ELSE "acquired"
  BY DEF disposition
<1>2. /\ rec[t].status \in Terminal \cup {"none", "running"}
      /\ rec[t].until \in Nat /\ r \in Nat
  BY RecordType DEF Time
<1> HIDE DEF o, z
<1>3. /\ disposition(t, n, r) \in {"acquired", "skipped_overlap"} =>
           /\ n = z
           /\ \/ rec[t].status = "running" /\ rec[t].until <= r
              \/ rec[t].status = "none" /\ next = t
      /\ disposition(t, n, r) = "acquired" => ~o
      /\ disposition(t, n, r) = "skipped_overlap" => rec[t].status = "none"
  BY <1>1, <1>2
<1> QED
  BY <1>3 DEF o, z

\* Skip's disposition says what it found.
LEMMA SkipFacts ==
    ASSUME StoreInv, NEW t \in Instant, NEW n, NEW r \in Time,
           skipDisposition(t, n, r) = "written"
    PROVE  /\ n = NextRun(definition, t)
           /\ \/ rec[t].status = "running" /\ rec[t].until <= r
              \/ rec[t].status = "none" /\ next = t
<1> DEFINE z == NextRun(definition, t)
<1>1. skipDisposition(t, n, r) =
        IF rec[t].status \in Terminal THEN "kept"
        ELSE IF z # n THEN "conflict"
        ELSE IF rec[t].status = "running"
             THEN IF rec[t].until > r THEN "running" ELSE "written"
        ELSE IF next # t THEN "conflict" ELSE "written"
  BY DEF skipDisposition
<1>2. /\ rec[t].status \in Terminal \cup {"none", "running"}
      /\ rec[t].until \in Nat /\ r \in Nat
  BY RecordType DEF Time
<1> HIDE DEF z
<1>3. /\ n = z
      /\ \/ rec[t].status = "running" /\ rec[t].until <= r
         \/ rec[t].status = "none" /\ next = t
  BY <1>1, <1>2
<1> QED
  BY <1>3 DEF z

\* A claim leaves the store alone, records an overlap, or takes the lease, and
\* only the last may start a handler.
ClaimTakes(p) ==
    LET t == First(todo[p]).at
        r == stamp[p]
    IN
    \/ UNCHANGED <<rec, next, worker>>
    \/ Takes(t, r, EndRecord(t, "skipped")) /\ UNCHANGED worker
    \/ /\ Takes(t, r, RunRecord(t, r)) /\ ~overlaps(t, r)
       /\ \/ UNCHANGED worker
          \/ invoked(p, t, "acquired") /\ ~First(todo[p]).skip

LEMMA ClaimIsTaking ==
    ASSUME StoreInv, LoopInv, NEW p \in Proc, NEW w, Claim(p, w)
    PROVE  ClaimTakes(p)
<1> DEFINE x == First(todo[p])
           t == x.at
           r == stamp[p]
           n == NextRun(job[p].def, t)
           result == disposition(t, n, r)
<1>1. todo[p] # {} /\ stamp[p] # None /\ ~x.skip
  BY DEF Claim
<1>2. /\ t \in Instant /\ r \in Time /\ t <= r /\ r <= now
      /\ definition \in Definition
  BY <1>1, HeadHasCome
<1>3. \/ UNCHANGED <<next, rec, worker>>
      \/ claimed(t, n, r, result) /\ (UNCHANGED worker \/ invoked(p, t, result))
  BY Zenon DEF Claim
<1>4. /\ result \in {"acquired", "skipped_overlap"} =>
           /\ n = NextRun(definition, t)
           /\ \/ rec[t].status = "running" /\ rec[t].until <= r
              \/ rec[t].status = "none" /\ next = t
      /\ result = "acquired" => ~overlaps(t, r)
      /\ result = "skipped_overlap" => rec[t].status = "none"
  BY <1>2, DispositionFacts
<1> HIDE DEF x, r, n, result
<1>5. CASE UNCHANGED <<next, rec, worker>>
  BY <1>5, Zenon DEF ClaimTakes
<1>6. ASSUME claimed(t, n, r, result), UNCHANGED worker \/ invoked(p, t, result)
      PROVE  ClaimTakes(p)
  <2>1. CASE result \notin {"acquired", "skipped_overlap"}
    <3>1. UNCHANGED <<next, rec>>
      BY <1>6, <2>1, Zenon DEF claimed
    <3>2. UNCHANGED worker
      <4>1. result # "acquired"
        BY <2>1
      <4> QED
        BY <1>6, <4>1, Zenon DEF invoked
    <3> QED
      BY <3>1, <3>2, Zenon DEF ClaimTakes
  <2>2. CASE result = "acquired"
    <3>1. next' = Later(next, n)
          /\ rec' = [rec EXCEPT ![t] = [status |-> "running", attempt |-> @.attempt + 1,
                                        until |-> r + Lease]]
      <4>1. result \in {"acquired", "skipped_overlap"} /\ result # "skipped_overlap"
        BY <2>2
      <4> QED
        BY <1>6, <4>1, Zenon DEF claimed
    <3>2. rec' = [rec EXCEPT ![t] = RunRecord(t, r)]
      BY <3>1, Zenon DEF RunRecord
    <3>3. Takes(t, r, RunRecord(t, r))
      BY <1>2, <1>4, <2>2, <3>1, <3>2 DEF Takes
    <3>4. UNCHANGED worker \/ invoked(p, t, "acquired")
      BY <1>6, <2>2
    <3> QED
      BY <1>1, <1>4, <2>2, <3>3, <3>4, Zenon DEF ClaimTakes, x, r
  <2>3. CASE result = "skipped_overlap"
    <3>0. result \in {"acquired", "skipped_overlap"} /\ result # "acquired"
      BY <2>3
    <3>1. /\ next' = Later(next, n)
          /\ rec' = [rec EXCEPT ![t] = [NoRecord EXCEPT !.status = "skipped"]]
      BY <1>6, <3>0, Zenon DEF claimed
    <3>2. UNCHANGED worker
      BY <1>6, <3>0, Zenon DEF invoked
    <3>3. [NoRecord EXCEPT !.status = "skipped"] = EndRecord(t, "skipped")
      <4>1. rec[t].attempt = 0
        BY <1>2, <1>4, <2>3, RecordType DEF RecordInv
      <4> QED
        BY <4>1 DEF NoRecord, EndRecord
    <3>4. Takes(t, r, EndRecord(t, "skipped"))
      BY <1>2, <1>4, <2>3, <3>1, <3>3 DEF Takes
    <3> QED
      BY <3>2, <3>4, Zenon DEF ClaimTakes, x, r
  <2> QED
    BY <2>1, <2>2, <2>3
<1> QED
  BY <1>3, <1>5, <1>6

\* Skip leaves the store alone or records the occurrence as skipped.
SkipTakes(p) ==
    LET t == First(todo[p]).at IN
    UNCHANGED <<rec, next>> \/ Takes(t, stamp[p], EndRecord(t, "skipped"))

LEMMA SkipIsTaking ==
    ASSUME StoreInv, LoopInv, NEW p \in Proc, NEW w, Skip(p, w)
    PROVE  SkipTakes(p)
<1> DEFINE x == First(todo[p])
           t == x.at
           r == stamp[p]
           n == NextRun(job[p].def, t)
           result == skipDisposition(t, n, r)
<1>1. todo[p] # {} /\ stamp[p] # None
  BY DEF Skip
<1>2. /\ t \in Instant /\ r \in Time /\ t <= r /\ r <= now
      /\ definition \in Definition
  BY <1>1, HeadHasCome
<1>3. \/ UNCHANGED <<rec, next>>
      \/ /\ result = "written"
         /\ rec' = [rec EXCEPT ![t] = [@ EXCEPT !.status = "skipped", !.until = 0]]
         /\ next' = Later(next, n)
  BY Zenon DEF Skip
<1>4. result = "written" =>
           /\ n = NextRun(definition, t)
           /\ \/ rec[t].status = "running" /\ rec[t].until <= r
              \/ rec[t].status = "none" /\ next = t
  BY <1>2, SkipFacts
<1>5. rec[t] \in Record
  BY <1>2, RecordType
<1>6. [rec[t] EXCEPT !.status = "skipped", !.until = 0] = EndRecord(t, "skipped")
  BY <1>5, Ended DEF EndRecord
<1>7. [rec EXCEPT ![t] = [@ EXCEPT !.status = "skipped", !.until = 0]] =
      [rec EXCEPT ![t] = EndRecord(t, "skipped")]
  BY <1>6, Zenon
<1> HIDE DEF x, r, n, result
<1>8. CASE UNCHANGED <<rec, next>>
  BY <1>8 DEF SkipTakes
<1>9. CASE ~UNCHANGED <<rec, next>>
  <2>1. Takes(t, r, EndRecord(t, "skipped"))
    BY <1>2, <1>3, <1>4, <1>7, <1>9 DEF Takes
  <2> QED
    BY <2>1, Zenon DEF SkipTakes, x, r
<1> QED
  BY <1>8, <1>9

-----------------------------------------------------------------------------
(* The store keeps its invariant.                                          *)

\* The step leaves the store alone; the clock may have gone on.
StoreQuiet == UNCHANGED <<definition, next, rec, since>> /\ now <= now' /\ now' \in Time

LEMMA QuietStore ==
    ASSUME StoreInv, StoreQuiet
    PROVE  StoreInv'
<1>1. now \in Nat /\ now' \in Nat /\ now <= now' /\ Lease \in Nat
  BY CronAssumption DEF StoreInv, StoreQuiet, Time
<1>2. ASSUME NEW t \in Instant
      PROVE  RecordInv(t)'
  BY <1>1, RecordType DEF StoreQuiet, RecordInv
<1>3. CursorInv'
  BY DEF StoreQuiet, StoreInv, CursorInv, Scheduled
<1> QED
  BY <1>2, <1>3 DEF StoreInv, StoreQuiet

\* Taking the next occurrence moves the cursor to the one after it, with
\* nothing of the schedule between them; taking one again leaves the cursor.
LEMMA TakingKeepsStore ==
    ASSUME StoreInv, NEW t, NEW r, NEW e \in Record, Takes(t, r, e),
           e.status # "none",
           e.status = "running" => e = RunRecord(t, r),
           UNCHANGED <<now, definition, since>>
    PROVE  StoreInv'
<1> DEFINE n == NextRun(definition, t)
<1>1. /\ t \in Instant /\ r \in Time /\ t <= r /\ r <= now /\ definition \in Definition
      /\ rec' = [rec EXCEPT ![t] = e] /\ next' = Later(next, n)
  BY DEF Takes
<1>2. /\ t \in Nat /\ r \in Nat /\ now \in Nat /\ next \in Nat /\ 1 <= t
      /\ Lease \in Nat /\ 1 <= Lease /\ MaxTime \in Nat /\ now <= MaxTime
      /\ rec[t].attempt \in Nat /\ rec[t].until \in Nat /\ t <= MaxTime
  BY <1>1, RecordType DEF Time
<1>3. /\ n \in definition.at \cup {MaxTime + 1} /\ n \in 0 .. MaxTime + 1
      /\ t < n
      /\ \A u \in definition.at : t < u => n <= u
  BY <1>1, <1>2, NextRunIsNext DEF Time
<1> HIDE DEF n
<1>4. definition # None /\ definition.at \subseteq Instant
  BY <1>1, Instants
<1>5. next \in definition.at \cup {MaxTime + 1}
  BY <1>4 DEF StoreInv, CursorInv
<1>6. \/ /\ rec[t].status = "running" /\ rec[t].until <= r /\ t < next
         /\ rec[t].attempt + Lease <= rec[t].until
         /\ next' = next
      \/ rec[t].status = "none" /\ rec[t].attempt = 0 /\ next = t /\ next' = n
  <2>1. RecordInv(t)
    BY <1>1, RecordType
  <2>2. CASE rec[t].status = "running" /\ rec[t].until <= r
    <3>1. t < next /\ rec[t].attempt + Lease <= rec[t].until
      BY <2>1, <2>2 DEF RecordInv
    <3>2. n <= next
      BY <1>2, <1>3, <1>5, <3>1
    <3> QED
      BY <1>1, <1>2, <1>3, <2>2, <3>1, <3>2 DEF Later
  <2>3. CASE rec[t].status = "none" /\ next = t
    BY <1>1, <1>3, <2>1, <2>3 DEF RecordInv, Later
  <2> QED
    BY <2>2, <2>3 DEF Takes
<1>7. rec' \in [Instant -> Record] /\ next' \in 0 .. MaxTime + 1 /\ next <= next'
  BY <1>1, <1>2, <1>3, <1>6 DEF StoreInv
<1>8. t < next'
  BY <1>2, <1>3, <1>6
<1>9. ASSUME NEW u \in Instant
      PROVE  RecordInv(u)'
  <2>1. CASE u = t
    <3>1. rec'[t] = e
      BY <1>1 DEF StoreInv
    <3>2. e.status = "running" =>
             /\ 1 <= e.attempt /\ e.attempt + Lease <= e.until /\ e.until <= now + Lease
      <4>1. rec[t].attempt + 1 <= r
        BY <1>1, <1>2, <1>6
      <4> QED
        BY <1>1, <1>2, <4>1 DEF RunRecord
    <3> QED
      BY <1>1, <1>2, <1>4, <1>8, <2>1, <3>1, <3>2 DEF RecordInv
  <2>2. CASE u # t
    <3>1. rec'[u] = rec[u]
      BY <1>1, <2>2 DEF StoreInv
    <3>2. RecordInv(u) /\ u \in Nat /\ next \in Nat /\ next' \in Nat
      BY <1>2, <1>7, RecordType
    <3> QED
      BY <1>7, <3>1, <3>2 DEF RecordInv
  <2> QED
    BY <2>1, <2>2
<1>10. CursorInv'
  <2>1. next' \in definition.at \cup {MaxTime + 1}
    BY <1>3, <1>5, <1>6
  <2>2. ASSUME NEW u \in Instant, Scheduled(u)', u < next'
        PROVE  rec'[u].status # "none"
    <3>1. u \in definition.at /\ Scheduled(u) /\ u \in Nat
      BY <1>4, <2>2 DEF Scheduled, Instant
    <3>2. CASE u = t
      BY <1>1, <3>2 DEF StoreInv
    <3>3. CASE u # t
      <4>1. u < next
        BY <1>2, <1>3, <1>6, <2>2, <3>1, <3>3
      <4>2. rec[u].status # "none"
        BY <3>1, <4>1 DEF StoreInv, CursorInv
      <4> QED
        BY <1>1, <3>3, <4>2 DEF StoreInv
    <3> QED
      BY <3>2, <3>3
  <2> QED
    BY <2>1, <2>2 DEF CursorInv
<1> QED
  BY <1>7, <1>9, <1>10 DEF StoreInv

\* A record changed under a live lease: a renewal, or the end of its attempt.
LEMMA OwnerKeepsStore ==
    ASSUME StoreInv, NEW t \in Instant, NEW e \in Record,
           rec[t].status = "running",
           e.attempt = rec[t].attempt, e.status # "none",
           e.status = "running" => /\ e.attempt + Lease <= e.until
                                   /\ e.until <= now + Lease,
           rec' = [rec EXCEPT ![t] = e],
           UNCHANGED <<now, definition, next, since>>
    PROVE  StoreInv'
<1>1. rec' \in [Instant -> Record]
  BY DEF StoreInv
<1>2. ASSUME NEW u \in Instant
      PROVE  RecordInv(u)'
  <2>1. RecordInv(u) /\ RecordInv(t)
    BY RecordType
  <2>2. CASE u = t
    <3>1. rec'[t] = e
      BY DEF StoreInv
    <3> QED
      BY <2>1, <2>2, <3>1 DEF RecordInv
  <2>3. CASE u # t
    <3>1. rec'[u] = rec[u]
      BY <2>3 DEF StoreInv
    <3> QED
      BY <2>1, <3>1 DEF RecordInv
  <2> QED
    BY <2>2, <2>3
<1>3. CursorInv'
  <2>1. ASSUME NEW u \in Instant, Scheduled(u)', u < next'
        PROVE  rec'[u].status # "none"
    <3>1. rec[u].status # "none"
      BY <2>1 DEF Scheduled, StoreInv, CursorInv
    <3> QED
      BY <3>1 DEF StoreInv
  <2> QED
    BY <2>1 DEF CursorInv, StoreInv
<1> QED
  BY <1>1, <1>2, <1>3 DEF StoreInv

\* The records that a claim and a skip write.
LEMMA TakenRecords ==
    ASSUME StoreInv, NEW t, NEW r, NEW e, Takes(t, r, e)
    PROVE  /\ RunRecord(t, r) \in Record /\ EndRecord(t, "skipped") \in Record
           /\ RunRecord(t, r).status = "running"
           /\ EndRecord(t, "skipped").status = "skipped"
<1>1. t \in Instant /\ r \in Time /\ t <= r /\ r <= now
  BY DEF Takes
<1>2. /\ rec[t].attempt \in Nat /\ rec[t].until \in Nat /\ Lease \in Nat /\ 1 <= Lease
      /\ MaxTime \in Nat /\ r \in Nat /\ r <= MaxTime /\ t \in Nat /\ 1 <= t /\ RecordInv(t)
      /\ rec[t].attempt <= MaxTime
  BY <1>1, RecordType DEF Time
<1>3. rec[t].attempt + 1 <= r
  BY <1>1, <1>2 DEF Takes, RecordInv
<1>4. rec[t].attempt + 1 \in 0 .. MaxTime /\ r + Lease \in 0 .. MaxTime + Lease
  BY <1>2, <1>3
<1>5. 0 \in 0 .. MaxTime + Lease /\ rec[t].attempt \in 0 .. MaxTime
  BY <1>2
<1> QED
  BY <1>4, <1>5 DEF RunRecord, EndRecord, Record, Terminal

\* A handler and its invariant.
LEMMA WorkerType ==
    ASSUME HandlerInv, NEW t \in Instant, NEW a \in Attempt
    PROVE  /\ worker[<<t, a>>] \in Worker /\ WorkerInv(t, a)
           /\ worker[<<t, a>>].renewAt \in Time \cup {None}
           /\ worker[<<t, a>>].finishAt \in Time
<1>1. <<t, a>> \in Instant \X Attempt
  BY Zenon
<1>2. worker[<<t, a>>] \in Worker
  BY <1>1 DEF HandlerInv
<1>3. WorkerInv(t, a)
  BY DEF HandlerInv
<1> QED
  BY <1>2, <1>3 DEF Worker

\* What a renewal writes, by a time that was read under the attempt's lease.
Renews(t, a) ==
    LET r == worker[<<t, a>>].renewAt IN
    /\ r \in Time /\ a <= r /\ r <= now
    /\ holds(t, a, r) /\ rec[t].until <= r + Lease
    /\ rec' = [rec EXCEPT ![t] = [status |-> "running", attempt |-> rec[t].attempt,
                                  until |-> r + Lease]]
    /\ revived' = IF rec[t].until <= now THEN revived \cup {t} ELSE revived

LEMMA RenewWrites ==
    ASSUME StoreInv, HandlerInv, NEW t \in Instant, NEW a \in Attempt, NEW w, Renew(t, a, w)
    PROVE  UNCHANGED <<rec, revived>> \/ Renews(t, a)
<1> DEFINE r == worker[<<t, a>>].renewAt
<1>1. r # None /\ r \in Time /\ WorkerInv(t, a)
  BY WorkerType, Zenon DEF Renew
<1>2. a <= r /\ r <= now
      /\ (rec[t].status = "running" /\ rec[t].attempt = a => rec[t].until <= r + Lease)
  BY <1>1 DEF WorkerInv
<1>3. /\ rec' = IF holds(t, a, r) /\ w # "lost" THEN [rec EXCEPT ![t].until = r + Lease] ELSE rec
      /\ revived' = IF holds(t, a, r) /\ w # "lost" /\ rec[t].until <= now
                    THEN revived \cup {t} ELSE revived
  BY DEF Renew
<1> HIDE DEF r
<1>4. CASE ~(holds(t, a, r) /\ w # "lost")
  BY <1>3, <1>4
<1>5. CASE holds(t, a, r) /\ w # "lost"
  <2>1. rec[t].status = "running" /\ rec[t].attempt = a
    BY <1>5 DEF holds
  <2>2. rec' = [rec EXCEPT ![t] = [rec[t] EXCEPT !.until = r + Lease]]
    BY <1>3, <1>5, Zenon
  <2>3. [rec[t] EXCEPT !.until = r + Lease]
          = [status |-> "running", attempt |-> rec[t].attempt, until |-> r + Lease]
    <3>1. \A v \in Record : \A z : [v EXCEPT !.until = z]
             = [status |-> v.status, attempt |-> v.attempt, until |-> z]
      BY DEF Record
    <3> QED
      BY <2>1, <3>1, RecordType
  <2>4. rec' = [rec EXCEPT ![t] = [status |-> "running", attempt |-> rec[t].attempt,
                                   until |-> r + Lease]]
    BY <2>2, <2>3, Zenon
  <2>5. revived' = IF rec[t].until <= now THEN revived \cup {t} ELSE revived
    BY <1>3, <1>5
  <2>6. rec[t].until <= r + Lease
    BY <1>2, <2>1
  <2> QED
    BY <1>1, <1>2, <1>5, <2>4, <2>5, <2>6 DEF Renews, r
<1> QED
  BY <1>4, <1>5

\* What a completion writes, by a time at which the attempt's lease was live.
Completes(t, a) ==
    LET x == worker[<<t, a>>] IN
    /\ x.step = "finish" /\ x.as \in {"succeeded", "failed", "canceled"}
    /\ holds(t, a, x.finishAt)
    /\ rec' = [rec EXCEPT ![t] = EndRecord(t, x.as)]

LEMMA CompleteWrites ==
    ASSUME StoreInv, HandlerInv, NEW t \in Instant, NEW a \in Attempt, NEW w,
           Complete(t, a, w)
    PROVE  UNCHANGED rec \/ Completes(t, a)
<1> DEFINE x == worker[<<t, a>>]
<1>1. x.step = "finish" /\ WorkerInv(t, a)
  BY WorkerType, Zenon DEF Complete
<1>2. x.as \in {"succeeded", "failed", "canceled"}
  BY <1>1 DEF WorkerInv
<1>3. rec' = IF holds(t, a, x.finishAt) /\ w # "lost"
             THEN [rec EXCEPT ![t] = [@ EXCEPT !.status = x.as, !.until = 0]] ELSE rec
  BY Zenon DEF Complete
<1> HIDE DEF x
<1>4. CASE ~(holds(t, a, x.finishAt) /\ w # "lost")
  BY <1>3, <1>4, Zenon
<1>5. CASE holds(t, a, x.finishAt) /\ w # "lost"
  <2>1. rec' = [rec EXCEPT ![t] = [rec[t] EXCEPT !.status = x.as, !.until = 0]]
    BY <1>3, <1>5, Zenon
  <2>2. [rec[t] EXCEPT !.status = x.as, !.until = 0] = EndRecord(t, x.as)
    BY RecordType, Ended, Zenon DEF EndRecord
  <2>3. rec' = [rec EXCEPT ![t] = EndRecord(t, x.as)]
    BY <2>1, <2>2, Zenon
  <2> QED
    BY <1>1, <1>2, <1>5, <2>3, Zenon DEF Completes, x
<1> QED
  BY <1>4, <1>5

\* A reconciliation: the cursor of a new schedule is the first instant to come,
\* so that no occurrence with a record is before it and none is passed over.
LEMMA ReconcileKeepsStore ==
    ASSUME StoreInv, NEW d \in Definition, Reconcile(d), UNCHANGED now
    PROVE  StoreInv'
<1>1. d # None /\ d.at \subseteq Instant /\ now \in Time
  BY Instants DEF StoreInv
<1>2. definition' = d /\ rec' = rec
  BY DEF Reconcile
<1>3. CASE Rescheduled(d)
  <2> DEFINE n == NextRun(d, now)
  <2>1. next' = n /\ since' = now
    BY <1>3 DEF Reconcile
  <2>2. /\ n \in d.at \cup {MaxTime + 1} /\ n \in 0 .. MaxTime + 1 /\ now < n
        /\ \A u \in d.at : now < u => n <= u
    BY <1>1, NextRunIsNext
  <2> HIDE DEF n
  <2>3. ASSUME NEW t \in Instant
        PROVE  RecordInv(t)'
    BY <1>1, <1>2, <2>1, <2>2, RecordType DEF RecordInv
  <2>4. ASSUME NEW t \in Instant, Scheduled(t)', t < next'
        PROVE  FALSE
    <3>1. t \in d.at /\ now < t /\ t < n
      BY <1>1, <1>2, <2>1, <2>4 DEF Scheduled
    <3> QED
      BY <1>1, <2>2, <3>1 DEF Instant, Time
  <2>5. CursorInv'
    BY <1>2, <2>1, <2>2, <2>4 DEF CursorInv
  <2> QED
    BY <1>2, <2>1, <2>2, <2>3, <2>5 DEF StoreInv
<1>4. CASE ~Rescheduled(d)
  <2>1. next' = next /\ since' = since /\ definition # None /\ definition.at = d.at
    BY <1>4 DEF Reconcile, Rescheduled
  <2>2. ASSUME NEW t \in Instant
        PROVE  RecordInv(t)'
    BY <1>1, <1>2, <2>1, RecordType DEF RecordInv
  <2>3. CursorInv'
    BY <1>1, <1>2, <2>1 DEF CursorInv, Scheduled, StoreInv
  <2> QED
    BY <1>2, <2>1, <2>2, <2>3 DEF StoreInv
<1> QED
  BY <1>3, <1>4

\* What the rest of the state relies on: the clock goes forward, a definition
\* stays, a record stays, and its attempts only grow.
Onward ==
    /\ now <= now' /\ now' \in Time
    /\ definition # None => definition' # None
    /\ \A t \in Instant : /\ rec[t].status # "none" => rec'[t].status # "none"
                          /\ rec[t].attempt <= rec'[t].attempt
                          /\ rec'[t].attempt \in Nat

LEMMA QuietOnward ==
    ASSUME StoreInv, UNCHANGED <<now, definition, rec>>
    PROVE  Onward
<1>1. \A t \in Instant : rec[t].attempt \in Nat
  BY RecordType
<1> QED
  BY <1>1 DEF Onward, StoreInv, Time

LEMMA TakingOnward ==
    ASSUME StoreInv, NEW t, NEW r, NEW e \in Record, Takes(t, r, e),
           e.status # "none", rec[t].attempt <= e.attempt, UNCHANGED <<now, definition>>
    PROVE  Onward
<1>1. ASSUME NEW u \in Instant
      PROVE  /\ rec[u].status # "none" => rec'[u].status # "none"
             /\ rec[u].attempt <= rec'[u].attempt /\ rec'[u].attempt \in Nat
  <2>1. rec[u].attempt \in Nat /\ e.attempt \in Nat
    BY RecordType DEF Record
  <2>2. rec'[u] = IF u = t THEN e ELSE rec[u]
    BY DEF Takes, StoreInv
  <2> QED
    BY <2>1, <2>2
<1> QED
  BY <1>1 DEF Onward, StoreInv, Time

\* Taking an occurrence to run it.
LEMMA WritesRun ==
    ASSUME StoreInv, NEW t, NEW r, Takes(t, r, RunRecord(t, r)),
           UNCHANGED <<now, definition, since>>
    PROVE  StoreInv' /\ Onward
<1>1. RunRecord(t, r) \in Record /\ RunRecord(t, r).status = "running"
  BY TakenRecords
<1>2. StoreInv'
  BY <1>1, TakingKeepsStore
<1>3. t \in Instant
  BY DEF Takes
<1>4. rec[t].attempt <= RunRecord(t, r).attempt
  BY <1>3, RecordType DEF RunRecord
<1> QED
  BY <1>1, <1>2, <1>4, TakingOnward

\* Taking an occurrence to skip it.
LEMMA WritesSkip ==
    ASSUME StoreInv, NEW t, NEW r, Takes(t, r, EndRecord(t, "skipped")),
           UNCHANGED <<now, definition, since>>
    PROVE  StoreInv' /\ Onward
<1>1. EndRecord(t, "skipped") \in Record /\ EndRecord(t, "skipped").status = "skipped"
  BY TakenRecords
<1>2. StoreInv'
  BY <1>1, TakingKeepsStore
<1>3. t \in Instant
  BY DEF Takes
<1>4. rec[t].attempt <= EndRecord(t, "skipped").attempt
  BY <1>3, RecordType DEF EndRecord
<1> QED
  BY <1>1, <1>2, <1>4, TakingOnward

LEMMA OwnerOnward ==
    ASSUME StoreInv, NEW t \in Instant, NEW e \in Record, e.attempt = rec[t].attempt,
           e.status # "none", rec' = [rec EXCEPT ![t] = e], UNCHANGED <<now, definition>>
    PROVE  Onward
<1>1. ASSUME NEW u \in Instant
      PROVE  /\ rec[u].status # "none" => rec'[u].status # "none"
             /\ rec[u].attempt <= rec'[u].attempt /\ rec'[u].attempt \in Nat
  <2>1. rec[u].attempt \in Nat /\ e.attempt \in Nat
    BY RecordType DEF Record
  <2>2. rec'[u] = IF u = t THEN e ELSE rec[u]
    BY DEF StoreInv
  <2> QED
    BY <2>1, <2>2
<1> QED
  BY <1>1 DEF Onward, StoreInv, Time

\* Every step keeps the invariant of the store.
LEMMA StoreKept ==
    ASSUME Inv, Next
    PROVE  StoreInv' /\ Onward
<1> USE DEF Inv
<1>0. ASSUME UNCHANGED <<now, definition, next, rec, since>>
      PROVE  StoreInv' /\ Onward
  BY <1>0, QuietStore, QuietOnward DEF StoreQuiet, StoreInv, Time
<1>1. ASSUME NEW p \in Proc, Stop(p) \/ Crash(p)
      PROVE  StoreInv' /\ Onward
  BY <1>0, <1>1, Zenon DEF Stop, Crash, store
<1>2. ASSUME NEW p \in Proc, NEW w \in TxResult, Step(p, w)
      PROVE  StoreInv' /\ Onward
  <2>1. CASE Cycle(p) \/ ReadClock(p) \/ StopOnError(p) \/ Stopped(p)
    BY <1>0, <2>1, Zenon DEF Cycle, ReadClock, StopOnError, Stopped, store, history
  <2>2. CASE Claim(p, w)
    <3>1. UNCHANGED <<now, definition, since>> /\ ClaimTakes(p)
      BY <2>2, ClaimIsTaking, Zenon DEF Claim
    <3> DEFINE t == First(todo[p]).at
               r == stamp[p]
    <3>2. CASE UNCHANGED <<rec, next, worker>>
      BY <1>0, <3>1, <3>2
    <3>3. CASE Takes(t, r, EndRecord(t, "skipped"))
      BY <3>1, <3>3, WritesSkip
    <3>4. CASE Takes(t, r, RunRecord(t, r))
      BY <3>1, <3>4, WritesRun
    <3> QED
      BY <3>1, <3>2, <3>3, <3>4, Zenon DEF ClaimTakes
  <2>3. CASE Skip(p, w)
    <3>1. UNCHANGED <<now, definition, since>> /\ SkipTakes(p)
      BY <2>3, SkipIsTaking, Zenon DEF Skip
    <3> DEFINE t == First(todo[p]).at
               r == stamp[p]
    <3>2. CASE UNCHANGED <<rec, next>>
      BY <1>0, <3>1, <3>2
    <3>3. CASE Takes(t, r, EndRecord(t, "skipped"))
      BY <3>1, <3>3, WritesSkip
    <3> QED
      BY <3>1, <3>2, <3>3, Zenon DEF SkipTakes
  <2>4. ASSUME NEW d \in Definition, Start(p, d, w)
        PROVE  StoreInv' /\ Onward
    <3>1. CASE UNCHANGED <<store, since>>
      BY <1>0, <2>4, <3>1 DEF Start, store
    <3>2. CASE Reconcile(d)
      <4>1. UNCHANGED <<now, rec>> /\ definition' = d /\ d # None
        BY <2>4, <3>2, Instants, Zenon DEF Start, Reconcile
      <4>2. StoreInv'
        BY <3>2, <4>1, ReconcileKeepsStore
      <4>3. \A t \in Instant : rec[t].attempt \in Nat
        BY RecordType
      <4> QED
        BY <4>1, <4>2, <4>3 DEF Onward, StoreInv, Time
    <3> QED
      BY <2>4, <3>1, <3>2, Zenon DEF Start
  <2> QED
    BY <1>2, <2>1, <2>2, <2>3, <2>4, Zenon DEF Step
<1>3. ASSUME NEW t \in Instant, NEW a \in Attempt, RenewTick(t, a)
      PROVE  StoreInv' /\ Onward
  BY <1>0, <1>3, Zenon DEF RenewTick, store, history
<1>4. ASSUME NEW t \in Instant, NEW a \in Attempt, NEW end \in Outcome, HandlerEnds(t, a, end)
      PROVE  StoreInv' /\ Onward
  BY <1>0, <1>4, Zenon DEF HandlerEnds, store, history
<1>5. ASSUME NEW t \in Instant, NEW a \in Attempt, NEW w \in TxResult, Renew(t, a, w)
      PROVE  StoreInv' /\ Onward
  <2>1. UNCHANGED <<now, definition, next, since>> /\ (UNCHANGED rec \/ Renews(t, a))
    BY <1>5, RenewWrites, Zenon DEF Renew
  <2>2. CASE UNCHANGED rec
    BY <1>0, <2>1, <2>2
  <2>3. CASE Renews(t, a)
    <3> DEFINE r == worker[<<t, a>>].renewAt
               e == [status |-> "running", attempt |-> rec[t].attempt, until |-> r + Lease]
    <3>1. /\ r \in Time /\ a <= r /\ r <= now /\ rec[t].status = "running"
          /\ rec[t].attempt = a /\ rec' = [rec EXCEPT ![t] = e]
      BY <2>3 DEF Renews, holds
    <3> HIDE DEF r
    <3>2. r \in Nat /\ r <= MaxTime /\ MaxTime \in Nat /\ Lease \in Nat
      BY <3>1, CronAssumption DEF Time
    <3>3. r + Lease \in 0 .. MaxTime + Lease /\ rec[t].attempt \in 0 .. MaxTime
      BY <3>2, RecordType
    <3>4. e \in Record
      BY <3>3 DEF Record
    <3>5. e.attempt + Lease <= e.until /\ e.until <= now + Lease
      BY <3>1, <3>2, RecordType
    <3>6. StoreInv'
      BY <2>1, <3>1, <3>4, <3>5, OwnerKeepsStore
    <3> QED
      BY <2>1, <3>1, <3>4, <3>6, OwnerOnward
  <2> QED
    BY <2>1, <2>2, <2>3
<1>6. ASSUME NEW t \in Instant, NEW a \in Attempt, NEW w \in TxResult, Complete(t, a, w)
      PROVE  StoreInv' /\ Onward
  <2>1. UNCHANGED <<now, definition, next, since>> /\ (UNCHANGED rec \/ Completes(t, a))
    BY <1>6, CompleteWrites, Zenon DEF Complete, history
  <2>2. CASE UNCHANGED rec
    BY <1>0, <2>1, <2>2
  <2>3. CASE Completes(t, a)
    <3> DEFINE end == worker[<<t, a>>].as
               e == EndRecord(t, end)
    <3>1. /\ rec[t].status = "running" /\ end \in {"succeeded", "failed", "canceled"}
          /\ rec' = [rec EXCEPT ![t] = e]
      BY <2>3 DEF Completes, holds
    <3> HIDE DEF end
    <3>2. 0 \in 0 .. MaxTime + Lease /\ rec[t].attempt \in 0 .. MaxTime
      BY RecordType
    <3>3. e \in Record /\ e.status # "running" /\ e.status # "none"
          /\ e.attempt = rec[t].attempt
      BY <3>1, <3>2 DEF Record, EndRecord, Terminal
    <3> HIDE DEF e
    <3>4. StoreInv'
      BY <2>1, <3>1, <3>3, OwnerKeepsStore
    <3> QED
      BY <2>1, <3>1, <3>3, <3>4, OwnerOnward
  <2> QED
    BY <2>1, <2>2, <2>3
<1>7. ASSUME Tick
      PROVE  StoreInv' /\ Onward
  <2>1. now \in Nat /\ now < MaxTime /\ now' = now + 1 /\ MaxTime \in Nat
    BY <1>7, CronAssumption DEF Tick, StoreInv, Time
  <2>2. UNCHANGED <<definition, next, rec, since>>
    BY <1>7, Zenon DEF Tick, store, history
  <2>3. StoreQuiet
    BY <2>1, <2>2 DEF StoreQuiet, Time
  <2>4. \A t \in Instant : rec[t].attempt \in Nat
    BY RecordType
  <2> QED
    BY <2>2, <2>3, <2>4, QuietStore DEF StoreQuiet, Onward
<1> QED
  BY <1>1, <1>2, <1>3, <1>4, <1>5, <1>6, <1>7, Zenon DEF Next

-----------------------------------------------------------------------------
(* The handlers keep their invariant.                                      *)

\* The fields of a handler that its steps set.
LEMMA WorkerRenewAt ==
    ASSUME NEW v \in Worker, NEW z
    PROVE  [v EXCEPT !.renewAt = z]
             = [step |-> v.step, proc |-> v.proc, renewAt |-> z, finishAt |-> v.finishAt,
                as |-> v.as, lost |-> v.lost]
  BY DEF Worker

LEMMA WorkerRenewed ==
    ASSUME NEW v \in Worker, NEW z, NEW b
    PROVE  [v EXCEPT !.renewAt = z, !.lost = b]
             = [step |-> v.step, proc |-> v.proc, renewAt |-> z, finishAt |-> v.finishAt,
                as |-> v.as, lost |-> b]
<1> DEFINE e == [v EXCEPT !.renewAt = z]
<1>1. [v EXCEPT !.renewAt = z, !.lost = b] = [e EXCEPT !.lost = b]
  BY Zenon
<1> HIDE DEF e
<1>2. e = [step |-> v.step, proc |-> v.proc, renewAt |-> z, finishAt |-> v.finishAt,
           as |-> v.as, lost |-> v.lost]
  BY WorkerRenewAt DEF e
<1>3. [e EXCEPT !.lost = b]
        = [step |-> v.step, proc |-> v.proc, renewAt |-> z, finishAt |-> v.finishAt,
           as |-> v.as, lost |-> b]
  BY <1>2
<1> QED
  BY <1>1, <1>3, Zenon

LEMMA WorkerEnded ==
    ASSUME NEW v \in Worker, NEW f, NEW g
    PROVE  [v EXCEPT !.step = "finish", !.renewAt = None, !.finishAt = f, !.as = g]
             = [step |-> "finish", proc |-> v.proc, renewAt |-> None, finishAt |-> f,
                as |-> g, lost |-> v.lost]
<1> DEFINE e1 == [v EXCEPT !.step = "finish"]
           e2 == [e1 EXCEPT !.renewAt = None]
           e3 == [e2 EXCEPT !.finishAt = f]
<1>1. [v EXCEPT !.step = "finish", !.renewAt = None, !.finishAt = f, !.as = g] = [e3 EXCEPT !.as = g]
  BY Zenon
<1>2. e1 = [step |-> "finish", proc |-> v.proc, renewAt |-> v.renewAt, finishAt |-> v.finishAt,
            as |-> v.as, lost |-> v.lost]
  BY DEF Worker
<1> HIDE DEF e1
<1>3. e2 = [step |-> "finish", proc |-> v.proc, renewAt |-> None, finishAt |-> v.finishAt,
            as |-> v.as, lost |-> v.lost]
  BY <1>2
<1> HIDE DEF e2
<1>4. e3 = [step |-> "finish", proc |-> v.proc, renewAt |-> None, finishAt |-> f,
            as |-> v.as, lost |-> v.lost]
  BY <1>3
<1> HIDE DEF e3
<1>5. [e3 EXCEPT !.as = g] = [step |-> "finish", proc |-> v.proc, renewAt |-> None, finishAt |-> f,
                              as |-> g, lost |-> v.lost]
  BY <1>4
<1> QED
  BY <1>1, <1>5, Zenon

\* The handler that startInvocation starts.
NewWorker(p) == [step |-> "run", proc |-> p, renewAt |-> None, finishAt |-> 0,
                 as |-> "none", lost |-> FALSE]

LEMMA InvokedWorker ==
    ASSUME NEW p
    PROVE  /\ NoWorker \in Worker
           /\ [NoWorker EXCEPT !.step = "run", !.proc = p] = NewWorker(p)
<1>1. None \in Time \cup {None} /\ None \in Proc \cup {None} /\ 0 \in Time
  BY CronAssumption DEF Time
<1>2. NoWorker \in Worker
  BY <1>1 DEF NoWorker, Worker
<1>3. ASSUME NEW v \in Worker
      PROVE  [v EXCEPT !.step = "run", !.proc = p]
               = [step |-> "run", proc |-> p, renewAt |-> v.renewAt, finishAt |-> v.finishAt,
                  as |-> v.as, lost |-> v.lost]
  <2> DEFINE e == [v EXCEPT !.step = "run"]
  <2>1. [v EXCEPT !.step = "run", !.proc = p] = [e EXCEPT !.proc = p]
    BY Zenon
  <2>2. e = [step |-> "run", proc |-> v.proc, renewAt |-> v.renewAt, finishAt |-> v.finishAt,
             as |-> v.as, lost |-> v.lost]
    BY DEF Worker
  <2> HIDE DEF e
  <2>3. [e EXCEPT !.proc = p]
          = [step |-> "run", proc |-> p, renewAt |-> v.renewAt, finishAt |-> v.finishAt,
             as |-> v.as, lost |-> v.lost]
    BY <2>2
  <2> QED
    BY <2>1, <2>3, Zenon
<1>4. /\ NoWorker.renewAt = None /\ NoWorker.finishAt = 0 /\ NoWorker.as = "none"
      /\ NoWorker.lost = FALSE
  BY DEF NoWorker
<1> QED
  BY <1>2, <1>3, <1>4, Zenon DEF NewWorker

\* The lease of a handler that is about to renew it ends by the time it has
\* read and a lease.
Renewable(u, b) ==
    worker[<<u, b>>].renewAt # None /\ rec'[u].status = "running" /\ rec'[u].attempt = b =>
        rec'[u].until <= worker[<<u, b>>].renewAt + Lease

LEMMA RenewableKept ==
    ASSUME HandlerInv, NEW u \in Instant, NEW b \in Attempt, rec'[u] = rec[u]
    PROVE  Renewable(u, b)
  BY WorkerType DEF Renewable, WorkerInv

\* An attempt that was taken has no handler yet.
LEMMA NoHandlerYet ==
    ASSUME StoreInv, HandlerInv, NEW u \in Instant, NEW b \in Attempt, rec[u].attempt < b
    PROVE  worker[<<u, b>>] = NoWorker /\ worker[<<u, b>>].renewAt = None
<1>1. WorkerInv(u, b)
  BY WorkerType
<1>2. worker[<<u, b>>] = NoWorker
  <2>1. rec[u].attempt \in Nat /\ b \in Nat
    BY RecordType DEF Attempt
  <2> QED
    BY <1>1, <2>1 DEF WorkerInv
<1> QED
  BY <1>2 DEF NoWorker

LEMMA TakingRenewable ==
    ASSUME StoreInv, HandlerInv, NEW t, NEW r,
           \/ Takes(t, r, RunRecord(t, r))
           \/ Takes(t, r, EndRecord(t, "skipped")),
           NEW u \in Instant, NEW b \in Attempt
    PROVE  Renewable(u, b)
<1>1. CASE u # t
  <2>1. rec'[u] = rec[u]
    BY <1>1 DEF Takes, StoreInv
  <2> QED
    BY <2>1, RenewableKept
<1>2. CASE u = t /\ Takes(t, r, RunRecord(t, r))
  <2>1. rec'[u] = RunRecord(u, r)
    BY <1>2 DEF Takes, StoreInv
  <2>2. rec'[u].attempt = rec[u].attempt + 1 /\ rec[u].attempt \in Nat
    BY <2>1, RecordType DEF RunRecord
  <2>3. rec'[u].attempt = b => worker[<<u, b>>].renewAt = None
    BY <2>2, NoHandlerYet
  <2> QED
    BY <2>3 DEF Renewable
<1>3. CASE u = t /\ Takes(t, r, EndRecord(t, "skipped"))
  <2>1. rec'[u] = EndRecord(u, "skipped")
    BY <1>3 DEF Takes, StoreInv
  <2>2. rec'[u].status = "skipped"
    BY <2>1 DEF EndRecord
  <2> QED
    BY <2>2 DEF Renewable
<1> QED
  BY <1>1, <1>2, <1>3

\* A handler that a step leaves alone.
LEMMA WorkerFrame ==
    ASSUME StoreInv, HandlerInv, Onward, NEW u \in Instant, NEW b \in Attempt,
           worker'[<<u, b>>] = worker[<<u, b>>], Renewable(u, b)
    PROVE  WorkerInv(u, b)'
<1>1. /\ WorkerInv(u, b) /\ worker[<<u, b>>].renewAt \in Time \cup {None}
      /\ rec[u].attempt \in Nat /\ now \in Nat /\ b \in Nat
  BY WorkerType, RecordType DEF Attempt
<1>2. now' \in Nat /\ now <= now' /\ rec[u].attempt <= rec'[u].attempt
      /\ rec'[u].attempt \in Nat
  BY DEF Onward, Time
<1>3. ASSUME worker[<<u, b>>].renewAt # None
      PROVE  worker[<<u, b>>].renewAt \in Nat
  BY <1>1, <1>3 DEF Time
<1>4. ASSUME worker[<<u, b>>].step # "none"
      PROVE  b <= now' /\ b <= rec'[u].attempt
  <2>1. b <= now /\ b <= rec[u].attempt
    BY <1>1, <1>4 DEF WorkerInv
  <2> QED
    BY <1>1, <1>2, <2>1
<1> QED
  BY <1>1, <1>2, <1>3, <1>4 DEF WorkerInv, Renewable

\* A step that sets one handler.
LEMMA HandlerSet ==
    ASSUME StoreInv, HandlerInv, Onward, NEW t \in Instant, NEW a \in Attempt,
           NEW e \in Worker, worker' = [worker EXCEPT ![<<t, a>>] = e],
           WorkerInv(t, a)',
           \A u \in Instant, b \in Attempt : <<u, b>> # <<t, a>> => Renewable(u, b)
    PROVE  HandlerInv'
<1>1. worker' \in [Instant \X Attempt -> Worker]
  BY DEF HandlerInv
<1>2. ASSUME NEW u \in Instant, NEW b \in Attempt
      PROVE  WorkerInv(u, b)'
  <2>1. CASE u = t /\ b = a
    BY <2>1
  <2>2. CASE ~(u = t /\ b = a)
    <3>1. <<u, b>> # <<t, a>> /\ <<u, b>> \in Instant \X Attempt
      BY <2>2
    <3>2. worker'[<<u, b>>] = worker[<<u, b>>]
      BY <3>1 DEF HandlerInv
    <3> QED
      BY <3>1, <3>2, WorkerFrame
  <2> QED
    BY <2>1, <2>2
<1> QED
  BY <1>1, <1>2 DEF HandlerInv

\* A step that sets none.
LEMMA HandlerQuiet ==
    ASSUME StoreInv, HandlerInv, Onward, UNCHANGED worker,
           \A u \in Instant, b \in Attempt : Renewable(u, b)
    PROVE  HandlerInv'
<1>1. \A u \in Instant, b \in Attempt : WorkerInv(u, b)'
  BY WorkerFrame
<1> QED
  BY <1>1 DEF HandlerInv

\* There is nothing to say of a handler that is gone.
LEMMA IdleWorker ==
    ASSUME NEW u, NEW b, worker'[<<u, b>>] = NoWorker
    PROVE  WorkerInv(u, b)'
<1>1. NoWorker.step = "none" /\ NoWorker.renewAt = None
  BY DEF NoWorker
<1> QED
  BY <1>1, Zenon DEF WorkerInv

\* startInvocation starts the handler of the attempt that was taken.
LEMMA InvokedKeeps ==
    ASSUME StoreInv, HandlerInv, Onward, NEW p \in Proc, NEW t, NEW r,
           Takes(t, r, RunRecord(t, r)), invoked(p, t, "acquired"), UNCHANGED now
    PROVE  HandlerInv'
<1> DEFINE e == NewWorker(p)
<1>1. t \in Instant /\ r \in Time /\ r <= now
  BY DEF Takes
<1>2. /\ RunRecord(t, r) \in Record /\ rec[t].attempt \in Nat
      /\ MaxTime \in Nat /\ RecordInv(t) /\ now \in Nat /\ r \in Nat /\ rec[t].until \in Nat
      /\ Lease \in Nat /\ 1 <= Lease /\ t \in Nat /\ 1 <= t
  BY <1>1, TakenRecords, RecordType DEF Time
<1>3. rec[t].attempt + 1 <= r
  BY <1>1, <1>2 DEF Takes, RecordInv
<1>4. PICK a \in Attempt : a = rec[t].attempt + 1 /\ a <= now
  BY <1>1, <1>2, <1>3 DEF Attempt, Time
<1>5. [NoWorker EXCEPT !.step = "run", !.proc = p] = e
  BY InvokedWorker
<1>6. worker' = [worker EXCEPT ![<<t, a>>] = e]
  BY <1>4, <1>5, Zenon DEF invoked
<1>7. None \in Time \cup {None} /\ 0 \in Time
  BY CronAssumption DEF Time
<1>8. e \in Worker /\ e.step = "run" /\ e.renewAt = None /\ e.proc = p
  BY <1>7 DEF NewWorker, Worker
<1>9. rec'[t].attempt = a
  BY <1>1, <1>4 DEF Takes, RunRecord, StoreInv
<1>10. worker'[<<t, a>>] = e
  <2>1. <<t, a>> \in Instant \X Attempt
    BY <1>1, <1>4, Zenon
  <2> QED
    BY <1>6, <2>1, Zenon DEF HandlerInv
<1> HIDE DEF e
<1>11. WorkerInv(t, a)'
  <2>1. a \in Nat
    BY DEF Attempt
  <2>2. a <= now' /\ a <= rec'[t].attempt
    BY <1>4, <1>9, <2>1
  <2> QED
    BY <1>8, <1>10, <2>2 DEF WorkerInv
<1>12. \A u \in Instant, b \in Attempt : Renewable(u, b)
  BY TakingRenewable
<1>13. \A u \in Instant, b \in Attempt : <<u, b>> # <<t, a>> => Renewable(u, b)
  BY <1>12, Zenon
<1> QED
  BY <1>1, <1>4, <1>6, <1>8, <1>11, <1>13, HandlerSet, Zenon

\* The renewal's clock is read under the lease it renews.
LEMMA RenewTickKeeps ==
    ASSUME StoreInv, HandlerInv, Onward, NEW t \in Instant, NEW a \in Attempt, RenewTick(t, a)
    PROVE  HandlerInv'
<1> DEFINE v == worker[<<t, a>>]
           e == [step |-> "run", proc |-> v.proc, renewAt |-> now,
                 finishAt |-> v.finishAt, as |-> v.as, lost |-> v.lost]
<1>1. v \in Worker /\ WorkerInv(t, a)
  BY WorkerType
<1>2. worker' = [worker EXCEPT ![<<t, a>>] = [v EXCEPT !.renewAt = now]]
  BY Zenon DEF RenewTick
<1>3. v.step = "run" /\ rec' = rec /\ now' = now
  BY Zenon DEF RenewTick, store
<1> HIDE DEF v
<1>4. [v EXCEPT !.renewAt = now] = e
  BY <1>1, <1>3, WorkerRenewAt
<1>5. worker' = [worker EXCEPT ![<<t, a>>] = e]
  BY <1>2, <1>4, Zenon
<1>6. now \in Time \cup {None}
  BY DEF StoreInv
<1>7. e \in Worker /\ e.step = "run" /\ e.renewAt = now /\ e.proc = v.proc
  BY <1>1, <1>6 DEF Worker
<1> HIDE DEF e
<1>8. worker'[<<t, a>>] = e
  BY <1>5, Zenon DEF HandlerInv
<1>9. WorkerInv(t, a)'
  <2>1. a <= now /\ a <= rec[t].attempt /\ v.proc \in Proc
    BY <1>1, <1>3 DEF WorkerInv, v
  <2>2. rec[t].status = "running" => rec[t].until <= now + Lease
    BY RecordType DEF RecordInv
  <2>3. now \in Nat
    BY RecordType
  <2> QED
    BY <1>3, <1>7, <1>8, <2>1, <2>2, <2>3 DEF WorkerInv
<1> QED
  BY <1>3, <1>5, <1>7, <1>9, RenewableKept, HandlerSet

LEMMA HandlerEndsKeeps ==
    ASSUME StoreInv, HandlerInv, Onward, NEW t \in Instant, NEW a \in Attempt,
           NEW end \in Outcome, HandlerEnds(t, a, end)
    PROVE  HandlerInv'
<1> DEFINE v == worker[<<t, a>>]
           e == [step |-> "finish", proc |-> v.proc, renewAt |-> None,
                 finishAt |-> now, as |-> end, lost |-> v.lost]
<1>1. v \in Worker /\ WorkerInv(t, a)
  BY WorkerType
<1>2. worker' = [worker EXCEPT ![<<t, a>>] =
                   [v EXCEPT !.step = "finish", !.renewAt = None, !.finishAt = now, !.as = end]]
  BY Zenon DEF HandlerEnds
<1>3. v.step = "run" /\ rec' = rec /\ now' = now
  BY Zenon DEF HandlerEnds, store
<1> HIDE DEF v
<1>4. [v EXCEPT !.step = "finish", !.renewAt = None, !.finishAt = now, !.as = end] = e
  BY <1>1, WorkerEnded, Zenon
<1>5. worker' = [worker EXCEPT ![<<t, a>>] = e]
  BY <1>2, <1>4, Zenon
<1>6. now \in Time /\ None \in Time \cup {None} /\ end \in {"succeeded", "failed", "canceled"}
  BY CronAssumption DEF StoreInv
<1>7. e \in Worker /\ e.step = "finish" /\ e.renewAt = None /\ e.proc = v.proc
      /\ e.as \in {"succeeded", "failed", "canceled"}
  BY <1>1, <1>6 DEF Worker, Terminal
<1> HIDE DEF e
<1>8. worker'[<<t, a>>] = e
  BY <1>5, Zenon DEF HandlerInv
<1>9. WorkerInv(t, a)'
  <2>1. a <= now /\ a <= rec[t].attempt /\ v.proc \in Proc
    BY <1>1, <1>3 DEF WorkerInv, v
  <2> QED
    BY <1>3, <1>7, <1>8, <2>1 DEF WorkerInv
<1> QED
  BY <1>3, <1>5, <1>7, <1>9, RenewableKept, HandlerSet

\* A renewal uses up the time it has read.
LEMMA RenewKeeps ==
    ASSUME StoreInv, HandlerInv, Onward, NEW t \in Instant, NEW a \in Attempt, NEW w,
           Renew(t, a, w)
    PROVE  HandlerInv'
<1> DEFINE v == worker[<<t, a>>]
           b == ~(holds(t, a, v.renewAt) /\ w = "ok")
           e == [step |-> v.step, proc |-> v.proc, renewAt |-> None,
                 finishAt |-> v.finishAt, as |-> v.as, lost |-> b]
<1>1. v \in Worker /\ WorkerInv(t, a)
  BY WorkerType
<1>2. worker' = [worker EXCEPT ![<<t, a>>] = [v EXCEPT !.renewAt = None, !.lost = b]]
  BY Zenon DEF Renew
<1>3. v.step = "run" /\ now' = now
  BY Zenon DEF Renew
<1>4. b \in BOOLEAN
  OBVIOUS
<1>5. UNCHANGED rec \/ Renews(t, a)
  BY RenewWrites, Zenon
<1> HIDE DEF v, b
<1>6. [v EXCEPT !.renewAt = None, !.lost = b] = e
  BY <1>1, WorkerRenewed, Zenon
<1>7. worker' = [worker EXCEPT ![<<t, a>>] = e]
  BY <1>2, <1>6, Zenon
<1>8. None \in Time \cup {None}
  OBVIOUS
<1>9. e \in Worker /\ e.step = "run" /\ e.renewAt = None /\ e.proc = v.proc
  BY <1>1, <1>3, <1>4, <1>8 DEF Worker
<1> HIDE DEF e
<1>10. worker'[<<t, a>>] = e
  BY <1>7, Zenon DEF HandlerInv
<1>11. WorkerInv(t, a)'
  <2>1. a <= now /\ a <= rec[t].attempt /\ v.proc \in Proc
    BY <1>1, <1>3 DEF WorkerInv, v
  <2>2. rec[t].attempt \in Nat /\ a \in Nat /\ rec[t].attempt <= rec'[t].attempt
        /\ rec'[t].attempt \in Nat
    BY RecordType DEF Onward, Attempt
  <2>3. a <= rec'[t].attempt
    BY <2>1, <2>2
  <2> QED
    BY <1>3, <1>9, <1>10, <2>1, <2>3 DEF WorkerInv
<1>12. ASSUME NEW u \in Instant, NEW c \in Attempt, <<u, c>> # <<t, a>>
       PROVE  Renewable(u, c)
  <2>1. CASE rec'[u] = rec[u]
    BY <2>1, RenewableKept
  <2>2. CASE Renews(t, a) /\ u = t
    <3>1. rec'[u].attempt = a
      BY <2>2 DEF Renews, holds, StoreInv
    <3>2. c # a
      BY <1>12, <2>2
    <3> QED
      BY <3>1, <3>2 DEF Renewable
  <2>3. CASE Renews(t, a) /\ u # t
    <3>1. rec'[u] = rec[u]
      BY <2>3 DEF Renews, StoreInv
    <3> QED
      BY <3>1, RenewableKept
  <2> QED
    BY <1>5, <2>1, <2>2, <2>3
<1> QED
  BY <1>7, <1>9, <1>11, <1>12, HandlerSet

LEMMA CompleteKeeps ==
    ASSUME StoreInv, HandlerInv, Onward, NEW t \in Instant, NEW a \in Attempt, NEW w,
           Complete(t, a, w)
    PROVE  HandlerInv'
<1>1. worker' = [worker EXCEPT ![<<t, a>>] = NoWorker]
  BY Zenon DEF Complete
<1>2. UNCHANGED rec \/ Completes(t, a)
  BY CompleteWrites
<1>3. NoWorker \in Worker
  BY InvokedWorker
<1>4. worker'[<<t, a>>] = NoWorker
  BY <1>1, Zenon DEF HandlerInv
<1>5. WorkerInv(t, a)'
  BY <1>4, IdleWorker
<1>6. ASSUME NEW u \in Instant, NEW c \in Attempt
      PROVE  Renewable(u, c)
  <2>1. CASE rec'[u] = rec[u]
    BY <2>1, RenewableKept
  <2>2. CASE Completes(t, a) /\ u = t
    <3>1. rec'[u].status \in {"succeeded", "failed", "canceled"}
      BY <2>2 DEF Completes, EndRecord, StoreInv
    <3> QED
      BY <3>1 DEF Renewable
  <2>3. CASE Completes(t, a) /\ u # t
    <3>1. rec'[u] = rec[u]
      BY <2>3 DEF Completes, StoreInv
    <3> QED
      BY <3>1, RenewableKept
  <2> QED
    BY <1>2, <2>1, <2>2, <2>3
<1> QED
  BY <1>1, <1>3, <1>5, <1>6, HandlerSet

\* Every step keeps the invariant of the handlers.
LEMMA HandlersKept ==
    ASSUME Inv, Next
    PROVE  HandlerInv'
<1> USE DEF Inv
<1>0. Onward
  BY StoreKept
<1>1. ASSUME UNCHANGED <<rec, worker>>
      PROVE  HandlerInv'
  BY <1>0, <1>1, RenewableKept, HandlerQuiet
<1>2. ASSUME NEW p \in Proc, Stop(p)
      PROVE  HandlerInv'
  BY <1>1, <1>2, Zenon DEF Stop, store
<1>3. ASSUME NEW p \in Proc, Crash(p)
      PROVE  HandlerInv'
  <2>1. rec' = rec
    BY <1>3, Zenon DEF Crash, store
  <2>2. worker' = [x \in Instant \X Attempt |->
                     IF worker[x].proc = p THEN NoWorker ELSE worker[x]]
    BY <1>3, Zenon DEF Crash
  <2>3. NoWorker \in Worker
    BY InvokedWorker
  <2>4. worker' \in [Instant \X Attempt -> Worker]
    BY <2>2, <2>3 DEF HandlerInv
  <2>5. ASSUME NEW u \in Instant, NEW b \in Attempt
        PROVE  WorkerInv(u, b)'
    <3>1. <<u, b>> \in Instant \X Attempt
      BY Zenon
    <3>2. worker'[<<u, b>>] \in {NoWorker, worker[<<u, b>>]}
      BY <2>2, <3>1
    <3>3. CASE worker'[<<u, b>>] = NoWorker
      BY <3>3, IdleWorker
    <3>4. CASE worker'[<<u, b>>] = worker[<<u, b>>]
      BY <1>0, <2>1, <3>4, RenewableKept, WorkerFrame
    <3> QED
      BY <3>2, <3>3, <3>4
  <2> QED
    BY <2>4, <2>5 DEF HandlerInv
<1>4. ASSUME NEW p \in Proc, NEW w \in TxResult, Step(p, w)
      PROVE  HandlerInv'
  <2>1. CASE Cycle(p) \/ ReadClock(p) \/ StopOnError(p) \/ Stopped(p)
    BY <1>1, <2>1, Zenon DEF Cycle, ReadClock, StopOnError, Stopped, store
  <2>2. CASE Claim(p, w)
    <3> DEFINE t == First(todo[p]).at
               r == stamp[p]
    <3>1. ClaimTakes(p) /\ UNCHANGED now
      BY <2>2, ClaimIsTaking, Zenon DEF Claim
    <3>2. CASE UNCHANGED <<rec, next, worker>>
      BY <1>1, <3>2
    <3>3. CASE Takes(t, r, EndRecord(t, "skipped")) /\ UNCHANGED worker
      BY <1>0, <3>3, TakingRenewable, HandlerQuiet
    <3>4. CASE Takes(t, r, RunRecord(t, r)) /\ UNCHANGED worker
      BY <1>0, <3>4, TakingRenewable, HandlerQuiet
    <3>5. CASE Takes(t, r, RunRecord(t, r)) /\ invoked(p, t, "acquired")
      BY <1>0, <3>1, <3>5, InvokedKeeps
    <3> QED
      BY <3>1, <3>2, <3>3, <3>4, <3>5, Zenon DEF ClaimTakes
  <2>3. CASE Skip(p, w)
    <3> DEFINE t == First(todo[p]).at
    <3>1. SkipTakes(p) /\ UNCHANGED worker
      BY <2>3, SkipIsTaking, Zenon DEF Skip
    <3>2. CASE UNCHANGED <<rec, next>>
      BY <1>1, <3>1, <3>2
    <3>3. CASE Takes(t, stamp[p], EndRecord(t, "skipped"))
      BY <1>0, <3>1, <3>3, TakingRenewable, HandlerQuiet
    <3> QED
      BY <3>1, <3>2, <3>3, Zenon DEF SkipTakes
  <2>4. ASSUME NEW d \in Definition, Start(p, d, w)
        PROVE  HandlerInv'
    <3>1. UNCHANGED <<rec, worker>>
      BY <2>4, Zenon DEF Start, Reconcile, store
    <3> QED
      BY <1>1, <3>1
  <2> QED
    BY <1>4, <2>1, <2>2, <2>3, <2>4, Zenon DEF Step
<1>5. ASSUME NEW t \in Instant, NEW a \in Attempt, RenewTick(t, a)
      PROVE  HandlerInv'
  BY <1>0, <1>5, RenewTickKeeps
<1>6. ASSUME NEW t \in Instant, NEW a \in Attempt, NEW end \in Outcome, HandlerEnds(t, a, end)
      PROVE  HandlerInv'
  BY <1>0, <1>6, HandlerEndsKeeps
<1>7. ASSUME NEW t \in Instant, NEW a \in Attempt, NEW w \in TxResult, Renew(t, a, w)
      PROVE  HandlerInv'
  BY <1>0, <1>7, RenewKeeps
<1>8. ASSUME NEW t \in Instant, NEW a \in Attempt, NEW w \in TxResult, Complete(t, a, w)
      PROVE  HandlerInv'
  BY <1>0, <1>8, CompleteKeeps
<1>9. ASSUME Tick
      PROVE  HandlerInv'
  BY <1>1, <1>9, Zenon DEF Tick, store
<1> QED
  BY <1>2, <1>3, <1>4, <1>5, <1>6, <1>7, <1>8, <1>9, Zenon DEF Next

-----------------------------------------------------------------------------
(* The loops keep their invariant.                                         *)

\* The fields of a runtimeJob.
LEMMA JobFields ==
    ASSUME NEW j \in Job
    PROVE  /\ j.def \in Definition /\ j.next \in 0 .. MaxTime + 1 /\ j.startup \in BOOLEAN
           /\ j.def.at \subseteq Instant
           /\ \A b : [j EXCEPT !.startup = b] = [def |-> j.def, next |-> j.next, startup |-> b]
           /\ \A n : [j EXCEPT !.next = n] = [def |-> j.def, next |-> n, startup |-> j.startup]
<1>1. j.def \in Definition /\ j.next \in 0 .. MaxTime + 1 /\ j.startup \in BOOLEAN
  BY DEF Job
<1>2. j.def.at \subseteq Instant
  BY <1>1, Instants
<1>3. ASSUME NEW b
      PROVE  [j EXCEPT !.startup = b] = [def |-> j.def, next |-> j.next, startup |-> b]
  BY DEF Job
<1>4. ASSUME NEW n
      PROVE  [j EXCEPT !.next = n] = [def |-> j.def, next |-> n, startup |-> j.startup]
  BY DEF Job
<1> QED
  BY <1>1, <1>2, <1>3, <1>4, Zenon

\* A loop that a step leaves alone.
SameLoop(q) ==
    /\ state'[q] = state[q] /\ job'[q] = job[q] /\ pc'[q] = pc[q] /\ cycle'[q] = cycle[q]
    /\ todo'[q] = todo[q] /\ stamp'[q] = stamp[q] /\ more'[q] = more[q]
    /\ started'[q] = started[q]

LEMMA LoopFrame ==
    ASSUME StoreInv, LoopInv, Onward, NEW q \in Proc, SameLoop(q)
    PROVE  ProcInv(q)' /\ CatchUpInv(q)'
<1>1. /\ ProcInv(q) /\ CatchUpInv(q) /\ cycle[q] \in Nat /\ started[q] \in Nat
      /\ todo[q] \in SUBSET Work /\ stamp[q] \in Time \cup {None}
  BY DEF LoopInv, Time
<1>2. now \in Nat /\ now' \in Nat /\ now <= now'
  BY DEF Onward, StoreInv, Time
<1>3. \A x \in todo[q] : x.at \in Instant /\ x.at \in Nat
  BY <1>1 DEF Work, Instant
<1>4. ProcInv(q)'
  <2>1. stamp[q] # None => stamp[q] \in Nat
    BY <1>1 DEF Time
  <2>2. \A x \in todo[q] : x.at <= now'
    BY <1>1, <1>2, <1>3 DEF ProcInv
  <2>3. cycle[q] <= now' /\ (stamp[q] # None => stamp[q] <= now')
    BY <1>1, <1>2, <2>1 DEF ProcInv
  <2> QED
    BY <1>1, <2>2, <2>3 DEF ProcInv, SameLoop, Onward
<1>5. CatchUpInv(q)'
  <2>1. \A x \in todo[q] : rec[x.at].status # "none" => rec'[x.at].status # "none"
    BY <1>3 DEF Onward
  <2>2. state[q] = "up" => started[q] <= now'
    BY <1>1, <1>2 DEF CatchUpInv
  <2> QED
    BY <1>1, <2>1, <2>2 DEF CatchUpInv, SameLoop
<1> QED
  BY <1>4, <1>5

\* The types of the loops' variables.
LoopTypes ==
    /\ state \in [Proc -> {"down", "up", "stopping"}]
    /\ job \in [Proc -> Job \cup {None}]
    /\ pc \in [Proc -> {"start", "wait", "recover", "due"}]
    /\ cycle \in [Proc -> Time] /\ todo \in [Proc -> SUBSET Work]
    /\ stamp \in [Proc -> Time \cup {None}] /\ more \in [Proc -> BOOLEAN]
    /\ started \in [Proc -> Time]

LEMMA LoopQuiet ==
    ASSUME StoreInv, LoopInv, Onward,
           UNCHANGED <<state, job, pc, cycle, todo, stamp, more, started>>
    PROVE  LoopInv'
<1>1. \A q \in Proc : SameLoop(q)
  BY DEF SameLoop
<1>2. LoopTypes'
  BY DEF LoopTypes, LoopInv
<1> QED
  BY <1>1, <1>2, LoopFrame DEF LoopInv, LoopTypes

\* A process that leaves its loop.
LEMMA LeaveKeeps ==
    ASSUME StoreInv, LoopInv, Onward, NEW p \in Proc, NEW to \in {"down", "stopping"},
           Leave(p, to)
    PROVE  LoopInv'
<1>1. LoopTypes'
  <2>1. 0 \in Time
    BY CronAssumption DEF Time
  <2> QED
    BY <2>1 DEF LoopTypes, LoopInv, Leave
<1>2. ASSUME NEW q \in Proc, q # p
      PROVE  SameLoop(q)
  BY <1>2 DEF SameLoop, LoopInv, Leave
<1>3. ProcInv(p)' /\ CatchUpInv(p)'
  <2>1. state'[p] # "up" /\ todo'[p] = {} /\ stamp'[p] = None /\ cycle'[p] = 0
    BY DEF LoopInv, Leave
  <2>2. 0 <= now'
    BY DEF Onward, Time
  <2> QED
    BY <2>1, <2>2 DEF ProcInv, CatchUpInv
<1> QED
  BY <1>1, <1>2, <1>3, LoopFrame DEF LoopInv, LoopTypes

\* While a process is starting up, or once it has ended, nothing of its cursor
\* on that came by its start is hidden from its policy.
PastStartup(p, d, n) == \A u \in d.at : n <= u => started[p] < u

\* collectDue: what is listed has come, begins at the cursor, and is listed to
\* run only as the catch-up policy has it.
LEMMA CollectKeeps ==
    ASSUME StoreInv, LoopInv, Onward, NEW p \in Proc, NEW j \in Job, NEW t \in Time,
           t <= now, started[p] <= t, state[p] = "up", definition # None,
           ~j.startup => PastStartup(p, j.def, j.next),
           Collect(p, j, t), stamp' = [stamp EXCEPT ![p] = None],
           UNCHANGED <<state, started>>
    PROVE  LoopInv'
<1> DEFINE d == j.def
           D == due(d, j.next, t)
           B == batch(d, j.next, t)
           left == B # D
           skip(u) == skipped(u, B, d.catchUp, j.startup, left)
           W(u) == [at |-> u, until |-> 0, skip |-> skip(u)]
           L == {W(u) : u \in B}
           k == [def |-> d, next |-> j.next, startup |-> j.startup /\ B # {}]
<1>1. /\ d \in Definition /\ j.next \in 0 .. MaxTime + 1 /\ j.startup \in BOOLEAN
      /\ d.at \subseteq Instant /\ MaxTime \in Nat /\ Lease \in Nat
      /\ d.catchUp \in CatchUp
  BY JobFields, Instants, CronAssumption
<1>2. j.next \in Nat /\ t \in Nat /\ started[p] \in Nat /\ now \in Nat /\ now' \in Nat /\ now <= now'
  BY <1>1 DEF LoopInv, StoreInv, Onward, Time
<1>3. B \subseteq D /\ (B = {} => D = {})
  BY <1>1, <1>2, BatchOfDue
<1>4. D = {u \in d.at : j.next <= u /\ u <= t}
  BY DEF due
<1>5. /\ todo' = [todo EXCEPT ![p] = L]
      /\ more' = [more EXCEPT ![p] = left]
      /\ pc' = [pc EXCEPT ![p] = IF B = {} THEN "wait" ELSE "due"]
      /\ cycle' = [cycle EXCEPT ![p] = 0]
  BY Zenon DEF Collect
<1>6. job' = [job EXCEPT ![p] = k]
  <2>1. job' = [job EXCEPT ![p] = [j EXCEPT !.startup = j.startup /\ B # {}]]
    BY Zenon DEF Collect
  <2>2. [j EXCEPT !.startup = j.startup /\ B # {}] = k
    BY JobFields, Zenon
  <2> QED
    BY <2>1, <2>2, Zenon
<1>7. \A u \in B : skip(u) \in BOOLEAN
  BY DEF skipped
<1>8. ASSUME NEW u \in B, ~skip(u)
      PROVE  \/ d.catchUp = "all"
             \/ /\ ~(j.startup /\ d.catchUp = "none") /\ B = D
                /\ \A v \in B : ~(v > u)
  BY <1>8 DEF skipped
<1> HIDE DEF B, D, skip
<1>9. \A x \in L : /\ x.at \in B /\ x.at \in Instant /\ x.until = 0 /\ x = W(x.at)
                   /\ x \in Work /\ x.skip = skip(x.at)
  <2>1. 0 \in 0 .. MaxTime + Lease
    BY <1>1
  <2>2. \A u \in B : u \in Instant /\ skip(u) \in BOOLEAN
    BY <1>1, <1>3, <1>4, <1>7
  <2> QED
    BY <2>1, <2>2 DEF Work
<1>10. \A u \in B : \E x \in L : x.at = u
  <2>1. \A u \in B : W(u) \in L /\ W(u).at = u
    OBVIOUS
  <2> QED
    BY <2>1
<1>11. k \in Job /\ k.def = d /\ k.next = j.next /\ k.startup = (j.startup /\ B # {})
  BY <1>1 DEF Job
<1> HIDE DEF L, k
<1>12. LoopTypes'
  <2>1. L \in SUBSET Work /\ left \in BOOLEAN /\ 0 \in Time
    BY <1>1, <1>9 DEF Time
  <2> QED
    BY <1>5, <1>6, <1>11, <2>1 DEF LoopTypes, LoopInv
<1>13. ASSUME NEW q \in Proc, q # p
       PROVE  SameLoop(q)
  BY <1>5, <1>6, <1>13 DEF SameLoop, LoopInv
<1>14. /\ state'[p] = "up" /\ job'[p] = k /\ todo'[p] = L /\ stamp'[p] = None
       /\ more'[p] = left /\ cycle'[p] = 0 /\ started'[p] = started[p]
       /\ pc'[p] = IF B = {} THEN "wait" ELSE "due"
  BY <1>5, <1>6 DEF LoopInv
<1>15. ProcInv(p)'
  <2>1. \A x \in L : x.at <= now'
    BY <1>1, <1>2, <1>3, <1>4, <1>9 DEF Instant
  <2>2. \A x, y \in L : x.at = y.at => x = y
    BY <1>9, Zenon
  <2> QED
    BY <1>2, <1>11, <1>14, <2>1, <2>2 DEF ProcInv, Onward
<1>16. CatchUpInv(p)'
  <2>1. \A u \in d.at : u \in Nat
    BY <1>1 DEF Instant
  <2>2. B = {} => L = {}
    BY <1>9
  <2>3. ~k.startup => \A u \in d.at : k.next <= u => started[p] < u
    <3>1. CASE ~j.startup
      BY <1>11, <3>1 DEF PastStartup
    <3>2. CASE B = {}
      <4>1. \A u \in d.at : ~(j.next <= u /\ u <= t)
        BY <1>3, <1>4, <3>2
      <4> QED
        BY <1>2, <1>11, <2>1, <4>1
    <3> QED
      BY <1>11, <3>1, <3>2
  <2>4. \A x \in L : x.until = 0 /\ x.at \in d.at /\ k.next <= x.at
    BY <1>3, <1>4, <1>9, <1>11
  <2>5. ASSUME NEW x \in L, ~x.skip, x.at <= started[p]
        PROVE  \/ d.catchUp = "all"
               \/ d.catchUp = "latest" /\ \A u \in d.at : u <= started[p] => u <= x.at
    <3>1. x.at \in B /\ ~skip(x.at) /\ x.at \in d.at /\ j.next <= x.at
      BY <1>9, <1>11, <2>4, <2>5
    <3>2. j.startup
      BY <1>2, <2>1, <2>5, <3>1 DEF PastStartup
    <3>3. CASE d.catchUp # "all"
      <4>1. d.catchUp = "latest" /\ B = D /\ \A v \in B : ~(v > x.at)
        BY <1>1, <1>8, <3>1, <3>2, <3>3 DEF CatchUp
      <4>2. ASSUME NEW u \in d.at, u <= started[p]
            PROVE  u <= x.at
        <5>1. CASE j.next <= u
          <6>1. u \in B
            BY <1>2, <1>4, <2>1, <4>1, <4>2, <5>1
          <6> QED
            BY <2>1, <3>1, <4>1, <6>1
        <5>2. CASE ~(j.next <= u)
          BY <1>2, <2>1, <3>1, <5>2
        <5> QED
          BY <5>1, <5>2
      <4> QED
        BY <4>1, <4>2
    <3> QED
      BY <3>3
  <2>6. ~left => \A u \in d.at : k.next <= u /\ u <= started[p] => \E x \in L : x.at = u
    <3>1. ASSUME ~left, NEW u \in d.at, j.next <= u, u <= started[p]
          PROVE  u \in B
      BY <1>2, <1>4, <2>1, <3>1
    <3> QED
      BY <1>10, <1>11, <3>1
  <2>7. started[p] <= now'
    BY <1>2
  <2> HIDE DEF left
  <2>8. CASE B = {}
    BY <1>11, <1>14, <2>2, <2>3, <2>7, <2>8 DEF CatchUpInv
  <2>9. CASE B # {}
    BY <1>11, <1>14, <2>3, <2>4, <2>5, <2>6, <2>7, <2>9 DEF CatchUpInv
  <2> QED
    BY <2>8, <2>9
<1> QED
  BY <1>12, <1>13, <1>15, <1>16, LoopFrame DEF LoopInv, LoopTypes

\* The cycle goes on: after an occurrence that was due, the cursor is at the
\* next instant of the schedule, and startup ends with the last batch.
LEMMA GoOnKeeps ==
    ASSUME StoreInv, LoopInv, Onward, NEW p \in Proc, todo[p] # {},
           NEW n \in 0 .. MaxTime + 1, GoOn(p, First(todo[p]), n),
           pc[p] = "recover" => job[p].next <= n,
           pc[p] = "due" => n = NextRun(job[p].def, First(todo[p]).at)
    PROVE  LoopInv'
<1> DEFINE x == First(todo[p])
           rest == todo[p] \ {x}
           d == job[p].def
           j == [job[p] EXCEPT !.next = n]
           k == [def |-> d, next |-> n,
                 startup |-> job[p].startup /\ (rest # {} \/ more[p])]
<1>1. /\ x \in todo[p] /\ \A y \in rest : Before(x, y)
      /\ x \in Work /\ x.at \in Instant
      /\ state[p] = "up" /\ job[p] \in Job /\ definition \in Definition
  BY HeadHasCome
<1>2. /\ d \in Definition /\ job[p].next \in 0 .. MaxTime + 1 /\ job[p].startup \in BOOLEAN
      /\ d.at \subseteq Instant /\ MaxTime \in Nat /\ definition # None
  BY <1>1, JobFields, Instants, CronAssumption
<1>3. j = [def |-> d, next |-> n, startup |-> job[p].startup]
  BY <1>1, JobFields, Zenon
<1>4. j \in Job /\ j.def = d /\ j.next = n /\ j.startup = job[p].startup
  BY <1>2, <1>3 DEF Job
<1>5. stamp' = [stamp EXCEPT ![p] = None] /\ UNCHANGED <<state, started>>
  BY Zenon DEF GoOn
<1>6. /\ CatchUpInv(p) /\ ProcInv(p) /\ pc[p] \in {"start", "wait", "recover", "due"}
      /\ cycle[p] \in Time /\ started[p] \in Nat /\ started[p] \in Time /\ todo[p] \in SUBSET Work
      /\ more[p] \in BOOLEAN
  BY DEF LoopInv, Time
<1>7. pc[p] \in {"recover", "due"}
  BY <1>1, <1>6 DEF CatchUpInv
<1>8. n \in Nat /\ job[p].next \in Nat /\ now \in Nat /\ now' \in Nat /\ now <= now'
      /\ \A u \in d.at : u \in Nat
  BY <1>2 DEF Onward, StoreInv, Time, Instant
<1>9. CASE rest = {} /\ pc[p] = "recover"
  <2>1. Collect(p, j, cycle[p])
    BY <1>9, Zenon DEF GoOn
  <2>2. cycle[p] <= now /\ started[p] <= cycle[p]
    BY <1>1, <1>6, <1>9 DEF ProcInv, CatchUpInv
  <2>3. ~j.startup => PastStartup(p, j.def, j.next)
    <3>1. job[p].next <= n
      BY <1>9
    <3>2. ~job[p].startup => \A u \in d.at : job[p].next <= u => started[p] < u
      BY <1>1, <1>6 DEF CatchUpInv
    <3> QED
      BY <1>4, <1>8, <3>1, <3>2 DEF PastStartup
  <2> HIDE DEF j
  <2> QED
    BY <1>1, <1>2, <1>4, <1>5, <1>6, <2>1, <2>2, <2>3, CollectKeeps
<1>10. CASE ~(rest = {} /\ pc[p] = "recover")
  <2>1. /\ todo' = [todo EXCEPT ![p] = rest]
        /\ pc' = [pc EXCEPT ![p] = IF rest = {} THEN "wait" ELSE pc[p]]
        /\ job' = [job EXCEPT ![p] =
                     [j EXCEPT !.startup = j.startup /\ (rest # {} \/ more[p])]]
        /\ UNCHANGED <<cycle, more>>
    BY <1>10, Zenon DEF GoOn
  <2>2. [j EXCEPT !.startup = j.startup /\ (rest # {} \/ more[p])] = k
    <3> HIDE DEF j
    <3>1. \A b : [j EXCEPT !.startup = b] = [def |-> j.def, next |-> j.next, startup |-> b]
      BY <1>4, JobFields
    <3> QED
      BY <1>4, <3>1, Zenon
  <2>3. job' = [job EXCEPT ![p] = k]
    BY <2>1, <2>2, Zenon
  <2>4. k \in Job /\ k.def = d /\ k.next = n
        /\ k.startup = (job[p].startup /\ (rest # {} \/ more[p]))
    BY <1>2, <1>6 DEF Job
  <2> HIDE DEF x, j, k
  <2>5. rest \in SUBSET Work /\ rest \subseteq todo[p]
    BY <1>6
  <2>6. LoopTypes'
    BY <1>5, <1>6, <2>1, <2>3, <2>4, <2>5 DEF LoopTypes, LoopInv
  <2>7. ASSUME NEW q \in Proc, q # p
        PROVE  SameLoop(q)
    BY <1>5, <2>1, <2>3, <2>7 DEF SameLoop, LoopInv
  <2>8. /\ state'[p] = "up" /\ job'[p] = k /\ todo'[p] = rest /\ stamp'[p] = None
        /\ more'[p] = more[p] /\ cycle'[p] = cycle[p] /\ started'[p] = started[p]
        /\ pc'[p] = IF rest = {} THEN "wait" ELSE pc[p]
    BY <1>1, <1>5, <2>1, <2>3 DEF LoopInv
  <2>9. \A y \in todo[p] : y.at \in Instant /\ y.at \in Nat /\ y.until \in Nat
    BY <1>6, CronAssumption DEF Work, Instant
  <2> HIDE DEF rest
  <2>10. ProcInv(p)'
    <3>1. \A y \in rest : y.at <= now'
      BY <1>6, <1>8, <2>5, <2>9 DEF ProcInv
    <3>2. \A y, z \in rest : y.at = z.at => y = z
      BY <1>6, <2>5, Zenon DEF ProcInv
    <3>3. cycle[p] <= now'
      BY <1>6, <1>8 DEF ProcInv, Time
    <3> QED
      BY <1>2, <2>4, <2>8, <3>1, <3>2, <3>3 DEF ProcInv, Onward
  <2>11. started[p] <= now'
    BY <1>1, <1>6, <1>8 DEF CatchUpInv
  <2>12. CASE pc[p] = "recover"
    <3>1. rest # {} /\ pc'[p] = "recover"
      BY <1>10, <2>8, <2>12
    <3>2. ~k.startup => \A u \in d.at : n <= u => started[p] < u
      <4>1. job[p].next <= n
        BY <2>12
      <4>2. ~job[p].startup => \A u \in d.at : job[p].next <= u => started[p] < u
        BY <1>1, <1>6 DEF CatchUpInv
      <4>3. ~k.startup => ~job[p].startup
        BY <2>4, <3>1, Zenon
      <4> QED
        BY <1>8, <4>1, <4>2, <4>3
    <3>3. \A y \in rest : ~y.skip /\ rec'[y.at].status # "none"
      BY <1>1, <1>6, <2>5, <2>9, <2>12 DEF CatchUpInv, Onward
    <3>4. started[p] <= cycle[p]
      BY <1>1, <1>6, <2>12 DEF CatchUpInv
    <3>5. CatchUpInv(p)'
      BY <2>4, <2>8, <2>11, <3>1, <3>2, <3>3, <3>4 DEF CatchUpInv
    <3> QED
      BY <2>6, <2>7, <2>10, <3>5, LoopFrame DEF LoopInv, LoopTypes
  <2>13. CASE pc[p] = "due"
    <3>1. /\ \A y \in todo[p] : y.until = 0 /\ y.at \in d.at /\ job[p].next <= y.at
          /\ \A y \in todo[p] : ~y.skip /\ y.at <= started[p] =>
                \/ d.catchUp = "all"
                \/ d.catchUp = "latest" /\ \A u \in d.at : u <= started[p] => u <= y.at
          /\ ~more[p] => \A u \in d.at : job[p].next <= u /\ u <= started[p] =>
                            \E y \in todo[p] : y.at = u
          /\ ~job[p].startup => \A u \in d.at : job[p].next <= u => started[p] < u
      BY <1>1, <1>6, <2>13 DEF CatchUpInv
    <3>2. /\ n = NextRun(d, x.at) /\ x.at < n /\ \A u \in d.at : x.at < u => n <= u
      <4>1. x.at \in Time
        BY <1>1 DEF Time, Instant
      <4> QED
        BY <1>2, <2>13, <4>1, NextRunIsNext DEF x
    <3>3. \A y \in rest : x.at < y.at
      BY <1>1, <2>5, <2>9, <3>1 DEF Before
    <3>4. \A y \in todo[p] : y = x \/ y \in rest
      BY DEF rest
    <3>5. \A y \in rest : y.until = 0 /\ y.at \in d.at /\ n <= y.at
      BY <2>5, <3>1, <3>2, <3>3
    <3>6. x.at \in Nat /\ job[p].next <= x.at
      BY <1>1, <2>9, <3>1
    <3>7. ~more[p] => \A u \in d.at : n <= u /\ u <= started[p] => \E y \in rest : y.at = u
      <4>1. ASSUME ~more[p], NEW u \in d.at, n <= u, u <= started[p]
            PROVE  \E y \in rest : y.at = u
        <5>1. job[p].next <= u /\ u # x.at
          BY <1>8, <3>2, <3>6, <4>1
        <5>2. PICK y \in todo[p] : y.at = u
          BY <3>1, <4>1, <5>1
        <5> QED
          BY <3>4, <5>1, <5>2
      <4> QED
        BY <4>1
    <3>8. ~k.startup => \A u \in d.at : n <= u => started[p] < u
      <4>1. CASE ~job[p].startup
        BY <1>8, <3>1, <3>2, <3>6, <4>1
      <4>2. CASE rest = {} /\ ~more[p]
        BY <1>6, <1>8, <3>7, <4>2
      <4> QED
        BY <2>4, <4>1, <4>2
    <3>9. CASE rest = {}
      <4>1. pc'[p] = "wait"
        BY <2>8, <3>9
      <4> QED
        BY <2>4, <2>6, <2>7, <2>8, <2>10, <2>11, <3>8, <3>9, <4>1, LoopFrame
           DEF LoopInv, LoopTypes, CatchUpInv
    <3>10. CASE rest # {}
      <4>1. pc'[p] = "due"
        BY <2>8, <2>13, <3>10
      <4>2. CatchUpInv(p)'
        BY <2>4, <2>5, <2>8, <2>11, <3>1, <3>5, <3>7, <3>8, <4>1 DEF CatchUpInv
      <4> QED
        BY <2>6, <2>7, <2>10, <4>2, LoopFrame DEF LoopInv, LoopTypes
    <3> QED
      BY <3>9, <3>10
  <2> QED
    BY <1>7, <2>12, <2>13
<1> QED
  BY <1>9, <1>10

\* A process that starts lists nothing yet, and its first cycle goes by the
\* time of the start.
LEMMA StartKeeps ==
    ASSUME StoreInv, LoopInv, Onward, StoreInv', NEW p \in Proc, NEW d \in Definition, NEW w,
           Start(p, d, w)
    PROVE  LoopInv'
<1>1. CASE w # "ok"
  BY <1>1, LoopQuiet, Zenon DEF Start
<1>2. CASE w = "ok"
  <2> DEFINE k == [def |-> d, next |-> next', startup |-> TRUE]
  <2>1. /\ state[p] = "down" /\ now' = now
        /\ state' = [state EXCEPT ![p] = "up"] /\ job' = [job EXCEPT ![p] = k]
        /\ pc' = [pc EXCEPT ![p] = "start"] /\ cycle' = [cycle EXCEPT ![p] = now]
        /\ started' = [started EXCEPT ![p] = now] /\ UNCHANGED <<todo, stamp, more>>
    BY <1>2, Zenon DEF Start
  <2>2. definition' = d /\ d # None
    <3>1. w # "lost"
      BY <1>2
    <3> QED
      BY <3>1, Instants, Zenon DEF Start, Reconcile
  <2>3. k \in Job /\ k.startup = TRUE
    BY DEF Job, StoreInv
  <2> HIDE DEF k
  <2>4. now \in Time /\ now \in Nat
    BY DEF StoreInv, Time
  <2>5. LoopTypes'
    BY <2>1, <2>3, <2>4 DEF LoopTypes, LoopInv
  <2>6. ASSUME NEW q \in Proc, q # p
        PROVE  SameLoop(q)
    BY <2>1, <2>6 DEF SameLoop, LoopInv
  <2>7. ProcInv(p)
    BY DEF LoopInv
  <2>8. todo[p] = {} /\ stamp[p] = None
    BY <2>1, <2>7 DEF ProcInv
  <2>9. /\ state'[p] = "up" /\ job'[p] = k /\ pc'[p] = "start" /\ cycle'[p] = now
        /\ started'[p] = now /\ todo'[p] = {} /\ stamp'[p] = None
    BY <2>1, <2>8 DEF LoopInv
  <2>10. ProcInv(p)' /\ CatchUpInv(p)'
    BY <2>1, <2>2, <2>3, <2>4, <2>9 DEF ProcInv, CatchUpInv
  <2> QED
    BY <2>5, <2>6, <2>10, LoopFrame DEF LoopInv, LoopTypes
<1> QED
  BY <1>1, <1>2

\* The start of a cycle lists what has expired, or what is due.
LEMMA CycleKeeps ==
    ASSUME StoreInv, LoopInv, Onward, NEW p \in Proc, Cycle(p)
    PROVE  LoopInv'
<1> DEFINE t == IF pc[p] = "start" THEN cycle[p] ELSE now
<1>1. /\ state[p] = "up" /\ pc[p] \in {"start", "wait"} /\ ProcInv(p) /\ CatchUpInv(p)
      /\ UNCHANGED <<now, state, stamp, started>>
  BY Zenon DEF Cycle, LoopInv, history
<1>2. /\ cycle[p] \in Time /\ now \in Time /\ now \in Nat /\ started[p] \in Nat
      /\ cycle[p] \in Nat
  BY DEF LoopInv, StoreInv, Time
<1>3. todo[p] = {} /\ stamp[p] = None /\ job[p] \in Job /\ definition # None
  BY <1>1 DEF ProcInv, CatchUpInv
<1>4. t \in Time /\ t <= now /\ started[p] <= t /\ t \in Nat
  BY <1>1, <1>2 DEF ProcInv, CatchUpInv
<1>5. stamp' = [stamp EXCEPT ![p] = None]
  BY <1>1, <1>3 DEF LoopInv
<1>6. ~job[p].startup => PastStartup(p, job[p].def, job[p].next)
  BY <1>1 DEF CatchUpInv, PastStartup
<1>7. \/ Collect(p, job[p], t)
      \/ /\ todo' = [todo EXCEPT ![p] = expired(t)] /\ expired(t) # {}
         /\ pc' = [pc EXCEPT ![p] = "recover"]
         /\ cycle' = [cycle EXCEPT ![p] = t]
         /\ UNCHANGED <<job, more>>
  BY Zenon DEF Cycle
<1> HIDE DEF t
<1>8. CASE Collect(p, job[p], t)
  BY <1>1, <1>3, <1>4, <1>5, <1>6, <1>8, CollectKeeps
<1>9. CASE /\ todo' = [todo EXCEPT ![p] = expired(t)]
           /\ pc' = [pc EXCEPT ![p] = "recover"]
           /\ cycle' = [cycle EXCEPT ![p] = t]
           /\ UNCHANGED <<job, more>>
  <2>1. rec \in [Instant -> Record]
    BY DEF StoreInv
  <2>2. \A x \in expired(t) : /\ x \in Work /\ ~x.skip /\ rec[x.at].status = "running"
                              /\ x.until = rec[x.at].until
    BY <1>4, <2>1, ExpiredIsRunning
  <2>3. \A x \in expired(t) : x.at \in Instant /\ x.at <= now
    <3>1. \A x \in expired(t) : x.at \in Instant
      BY <2>2 DEF Work
    <3> QED
      BY <2>2, <3>1, RecordType DEF RecordInv
  <2>4. \A x, y \in expired(t) : x.at = y.at => x = y
    <3>1. \A x \in Work : x = [at |-> x.at, until |-> x.until, skip |-> x.skip]
      BY DEF Work
    <3>2. \A x \in Work : ~x.skip => x.skip = FALSE
      BY DEF Work
    <3>3. ASSUME NEW x \in expired(t), NEW y \in expired(t), x.at = y.at
          PROVE  x = y
      <4>1. x.until = y.until /\ x.skip = FALSE /\ y.skip = FALSE
        BY <2>2, <3>2, <3>3
      <4>2. x = [at |-> x.at, until |-> x.until, skip |-> x.skip]
        BY <2>2, <3>1
      <4>3. y = [at |-> y.at, until |-> y.until, skip |-> y.skip]
        BY <2>2, <3>1
      <4> QED
        BY <3>3, <4>1, <4>2, <4>3, Zenon
    <3> QED
      BY <3>3
  <2>5. LoopTypes'
    BY <1>1, <1>4, <1>9, <2>2 DEF LoopTypes, LoopInv
  <2>6. ASSUME NEW q \in Proc, q # p
        PROVE  SameLoop(q)
    BY <1>1, <1>9, <2>6 DEF SameLoop, LoopInv
  <2>7. /\ state'[p] = "up" /\ job'[p] = job[p] /\ pc'[p] = "recover" /\ cycle'[p] = t
        /\ started'[p] = started[p] /\ todo'[p] = expired(t) /\ stamp'[p] = None
    BY <1>1, <1>3, <1>9 DEF LoopInv
  <2>8. ProcInv(p)'
    BY <1>1, <1>3, <1>4, <2>3, <2>4, <2>7 DEF ProcInv, Onward
  <2>9. \A x \in expired(t) : rec'[x.at].status # "none"
    BY <2>2, <2>3 DEF Onward
  <2>10. started[p] <= now'
    BY <1>1, <1>2, <1>4
  <2>11. CatchUpInv(p)'
    BY <1>1, <1>4, <2>2, <2>7, <2>9, <2>10 DEF CatchUpInv
  <2> QED
    BY <2>5, <2>6, <2>8, <2>11, LoopFrame DEF LoopInv, LoopTypes
<1> QED
  BY <1>7, <1>8, <1>9

LEMMA ReadClockKeeps ==
    ASSUME StoreInv, LoopInv, Onward, NEW p \in Proc, ReadClock(p)
    PROVE  LoopInv'
<1>1. /\ todo[p] # {} /\ stamp' = [stamp EXCEPT ![p] = now]
      /\ UNCHANGED <<now, definition, rec, state, job, pc, cycle, todo, more, started>>
  BY Zenon DEF ReadClock, store, history
<1>2. now \in Time /\ now \in Nat /\ todo[p] \in SUBSET Work /\ ProcInv(p) /\ CatchUpInv(p)
  BY DEF StoreInv, LoopInv, Time
<1>3. LoopTypes'
  BY <1>1, <1>2 DEF LoopTypes, LoopInv
<1>4. ASSUME NEW q \in Proc, q # p
      PROVE  SameLoop(q)
  BY <1>1, <1>4 DEF SameLoop, LoopInv
<1>5. stamp'[p] = now
  BY <1>1 DEF LoopInv
<1>6. ProcInv(p)' /\ CatchUpInv(p)'
  BY <1>1, <1>2, <1>5 DEF ProcInv, CatchUpInv
<1> QED
  BY <1>3, <1>4, <1>6, LoopFrame DEF LoopInv, LoopTypes

LEMMA StoppedKeeps ==
    ASSUME StoreInv, LoopInv, Onward, NEW p \in Proc, Stopped(p)
    PROVE  LoopInv'
<1>1. /\ state[p] = "stopping" /\ state' = [state EXCEPT ![p] = "down"]
      /\ UNCHANGED <<now, definition, rec, job, pc, cycle, todo, stamp, more, started>>
  BY Zenon DEF Stopped, store, loop, history
<1>2. LoopTypes'
  BY <1>1 DEF LoopTypes, LoopInv
<1>3. ASSUME NEW q \in Proc, q # p
      PROVE  SameLoop(q)
  BY <1>1, <1>3 DEF SameLoop, LoopInv
<1>4. state'[p] = "down" /\ ProcInv(p)
  BY <1>1 DEF LoopInv
<1>5. ProcInv(p)' /\ CatchUpInv(p)'
  BY <1>1, <1>4 DEF ProcInv, CatchUpInv
<1> QED
  BY <1>2, <1>3, <1>5, LoopFrame DEF LoopInv, LoopTypes

\* A claim moves the cursor in memory on, as the schedule has it.
LEMMA ClaimKeepsLoop ==
    ASSUME StoreInv, LoopInv, Onward, NEW p \in Proc, NEW w, Claim(p, w)
    PROVE  LoopInv'
<1> DEFINE x == First(todo[p])
           n == NextRun(job[p].def, x.at)
           m == Later(job[p].next, n)
<1>1. todo[p] # {} /\ (GoOn(p, x, m) \/ Leave(p, "stopping"))
  BY Zenon DEF Claim
<1>2. CASE Leave(p, "stopping")
  BY <1>2, LeaveKeeps
<1>3. CASE GoOn(p, x, m)
  <2>1. /\ x \in todo[p] /\ x.at \in Instant /\ job[p] \in Job /\ job[p].def \in Definition
        /\ state[p] = "up"
    BY <1>1, HeadHasCome
  <2>2. x.at \in Time /\ x.at \in Nat /\ job[p].next \in 0 .. MaxTime + 1 /\ MaxTime \in Nat
    BY <2>1, JobFields, CronAssumption DEF Time, Instant
  <2>3. n \in 0 .. MaxTime + 1 /\ x.at < n
    BY <2>1, <2>2, NextRunIsNext
  <2> HIDE DEF n
  <2>4. m \in 0 .. MaxTime + 1 /\ job[p].next <= m
    BY <2>2, <2>3 DEF Later
  <2>5. pc[p] = "due" => m = n
    <3>1. pc[p] = "due" => job[p].next <= x.at
      BY <2>1 DEF LoopInv, CatchUpInv
    <3> QED
      BY <2>2, <2>3, <3>1 DEF Later
  <2> HIDE DEF m
  <2> QED
    BY <1>1, <1>3, <2>4, <2>5, GoOnKeeps DEF n
<1> QED
  BY <1>1, <1>2, <1>3

\* Only what was due is ever skipped.
LEMMA SkipKeepsLoop ==
    ASSUME StoreInv, LoopInv, Onward, NEW p \in Proc, NEW w, Skip(p, w)
    PROVE  LoopInv'
<1> DEFINE x == First(todo[p])
           n == NextRun(job[p].def, x.at)
<1>1. todo[p] # {} /\ x.skip /\ (GoOn(p, x, n) \/ Leave(p, "stopping"))
  BY Zenon DEF Skip
<1>2. CASE Leave(p, "stopping")
  BY <1>2, LeaveKeeps
<1>3. CASE GoOn(p, x, n)
  <2>1. /\ x \in todo[p] /\ x.at \in Instant /\ job[p].def \in Definition
        /\ state[p] = "up"
    BY <1>1, HeadHasCome
  <2>2. x.at \in Time
    BY <2>1 DEF Time, Instant
  <2>3. n \in 0 .. MaxTime + 1
    BY <2>1, <2>2, NextRunIsNext
  <2>4. pc[p] # "recover"
    BY <1>1, <2>1 DEF LoopInv, CatchUpInv
  <2> QED
    BY <1>1, <1>3, <2>3, <2>4, GoOnKeeps
<1> QED
  BY <1>1, <1>2, <1>3

\* Every step keeps the invariant of the loops.
LEMMA LoopsKept ==
    ASSUME Inv, Next
    PROVE  LoopInv'
<1> USE DEF Inv
<1>0. Onward /\ StoreInv'
  BY StoreKept
<1>1. ASSUME NEW p \in Proc, Stop(p) \/ Crash(p)
      PROVE  LoopInv'
  <2>1. Leave(p, "stopping") \/ Leave(p, "down")
    BY <1>1, Zenon DEF Stop, Crash
  <2> QED
    BY <1>0, <2>1, LeaveKeeps
<1>2. ASSUME NEW p \in Proc, NEW w \in TxResult, Step(p, w)
      PROVE  LoopInv'
  <2>1. CASE Cycle(p)
    BY <1>0, <2>1, CycleKeeps
  <2>2. CASE ReadClock(p)
    BY <1>0, <2>2, ReadClockKeeps
  <2>3. CASE Claim(p, w)
    BY <1>0, <2>3, ClaimKeepsLoop
  <2>4. CASE Skip(p, w)
    BY <1>0, <2>4, SkipKeepsLoop
  <2>5. CASE StopOnError(p)
    <3>1. Leave(p, "stopping")
      BY <2>5, Zenon DEF StopOnError
    <3> QED
      BY <1>0, <3>1, LeaveKeeps
  <2>6. CASE Stopped(p)
    BY <1>0, <2>6, StoppedKeeps
  <2>7. ASSUME NEW d \in Definition, Start(p, d, w)
        PROVE  LoopInv'
    BY <1>0, <2>7, StartKeeps
  <2> QED
    BY <1>2, <2>1, <2>2, <2>3, <2>4, <2>5, <2>6, <2>7, Zenon DEF Step
<1>3. ASSUME UNCHANGED <<state, job, pc, cycle, todo, stamp, more, started>>
      PROVE  LoopInv'
  BY <1>0, <1>3, LoopQuiet, Zenon
<1>4. ASSUME NEW t \in Instant, NEW a \in Attempt, RenewTick(t, a)
      PROVE  LoopInv'
  BY <1>3, <1>4, Zenon DEF RenewTick, loop, history
<1>5. ASSUME NEW t \in Instant, NEW a \in Attempt, NEW end \in Outcome, HandlerEnds(t, a, end)
      PROVE  LoopInv'
  BY <1>3, <1>5, Zenon DEF HandlerEnds, loop, history
<1>6. ASSUME NEW t \in Instant, NEW a \in Attempt, NEW w \in TxResult,
             Renew(t, a, w) \/ Complete(t, a, w)
      PROVE  LoopInv'
  BY <1>3, <1>6, Zenon DEF Renew, Complete, loop, history
<1>7. CASE Tick
  BY <1>3, <1>7, Zenon DEF Tick, loop, history
<1> QED
  BY <1>1, <1>2, <1>4, <1>5, <1>6, <1>7, Zenon DEF Next

-----------------------------------------------------------------------------
(* The theorems.                                                           *)

LEMMA InitInv == Init => Inv
<1> SUFFICES ASSUME Init PROVE Inv
  OBVIOUS
<1>1. 0 \in Time /\ 0 \in 0 .. MaxTime + 1 /\ 0 \in 0 .. MaxFaults /\ 0 \in 0 .. MaxTime
      /\ 0 \in 0 .. MaxTime + Lease
  BY CronAssumption DEF Time
<1>2. NoRecord \in Record
  BY <1>1 DEF NoRecord, Record
<1>3. NoWorker \in Worker
  BY InvokedWorker
<1>4. StoreInv
  <2>1. ASSUME NEW t \in Instant
        PROVE  RecordInv(t)
    <3>1. rec[t] = NoRecord
      BY DEF Init
    <3> QED
      BY <3>1 DEF RecordInv, NoRecord
  <2>2. CursorInv
    BY DEF Init, CursorInv, Scheduled
  <2> QED
    BY <1>1, <1>2, <2>1, <2>2 DEF Init, StoreInv
<1>5. LoopInv
  <2>1. LoopTypes
    BY <1>1 DEF Init, LoopTypes
  <2>2. ASSUME NEW p \in Proc
        PROVE  ProcInv(p) /\ CatchUpInv(p)
    BY DEF Init, ProcInv, CatchUpInv
  <2> QED
    BY <2>1, <2>2 DEF LoopInv, LoopTypes
<1>6. HandlerInv
  <2>1. ASSUME NEW t \in Instant, NEW a \in Attempt
        PROVE  WorkerInv(t, a)
    <3>1. worker[<<t, a>>] = NoWorker
      BY Zenon DEF Init
    <3>2. NoWorker.step = "none" /\ NoWorker.renewAt = None
      BY DEF NoWorker
    <3> QED
      BY <3>1, <3>2, Zenon DEF WorkerInv
  <2> QED
    BY <1>3, <2>1 DEF Init, HandlerInv
<1> QED
  BY <1>1, <1>4, <1>5, <1>6 DEF Init, Inv

\* The count of faults, the failed processes and the revived leases.
LEMMA RestKept ==
    ASSUME Inv, Next
    PROVE  failed' \subseteq Proc /\ faults' \in 0 .. MaxFaults /\ revived' \subseteq Instant
<1> USE DEF Inv
<1>0. ASSUME NEW w, Allowed(w), Fault(w)
      PROVE  faults' \in 0 .. MaxFaults
  BY <1>0, CronAssumption DEF Allowed, Fault
<1>1. ASSUME NEW p, NEW to, Leave(p, to)
      PROVE  failed' \subseteq Proc
  BY <1>1 DEF Leave
<1>2. ASSUME NEW p \in Proc, Stop(p) \/ Crash(p)
      PROVE  failed' \subseteq Proc /\ faults' \in 0 .. MaxFaults /\ revived' \subseteq Instant
  <2>1. revived' = revived /\ Allowed("lost") /\ Fault("lost")
    BY <1>2, Zenon DEF Stop, Crash
  <2>2. failed' \subseteq Proc
    BY <1>1, <1>2, Zenon DEF Stop, Crash
  <2> QED
    BY <1>0, <2>1, <2>2
<1>3. ASSUME NEW p \in Proc, NEW w \in TxResult, Step(p, w)
      PROVE  failed' \subseteq Proc /\ faults' \in 0 .. MaxFaults /\ revived' \subseteq Instant
  <2>1. revived' = revived
    BY <1>3, Zenon DEF Step, Cycle, ReadClock, Claim, Skip, StopOnError, Stopped, Start, history
  <2>2. faults' \in 0 .. MaxFaults
    <3>1. UNCHANGED faults \/ (Allowed(w) /\ Fault(w))
      BY <1>3, Zenon DEF Step, Cycle, ReadClock, Claim, Skip, StopOnError, Stopped, Start
    <3> QED
      BY <1>0, <3>1
  <2>3. failed' \subseteq Proc
    <3>1. UNCHANGED failed \/ Leave(p, "stopping")
      BY <1>3, Zenon DEF Step, Cycle, ReadClock, Claim, Skip, StopOnError, Stopped, Start, GoOn
    <3> QED
      BY <1>1, <3>1
  <2> QED
    BY <2>1, <2>2, <2>3
<1>4. ASSUME NEW t \in Instant, NEW a \in Attempt, RenewTick(t, a)
      PROVE  failed' \subseteq Proc /\ faults' \in 0 .. MaxFaults /\ revived' \subseteq Instant
  <2>1. UNCHANGED <<failed, faults, revived>>
    BY <1>4, Zenon DEF RenewTick, history
  <2> QED
    BY <2>1
<1>5. ASSUME NEW t \in Instant, NEW a \in Attempt, NEW end \in Outcome, HandlerEnds(t, a, end)
      PROVE  failed' \subseteq Proc /\ faults' \in 0 .. MaxFaults /\ revived' \subseteq Instant
  <2>1. UNCHANGED <<failed, faults, revived>>
    BY <1>5, Zenon DEF HandlerEnds, history
  <2> QED
    BY <2>1
<1>6. ASSUME NEW t \in Instant, NEW a \in Attempt, NEW w \in TxResult, Renew(t, a, w)
      PROVE  failed' \subseteq Proc /\ faults' \in 0 .. MaxFaults /\ revived' \subseteq Instant
  <2>1. UNCHANGED failed /\ Allowed(w) /\ Fault(w)
    BY <1>6, Zenon DEF Renew
  <2>2. revived' \subseteq revived \cup {t}
    <3>1. UNCHANGED <<rec, revived>> \/ Renews(t, a)
      BY <1>6, RenewWrites
    <3> QED
      BY <3>1 DEF Renews
  <2> QED
    BY <1>0, <2>1, <2>2
<1>7. ASSUME NEW t \in Instant, NEW a \in Attempt, NEW w \in TxResult, Complete(t, a, w)
      PROVE  failed' \subseteq Proc /\ faults' \in 0 .. MaxFaults /\ revived' \subseteq Instant
  <2> DEFINE x == worker[<<t, a>>]
  <2>1. UNCHANGED revived /\ Allowed(w) /\ Fault(w)
    BY <1>7, Zenon DEF Complete, history
  <2>2. failed' = failed \/ (state[x.proc] = "up" /\ failed' = failed \cup {x.proc})
    BY <1>7, Zenon DEF Complete
  <2>3. x.proc \in Proc \cup {None} /\ x.step = "finish"
    <3>1. x \in Worker
      BY WorkerType
    <3>2. x.step = "finish"
      BY <1>7, Zenon DEF Complete
    <3> QED
      BY <3>1, <3>2 DEF Worker
  <2>4. x.proc \in Proc
    BY <1>7, WorkerType, <2>3 DEF WorkerInv
  <2> QED
    BY <1>0, <2>1, <2>2, <2>4
<1>8. CASE Tick
  <2>1. UNCHANGED <<failed, faults, revived>>
    BY <1>8, Zenon DEF Tick, history
  <2> QED
    BY <2>1
<1> QED
  BY <1>2, <1>3, <1>4, <1>5, <1>6, <1>7, <1>8, Zenon DEF Next

LEMMA StepInv == Inv /\ [Next]_vars => Inv'
<1> SUFFICES ASSUME Inv, [Next]_vars PROVE Inv'
  OBVIOUS
<1>1. CASE Next
  BY <1>1, StoreKept, LoopsKept, HandlersKept, RestKept DEF Inv
<1>2. CASE UNCHANGED vars
  <2>1. /\ UNCHANGED <<now, definition, next, rec, since, worker, failed, faults, revived>>
        /\ UNCHANGED <<state, job, pc, cycle, todo, stamp, more, started>>
    BY <1>2 DEF vars, store, loop, history
  <2>2. Onward /\ StoreInv'
    BY <2>1, QuietOnward, QuietStore DEF Inv, StoreQuiet, StoreInv, Time
  <2>3. LoopInv'
    BY <2>1, <2>2, LoopQuiet DEF Inv
  <2>4. HandlerInv'
    BY <2>1, <2>2, RenewableKept, HandlerQuiet DEF Inv
  <2> QED
    BY <2>1, <2>2, <2>3, <2>4 DEF Inv
<1> QED
  BY <1>1, <1>2

\* The scheduler's state is sound in every reachable state: whatever crashes,
\* and whichever transactions are lost or ambiguous, what is in the store, in
\* the loops of the processes and at the handlers agrees.
THEOREM Invariance == Spec => []Inv
<1>1. Init => Inv
  BY InitInv
<1>2. Inv /\ [Next]_vars => Inv'
  BY StepInv
<1> QED
  BY <1>1, <1>2, PTL DEF Spec

\* Store.Claim, Store.Skip and Store.Reconcile never move the cursor over an
\* instant of the schedule without a record.
THEOREM CursorPassesNothing == Spec => []NothingIsPassedOver
<1>1. Inv => NothingIsPassedOver
  BY InvTypes DEF Inv, StoreInv, CursorInv, NothingIsPassedOver
<1> QED
  BY <1>1, Invariance, PTL

-----------------------------------------------------------------------------
(* What a step may do to the records.                                      *)

RecordStep ==
    \/ UNCHANGED <<rec, revived>> /\ now <= now' /\ now' \in Nat
    \/ /\ UNCHANGED <<now, revived>>
       /\ \E t \in Instant, r \in Time :
             \/ Takes(t, r, EndRecord(t, "skipped"))
             \/ Takes(t, r, RunRecord(t, r)) /\ ~overlaps(t, r)
    \/ UNCHANGED now /\ \E t \in Instant, a \in Attempt : Renews(t, a)
    \/ UNCHANGED <<now, revived>> /\ \E t \in Instant, a \in Attempt : Completes(t, a)

LEMMA StepsOfRecords ==
    ASSUME Inv, [Next]_vars
    PROVE  RecordStep
<1> USE DEF Inv
<1>0. ASSUME UNCHANGED <<now, rec, revived>>
      PROVE  RecordStep
  BY <1>0 DEF RecordStep, StoreInv, Time
<1>1. ASSUME NEW p \in Proc, Stop(p) \/ Crash(p)
      PROVE  RecordStep
  BY <1>0, <1>1, Zenon DEF Stop, Crash, store
<1>2. ASSUME NEW p \in Proc, NEW w \in TxResult, Step(p, w)
      PROVE  RecordStep
  <2>1. UNCHANGED <<now, revived>>
    BY <1>2, Zenon DEF Step, Cycle, ReadClock, Claim, Skip, StopOnError, Stopped, Start, history
  <2>2. CASE Cycle(p) \/ ReadClock(p) \/ StopOnError(p) \/ Stopped(p)
    BY <1>0, <2>1, <2>2, Zenon DEF Cycle, ReadClock, StopOnError, Stopped, store
  <2>3. CASE ClaimTakes(p)
    <3> DEFINE t == First(todo[p]).at
               r == stamp[p]
    <3>1. CASE UNCHANGED <<rec, next, worker>>
      BY <1>0, <2>1, <3>1
    <3>2. CASE Takes(t, r, EndRecord(t, "skipped"))
      <4>1. t \in Instant /\ r \in Time
        BY <3>2, Zenon DEF Takes
      <4> QED
        BY <2>1, <3>2, <4>1, Zenon DEF RecordStep
    <3>3. CASE Takes(t, r, RunRecord(t, r)) /\ ~overlaps(t, r)
      <4>1. t \in Instant /\ r \in Time
        BY <3>3, Zenon DEF Takes
      <4> QED
        BY <2>1, <3>3, <4>1, Zenon DEF RecordStep
    <3> QED
      BY <2>3, <3>1, <3>2, <3>3, Zenon DEF ClaimTakes
  <2>4. CASE SkipTakes(p)
    <3> DEFINE t == First(todo[p]).at
               r == stamp[p]
    <3>1. CASE UNCHANGED <<rec, next>>
      BY <1>0, <2>1, <3>1
    <3>2. CASE Takes(t, r, EndRecord(t, "skipped"))
      <4>1. t \in Instant /\ r \in Time
        BY <3>2, Zenon DEF Takes
      <4> QED
        BY <2>1, <3>2, <4>1, Zenon DEF RecordStep
    <3> QED
      BY <2>4, <3>1, <3>2, Zenon DEF SkipTakes
  <2>5. ASSUME NEW d \in Definition, Start(p, d, w)
        PROVE  RecordStep
    <3>1. UNCHANGED rec
      BY <2>5, Zenon DEF Start, Reconcile, store
    <3> QED
      BY <1>0, <2>1, <3>1
  <2> QED
    BY <1>2, <2>2, <2>3, <2>4, <2>5, ClaimIsTaking, SkipIsTaking, Zenon DEF Step
<1>3. ASSUME NEW t \in Instant, NEW a \in Attempt, RenewTick(t, a)
      PROVE  RecordStep
  BY <1>0, <1>3, Zenon DEF RenewTick, store, history
<1>4. ASSUME NEW t \in Instant, NEW a \in Attempt, NEW end \in Outcome, HandlerEnds(t, a, end)
      PROVE  RecordStep
  BY <1>0, <1>4, Zenon DEF HandlerEnds, store, history
<1>5. ASSUME NEW t \in Instant, NEW a \in Attempt, NEW w \in TxResult, Renew(t, a, w)
      PROVE  RecordStep
  <2>1. now' = now /\ (UNCHANGED <<rec, revived>> \/ Renews(t, a))
    BY <1>5, RenewWrites, Zenon DEF Renew
  <2> QED
    BY <1>0, <2>1, Zenon DEF RecordStep
<1>6. ASSUME NEW t \in Instant, NEW a \in Attempt, NEW w \in TxResult, Complete(t, a, w)
      PROVE  RecordStep
  <2>1. UNCHANGED <<now, revived>> /\ (UNCHANGED rec \/ Completes(t, a))
    BY <1>6, CompleteWrites, Zenon DEF Complete, history
  <2> QED
    BY <1>0, <2>1, Zenon DEF RecordStep
<1>7. CASE Tick
  <2>1. UNCHANGED <<rec, revived>> /\ now' = now + 1
    BY <1>7, Zenon DEF Tick, store, history
  <2> QED
    BY <2>1 DEF RecordStep, StoreInv, Time
<1>8. CASE UNCHANGED vars
  BY <1>0, <1>8 DEF vars, store, history
<1>9. CASE Next
  BY <1>1, <1>2, <1>3, <1>4, <1>5, <1>6, <1>9, <1>7, Zenon DEF Next
<1> QED
  BY <1>8, <1>9

\* Store.Claim gives no lease under OverlapSkip while another occurrence holds
\* one, and only a renewal with an old time brings a lease back.
THEOREM LeasesDoNotOverlap == Spec => []LiveLeasesDoNotOverlap
<1>1. Init => LiveLeasesDoNotOverlap
  <2>1. ASSUME Init, NEW t \in Instant
        PROVE  ~live(t)
    <3>1. rec[t] = NoRecord
      BY <2>1 DEF Init
    <3> QED
      BY <3>1 DEF live, NoRecord
  <2> QED
    BY <2>1 DEF LiveLeasesDoNotOverlap
<1>2. ASSUME Inv, LiveLeasesDoNotOverlap, [Next]_vars
      PROVE  LiveLeasesDoNotOverlap'
  <2> SUFFICES ASSUME \A d \in Definition : d.overlap = "skip",
                      NEW u \in Instant, NEW v \in Instant, live(u)', live(v)', u # v
               PROVE  {u, v} \cap revived' # {}
    BY DEF LiveLeasesDoNotOverlap
  <2> USE DEF Inv
  <2>0. /\ now \in Nat
        /\ \A t \in Instant : rec[t].until \in Nat
    BY <1>2, RecordType
  <2>1. ASSUME live(u), live(v)
        PROVE  {u, v} \cap revived # {}
    BY <1>2, <2>1 DEF LiveLeasesDoNotOverlap
  <2>2. CASE UNCHANGED <<rec, revived>> /\ now <= now' /\ now' \in Nat
    <3>1. live(u) /\ live(v)
      BY <2>0, <2>2 DEF live
    <3> QED
      BY <2>1, <2>2, <3>1
  <2>3. ASSUME UNCHANGED <<now, revived>>, NEW t \in Instant, NEW r \in Time,
               Takes(t, r, EndRecord(t, "skipped"))
        PROVE  {u, v} \cap revived' # {}
    <3>1. \A z \in Instant : rec'[z] = IF z = t THEN EndRecord(t, "skipped") ELSE rec[z]
      BY <1>2, <2>3 DEF Takes, StoreInv
    <3>2. EndRecord(t, "skipped").status # "running"
      BY DEF EndRecord
    <3>3. live(u) /\ live(v)
      BY <2>3, <3>1, <3>2 DEF live
    <3> QED
      BY <2>1, <2>3, <3>3
  <2>4. ASSUME UNCHANGED <<now, revived>>, NEW t \in Instant, NEW r \in Time,
               Takes(t, r, RunRecord(t, r)), ~overlaps(t, r)
        PROVE  {u, v} \cap revived' # {}
    <3>1. \A z \in Instant : rec'[z] = IF z = t THEN RunRecord(t, r) ELSE rec[z]
      BY <1>2, <2>4 DEF Takes, StoreInv
    <3>2. r <= now /\ definition \in Definition /\ r \in Nat
      BY <2>4 DEF Takes, Time
    <3>3. \A z \in Instant \ {t} : ~(rec[z].status = "running" /\ rec[z].until > r)
      BY <2>4, <3>2 DEF overlaps, liveOverlap
    <3>4. \A z \in Instant \ {t} : ~live(z)'
      BY <2>0, <2>4, <3>1, <3>2, <3>3 DEF live
    <3> QED
      BY <3>4
  <2>5. ASSUME UNCHANGED now, NEW t \in Instant, NEW a \in Attempt, Renews(t, a)
        PROVE  {u, v} \cap revived' # {}
    <3>1. \A z \in Instant : z # t => rec'[z] = rec[z]
      BY <2>5 DEF Renews, StoreInv
    <3>2. /\ revived' = IF rec[t].until <= now THEN revived \cup {t} ELSE revived
          /\ rec[t].status = "running"
      BY <2>5 DEF Renews, holds
    <3>3. CASE t \notin {u, v} \/ live(t)
      <4>1. live(u) /\ live(v)
        BY <2>5, <3>1, <3>3 DEF live
      <4> QED
        BY <2>1, <3>2, <4>1
    <3>4. CASE t \in {u, v} /\ ~live(t)
      <4>1. rec[t].until <= now
        BY <2>0, <3>2, <3>4 DEF live
      <4> QED
        BY <3>2, <3>4, <4>1
    <3> QED
      BY <3>3, <3>4
  <2>6. ASSUME UNCHANGED <<now, revived>>, NEW t \in Instant, NEW a \in Attempt, Completes(t, a)
        PROVE  {u, v} \cap revived' # {}
    <3> DEFINE end == worker[<<t, a>>].as
    <3>1. /\ \A z \in Instant : rec'[z] = IF z = t THEN EndRecord(t, end) ELSE rec[z]
          /\ end \in {"succeeded", "failed", "canceled"}
      BY <1>2, <2>6 DEF Completes, StoreInv
    <3> HIDE DEF end
    <3>2. EndRecord(t, end).status # "running"
      BY <3>1 DEF EndRecord
    <3>3. live(u) /\ live(v)
      BY <2>6, <3>1, <3>2 DEF live
    <3> QED
      BY <2>1, <2>6, <3>3
  <2>7. RecordStep
    BY <1>2, StepsOfRecords
  <2> QED
    BY <2>2, <2>3, <2>4, <2>5, <2>6, <2>7, Zenon DEF RecordStep
<1> QED
  BY <1>1, <1>2, Invariance, PTL DEF Spec

\* Store.Renew, Store.Complete, Store.Claim and Store.Skip leave what is not
\* theirs: a terminal record is final, and a live lease ends only by its owner.
THEOREM FencedOwners == Spec => LateOwnersChangeNothing
<1>1. ASSUME Inv, [Next]_vars, NEW t \in Instant
      PROVE  /\ rec[t].status \in Terminal => rec'[t] = rec[t]
             /\ live(t) /\ rec'[t] # rec[t] =>
                   /\ rec'[t].attempt = rec[t].attempt
                   /\ \/ rec'[t].status = "running" /\ rec'[t].until > rec[t].until
                      \/ /\ rec'[t].status = worker[<<t, rec[t].attempt>>].as
                         /\ worker[<<t, rec[t].attempt>>].step = "finish"
  <2> DEFINE Goal == /\ rec[t].status \in Terminal => rec'[t] = rec[t]
                     /\ live(t) /\ rec'[t] # rec[t] =>
                         /\ rec'[t].attempt = rec[t].attempt
                         /\ \/ rec'[t].status = "running" /\ rec'[t].until > rec[t].until
                            \/ /\ rec'[t].status = worker[<<t, rec[t].attempt>>].as
                               /\ worker[<<t, rec[t].attempt>>].step = "finish"
  <2> USE DEF Inv
  <2>0. /\ now \in Nat /\ rec[t].until \in Nat /\ Lease \in Nat
        /\ rec \in [Instant -> Record]
        /\ "running" \notin Terminal /\ "none" \notin Terminal
    BY <1>1, RecordType DEF Terminal, StoreInv
  <2>1. ASSUME rec'[t] = rec[t]
        PROVE  Goal
    BY <2>1
  <2>2. ASSUME NEW u \in Instant, NEW r \in Time, NEW e, Takes(u, r, e)
        PROVE  Goal
    <3>1. CASE u # t
      <4>1. rec'[t] = rec[t]
        BY <2>0, <2>2, <3>1 DEF Takes
      <4> QED
        BY <2>1, <4>1
    <3>2. CASE u = t
      <4>1. rec[t].status \notin Terminal /\ ~live(t)
        BY <2>0, <2>2, <3>2 DEF Takes, live, Time
      <4> QED
        BY <4>1
    <3> QED
      BY <3>1, <3>2
  <2>3. ASSUME NEW u \in Instant, NEW a \in Attempt, Renews(u, a)
        PROVE  Goal
    <3>1. CASE u # t
      <4>1. rec'[t] = rec[t]
        BY <2>0, <2>3, <3>1 DEF Renews
      <4> QED
        BY <2>1, <4>1
    <3>2. CASE u = t
      <4> DEFINE r == worker[<<u, a>>].renewAt
      <4>1. /\ rec'[t] = [status |-> "running", attempt |-> rec[t].attempt, until |-> r + Lease]
            /\ rec[t].status = "running" /\ rec[t].until <= r + Lease /\ r \in Nat
        BY <2>0, <2>3, <3>2 DEF Renews, holds, Time
      <4> HIDE DEF r
      <4>2. rec[t] = [status |-> rec[t].status, attempt |-> rec[t].attempt,
                      until |-> rec[t].until]
        BY <2>0 DEF Record
      <4>3. rec'[t] # rec[t] => rec[t].until # r + Lease
        BY <4>1, <4>2, Zenon
      <4> QED
        BY <2>0, <4>1, <4>3
    <3> QED
      BY <3>1, <3>2
  <2>4. ASSUME NEW u \in Instant, NEW a \in Attempt, Completes(u, a)
        PROVE  Goal
    <3>1. CASE u # t
      <4>1. rec'[t] = rec[t]
        BY <2>0, <2>4, <3>1 DEF Completes
      <4> QED
        BY <2>1, <4>1
    <3>2. CASE u = t
      <4> DEFINE w == worker[<<t, a>>]
      <4>1. /\ rec'[t] = EndRecord(t, w.as) /\ rec[t].status = "running"
            /\ rec[t].attempt = a /\ w.step = "finish"
        BY <2>0, <2>4, <3>2 DEF Completes, holds
      <4>2. rec'[t].status = w.as /\ rec'[t].attempt = rec[t].attempt
        BY <4>1 DEF EndRecord
      <4> QED
        BY <2>0, <4>1, <4>2
    <3> QED
      BY <3>1, <3>2
  <2>5. RecordStep
    BY <1>1, StepsOfRecords
  <2> HIDE DEF Goal
  <2>6. Goal
    BY <2>1, <2>2, <2>3, <2>4, <2>5 DEF RecordStep
  <2> QED
    BY <2>6 DEF Goal
<1>2. Inv /\ [Next]_vars =>
        [\A t \in Instant :
          /\ rec[t].status \in Terminal => rec'[t] = rec[t]
          /\ live(t) /\ rec'[t] # rec[t] =>
                /\ rec'[t].attempt = rec[t].attempt
                /\ \/ rec'[t].status = "running" /\ rec'[t].until > rec[t].until
                   \/ /\ rec'[t].status = worker[<<t, rec[t].attempt>>].as
                      /\ worker[<<t, rec[t].attempt>>].step = "finish"]_vars
  BY <1>1, Zenon
<1> QED
  BY <1>2, Invariance, PTL DEF Spec, LateOwnersChangeNothing

\* Only a claim starts a handler.
LEMMA OnlyClaimsInvoke ==
    ASSUME Inv, [Next]_vars, NEW t \in Instant, NEW b \in Attempt,
           worker[<<t, b>>].step = "none",
           worker'[<<t, b>>] # worker[<<t, b>>], worker'[<<t, b>>] # NoWorker
    PROVE  \E p \in Proc, w \in TxResult : Claim(p, w)
<1>0. <<t, b>> \in Instant \X Attempt /\ ~UNCHANGED worker
  BY Zenon
<1>1. ASSUME NEW u \in Instant, NEW a \in Attempt, worker[<<u, a>>].step # "none",
             \E e : worker' = [worker EXCEPT ![<<u, a>>] = e]
      PROVE  FALSE
  <2>1. <<u, a>> # <<t, b>>
    BY <1>1, Zenon
  <2>2. worker'[<<t, b>>] = worker[<<t, b>>]
    BY <1>0, <1>1, <2>1, Zenon DEF Inv, HandlerInv
  <2> QED
    BY <2>2
<1>2. ASSUME NEW p \in Proc, Stop(p) \/ Crash(p)
      PROVE  FALSE
  <2>1. Crash(p)
    BY <1>0, <1>2, Zenon DEF Stop
  <2>2. worker'[<<t, b>>] \in {NoWorker, worker[<<t, b>>]}
    BY <1>0, <2>1, Zenon DEF Crash
  <2> QED
    BY <2>2
<1>3. ASSUME NEW p \in Proc, NEW w \in TxResult, Step(p, w)
      PROVE  Claim(p, w)
  BY <1>0, <1>3, Zenon DEF Step, Cycle, ReadClock, Skip, StopOnError, Stopped, Start
<1>4. ASSUME NEW u \in Instant, NEW a \in Attempt, RenewTick(u, a)
      PROVE  FALSE
  <2>1. worker[<<u, a>>].step = "run"
    BY <1>4, Zenon DEF RenewTick
  <2>2. worker' = [worker EXCEPT ![<<u, a>>] = [worker[<<u, a>>] EXCEPT !.renewAt = now]]
    BY <1>4, Zenon DEF RenewTick
  <2> QED
    BY <1>1, <2>1, <2>2
<1>5. ASSUME NEW u \in Instant, NEW a \in Attempt, NEW end \in Outcome, HandlerEnds(u, a, end)
      PROVE  FALSE
  <2>1. worker[<<u, a>>].step = "run"
    BY <1>5, Zenon DEF HandlerEnds
  <2>2. worker' = [worker EXCEPT ![<<u, a>>] =
                     [worker[<<u, a>>] EXCEPT !.step = "finish", !.renewAt = None,
                                              !.finishAt = now, !.as = end]]
    BY <1>5, Zenon DEF HandlerEnds
  <2>3. \E e : worker' = [worker EXCEPT ![<<u, a>>] = e]
    BY <2>2, Zenon
  <2> QED
    BY <1>1, <2>1, <2>3
<1>6. ASSUME NEW u \in Instant, NEW a \in Attempt, NEW w \in TxResult, Renew(u, a, w)
      PROVE  FALSE
  <2>1. worker[<<u, a>>].step = "run"
    BY <1>6, Zenon DEF Renew
  <2>2. \E z : worker' = [worker EXCEPT ![<<u, a>>] =
                            [worker[<<u, a>>] EXCEPT !.renewAt = None, !.lost = z]]
    BY <1>6, Zenon DEF Renew
  <2>3. \E e : worker' = [worker EXCEPT ![<<u, a>>] = e]
    BY <2>2, Zenon
  <2> QED
    BY <1>1, <2>1, <2>3
<1>7. ASSUME NEW u \in Instant, NEW a \in Attempt, NEW w \in TxResult, Complete(u, a, w)
      PROVE  FALSE
  <2>1. worker[<<u, a>>].step = "finish" /\ worker' = [worker EXCEPT ![<<u, a>>] = NoWorker]
    BY <1>7, Zenon DEF Complete
  <2> QED
    BY <1>1, <2>1
<1>8. Next
  BY <1>0 DEF vars
<1>9. ~Tick
  BY <1>0, Zenon DEF Tick
<1> QED
  BY <1>2, <1>3, <1>4, <1>5, <1>6, <1>7, <1>8, <1>9, Zenon DEF Next

\* Of what was missed before it started, a process invokes only what its
\* catch-up policy allows: occurrenceRunIndex, over all batches of a startup.
THEOREM CatchUpFollowed == Spec => CatchUpIsKept
<1> DEFINE Kept(p, t) ==
             worker[<<t, 1>>].step = "none" /\ worker'[<<t, 1>>].proc = p /\ t <= started[p] =>
                \/ job[p].def.catchUp = "all"
                \/ /\ job[p].def.catchUp = "latest"
                   /\ \A u \in job[p].def.at : u <= started[p] => u <= t
<1>1. ASSUME Inv, [Next]_vars, NEW p \in Proc, NEW t \in Instant
      PROVE  Kept(p, t)
  <2> USE DEF Inv
  <2> SUFFICES ASSUME worker[<<t, 1>>].step = "none", worker'[<<t, 1>>].proc = p,
                      t <= started[p]
               PROVE  \/ job[p].def.catchUp = "all"
                      \/ /\ job[p].def.catchUp = "latest"
                         /\ \A u \in job[p].def.at : u <= started[p] => u <= t
    BY Zenon DEF Kept
  <2>1. worker[<<t, 1>>].proc = None /\ <<t, 1>> \in Instant \X Attempt /\ 1 \in Attempt
    <3>1. 1 \in Attempt
      BY <1>1, RecordType DEF Attempt
    <3>2. WorkerInv(t, 1)
      BY <1>1, <3>1, WorkerType
    <3>3. worker[<<t, 1>>] = NoWorker
      BY <3>2 DEF WorkerInv
    <3> QED
      BY <3>1, <3>3 DEF NoWorker
  <2>2. p # None
    BY CronAssumption
  <2>3. worker'[<<t, 1>>] # worker[<<t, 1>>] /\ worker'[<<t, 1>>] # NoWorker
    BY <2>1, <2>2 DEF NoWorker
  <2>4. PICK q \in Proc, w \in TxResult : Claim(q, w)
    BY <1>1, <2>1, <2>2, <2>3, OnlyClaimsInvoke
  <2> DEFINE x == First(todo[q])
             r == stamp[q]
  <2>5. invoked(q, x.at, "acquired") /\ ~x.skip /\ Takes(x.at, r, RunRecord(x.at, r))
    <3>1. ClaimTakes(q)
      BY <1>1, <2>4, ClaimIsTaking
    <3>2. ~UNCHANGED worker
      BY <2>3
    <3> QED
      BY <3>1, <3>2, Zenon DEF ClaimTakes
  <2>6. todo[q] # {}
    BY <2>4, Zenon DEF Claim
  <2>7. x \in todo[q] /\ x.at \in Instant /\ state[q] = "up"
    BY <1>1, <2>6, HeadHasCome
  <2> HIDE DEF x, r
  <2>8. worker' = [worker EXCEPT ![<<x.at, rec[x.at].attempt + 1>>] = NewWorker(q)]
    BY <2>5, InvokedWorker, Zenon DEF invoked
  <2>9. <<x.at, rec[x.at].attempt + 1>> = <<t, 1>>
    <3>1. CASE <<x.at, rec[x.at].attempt + 1>> # <<t, 1>>
      <4>1. worker'[<<t, 1>>] = worker[<<t, 1>>]
        BY <1>1, <2>1, <2>8, <3>1, Zenon DEF HandlerInv
      <4> QED
        BY <2>3, <4>1
    <3> QED
      BY <3>1
  <2>10. x.at = t /\ rec[t].attempt = 0
    <3>1. x.at = t /\ rec[x.at].attempt + 1 = 1
      BY <2>9
    <3>2. rec[x.at].attempt \in Nat
      BY <1>1, <2>7, RecordType
    <3> QED
      BY <3>1, <3>2
  <2>11. q = p
    <3>1. worker'[<<t, 1>>] = NewWorker(q)
      BY <1>1, <2>1, <2>8, <2>9, Zenon DEF HandlerInv
    <3> QED
      BY <3>1 DEF NewWorker
  <2>12. rec[t].status = "none"
    <3>1. RecordInv(t) /\ rec[t].attempt \in Nat
      BY <1>1, RecordType
    <3>2. rec[t].status \in {"running", "none"}
      BY <2>5, <2>10 DEF Takes
    <3> QED
      BY <2>10, <3>1, <3>2 DEF RecordInv
  <2>13. CatchUpInv(p) /\ pc[p] \in {"start", "wait", "recover", "due"}
    BY <1>1 DEF LoopInv
  <2>14. pc[p] = "due"
    BY <2>7, <2>10, <2>11, <2>12, <2>13 DEF CatchUpInv
  <2> QED
    BY <2>5, <2>7, <2>10, <2>11, <2>13, <2>14 DEF CatchUpInv
<1>2. Inv /\ [Next]_vars => [\A p \in Proc, t \in Instant : Kept(p, t)]_vars
  <2> HIDE DEF Kept
  <2> QED
    BY <1>1, Zenon
<1> QED
  BY <1>2, Invariance, PTL DEF Spec, CatchUpIsKept

=============================================================================
