---------------------------- MODULE CronService -----------------------------
(***************************************************************************)
(* The durable scheduler of pkg/cron: several processes that run one job   *)
(* from one PostgreSQL store.                                              *)
(*                                                                         *)
(* A process reconciles its definition with the store, then cycles: it     *)
(* takes over the occurrences whose lease has expired and claims or skips  *)
(* the ones that came due since its own cursor.  Every claim starts a      *)
(* handler, which renews its lease and records its end.  Transactions are  *)
(* atomic, but the times in them were read before, and the store compares  *)
(* those.  All processes read one clock.  Times are small numbers; an      *)
(* occurrence is known by its instant and a lease token by its attempt.    *)
(***************************************************************************)
EXTENDS Integers, FiniteSets

CONSTANTS
    Proc,         \* the processes that share the store
    Definition,   \* the definitions of the job a process may be started with
    Lease,        \* leaseDuration
    Limit,        \* catchUpLimit
    Outcome,      \* how a handler may end
    TxResult,     \* what a transaction may do: a subset of TxResults
    MaxTime,      \* bound on the clock
    MaxFaults,    \* bound on crashes, stops and failing transactions
    None

\* "ok": committed.  "lost": rolled back.  "unsure": committed, but the caller
\* is told that the commit failed.
TxResults == {"ok", "lost", "unsure"}

CatchUp == {"none", "latest", "all"}
Overlap == {"skip", "allow"}

ASSUME CronAssumption ==
    /\ Definition \subseteq [at : SUBSET (1 .. MaxTime), catchUp : CatchUp, overlap : Overlap]
    /\ Lease \in Nat \ {0} /\ Limit \in Nat \ {0}
    /\ Outcome \subseteq {"succeeded", "failed", "canceled"}
    /\ "ok" \in TxResult /\ TxResult \subseteq TxResults
    /\ MaxTime \in Nat /\ MaxFaults \in Nat
    /\ None \notin Definition /\ None \notin 0 .. MaxTime /\ None \notin Proc

Time    == 0 .. MaxTime
Instant == 1 .. MaxTime
Attempt == 1 .. MaxTime
Terminal == {"succeeded", "failed", "canceled", "skipped"}

VARIABLES
    now,
    \* The store: the job's definition and cursor, and the occurrences.
    definition, next, rec,
    \* Every process: whether Run is active, the runtimeJob, and where its loop
    \* is, with the time of the cycle, the occurrences left to handle, the time
    \* read for the first of them, and whether collectDue left more behind.
    state, job, pc, cycle, todo, stamp, more,
    failed,       \* processes with an error in runtimeErrors
    worker,       \* the handlers, by occurrence and attempt
    faults,
    \* History: when the cursor was last set by a reconciliation, when a
    \* process was started, and the occurrences whose lease was renewed after
    \* its end, with a time read before it.
    since, started, revived

store   == <<definition, next, rec>>
loop    == <<pc, cycle, todo, stamp, more>>
history == <<since, started, revived>>
vars == <<now, store, state, job, loop, failed, worker, faults, history>>

NoRecord == [status |-> "none", attempt |-> 0, until |-> 0]
NoWorker == [step |-> "none", proc |-> None, renewAt |-> None, finishAt |-> 0,
             as |-> "none", lost |-> FALSE]

-----------------------------------------------------------------------------
(* Schedules.                                                              *)

\* Schedule.Next; the instant after the last one of the model never comes due.
NextRun(d, t) ==
    LET later == {u \in d.at : u > t} IN
    IF later = {} THEN MaxTime + 1 ELSE CHOOSE u \in later : \A v \in later : u <= v

Later(t, u) == IF t < u THEN u ELSE t

\* Work of a cycle: an occurrence, the end of its lease when it was listed (0
\* when it is due), and whether it is to be skipped.
Work == [at : Instant, until : 0 .. MaxTime + Lease, skip : BOOLEAN]
Before(x, y) == x.until < y.until \/ (x.until = y.until /\ x.at < y.at)
First(S)   == CHOOSE x \in S : \A y \in S \ {x} : Before(x, y)
Limited(S) == {x \in S : Cardinality({y \in S : Before(y, x)}) < Limit}

expired(t) ==
    Limited({[at |-> u, until |-> rec[u].until, skip |-> FALSE] :
                u \in {v \in Instant : rec[v].status = "running" /\ rec[v].until <= t}})

\* The instants from a cursor on that have come, and the batch that collectDue
\* takes of them.
due(d, from, t)   == {u \in d.at : from <= u /\ u <= t}
batch(d, from, t) ==
    {u \in due(d, from, t) : Cardinality({v \in due(d, from, t) : v < u}) < Limit}

\* Mutant of skipped: a batch that leaves more behind is treated as the last.
skippedBatch(u, instants, catchUp, startup, left) ==
    /\ catchUp # "all"
    /\ \/ startup /\ catchUp = "none"
       \/ \E v \in instants : v > u

\* occurrenceRunIndex: whether an instant of a batch is passed over.
skipped(u, instants, catchUp, startup, left) ==
    /\ catchUp # "all"
    /\ \/ startup /\ catchUp = "none"
       \/ left
       \/ \E v \in instants : v > u

-----------------------------------------------------------------------------
(* The life of a process.                                                  *)

\* The loop of a process and what it has in memory are gone.
Leave(p, to) ==
    /\ state' = [state EXCEPT ![p] = to]
    /\ pc' = [pc EXCEPT ![p] = "wait"]
    /\ todo' = [todo EXCEPT ![p] = {}]
    /\ stamp' = [stamp EXCEPT ![p] = None]
    /\ job' = [job EXCEPT ![p] = None]
    /\ cycle' = [cycle EXCEPT ![p] = 0]
    /\ more' = [more EXCEPT ![p] = FALSE]
    /\ failed' = failed \ {p}
    /\ started' = [started EXCEPT ![p] = 0]

Fault(w) == faults' = IF w = "ok" THEN faults ELSE faults + 1
Allowed(w) == w = "ok" \/ faults < MaxFaults

\* Reconcile: the cursor survives unless the schedule changed.
Rescheduled(d) == definition = None \/ definition.at # d.at

\* Mutant of Reconcile: the cursor is computed afresh by every start.
ReconcileAfresh(d) ==
    /\ definition' = d
    /\ next'  = NextRun(d, now)
    /\ since' = IF Rescheduled(d) THEN now ELSE since
    /\ UNCHANGED rec

Reconcile(d) ==
    /\ definition' = d
    /\ next'  = IF Rescheduled(d) THEN NextRun(d, now) ELSE next
    /\ since' = IF Rescheduled(d) THEN now ELSE since
    /\ UNCHANGED rec

\* Run, up to its first cycle, which goes by the time of the start.
Start(p, d, w) ==
    /\ state[p] = "down" /\ Allowed(w) /\ Fault(w)
    /\ \/ w = "lost" /\ UNCHANGED <<store, since>>
       \/ w # "lost" /\ Reconcile(d)
    /\ \/ /\ w = "ok"
          /\ state' = [state EXCEPT ![p] = "up"]
          /\ job' = [job EXCEPT ![p] = [def |-> d, next |-> next', startup |-> TRUE]]
          /\ pc' = [pc EXCEPT ![p] = "start"]
          /\ cycle' = [cycle EXCEPT ![p] = now]
          /\ started' = [started EXCEPT ![p] = now]
       \/ w # "ok" /\ UNCHANGED <<state, job, pc, cycle, started>>
    /\ UNCHANGED <<now, todo, stamp, more, failed, worker, revived>>

\* The context of Run is done: its handlers are cancelled and waited for.
Stop(p) ==
    /\ state[p] = "up" /\ Allowed("lost") /\ Fault("lost")
    /\ Leave(p, "stopping")
    /\ UNCHANGED <<now, store, worker, since, revived>>

\* Run reads an error of a handler's lease or completion.
StopOnError(p) ==
    /\ state[p] = "up" /\ pc[p] = "wait" /\ p \in failed
    /\ Leave(p, "stopping")
    /\ UNCHANGED <<now, store, worker, faults, since, revived>>

\* Run has waited for its handlers.
Stopped(p) ==
    /\ state[p] = "stopping"
    /\ \A t \in Instant, a \in Attempt : worker[<<t, a>>].proc # p
    /\ state' = [state EXCEPT ![p] = "down"]
    /\ UNCHANGED <<now, store, job, loop, failed, worker, faults, history>>

Crash(p) ==
    /\ state[p] # "down" /\ Allowed("lost") /\ Fault("lost")
    /\ Leave(p, "down")
    /\ worker' = [x \in Instant \X Attempt |->
                     IF worker[x].proc = p THEN NoWorker ELSE worker[x]]
    /\ UNCHANGED <<now, store, since, revived>>

-----------------------------------------------------------------------------
(* cycle.                                                                  *)

\* collectDue for the runtimeJob j in the cycle of time t, after the recovery.
Collect(p, j, t) ==
    LET B == batch(j.def, j.next, t)
        left == B # due(j.def, j.next, t)
    IN
    /\ todo' = [todo EXCEPT ![p] =
           {[at |-> u, until |-> 0,
             skip |-> skipped(u, B, j.def.catchUp, j.startup, left)] : u \in B}]
    /\ more' = [more EXCEPT ![p] = left]
    /\ job' = [job EXCEPT ![p] = [j EXCEPT !.startup = @ /\ B # {}]]
    /\ pc' = [pc EXCEPT ![p] = IF B = {} THEN "wait" ELSE "due"]
    /\ cycle' = [cycle EXCEPT ![p] = 0]

\* The start of a cycle, with recoverExpired's list.
Cycle(p) ==
    /\ state[p] = "up" /\ pc[p] \in {"start", "wait"}
    /\ LET t == IF pc[p] = "start" THEN cycle[p] ELSE now IN
       IF expired(t) = {}
       THEN Collect(p, job[p], t)
       ELSE /\ todo' = [todo EXCEPT ![p] = expired(t)]
            /\ pc' = [pc EXCEPT ![p] = "recover"]
            /\ cycle' = [cycle EXCEPT ![p] = t]
            /\ UNCHANGED <<job, more>>
    /\ UNCHANGED <<now, store, state, stamp, failed, worker, faults, history>>

\* claimAndRun and skip read the clock.
ReadClock(p) ==
    /\ todo[p] # {} /\ stamp[p] = None
    /\ stamp' = [stamp EXCEPT ![p] = now]
    /\ UNCHANGED <<now, store, state, job, pc, cycle, todo, more, failed, worker, faults,
                   history>>

\* The cycle goes on with its next occurrence, with the cursor in memory at n.
GoOn(p, x, n) ==
    LET rest == todo[p] \ {x}
        j    == [job[p] EXCEPT !.next = n]
    IN
    /\ IF rest = {} /\ pc[p] = "recover"
       THEN Collect(p, j, cycle[p])
       ELSE /\ todo' = [todo EXCEPT ![p] = rest]
            /\ pc' = [pc EXCEPT ![p] = IF rest = {} THEN "wait" ELSE @]
            /\ job' = [job EXCEPT ![p] =
                         [j EXCEPT !.startup = @ /\ (rest # {} \/ more[p])]]
            /\ UNCHANGED <<cycle, more>>
    /\ stamp' = [stamp EXCEPT ![p] = None]
    /\ UNCHANGED <<state, failed, started>>

\* hasLiveOverlap
liveOverlap(t, r) ==
    \E u \in Instant \ {t} : rec[u].status = "running" /\ rec[u].until > r

\* OverlapSkip, and another occurrence of the job runs.
overlaps(t, r) == definition.overlap = "skip" /\ liveOverlap(t, r)

\* Mutant of disposition: a takeover does not look for an overlap.
dispositionTakeover(t, n, r) ==
    IF NextRun(definition, t) # n THEN "conflict"
    ELSE IF rec[t].status \in Terminal THEN "already_terminal"
    ELSE IF rec[t].status = "running"
         THEN IF rec[t].until > r THEN "lease_held" ELSE "acquired"
    ELSE IF next # t THEN "conflict"
    ELSE IF overlaps(t, r) THEN "skipped_overlap" ELSE "acquired"

\* What Claim does for an occurrence at time r: the error, or the disposition.
disposition(t, n, r) ==
    IF NextRun(definition, t) # n THEN "conflict"
    ELSE IF rec[t].status \in Terminal THEN "already_terminal"
    ELSE IF rec[t].status = "running"
         THEN IF rec[t].until > r \/ overlaps(t, r) THEN "lease_held" ELSE "acquired"
    ELSE IF next # t THEN "conflict"
    ELSE IF overlaps(t, r) THEN "skipped_overlap" ELSE "acquired"

\* The store after a claim.
claimed(t, n, r, result) ==
    \/ /\ result \notin {"acquired", "skipped_overlap"}
       /\ UNCHANGED <<next, rec>>
    \/ /\ result = "acquired"
       /\ next' = Later(next, n)
       /\ rec' = [rec EXCEPT ![t] = [status |-> "running", attempt |-> @.attempt + 1,
                                     until |-> r + Lease]]
    \/ /\ result = "skipped_overlap"
       /\ next' = Later(next, n)
       /\ rec' = [rec EXCEPT ![t] = [NoRecord EXCEPT !.status = "skipped"]]

\* startInvocation
invoked(p, t, result) ==
    worker' = IF result = "acquired"
              THEN [worker EXCEPT ![<<t, rec[t].attempt + 1>>] =
                      [NoWorker EXCEPT !.step = "run", !.proc = p]]
              ELSE worker

Claim(p, w) ==
    /\ todo[p] # {} /\ stamp[p] # None /\ ~First(todo[p]).skip
    /\ Allowed(w) /\ Fault(w)
    /\ LET x == First(todo[p])
           n == NextRun(job[p].def, x.at)
           result == disposition(x.at, n, stamp[p])
       IN
       \/ /\ w = "ok" /\ result # "conflict"
          /\ claimed(x.at, n, stamp[p], result)
          /\ invoked(p, x.at, result)
          /\ GoOn(p, x, Later(job[p].next, n))
       \/ /\ w = "unsure" /\ result # "conflict"
          /\ claimed(x.at, n, stamp[p], result)
          /\ Leave(p, "stopping") /\ UNCHANGED worker
       \/ /\ w = "lost" \/ result = "conflict"
          /\ Leave(p, "stopping") /\ UNCHANGED <<next, rec, worker>>
    /\ UNCHANGED <<now, definition, since, revived>>

\* What Skip does: the error, or whether it writes.
skipDisposition(t, n, r) ==
    IF rec[t].status \in Terminal THEN "kept"
    ELSE IF NextRun(definition, t) # n THEN "conflict"
    ELSE IF rec[t].status = "running" THEN IF rec[t].until > r THEN "running" ELSE "written"
    ELSE IF next # t THEN "conflict" ELSE "written"

Skip(p, w) ==
    /\ todo[p] # {} /\ stamp[p] # None /\ First(todo[p]).skip
    /\ Allowed(w) /\ Fault(w)
    /\ LET x == First(todo[p])
           n == NextRun(job[p].def, x.at)
           result == skipDisposition(x.at, n, stamp[p])
       IN
       /\ IF w # "lost" /\ result = "written"
          THEN /\ rec' = [rec EXCEPT ![x.at] = [@ EXCEPT !.status = "skipped", !.until = 0]]
               /\ next' = Later(next, n)
          ELSE UNCHANGED <<rec, next>>
       /\ IF w = "ok" /\ result \in {"kept", "written"}
          THEN GoOn(p, x, n)
          ELSE Leave(p, "stopping")
    /\ UNCHANGED <<now, definition, worker, since, revived>>

-----------------------------------------------------------------------------
(* startInvocation: the handler of attempt a at occurrence t.              *)

\* Mutant of holds: the token is not compared.
holdsAny(t, a, r) == rec[t].status = "running" /\ rec[t].until > r

\* The lease of attempt a is live by the time r.
holds(t, a, r) == rec[t].status = "running" /\ rec[t].attempt = a /\ rec[t].until > r

\* renew reads the clock on its ticker.
RenewTick(t, a) ==
    /\ worker[<<t, a>>].step = "run" /\ worker[<<t, a>>].renewAt = None
    /\ ~worker[<<t, a>>].lost
    /\ worker' = [worker EXCEPT ![<<t, a>>].renewAt = now]
    /\ UNCHANGED <<now, store, state, job, loop, failed, faults, history>>

\* A renewal that fails cancels the handler and is reported when it has ended.
Renew(t, a, w) ==
    /\ worker[<<t, a>>].step = "run" /\ worker[<<t, a>>].renewAt # None
    /\ Allowed(w) /\ Fault(w)
    /\ LET r == worker[<<t, a>>].renewAt
           renewed == holds(t, a, r)
       IN
       /\ rec' = IF renewed /\ w # "lost" THEN [rec EXCEPT ![t].until = r + Lease] ELSE rec
       /\ revived' = IF renewed /\ w # "lost" /\ rec[t].until <= now
                     THEN revived \cup {t} ELSE revived
       /\ worker' = [worker EXCEPT ![<<t, a>>].renewAt = None,
                                   ![<<t, a>>].lost = ~(renewed /\ w = "ok")]
    /\ UNCHANGED <<now, definition, next, state, job, loop, failed, since, started>>

\* The handler returns, by itself or cancelled; a renewal under way is given up.
HandlerEnds(t, a, end) ==
    /\ worker[<<t, a>>].step = "run"
    /\ worker' = [worker EXCEPT ![<<t, a>>].step = "finish", ![<<t, a>>].renewAt = None,
                                ![<<t, a>>].finishAt = now, ![<<t, a>>].as = end]
    /\ UNCHANGED <<now, store, state, job, loop, failed, faults, history>>

Complete(t, a, w) ==
    /\ worker[<<t, a>>].step = "finish"
    /\ Allowed(w) /\ Fault(w)
    /\ LET x == worker[<<t, a>>]
           ok == holds(t, a, x.finishAt)
       IN
       /\ rec' = IF ok /\ w # "lost"
                 THEN [rec EXCEPT ![t] = [@ EXCEPT !.status = x.as, !.until = 0]] ELSE rec
       /\ failed' = IF state[x.proc] = "up" /\ (x.lost \/ ~ok \/ w # "ok")
                    THEN failed \cup {x.proc} ELSE failed
    /\ worker' = [worker EXCEPT ![<<t, a>>] = NoWorker]
    /\ UNCHANGED <<now, definition, next, state, job, loop, history>>

-----------------------------------------------------------------------------
Tick ==
    /\ now < MaxTime
    /\ now' = now + 1
    /\ UNCHANGED <<store, state, job, loop, failed, worker, faults, history>>

Init ==
    /\ now = 0
    /\ definition = None /\ next = 0 /\ rec = [t \in Instant |-> NoRecord]
    /\ state = [p \in Proc |-> "down"]
    /\ job = [p \in Proc |-> None]
    /\ pc = [p \in Proc |-> "wait"] /\ cycle = [p \in Proc |-> 0]
    /\ todo = [p \in Proc |-> {}] /\ stamp = [p \in Proc |-> None]
    /\ more = [p \in Proc |-> FALSE]
    /\ failed = {} /\ worker = [x \in Instant \X Attempt |-> NoWorker]
    /\ faults = 0
    /\ since = 0 /\ started = [p \in Proc |-> 0] /\ revived = {}

\* The steps of a process's loop.
Step(p, w) ==
    \/ Cycle(p) \/ ReadClock(p) \/ Claim(p, w) \/ Skip(p, w)
    \/ StopOnError(p) \/ Stopped(p)
    \/ \E d \in Definition : Start(p, d, w)

Next ==
    \/ \E p \in Proc : Stop(p) \/ Crash(p)
    \/ \E p \in Proc, w \in TxResult : Step(p, w)
    \/ \E t \in Instant, a \in Attempt : RenewTick(t, a)
    \/ \E t \in Instant, a \in Attempt, end \in Outcome : HandlerEnds(t, a, end)
    \/ \E t \in Instant, a \in Attempt, w \in TxResult : Renew(t, a, w) \/ Complete(t, a, w)
    \/ Tick

Spec == Init /\ [][Next]_vars

-----------------------------------------------------------------------------
(* Properties.                                                             *)

\* The type of every variable.
TypeOK ==
    /\ now \in Time
    /\ definition \in Definition \cup {None} /\ next \in 0 .. MaxTime + 1
    /\ rec \in [Instant -> [status : Terminal \cup {"none", "running"},
                            attempt : 0 .. MaxTime, until : 0 .. MaxTime + Lease]]
    /\ state \in [Proc -> {"down", "up", "stopping"}]
    /\ job \in [Proc -> [def : Definition, next : 0 .. MaxTime + 1, startup : BOOLEAN]
                        \cup {None}]
    /\ pc \in [Proc -> {"start", "wait", "recover", "due"}]
    /\ cycle \in [Proc -> Time] /\ todo \in [Proc -> SUBSET Work]
    /\ stamp \in [Proc -> Time \cup {None}] /\ more \in [Proc -> BOOLEAN]
    /\ failed \subseteq Proc
    /\ worker \in [Instant \X Attempt ->
                     [step : {"none", "run", "finish"}, proc : Proc \cup {None},
                      renewAt : Time \cup {None}, finishAt : Time,
                      as : Terminal \cup {"none"}, lost : BOOLEAN]]
    /\ faults \in 0 .. MaxFaults
    /\ since \in Time /\ started \in [Proc -> Time] /\ revived \subseteq Instant

\* An instant of the schedule that was not passed over when the schedule changed.
Scheduled(t) == IF definition = None THEN FALSE ELSE t \in definition.at /\ since < t

\* The cursor leaves no scheduled instant behind: since the schedule was last
\* changed, every instant before it has its record, whoever claimed or skipped
\* it, whatever crashed and whichever commits were ambiguous.
\* It includes the type invariant.
NothingIsPassedOver ==
    /\ TypeOK
    /\ \A t \in Instant : Scheduled(t) /\ t < next => rec[t].status # "none"

live(t) == rec[t].status = "running" /\ rec[t].until > now

\* Under OverlapSkip two occurrences of the job never hold live leases at once,
\* across processes, takeovers and restarts, unless the lease of one had ended
\* and came back by a renewal that had read the clock before.
LiveLeasesDoNotOverlap ==
    (\A d \in Definition : d.overlap = "skip") =>
        \A t, u \in Instant : live(t) /\ live(u) /\ t # u => {t, u} \cap revived # {}

\* A fenced owner changes nothing: the record of a terminal occurrence is final,
\* and a live lease is only renewed, or ended by the handler of its attempt as
\* that handler returned.
LateOwnersChangeNothing ==
    [][\A t \in Instant :
          /\ rec[t].status \in Terminal => rec'[t] = rec[t]
          /\ live(t) /\ rec'[t] # rec[t] =>
                /\ rec'[t].attempt = rec[t].attempt
                /\ \/ rec'[t].status = "running" /\ rec'[t].until > rec[t].until
                   \/ /\ rec'[t].status = worker[<<t, rec[t].attempt>>].as
                      /\ worker[<<t, rec[t].attempt>>].step = "finish"]_vars

\* What was missed before a start follows the catch-up policy: of the instants
\* that had come by then, a process invokes none (CatchUpNone) or at most the
\* latest (CatchUpLatest), in however many batches it works them off.
CatchUpIsKept ==
    [][\A p \in Proc, t \in Instant :
          worker[<<t, 1>>].step = "none" /\ worker'[<<t, 1>>].proc = p /\ t <= started[p] =>
             \/ job[p].def.catchUp = "all"
             \/ /\ job[p].def.catchUp = "latest"
                /\ \A u \in job[p].def.at : u <= started[p] => u <= t]_vars
=============================================================================
