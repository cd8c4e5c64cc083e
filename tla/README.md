# Verification of Candace

TLA+ models of the parts of this repository that must stay right while
machines crash, disks fail and messages are late: Warden, which elects the
leader of a fleet and reports its dead nodes; Candace OS, in which that
leader's operator approves changes and node agents carry them out; the durable
scheduler `pkg/cron`; and the live sessions of GoTTH, `pkg/gotth`.

TLC checks every model on small instances.  TLAPS proves every safety property
of the passing runs for every value of the constants.  `PROJECT.json` lists the
runs, the mutants that show each property can fail, the source lines behind
each definition, the hazards and the theorems.

    tlc -workers 2 -config MCWardenElection.cfg MCWardenElection
    tlapm WardenProofs.tla

## The system

### Warden (`services/warden`, `app/warden`)

A daemon on every node of a fleet.

| Part | State | Operations | What is hard | What makes it correct |
|---|---|---|---|---|
| Election manager, static voters (`election/election.go`, `heartbeat.go`, `manager.go`) | term, vote, role, leader, tally; (term, vote) on disk | election timeout, vote request and reply, heartbeat and reply, restart | votes outlive the process that cast them; saves fail before or after the rename; replies of an earlier election arrive late | one leader per term; a vote is never recast; every (term, leader) that is shown is true |
| Dynamic membership (`election/membership.go`) | a versioned set of voters in memory and on disk, a leader's ledger of acknowledgements | admit or remove one voter, spread it with heartbeats, adopt, acknowledge | nodes count votes against different voter sets; a change starts before the last one is stored | a changed membership was stored by a majority; nobody goes back; adjacent memberships elect one leader |
| State store (`store/store.go`) | one JSON record | save by rename, load | an error after the rename | what a restart may read is what a save may have left |
| Watchdog and notifier (`watchdog/watchdog.go`, `notify/smtp.go`) | open episodes, queue, cooldowns, deliveries in flight | evaluate a view, deliver, handle a result | results of an earlier leadership epoch; retries of what was already sent; IDs of one-second resolution | no open episode is forgotten; an incident is mailed again only if it was raised again or its acceptance was reported as an error; the backlog drains |
| Cluster view (`election/view.go`), discovery, gRPC transport and server, dashboard, metrics | caches | read-only projections and plumbing | a follower's cached view ages | (not modelled yet; inputs of the models above) |

The manager sends votes and heartbeats through the transport, saves through
the store, and publishes views that the watchdog, the dashboard and Candace OS
read.  All handlers of the manager run on one loop goroutine, and so do all
handlers of the watchdog; the transport and the deliveries run in goroutines
of their own and post results back to the loops.

### Candace OS (`services/candaceos`, `app/candaceos-core`, `app/candaceos-agent`)

A control program (Core) on the leader's side and an agent on every node.

| Part | State | Operations | What is hard | What makes it correct |
|---|---|---|---|---|
| Approval queue with the durability hooks of the control runtime (`operator/approvals.go`, `control/runtime.go`, `store/store.go`) | recording and pending approvals, their timers and result channels; one row each in the database | request, resolve, cancel, expire, expire a whole run, restart | four parties finish the same approval; the durable write lies between the claim and the delivery; a commit may be reported as failed | a decision is returned only if it is recorded; the first answer wins; an abort closes the run; every request returns |
| Node agent reconciler with its executor and store (`agent/reconciler.go`, `runner.go`, `store.go`) | the accepted fence and assignment in memory and on disk; the request under way | accept a fence, plan, preflight, converge, persist; load, crash, power loss | a deposed leader's request arrives late; a rename is visible before it is durable; records of an older format | commands never go back to an older fence; what was answered is durable; a record names what was converged |
| Operator controller with the Ollama harness and the run records of the control runtime (`operator/controller.go`, `ollama_harness.go`, `control/runtime.go`) | session and run phase, one-time reconcile tokens, turns of the harness, run rows, sticky write faults | send, steer, abort, harness events, approval and dispatch, close | the idle event of an aborted turn arrives late; an approval received before an abort is used after it; the record of a run is written outside the mutex | an ended run stays ended; an aborted run mutates nothing; records keep up; every run ends |
| Reconcile service, fleet client, agent client, control store (`reconcile`, `fleet`, `agentclient`, `store`) | the fleet snapshot; intents, runs and node rows in the database; requests in the network | refresh the snapshot, plan nodes, store the intent, call each node under a fence, record, restart | a node's outcome is unknown after a timeout or restart; rollouts interleave between their transactions | a node that may run the app counts as possibly active; evidence is true; an undisturbed rollout converges |
| Source materialisation (`agent/materialize.go`) | a bounded cache of revisions | verify, seal, install by rename, evict | eviction of what is in use | planned; in AgentReconciler it is a plan that may fail |
| Core bootstrap, HTTP API, configuration, harness adapters | wiring | | | not modelled: plumbing and external programs |

The agent (an external program behind a harness) proposes a reconciliation;
the controller asks the queue for an approval; the operator answers through
the control runtime, which first checks that Warden reports a quorum; the
reconcile service sends each node an assignment with a fence made of Warden's
term and leader; the node agent refuses fences older than the newest it has
accepted.

### Cron (`pkg/cron`)

| Part | State | Operations | What is hard | What makes it correct |
|---|---|---|---|---|
| Service over the PostgreSQL store (`service.go`, `options.go`, `postgres/store.go`, `queries.sql`) | the job's definition and cursor, an occurrence's status, attempt and lease; each process's cursor, batch and handlers | reconcile a definition, recover expired leases, claim, skip, renew, complete, stop, crash | times in a transaction were read before it; a late owner meets the next one; versions of a job run side by side | the cursor passes nothing over; leases do not overlap; late owners change nothing; the catch-up policy holds |

### GoTTH (`pkg/gotth`)

| Part | State | Operations | What is hard | What makes it correct |
|---|---|---|---|---|
| Session actor, renderer and browser runtime (`internal/session`, `internal/render`, `client/runtime.js`) | the page, the hashes of what was delivered, dirty regions; the window of unacknowledged frames; deferred provenance; the client's sequence and its gap latch | mount, transition, acknowledgement, tick, resync, eviction; apply, discard, ask, retry | frames are deferred, coalesced, refused or lost; a region fails to render; requests and acknowledgements overtake each other | no change and no provenance is forgotten; the browser shows what was sent; sequences are accounted for once; the browser catches up |

### Other parts

Left out: the mailbox library, pgmem, widget SDK, work continuity, shared
libraries, CSF, the Copilot adapter, xetcas, GoTTH's protocol encoding and
components, deployment files, examples and generated code.  `PROJECT.json`
gives the reason for each.

Most of the repository's lines are of these kinds: generated protobuf, SQL and
template code, command lines, presentation and separate products.  The map
therefore covers a small share of all lines and most of the lines that decide
something under concurrency or failure.

## The modules

| Module | Models | Extended or used by |
|---|---|---|
| `LeaderRegistry` | what an election promises: each term is won at most once, and a node shows a term without a leader or with its winner | refined by `WardenElection` |
| `WardenElection` | the election manager with static voters, and its store | `MCWardenElection`, `WardenProofs` |
| `WardenMembership` | the election manager in discovery mode | `MCWardenMembership`, `WardenMembershipProofs` |
| `WardenWatchdog` | the watchdog and its deliveries | `MCWardenWatchdog`, `WardenProofs` |
| `AgentReconciler` | the node agent's reconciler, its store and its executor | `MCAgentReconciler`, `AgentReconcilerProofs` |
| `ApprovalQueue` | the approval queue, its hooks and the durable rows | `MCApprovalQueue`, `ApprovalQueueProofs` |
| `OperatorController` | the operator controller, the Ollama harness and the run records | `MCOperatorController`, `OperatorControllerProofs` |
| `ReconcileService` | rollouts from the fleet snapshot to the node agents and back to the records | `MCReconcileService`, `ReconcileServiceProofs` |
| `CronService` | the processes of the cron service and their store | `MCCronService`, `CronServiceProofs` |
| `GotthSession` | one live session: actor, renderer, wire and browser | `MCGotthSession`, `GotthSessionProofs` |

Definitions keep the names of the code where they stand for a function.
Definitions that a comment calls a mutant are plausible mistakes in the code;
no specification uses them.  They show that a property can fail.

### WardenElection

State: `currentTerm`, `votedFor`, `role`, `leaderID` and `votesFrom` are the
manager's fields, `diskTerm` and `diskVotedFor` the stored record.  One action
per handler: `onElectionTimeout`, `onVote`, `onVoteResult`, `onHeartbeat`,
`onHeartbeatResult`, and `NewManager` for a stop and a new start.  A save
succeeds, fails with the old record in place ("lost") or fails with the new
one in place ("unsure", when only the sync of the directory failed).  Messages
are kept in sets for ever, so each may be late, lost, repeated or overtaken.
Timers are not measured: an election may start at any time, on the nodes in
`Standing`, a bound.

### WardenMembership

The same handlers, counting votes against the `membership` each node holds.
`maybeStartMembershipChange` and `applyMembershipChange` are part of the
handlers that call them.  Which observers are stable enough to be admitted and
which voters are dead and gone from the roster is chosen freely whenever the
leader looks, so every discovery is covered; the leader's own guards (settled,
live majority, one change at a time) are kept.  The `deployment`, chosen
once, gives the seed voters and what saves may do, and bounds who talks, who
restarts and who stands in which term.

### WardenWatchdog

`evaluate` and `handleResult` are the two handlers of the loop, `Notify` the
return of a delivery goroutine, `Run` a restart.  The view (leadership,
electorate, status of each peer) changes freely between evaluations.  The
clock counts seconds because an incident's ID does: two incidents about one
peer in one second share an ID, and the queue then counts them.  A delivery is
sent, fails, or is accepted by the server and reported as failed because the
QUIT after it failed ("sentError"); `unsure` is history and counts the last
kind, of which `MaxUnsure`, a bound, are tried.  The in-memory history of
incidents, the metrics and the wording of mails are left out.

### AgentReconciler

`operationMu` serialises requests, so one `job` is under way; its steps
`plan`, `preflight`, `action` and `persist` are separate actions, and between
them the process may crash and the machine may lose power.  `disk` is the
record the file shows, `tail` the set of records it may show after a power
loss: a synced save leaves one, a rename whose directory was not synced adds
one.  `Start` is `Load`, with the adoption of a record of the older format.
A request of any leader in any term may arrive at any time, which covers
delayed, repeated and reordered calls.

`dryRun` never changes on a node: the Compose files keep the state of dry-run
and live agents in separate directories.  A command that the process leaves
behind when it dies is not modelled: the agent's container has an init process
and its children end with it.  Commands and timestamps of a record follow its
assignment and are left out.

### ApprovalQueue

Each critical section of the queue's mutex is one action; the database writes
lie between them.  `waiter` is where the goroutine of a request stands,
`claim` the `finish` under way (by an operator, the request itself or an
abort), `result` its buffered channel, `row` the durable record.  A hook's
transaction commits, rolls back, or commits while the caller is told it failed
and the read-back fails too.  `ExpireRun` lists what is pending in one section
and finishes the list outside it.  All modelled approvals belong to the run
that is aborted.  The quorum check that the control runtime makes before it
calls `Resolve` is not modelled: it only keeps calls away.

### OperatorController

`sendMu` serialises Send, Steer and Abort; `op` is the next step of its holder,
so events and timers fall between any two steps.  `status`, `phase` and `run`
are the controller's fields, `turn`, `step` and `cancelled` the harness's
turns, each a goroutine that notices a cancelled context only where it looks.
`acks` are idle events that are still to be ingested, `persisting` the write of
an outcome outside the mutex, `row` and `faults` the records and the sticky
write faults.  An approval is that of `ApprovalQueue` without its record:
asked, answered or expired; `approved` are the one-time tokens.  The embedded
and Copilot harnesses are external programs and are left out.  `stopped` and
`stray` are history: runs whose abort was accepted, and runs that a late idle
event has ended.  A send or a steering message can fail before it takes the
harness's lock (a refused prompt, a cancelled context), so `SendFails` and
`SteerFails` do not wait for an event that is being recorded; `crossed`, history
too, are the runs whose failing send met such a record.

### ReconcileService

Each call of `Reconcile` is a process with a step per transaction and per
request: it reads the snapshot, the possibly active nodes and the clock, stores
its intent, calls each node and stores each answer.  `sent` holds requests that
were written to the network: a node may carry one out at any later time, also
after its caller gave up.  `rows` are the node rows, `PossiblyActive` the view
of migration 004, `fence`, `dry` and `live` the node agents.  The inside of a
node agent is AgentReconciler's.  `Restart` stops every call and closes what is
open the way Core does on start.  Which revision a name resolves to, and the
content of plans, are left out.

### CronService

A process reconciles, then cycles: `Cycle`, `ReadClock`, `Claim` or `Skip` for
each due instant.  `worker` is the goroutine of each attempt, with the time it
read before its renewal or completion, because the store compares that time and
not its own.  Transactions commit, roll back, or commit and report failure.
`revived` is history: leases renewed after they had ended.  Two versions of a
job may run side by side.  Disabled and removed jobs, several jobs, clock skew,
the truncation of times to microseconds, the in-memory store, the status route
and the calendar arithmetic of a schedule are left out.

### GotthSession

`page` is what the application would show, `hashes` what the renderer believes
the client holds, `dirty` the regions to render.  `transition`, `resync`,
`onAck` and `onTick` are the branches of the actor's loop, each with the whole
of `emitPatch` or `emitSnapshot`, its three stages of backpressure and its
exits that emit nothing.  A frame is refused when its union of contributing
events is too long or its markup too large.  What the client sends is in
`mailbox` or `acks` at once; what the server sends is on `wire`, where a patch
may be lost.  `seq`, `gap`, `gapTimer` and `dom` are the browser's.  All resync
requests share one event identifier.  Times are choices: a tick may find the
grace period over whenever a full window was seen before.

Every region may fail to render in every pass, also in the first snapshot
(`NoMarkup` is what is known of a region that was never delivered).  A failing
region is left out of the frame, is not marked again (`failed` is history) and
is charged to the panic budget (`panics`), which ends the session.  The children
of a region in `Collection` may need more updates than a patch has room for;
everything is rendered again then, and the failures of both passes count.
`skipped` is history: the regions whose last word to the client was a snapshot
without them that superseded what it had missed.  `eventful` bounds what happens
in one session.

The children of a collection, telemetry, application-supplied contributing
lists, rejections that only produce an error frame, and reconnecting (a new
session) are left out.  The panic budgets of the reducer and of the declarations
are part of `Close`, which may come at any time.

## The runs

All runs together take about twelve minutes with two workers.  Where a module
has no run for TypeOK, one of its safety invariants includes it.

| Run | Instance | Distinct states | Checks |
|---|---|---|---|
| `election` | 3 voters, 2 of which stand, 2 terms | 57,725 | TypeOK, ElectionSafety, VotesAreKept, ViewsNameTheWinner, CandidaciesAreFresh, ImplementsRegistry, StaleLeaderStepsDown |
| `membership` | three deployments of 3 and 4 nodes, 2 terms, 3 versions | 98,880 | AdjacentMembershipsAreSafe, ChangedMembershipsAreDurable, MembershipNeverRegresses |
| `membership_drift` | the torn deployment | | ElectionSafety is violated |
| `watchdog` | 2 peers, one may leave, 3 instants, 2 incidents per ID, 1 accepted mail reported as failed, restarts | 192,118 | NoEpisodeIsLost, OneMailPerIncident, BacklogDrains |
| `agent` | 2 leaders, 2 assignments, 2 terms | 89,163 | TypeOK, MutationsAreFenced, AckedIsDurable, AssignmentsWereConverged |
| `agent_unsynced` | the same | | FencesOutlivePower is violated |
| `approval` | 1 approval, 2 calls, 3 instants, restarts | 54,848 | ReturnsAreRecorded, FirstAnswerWins, SweptRunsAreClosed, ResolvedOnce, EveryRequestReturns |
| `controller` | 2 runs, 3 turns, steering, close | 50,571 | RecordsKeepUp, EndedRunsStayEnded, AbortedRunsDispatchNothing, RunsEnd |
| `reconcile` | 3 nodes, 2 calls, 3 intents, 3 views, a node that changes to dry run, restart | 2,047,410 | InactiveUnlessOvertaken, EvidenceIsTrue, SoleRolloutConverges |
| `reconcile_overtaken` | the same | | LiveNodesArePossiblyActive is violated |
| `cron` | 2 processes, 2 definitions, 3 instants, lease of 2, catch-up limit 1, 1 fault | 795,922 | NothingIsPassedOver, LiveLeasesDoNotOverlap, LateOwnersChangeNothing, CatchUpIsKept |
| `session` | 2 regions (1 collection), 3 pages, window 3, 2 changes, 1 refused frame, 4 of: 3 events, 1 effect, 1 lost patch, failing renders (panic budget 2) | 318,654 | StaleRegionsAreDirty, ClientShowsWhatWasSent, RangesAreDisjoint, SequencesAreAccounted, NothingIsUnattributed, HonestAcksAreValid, Converges |

### Why the bounds are enough

- **Election.**  Three nodes are the least in which a majority is not
  everybody, two candidates the least that compete, and two terms the least in
  which a vote, a reply or a heartbeat can be stale.  The run has no symmetry,
  which liveness would make unsound; the theorems lift all three bounds, and
  those of the other models.
- **Membership.**  Two changes are needed for two memberships whose majorities
  do not meet, hence three versions.  `TwoTerms` lets a second leader extend
  what the first began; `FailingDisks` lets each save fail and each node
  restart at any point; `Torn` is the smallest partition in which two nodes
  win one term.  One run checks the three: a behaviour starts by choosing its
  deployment.
- **Watchdog.**  Two peers with this node are the least electorate whose
  quorum can be lost while the leader still counts.  Three instants with a
  cooldown of one hold an incident inside and one after the cooldown, and
  two incidents may share an ID.  One accepted mail that is reported as failed
  is enough for the retry that repeats it.  `quiet` stops the view from bearing
  on a peer once the bound on its incidents is reached and never stops a
  handler.
- **Agent.**  A conflict needs two leaders, a stale request two terms, a
  forgotten assignment two assignments.
- **Approval.**  One approval with two operators shows every race between
  those who finish it, the abort included; a second approval would only make
  the abort's list longer.  One instant before and one after the deadline are
  enough, as the code only compares with it.
- **Controller.**  Two runs let the leftovers of one disturb the next; the
  third turn is the one that a late steering message opens.
- **Reconcile.**  Two calls interleave in every order; the second view's leader
  has lost a node that runs the app, and the third view no longer lists it.
- **Cron.**  Three instants with a catch-up limit of one make a batch that
  leaves more than one behind; a lease of two instants ends while its handler
  runs; one fault at any step, by either process.
- **Session.**  Two regions are the least in which a patch can be right in one
  and stale in the other.  A window of three lets a gap of two frames stay
  below it.  With a ceiling of two, three events reach the union that no frame
  can carry, and an effect then finds the session stuck.  One lost patch makes a
  gap, the second change reveals it, and the fourth of the four incidents is the
  render that fails in the snapshot that answers.  A session survives one failed
  render and ends with the second.

Deadlock checking is off where the system may stop: every request ends
(`approval`), the runs and turns are used up (`controller`), the clock is at
its bound (`cron`), the session is closed (`session`).

### Fairness

- `election`: a leader resends its heartbeats every tick and the manager's
  loop handles what it receives, so a heartbeat that can be delivered is
  handled at some point, and so is a reply.  No election is assumed to happen.
- `watchdog`: the ticker fires for ever and the loop reads its results
  (weak fairness of `evaluate` and `handleResult`), SMTP has timeouts, so
  `Notify` returns (weak fairness), and a server that is tried again and again
  accepts at some point (strong fairness of a successful `Notify`).
  BacklogDrains is about a node that stays leader with a live quorum; elsewhere
  the isolation guard freezes the queue on purpose.
- `approval`: goroutines run, a hook's transaction ends (every hook bounds its
  context by the persistence window), and time passes.  Operators and aborts
  owe nothing.
- `controller`: calls return, since their contexts have deadlines; timers fire;
  a turn ends by itself or by its timeout.  Operators owe nothing.
- `session`: the actor's select picks messages and acknowledgements, ticks come,
  a window that stays full is evicted, the browser handles frames and its
  armed retry, and time refills the bucket.  Users, effects and the network owe
  nothing.  Messages and acknowledgements share one condition, and so do the
  browser and the bucket: less is assumed than the code gives.

## What the runs showed

Three statements of the repository do not hold of the code, each with a run:

1. **Memberships that are not adjacent** (`membership_drift`; `types.go:121`,
   `heartbeat.go:183`).  A vote request names no membership.  A voter that
   missed two settled changes can win a term with a majority of its old voters
   while another node wins it with the new ones.  What does hold is
   AdjacentMembershipsAreSafe.
2. **A fence read back before it was durable** (`agent_unsynced`;
   `reconciler.go:53`).  A process that dies between the rename and the sync of
   the directory leaves a fence its successor trusts without saving it again.
   If the machine loses power after a command has run under it, the older fence
   returns and an older leader is served.  What does hold is
   MutationsAreFenced, and DurableSavesKeepFences proves that this is the only
   way out.
3. **Overtaken rollouts** (`reconcile_overtaken`;
   `004_conservative_rollouts.sql:36`).  Rollouts of one deployment are not
   serialised, and a start that was requested first may be carried out after a
   stop that was requested later.  The records then call the node inactive
   while the app runs there.  What does hold is InactiveUnlessOvertaken.

### Divergences without a run

These were met while modelling.  Where one limits a property, the property
names it.

- **Late idle** (`controller.go:624`).  The idle event of an aborted turn that
  arrives after the next run has begun completes that run.  `stray` marks such
  runs and AbortedRunsDispatchNothing excepts them.  When the send of that run
  fails meanwhile, without having waited for the harness's lock, "failed" is
  written first and the late event's "succeeded" over it, and the row says
  "succeeded" of a run the controller calls failed, with no write fault.
  `crossed` marks these runs; RecordsKeepUp excepts them and shows that all of
  them are stray.
- **Steering a run that is over** (`controller.go:444`).  The message can open
  a turn after its run ended; the comment in `run_completion_test.go` fears
  exactly "the queued prompt execute with no run of its own".
- **Close** (`controller.go:645`).  An abort or a failing send that is under way
  writes its status over the terminal one, although "Close owns the terminal
  controller state".
- **Write faults** (`runtime.go:162`).  They are checked before `sendMu` is
  taken, so a prompt that waited behind a failing one still starts.
- **Revived leases** (`pkg/cron/service.go`, `renew`).  A renewal that read the
  clock before its lease ended brings the lease back after another occurrence
  was claimed, so two are live under OverlapSkip; the cron README says the
  store enforces that there is one.  `revived` marks them.  Also, a process
  with CatchUpNone that skips an instant another one is running stops its whole
  scheduler with ErrOccurrenceRunning, and it may skip an instant that another
  version of the job would have run.
- **Cooldown** (`watchdog.go:369`, `:33`).  The cooldown compares with the last
  success that was handled, when an incident is queued; two incidents queued
  meanwhile are both mailed.
- **Aborts** (`approvals.go:328`, `:313`).  An approval that has left the pending
  map but has not been delivered is in neither map, so ExpireRun reports success
  and a request of the aborted turn returns it.  What does hold is
  SweptRunsAreClosed, and in the controller AbortedRunsDispatchNothing.
- **Terms** (`types.go:20`).  They are said never to regress across restarts,
  but `stepDown` and `onHeartbeat` adopt a newer term even if saving it failed,
  and a restart brings the older one back; no vote is at risk, since votes are
  refused when the save fails.
- **QUIT** (`types.go:209`, `notify/smtp.go:151`).  One notification per incident
  is promised, but `send` reports an error when QUIT fails after the message was
  accepted, and the retry repeats it.  The run takes this path; OneMailPerIncident
  allows one mail more for each such report (`unsure`) and no other.
- **A region missing from a resync snapshot** (`render/renderer.go:249`, Commit).
  The comment says that `hashes` are the bytes the client holds, or else a region
  is "stale for the life of the connection with nothing saying so".  When a patch
  of a region is lost and the region fails to render for the snapshot that
  supersedes it, the snapshot omits the region, its hash stays that of the lost
  patch, and later renders of the same bytes are suppressed.  `skipped` marks the
  region until a frame carries it.  Without that exception TLC refutes
  ClientShowsWhatWasSent, and, with one event more than in the run, Converges:
  the region renders again, is suppressed, and stays stale.
- **A region that failed to render** stays stale until its state changes again,
  on purpose (`render/renderer.go:297`).  `failed` in StaleRegionsAreDirty and
  Converges.
- **Unions past the ceiling** (`session/limits.go`, CoalesceFlushAt).  Its
  comment calls the schema's ceiling unreachable, because a transition is
  deferred only while the union is below the flush trigger.  The exit of
  `emitPatch` that has nothing to send defers regardless, so enough events
  without a visible change make a union that no frame can carry, and every
  later frame of the session is refused.  `tooLong` in Converges; without that
  exception TLC finds the stale session.
- **A second answer to one gap** (`client/runtime.js`, `applied`;
  `session/resync.go`).  While a gap is latched, the refusal of an ordinary
  event arms a second request.  When the server has emitted one more patch
  between the two answers, the second range begins below the client's position
  and the client closes the connection with 4002, although the comment there
  says the range then "begins exactly where a client that applied the snapshot
  at X now stands".  With three page changes TLC reaches it (`closed` is
  "range"); with the two of the run it does not.
- **A refused resync snapshot** leaves the client latched with nothing that
  asks again (`refused` in Converges), and a lost last patch is noticed only
  with the next one (`tailLost`).
- **Provenance** (`pkg/gotth/docs/protocol.md:621`).  The union over a run is
  said to equal the set of events that changed state without a patch of their
  own; events that changed nothing are named too.  What does hold is
  NothingIsUnattributed.

## The proofs

### WardenProofs: the election

`WardenProofs` holds the proofs about both of Warden's loops that count no
memberships, the election with static voters and the watchdog.  It extends both
models, which share no variable; the watchdog's specification is named
`WatchdogSpec` so that the two can stand side by side.

For every finite non-empty set of nodes and every bound on terms: `TypeCorrect`,
`ElectionIsSafe`, `GrantedVotesAreKept`, `ViewsAreTruthful`,
`CandidaciesStayFresh` and `ElectionImplementsRegistry`.

ElectionSafety is not inductive: nothing in it says why a candidate may count
the votes it has.  The inductive invariant `IInv` adds

- `CastsAreKept`: a vote that was cast, over the wire or for oneself, is held
  by memory and by disk until a later term.  A save that fails with the new
  record in place is harmless because the vote was not cast;
- `OneVotePerTerm`: so a voter casts one vote per term, restarts included;
- `CandidatesHoldTheirVotes`: whatever a candidate has tallied was cast for it
  in its present term, because late replies of earlier elections are dropped;
- `LeadersHoldAQuorum`: whoever sent a heartbeat was given a majority;
- `RefusalsAreNewer` and `ViewsNameTheWinner`.

`QuorumsIntersect` then gives two leaders of a term a common voter.  The
refinement of `LeaderRegistry` maps the winners to the senders of heartbeats
and each node's view to its (term, leader).

### AgentReconcilerProofs

For all sets of leaders and assignments, every bound on terms and everything
the store may do: `TypeCorrect`, `FenceInvHolds`, `MutationsStayFenced`,
`AckedStaysDurable`, `RecordsWereConverged`.  `DurableSavesKeepFences` assumes
`DurableSaves` (a visible save is synced, or power is never lost) and proves
FencesOutlivePower, which has no condition on power losses.

- `FenceInv`: the record on disk covers the fence in memory, which covers the
  last command and equals the fence of the request under way.  A restart may
  therefore read the disk and forget the rest.  The disk may be ahead of
  memory: a save that failed after its rename.
- `AckInv` adds to AckedIsDurable that the running process still holds the
  answered assignment, so that accepting a newer fence writes it back.
- `ConvergedInv` adds that a request about to be persisted has completed its
  command.

### WardenMembershipProofs

For every finite set of nodes, all deployments and every bound on terms and
versions: `AdjacentElectionsAreSafe`, `ChangesAreDurable` and
`MembershipMovesOn`.  Two chains meet in the invariant.

- The votes, as for static voters, except that a candidate's tally is a
  part of the voters it knows and a winner holds a majority of the membership
  it counted against.  `AdjacentMajoritiesMeet` is the argument of `types.go`:
  with one voter more or less, majorities still share a voter.
- The memberships.  ChangedMembershipsAreDurable speaks of disks and is not
  inductive, since a save that failed after its rename leaves the disk ahead of
  memory and the next write takes it back.  The invariant speaks of memory: the
  disk is never behind it (`DisksAreNotBehind`), and every acknowledgement in a
  reply or in a ledger is true of it (`RepliesAreTrue`, `LedgersAreTrue`).
  Memory never goes back, so what a ledger showed once holds for ever.

### WardenProofs: the watchdog

For every set of peers, every electorate, every cooldown and all outcomes of a
delivery: `EpisodesAreKept` and `MailsAreAccounted`.

- `EpisodeInv`: an open episode has its incident in the queue, or a mail about
  its peer started a cooldown that covers it; a success that is still to be
  handled has reached the operator already.
- `DeliveryInv`: an incident has one delivery at a time, and what was mailed
  together with what is queued is at most what was raised, plus one for each
  accepted mail that was reported as failed, plus one while a success waits to
  be handled.

### ApprovalQueueProofs

For every set of approvals, every timeout and everything the hooks'
transactions may do: `ReturnsRecorded`, `FirstAnswer`, `SweptClosed` and
`RowsResolvedOnce`.

TypeOK alone is not inductive here: that a claim exists depends on who holds
the approval.  The invariant says, of each approval, that it is unknown to the
queue before it is published (`Unpublished`, `RowFollows`), that a finish holds
it until `Drop` (`Held`), that a decision is in the row before anybody acts on
it (`Durable`) and that the abort finishes one approval at a time, as expired.
`SweepInv` closes what a clean abort has passed.  The first answer wins because
every answer agrees with the one row.

### OperatorControllerProofs

For every number of runs and turns and every way a transaction may fail:
`RecordsFollow`, `EndedForGood` and `AbortsStopDispatches`.

- `RecordInv` follows a run from its start to its last write: what the holder of
  `sendMu` may be doing in which phase (`HolderInv`), and which of the event,
  the send, the finished abort and the failed abort still owes the record
  (`OutcomeInv`).  Of a crossed run two of them owe it, and either may write
  last.
- `StrayInv`: while a run is being recorded or sent it has no turn, so an event
  that completes it then is that of an earlier run.
- `DispatchInv` follows a turn: only the harness's turn is not cancelled, and a
  one-time token of an aborted run outlives the abort only where an earlier
  run's idle event was taken for this one's.

### ReconcileServiceProofs

For all sets of nodes, calls, intents and reports of Warden:
`LiveNodesAreRecorded`, `EvidenceHolds` and `SoleRolloutsConverge`.

- `CallInv` ties a node's row to the step of its call, `RequestInv` says what a
  call can still learn about a request under way, and `StampsDiffer` that no
  two calls have the same fence.
- `LiveInv` names, for a node that runs the app, the call that answers for it:
  the newest the node has carried out, whose row will never read as a successful
  stop or as a dry run.
- `Sole` is the invariant of a rollout that has the fleet for itself: what it
  leaves out does not run and is recorded so, and what it has finished is as it
  wants it.

### CronServiceProofs

For all sets of processes and definitions, every lease and every batch limit:
`CursorPassesNothing`, `LeasesDoNotOverlap`, `FencedOwners` and
`CatchUpFollowed`.

- `StoreInv`: every instant of the schedule behind the cursor has a record, the
  cursor is an instant of the schedule or past the last, and a lease that has
  been taken over k times ends k instants later at least, so the clock bounds
  the attempts.
- `LoopInv`: what a process has listed had come by the times it has read
  (`ProcInv`), and of what was missed before it started only what the policy
  allows is listed to be run (`CatchUpInv`).
- `HandlerInv`: a handler's attempt is at most the record's, and the time it
  holds for a renewal was read after its lease began.  The store compares the
  attempt and that time, which is what fences a late owner.

The claim of an occurrence is written as nested conditions in the order of the
code's returns.

### GotthSessionProofs

For every finite set of regions, all pages, every window, flush trigger, ceiling
and panic budget, every depth of the queues and every number of events, losses,
refused frames and failing renders: `StaleRegionsStayDirty` (with the types),
`ClientFollowsServer`, `RangesStayDisjoint`, `SequencesStayAccounted`,
`EventsStayAttributed` and `HonestClientsStay`.  None of the six is inductive by
itself, and three meet on the wire, so there is one invariant, `SessionInv`, with a part per question.

- `WireInv`: the frames under way carry rising sequences between the client's
  and the server's, and the last sequence carries the page the server has
  committed.  If one frame, or the client, stands right before another, that
  one says by its updates what changed since.  A lost patch only removes a
  frame, and a frame that no longer has its predecessor claims nothing: that is
  why the client may apply a patch exactly when it follows.
- What a frame carries is of its page, and the range of a snapshot ends right
  before its own sequence (`WellFormed`).  A snapshot that does not follow and
  omits a region says nothing of it, and the region is `skipped` (`ClientInv`).
  With the client's check that the range begins at its position, every sequence
  is accounted for.
- `SentInv`: every range ended before the last snapshot, and `resyncFloor` lies
  at or after it, so a new range meets none of the older ones.
- `AcksInv`: the acknowledgements under way rise from the one the server holds
  to the client's position, which the server's is never behind.  A dropped or
  repeated one keeps that order.
- `Covers`: what a step finds owed, named or dropped it leaves owed, named or
  dropped, together with its own event.  It is shown of `deferPatch`, `redefer`
  and a successful send, for the union `takePending` and `unionEdges` build:
  `UnionEdges` says that the union holds every contributing event but the
  origin's own.
- `Marked`: what differs from the delivered hashes is dirty or failed to render,
  through the render pass that suppresses or fails, the send that commits and the
  send that is refused.

`unionEdges` lists the first occurrences by their rank, so that its result can
be characterised without induction over the sequence.

### Assumptions

Assumptions on constants are named in the modules that declare them and
evaluated by TLC.  They say only that the special values differ from the real
ones, that bounds are numbers (a membership has version 1 at least), that
limits which the code forces to be positive are positive, that nodes, approvals
and regions are finite in number, that there is a page and each gives every
region its markup, and that outcomes are among those the code distinguishes.
DurableSavesKeepFences carries its hypothesis in its statement.

### Only model-checked

Liveness (StaleLeaderStepsDown, BacklogDrains, EveryRequestReturns, RunsEnd,
Converges) is out of the prover's reach.

## Plan

Done: elections, memberships, watchdog, node agent, approvals, the operator
controller, rollouts, cron and the GoTTH session, and proofs of the safety
properties of each.

Models worth having: the bounded cache of source revisions with its install by
rename, and the ageing of a follower's cached cluster view, as the source of
the fleet snapshot.

## Not modelled

Timers are not measured where only their order matters (elections, the
session).  Message encoding, configuration parsing, logging, metrics,
dashboards and the wording of mails are left out.  SQL is modelled as atomic
writes with an ambiguous commit.  External programs (Docker, SMTP servers,
agent harnesses, Tailscale, Git) are choices between their outcomes.  Each
module's section names what it leaves out, and the components of
`PROJECT.json` with status `not_modelled` carry their reasons.
