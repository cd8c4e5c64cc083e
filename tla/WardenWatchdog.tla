--------------------------- MODULE WardenWatchdog ---------------------------
(***************************************************************************)
(* The leader-only incident engine of services/warden/watchdog on one      *)
(* node: what it raises, what it suppresses, and what reaches the          *)
(* operator.                                                               *)
(*                                                                         *)
(* Run is one loop goroutine, so evaluate and handleResult are atomic;     *)
(* deliveries run in goroutines of their own and report back later.  The   *)
(* view is an input: between two evaluations leadership, the electorate    *)
(* and the status of any peer may change.                                  *)
(*                                                                         *)
(* One clock unit is one second, the granularity of an incident ID         *)
(* (NewIncidentID uses at.Unix()), so two incidents of the same type about *)
(* the same peer in one unit have the same ID.  Evaluations are not tied   *)
(* to the clock: a view change triggers one too.                           *)
(***************************************************************************)
EXTENDS Integers, FiniteSetsExt

CONSTANTS
    Peer,             \* the nodes the view lists besides this one
    Electorates,      \* the sets of peers that may be voters with this node
    Cooldown,         \* Config.Cooldown
    NotifyRecovery,   \* Config.NotifyRecovery
    Outcomes,         \* what Notify may do: a subset of NotifyOutcome
    MayRestart,       \* whether the process may stop and start again
    MaxTime,          \* bound on the clock
    MaxRaise,         \* bound on the incidents raised
    MaxUnsure         \* bound on the deliveries accepted and reported as failed

\* "sent" and "failed" are the plain outcomes.  "sentError": SMTPNotifier.send
\* reports an error although the server has accepted the message (its answer to
\* the data is lost, or QUIT fails).
NotifyOutcome == {"sent", "failed", "sentError"}

ASSUME WatchdogAssumption ==
    /\ IsFiniteSet(Peer)
    /\ Electorates \subseteq SUBSET Peer /\ Electorates # {}
    /\ Cooldown \in Nat \ {0}
    /\ NotifyRecovery \in BOOLEAN /\ MayRestart \in BOOLEAN
    /\ Outcomes \subseteq NotifyOutcome
    /\ MaxTime \in Nat /\ MaxRaise \in Nat \ {0} /\ MaxUnsure \in Nat

VARIABLES
    \* The environment: the clock and what View() reports.
    now, acting, voters, status,
    \* loopState: the gate of the last evaluation, the opening time of every
    \* open episode, the time of the last success per type and peer, how many
    \* queued incidents carry an ID, and the IDs with a delivery under way.
    wasLeader, open, cooldowns, pending, inFlight,
    \* Delivery goroutines inside Notify, and the results channel.
    sending, results,
    \* History: incidents queued per ID, notifications that reached the
    \* operator per ID, the time of the last of them per type and peer, and how
    \* many of them were reported to the loop as failed.
    raised, mailed, lastMail, unsure

view      == <<acting, voters, status>>
loopState == <<wasLeader, open, cooldowns, pending, inFlight>>
history   == <<raised, mailed, lastMail, unsure>>
watchdogVars == <<now, view, loopState, sending, results, history>>

Time     == 0 .. MaxTime
Never    == -1
Kind     == {"peer_dead", "peer_recovered"}
Status   == {"alive", "suspect", "dead"}
Incident == [type : Kind, peer : Peer, at : Time]

WatchdogTypeOK ==
    /\ now \in Time
    /\ acting \in BOOLEAN
    /\ voters \in Electorates
    /\ status \in [Peer -> Status]
    /\ wasLeader \in BOOLEAN
    /\ open \in [Peer -> Time \cup {Never}]
    /\ cooldowns \in [Kind \X Peer -> Time \cup {Never}]
    /\ pending \in [Incident -> Nat]
    /\ inFlight \subseteq Incident
    /\ sending \subseteq Incident
    /\ results \subseteq [inc : Incident, ok : BOOLEAN]
    /\ raised \in [Incident -> Nat]
    /\ mailed \in [Incident -> Nat]
    /\ lastMail \in [Kind \X Peer -> Time \cup {Never}]
    /\ unsure \in [Incident -> Nat]

-----------------------------------------------------------------------------
Quorum(n) == n \div 2 + 1

\* The isolation guard: this node (a voter, since it leads) and the voters it
\* sees alive are a majority.
liveQuorum ==
    1 + Cardinality({p \in voters : status[p] = "alive"})
        >= Quorum(1 + Cardinality(voters))

\* The dead voters whose episode is not open yet, given the episodes still
\* open after a possible reset, and the live voters whose episode is open.
dying(opened)     == {p \in voters : status[p] = "dead" /\ opened[p] = Never}
recovering(opened) == {p \in voters : status[p] = "alive" /\ opened[p] # Never}

incident(type, p) == [type |-> type, peer |-> p, at |-> now]

\* queueOrSuppress: no successful notification within the cooldown.
queued(inc) ==
    LET last == cooldowns[<<inc.type, inc.peer>>] IN
    last = Never \/ now - last >= Cooldown

\* Mutant of dispatchPending: a second delivery of an incident under way.
dispatchPendingAgain(queue) ==
    LET start == {inc \in Incident : queue[inc] > 0} IN
    /\ inFlight' = inFlight \cup start
    /\ sending' = sending \cup start

\* One delivery goroutine per queued ID that has none.
dispatchPending(queue) ==
    LET start == {inc \in Incident : queue[inc] > 0 /\ inc \notin inFlight} IN
    /\ inFlight' = inFlight \cup start
    /\ sending' = sending \cup start

\* The episode bookkeeping of evaluate, from the given episodes and queue.
evaluateEpisodes(opened, queue) ==
    LET deaths   == {incident("peer_dead", p) : p \in dying(opened)}
        returns  == {incident("peer_recovered", p) : p \in recovering(opened)}
        new      == {inc \in deaths \cup (IF NotifyRecovery THEN returns ELSE {}) :
                        queued(inc)}
        newQueue == [inc \in Incident |-> queue[inc] + (IF inc \in new THEN 1 ELSE 0)]
    IN
    /\ open' = [p \in Peer |-> IF p \in dying(opened) THEN now
                               ELSE IF p \in recovering(opened) THEN Never
                               ELSE opened[p]]
    /\ pending' = newQueue
    /\ raised' = [inc \in Incident |-> raised[inc] + (IF inc \in new THEN 1 ELSE 0)]
    /\ dispatchPending(newQueue)

noEpisodes == [p \in Peer |-> Never]
noPending  == [inc \in Incident |-> 0]

\* Mutant of gainLeadership: stale deliveries are dropped, their episodes kept.
gainLeadershipKeepOpen ==
    IF wasLeader THEN <<open, pending>> ELSE <<open, noPending>>

\* Episodes and queue as evaluate goes on with them: afresh on leadership gain.
gainLeadership ==
    IF wasLeader THEN <<open, pending>> ELSE <<noEpisodes, noPending>>

\* evaluate on a node that is not the acting leader.
evaluateFollower ==
    /\ ~acting
    /\ wasLeader' = FALSE
    /\ UNCHANGED <<open, cooldowns, pending, inFlight, sending, raised>>

\* evaluate frozen by the isolation guard; a leadership gain has still reset.
evaluateIsolated ==
    /\ acting /\ ~liveQuorum
    /\ wasLeader' = TRUE
    /\ open' = gainLeadership[1]
    /\ pending' = gainLeadership[2]
    /\ UNCHANGED <<cooldowns, inFlight, sending, raised>>

evaluateLeader ==
    /\ acting /\ liveQuorum
    /\ wasLeader' = TRUE
    /\ evaluateEpisodes(gainLeadership[1], gainLeadership[2])
    /\ UNCHANGED cooldowns

\* On the ticker, on a view update, and once when Run starts.
evaluate ==
    /\ evaluateFollower \/ evaluateIsolated \/ evaluateLeader
    /\ UNCHANGED <<now, view, results, mailed, lastMail, unsure>>

total(count) == MapThenSumSet(LAMBDA inc : count[inc], Incident)

\* INotifier.Notify returns in a delivery goroutine, which reports the result.
Notify(inc, outcome) ==
    /\ inc \in sending
    /\ outcome = "sentError" => total(unsure) < MaxUnsure
    /\ sending' = sending \ {inc}
    /\ results' = results \cup {[inc |-> inc, ok |-> outcome = "sent"]}
    /\ IF outcome = "failed"
       THEN UNCHANGED <<mailed, lastMail>>
       ELSE /\ mailed' = [mailed EXCEPT ![inc] = @ + 1]
            /\ lastMail' = [lastMail EXCEPT ![<<inc.type, inc.peer>>] = now]
    /\ unsure' = IF outcome = "sentError" THEN [unsure EXCEPT ![inc] = @ + 1] ELSE unsure
    /\ UNCHANGED <<now, view, loopState, raised>>

\* The first queued incident with this ID leaves the queue, on success only.
removePending(res) ==
    pending' = [pending EXCEPT ![res.inc] = IF res.ok /\ @ > 0 THEN @ - 1 ELSE @]

\* Mutant of handleResult: a failed delivery keeps its in-flight mark.
handleResultKeepInFlight(res) ==
    /\ res \in results
    /\ results' = results \ {res}
    /\ inFlight' = IF res.ok THEN inFlight \ {res.inc} ELSE inFlight
    /\ cooldowns' = IF res.ok
                    THEN [cooldowns EXCEPT ![<<res.inc.type, res.inc.peer>>] = now]
                    ELSE cooldowns
    /\ removePending(res)
    /\ UNCHANGED <<now, view, wasLeader, open, sending, history>>

\* A failed delivery stays queued and waits for the next evaluation.
handleResult(res) ==
    /\ res \in results
    /\ results' = results \ {res}
    /\ inFlight' = inFlight \ {res.inc}
    /\ cooldowns' = IF res.ok
                    THEN [cooldowns EXCEPT ![<<res.inc.type, res.inc.peer>>] = now]
                    ELSE cooldowns
    /\ removePending(res)
    /\ UNCHANGED <<now, view, wasLeader, open, sending, history>>

\* Bound: no restart and no change of the peers or of the leadership once
\* MaxRaise incidents have been raised.
quiet == total(raised) < MaxRaise

\* The process stops and Run starts over with newLoopState: everything but the
\* operator's mailbox is gone, and the node boots as a follower.
Run ==
    /\ MayRestart /\ quiet
    /\ wasLeader' = FALSE
    /\ open' = noEpisodes
    /\ cooldowns' = [key \in Kind \X Peer |-> Never]
    /\ pending' = noPending
    /\ inFlight' = {} /\ sending' = {} /\ results' = {}
    /\ acting' = FALSE
    /\ UNCHANGED <<now, voters, status, history>>

-----------------------------------------------------------------------------
\* The view moves between evaluations.
PeerChanges(p) ==
    /\ quiet
    /\ \E s \in Status \ {status[p]} : status' = [status EXCEPT ![p] = s]
    /\ UNCHANGED <<now, acting, voters, loopState, sending, results, history>>

LeadershipChanges ==
    /\ quiet
    /\ acting' = ~acting
    /\ UNCHANGED <<now, voters, status, loopState, sending, results, history>>

VotersChange ==
    /\ \E vs \in Electorates \ {voters} : voters' = vs
    /\ UNCHANGED <<now, acting, status, loopState, sending, results, history>>

Tick ==
    /\ now < MaxTime
    /\ now' = now + 1
    /\ UNCHANGED <<view, loopState, sending, results, history>>

WatchdogInit ==
    /\ now = 0
    /\ acting = FALSE
    /\ voters \in Electorates
    /\ status \in [Peer -> Status]
    /\ wasLeader = FALSE
    /\ open = noEpisodes
    /\ cooldowns = [key \in Kind \X Peer |-> Never]
    /\ pending = noPending
    /\ inFlight = {} /\ sending = {} /\ results = {}
    /\ raised = noPending /\ mailed = noPending /\ unsure = noPending
    /\ lastMail = [key \in Kind \X Peer |-> Never]

WatchdogNext ==
    \/ evaluate
    \/ \E inc \in sending, outcome \in Outcomes : Notify(inc, outcome)
    \/ \E res \in results : handleResult(res)
    \/ Run
    \/ \E p \in Peer : PeerChanges(p)
    \/ LeadershipChanges
    \/ VotersChange
    \/ Tick

WatchdogSpec == WatchdogInit /\ [][WatchdogNext]_watchdogVars

\* The ticker fires for ever, results are read, Notify returns (SMTP has its
\* own timeouts), and deliveries succeed again and again.
WatchdogLiveSpec ==
    /\ WatchdogSpec
    /\ WF_watchdogVars(evaluate)
    /\ WF_watchdogVars(\E res \in results : handleResult(res))
    /\ WF_watchdogVars(\E inc \in sending, outcome \in Outcomes : Notify(inc, outcome))
    /\ SF_watchdogVars(\E inc \in sending : Notify(inc, "sent"))

-----------------------------------------------------------------------------
\* An open episode is never forgotten: its incident still waits in the queue
\* (pending), or a death of this peer did reach the operator and was stamped
\* (cooldowns) no longer than a cooldown before the episode opened.
\* It includes the type invariant.
NoEpisodeIsLost ==
    /\ WatchdogTypeOK
    /\ \A p \in Peer :
        open[p] # Never =>
            \/ pending[[type |-> "peer_dead", peer |-> p, at |-> open[p]]] > 0
            \/ /\ lastMail[<<"peer_dead", p>>] # Never
               /\ cooldowns[<<"peer_dead", p>>] # Never
               /\ open[p] - cooldowns[<<"peer_dead", p>>] < Cooldown

\* A queued incident reaches the operator once, across retries, leadership
\* changes and restarts; only a delivery that the server accepted and the
\* notifier reported as failed is repeated, and once for each such report.
\* (Incident promises "exactly one operator notification" without exception.)
OneMailPerIncident ==
    \A inc \in Incident : mailed[inc] <= raised[inc] + unsure[inc]

\* A node that stays acting leader with a live quorum works its backlog off.
BacklogDrains ==
    <>[](acting /\ liveQuorum) => []<>(\A inc \in Incident : pending[inc] = 0)
=============================================================================
