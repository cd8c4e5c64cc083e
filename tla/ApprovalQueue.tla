---------------------------- MODULE ApprovalQueue ----------------------------
(***************************************************************************)
(* The approval queue of services/candaceos/operator with the durability   *)
(* hooks the control runtime installs: goroutines that wait for a          *)
(* decision, operators that submit decisions, the timer and the context of *)
(* every request, and the abort that expires all approvals of a run.       *)
(*                                                                         *)
(* The queue's mutex makes each critical section one action.  The hooks    *)
(* write to the database outside of it, so between the claim of an         *)
(* approval, its durable resolution, its removal from the pending map and  *)
(* the delivery of the result every other goroutine may run.               *)
(*                                                                         *)
(* The modelled approvals belong to the run that ExpireRun is called for.  *)
(***************************************************************************)
EXTENDS Integers, FiniteSets

CONSTANTS
    Approval,     \* the approvals that may be requested
    Timeout,      \* ApprovalQueue.timeout
    WriteResult,  \* what a hook's transaction may do: a subset of WriteResults
    MayRestart,   \* whether Core may stop and start again
    None,
    MaxTime,      \* bound on the clock
    MaxCalls      \* bound on the operator submissions under way

\* "ok": committed, or a commit error that the read-back resolved.  "lost":
\* rolled back.  "unsure": committed, but the caller is told it failed.
WriteResults == {"ok", "lost", "unsure"}

ASSUME ApprovalAssumption ==
    /\ IsFiniteSet(Approval) /\ None \notin Approval
    /\ Timeout \in Nat \ {0}
    /\ WriteResult \subseteq WriteResults
    /\ MayRestart \in BOOLEAN
    /\ MaxTime \in Nat /\ MaxCalls \in Nat

VARIABLES
    now,
    waiter,       \* where the goroutine of Request is
    returned,     \* what Request returned
    expiresAt, cancelled, invalidated,
    pending,      \* ApprovalQueue.pending
    claim,        \* the finish under way for an approval: pending.resolving
    result,       \* the buffered channel of the approval
    calls,        \* Resolve calls that have read the clock and not the queue
    sweep,        \* the ExpireRun under way
    row,          \* the durable status of the approval
    \* History: the decisions operators were told they made, and the approvals
    \* that were queued when an ExpireRun began that succeeded.
    answered, swept

requests == <<waiter, returned, expiresAt, cancelled, invalidated>>
queue    == <<pending, claim, result>>
history  == <<answered, swept>>
vars     == <<now, requests, queue, calls, sweep, row, history>>

Time     == 0 .. MaxTime
Decision == {"approve", "reject", "expired"}
Choice   == {"approve", "reject"}
Stage    == {"new", "recording", "recorded", "closing", "select", "late",
             "finishing", "done"}
\* finish, from the claim to the delivery: who runs it, its decision, the step
\* it is at and whether OnResolved succeeded.
Claim    == [by : {"operator", "request", "abort"}, decision : Decision,
             step : {"record", "drop", "send"}, ok : BOOLEAN]
Call     == [id : Approval, decision : Choice, at : Time]
Sweep    == [ids : SUBSET Approval, todo : SUBSET Approval,
             at : Approval \cup {None}, clean : BOOLEAN]

ASSUME NoneAssumption == None \notin Claim /\ None \notin Sweep

Terminal(d) == CASE d = "approve" -> "approved" [] d = "reject" -> "rejected"
                 [] d = "expired" -> "expired"

\* The recording map: from the start of Request until its second section.
recording == {a \in Approval : waiter[a] \in {"recording", "recorded"}}
waiting   == {a \in Approval : waiter[a] \notin {"new", "done"}}

Return(a, value) ==
    /\ waiter' = [waiter EXCEPT ![a] = "done"]
    /\ returned' = [returned EXCEPT ![a] = value]

-----------------------------------------------------------------------------
(* The durable record.                                                     *)

\* recordApprovalRequested
recordApprovalRequested(a, w) ==
    row' = IF w = "lost" THEN row ELSE [row EXCEPT ![a] = "pending"]

\* recordApprovalResolved updates the row only while it is pending.
recordApprovalResolved(a, decision, w) ==
    row' = IF w = "lost" \/ row[a] # "pending" THEN row
           ELSE [row EXCEPT ![a] = Terminal(decision)]

\* Mutant of Recorded: the error of the hook is ignored.
RecordedUnchecked(a, w) == TRUE

Recorded(a, w) == w = "ok" /\ row[a] = "pending"

-----------------------------------------------------------------------------
(* Request.                                                                *)

\* The context may have an earlier deadline than the timeout.
Request(a) ==
    /\ waiter[a] = "new"
    /\ waiter' = [waiter EXCEPT ![a] = "recording"]
    /\ \E t \in Time : /\ now <= t /\ t <= now + Timeout
                      /\ expiresAt' = [expiresAt EXCEPT ![a] = t]
    /\ UNCHANGED <<now, returned, cancelled, invalidated, queue, calls, sweep, row, history>>

\* OnRequested: an approval that could not be recorded is not admitted.
OnRequested(a, w) ==
    /\ waiter[a] = "recording"
    /\ recordApprovalRequested(a, w)
    /\ \/ /\ w = "ok"
          /\ waiter' = [waiter EXCEPT ![a] = "recorded"]
          /\ UNCHANGED returned
       \/ w # "ok" /\ Return(a, "none")
    /\ UNCHANGED <<now, expiresAt, cancelled, invalidated, queue, calls, sweep, history>>

\* Mutant of Publish: the invalidation is not looked at.
PublishAnyway(a) ==
    /\ waiter[a] = "recorded"
    /\ pending' = pending \cup {a}
    /\ waiter' = [waiter EXCEPT ![a] = "select"]
    /\ UNCHANGED <<now, returned, expiresAt, cancelled, invalidated, claim, result,
                   calls, sweep, row, history>>

\* The second critical section of Request.
Publish(a) ==
    /\ waiter[a] = "recorded"
    /\ \/ /\ a \notin invalidated \cup cancelled
          /\ pending' = pending \cup {a}
          /\ waiter' = [waiter EXCEPT ![a] = "select"]
       \/ /\ a \in invalidated \cup cancelled
          /\ waiter' = [waiter EXCEPT ![a] = "closing"]
          /\ UNCHANGED pending
    /\ UNCHANGED <<now, returned, expiresAt, cancelled, invalidated, claim, result,
                   calls, sweep, row, history>>

\* A request invalidated while it was recorded is resolved as expired.
Close(a, w) ==
    /\ waiter[a] = "closing"
    /\ recordApprovalResolved(a, "expired", w)
    /\ Return(a, "none")
    /\ UNCHANGED <<now, expiresAt, cancelled, invalidated, queue, calls, sweep, history>>

\* Mutant of outcome: the error beside the decision is ignored.
outcomeIgnoringErr(r) == IF r.decision # "expired" THEN r.decision ELSE "none"

\* A decision whose durable record failed is returned with the error.
outcome(r) == IF r.ok /\ r.decision # "expired" THEN r.decision ELSE "none"

\* The select, or the receive after a timer that came second.
Receive(a) ==
    /\ waiter[a] \in {"select", "late"}
    /\ result[a] # None
    /\ Return(a, outcome(result[a]))
    /\ result' = [result EXCEPT ![a] = None]
    /\ UNCHANGED <<now, expiresAt, cancelled, invalidated, pending, claim, calls,
                   sweep, row, history>>

-----------------------------------------------------------------------------
(* finish.                                                                 *)

Claimable(a) == a \in pending /\ claim[a] = None

TakeClaim(a, by, decision) ==
    claim' = [claim EXCEPT ![a] = [by |-> by, decision |-> decision,
                                   step |-> "record", ok |-> FALSE]]

\* The context is done: nobody waits for a finish already under way.
Cancelled(a) ==
    /\ waiter[a] = "select" /\ a \in cancelled
    /\ \/ /\ Claimable(a)
          /\ TakeClaim(a, "request", "expired")
          /\ waiter' = [waiter EXCEPT ![a] = "finishing"]
          /\ UNCHANGED returned
       \/ /\ ~Claimable(a)
          /\ Return(a, "none")
          /\ UNCHANGED claim
    /\ UNCHANGED <<now, expiresAt, cancelled, invalidated, pending, result, calls,
                   sweep, row, history>>

\* The timer fires: a finish already under way decides.
TimedOut(a) ==
    /\ waiter[a] = "select" /\ now >= expiresAt[a]
    /\ \/ /\ Claimable(a)
          /\ TakeClaim(a, "request", "expired")
          /\ waiter' = [waiter EXCEPT ![a] = "finishing"]
       \/ /\ ~Claimable(a)
          /\ waiter' = [waiter EXCEPT ![a] = "late"]
          /\ UNCHANGED claim
    /\ UNCHANGED <<now, returned, expiresAt, cancelled, invalidated, pending, result,
                   calls, sweep, row, history>>

\* Resolve reads the clock before it takes the mutex.  A call about an approval
\* that was never requested or whose request has returned only fails.
Resolve(a, decision) ==
    LET call == [id |-> a, decision |-> decision, at |-> now]
    IN  /\ a \in waiting
        /\ Cardinality(calls) < MaxCalls /\ call \notin calls
        /\ calls' = calls \cup {call}
        /\ UNCHANGED <<now, requests, queue, sweep, row, history>>

\* An answer at or after the deadline becomes an expiry.
inTime(call) == IF call.at < expiresAt[call.id] THEN call.decision ELSE "expired"

\* The claim of an operator's call, or its error: the approval is being
\* recorded, is being resolved, or is not pending.
ResolveClaim(call) ==
    /\ calls' = calls \ {call}
    /\ \/ Claimable(call.id)
          /\ TakeClaim(call.id, "operator", inTime(call))
       \/ ~Claimable(call.id) /\ UNCHANGED claim
    /\ UNCHANGED <<now, requests, pending, result, sweep, row, history>>

\* OnResolved
OnResolved(a, w) ==
    /\ claim[a] # None /\ claim[a].step = "record"
    /\ recordApprovalResolved(a, claim[a].decision, w)
    /\ claim' = [claim EXCEPT ![a].step = "drop", ![a].ok = Recorded(a, w)]
    /\ UNCHANGED <<now, requests, pending, result, calls, sweep, history>>

Drop(a) ==
    /\ claim[a] # None /\ claim[a].step = "drop"
    /\ pending' = pending \ {a}
    /\ claim' = [claim EXCEPT ![a].step = "send"]
    /\ UNCHANGED <<now, requests, result, calls, sweep, row, history>>

\* Mutant of Send: nothing is delivered when the record failed.
SendOnSuccess(a) ==
    LET c == claim[a] IN
    /\ c # None /\ c.step = "send"
    /\ result' = IF c.ok THEN [result EXCEPT ![a] = [decision |-> c.decision, ok |-> TRUE]]
                       ELSE result
    /\ claim' = [claim EXCEPT ![a] = None]
    /\ \/ /\ c.by = "request"
          /\ Return(a, "none")
          /\ UNCHANGED <<sweep, answered>>
       \/ /\ c.by = "operator"
          /\ answered' = IF c.ok /\ c.decision # "expired"
                         THEN [answered EXCEPT ![a] = @ \cup {c.decision}]
                         ELSE answered
          /\ UNCHANGED <<waiter, returned, sweep>>
       \/ /\ c.by = "abort"
          /\ sweep' = [sweep EXCEPT !.at = None, !.clean = @ /\ c.ok]
          /\ UNCHANGED <<waiter, returned, answered>>
    /\ UNCHANGED <<now, expiresAt, cancelled, invalidated, pending, calls, row,
                   swept>>

\* The result is delivered and the caller of finish goes on: Request returns,
\* Resolve answers the operator, ExpireRun takes the next approval.
Send(a) ==
    LET c == claim[a] IN
    /\ c # None /\ c.step = "send"
    /\ result' = [result EXCEPT ![a] = [decision |-> c.decision, ok |-> c.ok]]
    /\ claim' = [claim EXCEPT ![a] = None]
    /\ \/ /\ c.by = "request"
          /\ Return(a, "none")
          /\ UNCHANGED <<sweep, answered>>
       \/ /\ c.by = "operator"
          /\ answered' = IF c.ok /\ c.decision # "expired"
                         THEN [answered EXCEPT ![a] = @ \cup {c.decision}]
                         ELSE answered
          /\ UNCHANGED <<waiter, returned, sweep>>
       \/ /\ c.by = "abort"
          /\ sweep' = [sweep EXCEPT !.at = None, !.clean = @ /\ c.ok]
          /\ UNCHANGED <<waiter, returned, answered>>
    /\ UNCHANGED <<now, expiresAt, cancelled, invalidated, pending, calls, row,
                   swept>>

-----------------------------------------------------------------------------
(* ExpireRun.                                                              *)

\* The first section marks what is being recorded and lists what is pending.
ExpireRun ==
    /\ sweep = None
    /\ invalidated' = invalidated \cup recording
    /\ sweep' = [ids |-> recording \cup pending, todo |-> pending, at |-> None,
                 clean |-> TRUE]
    /\ UNCHANGED <<now, waiter, returned, expiresAt, cancelled, queue, calls, row,
                   history>>

\* finish of the next listed approval; one that is being resolved or no longer
\* pending is an error.
ExpireNext(a) ==
    /\ sweep # None /\ sweep.at = None /\ a \in sweep.todo
    /\ \/ /\ Claimable(a)
          /\ TakeClaim(a, "abort", "expired")
          /\ sweep' = [sweep EXCEPT !.todo = @ \ {a}, !.at = a]
       \/ /\ ~Claimable(a)
          /\ sweep' = [sweep EXCEPT !.todo = @ \ {a}, !.clean = FALSE]
          /\ UNCHANGED claim
    /\ UNCHANGED <<now, requests, pending, result, calls, row, history>>

ExpireRunReturn ==
    /\ sweep # None /\ sweep.at = None /\ sweep.todo = {}
    /\ sweep' = None
    /\ swept' = IF sweep.clean THEN swept \cup sweep.ids ELSE swept
    /\ UNCHANGED <<now, requests, queue, calls, row, answered>>

-----------------------------------------------------------------------------
(* The environment.                                                        *)

Tick ==
    /\ now < MaxTime
    /\ now' = now + 1
    /\ UNCHANGED <<requests, queue, calls, sweep, row, history>>

Cancel(a) ==
    /\ waiter[a] \in {"recording", "recorded", "select"} /\ a \notin cancelled
    /\ cancelled' = cancelled \cup {a}
    /\ UNCHANGED <<now, waiter, returned, expiresAt, invalidated, queue, calls,
                   sweep, row, history>>

\* Mutant of Restart: rows already resolved are expired too.
RestartAll ==
    /\ MayRestart /\ waiting # {}
    /\ waiter' = [a \in Approval |-> IF waiter[a] = "new" THEN "new" ELSE "done"]
    /\ pending' = {} /\ claim' = [a \in Approval |-> None]
    /\ result' = [a \in Approval |-> None]
    /\ calls' = {} /\ sweep' = None
    /\ row' = [a \in Approval |-> IF row[a] # "absent" THEN "expired" ELSE row[a]]
    /\ UNCHANGED <<now, returned, expiresAt, cancelled, invalidated, history>>

\* A restart of Core: the queue is empty, the requests are gone, and
\* RecoverInterruptedOperatorWork expires the rows still pending.
Restart ==
    /\ MayRestart /\ waiting # {}
    /\ waiter' = [a \in Approval |-> IF waiter[a] = "new" THEN "new" ELSE "done"]
    /\ pending' = {} /\ claim' = [a \in Approval |-> None]
    /\ result' = [a \in Approval |-> None]
    /\ calls' = {} /\ sweep' = None
    /\ row' = [a \in Approval |-> IF row[a] = "pending" THEN "expired" ELSE row[a]]
    /\ UNCHANGED <<now, returned, expiresAt, cancelled, invalidated, history>>

Init ==
    /\ now = 0
    /\ waiter = [a \in Approval |-> "new"]
    /\ returned = [a \in Approval |-> "none"]
    /\ expiresAt = [a \in Approval |-> 0]
    /\ cancelled = {} /\ invalidated = {}
    /\ pending = {}
    /\ claim = [a \in Approval |-> None]
    /\ result = [a \in Approval |-> None]
    /\ calls = {} /\ sweep = None
    /\ row = [a \in Approval |-> "absent"]
    /\ answered = [a \in Approval |-> {}]
    /\ swept = {}

\* The steps the goroutines of the queue take by themselves.
Progress(a) ==
    \/ Publish(a) \/ Receive(a) \/ Cancelled(a) \/ TimedOut(a) \/ Drop(a) \/ Send(a)
    \/ \E w \in WriteResult : OnRequested(a, w) \/ Close(a, w) \/ OnResolved(a, w)

Next ==
    \/ \E a \in Approval :
          \/ Request(a) \/ Progress(a) \/ Cancel(a) \/ ExpireNext(a)
          \/ \E d \in Choice : Resolve(a, d)
    \/ \E call \in calls : ResolveClaim(call)
    \/ ExpireRun \/ ExpireRunReturn \/ Tick \/ Restart

Spec == Init /\ [][Next]_vars

\* Goroutines run, transactions end (every hook bounds its context by the
\* persistence window), and time passes.
LiveSpec ==
    /\ Spec
    /\ \A a \in Approval : WF_vars(Progress(a))
    /\ WF_vars(Tick)

-----------------------------------------------------------------------------
(* Properties.                                                             *)

\* The type of every variable.
TypeOK ==
    /\ now \in Time
    /\ waiter \in [Approval -> Stage]
    /\ returned \in [Approval -> Choice \cup {"none"}]
    /\ expiresAt \in [Approval -> Time]
    /\ cancelled \subseteq Approval /\ invalidated \subseteq Approval
    /\ pending \subseteq Approval
    /\ claim \in [Approval -> Claim \cup {None}]
    /\ result \in [Approval -> [decision : Decision, ok : BOOLEAN] \cup {None}]
    /\ calls \subseteq Call
    /\ sweep \in Sweep \cup {None}
    /\ row \in [Approval -> {"absent", "pending", "approved", "rejected", "expired"}]
    /\ answered \in [Approval -> SUBSET Choice]
    /\ swept \subseteq Approval

\* The queue fails closed: when Request returns an operator's decision, the
\* durable record of the approval holds that decision.
\* It includes the type invariant.
ReturnsAreRecorded ==
    /\ TypeOK
    /\ \A a \in Approval : returned[a] \in Choice => row[a] = Terminal(returned[a])

\* First answer wins: operators who were told that their decision was taken
\* were all told the same, it is the durable one, and Request returned no
\* other.
FirstAnswerWins ==
    \A a \in Approval : \A d \in answered[a] :
        /\ answered[a] = {d}
        /\ row[a] = Terminal(d)
        /\ returned[a] \in {d, "none"}

\* The durable record of an approval is written once: pending when it is
\* requested, then one terminal status that never changes.
ResolvedOnce ==
    [][\A a \in Approval :
          row'[a] # row[a] => \/ row[a] = "absent" /\ row'[a] = "pending"
                              \/ row[a] = "pending"]_vars

\* After an ExpireRun that reported success no approval that was being recorded
\* or pending when it was called is approved or still actionable.
SweptRunsAreClosed ==
    \A a \in swept : /\ returned[a] # "approve" /\ row[a] # "approved"
                     /\ a \notin pending

\* "Request blocks until the approval is resolved, expires, or ctx is done":
\* every request returns, whatever the hooks, the operators and the abort do.
EveryRequestReturns ==
    \A a \in Approval : (waiter[a] = "recording") ~> (waiter[a] = "done")
=============================================================================
