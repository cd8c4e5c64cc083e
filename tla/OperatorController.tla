------------------------- MODULE OperatorController -------------------------
(***************************************************************************)
(* The operator controller of services/candaceos/operator over the Ollama  *)
(* harness, with the run records of the control runtime.                   *)
(*                                                                         *)
(* sendMu serialises Send, Steer and Abort; op is what its holder does     *)
(* next.  The harness has a mutex of its own, which it also holds while an *)
(* event is ingested and its outcome is persisted.  A turn is a goroutine  *)
(* that a cancelled context ends only where it looks at the context.       *)
(* Approvals are those of ApprovalQueue, without their records: asked,     *)
(* answered or expired.  A turn calls the reconcile tool at most once.     *)
(***************************************************************************)
EXTENDS Integers, FiniteSets

CONSTANTS
    TxResult,   \* what a transaction may do: a subset of TxResults
    Steering,   \* whether operators send messages to an active run
    MayClose,   \* whether the controller may be closed
    MaxRuns,    \* bound on the runs
    MaxTurns    \* bound on the turns

\* "ok": committed.  "lost": rolled back.  "unsure": committed, but the caller
\* is told that the commit failed.
TxResults == {"ok", "lost", "unsure"}

ASSUME ControllerAssumption ==
    /\ TxResult \subseteq TxResults
    /\ Steering \in BOOLEAN /\ MayClose \in BOOLEAN
    /\ MaxRuns \in Nat /\ MaxTurns \in Nat

Run  == 1 .. MaxRuns
Turn == 1 .. MaxTurns

\* controllerPhase and runPhase ("none": no run yet)
ControllerPhase == {"starting", "idle", "running", "aborting", "persisting", "stopped"}
RunPhase == {"none", "running", "aborting", "succeeded", "failed", "aborted"}
Over     == {"succeeded", "failed", "aborted"}
Nothing  == [run |-> 0, outcome |-> "none"]

VARIABLES
    status, phase, run,   \* Controller.status, runPhase and currentRun
    op,                   \* the next step of the holder of sendMu
    approved,             \* the turns with a one-time token in Controller.approved
    turn,                 \* ollamaHarness.turnID, 0 for none
    step,                 \* where the goroutine of a turn is
    opened,               \* the run whose message opened a turn
    asker,                \* the run an approval was requested for
    cancelled,            \* turns whose context is cancelled
    acks,                 \* abort acknowledgements on their timer, by run
    closed,               \* ollamaHarness.closed
    persisting,           \* the completion the harness waits to be recorded
    row,                  \* the durable status of a run
    faults,               \* runs with a write fault that was not repaired
    \* History: the runs whose abort the harness has accepted, the runs that
    \* were running or aborting when the end of an earlier run's turn or abort
    \* was reported, and the runs whose send failed while the completion such a
    \* report had made of them was still being recorded.
    stopped, stray, crossed

controller == <<status, phase, run>>
turns      == <<turn, step, opened, asker, cancelled>>
records    == <<row, faults>>
history    == <<stopped, stray, crossed>>
vars == <<controller, op, approved, turns, acks, closed, persisting, records, history>>

Max0(S) == IF S = {} THEN 0 ELSE CHOOSE x \in S : \A y \in S : y <= x

-----------------------------------------------------------------------------
(* Hooks: recordRunStarted and recordRunStatus.                            *)

recordRunStarted(r, w) ==
    /\ row' = IF w = "lost" THEN row ELSE [row EXCEPT ![r] = "running"]
    /\ faults' = IF w = "ok" THEN faults ELSE faults \cup {r}

\* The update has no guard but the run's ID, and fails without its row.
recordRunStatus(r, value, w) ==
    /\ row' = IF w = "lost" \/ row[r] = "none" THEN row ELSE [row EXCEPT ![r] = value]
    /\ faults' = IF w = "ok" /\ row[r] # "none" THEN faults ELSE faults \cup {r}

-----------------------------------------------------------------------------
(* Events.                                                                 *)

\* An event of run r's turn or abort arrives; it does not say so.
Meets(r) == stray' = IF phase \in {"running", "aborting"} /\ r # run
                     THEN stray \cup {run} ELSE stray

Complete(value) ==
    /\ phase' = value /\ status' = "persisting"
    /\ persisting' = [run |-> run, outcome |-> value]

\* Mutant of ingestIdle: the controller is open before the run is recorded.
ingestIdleEager ==
    \/ status = "stopped" /\ UNCHANGED <<status, phase, persisting>>
    \/ /\ status # "stopped" /\ phase = "running"
       /\ phase' = "succeeded" /\ status' = "idle"
       /\ persisting' = [run |-> run, outcome |-> "succeeded"]
    \/ /\ status # "stopped" /\ phase # "running"
       /\ status' = "idle"
       /\ UNCHANGED <<phase, persisting>>

\* ingestLocked for session.idle
ingestIdle ==
    \/ status = "stopped" /\ UNCHANGED <<status, phase, persisting>>
    \/ status # "stopped" /\ phase = "running" /\ Complete("succeeded")
    \/ /\ status # "stopped" /\ phase # "running"
       /\ status' = "idle"
       /\ UNCHANGED <<phase, persisting>>

\* ingestLocked for session.error
ingestError ==
    \/ status # "stopped" /\ phase \in {"running", "aborting"} /\ Complete("failed")
    \/ /\ status = "stopped" \/ phase \notin {"running", "aborting"}
       /\ UNCHANGED <<status, phase, persisting>>

\* finishPublishedEvent, with the harness locked.
finishPublishedEvent(w) ==
    /\ persisting # Nothing
    /\ recordRunStatus(persisting.run, persisting.outcome, w)
    /\ status' = IF run = persisting.run /\ status = "persisting" THEN "idle" ELSE status
    /\ persisting' = Nothing
    /\ UNCHANGED <<phase, run, op, approved, turns, acks, closed, history>>

-----------------------------------------------------------------------------
(* Start and Close.                                                        *)

Start(ok) ==
    /\ status = "starting"
    /\ status' = IF ok THEN "idle" ELSE "stopped"
    /\ closed' = ~ok
    /\ UNCHANGED <<phase, run, op, approved, turns, acks, persisting, records, history>>

\* Close cancels the lifecycle, and with it every turn and every timer.
Close ==
    /\ MayClose /\ status \notin {"starting", "stopped"} /\ ~closed
    /\ status' = "stopped" /\ approved' = {}
    /\ closed' = TRUE /\ turn' = 0 /\ acks' = {}
    /\ cancelled' = 1 .. Max0({t \in Turn : step[t] # "off"})
    /\ UNCHANGED <<phase, run, op, step, opened, asker, persisting, records, history>>

-----------------------------------------------------------------------------
(* Send.                                                                   *)

\* startRunLocked up to its hook; a prompt that is refused changes nothing.
\* The runtime looks for write faults before, outside of sendMu.
Send ==
    /\ op = "free" /\ run < MaxRuns
    /\ status = "idle" /\ phase \notin {"running", "aborting"}
    /\ run' = run + 1 /\ phase' = "running" /\ status' = "running"
    /\ op' = "record"
    /\ UNCHANGED <<approved, turns, acks, closed, persisting, records, history>>

\* OnRunStarted
OnRunStarted(w) ==
    /\ op = "record"
    /\ recordRunStarted(run, w)
    /\ \/ /\ w = "ok"
          /\ op' = "send"
          /\ UNCHANGED <<status, phase>>
       \/ /\ w # "ok"
          /\ phase' = "failed" /\ status' = "idle"
          /\ op' = "free"
    /\ UNCHANGED <<run, approved, turns, acks, closed, persisting, history>>

\* ollamaHarness.Send: one turn at a time.
Accepts == ~closed /\ turn = 0 /\ persisting = Nothing

OpenTurn(t) ==
    /\ step[t] = "off" /\ \A u \in Turn : u < t => step[u] # "off"
    /\ Accepts
    /\ turn' = t
    /\ step' = [step EXCEPT ![t] = "think"]
    /\ opened' = [opened EXCEPT ![t] = run]
    /\ UNCHANGED <<asker, cancelled>>

SendPrompt(t) ==
    /\ op = "send"
    /\ OpenTurn(t)
    /\ op' = "free"
    /\ UNCHANGED <<controller, approved, acks, closed, persisting, records, history>>

\* ValidateHarnessPrompt or harness.Send fails: finishRun, in any phase.  Neither
\* the validation nor Send's look at its context waits for the harness's mutex.
SendFails ==
    /\ op = "send"
    /\ phase' = "failed" /\ status' = "idle"
    /\ op' = "status"
    /\ crossed' = IF persisting.run = run THEN crossed \cup {run} ELSE crossed
    /\ UNCHANGED <<run, approved, turns, acks, closed, persisting, records, stopped, stray>>

\* OnRunStatus at the end of finishRun and finishAbort.
OnRunStatus(w) ==
    /\ op = "status"
    /\ recordRunStatus(run, phase, w)
    /\ op' = "free"
    /\ UNCHANGED <<controller, approved, turns, acks, closed, persisting, history>>

\* Steer, or SendToSession with an active run, up to the harness.
Steer ==
    /\ Steering /\ op = "free"
    /\ status = "running" /\ phase = "running"
    /\ op' = "steer"
    /\ UNCHANGED <<controller, approved, turns, acks, closed, persisting, records, history>>

\* steerLocked: the harness takes the message when no turn is in its way.
SteerPrompt(t) ==
    /\ op = "steer"
    /\ OpenTurn(t)
    /\ op' = "free"
    /\ UNCHANGED <<controller, approved, acks, closed, persisting, records, history>>

SteerFails ==
    /\ op = "steer"
    /\ op' = "free"
    /\ UNCHANGED <<controller, approved, turns, acks, closed, persisting, records, history>>

-----------------------------------------------------------------------------
(* Abort.                                                                  *)

\* abortLocked up to the harness.
Abort ==
    /\ op = "free" /\ phase = "running"
    /\ phase' = "aborting" /\ status' = "aborting" /\ approved' = {}
    /\ op' = "abort"
    /\ UNCHANGED <<run, turns, acks, closed, persisting, records, history>>

\* Mutant of AbortTurn: the cancelled turn ends without an idle event.
AbortTurnQuiet ==
    /\ op = "abort" /\ persisting = Nothing
    /\ cancelled' = IF turn = 0 THEN cancelled ELSE cancelled \cup {turn}
    /\ turn' = 0
    /\ acks' = acks
    /\ stopped' = stopped \cup {run}
    /\ op' = "expire"
    /\ UNCHANGED <<controller, approved, step, opened, asker, closed, persisting,
                   records, stray, crossed>>

\* ollamaHarness.Abort acknowledges with an idle event a moment later, whether
\* or not a turn was left to cancel.
AbortTurn ==
    /\ op = "abort" /\ persisting = Nothing
    /\ cancelled' = IF turn = 0 THEN cancelled ELSE cancelled \cup {turn}
    /\ turn' = 0
    /\ acks' = IF closed THEN acks ELSE acks \cup {run}
    /\ stopped' = stopped \cup {run}
    /\ op' = "expire"
    /\ UNCHANGED <<controller, approved, step, opened, asker, closed, persisting,
                   records, stray, crossed>>

Acknowledge(r) ==
    /\ r \in acks /\ persisting = Nothing
    /\ acks' = acks \ {r}
    /\ Meets(r) /\ ingestIdle
    /\ UNCHANGED <<run, op, approved, turns, closed, records, stopped, crossed>>

\* ExpireRun: the approvals of the run that are still pending.
ExpireRun ==
    /\ op = "expire"
    /\ step' = [t \in Turn |-> IF step[t] = "ask" /\ asker[t] = run
                               THEN "wrap" ELSE step[t]]
    /\ op' = "finish"
    /\ UNCHANGED <<controller, approved, turn, opened, asker, cancelled, acks, closed,
                   persisting, records, history>>

\* finishAbort leaves the status to the idle event.
finishAbort ==
    /\ op = "finish"
    /\ \/ phase = "aborting" /\ phase' = "aborted" /\ op' = "status"
       \/ phase # "aborting" /\ op' = "free" /\ UNCHANGED phase
    /\ UNCHANGED <<status, run, approved, turns, acks, closed, persisting, records,
                   history>>

\* Mutant of AbortFails: completed work is resurrected.
AbortFailsAlways ==
    /\ op = "abort"
    /\ \/ /\ status # "stopped"
          /\ phase' = "running" /\ status' = "running" /\ op' = "free"
       \/ status = "stopped" /\ op' = "free" /\ UNCHANGED <<phase, status>>
    /\ UNCHANGED <<run, approved, turns, acks, closed, persisting, records, history>>

\* The context of harness.Abort is done: restoreRunningAfterAbortFailure.
AbortFails ==
    /\ op = "abort"
    /\ \/ /\ phase = "aborting" /\ status = "idle"
          /\ phase' = "succeeded" /\ status' = "persisting" /\ op' = "restored"
       \/ /\ phase = "aborting" /\ status \notin {"idle", "stopped"}
          /\ phase' = "running" /\ status' = "running" /\ op' = "free"
       \/ /\ phase # "aborting" \/ status = "stopped"
          /\ op' = "free"
          /\ UNCHANGED <<phase, status>>
    /\ UNCHANGED <<run, approved, turns, acks, closed, persisting, records, history>>

Restored(w) ==
    /\ op = "restored"
    /\ recordRunStatus(run, "succeeded", w)
    /\ status' = IF status = "persisting" THEN "idle" ELSE status
    /\ op' = "free"
    /\ UNCHANGED <<phase, run, approved, turns, acks, closed, persisting, history>>

-----------------------------------------------------------------------------
(* A turn: completeTurn, with callTool and handlePermissionContext.        *)

\* The reconcile tool asks for an approval, for the run that is current then.
Ask(t) ==
    /\ step[t] = "think" /\ t \notin cancelled /\ persisting = Nothing
    /\ step' = [step EXCEPT ![t] = "ask"]
    /\ asker' = [asker EXCEPT ![t] = run]
    /\ UNCHANGED <<controller, op, approved, turn, opened, cancelled, acks, closed,
                   persisting, records, history>>

Goto(t, s) ==
    /\ step' = [step EXCEPT ![t] = s]
    /\ UNCHANGED <<controller, op, turn, opened, asker, cancelled, acks, closed,
                   persisting, records, history>>

\* The operator approves, and Request is about to return that.
Approve(t) == step[t] = "ask" /\ Goto(t, "answered") /\ UNCHANGED approved

\* A rejection, the timeout, or the cancelled context.
Decline(t) == step[t] = "ask" /\ Goto(t, "wrap") /\ UNCHANGED approved

\* Mutant of Admit: the status is not looked at.
AdmitAnyway(t) ==
    /\ step[t] = "answered"
    /\ \/ /\ t \notin cancelled
          /\ approved' = approved \cup {t}
          /\ Goto(t, "dispatch")
       \/ /\ t \in cancelled
          /\ Goto(t, "wrap") /\ UNCHANGED approved

\* The approval becomes a one-time token.
Admit(t) ==
    /\ step[t] = "answered"
    /\ \/ /\ t \notin cancelled /\ status \notin {"aborting", "stopped"}
          /\ approved' = approved \cup {t}
          /\ Goto(t, "dispatch")
       \/ /\ t \in cancelled \/ status \in {"aborting", "stopped"}
          /\ Goto(t, "wrap") /\ UNCHANGED approved

\* reconcileApproved takes the token; an expired one is taken and refused.
Dispatch(t) ==
    /\ step[t] = "dispatch"
    /\ approved' = approved \ {t}
    /\ \/ t \in approved /\ Goto(t, "apply")
       \/ Goto(t, "wrap")

\* ReconcileApproved returns.
Applied(t) == step[t] = "apply" /\ Goto(t, "wrap") /\ UNCHANGED approved

\* finishTurnWithEvent, for a turn that is still the harness's turn.
EndTurn(t, ok) ==
    /\ step[t] \in {"think", "wrap"} /\ turn = t /\ persisting = Nothing
    /\ step' = [step EXCEPT ![t] = "over"]
    /\ turn' = 0
    /\ cancelled' = cancelled \cup {t}
    /\ Meets(opened[t])
    /\ \/ ok /\ ingestIdle
       \/ ~ok /\ ingestError
    /\ UNCHANGED <<run, op, approved, opened, asker, acks, closed, records, stopped,
                   crossed>>

\* A turn that was cancelled ends without an event.
LeaveTurn(t) ==
    /\ step[t] \in {"think", "wrap"} /\ turn # t
    /\ Goto(t, "over") /\ UNCHANGED approved

-----------------------------------------------------------------------------
Init ==
    /\ status = "starting" /\ phase = "none" /\ run = 0
    /\ op = "free" /\ approved = {}
    /\ turn = 0
    /\ step = [t \in Turn |-> "off"]
    /\ opened = [t \in Turn |-> 0] /\ asker = [t \in Turn |-> 0]
    /\ cancelled = {} /\ acks = {} /\ closed = FALSE /\ persisting = Nothing
    /\ row = [r \in Run |-> "none"] /\ faults = {}
    /\ stopped = {} /\ stray = {} /\ crossed = {}

\* The steps of the holder of sendMu once it is in.
Continue ==
    \/ SendFails \/ SteerFails \/ AbortTurn \/ ExpireRun \/ finishAbort \/ AbortFails
    \/ \E t \in Turn : SendPrompt(t) \/ SteerPrompt(t)
    \/ \E w \in TxResult : OnRunStarted(w) \/ OnRunStatus(w) \/ Restored(w)

\* The steps of a turn that do not wait for an operator.
Proceed(t) ==
    \/ Admit(t) \/ Dispatch(t) \/ Applied(t) \/ Decline(t) \/ LeaveTurn(t)
    \/ \E ok \in BOOLEAN : EndTurn(t, ok)

Next ==
    \/ \E ok \in BOOLEAN : Start(ok)
    \/ Send \/ Steer \/ Abort \/ Close
    \/ Continue
    \/ \E w \in TxResult : finishPublishedEvent(w)
    \/ \E r \in Run : Acknowledge(r)
    \/ \E t \in Turn : Ask(t) \/ Approve(t) \/ Proceed(t)

Spec == Init /\ [][Next]_vars

\* Calls return (their contexts have deadlines), timers fire, and a turn ends
\* by itself or by its timeout.
LiveSpec ==
    /\ Spec
    /\ WF_vars(Continue)
    /\ WF_vars(\E w \in TxResult : finishPublishedEvent(w))
    /\ \A r \in Run : WF_vars(Acknowledge(r))
    /\ \A t \in Turn : WF_vars(Proceed(t))

-----------------------------------------------------------------------------
(* Properties.                                                             *)

\* The type of every variable.
TypeOK ==
    /\ status \in ControllerPhase /\ phase \in RunPhase /\ run \in 0 .. MaxRuns
    /\ op \in {"free", "record", "send", "status", "steer", "abort", "expire", "finish",
               "restored"}
    /\ approved \subseteq Turn /\ turn \in 0 .. MaxTurns
    /\ step \in [Turn -> {"off", "think", "ask", "answered", "dispatch", "apply", "wrap",
                          "over"}]
    /\ opened \in [Turn -> 0 .. MaxRuns] /\ asker \in [Turn -> 0 .. MaxRuns]
    /\ cancelled \subseteq Turn /\ acks \subseteq Run /\ closed \in BOOLEAN
    /\ persisting \in [run : 0 .. MaxRuns, outcome : Over \cup {"none"}]
    /\ row \in [Run -> {"none", "running"} \cup Over] /\ faults \subseteq Run
    /\ stopped \subseteq Run /\ stray \subseteq Run /\ crossed \subseteq Run

\* "Do not resurrect completed work": a run that is over never runs again,
\* whatever the abort call, the turn and the hooks do in which order.
EndedRunsStayEnded ==
    [][(phase \in Over /\ run' = run) => phase' \in Over]_vars

\* A run starts only when the records of the earlier ones are closed, and when
\* nobody is at work the record of the last run says what the controller says;
\* except where a write failed, or where finishRun crossed the record of a
\* completion, which only the end of an earlier run's turn or abort can have
\* brought about.  It includes the type invariant.
RecordsKeepUp ==
    /\ TypeOK
    /\ \A r \in Run : r < run /\ r \notin faults => row[r] \in Over
    /\ status = "idle" /\ op = "free" /\ persisting = Nothing /\ run # 0
          /\ run \notin faults \cup crossed => row[run] = phase
    /\ crossed \subseteq stray

\* No turn of an aborted run mutates the fleet: once the harness has accepted
\* the abort, no approval of the run is dispatched any more, unless a late idle
\* event has interfered.
AbortedRunsDispatchNothing ==
    [][\A t \in Turn :
          step[t] = "dispatch" /\ step'[t] = "apply" => opened[t] \notin stopped \ stray]_vars

\* Every run ends and leaves a controller that accepts the next prompt, unless
\* the controller is closed: an abort is always acknowledged, and an abort that
\* fails gives the run back or finds it completed.
RunsEnd ==
    phase \in {"running", "aborting"} ~> status = "idle" \/ closed
=============================================================================
