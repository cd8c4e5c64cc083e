---------------------- MODULE OperatorControllerProofs ----------------------
(***************************************************************************)
(* Proofs about OperatorController, for every number of runs and turns and *)
(* every way a transaction may fail: ended runs stay ended, the records    *)
(* keep up with the controller, and an aborted run dispatches nothing.     *)
(*                                                                         *)
(* The properties are not inductive.  RecordInv follows one run from       *)
(* startRunLocked to its last write: who still owes a record of the        *)
(* current run, and what the controller says meanwhile.  StrayInv says     *)
(* where two of them may: a failing send and an event, when the event is   *)
(* an earlier run's.  DispatchInv follows a turn: only the turn of the     *)
(* harness is not cancelled, and a one-time token of an aborted run        *)
(* outlives the abort only where an earlier run's event was taken for this *)
(* one's.                                                                  *)
(***************************************************************************)
EXTENDS OperatorController, WellFoundedInduction, TLAPS

-----------------------------------------------------------------------------
(* The inductive invariant.                                                *)

\* The outcome that waits to be recorded.
OutcomeInv ==
    persisting # Nothing =>
      /\ persisting.run \in Run /\ persisting.run <= run /\ persisting.outcome \in Over
      /\ \/ persisting.run # run /\ persisting.run \in faults \cup crossed
         \/ /\ persisting.run = run /\ phase \in Over
            /\ op # "restored"
            /\ run \notin crossed => op # "status"
            /\ run \notin faults \cup crossed => /\ phase = persisting.outcome
                                                /\ status \in {"persisting", "stopped"}

\* What the holder of sendMu may be doing in which phase of the run.
HolderInv ==
    /\ run = 0 <=> phase = "none"
    /\ run = 0 => op = "free"
    /\ status = "starting" => run = 0
    /\ status = "idle" => phase # "running"
    /\ phase = "running" => op \in {"record", "send", "free", "steer"}
    /\ phase = "aborting" /\ status # "stopped" => op \in {"abort", "expire", "finish"}
    /\ op = "restored" => phase = "succeeded"
    /\ op = "status" => phase \in Over

RecordInv ==
    /\ OutcomeInv /\ HolderInv
    /\ op = "record" => row[run] = "none"
    /\ op = "record" /\ phase \in Over => persisting.run = run \/ run \in faults
    /\ \A r \in Run : r < run /\ r \notin faults => row[r] \in Over
    /\ \A r \in Run : r > run => row[r] = "none" /\ r \notin faults
    /\ phase \in Over /\ persisting.run # run
          /\ op \notin {"record", "status", "restored"}
          /\ run \notin faults \cup crossed => row[run] = phase
    /\ run \in crossed =>
          /\ op \notin {"record", "send", "restored"} /\ phase \in Over
          /\ op # "status" /\ run \notin faults => row[run] \in Over

\* A run that is completed before its first turn is open was met by the event of
\* an earlier run.
StrayInv ==
    /\ \A r \in crossed : r <= run /\ r \in stray
    /\ \A t \in Turn : opened[t] <= run
    /\ op \in {"record", "send"} => \A t \in Turn : opened[t] # run
    /\ op \in {"record", "send"} /\ persisting.run = run => run \in stray

DispatchInv ==
    /\ \A t \in Turn : step[t] # "off" /\ t \notin cancelled => turn = t
    /\ \A t \in approved : step[t] # "off"
    /\ \A r \in stopped : r <= run
    /\ run \in stopped => phase # "running" /\ op \notin {"record", "send", "steer", "abort"}
    /\ acks \subseteq stopped
    /\ op = "abort" => phase # "running"
    /\ op = "abort" /\ status = "aborting" => phase = "aborting"
    /\ op = "abort" /\ status \notin {"aborting", "stopped"} /\ turn # 0 => run \in stray
    /\ turn # 0 => opened[turn] \notin stopped
    /\ \A t \in approved : opened[t] \in stopped => opened[t] \in stray
    /\ \A t \in approved : op = "abort" /\ opened[t] = run => run \in stray

Inv == TypeOK /\ RecordInv /\ StrayInv /\ DispatchInv

-----------------------------------------------------------------------------
(* Helpers.                                                                *)

\* The bounds are naturals, and a transaction ends in one of three ways.
LEMMA Bounds ==
    MaxRuns \in Nat /\ MaxTurns \in Nat /\ \A w \in TxResult : w \in TxResults
  BY ControllerAssumption, Zenon

\* The naturals are well-founded.
LEMMA NatMin ==
    ASSUME NEW S \in SUBSET Nat, S # {}
    PROVE  \E m \in S : \A x \in S : m <= x
<1>1. IsWellFoundedOn(OpToRel(<, Nat), Nat)
  BY NatLessThanWellFounded
<1>2. \E m \in S : \A x \in S : ~(<<x, m>> \in OpToRel(<, Nat))
  BY <1>1, WFMin
<1>3. \A x, y \in S : ~(<<x, y>> \in OpToRel(<, Nat)) => y <= x
  BY DEF OpToRel
<1> QED
  BY <1>2, <1>3

\* Close cancels every turn that was ever opened.
LEMMA MaxOfTurns ==
    ASSUME NEW S \in SUBSET Turn
    PROVE  /\ Max0(S) \in 0 .. MaxTurns
           /\ \A t \in S : t <= Max0(S)
<1>1. CASE S = {}
  BY <1>1, Bounds DEF Max0
<1>2. CASE S # {}
  <2> DEFINE D == {MaxTurns - t : t \in S}
  <2>1. D \in SUBSET Nat /\ D # {}
    BY <1>2, Bounds DEF Turn
  <2>2. PICK m \in D : \A d \in D : m <= d
    BY <2>1, NatMin
  <2>3. PICK b \in S : m = MaxTurns - b
    BY <2>2
  <2>4. \A t \in S : MaxTurns - b <= MaxTurns - t
    BY <2>2, <2>3
  <2> HIDE DEF D
  <2>5. \A t \in S : t \in Int /\ 0 < t /\ t <= MaxTurns
    BY Bounds DEF Turn
  <2>6. \A t \in S : t <= b
    BY <2>4, <2>5, Bounds
  <2>7. Max0(S) \in S /\ \A t \in S : t <= Max0(S)
    BY <1>2, <2>6 DEF Max0
  <2> QED
    BY <2>5, <2>7
<1> QED
  BY <1>1, <1>2

\* What Close cancels.
LEMMA CloseCancels ==
    ASSUME TypeOK, Close
    PROVE  /\ cancelled' \subseteq Turn
           /\ \A t \in Turn : step[t] # "off" => t \in cancelled'
<1> DEFINE S == {t \in Turn : step[t] # "off"}
<1>1. Max0(S) \in 0 .. MaxTurns /\ \A t \in S : t <= Max0(S)
  BY MaxOfTurns
<1>2. cancelled' = 1 .. Max0(S)
  BY DEF Close
<1> HIDE DEF S
<1>3. \A t \in S : t \in 1 .. Max0(S)
  BY <1>1 DEF S, Turn
<1>4. 1 .. Max0(S) \subseteq Turn
  BY <1>1, Bounds DEF Turn
<1> QED
  BY <1>2, <1>3, <1>4 DEF S

\* The values of a transaction and of a write.
LEMMA Writes ==
    ASSUME TypeOK, NEW r \in Run, NEW value \in Over, NEW w \in TxResult,
           recordRunStatus(r, value, w)
    PROVE  /\ row' \in [Run -> {"none", "running"} \cup Over]
           /\ faults' \subseteq Run /\ faults \subseteq faults'
           /\ faults' \subseteq faults \cup {r}
           /\ \A q \in Run \ {r} : row'[q] = row[q]
           /\ row'[r] \in {row[r], value}
           /\ row[r] = "none" => row'[r] = "none"
           /\ r \notin faults' => row'[r] = value
  BY Bounds DEF TypeOK, recordRunStatus, TxResults, Over

-----------------------------------------------------------------------------
(* Type correctness.                                                       *)

\* The type of what an event of the harness does to the controller.
LEMMA IngestTypes ==
    ASSUME TypeOK, ingestIdle \/ ingestError
    PROVE  /\ status' \in ControllerPhase /\ phase' \in RunPhase
           /\ persisting' \in [run : 0 .. MaxRuns, outcome : Over \cup {"none"}]
<1>1. [run |-> run, outcome |-> "succeeded"] \in [run : 0 .. MaxRuns, outcome : Over \cup {"none"}]
  BY DEF TypeOK, Over
<1>2. [run |-> run, outcome |-> "failed"] \in [run : 0 .. MaxRuns, outcome : Over \cup {"none"}]
  BY DEF TypeOK, Over
<1> QED
  BY <1>1, <1>2 DEF TypeOK, ingestIdle, ingestError, Complete, ControllerPhase, RunPhase

LEMMA TypeKept ==
    ASSUME Inv, Next
    PROVE  TypeOK'
<1>0. TypeOK /\ RecordInv
  BY DEF Inv
<1> USE Bounds
<1>1. ASSUME NEW ok \in BOOLEAN, Start(ok) PROVE TypeOK'
  BY <1>0, <1>1 DEF TypeOK, Start, ControllerPhase, turns, records, history
<1>2. CASE Send
  BY <1>0, <1>2 DEF TypeOK, Send, ControllerPhase, RunPhase, turns, records, history
<1>3. CASE Steer
  BY <1>0, <1>3 DEF TypeOK, Steer, controller, turns, records, history
<1>4. CASE Abort
  BY <1>0, <1>4 DEF TypeOK, Abort, ControllerPhase, RunPhase, turns, records, history
<1>5. CASE Close
  <2>1. cancelled' \subseteq Turn
    BY <1>0, <1>5, CloseCancels
  <2> QED
    BY <1>0, <1>5, <2>1 DEF TypeOK, Close, ControllerPhase, records, history
<1>6. CASE SendFails
  <2>1. run \in Run
    BY <1>0, <1>6 DEF TypeOK, RecordInv, HolderInv, SendFails, Run
  <2> QED
    BY <1>0, <1>6, <2>1 DEF TypeOK, SendFails, ControllerPhase, RunPhase, turns, records
<1>7. CASE SteerFails
  BY <1>0, <1>7 DEF TypeOK, SteerFails, controller, turns, records, history
<1>8. CASE AbortTurn
  <2>1. run \in Run
    BY <1>0, <1>8 DEF TypeOK, RecordInv, HolderInv, AbortTurn, Run
  <2>2. turn # 0 => turn \in Turn
    BY <1>0 DEF TypeOK, Turn
  <2> QED
    BY <1>0, <1>8, <2>1, <2>2 DEF TypeOK, AbortTurn, controller, records
<1>9. CASE ExpireRun
  BY <1>0, <1>9 DEF TypeOK, ExpireRun, controller, records, history
<1>10. CASE finishAbort
  BY <1>0, <1>10 DEF TypeOK, finishAbort, RunPhase, turns, records, history
<1>11. CASE AbortFails
  BY <1>0, <1>11 DEF TypeOK, AbortFails, ControllerPhase, RunPhase, turns, records, history
<1>11a. ASSUME NEW t \in Turn, OpenTurn(t)
       PROVE  /\ turn' \in 0 .. MaxTurns /\ asker' = asker /\ cancelled' = cancelled
              /\ step' \in [Turn -> {"off", "think", "ask", "answered", "dispatch", "apply",
                                     "wrap", "over"}]
              /\ opened' \in [Turn -> 0 .. MaxRuns]
  <2>1. /\ turn' = t /\ asker' = asker /\ cancelled' = cancelled
        /\ step' = [step EXCEPT ![t] = "think"] /\ opened' = [opened EXCEPT ![t] = run]
    BY <1>11a DEF OpenTurn
  <2>2. step' \in [Turn -> {"off", "think", "ask", "answered", "dispatch", "apply",
                            "wrap", "over"}]
    BY <1>0, <2>1 DEF TypeOK
  <2>3. opened' \in [Turn -> 0 .. MaxRuns]
    BY <1>0, <2>1 DEF TypeOK
  <2> QED
    BY <2>1, <2>2, <2>3 DEF Turn
<1>12. ASSUME NEW t \in Turn, SendPrompt(t) PROVE TypeOK'
  BY <1>0, <1>11a, <1>12 DEF TypeOK, SendPrompt, controller, records, history
<1>13. ASSUME NEW t \in Turn, SteerPrompt(t) PROVE TypeOK'
  BY <1>0, <1>11a, <1>13 DEF TypeOK, SteerPrompt, controller, records, history
<1>14. ASSUME NEW w \in TxResult, OnRunStarted(w) PROVE TypeOK'
  <2>1. run \in Run
    BY <1>0, <1>14 DEF TypeOK, RecordInv, HolderInv, OnRunStarted, Run
  <2> QED
    BY <1>0, <1>14, <2>1 DEF TypeOK, OnRunStarted, recordRunStarted, ControllerPhase, RunPhase,
       turns, history
<1>15. ASSUME NEW w \in TxResult, OnRunStatus(w) PROVE TypeOK'
  <2>1. run \in Run /\ phase \in Over
    BY <1>0, <1>15 DEF TypeOK, RecordInv, HolderInv, OnRunStatus, Run
  <2>2. row' \in [Run -> {"none", "running"} \cup Over] /\ faults' \subseteq Run
    BY <1>0, <1>15, <2>1, Writes DEF OnRunStatus
  <2> QED
    BY <1>0, <1>15, <2>2 DEF TypeOK, OnRunStatus, controller, turns, history
<1>16. ASSUME NEW w \in TxResult, Restored(w) PROVE TypeOK'
  <2>1. run \in Run /\ "succeeded" \in Over
    BY <1>0, <1>16 DEF TypeOK, RecordInv, HolderInv, Restored, Run, Over
  <2>2. row' \in [Run -> {"none", "running"} \cup Over] /\ faults' \subseteq Run
    BY <1>0, <1>16, <2>1, Writes DEF Restored
  <2> QED
    BY <1>0, <1>16, <2>2 DEF TypeOK, Restored, ControllerPhase, turns, history
<1>17. ASSUME NEW w \in TxResult, finishPublishedEvent(w) PROVE TypeOK'
  <2>1. persisting.run \in Run /\ persisting.outcome \in Over
    BY <1>0, <1>17 DEF RecordInv, OutcomeInv, finishPublishedEvent
  <2>2. row' \in [Run -> {"none", "running"} \cup Over] /\ faults' \subseteq Run
    BY <1>0, <1>17, <2>1, Writes DEF finishPublishedEvent
  <2> QED
    BY <1>0, <1>17, <2>2 DEF TypeOK, finishPublishedEvent, ControllerPhase, Nothing, turns, history
<1>18. ASSUME NEW r \in Run, Acknowledge(r) PROVE TypeOK'
  <2>1. phase \in {"running", "aborting"} => run \in Run
    BY <1>0 DEF TypeOK, RecordInv, HolderInv, Run
  <2> QED
    BY <1>0, <1>18, <2>1, IngestTypes DEF TypeOK, Acknowledge, Meets, turns, records
<1>19. ASSUME NEW t \in Turn, NEW ok \in BOOLEAN, EndTurn(t, ok) PROVE TypeOK'
  <2>1. phase \in {"running", "aborting"} => run \in Run
    BY <1>0 DEF TypeOK, RecordInv, HolderInv, Run
  <2> QED
    BY <1>0, <1>19, <2>1, IngestTypes DEF TypeOK, EndTurn, Meets, records
<1>20. ASSUME NEW t \in Turn, Ask(t) PROVE TypeOK'
  BY <1>0, <1>20 DEF TypeOK, Ask, controller, records, history
<1>21. ASSUME NEW t \in Turn, Approve(t) \/ Decline(t) \/ Admit(t) \/ Dispatch(t)
                              \/ Applied(t) \/ LeaveTurn(t)
       PROVE  TypeOK'
  BY <1>0, <1>21 DEF TypeOK, Approve, Decline, Admit, Dispatch, Applied, LeaveTurn, Goto,
     controller, records, history
<1> QED
  BY <1>1, <1>2, <1>3, <1>4, <1>5, <1>6, <1>7, <1>8, <1>9, <1>10, <1>11, <1>12, <1>13, <1>14,
     <1>15, <1>16, <1>17, <1>18, <1>19, <1>20, <1>21, Zenon DEF Next, Continue, Proceed

-----------------------------------------------------------------------------
(* Records.                                                                *)

\* A step that leaves the controller, the lock and the records alone.
LEMMA SameRecords ==
    ASSUME RecordInv, UNCHANGED <<controller, op, persisting, records, crossed>>
    PROVE  RecordInv'
  BY DEF RecordInv, OutcomeInv, HolderInv, controller, records

\* A completion that is ingested is owed a record, and nobody else writes one.
LEMMA IngestRecords ==
    ASSUME TypeOK, RecordInv, persisting = Nothing, ingestIdle \/ ingestError,
           UNCHANGED <<run, op, records, crossed>>
    PROVE  RecordInv'
<1> USE Bounds
<1>1. persisting.run = 0
  BY DEF Nothing
<1>2. ASSUME NEW value \in Over, status # "stopped", phase \in {"running", "aborting"},
             Complete(value)
      PROVE  RecordInv'
  <2>1. persisting'.run = run /\ persisting'.outcome = value
    BY <1>2 DEF Complete
  <2>2. run \in Run /\ op \in {"record", "send", "free", "steer", "abort", "expire", "finish"}
    BY <1>2 DEF TypeOK, RecordInv, HolderInv, Run
  <2>3. phase' = value /\ status' = "persisting"
    BY <1>2 DEF Complete
  <2>4. OutcomeInv'
    BY <2>1, <2>2, <2>3 DEF OutcomeInv, Run
  <2>5. HolderInv'
    BY <2>2, <2>3 DEF HolderInv, Over, Run
  <2> QED
    BY <2>1, <2>2, <2>3, <2>4, <2>5 DEF RecordInv, records
<1>3. ASSUME status # "stopped", phase # "running", status' = "idle",
             UNCHANGED <<phase, persisting>>
      PROVE  RecordInv'
  BY <1>1, <1>3 DEF RecordInv, OutcomeInv, HolderInv, records
<1>4. ASSUME UNCHANGED <<status, phase, persisting>> PROVE RecordInv'
  BY <1>4, SameRecords DEF controller
<1> QED
  BY <1>2, <1>3, <1>4 DEF ingestIdle, ingestError, Over

LEMMA RecordsKept ==
    ASSUME Inv, Next
    PROVE  RecordInv'
<1>0. TypeOK /\ RecordInv /\ StrayInv
  BY DEF Inv
<1> USE Bounds
<1>1. ASSUME NEW ok \in BOOLEAN, Start(ok) PROVE RecordInv'
  BY <1>0, <1>1 DEF TypeOK, RecordInv, OutcomeInv, HolderInv, Start, records, Over, history
<1>2. CASE Send
  <2>1. run \in Run => persisting.run # run \/ run \in faults \cup crossed
    BY <1>0, <1>2 DEF RecordInv, OutcomeInv, Send, Run, Nothing
  <2>2. run \in Run /\ run \notin faults => row[run] \in Over
    BY <1>0, <1>2, <2>1 DEF TypeOK, RecordInv, HolderInv, Send, RunPhase, Over, Run
  <2>9. run' \notin crossed'
    BY <1>0, <1>2 DEF TypeOK, StrayInv, Send, Run, history
  <2>3. run' \in Run /\ run' = run + 1
    BY <1>0, <1>2 DEF TypeOK, Send, Run
  <2>4. OutcomeInv'
    BY <1>0, <1>2, <2>3 DEF TypeOK, RecordInv, OutcomeInv, Send, Run, records, history
  <2>5. HolderInv'
    BY <1>0, <1>2, <2>3 DEF HolderInv, Send, Run
  <2>6. \A r \in Run : r < run' /\ r \notin faults' => row'[r] \in Over
    BY <1>0, <1>2, <2>2 DEF TypeOK, RecordInv, Send, Run, records
  <2>7. \A r \in Run : r > run' => row'[r] = "none" /\ r \notin faults'
    BY <1>0, <1>2 DEF TypeOK, RecordInv, Send, Run, records
  <2>8. row'[run'] = "none"
    BY <1>0, <1>2, <2>3 DEF TypeOK, RecordInv, Send, Run, records
  <2> QED
    BY <1>2, <2>4, <2>5, <2>6, <2>7, <2>8, <2>9 DEF RecordInv, Send, Over
<1>3. CASE Steer
  BY <1>0, <1>3 DEF RecordInv, OutcomeInv, HolderInv, Steer, controller, records, Over, history
<1>4. CASE Abort
  BY <1>0, <1>4 DEF RecordInv, OutcomeInv, HolderInv, Abort, records, Over, history
<1>5. CASE Close
  BY <1>0, <1>5 DEF RecordInv, OutcomeInv, HolderInv, Close, records, history
<1>6. CASE SendFails
  BY <1>0, <1>6 DEF RecordInv, OutcomeInv, HolderInv, SendFails, records, Over
<1>7. CASE SteerFails
  BY <1>0, <1>7 DEF TypeOK, RecordInv, OutcomeInv, HolderInv, SteerFails, controller, records, history
<1>8. CASE AbortTurn
  BY <1>0, <1>8 DEF TypeOK, RecordInv, OutcomeInv, HolderInv, AbortTurn, controller, records
<1>9. CASE ExpireRun
  BY <1>0, <1>9 DEF TypeOK, RecordInv, OutcomeInv, HolderInv, ExpireRun, controller, records, history
<1>10. CASE finishAbort
  BY <1>0, <1>10 DEF TypeOK, RecordInv, OutcomeInv, HolderInv, finishAbort, records, Over, history
<1>11. CASE AbortFails
  BY <1>0, <1>11 DEF TypeOK, RecordInv, OutcomeInv, HolderInv, AbortFails, records, Over, history
<1>12. ASSUME NEW t \in Turn, SendPrompt(t) \/ SteerPrompt(t) PROVE RecordInv'
  BY <1>0, <1>12 DEF TypeOK, RecordInv, OutcomeInv, HolderInv, SendPrompt, SteerPrompt,
     controller, records, history
<1>13. ASSUME NEW w \in TxResult, OnRunStarted(w) PROVE RecordInv'
  <2>1. run \in Run /\ row[run] = "none" /\ UNCHANGED <<run, persisting, crossed>>
        /\ run \notin crossed
    BY <1>0, <1>13 DEF TypeOK, RecordInv, HolderInv, OnRunStarted, Run, history
  <2>2. \A r \in Run : r # run => row'[r] = row[r] /\ (r \in faults' <=> r \in faults)
    BY <1>0, <1>13, <2>1 DEF TypeOK, OnRunStarted, recordRunStarted
  <2>3. /\ \A r \in Run : r < run' /\ r \notin faults' => row'[r] \in Over
        /\ \A r \in Run : r > run' => row'[r] = "none" /\ r \notin faults'
    BY <1>0, <2>1, <2>2 DEF TypeOK, RecordInv, Run
  <2>4. CASE w = "ok"
    <3>1. UNCHANGED <<status, phase, faults>> /\ op' = "send"
      BY <1>13, <2>4 DEF OnRunStarted, recordRunStarted
    <3>2. OutcomeInv' /\ HolderInv'
      BY <1>0, <1>13, <2>1, <3>1 DEF RecordInv, OutcomeInv, HolderInv, OnRunStarted, Over, Run
    <3> QED
      BY <1>0, <1>13, <2>1, <2>3, <3>1, <3>2 DEF RecordInv, OnRunStarted
  <2>5. CASE w # "ok"
    <3>1. phase' = "failed" /\ status' = "idle" /\ op' = "free" /\ run \in faults'
      BY <1>13, <2>5 DEF OnRunStarted, recordRunStarted
    <3>2. OutcomeInv' /\ HolderInv'
      BY <1>0, <1>13, <2>1, <2>2, <3>1 DEF RecordInv, OutcomeInv, HolderInv, Over, Run
    <3> QED
      BY <2>1, <2>3, <3>1, <3>2 DEF RecordInv
  <2> QED
    BY <2>4, <2>5
<1>14. ASSUME NEW w \in TxResult, OnRunStatus(w) PROVE RecordInv'
  <2>1. run \in Run /\ phase \in Over /\ op' = "free"
        /\ UNCHANGED <<status, phase, run, persisting, crossed>>
    BY <1>0, <1>14 DEF TypeOK, RecordInv, HolderInv, OnRunStatus, Run, controller, history
  <2>2. /\ faults \subseteq faults' /\ faults' \subseteq faults \cup {run}
        /\ \A q \in Run \ {run} : row'[q] = row[q]
        /\ run \notin faults' => row'[run] = phase
    BY <1>0, <1>14, <2>1, Writes DEF OnRunStatus
  <2>3. OutcomeInv' /\ HolderInv'
    BY <1>0, <1>14, <2>1, <2>2 DEF RecordInv, OutcomeInv, HolderInv, OnRunStatus, Over, Run
  <2> QED
    BY <1>0, <2>1, <2>2, <2>3 DEF TypeOK, RecordInv, Run
<1>15. ASSUME NEW w \in TxResult, Restored(w) PROVE RecordInv'
  <2>1. run \in Run /\ "succeeded" \in Over /\ phase = "succeeded" /\ op' = "free"
        /\ UNCHANGED <<phase, run, persisting, crossed>> /\ run \notin crossed
    BY <1>0, <1>15 DEF TypeOK, RecordInv, HolderInv, Restored, Run, Over, history
  <2>2. /\ faults \subseteq faults' /\ faults' \subseteq faults \cup {run}
        /\ \A q \in Run \ {run} : row'[q] = row[q]
        /\ run \notin faults' => row'[run] = phase
    BY <1>0, <1>15, <2>1, Writes DEF Restored
  <2>3. OutcomeInv' /\ HolderInv'
    BY <1>0, <1>15, <2>1, <2>2 DEF RecordInv, OutcomeInv, HolderInv, Restored, Over, Run
  <2> QED
    BY <1>0, <2>1, <2>2, <2>3 DEF TypeOK, RecordInv, Run
<1>16. ASSUME NEW w \in TxResult, finishPublishedEvent(w) PROVE RecordInv'
  <2>1. /\ persisting.run \in Run /\ persisting.outcome \in Over /\ persisting.run <= run
        /\ persisting' = Nothing /\ UNCHANGED <<phase, run, op, crossed>>
    BY <1>0, <1>16 DEF RecordInv, OutcomeInv, finishPublishedEvent, history
  <2>2. /\ faults \subseteq faults' /\ faults' \subseteq faults \cup {persisting.run}
        /\ \A q \in Run \ {persisting.run} : row'[q] = row[q]
        /\ row'[persisting.run] \in {row[persisting.run], persisting.outcome}
        /\ row[persisting.run] = "none" => row'[persisting.run] = "none"
        /\ persisting.run \notin faults' => row'[persisting.run] = persisting.outcome
    BY <1>0, <1>16, <2>1, Writes DEF finishPublishedEvent
  <2>3. OutcomeInv' /\ HolderInv'
    BY <1>0, <1>16, <2>1 DEF TypeOK, RecordInv, OutcomeInv, HolderInv, finishPublishedEvent, Over
  <2>4. persisting'.run = 0 /\ (persisting.run = run \/ persisting.run \in faults \cup crossed)
    BY <1>0, <1>16, <2>1 DEF Nothing, RecordInv, OutcomeInv, finishPublishedEvent
  <2>5. run \in Run
    BY <1>0, <2>1 DEF TypeOK, Run
  <2>6. /\ \A r \in Run : r < run' /\ r \notin faults' => row'[r] \in Over
        /\ \A r \in Run : r > run' => row'[r] = "none" /\ r \notin faults'
    <3>1. ASSUME NEW r \in Run, r < run, r \notin faults' PROVE row'[r] \in Over
      BY <1>0, <2>1, <2>2, <3>1 DEF RecordInv
    <3>2. ASSUME NEW r \in Run, r > run PROVE r # persisting.run
      BY <2>1, <2>5, <3>2 DEF Run
    <3>3. ASSUME NEW r \in Run, r > run PROVE row'[r] = "none" /\ r \notin faults'
      BY <1>0, <2>2, <3>2, <3>3 DEF RecordInv
    <3> QED
      BY <2>1, <3>1, <3>3
  <2>7. /\ op' = "record" => row'[run'] = "none"
        /\ op' = "record" /\ phase' \in Over => run' \in faults'
    BY <1>0, <2>1, <2>2, <2>4, <2>5 DEF TypeOK, RecordInv, Over
  <2>8. phase \in Over /\ op \notin {"record", "status", "restored"} /\ run \notin faults' \cup crossed
          => row'[run] = phase
    <3>1. CASE persisting.run = run
      BY <1>0, <1>16, <2>2, <3>1 DEF RecordInv, OutcomeInv, finishPublishedEvent
    <3>2. CASE persisting.run # run
      BY <1>0, <2>2, <2>5, <3>2 DEF RecordInv
    <3> QED
      BY <3>1, <3>2
  <2>9. run \in crossed /\ op # "status" /\ run \notin faults' => row'[run] \in Over
    BY <1>0, <2>1, <2>2, <2>5 DEF RecordInv
  <2>10. run \in crossed => op \notin {"record", "send", "restored"} /\ phase \in Over
    BY <1>0 DEF RecordInv
  <2> QED
    BY <2>1, <2>3, <2>6, <2>7, <2>8, <2>9, <2>10 DEF RecordInv
<1>17. ASSUME NEW r \in Run, Acknowledge(r) PROVE RecordInv'
  BY <1>0, <1>17, IngestRecords DEF Acknowledge
<1>18. ASSUME NEW t \in Turn, NEW ok \in BOOLEAN, EndTurn(t, ok) PROVE RecordInv'
  BY <1>0, <1>18, IngestRecords DEF EndTurn
<1>19. ASSUME NEW t \in Turn, Ask(t) \/ Approve(t) \/ Decline(t) \/ Admit(t) \/ Dispatch(t)
                              \/ Applied(t) \/ LeaveTurn(t)
       PROVE  RecordInv'
  BY <1>0, <1>19, SameRecords DEF Ask, Approve, Decline, Admit, Dispatch, Applied, LeaveTurn, Goto,
     history
<1> QED
  BY <1>1, <1>2, <1>3, <1>4, <1>5, <1>6, <1>7, <1>8, <1>9, <1>10, <1>11, <1>12, <1>13, <1>14,
     <1>15, <1>16, <1>17, <1>18, <1>19, Zenon DEF Next, Continue, Proceed

-----------------------------------------------------------------------------
(* Completions that are not the run's own.                                 *)

\* While a prompt is on its way to the harness, an event is an earlier run's.
LEMMA IngestStray ==
    ASSUME TypeOK, StrayInv, NEW r, Meets(r), ingestIdle \/ ingestError,
           op \in {"record", "send"} => r # run,
           persisting = Nothing, run # 0 \/ op = "free",
           UNCHANGED <<run, op, opened, crossed>>
    PROVE  StrayInv'
<1>1. stray \subseteq stray'
  BY DEF Meets
<1>2. persisting'.run = run /\ op \in {"record", "send"} => run \in stray'
  <2> SUFFICES ASSUME persisting'.run = run, op \in {"record", "send"}
               PROVE  run \in stray'
    OBVIOUS
  <2>1. persisting' # persisting
    BY DEF Nothing
  <2>2. phase \in {"running", "aborting"}
    BY <2>1 DEF ingestIdle, ingestError
  <2> QED
    BY <2>2 DEF Meets
<1> QED
  BY <1>1, <1>2 DEF StrayInv

LEMMA StrayKept ==
    ASSUME Inv, Next
    PROVE  StrayInv'
<1>0. TypeOK /\ RecordInv /\ StrayInv /\ DispatchInv
  BY DEF Inv
<1> USE Bounds
<1>1. ASSUME NEW ok \in BOOLEAN, Start(ok) PROVE StrayInv'
  BY <1>0, <1>1 DEF StrayInv, Start, turns, history
<1>2. CASE Send
  <2>1. persisting.run # run + 1
    BY <1>0 DEF TypeOK, RecordInv, OutcomeInv, Nothing, Run
  <2>2. /\ run' = run + 1 /\ UNCHANGED <<opened, persisting, crossed, stray>>
        /\ run \in Int
    BY <1>0, <1>2 DEF TypeOK, Send, turns, history
  <2>3. \A t \in Turn : opened[t] \in Int /\ opened[t] <= run
    BY <1>0 DEF TypeOK, StrayInv
  <2>4. \A r \in crossed : r \in Int /\ r <= run /\ r \in stray
    BY <1>0 DEF TypeOK, StrayInv, Run
  <2> QED
    BY <2>1, <2>2, <2>3, <2>4 DEF StrayInv
<1>3. CASE Steer \/ Abort \/ Close \/ SteerFails \/ AbortTurn \/ ExpireRun \/ finishAbort
           \/ AbortFails
  BY <1>0, <1>3 DEF StrayInv, Steer, Abort, Close, SteerFails, AbortTurn, ExpireRun,
     finishAbort, AbortFails, controller, turns, history
<1>4. CASE SendFails
  <2>1. \A r \in crossed' : r <= run /\ r \in stray
    BY <1>0, <1>4 DEF TypeOK, StrayInv, SendFails
  <2> QED
    BY <1>0, <1>4, <2>1 DEF StrayInv, SendFails, turns
<1>5. ASSUME NEW t \in Turn, SendPrompt(t) \/ SteerPrompt(t) PROVE StrayInv'
  <2>1. /\ op' = "free" /\ opened' = [opened EXCEPT ![t] = run]
        /\ UNCHANGED <<run, crossed, stray>>
    BY <1>5 DEF SendPrompt, SteerPrompt, OpenTurn, controller, history
  <2>2. \A u \in Turn : opened'[u] <= run
    BY <1>0, <2>1 DEF TypeOK, StrayInv
  <2> QED
    BY <1>0, <2>1, <2>2 DEF StrayInv
<1>6. ASSUME NEW w \in TxResult, OnRunStarted(w) \/ OnRunStatus(w) \/ Restored(w)
      PROVE  StrayInv'
  BY <1>0, <1>6 DEF StrayInv, OnRunStarted, OnRunStatus, Restored, controller, turns, history
<1>7. ASSUME NEW w \in TxResult, finishPublishedEvent(w) PROVE StrayInv'
  <2>1. persisting'.run = 0 /\ (run = 0 => op = "free")
    BY <1>0, <1>7 DEF finishPublishedEvent, Nothing, RecordInv, HolderInv
  <2> QED
    BY <1>0, <1>7, <2>1 DEF StrayInv, finishPublishedEvent, turns, history
<1>8. run # 0 \/ op = "free"
  BY <1>0 DEF RecordInv, HolderInv
<1>9. ASSUME NEW r \in Run, Acknowledge(r) PROVE StrayInv'
  <2>1. op \in {"record", "send"} => r # run
    BY <1>0, <1>9 DEF DispatchInv, Acknowledge
  <2> QED
    BY <1>0, <1>8, <1>9, <2>1, IngestStray DEF Acknowledge, turns
<1>10. ASSUME NEW t \in Turn, NEW ok \in BOOLEAN, EndTurn(t, ok) PROVE StrayInv'
  <2>1. op \in {"record", "send"} => opened[t] # run
    BY <1>0 DEF StrayInv
  <2> QED
    BY <1>0, <1>8, <1>10, <2>1, IngestStray DEF EndTurn
<1>11. ASSUME NEW t \in Turn, Ask(t) \/ Approve(t) \/ Decline(t) \/ Admit(t) \/ Dispatch(t)
                              \/ Applied(t) \/ LeaveTurn(t)
       PROVE  StrayInv'
  BY <1>0, <1>11 DEF StrayInv, Ask, Approve, Decline, Admit, Dispatch, Applied, LeaveTurn,
     Goto, controller, history
<1> QED
  BY <1>1, <1>2, <1>3, <1>4, <1>5, <1>6, <1>7, <1>9, <1>10, <1>11, Zenon
     DEF Next, Continue, Proceed

-----------------------------------------------------------------------------
(* Dispatches.                                                             *)

\* A step of one turn: it never becomes "off", and only Admit makes a token.
LEMMA TurnStep ==
    ASSUME TypeOK, DispatchInv, NEW t \in Turn, NEW s, s # "off", step[t] # "off", Goto(t, s),
           approved' \subseteq approved
    PROVE  DispatchInv'
  BY DEF TypeOK, DispatchInv, Goto, controller, history

\* An event of the harness: an earlier run's that meets an active run is stray.
LEMMA IngestDispatches ==
    ASSUME TypeOK, RecordInv, DispatchInv, NEW r, Meets(r), ingestIdle \/ ingestError,
           UNCHANGED <<run, op, approved, opened, stopped>>,
           acks' \subseteq acks,
           \A t \in Turn : (step[t] # "off") <=> (step'[t] # "off"),
           \/ turn' = 0 /\ turn # 0 /\ cancelled' = cancelled \cup {turn}
           \/ UNCHANGED <<turn, cancelled>> /\ r \in stopped
    PROVE  DispatchInv'
<1>1. stray \subseteq stray'
  BY DEF Meets
<1>2. phase' = "running" => phase = "running"
  BY DEF ingestIdle, ingestError, Complete
<1>3. \A t \in Turn : step'[t] # "off" /\ t \notin cancelled' => turn' = t
  BY DEF TypeOK, DispatchInv
<1>4. op = "abort" /\ status' = "aborting" => phase' = "aborting"
  BY DEF DispatchInv, ingestIdle, ingestError, Complete
<1>5. op = "abort" /\ status' \notin {"aborting", "stopped"} /\ turn' # 0 => run \in stray'
  <2>1. SUFFICES ASSUME op = "abort", status' \notin {"aborting", "stopped"}, turn' # 0
                 PROVE  run \in stray'
    OBVIOUS
  <2>2. r \in stopped /\ r # run
    BY <2>1 DEF DispatchInv
  <2>3. CASE status \in {"aborting", "stopped"}
    <3>1. status = "aborting"
      BY <2>1, <2>3 DEF ingestIdle, ingestError, Complete
    <3>2. phase = "aborting"
      BY <2>1, <3>1 DEF DispatchInv
    <3> QED
      BY <2>2, <3>2 DEF Meets
  <2>4. CASE status \notin {"aborting", "stopped"}
    BY <1>1, <2>1, <2>2, <2>4 DEF DispatchInv
  <2> QED
    BY <2>3, <2>4
<1>6. turn' # 0 => opened'[turn'] \notin stopped'
  BY DEF DispatchInv
<1> QED
  BY <1>1, <1>2, <1>3, <1>4, <1>5, <1>6 DEF TypeOK, DispatchInv

\* The harness opens a turn for the run that is current.
LEMMA OpenDispatches ==
    ASSUME TypeOK, DispatchInv, NEW t \in Turn, OpenTurn(t), op \in {"send", "steer"}, op' = "free",
           UNCHANGED <<controller, approved, acks, history>>
    PROVE  DispatchInv'
<1>1. turn = 0 /\ turn' = t /\ step[t] = "off" /\ t # 0
  BY DEF OpenTurn, Accepts, Turn
<1>2. /\ step' = [step EXCEPT ![t] = "think"] /\ opened' = [opened EXCEPT ![t] = run]
      /\ UNCHANGED cancelled
  BY DEF OpenTurn
<1>3. \A u \in Turn : step'[u] # "off" /\ u \notin cancelled' => turn' = u
  BY <1>1, <1>2 DEF TypeOK, DispatchInv, Turn
<1>4. t \notin approved
  BY <1>1 DEF DispatchInv
<1>5. run \notin stopped
  BY DEF DispatchInv
<1>6. \A u \in approved : step'[u] # "off" /\ opened'[u] = opened[u]
  BY <1>2, <1>4 DEF TypeOK, DispatchInv
<1>7. opened'[turn'] \notin stopped'
  BY <1>1, <1>2, <1>5 DEF TypeOK, history
<1> QED
  BY <1>3, <1>6, <1>7, <1>5 DEF DispatchInv, controller, history

LEMMA DispatchesKept ==
    ASSUME Inv, Next
    PROVE  DispatchInv'
<1>0. TypeOK /\ RecordInv /\ DispatchInv
  BY DEF Inv
<1> USE Bounds
<1>1. ASSUME NEW ok \in BOOLEAN, Start(ok) PROVE DispatchInv'
  <2>1. op = "free"
    BY <1>0, <1>1 DEF RecordInv, HolderInv, Start
  <2> QED
    BY <1>0, <1>1, <2>1 DEF DispatchInv, Start, turns, history
<1>2. CASE Send
  <2>1. run + 1 \notin stopped
    BY <1>0 DEF TypeOK, DispatchInv, Run
  <2> QED
    BY <1>0, <1>2, <2>1 DEF TypeOK, DispatchInv, Send, turns, history, Run
<1>3. CASE Steer
  BY <1>0, <1>3 DEF DispatchInv, Steer, controller, turns, history
<1>4. CASE Abort
  BY <1>0, <1>4 DEF DispatchInv, Abort, turns, history
<1>5. CASE Close
  <2>1. \A t \in Turn : step[t] # "off" => t \in cancelled'
    BY <1>0, <1>5, CloseCancels
  <2> QED
    BY <1>0, <1>5, <2>1 DEF DispatchInv, Close, history
<1>6. CASE SendFails
  BY <1>0, <1>6 DEF DispatchInv, SendFails, turns, history
<1>7. CASE SteerFails
  BY <1>0, <1>7 DEF DispatchInv, SteerFails, controller, turns, history
<1>8. CASE AbortTurn
  <2>1. /\ turn' = 0 /\ op' = "expire" /\ stopped' = stopped \cup {run} /\ acks' \subseteq acks \cup {run}
        /\ UNCHANGED <<status, phase, run, approved, step, opened, stray>>
    BY <1>8 DEF AbortTurn, controller
  <2>2. \A t \in Turn : step[t] # "off" => t \in cancelled'
    BY <1>0, <1>8 DEF DispatchInv, AbortTurn, Turn
  <2>3. op = "abort"
    BY <1>8 DEF AbortTurn
  <2>4. \A t \in approved : opened[t] \in stopped' => opened[t] \in stray
    BY <1>0, <2>1, <2>3 DEF DispatchInv
  <2>5. \A r \in stopped' : r <= run
    BY <1>0, <2>1 DEF DispatchInv, TypeOK, Run
  <2> QED
    BY <1>0, <2>1, <2>2, <2>3, <2>4, <2>5 DEF DispatchInv
<1>9. CASE ExpireRun
  <2>1. \A t \in Turn : step'[t] # "off" <=> step[t] # "off"
    BY <1>0, <1>9 DEF TypeOK, ExpireRun
  <2> QED
    BY <1>0, <1>9, <2>1 DEF TypeOK, DispatchInv, ExpireRun, controller, history
<1>10. CASE finishAbort
  BY <1>0, <1>10 DEF DispatchInv, finishAbort, turns, history
<1>11. CASE AbortFails
  BY <1>0, <1>11 DEF DispatchInv, AbortFails, turns, history
<1>12. ASSUME NEW t \in Turn, SendPrompt(t) PROVE DispatchInv'
  BY <1>0, <1>12, OpenDispatches DEF SendPrompt
<1>13. ASSUME NEW t \in Turn, SteerPrompt(t) PROVE DispatchInv'
  BY <1>0, <1>13, OpenDispatches DEF SteerPrompt
<1>14. ASSUME NEW w \in TxResult, OnRunStarted(w) PROVE DispatchInv'
  BY <1>0, <1>14 DEF DispatchInv, OnRunStarted, turns, history
<1>15. ASSUME NEW w \in TxResult, OnRunStatus(w) PROVE DispatchInv'
  BY <1>0, <1>15 DEF DispatchInv, OnRunStatus, controller, turns, history
<1>16. ASSUME NEW w \in TxResult, Restored(w) PROVE DispatchInv'
  BY <1>0, <1>16 DEF DispatchInv, Restored, turns, history
<1>17. ASSUME NEW w \in TxResult, finishPublishedEvent(w) PROVE DispatchInv'
  BY <1>0, <1>17 DEF DispatchInv, finishPublishedEvent, turns, history
<1>18. ASSUME NEW r \in Run, Acknowledge(r) PROVE DispatchInv'
  <2>1. r \in stopped
    BY <1>0, <1>18 DEF DispatchInv, Acknowledge
  <2> QED
    BY <1>0, <1>18, <2>1, IngestDispatches DEF Acknowledge, turns
<1>19. ASSUME NEW t \in Turn, NEW ok \in BOOLEAN, EndTurn(t, ok) PROVE DispatchInv'
  <2>1. \A u \in Turn : (step[u] # "off") <=> (step'[u] # "off")
    BY <1>0, <1>19 DEF TypeOK, EndTurn
  <2>2. turn = t /\ t # 0 /\ turn' = 0
    BY <1>19 DEF EndTurn, Turn
  <2> QED
    BY <1>0, <1>19, <2>1, <2>2, IngestDispatches DEF EndTurn
<1>20. ASSUME NEW t \in Turn, Ask(t) PROVE DispatchInv'
  BY <1>0, <1>20 DEF TypeOK, DispatchInv, Ask, controller, history
<1>21. ASSUME NEW t \in Turn, Admit(t) PROVE DispatchInv'
  <2>1. CASE t \notin cancelled /\ status \notin {"aborting", "stopped"}
             /\ approved' = approved \cup {t} /\ Goto(t, "dispatch")
    <3>1. turn = t /\ step[t] # "off" /\ t # 0
      BY <1>0, <1>21, <2>1 DEF Admit, DispatchInv, Turn
    <3>2. opened[t] \notin stopped /\ (op = "abort" => run \in stray)
      BY <1>0, <2>1, <3>1 DEF DispatchInv
    <3> QED
      BY <1>0, <2>1, <3>1, <3>2 DEF TypeOK, DispatchInv, Goto, controller, history
  <2>2. CASE Goto(t, "wrap") /\ UNCHANGED approved
    BY <1>0, <1>21, <2>2, TurnStep DEF Admit
  <2> QED
    BY <1>21, <2>1, <2>2 DEF Admit
<1>22. ASSUME NEW t \in Turn, Approve(t) \/ Decline(t) \/ Dispatch(t) \/ Applied(t) \/ LeaveTurn(t)
       PROVE  DispatchInv'
  BY <1>0, <1>22, TurnStep DEF Approve, Decline, Dispatch, Applied, LeaveTurn
<1> QED
  BY <1>1, <1>2, <1>3, <1>4, <1>5, <1>6, <1>7, <1>8, <1>9, <1>10, <1>11, <1>12, <1>13, <1>14,
     <1>15, <1>16, <1>17, <1>18, <1>19, <1>20, <1>21, <1>22, Zenon DEF Next, Continue, Proceed

-----------------------------------------------------------------------------
(* The theorems.                                                           *)

LEMMA InvInit == Init => Inv
<1> SUFFICES ASSUME Init PROVE Inv
  OBVIOUS
<1> USE Bounds
<1>1. TypeOK
  <2>1. Nothing \in [run : 0 .. MaxRuns, outcome : Over \cup {"none"}]
    BY DEF Nothing
  <2>2. row \in [Run -> {"none", "running"} \cup Over] /\ faults = {}
        /\ stopped = {} /\ stray = {} /\ crossed = {}
    BY DEF Init
  <2>3. /\ step \in [Turn -> {"off", "think", "ask", "answered", "dispatch", "apply", "wrap", "over"}]
        /\ opened \in [Turn -> 0 .. MaxRuns] /\ asker \in [Turn -> 0 .. MaxRuns]
    BY DEF Init
  <2>4. /\ status \in ControllerPhase /\ phase \in RunPhase /\ run \in 0 .. MaxRuns
        /\ op = "free" /\ turn \in 0 .. MaxTurns
    BY DEF Init, ControllerPhase, RunPhase
  <2>5. approved = {} /\ cancelled = {} /\ acks = {} /\ closed \in BOOLEAN /\ persisting = Nothing
    BY Zenon DEF Init
  <2> QED
    BY <2>1, <2>2, <2>3, <2>4, <2>5, Zenon DEF TypeOK
<1>2. persisting = Nothing /\ persisting.run = 0
  BY DEF Init, Nothing
<1>3. RecordInv
  BY <1>2 DEF Init, RecordInv, OutcomeInv, HolderInv, Over, Run
<1>4. DispatchInv
  BY DEF Init, DispatchInv
<1>5. StrayInv
  BY DEF Init, StrayInv
<1> QED
  BY <1>1, <1>3, <1>4, <1>5 DEF Inv

LEMMA InvNext == Inv /\ [Next]_vars => Inv'
<1> SUFFICES ASSUME Inv, [Next]_vars PROVE Inv'
  OBVIOUS
<1>1. CASE Next
  BY <1>1, TypeKept, RecordsKept, StrayKept, DispatchesKept DEF Inv
<1>2. CASE UNCHANGED vars
  <2>1. TypeOK'
    BY <1>2 DEF Inv, TypeOK, vars, controller, turns, records, history
  <2>2. RecordInv'
    BY <1>2, SameRecords DEF Inv, vars, history
  <2>3. DispatchInv'
    BY <1>2 DEF Inv, DispatchInv, vars, controller, turns, records, history
  <2>4. StrayInv'
    BY <1>2 DEF Inv, StrayInv, vars, controller, turns, history
  <2> QED
    BY <2>1, <2>2, <2>3, <2>4 DEF Inv
<1> QED
  BY <1>1, <1>2

\* The invariant of the controller: who owes which record, and which tokens
\* and turns are left.
THEOREM Invariance == Spec => []Inv
  BY InvInit, InvNext, PTL DEF Spec

\* A prompt starts a run only after the earlier runs were recorded as over,
\* and the controller at rest agrees with the record of its last run, unless a
\* write failed: a completion that an event, a failed send, a finished abort or a
\* failed abort decides is written by exactly one of them.  Only a failing send
\* and an event can both write, and only for a run that an earlier run's event
\* had met.
THEOREM RecordsFollow == Spec => []RecordsKeepUp
<1>1. Inv => RecordsKeepUp
  <2> SUFFICES ASSUME Inv PROVE RecordsKeepUp
    OBVIOUS
  <2>1. TypeOK /\ RecordInv /\ StrayInv
    BY DEF Inv
  <2>2. ASSUME status = "idle", op = "free", persisting = Nothing, run # 0,
               run \notin faults \cup crossed
        PROVE  row[run] = phase
    <3>1. phase \in Over
      BY <2>1, <2>2 DEF TypeOK, RecordInv, HolderInv, RunPhase, Over
    <3>2. persisting.run # run
      BY <2>2 DEF Nothing
    <3> QED
      BY <2>1, <2>2, <3>1, <3>2 DEF RecordInv
  <2> QED
    BY <2>1, <2>2 DEF RecordInv, StrayInv, RecordsKeepUp
<1> QED
  BY <1>1, Invariance, PTL

\* restoreRunningAfterAbortFailure, ingestLocked, finishAbort and finishRun
\* look at the phase before they change it: no step takes a run that is over
\* back to running or aborting.
THEOREM EndedForGood == Spec => EndedRunsStayEnded
<1>1. Inv /\ [Next]_vars => [(phase \in Over /\ run' = run) => phase' \in Over]_vars
  <2> SUFFICES ASSUME Inv, [Next]_vars, phase \in Over, run' = run
               PROVE  phase' \in Over
    BY Zenon
  <2>0. phase \notin {"running", "aborting"} /\ run \in 0 .. MaxRuns
    BY DEF Over, Inv, TypeOK
  <2>1. CASE UNCHANGED vars
    BY <2>1 DEF vars, controller
  <2>2. ASSUME NEW ok \in BOOLEAN, Start(ok) PROVE phase' \in Over
    BY <2>2 DEF Start
  <2>3. CASE Send
    BY <2>0, <2>3, Bounds DEF Send
  <2>4. CASE Steer \/ Abort \/ Close \/ SendFails \/ SteerFails \/ AbortTurn \/ ExpireRun
             \/ finishAbort \/ AbortFails
    BY <2>0, <2>4 DEF Steer, Abort, Close, SendFails, SteerFails, AbortTurn, ExpireRun,
       finishAbort, AbortFails, controller, Over
  <2>5. ASSUME NEW t \in Turn, SendPrompt(t) \/ SteerPrompt(t) PROVE phase' \in Over
    BY <2>5 DEF SendPrompt, SteerPrompt, controller
  <2>6. ASSUME NEW w \in TxResult,
               OnRunStarted(w) \/ OnRunStatus(w) \/ Restored(w) \/ finishPublishedEvent(w)
        PROVE  phase' \in Over
    BY <2>6 DEF OnRunStarted, OnRunStatus, Restored, finishPublishedEvent, controller, Over
  <2>7. ASSUME NEW r \in Run, Acknowledge(r) PROVE phase' \in Over
    BY <2>0, <2>7 DEF Acknowledge, ingestIdle
  <2>8. ASSUME NEW t \in Turn, NEW ok \in BOOLEAN, EndTurn(t, ok) PROVE phase' \in Over
    BY <2>0, <2>8 DEF EndTurn, ingestIdle, ingestError
  <2>9. ASSUME NEW t \in Turn, Ask(t) \/ Approve(t) \/ Decline(t) \/ Admit(t) \/ Dispatch(t)
                               \/ Applied(t) \/ LeaveTurn(t)
        PROVE  phase' \in Over
    BY <2>9 DEF Ask, Approve, Decline, Admit, Dispatch, Applied, LeaveTurn, Goto, controller
  <2> QED
    BY <2>1, <2>2, <2>3, <2>4, <2>5, <2>6, <2>7, <2>8, <2>9, Zenon DEF Next, Continue, Proceed
<1> QED
  BY <1>1, Invariance, PTL DEF Spec, EndedRunsStayEnded

\* Once the harness has accepted an abort, no token of the run is honoured any
\* more: abortLocked clears the tokens before, handlePermissionContext makes
\* none for a cancelled turn, and between the two only an earlier run's event
\* lets one through.
THEOREM AbortsStopDispatches == Spec => AbortedRunsDispatchNothing
<1> DEFINE Dispatches(t) == step[t] = "dispatch" /\ step'[t] = "apply"
           Fenced == \A t \in Turn : Dispatches(t) => opened[t] \notin stopped \ stray
<1>1. Inv /\ [Next]_vars => [Fenced]_vars
  <2> SUFFICES ASSUME Inv, Next, NEW u \in Turn, Dispatches(u)
               PROVE  opened[u] \notin stopped \ stray
    BY Zenon
  <2>0. TypeOK /\ DispatchInv
    BY DEF Inv
  <2>1. ASSUME NEW ok \in BOOLEAN, Start(ok) PROVE FALSE
    BY <2>1 DEF Start, turns
  <2>2. CASE Send \/ Steer \/ Abort \/ Close \/ SendFails \/ SteerFails \/ AbortTurn
             \/ finishAbort \/ AbortFails
    BY <2>2 DEF Send, Steer, Abort, Close, SendFails, SteerFails, AbortTurn, finishAbort,
       AbortFails, turns
  <2>3. CASE ExpireRun
    BY <2>3 DEF ExpireRun
  <2>4. ASSUME NEW t \in Turn, SendPrompt(t) \/ SteerPrompt(t) PROVE FALSE
    BY <2>0, <2>4 DEF TypeOK, SendPrompt, SteerPrompt, OpenTurn
  <2>5. ASSUME NEW w \in TxResult,
               OnRunStarted(w) \/ OnRunStatus(w) \/ Restored(w) \/ finishPublishedEvent(w)
        PROVE  FALSE
    BY <2>5 DEF OnRunStarted, OnRunStatus, Restored, finishPublishedEvent, turns
  <2>6. ASSUME NEW r \in Run, Acknowledge(r) PROVE FALSE
    BY <2>6 DEF Acknowledge, turns
  <2>7. ASSUME NEW t \in Turn, NEW ok \in BOOLEAN, EndTurn(t, ok) PROVE FALSE
    BY <2>0, <2>7 DEF TypeOK, EndTurn
  <2>8. ASSUME NEW t \in Turn, Ask(t) \/ Approve(t) \/ Decline(t) \/ Admit(t) \/ Applied(t)
                               \/ LeaveTurn(t)
        PROVE  FALSE
    BY <2>0, <2>8 DEF TypeOK, Ask, Approve, Decline, Admit, Applied, LeaveTurn, Goto
  <2>9. ASSUME NEW t \in Turn, Dispatch(t) PROVE opened[u] \notin stopped \ stray
    <3>1. u = t /\ t \in approved
      BY <2>0, <2>9 DEF TypeOK, Dispatch, Goto
    <3> QED
      BY <2>0, <3>1 DEF DispatchInv
  <2> QED
    BY <2>1, <2>2, <2>3, <2>4, <2>5, <2>6, <2>7, <2>8, <2>9, Zenon DEF Next, Continue, Proceed
<1> QED
  BY <1>1, Invariance, PTL DEF Spec, AbortedRunsDispatchNothing
=============================================================================
