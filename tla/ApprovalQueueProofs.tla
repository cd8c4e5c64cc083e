------------------------- MODULE ApprovalQueueProofs -------------------------
(***************************************************************************)
(* Proofs about ApprovalQueue for every set of approvals, every timeout    *)
(* and every outcome of the hooks' transactions, with and without restarts *)
(* of Core.                                                                *)
(***************************************************************************)
EXTENDS ApprovalQueue, TLAPS

-----------------------------------------------------------------------------
(* The inductive invariant.                                                *)

\* An approval that Request has not published yet is unknown to the queue: it
\* is not pending, nobody finishes it and nobody was answered about it.
Unpublished(a) ==
    waiter[a] \in {"new", "recording", "recorded", "closing"} =>
        /\ a \notin pending /\ claim[a] = None

\* Its row is written by OnRequested, and by nobody else before Close.
RowFollows(a) ==
    /\ waiter[a] \in {"new", "recording"} => row[a] = "absent"
    /\ waiter[a] \in {"recorded", "closing"} => row[a] = "pending"

\* A finish holds its approval in the pending map until Drop.
Held(a) ==
    claim[a] # None => (a \in pending <=> claim[a].step \in {"record", "drop"})

\* A decision is durable before anybody acts on it: the finish that was told
\* so, the buffered result, the return of Request and the operator's answer.
Durable(a) ==
    /\ claim[a] # None /\ claim[a].ok =>
          /\ claim[a].step # "record"
          /\ row[a] = Terminal(claim[a].decision)
    /\ result[a] # None /\ result[a].ok => row[a] = Terminal(result[a].decision)
    /\ returned[a] \in Choice => row[a] = Terminal(returned[a])
    /\ \A d \in answered[a] : row[a] = Terminal(d)

\* The abort finishes one approval at a time, and as expired.
Sweeping(a) ==
    claim[a] # None /\ claim[a].by = "abort" <=> sweep # None /\ sweep.at = a

Expires(a) == claim[a] # None /\ claim[a].by = "abort" => claim[a].decision = "expired"

\* An approval that nothing can approve any more.
Closed(a) ==
    /\ waiter[a] # "new"
    /\ waiter[a] \in {"recording", "recorded"} => a \in invalidated
    /\ a \notin pending
    /\ row[a] # "approved"

\* What a clean abort listed is closed, but for what it has still to finish.
SweepInv ==
    sweep # None /\ sweep.clean =>
        \A a \in sweep.ids : a \in sweep.todo \/ a = sweep.at \/ Closed(a)

ApprovalInv(a) ==
    Unpublished(a) /\ RowFollows(a) /\ Held(a) /\ Durable(a) /\ Sweeping(a) /\ Expires(a)

Inv ==
    /\ TypeOK
    /\ \A a \in Approval : ApprovalInv(a)
    /\ SweepInv
    /\ \A a \in swept : Closed(a)

-----------------------------------------------------------------------------
(* Facts about the data.                                                   *)

\* The durable statuses of the decisions are apart from each other and from
\* the statuses of an undecided approval.
LEMMA TerminalValues ==
    /\ Terminal("approve") = "approved"
    /\ Terminal("reject") = "rejected"
    /\ Terminal("expired") = "expired"
BY DEF Terminal

LEMMA TerminalDecides ==
    /\ \A d \in Decision : Terminal(d) \in {"approved", "rejected", "expired"}
    /\ \A d, e \in Decision : Terminal(d) = Terminal(e) => d = e
    /\ \A d \in Decision : Terminal(d) = "approved" => d = "approve"
BY TerminalValues DEF Decision

\* What the assignments to fields of a claim and of the abort make of them.
LEMMA ClaimStep ==
    ASSUME NEW c \in Claim, NEW s
    PROVE  [c EXCEPT !.step = s]
             = [by |-> c.by, decision |-> c.decision, step |-> s, ok |-> c.ok]
BY DEF Claim

LEMMA ClaimStepOk ==
    ASSUME NEW c \in Claim, NEW s, NEW b
    PROVE  [c EXCEPT !.step = s, !.ok = b]
             = [by |-> c.by, decision |-> c.decision, step |-> s, ok |-> b]
<1> DEFINE e == [c EXCEPT !.step = s]
<1>1. e = [by |-> c.by, decision |-> c.decision, step |-> s, ok |-> c.ok]
  BY ClaimStep
<1>2. [c EXCEPT !.step = s, !.ok = b] = [e EXCEPT !.ok = b]
  BY Zenon
<1> HIDE DEF e
<1>3. [e EXCEPT !.ok = b]
        = [by |-> c.by, decision |-> c.decision, step |-> s, ok |-> b]
  BY <1>1
<1> QED BY <1>2, <1>3, Zenon

LEMMA SweepRecord ==
    ASSUME NEW i \in SUBSET Approval, NEW t \in SUBSET Approval,
           NEW x \in Approval \cup {None}, NEW b \in BOOLEAN
    PROVE  [ids |-> i, todo |-> t, at |-> x, clean |-> b] \in Sweep
BY DEF Sweep

LEMMA SweepTodo ==
    ASSUME NEW s \in Sweep, NEW t
    PROVE  [s EXCEPT !.todo = t]
             = [ids |-> s.ids, todo |-> t, at |-> s.at, clean |-> s.clean]
BY DEF Sweep

LEMMA SweepTodoAt ==
    ASSUME NEW s \in Sweep, NEW t, NEW x
    PROVE  [s EXCEPT !.todo = t, !.at = x]
             = [ids |-> s.ids, todo |-> t, at |-> x, clean |-> s.clean]
<1> DEFINE e == [s EXCEPT !.todo = t]
<1>1. e = [ids |-> s.ids, todo |-> t, at |-> s.at, clean |-> s.clean]
  BY SweepTodo
<1>2. [s EXCEPT !.todo = t, !.at = x] = [e EXCEPT !.at = x]
  BY Zenon
<1> HIDE DEF e
<1>3. [e EXCEPT !.at = x] = [ids |-> s.ids, todo |-> t, at |-> x, clean |-> s.clean]
  BY <1>1
<1> QED BY <1>2, <1>3, Zenon

LEMMA SweepTodoClean ==
    ASSUME NEW s \in Sweep, NEW t, NEW b
    PROVE  [s EXCEPT !.todo = t, !.clean = b]
             = [ids |-> s.ids, todo |-> t, at |-> s.at, clean |-> b]
<1> DEFINE e == [s EXCEPT !.todo = t]
<1>1. e = [ids |-> s.ids, todo |-> t, at |-> s.at, clean |-> s.clean]
  BY SweepTodo
<1>2. [s EXCEPT !.todo = t, !.clean = b] = [e EXCEPT !.clean = b]
  BY Zenon
<1> HIDE DEF e
<1>3. [e EXCEPT !.clean = b] = [ids |-> s.ids, todo |-> t, at |-> s.at, clean |-> b]
  BY <1>1
<1> QED BY <1>2, <1>3, Zenon

LEMMA SweepAtClean ==
    ASSUME NEW s \in Sweep, NEW x, NEW b
    PROVE  [s EXCEPT !.at = x, !.clean = b]
             = [ids |-> s.ids, todo |-> s.todo, at |-> x, clean |-> b]
<1> DEFINE e == [s EXCEPT !.at = x]
<1>1. e = [ids |-> s.ids, todo |-> s.todo, at |-> x, clean |-> s.clean]
  BY DEF Sweep
<1>2. [s EXCEPT !.at = x, !.clean = b] = [e EXCEPT !.clean = b]
  BY Zenon
<1> HIDE DEF e
<1>3. [e EXCEPT !.clean = b] = [ids |-> s.ids, todo |-> s.todo, at |-> x, clean |-> b]
  BY <1>1
<1> QED BY <1>2, <1>3, Zenon

-----------------------------------------------------------------------------
(* Type correctness.                                                       *)

\* A claim, where there is one, is a record of its type.
LEMMA ClaimType ==
    ASSUME TypeOK, NEW a \in Approval, claim[a] # None
    PROVE  claim[a] \in Claim
BY DEF TypeOK

\* Each step of a finish as one assignment to its claim, and each step of the
\* abort as one assignment to it.
LEMMA TakenClaim ==
    ASSUME TypeOK, NEW a \in Approval, NEW by \in {"operator", "request", "abort"},
           NEW d \in Decision, TakeClaim(a, by, d)
    PROVE  /\ claim' \in [Approval -> Claim \cup {None}]
           /\ claim'[a] # None
           /\ claim'[a].by = by /\ claim'[a].decision = d
           /\ claim'[a].step = "record" /\ ~claim'[a].ok
<1>1. [by |-> by, decision |-> d, step |-> "record", ok |-> FALSE] \in Claim
  BY DEF Claim
<1> QED BY <1>1, NoneAssumption DEF TypeOK, TakeClaim

LEMMA OnResolvedClaim ==
    ASSUME TypeOK, NEW a \in Approval, NEW w, OnResolved(a, w)
    PROVE  /\ claim[a] \in Claim /\ claim'[a] \in Claim
           /\ claim' = [claim EXCEPT ![a] =
                 [by |-> claim[a].by, decision |-> claim[a].decision, step |-> "drop",
                  ok |-> Recorded(a, w)]]
<1>1. claim[a] \in Claim
  BY ClaimType DEF OnResolved
<1>2. claim' = [claim EXCEPT ![a] = [claim[a] EXCEPT !.step = "drop", !.ok = Recorded(a, w)]]
  BY DEF OnResolved, TypeOK
<1> DEFINE c == [by |-> claim[a].by, decision |-> claim[a].decision, step |-> "drop",
                 ok |-> Recorded(a, w)]
<1>3. [claim[a] EXCEPT !.step = "drop", !.ok = Recorded(a, w)] = c
  BY <1>1, ClaimStepOk, Zenon
<1>4. claim' = [claim EXCEPT ![a] = c]
  BY <1>2, <1>3, Zenon
<1>5. c \in Claim
  BY <1>1 DEF Claim, Recorded
<1> HIDE DEF c
<1>6. claim'[a] = c
  BY <1>4 DEF TypeOK
<1>7. claim[a] \in Claim /\ claim'[a] \in Claim
  BY <1>1, <1>5, <1>6
<1> USE DEF c
<1> QED BY <1>4, <1>7, Zenon

LEMMA DropClaim ==
    ASSUME TypeOK, NEW a \in Approval, Drop(a)
    PROVE  /\ claim[a] \in Claim /\ claim'[a] \in Claim
           /\ claim' = [claim EXCEPT ![a] =
                 [by |-> claim[a].by, decision |-> claim[a].decision, step |-> "send",
                  ok |-> claim[a].ok]]
<1>1. claim[a] \in Claim
  BY ClaimType DEF Drop
<1>2. claim' = [claim EXCEPT ![a] = [claim[a] EXCEPT !.step = "send"]]
  BY Zenon DEF Drop
<1> DEFINE c == [by |-> claim[a].by, decision |-> claim[a].decision, step |-> "send",
                 ok |-> claim[a].ok]
<1>3. claim' = [claim EXCEPT ![a] = c]
  BY <1>1, <1>2, ClaimStep, Zenon
<1>4. c \in Claim
  BY <1>1 DEF Claim
<1> HIDE DEF c
<1>5. claim[a] \in Claim /\ claim'[a] \in Claim
  BY <1>1, <1>3, <1>4 DEF TypeOK
<1> USE DEF c
<1> QED BY <1>3, <1>5, Zenon

LEMMA SendSweep ==
    ASSUME TypeOK, NEW a \in Approval, Send(a), claim[a].by = "abort", Sweeping(a)
    PROVE  /\ sweep \in Sweep /\ sweep.at = a
           /\ sweep' = [ids |-> sweep.ids, todo |-> sweep.todo, at |-> None,
                         clean |-> sweep.clean /\ claim[a].ok]
<1>1. sweep \in Sweep /\ sweep.at = a
  BY DEF TypeOK, Sweeping, Send
<1>2. sweep' = [sweep EXCEPT !.at = None, !.clean = sweep.clean /\ claim[a].ok]
  BY DEF Send
<1> QED BY <1>1, <1>2, SweepAtClean, Zenon

LEMMA ExpireNextSweep ==
    ASSUME TypeOK, NEW a \in Approval, ExpireNext(a)
    PROVE  /\ sweep \in Sweep /\ sweep' \in Sweep
           /\ \/ /\ Claimable(a)
                 /\ sweep' = [ids |-> sweep.ids, todo |-> sweep.todo \ {a}, at |-> a,
                              clean |-> sweep.clean]
              \/ /\ ~Claimable(a)
                 /\ sweep' = [ids |-> sweep.ids, todo |-> sweep.todo \ {a}, at |-> sweep.at,
                              clean |-> FALSE]
<1>1. sweep \in Sweep
  BY DEF TypeOK, ExpireNext
<1>2. \/ /\ Claimable(a)
         /\ sweep' = [sweep EXCEPT !.todo = sweep.todo \ {a}, !.at = a]
      \/ /\ ~Claimable(a)
         /\ sweep' = [sweep EXCEPT !.todo = sweep.todo \ {a}, !.clean = FALSE]
  BY Zenon DEF ExpireNext
<1>3. \/ /\ Claimable(a)
         /\ sweep' = [ids |-> sweep.ids, todo |-> sweep.todo \ {a}, at |-> a,
                      clean |-> sweep.clean]
      \/ /\ ~Claimable(a)
         /\ sweep' = [ids |-> sweep.ids, todo |-> sweep.todo \ {a}, at |-> sweep.at,
                      clean |-> FALSE]
  BY <1>1, <1>2, SweepTodoAt, SweepTodoClean, Zenon
<1>4. /\ sweep.ids \in SUBSET Approval /\ sweep.todo \ {a} \in SUBSET Approval
      /\ sweep.at \in Approval \cup {None} /\ sweep.clean \in BOOLEAN
  BY <1>1 DEF Sweep
<1>5. a \in Approval \cup {None} /\ FALSE \in BOOLEAN
  OBVIOUS
<1>6. /\ [ids |-> sweep.ids, todo |-> sweep.todo \ {a}, at |-> a, clean |-> sweep.clean]
            \in Sweep
      /\ [ids |-> sweep.ids, todo |-> sweep.todo \ {a}, at |-> sweep.at, clean |-> FALSE]
            \in Sweep
  <2>1. [ids |-> sweep.ids, todo |-> sweep.todo \ {a}, at |-> a, clean |-> sweep.clean]
            \in Sweep
    BY <1>4, <1>5, SweepRecord, Zenon
  <2>2. [ids |-> sweep.ids, todo |-> sweep.todo \ {a}, at |-> sweep.at, clean |-> FALSE]
            \in Sweep
    BY <1>4, <1>5, SweepRecord, Zenon
  <2> QED BY <2>1, <2>2, Zenon
<1>7. sweep' \in Sweep
  BY <1>3, <1>6, Zenon
<1> QED BY <1>1, <1>3, <1>7, Zenon

\* Every variable keeps its type; that the abort is there when its finish ends
\* needs more than the types.
LEMMA TypeStep ==
    ASSUME TypeOK, \A a \in Approval : Sweeping(a), [Next]_vars
    PROVE  TypeOK'
<1> USE ApprovalAssumption
<1>1. ASSUME NEW a \in Approval, Request(a) PROVE TypeOK'
  BY <1>1 DEF TypeOK, Request, Stage, queue, history
<1>2. ASSUME NEW a \in Approval, NEW w \in WriteResult, OnRequested(a, w) PROVE TypeOK'
  BY <1>2 DEF TypeOK, OnRequested, Stage, Return, recordApprovalRequested, queue, history
<1>3. ASSUME NEW a \in Approval, Publish(a) PROVE TypeOK'
  BY <1>3 DEF TypeOK, Publish, Stage, history
<1>4. ASSUME NEW a \in Approval, NEW w \in WriteResult, Close(a, w) PROVE TypeOK'
  BY <1>4, TerminalValues DEF TypeOK, Close, Stage, Return, recordApprovalResolved,
     queue, history
<1>5. ASSUME NEW a \in Approval, Receive(a) PROVE TypeOK'
  <2>1. outcome(result[a]) \in Choice \cup {"none"}
    BY <1>5 DEF TypeOK, Receive, outcome, Choice, Decision
  <2> QED BY <1>5, <2>1 DEF TypeOK, Receive, Stage, Return, history
<1>7. ASSUME NEW a \in Approval, Cancelled(a) PROVE TypeOK'
  <2>1. claim' \in [Approval -> Claim \cup {None}]
    BY <1>7, TakenClaim DEF TypeOK, Cancelled, Decision
  <2> QED BY <1>7, <2>1 DEF TypeOK, Cancelled, Stage, Return, history
<1>8. ASSUME NEW a \in Approval, TimedOut(a) PROVE TypeOK'
  <2>1. claim' \in [Approval -> Claim \cup {None}]
    BY <1>8, TakenClaim DEF TypeOK, TimedOut, Decision
  <2> QED BY <1>8, <2>1 DEF TypeOK, TimedOut, Stage, history
<1>9. ASSUME NEW a \in Approval, NEW d \in Choice, Resolve(a, d) PROVE TypeOK'
  BY <1>9 DEF TypeOK, Resolve, Call, requests, queue, history
<1>10. ASSUME NEW call \in calls, ResolveClaim(call) PROVE TypeOK'
  <2>1. call.id \in Approval /\ inTime(call) \in Decision
    BY DEF TypeOK, Call, inTime, Choice, Decision
  <2>2. claim' \in [Approval -> Claim \cup {None}]
    BY <1>10, <2>1, TakenClaim DEF TypeOK, ResolveClaim
  <2> QED BY <1>10, <2>2 DEF TypeOK, ResolveClaim, requests, history
<1>11. ASSUME NEW a \in Approval, NEW w \in WriteResult, OnResolved(a, w) PROVE TypeOK'
  <2>1. claim[a] \in Claim /\ Recorded(a, w) \in BOOLEAN
    BY <1>11, OnResolvedClaim DEF Recorded
  <2>2. claim' \in [Approval -> Claim \cup {None}]
    BY <1>11, <2>1, OnResolvedClaim DEF TypeOK, Claim
  <2>3. claim[a].decision \in Decision
    BY <2>1 DEF Claim
  <2>4. Terminal(claim[a].decision) \in {"approved", "rejected", "expired"}
    BY <2>3, TerminalDecides
  <2>5. row' \in [Approval -> {"absent", "pending", "approved", "rejected", "expired"}]
    BY <1>11, <2>4 DEF TypeOK, OnResolved, recordApprovalResolved
  <2> QED BY <1>11, <2>2, <2>5 DEF TypeOK, OnResolved, requests, history
<1>12. ASSUME NEW a \in Approval, Drop(a) PROVE TypeOK'
  <2>2. claim' \in [Approval -> Claim \cup {None}]
    BY <1>12, DropClaim DEF TypeOK, Claim
  <2> QED BY <1>12, <2>2 DEF TypeOK, Drop, requests, history
<1>13. ASSUME NEW a \in Approval, Send(a) PROVE TypeOK'
  <2>1. claim[a] \in Claim
    BY <1>13, ClaimType DEF Send
  <2>2. result' \in [Approval -> [decision : Decision, ok : BOOLEAN] \cup {None}]
    BY <1>13, <2>1 DEF TypeOK, Send, Claim
  <2>3. claim' \in [Approval -> Claim \cup {None}]
    BY <1>13 DEF TypeOK, Send
  <2>4. CASE claim[a].by = "request"
    BY <1>13, <2>2, <2>3, <2>4 DEF TypeOK, Send, Return, Stage
  <2>5. CASE claim[a].by = "operator"
    <3>1. claim[a].decision # "expired" => claim[a].decision \in Choice
      BY <2>1 DEF Claim, Decision, Choice
    <3> QED BY <1>13, <2>2, <2>3, <2>5, <3>1 DEF TypeOK, Send
  <2>6. CASE claim[a].by = "abort"
    <3>1. sweep' \in Sweep
      BY <1>13, <2>1, <2>6, SendSweep DEF Sweep, Claim
    <3> QED BY <1>13, <2>2, <2>3, <2>6, <3>1 DEF TypeOK, Send
  <2> QED BY <2>1, <2>4, <2>5, <2>6 DEF Claim
<1>14. ASSUME ExpireRun PROVE TypeOK'
  BY <1>14 DEF TypeOK, ExpireRun, Sweep, recording, queue, history
<1>15. ASSUME NEW a \in Approval, ExpireNext(a) PROVE TypeOK'
  <2>1. claim' \in [Approval -> Claim \cup {None}]
    BY <1>15, TakenClaim DEF TypeOK, ExpireNext, Decision
  <2>2. sweep' \in Sweep
    BY <1>15, ExpireNextSweep
  <2> QED BY <1>15, <2>1, <2>2 DEF TypeOK, ExpireNext, requests, history
<1>16. ASSUME ExpireRunReturn PROVE TypeOK'
  BY <1>16 DEF TypeOK, ExpireRunReturn, Sweep, requests, queue
<1>17. ASSUME Tick PROVE TypeOK'
  BY <1>17 DEF TypeOK, Tick, Time, requests, queue, history
<1>18. ASSUME NEW a \in Approval, Cancel(a) PROVE TypeOK'
  BY <1>18 DEF TypeOK, Cancel, queue, history
<1>19. ASSUME Restart PROVE TypeOK'
  BY <1>19 DEF TypeOK, Restart, Stage, history
<1>20. ASSUME UNCHANGED vars PROVE TypeOK'
  BY <1>20 DEF TypeOK, vars, requests, queue, history
<1> QED BY <1>1, <1>2, <1>3, <1>4, <1>5, <1>7, <1>8, <1>9, <1>10, <1>11, <1>12, <1>13,
           <1>14, <1>15, <1>16, <1>17, <1>18, <1>19, <1>20 DEF Next, Progress

-----------------------------------------------------------------------------
(* The durable record.                                                     *)

\* A row is written twice at most: when it is requested, and when it leaves
\* "pending" for the status of a decision.
RowStep(a) ==
    \/ row'[a] = row[a]
    \/ row[a] = "absent" /\ row'[a] = "pending"
    \/ row[a] = "pending" /\ row'[a] \in {"approved", "rejected", "expired"}

LEMMA RowSteps ==
    ASSUME Inv, [Next]_vars, NEW b \in Approval
    PROVE  RowStep(b)
<1> USE DEF RowStep
<1>1. ASSUME UNCHANGED row PROVE RowStep(b)
  BY <1>1
<1>2. ASSUME NEW a \in Approval, NEW w, OnRequested(a, w) PROVE RowStep(b)
  BY <1>2 DEF OnRequested, recordApprovalRequested, Inv, ApprovalInv, RowFollows, TypeOK
<1>3. ASSUME NEW a \in Approval, NEW w, NEW d \in Decision, recordApprovalResolved(a, d, w)
      PROVE  RowStep(b)
  BY <1>3, TerminalDecides DEF recordApprovalResolved, Inv, TypeOK
<1>4. ASSUME NEW a \in Approval, NEW w, Close(a, w) PROVE RowStep(b)
  BY <1>3, <1>4 DEF Close, Decision
<1>5. ASSUME NEW a \in Approval, NEW w, OnResolved(a, w) PROVE RowStep(b)
  <2>1. claim[a].decision \in Decision
    BY <1>5, OnResolvedClaim DEF Claim, Inv
  <2> QED BY <1>3, <1>5, <2>1 DEF OnResolved
<1>6. ASSUME Restart PROVE RowStep(b)
  BY <1>6 DEF Restart, Inv, TypeOK
<1> QED BY <1>1, <1>2, <1>4, <1>5, <1>6 DEF Next, Progress, vars, Request, Publish, Receive,
        Cancelled, TimedOut, Drop, Send, Cancel, ExpireNext, Resolve, ResolveClaim, ExpireRun,
        ExpireRunReturn, Tick

\* What a row records about a decision it goes on recording.
LEMMA RecordedStays ==
    ASSUME Inv, [Next]_vars, NEW b \in Approval, NEW d \in Decision, row[b] = Terminal(d)
    PROVE  row'[b] = Terminal(d)
BY RowSteps, TerminalDecides DEF RowStep

-----------------------------------------------------------------------------
(* The invariant.                                                          *)

\* A step that leaves an approval and the abort's claim on it alone.
LEMMA Untouched ==
    ASSUME NEW b \in Approval, ApprovalInv(b), Sweeping(b)',
           waiter'[b] = waiter[b], b \in pending' <=> b \in pending,
           claim'[b] = claim[b], result'[b] = result[b], returned'[b] = returned[b],
           answered'[b] = answered[b], row'[b] = row[b]
    PROVE  ApprovalInv(b)'
BY DEF ApprovalInv, Unpublished, RowFollows, Held, Durable, Expires

LEMMA ApprovalStep ==
    ASSUME Inv, [Next]_vars, NEW b \in Approval
    PROVE  ApprovalInv(b)'
<1> USE ApprovalAssumption, NoneAssumption
<1> USE DEF ApprovalInv, Unpublished, RowFollows, Held, Durable, Sweeping, Expires
<1>0. TypeOK /\ ApprovalInv(b)
  BY DEF Inv
<1>1. ASSUME NEW a \in Approval, Request(a) PROVE ApprovalInv(b)'
  BY <1>0, <1>1 DEF TypeOK, Request, queue, history
<1>2. ASSUME NEW a \in Approval, NEW w \in WriteResult, OnRequested(a, w)
      PROVE  ApprovalInv(b)'
  BY <1>0, <1>2, TerminalDecides DEF TypeOK, OnRequested, Return, recordApprovalRequested,
     queue, history, Choice, Decision, Claim
<1>3. ASSUME NEW a \in Approval, Publish(a) PROVE ApprovalInv(b)'
  BY <1>0, <1>3 DEF TypeOK, Publish, history
<1>4. ASSUME NEW a \in Approval, NEW w \in WriteResult, Close(a, w) PROVE ApprovalInv(b)'
  BY <1>0, <1>4, TerminalDecides DEF TypeOK, Close, Return, recordApprovalResolved,
     queue, history, Choice, Decision, Claim
<1>5. ASSUME NEW a \in Approval, Receive(a) PROVE ApprovalInv(b)'
  <2>1. CASE b # a
    BY <1>0, <1>5, <2>1, Untouched DEF TypeOK, Receive, Return, history
  <2>2. CASE b = a
    <3>1. result[a].ok /\ outcome(result[a]) \in Choice
             => outcome(result[a]) = result[a].decision
      BY DEF outcome, Choice
    <3>2. outcome(result[a]) \in Choice => row[a] = Terminal(outcome(result[a]))
      BY <1>0, <1>5, <2>2, <3>1 DEF Receive, outcome, Choice
    <3> QED BY <1>0, <1>5, <2>2, <3>2 DEF TypeOK, Receive, Return, history
  <2> QED BY <2>1, <2>2
<1>7. ASSUME NEW a \in Approval, Cancelled(a) PROVE ApprovalInv(b)'
  <2>1. CASE Claimable(a)
    BY <1>0, <1>7, <2>1 DEF TypeOK, Cancelled, history, Claimable, TakeClaim
  <2>2. CASE ~Claimable(a)
    BY <1>0, <1>7, <2>2 DEF TypeOK, Cancelled, Return, history, Choice
  <2> QED BY <2>1, <2>2
<1>8. ASSUME NEW a \in Approval, TimedOut(a) PROVE ApprovalInv(b)'
  BY <1>0, <1>8 DEF TypeOK, TimedOut, history, Claimable, TakeClaim
<1>9. ASSUME NEW a \in Approval, NEW d \in Choice, Resolve(a, d) PROVE ApprovalInv(b)'
  BY <1>0, <1>9 DEF Resolve, requests, queue, history
<1>10. ASSUME NEW call \in calls, ResolveClaim(call) PROVE ApprovalInv(b)'
  BY <1>0, <1>10 DEF TypeOK, ResolveClaim, requests, history, Claimable, TakeClaim, Call
<1>11. ASSUME NEW a \in Approval, NEW w \in WriteResult, OnResolved(a, w)
       PROVE  ApprovalInv(b)'
  <2>1. CASE b # a
    <3>1. claim'[b] = claim[b] /\ row'[b] = row[b]
      BY <1>0, <1>11, <2>1, OnResolvedClaim DEF TypeOK, OnResolved, recordApprovalResolved
    <3> QED BY <1>0, <1>11, <3>1, Untouched DEF OnResolved, requests, history
  <2>2. CASE b = a
    <3>1. /\ claim'[a].by = claim[a].by /\ claim'[a].decision = claim[a].decision
          /\ claim'[a].step = "drop" /\ claim'[a].ok = Recorded(a, w)
          /\ claim[a].decision \in Decision /\ claim[a] # None /\ claim'[a] # None
      BY <1>0, <1>11, OnResolvedClaim DEF TypeOK, Claim
    <3>2. Unpublished(b)' /\ RowFollows(b)' /\ Held(b)'
      BY <1>0, <1>11, <2>2, <3>1 DEF OnResolved, requests
    <3>3. Recorded(a, w) => row'[a] = Terminal(claim[a].decision)
      BY <1>0, <1>11 DEF TypeOK, OnResolved, Recorded, recordApprovalResolved
    <3>4. Durable(b)'
      <4>1. /\ result'[a] # None /\ result'[a].ok => row'[a] = Terminal(result'[a].decision)
            /\ returned'[a] \in Choice => row'[a] = Terminal(returned'[a])
            /\ \A d \in answered'[a] : row'[a] = Terminal(d)
        BY <1>0, <1>11, <2>2, RecordedStays DEF TypeOK, OnResolved, requests, history,
           Choice, Decision
      <4> QED BY <2>2, <3>1, <3>3, <4>1
    <3>5. Sweeping(b)' /\ Expires(b)'
      BY <1>0, <1>11, <2>2, <3>1 DEF OnResolved
    <3> QED BY <3>2, <3>4, <3>5
  <2> QED BY <2>1, <2>2
<1>12. ASSUME NEW a \in Approval, Drop(a) PROVE ApprovalInv(b)'
  <2>1. CASE b # a
    BY <1>0, <1>12, <2>1, Untouched, DropClaim DEF TypeOK, Drop, requests, history
  <2>2. CASE b = a
    <3>1. /\ claim'[a].by = claim[a].by /\ claim'[a].decision = claim[a].decision
          /\ claim'[a].step = "send" /\ claim'[a].ok = claim[a].ok
          /\ claim[a] # None /\ claim'[a] # None
      BY <1>0, <1>12, DropClaim DEF TypeOK
    <3> QED BY <1>0, <1>12, <2>2, <3>1 DEF TypeOK, Drop, requests, history
  <2> QED BY <2>1, <2>2
<1>13. ASSUME NEW a \in Approval, Send(a) PROVE ApprovalInv(b)'
  <2>1. claim[a] \in Claim
    BY <1>0, <1>13, ClaimType DEF Send
  <2>2. Sweeping(b)'
    <3>1. CASE claim[a].by = "abort"
      <4>1. sweep.at = a /\ sweep'.at = None
        BY <1>13, <3>1, SendSweep DEF Inv
      <4> QED BY <1>0, <1>13, <4>1 DEF TypeOK, Send
    <3>2. CASE claim[a].by # "abort"
      BY <1>0, <1>13, <3>2 DEF Inv, TypeOK, Send
    <3> QED BY <3>1, <3>2
  <2>3. CASE b # a
    BY <1>0, <1>13, <2>2, <2>3, Untouched DEF TypeOK, Send, Return
  <2>4. CASE b = a
    <3>1. Unpublished(b)' /\ RowFollows(b)' /\ Held(b)' /\ Expires(b)'
      BY <1>0, <1>13, <2>4 DEF TypeOK, Send, Return
    <3>2. result'[a].decision = claim[a].decision /\ result'[a].ok = claim[a].ok
      BY <1>0, <1>13 DEF TypeOK, Send
    <3>3. returned'[a] \in Choice => row'[a] = Terminal(returned'[a])
      BY <1>0, <1>13, <2>4 DEF TypeOK, Send, Return, Choice
    <3>4. ASSUME NEW d \in answered'[a] PROVE row'[a] = Terminal(d)
      BY <1>0, <1>13, <2>4, <3>4 DEF TypeOK, Send
    <3>5. Durable(b)'
      BY <1>0, <1>13, <2>4, <3>2, <3>3, <3>4 DEF TypeOK, Send
    <3> QED BY <2>2, <3>1, <3>5
  <2> QED BY <2>3, <2>4
<1>14. ASSUME ExpireRun PROVE ApprovalInv(b)'
  BY <1>0, <1>14 DEF TypeOK, ExpireRun, Sweep, queue, history
<1>15. ASSUME NEW a \in Approval, ExpireNext(a) PROVE ApprovalInv(b)'
  <2>1. CASE Claimable(a)
    <3>1. sweep' # None /\ sweep'.at = a /\ sweep.at = None
      BY <1>0, <1>15, <2>1, ExpireNextSweep DEF ExpireNext
    <3>2. CASE b # a
      <4>1. Sweeping(b)'
        BY <1>0, <1>15, <2>1, <3>1, <3>2 DEF TypeOK, ExpireNext, TakeClaim
      <4> QED BY <1>0, <1>15, <2>1, <3>2, <4>1, Untouched DEF TypeOK, ExpireNext, requests,
                 history, TakeClaim
    <3>3. CASE b = a
      <4>1. /\ claim'[a].by = "abort" /\ claim'[a].decision = "expired"
            /\ claim'[a].step = "record" /\ ~claim'[a].ok
            /\ claim'[a] # None
        BY <1>0, <1>15, <2>1, TakenClaim DEF ExpireNext, Decision
      <4> QED BY <1>0, <1>15, <2>1, <3>1, <3>3, <4>1 DEF ExpireNext, requests, history, Claimable
    <3> QED BY <3>2, <3>3
  <2>2. CASE ~Claimable(a)
    <3>1. sweep' # None /\ sweep'.at = sweep.at /\ sweep # None /\ claim' = claim
      BY <1>0, <1>15, <2>2, ExpireNextSweep DEF ExpireNext
    <3> QED BY <1>0, <1>15, <3>1, Untouched DEF ExpireNext, requests, history
  <2> QED BY <2>1, <2>2
<1>16. ASSUME ExpireRunReturn PROVE ApprovalInv(b)'
  BY <1>0, <1>16 DEF TypeOK, ExpireRunReturn, Sweep, requests, queue
<1>17. ASSUME Tick PROVE ApprovalInv(b)'
  BY <1>0, <1>17 DEF Tick, requests, queue, history
<1>18. ASSUME NEW a \in Approval, Cancel(a) PROVE ApprovalInv(b)'
  BY <1>0, <1>18 DEF Cancel, queue, history
<1>19. ASSUME Restart PROVE ApprovalInv(b)'
  <2>1. /\ Unpublished(b)' /\ RowFollows(b)' /\ Held(b)' /\ Sweeping(b)' /\ Expires(b)'
        /\ claim'[b] = None /\ result'[b] = None
    BY <1>0, <1>19 DEF TypeOK, Restart
  <2>2. /\ returned'[b] \in Choice => row'[b] = Terminal(returned'[b])
        /\ \A d \in answered'[b] : row'[b] = Terminal(d)
    BY <1>0, <1>19, RecordedStays DEF TypeOK, Restart, history, Choice, Decision
  <2> QED BY <2>1, <2>2
<1>20. ASSUME UNCHANGED vars PROVE ApprovalInv(b)'
  BY <1>0, <1>20 DEF vars, requests, queue, history
<1> QED BY <1>1, <1>2, <1>3, <1>4, <1>5, <1>7, <1>8, <1>9, <1>10, <1>11, <1>12, <1>13,
           <1>14, <1>15, <1>16, <1>17, <1>18, <1>19, <1>20 DEF Next, Progress

\* An approval that is closed stays closed: no later request, operator, timer,
\* abort or restart makes it pending or approves it.
LEMMA ClosedStays ==
    ASSUME Inv, [Next]_vars, NEW b \in Approval, Closed(b)
    PROVE  Closed(b)'
<1> USE DEF Closed
<1>0. TypeOK /\ ApprovalInv(b)
  BY DEF Inv
<1>1. CASE UNCHANGED <<waiter, pending, row>> /\ invalidated \subseteq invalidated'
  BY <1>1
<1>2. ASSUME NEW a \in Approval, Request(a) PROVE Closed(b)'
  BY <1>0, <1>2 DEF TypeOK, Request, queue
<1>3. ASSUME NEW a \in Approval, NEW w \in WriteResult, OnRequested(a, w) PROVE Closed(b)'
  BY <1>0, <1>3 DEF TypeOK, OnRequested, Return, recordApprovalRequested, queue
<1>4. ASSUME NEW a \in Approval, Publish(a) PROVE Closed(b)'
  BY <1>0, <1>4 DEF TypeOK, Publish
<1>5. ASSUME NEW a \in Approval, NEW w \in WriteResult, Close(a, w) PROVE Closed(b)'
  BY <1>0, <1>5, TerminalValues DEF TypeOK, Close, Return, recordApprovalResolved, queue
<1>6. ASSUME NEW a \in Approval, Receive(a) \/ Cancelled(a) \/ TimedOut(a) PROVE Closed(b)'
  BY <1>0, <1>6 DEF TypeOK, Receive, Cancelled, TimedOut, Return
<1>7. ASSUME NEW a \in Approval, NEW w \in WriteResult, OnResolved(a, w) PROVE Closed(b)'
  <2>1. a # b
    BY <1>0, <1>7 DEF OnResolved, ApprovalInv, Held
  <2> QED BY <1>0, <1>7, <2>1 DEF TypeOK, OnResolved, recordApprovalResolved, requests
<1>8. ASSUME NEW a \in Approval, Drop(a) PROVE Closed(b)'
  BY <1>8 DEF Drop, requests
<1>9. ASSUME NEW a \in Approval, Send(a) PROVE Closed(b)'
  BY <1>0, <1>9 DEF TypeOK, Send, Return
<1>10. ASSUME Restart PROVE Closed(b)'
  BY <1>0, <1>10 DEF TypeOK, Restart
<1> QED BY <1>1, <1>2, <1>3, <1>4, <1>5, <1>6, <1>7, <1>8, <1>9, <1>10
        DEF Next, Progress, vars, requests, queue, Cancel, ExpireNext, Resolve, ResolveClaim,
            ExpireRun, ExpireRunReturn, Tick

\* A clean abort has closed what it is done with.
LEMMA SweepStep ==
    ASSUME Inv, [Next]_vars
    PROVE  SweepInv'
<1> USE DEF SweepInv
<1>0. TypeOK /\ SweepInv
  BY DEF Inv
<1>1. CASE UNCHANGED sweep
  <2> SUFFICES ASSUME sweep # None, sweep.clean, NEW b \in sweep.ids
               PROVE  b \in sweep.todo \/ b = sweep.at \/ Closed(b)'
    BY <1>1
  <2>1. b \in Approval
    BY <1>0 DEF TypeOK, Sweep
  <2> QED BY <1>0, <2>1, ClosedStays
<1>2. ASSUME ExpireRun PROVE SweepInv'
  <2> SUFFICES ASSUME NEW b \in recording PROVE Closed(b)'
    BY <1>2 DEF ExpireRun
  <2>1. b \in Approval /\ waiter[b] \in {"recording", "recorded"}
    BY DEF recording
  <2>2. b \notin pending /\ row[b] # "approved"
    BY <2>1 DEF Inv, ApprovalInv, Unpublished, RowFollows
  <2> QED BY <1>2, <2>1, <2>2 DEF ExpireRun, Closed, queue
<1>3. ASSUME NEW a \in Approval, ExpireNext(a) PROVE SweepInv'
  <2>1. sweep \in Sweep
    BY <1>0, <1>3, ExpireNextSweep
  <2>2. CASE Claimable(a)
    <3>1. /\ sweep # None /\ sweep.at = None /\ sweep'.ids = sweep.ids
          /\ sweep'.todo = sweep.todo \ {a} /\ sweep'.at = a /\ sweep'.clean = sweep.clean
      BY <1>3, <1>0, <2>2, ExpireNextSweep DEF ExpireNext
    <3> SUFFICES ASSUME sweep'.clean, NEW b \in sweep'.ids
                 PROVE  b \in sweep'.todo \/ b = sweep'.at \/ Closed(b)'
      OBVIOUS
    <3>2. b \in Approval
      BY <2>1, <3>1 DEF Sweep
    <3>3. b \in sweep.todo \/ b = sweep.at \/ Closed(b)
      BY <1>0, <3>1
    <3> QED BY <3>1, <3>2, <3>3, ClosedStays, ApprovalAssumption
  <2>3. CASE ~Claimable(a)
    BY <1>3, <1>0, <2>3, ExpireNextSweep
  <2> QED BY <2>2, <2>3
<1>4. ASSUME NEW a \in Approval, Send(a) PROVE SweepInv'
  <2>1. CASE claim[a].by = "abort"
    <3>1. /\ sweep \in Sweep /\ sweep.at = a /\ sweep'.ids = sweep.ids
          /\ sweep'.todo = sweep.todo /\ sweep'.clean = (sweep.clean /\ claim[a].ok)
      BY <1>4, <2>1, SendSweep DEF Inv, ApprovalInv
    <3> SUFFICES ASSUME sweep'.clean, NEW b \in sweep'.ids
                 PROVE  b \in sweep'.todo \/ Closed(b)'
      OBVIOUS
    <3>2. b \in Approval /\ sweep # None
      BY <3>1, NoneAssumption DEF Sweep
    <3>3. b \in sweep.todo \/ b = a \/ Closed(b)
      BY <1>0, <3>1, <3>2
    <3>4. Closed(a)
      <4>1. claim[a] # None /\ claim[a].step = "send" /\ claim[a].ok
        BY <1>4, <3>1 DEF Send
      <4>2. a \notin pending
        BY <4>1 DEF Inv, ApprovalInv, Held
      <4>3. row[a] = "expired"
        BY <2>1, <4>1, TerminalValues DEF Inv, ApprovalInv, Durable, Expires
      <4>4. waiter[a] \notin {"new", "recording", "recorded"}
        BY <4>1 DEF Inv, ApprovalInv, Unpublished
      <4> QED BY <4>2, <4>3, <4>4 DEF Closed
    <3> QED BY <3>1, <3>2, <3>3, <3>4, ClosedStays
  <2>2. CASE claim[a].by # "abort"
    BY <1>1, <1>4, <2>2 DEF Send
  <2> QED BY <2>1, <2>2
<1>5. ASSUME ExpireRunReturn \/ Restart PROVE SweepInv'
  BY <1>5 DEF ExpireRunReturn, Restart
<1> QED BY <1>1, <1>2, <1>3, <1>4, <1>5
        DEF Next, Progress, vars, Request, OnRequested, Publish, Close, Receive, Cancelled,
            TimedOut, OnResolved, Drop, Cancel, Resolve, ResolveClaim, Tick

LEMMA SweptStep ==
    ASSUME Inv, [Next]_vars
    PROVE  \A b \in swept' : Closed(b)'
<1>0. TypeOK /\ SweepInv /\ \A b \in swept : Closed(b)
  BY DEF Inv
<1>1. CASE swept' = swept
  BY <1>0, <1>1, ClosedStays DEF TypeOK
<1>2. CASE ExpireRunReturn
  <2>1. ASSUME sweep.clean, NEW b \in sweep.ids PROVE b \in Approval /\ Closed(b)
    BY <1>0, <1>2, <2>1, ApprovalAssumption DEF ExpireRunReturn, SweepInv, TypeOK, Sweep
  <2> QED BY <1>0, <1>2, <2>1, ClosedStays DEF ExpireRunReturn, TypeOK
<1> QED BY <1>1, <1>2 DEF Next, Progress, vars, history, Request, OnRequested, Publish, Close,
        Receive, Cancelled, TimedOut, OnResolved, Drop, Send, Cancel, Resolve, ResolveClaim,
        ExpireRun, ExpireNext, Tick, Restart

LEMMA InitInv == Init => Inv
<1> SUFFICES ASSUME Init PROVE Inv
  OBVIOUS
<1>1. TypeOK
  BY ApprovalAssumption DEF Init, TypeOK, Time, Stage
<1>2. ASSUME NEW a \in Approval PROVE ApprovalInv(a)
  BY DEF Init, ApprovalInv, Unpublished, RowFollows, Held, Durable, Sweeping, Expires, Choice
<1> QED BY <1>1, <1>2 DEF Init, Inv, SweepInv

\* The inductive invariant of the queue.
THEOREM Invariance == Spec => []Inv
<1>1. Inv /\ [Next]_vars => Inv'
  <2> SUFFICES ASSUME Inv, [Next]_vars PROVE Inv'
    OBVIOUS
  <2>1. TypeOK'
    BY TypeStep DEF Inv, ApprovalInv
  <2> QED BY <2>1, ApprovalStep, SweepStep, SweptStep DEF Inv
<1> QED BY <1>1, InitInv, PTL DEF Spec

-----------------------------------------------------------------------------
(* What the queue promises.                                                *)

\* The queue fails closed: a decision that Request returned is the durable one.
THEOREM ReturnsRecorded == Spec => []ReturnsAreRecorded
<1>1. Inv => ReturnsAreRecorded
  BY DEF Inv, ReturnsAreRecorded, ApprovalInv, Durable
<1> QED BY <1>1, Invariance, PTL

\* First answer wins, whatever the operators, the timer and the abort race for.
THEOREM FirstAnswer == Spec => []FirstAnswerWins
<1>1. ASSUME Inv PROVE FirstAnswerWins
  <2> SUFFICES ASSUME NEW a \in Approval, NEW d \in answered[a]
               PROVE  /\ answered[a] = {d}
                      /\ row[a] = Terminal(d)
                      /\ returned[a] \in {d, "none"}
    BY DEF FirstAnswerWins
  <2>1. /\ answered[a] \subseteq Choice /\ Choice \subseteq Decision
        /\ returned[a] = "none" \/ returned[a] \in Choice
    BY <1>1 DEF Inv, TypeOK, Choice, Decision
  <2>2. /\ \A e \in answered[a] : row[a] = Terminal(e)
        /\ returned[a] \in Choice => row[a] = Terminal(returned[a])
    BY <1>1 DEF Inv, ApprovalInv, Durable
  <2> QED BY <2>1, <2>2, TerminalDecides
<1> QED BY <1>1, Invariance, PTL

\* An abort that reported success left nothing of its run approved or
\* actionable, then and ever after.
THEOREM SweptClosed == Spec => []SweptRunsAreClosed
<1>1. ASSUME Inv PROVE SweptRunsAreClosed
  <2> SUFFICES ASSUME NEW a \in swept
               PROVE  returned[a] # "approve" /\ row[a] # "approved" /\ a \notin pending
    BY DEF SweptRunsAreClosed
  <2>1. a \in Approval /\ Closed(a)
    BY <1>1 DEF Inv, TypeOK
  <2>2. returned[a] \in Choice => row[a] = Terminal(returned[a])
    BY <1>1, <2>1 DEF Inv, ApprovalInv, Durable
  <2> QED BY <2>1, <2>2, TerminalValues DEF Closed, Choice
<1> QED BY <1>1, Invariance, PTL

\* The durable record of an approval is resolved once.
THEOREM RowsResolvedOnce == Spec => ResolvedOnce
<1>1. ASSUME Inv, [Next]_vars
      PROVE  [\A a \in Approval :
                 row'[a] # row[a] => \/ row[a] = "absent" /\ row'[a] = "pending"
                                     \/ row[a] = "pending"]_vars
  BY <1>1, RowSteps DEF RowStep
<1> QED BY <1>1, Invariance, PTL DEF Spec, ResolvedOnce
=============================================================================
