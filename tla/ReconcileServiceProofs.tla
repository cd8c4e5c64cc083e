----------------------- MODULE ReconcileServiceProofs -----------------------
(***************************************************************************)
(* Proofs about ReconcileService, for every set of nodes, calls, intents   *)
(* and reports of Warden: the records never call a node inactive that runs *)
(* the app, a call that returns without an error has its evidence, and a   *)
(* rollout that had the fleet for itself converges.                        *)
(*                                                                         *)
(* None of it is inductive.  CallInv ties the row of a node to where the   *)
(* call is; RequestInv says what the call can still learn about a request  *)
(* under way; LiveInv names, for a node that runs the app, the request     *)
(* that answers for it: the newest the node has carried out, whose row     *)
(* will never read as a successful stop or a dry run.                      *)
(***************************************************************************)
EXTENDS ReconcileService, FiniteSetTheorems, WellFoundedInduction, TLAPS

-----------------------------------------------------------------------------
(* The inductive invariant.                                                *)

Runs(c) == plan[c].start \cup plan[c].stop

\* The evidence of a node: a closed row of a request that was carried out.
Evident(c, n) == rows[c][n] \in {"succeeded", "dry_run"} /\ <<c, n>> \in done

CallInv(c) ==
    /\ at[c] <= now
    /\ pc[c] \in {"new", "read", "stamp"} => at[c] = 0
    /\ pc[c] \in {"persist", "call", "wait", "finish"} => at[c] > 0
    /\ pc[c] \in {"new", "read", "stamp", "persist"} =>
          /\ todo[c] = {}
          /\ \A n \in Node : rows[c][n] = "none" /\ <<c, n>> \notin sent
    /\ pc[c] \in {"call", "wait", "finish"} =>
          todo[c] # {} /\ \A n \in todo[c] : rows[c][n] = "running"
    /\ pc[c] = "done" => todo[c] = {}
    /\ pc[c] = "finish" =>
          /\ reply[c] \in {"ok", "dry", "error"}
          /\ reply[c] # "error" => <<c, Current(c)>> \in done
          /\ reply[c] = "ok" => at[c] <= newest[Current(c)]
    /\ pc[c] \in {"call", "wait", "finish", "done"} /\ clean[c] =>
          \A n \in Runs(c) \ todo[c] : Evident(c, n)
    /\ \A n \in Node : rows[c][n] # "none" => at[c] > 0
    /\ \A n \in Node : rows[c][n] = "succeeded" => at[c] <= newest[n]

\* A request under way: its call waits for it, or has given it up.
RequestInv(c, n) ==
    <<c, n>> \in sent =>
      /\ rows[c][n] \in {"running", "failed"}
      /\ n \in todo[c] => /\ Current(c) = n
                          /\ pc[c] = "wait" \/ (pc[c] = "finish" /\ reply[c] = "error")

\* The request of call c has reached node n, and the row will not say that it
\* was a dry run or a successful stop.
Answers(c, n) ==
    /\ rows[c][n] \in {"running", "succeeded", "failed"}
    /\ n \notin plan[c].start => rows[c][n] # "succeeded"
    /\ <<c, n>> \notin sent
    /\ n \in todo[c] =>
          /\ Current(c) = n
          /\ \/ pc[c] = "wait"
             \/ /\ pc[c] = "finish" /\ reply[c] # "dry"
                /\ n \notin plan[c].start => reply[c] # "ok"

LiveInv(n) ==
    n \in live /\ n \notin overtaken => \E c \in Call : at[c] = newest[n] /\ Answers(c, n)

StampsDiffer == \A c, d \in Call : c # d /\ at[c] = at[d] => at[c] = 0

Inv ==
    /\ TypeOK
    /\ StampsDiffer
    /\ \A c \in Call : CallInv(c)
    /\ \A c \in Call, n \in Node : RequestInv(c, n)
    /\ \A n \in Node : LiveInv(n)

\* A node that a rollout leaves out: nothing runs there, unless in spite of a
\* newer request, and the records say so.
LeftOut(n) == (n \in live => n \in overtaken) /\ ~PossiblyActive(n)

\* A call that has the fleet for itself: nobody else is at work, and what it
\* has finished is as it wants it.
SoleInv(c) ==
    /\ \A d \in Call \ {c} : ~InProgress(d) /\ \A n \in Node : <<d, n>> \notin sent
    /\ pc[c] \in {"persist", "call", "wait", "finish"} =>
          /\ \A d \in Call \ {c} : at[d] < at[c]
          /\ \A n \in Node \ Runs(c) : LeftOut(n) /\ rows[c][n] = "none"
    /\ pc[c] = "stamp" => \A n \in Node \ active[c] : LeftOut(n)
    /\ pc[c] \in {"call", "wait", "finish"} /\ clean[c] =>
          \A n \in Runs(c) \ todo[c] :
              rows[c][n] = "succeeded" => (n \in live <=> n \in plan[c].start)
    /\ pc[c] = "finish" /\ reply[c] = "ok" =>
          (Current(c) \in live <=> Current(c) \in plan[c].start)

Sole == \A c \in alone : alone = {c} /\ (InProgress(c) => SoleInv(c))

-----------------------------------------------------------------------------
(* Helpers.                                                                *)

Snapshot == [leader : Node \cup {None}, term : Nat, authoritative : BOOLEAN,
             quorum : BOOLEAN, known : SUBSET Node, alive : SUBSET Node]

\* The naturals are well-founded.
LEMMA NatMin ==
    ASSUME NEW S \in SUBSET Nat, S # {}
    PROVE  \E m \in S : \A x \in S : m <= x
<1>1. IsWellFoundedOn(OpToRel(<, Nat), Nat)
  BY NatLessThanWellFounded
<1>2. \E m \in S : \A x \in S : ~(<<x, m>> \in OpToRel(<, Nat))
  BY <1>1, WFMin
<1>3. \A x, y \in S : ~(<<x, y>> \in OpToRel(<, Nat)) => y <= x
  BY DEF OpToRel
<1> QED
  BY <1>2, <1>3

\* The constants, without the Boolean one.
LEMMA Constants ==
    /\ Node \subseteq Nat /\ None \notin Node
    /\ Intents \subseteq Intent /\ Views \subseteq View
    /\ TxResult \subseteq TxResults /\ Switching \subseteq Node
  BY ReconcileAssumption, Zenon

LEMMA LeastIsIn ==
    ASSUME NEW S \in SUBSET Node, S # {}
    PROVE  Min(S) \in S
<1>1. S \in SUBSET Nat
  BY Constants
<1>2. PICK m \in S : \A x \in S : m <= x
  BY <1>1, NatMin
<1> QED
  BY <1>2 DEF Min

\* The node a call is at is one it has not finished.
LEMMA CurrentIsTodo ==
    ASSUME TypeOK, NEW c \in Call, todo[c] # {}
    PROVE  Current(c) \in todo[c] /\ Current(c) \in Node
<1>1. todo[c] \in SUBSET Node /\ todo[c] \cap plan[c].start \in SUBSET Node
  BY DEF TypeOK
<1>2. Min(todo[c]) \in todo[c]
  BY <1>1, LeastIsIn
<1>3. todo[c] \cap plan[c].start # {} => Min(todo[c] \cap plan[c].start) \in todo[c] \cap plan[c].start
  BY <1>1, LeastIsIn
<1> QED
  BY <1>1, <1>2, <1>3 DEF Current

\* Of the runs on a node one was asked for last.
LEMMA LatestExists ==
    ASSUME NEW n \in Node, TypeOK, \A c \in Call : at[c] <= now, Attempts(n) # {}
    PROVE  \E c \in Attempts(n) : Latest(n, c)
<1> DEFINE D == {now - at[c] : c \in Attempts(n)}
<1>1. \A c \in Attempts(n) : c \in Call /\ now - at[c] \in Nat /\ at[c] \in Nat /\ now \in Nat
  BY DEF TypeOK, Attempts
<1>2. D \in SUBSET Nat /\ D # {}
  BY <1>1
<1>3. PICK m \in D : \A d \in D : m <= d
  BY <1>2, NatMin
<1>4. PICK c \in Attempts(n) : m = now - at[c]
  BY <1>3
<1>5. \A d \in Attempts(n) : now - at[c] <= now - at[d]
  BY <1>3, <1>4
<1> HIDE DEF D
<1>6. \A d \in Attempts(n) : at[d] <= at[c]
  BY <1>1, <1>5
<1> QED
  BY <1>6 DEF Latest

-----------------------------------------------------------------------------
(* Effects of the steps.                                                   *)

\* A call returns, the others go on.
LEMMA ReturnOne ==
    ASSUME TypeOK, NEW c \in Call, Return({c})
    PROVE  /\ pc'[c] = "done" /\ todo'[c] = {} /\ reply'[c] = "none"
           /\ \A d \in Call \ {c} : pc'[d] = pc[d] /\ todo'[d] = todo[d] /\ reply'[d] = reply[d]
  BY DEF Return

LEMMA ReturnTypes ==
    ASSUME TypeOK, NEW C \in SUBSET Call, Return(C)
    PROVE  /\ pc' \in [Call -> {"new", "read", "stamp", "persist", "call", "wait", "finish",
                                "done"}]
           /\ intent' \in [Call -> Intents \cup {None}]
           /\ snap' \in [Call -> Snapshot]
           /\ active' \in [Call -> SUBSET Node] /\ todo' \in [Call -> SUBSET Node]
           /\ reply' \in [Call -> Reply]
<1>1. NoSnapshot \in Snapshot
  BY DEF NoSnapshot, Snapshot
<1>2. snap' \in [Call -> Snapshot]
  BY <1>1, Zenon DEF TypeOK, Return, Snapshot
<1>3. intent' \in [Call -> Intents \cup {None}]
  BY Zenon DEF TypeOK, Return
<1> QED
  BY <1>2, <1>3 DEF TypeOK, Return, Reply

\* What is planned stays within the nodes.
LEMMA PlanTypes ==
    ASSUME TypeOK, NEW c \in Call
    PROVE  planDeploymentRuns(snap[c].term, active[c], ResolvePlacement(intent[c], snap[c]))
             \in [term : Nat, start : SUBSET Node, stop : SUBSET Node]
<1>1. snap[c].term \in Nat /\ snap[c].alive \in SUBSET Node /\ active[c] \in SUBSET Node
  BY DEF TypeOK
<1>2. ResolvePlacement(intent[c], snap[c]) \subseteq snap[c].alive
  BY DEF ResolvePlacement, First, Matches
<1> QED
  BY <1>1, <1>2 DEF planDeploymentRuns

LEMMA NormalizeTypes ==
    ASSUME NEW v \in View
    PROVE  normalize(v) \in Snapshot
<1>0. IsFiniteSet(v.voters) /\ IsFiniteSet(v.voters \cap v.alive)
  <2>1. v.voters \in SUBSET Node
    BY DEF View
  <2> QED
    BY <2>1, ReconcileAssumption, FS_Subset
<1>1. (Cardinality(v.voters \cap v.alive) >= Cardinality(v.voters) \div 2 + 1) \in BOOLEAN
  <2>1. Cardinality(v.voters) \in Nat /\ Cardinality(v.voters \cap v.alive) \in Nat
    BY <1>0, FS_CardinalityType
  <2> QED
    BY <2>1
<1>2. v.leader \in Node \cup {None} /\ v.term \in Nat /\ v.authoritative \in BOOLEAN
      /\ v.known \in SUBSET Node /\ v.alive \in SUBSET Node
  BY Zenon DEF View
<1> QED
  BY <1>1, <1>2, Zenon DEF normalize, Snapshot

LEMMA WithdrawTypes ==
    ASSUME NEW v \in Snapshot
    PROVE  [v EXCEPT !.authoritative = FALSE, !.quorum = FALSE] \in Snapshot
  BY DEF Snapshot

\* The agent's answer moves nobody but the caller, and only one that waits.
LEMMA AnswerEffect ==
    ASSUME TypeOK, NEW c \in Call, NEW n \in Node, NEW r \in {"ok", "dry", "error"}, Answer(c, n, r)
    PROVE  /\ <<c, n>> \in sent /\ sent' = sent \ {<<c, n>>}
           /\ pc' \in [Call -> {"new", "read", "stamp", "persist", "call", "wait", "finish",
                                "done"}]
           /\ reply' \in [Call -> Reply]
           /\ \A d \in Call \ {c} : pc'[d] = pc[d] /\ reply'[d] = reply[d]
           /\ \/ pc'[c] = pc[c] /\ reply'[c] = reply[c]
              \/ pc[c] = "wait" /\ Current(c) = n /\ pc'[c] = "finish" /\ reply'[c] = r
<1>1. /\ pc \in [Call -> {"new", "read", "stamp", "persist", "call", "wait", "finish", "done"}]
      /\ reply \in [Call -> Reply] /\ r \in Reply
  BY DEF TypeOK, Reply
<1>2. CASE UNCHANGED <<pc, reply>>
  BY <1>1, <1>2 DEF Answer
<1>3. CASE /\ pc[c] = "wait" /\ Current(c) = n
           /\ pc' = [pc EXCEPT ![c] = "finish"] /\ reply' = [reply EXCEPT ![c] = r]
  BY <1>1, <1>3 DEF Answer
<1> QED
  BY <1>2, <1>3 DEF Answer

\* The row that finishRun closes.
LEMMA FinishRows ==
    ASSUME TypeOK, NEW c \in Call, NEW n \in Node, NEW s \in Status, NEW w,
           rows' = IF w = "lost" THEN rows ELSE [rows EXCEPT ![c][n] = s]
    PROVE  /\ rows' \in [Call -> [Node -> Status]]
           /\ \A d \in Call, m \in Node : <<d, m>> # <<c, n>> => rows'[d][m] = rows[d][m]
           /\ \A d \in Call \ {c} : rows'[d] = rows[d]
           /\ rows'[c][n] = IF w = "lost" THEN rows[c][n] ELSE s
  BY DEF TypeOK

-----------------------------------------------------------------------------
(* Type correctness.                                                       *)

LEMMA TypeKept ==
    ASSUME Inv, Next
    PROVE  TypeOK'
<1>0. TypeOK /\ \A c \in Call : CallInv(c)
  BY DEF Inv
<1> USE Constants
<1>1. ASSUME NEW v \in Views, Refresh(v) PROVE TypeOK'
  <2>1. snapshot' \in Snapshot
    BY <1>1, NormalizeTypes DEF Refresh
  <2> QED
    BY <1>0, <1>1, <2>1, Zenon DEF TypeOK, Refresh, store, agents, history, Snapshot
<1>2. CASE RefreshFails
  <2>1. snapshot' \in Snapshot
    BY <1>0, <1>2, WithdrawTypes, Zenon DEF TypeOK, RefreshFails, Snapshot
  <2> QED
    BY <1>0, <1>2, <2>1, Zenon DEF TypeOK, RefreshFails, store, agents, history, Snapshot
<1>3. ASSUME NEW c \in Call, NEW i \in Intents, Begin(c, i) PROVE TypeOK'
  <2>1. snap' \in [Call -> Snapshot]
    BY <1>0, <1>3, Zenon DEF TypeOK, Begin, Snapshot
  <2>2. intent' \in [Call -> Intents \cup {None}]
    BY <1>0, <1>3, Zenon DEF TypeOK, Begin
  <2>3. alone' \subseteq Call
    BY <1>3 DEF Begin
  <2>4. pc' \in [Call -> {"new", "read", "stamp", "persist", "call", "wait", "finish", "done"}]
    BY <1>0, <1>3 DEF TypeOK, Begin
  <2> QED
    BY <1>0, <1>3, <2>1, <2>2, <2>3, <2>4, Zenon DEF TypeOK, Begin, store, agents, Snapshot
<1>4. ASSUME NEW c \in Call, Read(c) PROVE TypeOK'
  <2>1. CASE Return({c}) /\ clean' = [clean EXCEPT ![c] = FALSE]
    <3>1. clean' \in [Call -> BOOLEAN]
      BY <1>0, <2>1, Zenon DEF TypeOK
    <3>2. {c} \in SUBSET Call
      OBVIOUS
    <3> QED
      BY <1>0, <1>4, <2>1, <3>1, <3>2, ReturnTypes, Zenon DEF TypeOK, Read, store, agents, history,
         Snapshot
  <2>2. CASE /\ pc' = [pc EXCEPT ![c] = "stamp"]
             /\ active' = [active EXCEPT ![c] = {n \in Node : PossiblyActive(n)}]
             /\ UNCHANGED <<intent, snap, todo, reply, clean>>
    <3>1. pc' \in [Call -> {"new", "read", "stamp", "persist", "call", "wait", "finish", "done"}]
      BY <1>0, <2>2 DEF TypeOK
    <3>2. active' \in [Call -> SUBSET Node]
      BY <1>0, <2>2, Zenon DEF TypeOK
    <3> QED
      BY <1>0, <1>4, <2>2, <3>1, <3>2, Zenon DEF TypeOK, Read, store, agents, history
  <2> QED
    BY <1>4, <2>1, <2>2, Zenon DEF Read
<1>5. ASSUME NEW c \in Call, Stamp(c) PROVE TypeOK'
  <2>1. plan' \in [Call -> [term : Nat, start : SUBSET Node, stop : SUBSET Node]]
    BY <1>0, <1>5, PlanTypes, Zenon DEF TypeOK, Stamp
  <2>2. now' \in Nat /\ at' \in [Call -> Nat]
        /\ pc' \in [Call -> {"new", "read", "stamp", "persist", "call", "wait", "finish", "done"}]
        /\ active' \in [Call -> SUBSET Node]
    BY <1>0, <1>5 DEF TypeOK, Stamp
  <2> QED
    BY <1>0, <1>5, <2>1, <2>2, Zenon DEF TypeOK, Stamp, store, agents, history
<1>6. ASSUME NEW c \in Call, NEW w \in TxResult, persistIntent(c, w) PROVE TypeOK'
  <2> DEFINE runs == plan[c].start \cup plan[c].stop
  <2>1. runs \in SUBSET Node
    BY <1>0 DEF TypeOK
  <2>2. rollouts' \subseteq Call /\ rows' \in [Call -> [Node -> Status]]
    <3>1. rollouts \subseteq Call /\ rows \in [Call -> [Node -> Status]]
      BY <1>0 DEF TypeOK
    <3>2. [n \in Node |-> IF n \in runs THEN "running" ELSE "none"] \in [Node -> Status]
      BY DEF Status
    <3> HIDE DEF runs
    <3>3. CASE UNCHANGED store
      BY <3>1, <3>3 DEF store
    <3>4. CASE /\ rollouts' = rollouts \cup {c}
               /\ rows' = [rows EXCEPT ![c] = [n \in Node |-> IF n \in runs THEN "running" ELSE "none"]]
      BY <3>1, <3>2, <3>4, Zenon
    <3> QED
      BY <1>6, <3>3, <3>4 DEF persistIntent, runs
  <2>3. CASE /\ pc' = [pc EXCEPT ![c] = "call"]
             /\ todo' = [todo EXCEPT ![c] = runs]
             /\ UNCHANGED <<intent, snap, active, reply, clean>>
    <3>1. pc' \in [Call -> {"new", "read", "stamp", "persist", "call", "wait", "finish", "done"}]
          /\ todo' \in [Call -> SUBSET Node]
      BY <1>0, <2>1, <2>3 DEF TypeOK
    <3> QED
      BY <1>0, <1>6, <2>2, <2>3, <3>1, Zenon DEF TypeOK, persistIntent, agents, history
  <2>4. CASE Return({c}) /\ clean' = [clean EXCEPT ![c] = (w = "ok")]
    <3>1. clean' \in [Call -> BOOLEAN]
      BY <1>0, <2>4, Zenon DEF TypeOK
    <3>2. {c} \in SUBSET Call
      OBVIOUS
    <3> QED
      BY <1>0, <1>6, <2>2, <2>4, <3>1, <3>2, ReturnTypes, Zenon DEF TypeOK, persistIntent, agents,
         history, Snapshot
  <2> QED
    BY <1>6, <2>3, <2>4, Zenon DEF persistIntent
<1>7. ASSUME NEW c \in Call, CallFails(c) \/ GiveUp(c) PROVE TypeOK'
  <2>1. pc' \in [Call -> {"new", "read", "stamp", "persist", "call", "wait", "finish", "done"}]
        /\ reply' \in [Call -> Reply]
    BY <1>0, <1>7 DEF TypeOK, CallFails, GiveUp, Reply
  <2> QED
    BY <1>0, <1>7, <2>1, Zenon DEF TypeOK, CallFails, GiveUp, store, agents, history
<1>8. ASSUME NEW c \in Call, CallAgent(c) PROVE TypeOK'
  <2>1. Current(c) \in Node
    BY <1>0, <1>8, CurrentIsTodo DEF CallInv, CallAgent
  <2>2. pc' \in [Call -> {"new", "read", "stamp", "persist", "call", "wait", "finish", "done"}]
        /\ sent' \subseteq Call \X Node
    BY <1>0, <1>8, <2>1 DEF TypeOK, CallAgent
  <2> QED
    BY <1>0, <1>8, <2>2, Zenon DEF TypeOK, CallAgent, store, history
<1>9. ASSUME NEW c \in Call, NEW w \in TxResult, finishRun(c, w) PROVE TypeOK'
  <2> DEFINE rest == todo[c] \ {Current(c)}
  <2>1. Current(c) \in Node /\ StatusOf(reply[c]) \in Status /\ rest \in SUBSET Node
    BY <1>0, <1>9, CurrentIsTodo DEF TypeOK, CallInv, finishRun, StatusOf, Status
  <2>2. rows' \in [Call -> [Node -> Status]]
    BY <1>0, <1>9, <2>1, FinishRows DEF finishRun
  <2>3. clean' \in [Call -> BOOLEAN]
    BY <1>0, <1>9, Zenon DEF TypeOK, finishRun
  <2>4. CASE Return({c})
    <3>1. {c} \in SUBSET Call
      OBVIOUS
    <3> QED
      BY <1>0, <1>9, <2>2, <2>3, <2>4, <3>1, ReturnTypes, Zenon DEF TypeOK, finishRun, agents,
         history, Snapshot
  <2>5. CASE /\ pc' = [pc EXCEPT ![c] = "call"] /\ todo' = [todo EXCEPT ![c] = rest]
             /\ reply' = [reply EXCEPT ![c] = "none"] /\ UNCHANGED <<intent, snap, active>>
    <3>1. pc' \in [Call -> {"new", "read", "stamp", "persist", "call", "wait", "finish", "done"}]
          /\ todo' \in [Call -> SUBSET Node] /\ reply' \in [Call -> Reply]
      BY <1>0, <2>1, <2>5 DEF TypeOK, Reply
    <3> QED
      BY <1>0, <1>9, <2>2, <2>3, <2>5, <3>1, Zenon DEF TypeOK, finishRun, agents, history
  <2> QED
    BY <1>9, <2>4, <2>5, Zenon DEF finishRun
<1>10. ASSUME NEW c \in Call, NEW n \in Node, Refuse(c, n) PROVE TypeOK'
  <2>1. /\ sent' \subseteq Call \X Node /\ reply' \in [Call -> Reply]
        /\ pc' \in [Call -> {"new", "read", "stamp", "persist", "call", "wait", "finish", "done"}]
    BY <1>0, <1>10, AnswerEffect DEF TypeOK, Refuse
  <2>2. fence' \in [Node -> Nat]
    BY <1>0, <1>10 DEF TypeOK, Refuse
  <2> QED
    BY <1>0, <1>10, <2>1, <2>2, Zenon DEF TypeOK, Refuse, store, history
<1>11. ASSUME NEW c \in Call, NEW n \in Node, DryRun(c, n) PROVE TypeOK'
  <2>1. /\ sent' \subseteq Call \X Node /\ reply' \in [Call -> Reply]
        /\ pc' \in [Call -> {"new", "read", "stamp", "persist", "call", "wait", "finish", "done"}]
    <3>1. Answer(c, n, "dry") /\ "dry" \in {"ok", "dry", "error"}
      BY <1>11, Zenon DEF DryRun
    <3>2. sent \subseteq Call \X Node
      BY <1>0 DEF TypeOK
    <3> QED
      BY <1>0, <3>1, <3>2, AnswerEffect
  <2>2. fence' \in [Node -> Nat] /\ done' \subseteq Call \X Node
    BY <1>0, <1>11 DEF TypeOK, DryRun
  <2> QED
    BY <1>0, <1>11, <2>1, <2>2, Zenon DEF TypeOK, DryRun, store
<1>12. ASSUME NEW c \in Call, NEW n \in Node, NEW ok \in BOOLEAN, Converge(c, n, ok) PROVE TypeOK'
  <2>0. (IF ok THEN "ok" ELSE "error") \in {"ok", "dry", "error"}
    OBVIOUS
  <2>1. /\ sent' \subseteq Call \X Node /\ reply' \in [Call -> Reply]
        /\ pc' \in [Call -> {"new", "read", "stamp", "persist", "call", "wait", "finish", "done"}]
    <3>1. Answer(c, n, IF ok THEN "ok" ELSE "error")
      BY <1>12, Zenon DEF Converge
    <3>2. sent \subseteq Call \X Node
      BY <1>0 DEF TypeOK
    <3> QED
      BY <1>0, <2>0, <3>1, <3>2, AnswerEffect
  <2>2. fence' \in [Node -> Nat] /\ newest' \in [Node -> Nat]
    BY <1>0, <1>12 DEF TypeOK, Converge
  <2>3. done' \subseteq Call \X Node /\ live' \subseteq Node /\ overtaken' \subseteq Node
    BY <1>0, <1>12 DEF TypeOK, Converge
  <2> QED
    BY <1>0, <1>12, <2>1, <2>2, <2>3, Zenon DEF TypeOK, Converge, store
<1>13. ASSUME NEW n \in Switching, Switch(n) PROVE TypeOK'
  <2>1. dry' \in [Node -> BOOLEAN]
    BY <1>0, <1>13, Zenon DEF TypeOK, Switch
  <2> QED
    BY <1>0, <1>13, <2>1, Zenon DEF TypeOK, Switch, core, store, history
<1>14. CASE Restart
  <2>1. {c \in Call : InProgress(c)} \in SUBSET Call
    OBVIOUS
  <2>2. clean' \in [Call -> BOOLEAN]
    BY <1>0, <1>14, Zenon DEF TypeOK, Restart
  <2>3. rows' \in [Call -> [Node -> Status]]
    BY <1>0, <1>14 DEF TypeOK, Restart, Recovered, Status
  <2>4. snapshot' \in Snapshot
    BY <1>14 DEF Restart, NoSnapshot, Snapshot
  <2> QED
    BY <1>0, <1>14, <2>1, <2>2, <2>3, <2>4, ReturnTypes, Zenon DEF TypeOK, Restart, agents, history,
       Snapshot
<1> QED
  BY <1>1, <1>2, <1>3, <1>4, <1>5, <1>6, <1>7, <1>8, <1>9, <1>10, <1>11, <1>12, <1>13, <1>14,
     Zenon DEF Next

-----------------------------------------------------------------------------
(* Calls.                                                                  *)

\* What a step of somebody else leaves alone of a call.
Quiet(c) ==
    /\ at'[c] = at[c] /\ pc'[c] = pc[c] /\ todo'[c] = todo[c] /\ rows'[c] = rows[c]
    /\ plan'[c] = plan[c] /\ reply'[c] = reply[c] /\ clean'[c] = clean[c]
    /\ \A n \in Node : <<c, n>> \in sent' <=> <<c, n>> \in sent

\* The clock and the history only go on.
Onward ==
    /\ now <= now' /\ done \subseteq done'
    /\ \A n \in Node : newest[n] <= newest'[n]

\* What a step keeps of a call: its invariant, that of its requests, and the
\* nodes it answers for.
Kept(c) ==
    /\ CallInv(c)'
    /\ \A n \in Node : RequestInv(c, n)'
    /\ \A n \in Node : Answers(c, n) => Answers(c, n)' /\ at'[c] = at[c]

LEMMA OnwardStep ==
    ASSUME TypeOK, Next
    PROVE  Onward
<1>0. now \in Nat /\ at \in [Call -> Nat] /\ newest \in [Node -> Nat]
  BY DEF TypeOK
<1>1. ASSUME UNCHANGED <<now, done, newest>> PROVE Onward
  BY <1>0, <1>1 DEF Onward
<1>2. ASSUME NEW c \in Call, Stamp(c) PROVE Onward
  BY <1>0, <1>2 DEF Onward, Stamp, history
<1>3. ASSUME NEW c \in Call, NEW n \in Node, DryRun(c, n) PROVE Onward
  BY <1>0, <1>3 DEF Onward, DryRun
<1>4. ASSUME NEW c \in Call, NEW n \in Node, NEW ok \in BOOLEAN, Converge(c, n, ok) PROVE Onward
  <2>1. done \subseteq done' /\ UNCHANGED now
    BY <1>4 DEF Converge
  <2>2. newest' = [newest EXCEPT ![n] = IF newest[n] < at[c] THEN at[c] ELSE newest[n]]
    BY <1>4 DEF Converge
  <2> QED
    BY <1>0, <2>1, <2>2 DEF Onward
<1>5. ASSUME NEW v \in Views, Refresh(v) PROVE Onward
  BY <1>1, <1>5 DEF Refresh, history
<1>6. ASSUME NEW c \in Call, NEW i \in Intents, Begin(c, i) PROVE Onward
  BY <1>1, <1>6 DEF Begin
<1>7. ASSUME NEW c \in Call, Read(c) \/ CallFails(c) \/ CallAgent(c) \/ GiveUp(c) PROVE Onward
  BY <1>1, <1>7 DEF Read, CallFails, CallAgent, GiveUp, history
<1>8. ASSUME NEW c \in Call, NEW w \in TxResult, persistIntent(c, w) \/ finishRun(c, w) PROVE Onward
  BY <1>1, <1>8 DEF persistIntent, finishRun, history
<1>9. ASSUME NEW c \in Call, NEW n \in Node, Refuse(c, n) PROVE Onward
  BY <1>1, <1>9 DEF Refuse, history
<1>10. ASSUME NEW n \in Switching, Switch(n) PROVE Onward
  BY <1>1, <1>10 DEF Switch, core, history
<1>11. CASE RefreshFails \/ Restart
  BY <1>1, <1>11 DEF RefreshFails, Restart, history
<1> QED
  BY <1>2, <1>3, <1>4, <1>5, <1>6, <1>7, <1>8, <1>9, <1>10, <1>11, Zenon DEF Next

LEMMA QuietKept ==
    ASSUME TypeOK, TypeOK', Onward, NEW c \in Call, CallInv(c), \A n \in Node : RequestInv(c, n),
           Quiet(c)
    PROVE  Kept(c)
<1>0. /\ plan[c].start \subseteq Node /\ plan[c].stop \subseteq Node /\ todo[c] \subseteq Node
      /\ at[c] \in Nat /\ now \in Nat /\ now' \in Nat
      /\ newest \in [Node -> Nat] /\ newest' \in [Node -> Nat]
  BY DEF TypeOK
<1>1. Current(c)' = Current(c) /\ Runs(c)' = Runs(c)
  BY DEF Quiet, Current, Runs
<1>2. todo[c] # {} => Current(c) \in Node
  BY CurrentIsTodo
<1>3. CallInv(c)'
  <2>1. \A n \in Runs(c) \ todo[c] : n \in Node /\ (Evident(c, n) => Evident(c, n)')
    BY <1>0 DEF Evident, Quiet, Onward, Runs
  <2>2. /\ pc[c] \in {"call", "wait", "finish", "done"} /\ clean[c] =>
            \A n \in Runs(c) \ todo[c] : Evident(c, n)'
    BY <2>1 DEF CallInv
  <2>3. (pc[c] = "finish") =>
          /\ reply[c] # "error" => <<c, Current(c)>> \in done'
          /\ reply[c] = "ok" => at[c] <= newest'[Current(c)]
    BY <1>0, <1>2 DEF CallInv, Onward
  <2>4. \A n \in Node : rows[c][n] = "succeeded" => at[c] <= newest'[n]
    BY <1>0 DEF CallInv, Onward
  <2>5. at[c] <= now'
    BY <1>0 DEF CallInv, Onward
  <2> HIDE DEF Evident, Runs, Current
  <2> QED
    BY <1>1, <2>2, <2>3, <2>4, <2>5 DEF CallInv, Quiet
<1>4. \A n \in Node : RequestInv(c, n)'
  BY <1>1 DEF RequestInv, Quiet
<1>5. \A n \in Node : Answers(c, n) => Answers(c, n)' /\ at'[c] = at[c]
  BY <1>1 DEF Answers, Quiet
<1> QED
  BY <1>3, <1>4, <1>5 DEF Kept

\* A delivery concerns its caller.
LEMMA AnswerQuiet ==
    ASSUME TypeOK, NEW c \in Call, NEW d \in Call \ {c}, NEW n \in Node,
           NEW r \in {"ok", "dry", "error"}, Answer(c, n, r),
           UNCHANGED <<at, plan, todo, clean, store>>
    PROVE  Quiet(d)
<1>0. sent' = sent \ {<<c, n>>}
  BY DEF Answer
<1>1. pc'[d] = pc[d] /\ reply'[d] = reply[d]
  <2>1. pc \in [Call -> {"new", "read", "stamp", "persist", "call", "wait", "finish", "done"}]
        /\ reply \in [Call -> Reply]
    BY DEF TypeOK
  <2> QED
    BY <2>1 DEF Answer
<1>2. \A m \in Node : <<d, m>> \in sent' <=> <<d, m>> \in sent
  BY <1>0
<1> QED
  BY <1>1, <1>2 DEF Quiet, store

\* Every step of one call leaves the others alone.
LEMMA OthersQuiet ==
    ASSUME TypeOK, \A d \in Call : CallInv(d), NEW c \in Call, NEW d \in Call \ {c},
           \/ \E i \in Intents : Begin(c, i)
           \/ Read(c) \/ Stamp(c) \/ CallFails(c) \/ CallAgent(c) \/ GiveUp(c)
           \/ \E w \in TxResult : persistIntent(c, w) \/ finishRun(c, w)
           \/ \E n \in Node : \/ Refuse(c, n) \/ DryRun(c, n)
                              \/ \E ok \in BOOLEAN : Converge(c, n, ok)
    PROVE  Quiet(d)
<1>0. /\ pc \in [Call -> {"new", "read", "stamp", "persist", "call", "wait", "finish", "done"}]
      /\ at \in [Call -> Nat] /\ todo \in [Call -> SUBSET Node] /\ reply \in [Call -> Reply]
      /\ plan \in [Call -> [term : Nat, start : SUBSET Node, stop : SUBSET Node]]
      /\ rows \in [Call -> [Node -> Status]]
  BY DEF TypeOK
<1>01. clean \in [Call -> BOOLEAN]
  BY DEF TypeOK
<1>1. ASSUME NEW i \in Intents, Begin(c, i) PROVE Quiet(d)
  BY <1>0, <1>1 DEF Begin, Quiet, store, agents
<1>2. CASE Read(c)
  <2>1. clean'[d] = clean[d]
    BY <1>01, <1>2, Zenon DEF Read
  <2> QED
    BY <1>0, <1>2, <2>1, ReturnOne DEF Read, Quiet, store, agents
<1>3. CASE Stamp(c)
  BY <1>0, <1>3 DEF Stamp, Quiet, store, agents
<1>4. CASE CallFails(c) \/ GiveUp(c)
  BY <1>0, <1>4 DEF CallFails, GiveUp, Quiet, store, agents
<1>5. CASE CallAgent(c)
  <2>1. \A n \in Node : <<d, n>> \in sent' <=> <<d, n>> \in sent
    BY <1>5 DEF CallAgent
  <2> QED
    BY <1>0, <1>5, <2>1 DEF CallAgent, Quiet, store
<1>6. ASSUME NEW w \in TxResult, persistIntent(c, w) PROVE Quiet(d)
  <2>1. clean'[d] = clean[d]
    BY <1>01, <1>6, Zenon DEF persistIntent
  <2>2. rows'[d] = rows[d] /\ UNCHANGED <<sent, at, plan>>
    BY <1>0, <1>6 DEF persistIntent, store, agents
  <2>3. pc'[d] = pc[d] /\ todo'[d] = todo[d] /\ reply'[d] = reply[d]
    BY <1>0, <1>6, ReturnOne DEF persistIntent
  <2> QED
    BY <2>1, <2>2, <2>3 DEF Quiet
<1>7. ASSUME NEW w \in TxResult, finishRun(c, w) PROVE Quiet(d)
  <2>1. clean'[d] = clean[d]
    BY <1>01, <1>7, Zenon DEF finishRun
  <2>2. Current(c) \in Node /\ StatusOf(reply[c]) \in Status
    BY <1>7, CurrentIsTodo DEF CallInv, finishRun, StatusOf, Status
  <2>3. rows'[d] = rows[d] /\ UNCHANGED <<sent, at, plan>>
    BY <1>7, <2>2, FinishRows DEF finishRun, agents
  <2>4. pc'[d] = pc[d] /\ todo'[d] = todo[d] /\ reply'[d] = reply[d]
    BY <1>0, <1>7, ReturnOne DEF finishRun
  <2> QED
    BY <2>1, <2>3, <2>4 DEF Quiet
<1>8. ASSUME NEW n \in Node, Refuse(c, n) \/ DryRun(c, n) PROVE Quiet(d)
  BY <1>8, AnswerQuiet DEF Refuse, DryRun
<1>9. ASSUME NEW n \in Node, NEW ok \in BOOLEAN, Converge(c, n, ok) PROVE Quiet(d)
  BY <1>9, AnswerQuiet DEF Converge
<1> QED
  BY <1>1, <1>2, <1>3, <1>4, <1>5, <1>6, <1>7, <1>8, <1>9, Zenon

-----------------------------------------------------------------------------
(* The steps of a call itself.                                             *)

\* Before its rows exist, a call has nothing to keep but its emptiness.
LEMMA EarlyKept ==
    ASSUME TypeOK, Onward, TypeOK', NEW c \in Call, CallInv(c),
           pc[c] \in {"new", "read", "stamp"},
           pc'[c] \in {"read", "stamp", "persist", "done"},
           todo'[c] = {}, rows'[c] = rows[c], UNCHANGED sent,
           pc'[c] = "persist" => at'[c] > 0 /\ at'[c] <= now',
           pc'[c] # "persist" => at'[c] = at[c],
           pc'[c] = "done" => clean'[c] = FALSE
    PROVE  Kept(c)
<1>1. \A n \in Node : rows'[c][n] = "none" /\ <<c, n>> \notin sent'
  BY DEF CallInv
<1>2. at[c] = 0 /\ now \in Nat /\ now' \in Nat /\ at[c] <= now'
  BY DEF CallInv, Onward, TypeOK
<1>3. pc'[c] = "done" => ~clean'[c]
  BY Zenon
<1>4. CallInv(c)'
  BY <1>1, <1>2, <1>3 DEF CallInv
<1>5. \A n \in Node : RequestInv(c, n)'
  BY <1>1 DEF RequestInv
<1>6. \A n \in Node : ~Answers(c, n)
  BY DEF Answers, CallInv
<1> QED
  BY <1>4, <1>5, <1>6 DEF Kept

LEMMA PersistKept ==
    ASSUME TypeOK, Onward, TypeOK', NEW c \in Call, CallInv(c),
           NEW w \in TxResult, persistIntent(c, w)
    PROVE  Kept(c)
<1>0. /\ at[c] > 0 /\ at[c] <= now /\ at[c] \in Nat /\ now \in Nat /\ now' \in Nat /\ now <= now'
      /\ todo[c] = {} /\ pc[c] = "persist"
      /\ \A n \in Node : rows[c][n] = "none" /\ <<c, n>> \notin sent
  BY DEF CallInv, persistIntent, TypeOK, Onward
<1>1. at'[c] = at[c] /\ plan'[c] = plan[c] /\ UNCHANGED <<sent>> /\ Runs(c)' = Runs(c)
  BY DEF persistIntent, agents, Runs
<1>2. Runs(c) \in SUBSET Node
  BY DEF TypeOK, Runs
<1>3. \A n \in Node : ~Answers(c, n)
  BY <1>0 DEF Answers
<1>4. \A n \in Node : RequestInv(c, n)'
  BY <1>0, <1>1 DEF RequestInv
<1>5. CASE w = "ok" /\ Runs(c) # {}
  <2>1. pc'[c] = "call" /\ todo'[c] = Runs(c)
    BY <1>5 DEF persistIntent, Runs, TypeOK
  <2>2. \A n \in Node : rows'[c][n] = IF n \in Runs(c) THEN "running" ELSE "none"
    BY <1>5 DEF persistIntent, Runs, TypeOK
  <2>3. CallInv(c)'
    BY <1>0, <1>1, <1>2, <1>5, <2>1, <2>2 DEF CallInv
  <2> QED
    BY <1>3, <1>4, <2>3 DEF Kept
<1>6. CASE w # "ok" \/ Runs(c) = {}
  <2>1. Return({c}) /\ clean' = [clean EXCEPT ![c] = (w = "ok")]
    BY <1>6, Zenon DEF persistIntent, Runs
  <2>2. pc'[c] = "done" /\ todo'[c] = {}
    BY <2>1, ReturnOne
  <2>3. clean'[c] => w = "ok"
    BY <2>1, Zenon DEF TypeOK
  <2>4. \A n \in Node : rows'[c][n] \in {"running", "none"}
    <3>1. rows \in [Call -> [Node -> Status]]
      BY DEF TypeOK
    <3>2. CASE UNCHANGED store
      BY <1>0, <3>2 DEF store
    <3>3. CASE rows' = [rows EXCEPT ![c] = [n \in Node |-> IF n \in Runs(c) THEN "running" ELSE "none"]]
      BY <3>1, <3>3
    <3> QED
      BY <3>2, <3>3, Zenon DEF persistIntent, Runs
  <2>5. clean'[c] => Runs(c)' = {}
    BY <1>1, <1>6, <2>3, Zenon
  <2>6. CallInv(c)'
    BY <1>0, <1>1, <2>2, <2>4, <2>5 DEF CallInv
  <2> QED
    BY <1>3, <1>4, <2>6 DEF Kept
<1> QED
  BY <1>5, <1>6

\* CallFails, GiveUp, and CallAgent: the call moves on with the same node.
LEMMA CallingKept ==
    ASSUME TypeOK, Onward, TypeOK', NEW c \in Call, CallInv(c), \A n \in Node : RequestInv(c, n),
           CallFails(c) \/ GiveUp(c) \/ CallAgent(c)
    PROVE  Kept(c)
<1>0. /\ UNCHANGED <<at, now, plan, todo, rows, clean, done, newest>>
      /\ pc[c] \in {"call", "wait"} /\ todo[c] # {}
  BY DEF CallFails, GiveUp, CallAgent, CallInv, store, agents, history
<1>1. Current(c)' = Current(c) /\ Runs(c)' = Runs(c)
  BY <1>0 DEF Current, Runs
<1>2. Current(c) \in todo[c] /\ Current(c) \in Node
  BY <1>0, CurrentIsTodo
<1>3. \A n \in Node : Evident(c, n)' <=> Evident(c, n)
  BY <1>0 DEF Evident
<1>4. Runs(c) \subseteq Node
  BY DEF TypeOK, Runs
<1>5. CASE CallFails(c) \/ GiveUp(c)
  <2>1. pc'[c] = "finish" /\ reply'[c] = "error" /\ UNCHANGED sent
    BY <1>5 DEF CallFails, GiveUp, TypeOK, agents
  <2>2. pc[c] \in {"call", "wait", "finish", "done"} /\ clean[c] =>
           \A n \in Runs(c) \ todo[c] : Evident(c, n)'
    BY <1>3, <1>4 DEF CallInv
  <2>3. CallInv(c)'
    BY <1>0, <1>1, <2>1, <2>2 DEF CallInv
  <2>4. \A n \in Node : RequestInv(c, n)'
    BY <1>0, <1>1, <2>1 DEF RequestInv
  <2>5. \A n \in Node : Answers(c, n) => Answers(c, n)'
    BY <1>0, <1>1, <2>1 DEF Answers
  <2> QED
    BY <1>0, <2>3, <2>4, <2>5 DEF Kept
<1>6. CASE CallAgent(c)
  <2>1. pc[c] = "call" /\ pc'[c] = "wait" /\ sent' = sent \cup {<<c, Current(c)>>}
    BY <1>6 DEF CallAgent, TypeOK
  <2>2. pc[c] \in {"call", "wait", "finish", "done"} /\ clean[c] =>
           \A n \in Runs(c) \ todo[c] : Evident(c, n)'
    BY <1>3, <1>4 DEF CallInv
  <2>3. CallInv(c)'
    BY <1>0, <1>1, <2>1, <2>2 DEF CallInv
  <2>4. ASSUME NEW n \in Node PROVE RequestInv(c, n)'
    <3>1. CASE n = Current(c)
      BY <1>0, <1>1, <1>2, <2>1, <3>1 DEF RequestInv, CallInv
    <3>2. CASE n # Current(c)
      BY <1>0, <1>1, <2>1, <3>2 DEF RequestInv
    <3> QED
      BY <3>1, <3>2
  <2>5. \A n \in Node : Answers(c, n) => Answers(c, n)'
    BY <1>0, <1>1, <1>2, <2>1 DEF Answers
  <2> QED
    BY <1>0, <2>3, <2>4, <2>5 DEF Kept
<1> QED
  BY <1>5, <1>6

LEMMA FinishKept ==
    ASSUME TypeOK, Onward, TypeOK', NEW c \in Call, CallInv(c), \A n \in Node : RequestInv(c, n),
           NEW w \in TxResult, finishRun(c, w)
    PROVE  Kept(c)
<1>0. /\ UNCHANGED <<at, now, plan, sent, done, newest>>
      /\ pc[c] = "finish" /\ todo[c] # {} /\ at[c] > 0
  BY DEF finishRun, CallInv, agents, history
<1>a. Current(c) \in todo[c] /\ Current(c) \in Node /\ StatusOf(reply[c]) \in Status
  BY <1>0, CurrentIsTodo DEF StatusOf, Status
<1>b. PICK n \in Node : n = Current(c)
  BY <1>a
<1>1. n \in todo[c] /\ StatusOf(reply[c]) \in Status
  BY <1>a, <1>b
<1>2. /\ \A m \in Node \ {n} : rows'[c][m] = rows[c][m]
      /\ rows'[c][n] = IF w = "lost" THEN "running" ELSE StatusOf(reply[c])
  <2>1. rows' = IF w = "lost" THEN rows ELSE [rows EXCEPT ![c][n] = StatusOf(reply[c])]
    BY <1>b, Zenon DEF finishRun
  <2>2. rows[c][n] = "running"
    BY <1>0, <1>1 DEF CallInv
  <2> QED
    BY <1>1, <2>1, <2>2, FinishRows
<1>3. clean'[c] => clean[c] /\ w = "ok" /\ reply[c] # "error"
  BY Zenon DEF finishRun, TypeOK
<1>4. /\ todo'[c] = todo[c] \ {n}
      /\ pc'[c] = IF todo'[c] = {} THEN "done" ELSE "call"
  BY <1>b, ReturnOne DEF finishRun, TypeOK
<1>5. Runs(c)' = Runs(c) /\ Runs(c) \subseteq Node /\ todo[c] \subseteq Node
  BY <1>0 DEF Runs, TypeOK
<1>6. /\ reply[c] \in {"ok", "dry", "error"}
      /\ reply[c] # "error" => <<c, n>> \in done
      /\ reply[c] = "ok" => at[c] <= newest[n]
  BY <1>0, <1>b DEF CallInv
<1>7. clean'[c] => \A m \in Runs(c)' \ todo'[c] : Evident(c, m)'
  <2>1. clean'[c] => Evident(c, n)'
    BY <1>0, <1>2, <1>3, <1>6 DEF Evident, StatusOf
  <2>2. clean'[c] => \A m \in (Runs(c) \ todo[c]) \ {n} : Evident(c, m)'
    BY <1>0, <1>2, <1>3, <1>5 DEF Evident, CallInv
  <2> QED
    BY <1>4, <1>5, <2>1, <2>2
<1>8. \A m \in Node : rows'[c][m] = "succeeded" => at[c] <= newest[m]
  BY <1>0, <1>1, <1>2, <1>6 DEF CallInv, StatusOf
<1>9. CallInv(c)'
  <2>1. \A m \in todo'[c] : rows'[c][m] = "running"
    BY <1>0, <1>2, <1>4, <1>5 DEF CallInv
  <2> QED
    BY <1>0, <1>4, <1>7, <1>8, <2>1 DEF CallInv
<1>10. ASSUME NEW m \in Node PROVE RequestInv(c, m)'
  <2>1. SUFFICES ASSUME <<c, m>> \in sent
                 PROVE  rows'[c][m] \in {"running", "failed"} /\ m \notin todo'[c]
    BY <1>0 DEF RequestInv
  <2>2. CASE m = n
    <3>1. reply[c] = "error"
      BY <1>0, <1>1, <2>1, <2>2 DEF RequestInv
    <3> QED
      BY <1>2, <1>4, <2>2, <3>1 DEF StatusOf
  <2>3. CASE m # n
    BY <1>b, <1>2, <1>4, <2>1, <2>3 DEF RequestInv
  <2> QED
    BY <2>2, <2>3
<1>11. ASSUME NEW m \in Node, Answers(c, m) PROVE Answers(c, m)'
  <2>1. CASE m = n
    BY <1>0, <1>1, <1>2, <1>4, <1>6, <1>11, <2>1 DEF Answers, StatusOf
  <2>2. CASE m # n
    <3>1. m \notin todo[c]
      BY <1>b, <1>11, <2>2 DEF Answers
    <3> QED
      BY <1>0, <1>2, <1>4, <1>11, <2>2, <3>1 DEF Answers
  <2> QED
    BY <2>1, <2>2
<1> QED
  BY <1>0, <1>9, <1>10, <1>11 DEF Kept

\* A request is delivered.
LEMMA AnswerKept ==
    ASSUME TypeOK, Onward, TypeOK', NEW c \in Call, CallInv(c), \A m \in Node : RequestInv(c, m),
           NEW n \in Node, NEW r \in {"ok", "dry", "error"}, Answer(c, n, r),
           UNCHANGED <<at, plan, todo, clean, store>>,
           r # "error" => <<c, n>> \in done',
           r = "ok" => at[c] <= newest'[n]
    PROVE  Kept(c)
<1>0. /\ <<c, n>> \in sent /\ sent' = sent \ {<<c, n>>}
      /\ \/ pc'[c] = pc[c] /\ reply'[c] = reply[c]
         \/ pc[c] = "wait" /\ Current(c) = n /\ pc'[c] = "finish" /\ reply'[c] = r
  BY AnswerEffect
<1>1. Current(c)' = Current(c) /\ Runs(c)' = Runs(c) /\ UNCHANGED <<rows, at, plan, todo>>
      /\ clean'[c] = clean[c]
  BY DEF Current, Runs, store
<1>2. todo[c] # {} => Current(c) \in todo[c] /\ Current(c) \in Node
  BY CurrentIsTodo
<1>3. /\ now \in Nat /\ now' \in Nat /\ at[c] \in Nat /\ Runs(c) \subseteq Node
      /\ newest \in [Node -> Nat] /\ newest' \in [Node -> Nat]
  BY DEF TypeOK, Runs
<1>4. \A m \in Node : Evident(c, m) => Evident(c, m)'
  BY <1>1 DEF Evident, Onward
<1>5. /\ at[c] <= now'
      /\ \A m \in Node : rows[c][m] = "succeeded" => at[c] <= newest'[m]
  BY <1>3 DEF CallInv, Onward
<1>6. pc'[c] = "finish" =>
          /\ reply'[c] \in {"ok", "dry", "error"}
          /\ reply'[c] # "error" => <<c, Current(c)>> \in done'
          /\ reply'[c] = "ok" => at[c] <= newest'[Current(c)]
  <2>1. CASE pc'[c] = pc[c] /\ reply'[c] = reply[c]
    BY <1>2, <1>3, <2>1 DEF CallInv, Onward
  <2>2. CASE Current(c) = n /\ reply'[c] = r
    BY <2>2
  <2> QED
    BY <1>0, <2>1, <2>2
<1>7. CallInv(c)'
  <2>1. pc'[c] \in {"call", "wait", "finish", "done"} /\ clean'[c] =>
          \A m \in Runs(c) \ todo[c] : Evident(c, m)'
    BY <1>0, <1>1, <1>3, <1>4 DEF CallInv
  <2> QED
    BY <1>0, <1>1, <1>5, <1>6, <2>1 DEF CallInv
<1>8. ASSUME NEW m \in Node PROVE RequestInv(c, m)'
  BY <1>0, <1>1 DEF RequestInv
<1>9. ASSUME NEW m \in Node, Answers(c, m) PROVE Answers(c, m)'
  BY <1>0, <1>1, <1>9 DEF Answers
<1> QED
  BY <1>1, <1>7, <1>8, <1>9 DEF Kept

LEMMA RestartKept ==
    ASSUME TypeOK, Onward, TypeOK', NEW c \in Call, CallInv(c), \A n \in Node : RequestInv(c, n),
           Restart
    PROVE  Kept(c)
<1>0. /\ UNCHANGED <<at, now, plan, sent, done, newest>> /\ todo'[c] = {}
      /\ pc'[c] = IF InProgress(c) THEN "done" ELSE pc[c]
  BY DEF Restart, Return, agents, history, CallInv, InProgress, TypeOK
<1>1. \A n \in Node : rows'[c][n] = Recovered(rows[c][n])
  BY DEF Restart
<1>2. clean'[c] => ~InProgress(c) /\ clean[c]
  BY Zenon DEF Restart, TypeOK
<1>3. ~InProgress(c) => pc[c] \in {"new", "done"}
  BY DEF InProgress
<1>4. Runs(c)' = Runs(c) /\ Runs(c) \subseteq Node
  BY <1>0 DEF Runs, TypeOK
<1>5. CallInv(c)'
  <2>1. pc'[c] = "done" /\ clean'[c] => \A n \in Runs(c) : Evident(c, n)'
    BY <1>0, <1>1, <1>2, <1>3, <1>4 DEF CallInv, Evident, Recovered
  <2>2. \A n \in Node : /\ rows'[c][n] = "succeeded" <=> rows[c][n] = "succeeded"
                        /\ rows'[c][n] = "none" <=> rows[c][n] = "none"
    BY <1>1 DEF Recovered
  <2>3. pc'[c] \in {"new", "done"} /\ (pc'[c] = "new" => pc[c] = "new")
    BY <1>0, <1>3
  <2> QED
    BY <1>0, <1>4, <2>1, <2>2, <2>3 DEF CallInv
<1>6. \A n \in Node : RequestInv(c, n)'
  BY <1>0, <1>1 DEF RequestInv, Recovered
<1>7. \A n \in Node : Answers(c, n) => Answers(c, n)'
  BY <1>0, <1>1 DEF Answers, Recovered
<1> QED
  BY <1>0, <1>5, <1>6, <1>7 DEF Kept

\* What a convergence does to the caller.
LEMMA ConvergeAnswers ==
    ASSUME TypeOK, NEW c \in Call, NEW n \in Node, NEW ok \in BOOLEAN, Converge(c, n, ok)
    PROVE  /\ UNCHANGED <<at, plan, todo, clean, store, rows>>
           /\ \E r \in {"ok", "error"} :
                 /\ Answer(c, n, r)
                 /\ r = "ok" => /\ <<c, n>> \in done'
                                /\ live' = IF n \in plan[c].start THEN live \cup {n} ELSE live \ {n}
           /\ \A m \in Node \ {n} : m \in live' <=> m \in live
<1>1. CASE ok = TRUE
  BY <1>1 DEF Converge, store
<1>2. CASE ok = FALSE
  BY <1>2 DEF Converge, store
<1> QED
  BY <1>1, <1>2

LEMMA CallsKept ==
    ASSUME Inv, Next, NEW d \in Call
    PROVE  Kept(d)
<1>0. TypeOK /\ TypeOK' /\ Onward /\ CallInv(d) /\ \A n \in Node : RequestInv(d, n)
  BY TypeKept, OnwardStep DEF Inv
<1>01. \A c \in Call : CallInv(c)
  BY DEF Inv
<1>02. pc \in [Call -> {"new", "read", "stamp", "persist", "call", "wait", "finish", "done"}]
       /\ at \in [Call -> Nat] /\ now \in Nat /\ newest \in [Node -> Nat]
  BY <1>0 DEF TypeOK
<1>1. ASSUME Quiet(d) PROVE Kept(d)
  BY <1>0, <1>1, QuietKept
<1>2. ASSUME NEW v \in Views, Refresh(v) PROVE Kept(d)
  BY <1>1, <1>2 DEF Quiet, Refresh, store, agents
<1>3. CASE RefreshFails
  BY <1>1, <1>3 DEF Quiet, RefreshFails, store, agents
<1>4. ASSUME NEW n \in Switching, Switch(n) PROVE Kept(d)
  BY <1>1, <1>4 DEF Quiet, Switch, core, store
<1>5. CASE Restart
  BY <1>0, <1>5, RestartKept
<1>6. ASSUME NEW c \in Call, NEW i \in Intents, Begin(c, i) PROVE Kept(d)
  <2>1. CASE d = c
    <3>1. /\ pc[c] = "new" /\ pc'[c] = "read" /\ UNCHANGED <<at, todo, rows, sent>>
      BY <1>02, <1>6 DEF Begin, store, agents
    <3> QED
      BY <1>0, <2>1, <3>1, EarlyKept DEF CallInv
  <2>2. CASE d # c
    BY <1>0, <1>01, <1>1, <1>6, <2>2, OthersQuiet
  <2> QED
    BY <2>1, <2>2
<1>7. ASSUME NEW c \in Call, Read(c) PROVE Kept(d)
  <2>1. CASE d = c
    <3>1. /\ pc[c] = "read" /\ pc'[c] \in {"stamp", "done"} /\ todo'[c] = {}
          /\ UNCHANGED <<at, rows, sent>>
      BY <1>0, <1>02, <1>7, <2>1, ReturnOne DEF Read, CallInv, store, agents
    <3>2. pc'[c] = "done" => clean'[c] = FALSE
      BY <1>0, <1>02, <1>7 DEF Read, TypeOK
    <3> QED
      BY <1>0, <2>1, <3>1, <3>2, EarlyKept
  <2>2. CASE d # c
    BY <1>0, <1>01, <1>1, <1>7, <2>2, OthersQuiet
  <2> QED
    BY <2>1, <2>2
<1>8. ASSUME NEW c \in Call, Stamp(c) PROVE Kept(d)
  <2>1. CASE d = c
    <3>1. /\ pc[c] = "stamp" /\ pc'[c] = "persist" /\ todo'[c] = {}
          /\ UNCHANGED <<rows, sent>> /\ at'[c] > 0 /\ at'[c] <= now'
      BY <1>0, <1>02, <1>8, <2>1 DEF Stamp, CallInv, store, agents
    <3> QED
      BY <1>0, <2>1, <3>1, EarlyKept
  <2>2. CASE d # c
    BY <1>0, <1>01, <1>1, <1>8, <2>2, OthersQuiet
  <2> QED
    BY <2>1, <2>2
<1>9. ASSUME NEW c \in Call, CallFails(c) \/ CallAgent(c) \/ GiveUp(c) PROVE Kept(d)
  <2>1. CASE d = c
    BY <1>0, <1>9, <2>1, CallingKept
  <2>2. CASE d # c
    BY <1>0, <1>01, <1>1, <1>9, <2>2, OthersQuiet
  <2> QED
    BY <2>1, <2>2
<1>10. ASSUME NEW c \in Call, NEW w \in TxResult, persistIntent(c, w) PROVE Kept(d)
  <2>1. CASE d = c
    BY <1>0, <1>10, <2>1, PersistKept
  <2>2. CASE d # c
    BY <1>0, <1>01, <1>1, <1>10, <2>2, OthersQuiet
  <2> QED
    BY <2>1, <2>2
<1>11. ASSUME NEW c \in Call, NEW w \in TxResult, finishRun(c, w) PROVE Kept(d)
  <2>1. CASE d = c
    BY <1>0, <1>11, <2>1, FinishKept
  <2>2. CASE d # c
    BY <1>0, <1>01, <1>1, <1>11, <2>2, OthersQuiet
  <2> QED
    BY <2>1, <2>2
<1>12. ASSUME NEW c \in Call, NEW n \in Node, NEW r \in {"ok", "dry", "error"}, Answer(c, n, r),
              UNCHANGED <<at, plan, todo, clean, store>>,
              r # "error" => <<c, n>> \in done',
              r = "ok" => at[c] <= newest'[n]
       PROVE  Kept(d)
  <2>1. CASE d = c
    BY <1>0, <1>12, <2>1, AnswerKept
  <2>2. CASE d # c
    BY <1>0, <1>1, <1>12, <2>2, AnswerQuiet
  <2> QED
    BY <2>1, <2>2
<1>13. ASSUME NEW c \in Call, NEW n \in Node, Refuse(c, n) PROVE Kept(d)
  BY <1>12, <1>13 DEF Refuse
<1>14. ASSUME NEW c \in Call, NEW n \in Node, DryRun(c, n) PROVE Kept(d)
  BY <1>12, <1>14 DEF DryRun
<1>15. ASSUME NEW c \in Call, NEW n \in Node, NEW ok \in BOOLEAN, Converge(c, n, ok) PROVE Kept(d)
  <2>1. UNCHANGED <<at, plan, todo, clean, store>>
    BY <1>0, <1>15, ConvergeAnswers
  <2>2. PICK r \in {"ok", "error"} : Answer(c, n, r) /\ (r = "ok" => <<c, n>> \in done')
    BY <1>0, <1>15, ConvergeAnswers
  <2>3. newest' = [newest EXCEPT ![n] = IF newest[n] < at[c] THEN at[c] ELSE newest[n]]
    BY <1>15 DEF Converge
  <2>4. at[c] <= newest'[n]
    BY <1>02, <2>3
  <2> QED
    BY <1>12, <2>1, <2>2, <2>4
<1> QED
  BY <1>2, <1>3, <1>4, <1>5, <1>6, <1>7, <1>8, <1>9, <1>10, <1>11, <1>13, <1>14, <1>15,
     Zenon DEF Next

-----------------------------------------------------------------------------
(* The records and the nodes.                                              *)

LEMMA StampsKept ==
    ASSUME Inv, Next
    PROVE  StampsDiffer'
<1>0. TypeOK /\ StampsDiffer /\ \A c \in Call : at[c] <= now
  BY DEF Inv, CallInv
<1>1. ASSUME UNCHANGED at PROVE StampsDiffer'
  BY <1>0, <1>1 DEF StampsDiffer
<1>2. ASSUME NEW c \in Call, Stamp(c) PROVE StampsDiffer'
  <2>1. at' = [at EXCEPT ![c] = now + 1] /\ now \in Nat /\ at \in [Call -> Nat]
    BY <1>0, <1>2 DEF Stamp, TypeOK
  <2>2. at'[c] = now + 1 /\ \A d \in Call \ {c} : at'[d] = at[d] /\ at[d] < now + 1
    BY <1>0, <2>1
  <2> QED
    BY <1>0, <2>1, <2>2 DEF StampsDiffer
<1>3. ASSUME NEW v \in Views, Refresh(v) PROVE StampsDiffer'
  BY <1>1, <1>3 DEF Refresh
<1>4. ASSUME NEW c \in Call, NEW i \in Intents, Begin(c, i) PROVE StampsDiffer'
  BY <1>1, <1>4 DEF Begin
<1>5. ASSUME NEW c \in Call, Read(c) \/ CallFails(c) \/ CallAgent(c) \/ GiveUp(c)
      PROVE StampsDiffer'
  BY <1>1, <1>5 DEF Read, CallFails, CallAgent, GiveUp
<1>6. ASSUME NEW c \in Call, NEW w \in TxResult, persistIntent(c, w) \/ finishRun(c, w)
      PROVE StampsDiffer'
  BY <1>1, <1>6 DEF persistIntent, finishRun
<1>7. ASSUME NEW c \in Call, NEW n \in Node, Refuse(c, n) \/ DryRun(c, n) PROVE StampsDiffer'
  BY <1>1, <1>7 DEF Refuse, DryRun
<1>8. ASSUME NEW c \in Call, NEW n \in Node, NEW ok \in BOOLEAN, Converge(c, n, ok)
      PROVE StampsDiffer'
  BY <1>1, <1>8 DEF Converge
<1>9. ASSUME NEW n \in Switching, Switch(n) PROVE StampsDiffer'
  BY <1>1, <1>9 DEF Switch, core
<1>10. CASE RefreshFails \/ Restart
  BY <1>1, <1>10 DEF RefreshFails, Restart
<1> QED
  BY <1>2, <1>3, <1>4, <1>5, <1>6, <1>7, <1>8, <1>9, <1>10, Zenon DEF Next

\* Nothing is carried out on the node: who answered for it still does.
LEMMA LiveQuiet ==
    ASSUME NEW n \in Node, LiveInv(n), \A c \in Call : Kept(c),
           n \in live' <=> n \in live, n \in overtaken' <=> n \in overtaken,
           newest'[n] = newest[n]
    PROVE  LiveInv(n)'
  BY DEF LiveInv, Kept

\* A request is carried out: it answers for the node, unless it is older than
\* one that was carried out before.
LEMMA LiveConverge ==
    ASSUME Inv, TypeOK', \A d \in Call : Kept(d), NEW c \in Call, NEW n \in Node, NEW ok \in BOOLEAN,
           Converge(c, n, ok), NEW m \in Node
    PROVE  LiveInv(m)'
<1>0. TypeOK /\ LiveInv(m) /\ CallInv(c) /\ RequestInv(c, n)
  BY DEF Inv
<1>01. at \in [Call -> Nat] /\ newest \in [Node -> Nat]
  BY <1>0 DEF TypeOK
<1>1. /\ UNCHANGED <<at, plan, todo, rows>>
      /\ newest' = [newest EXCEPT ![n] = IF newest[n] < at[c] THEN at[c] ELSE newest[n]]
      /\ \A k \in Node \ {n} : k \in live' <=> k \in live
      /\ overtaken' = IF at[c] < newest[n] THEN overtaken \cup {n} ELSE overtaken \ {n}
  <2>1. newest' = [newest EXCEPT ![n] = IF newest[n] < at[c] THEN at[c] ELSE newest[n]]
    BY DEF Converge
  <2>2. overtaken' = IF at[c] < newest[n] THEN overtaken \cup {n} ELSE overtaken \ {n}
    BY DEF Converge
  <2>3. UNCHANGED <<at, plan, todo, rows>> /\ \A k \in Node \ {n} : k \in live' <=> k \in live
    BY <1>0, ConvergeAnswers
  <2> QED
    BY <2>1, <2>2, <2>3
<1>2. PICK r \in {"ok", "error"} :
         /\ Answer(c, n, r)
         /\ r = "ok" => live' = IF n \in plan[c].start THEN live \cup {n} ELSE live \ {n}
  <2>1. CASE ok = TRUE
    BY <2>1 DEF Converge
  <2>2. CASE ok = FALSE
    BY <2>2 DEF Converge
  <2> QED
    BY <2>1, <2>2
<1>3. CASE m # n
  BY <1>0, <1>01, <1>1, <1>3, LiveQuiet
<1>4. CASE m = n
  <2>1. SUFFICES ASSUME n \in live', n \notin overtaken'
                 PROVE  at'[c] = newest'[n] /\ Answers(c, n)'
    BY <1>4 DEF LiveInv
  <2>2. at[c] = newest'[n]
    BY <1>01, <1>1, <2>1
  <2>3. r = "ok" => n \in plan[c].start
    BY <1>2, <2>1
  <2>4. /\ <<c, n>> \in sent /\ sent' = sent \ {<<c, n>>}
        /\ \/ pc'[c] = pc[c] /\ reply'[c] = reply[c]
           \/ pc[c] = "wait" /\ Current(c) = n /\ pc'[c] = "finish" /\ reply'[c] = r
    <3>1. r \in {"ok", "dry", "error"}
      OBVIOUS
    <3> QED
      BY <1>0, <1>2, <3>1, AnswerEffect
  <2>5. Current(c)' = Current(c)
    BY <1>1 DEF Current
  <2>6. rows[c][n] \in {"running", "failed"} /\ <<c, n>> \notin sent'
    BY <1>0, <2>4 DEF RequestInv
  <2>7. n \in todo[c] => /\ Current(c) = n
                         /\ pc[c] = "wait" \/ (pc[c] = "finish" /\ reply[c] = "error")
    BY <1>0, <2>4 DEF RequestInv
  <2>8. n \in todo[c] => \/ pc'[c] = "wait"
                         \/ /\ pc'[c] = "finish" /\ reply'[c] # "dry"
                            /\ n \notin plan[c].start => reply'[c] # "ok"
    BY <2>3, <2>4, <2>7
  <2> QED
    BY <1>1, <2>2, <2>5, <2>6, <2>7, <2>8 DEF Answers
<1> QED
  BY <1>3, <1>4

LEMMA LiveKept ==
    ASSUME Inv, Next, NEW m \in Node
    PROVE  LiveInv(m)'
<1>0. TypeOK' /\ LiveInv(m) /\ \A d \in Call : Kept(d)
  BY TypeKept, CallsKept DEF Inv
<1>1. ASSUME UNCHANGED <<live, overtaken, newest>> PROVE LiveInv(m)'
  BY <1>0, <1>1, LiveQuiet
<1>2. ASSUME NEW v \in Views, Refresh(v) PROVE LiveInv(m)'
  BY <1>1, <1>2 DEF Refresh, agents, history
<1>3. ASSUME NEW c \in Call, NEW i \in Intents, Begin(c, i) PROVE LiveInv(m)'
  BY <1>1, <1>3 DEF Begin, agents
<1>4. ASSUME NEW c \in Call, Read(c) \/ Stamp(c) \/ CallFails(c) \/ CallAgent(c) \/ GiveUp(c)
      PROVE LiveInv(m)'
  BY <1>1, <1>4 DEF Read, Stamp, CallFails, CallAgent, GiveUp, agents, history
<1>5. ASSUME NEW c \in Call, NEW w \in TxResult, persistIntent(c, w) \/ finishRun(c, w)
      PROVE LiveInv(m)'
  BY <1>1, <1>5 DEF persistIntent, finishRun, agents, history
<1>6. ASSUME NEW c \in Call, NEW n \in Node, Refuse(c, n) \/ DryRun(c, n) PROVE LiveInv(m)'
  BY <1>1, <1>6 DEF Refuse, DryRun, history
<1>7. ASSUME NEW c \in Call, NEW n \in Node, NEW ok \in BOOLEAN, Converge(c, n, ok)
      PROVE LiveInv(m)'
  BY <1>0, <1>7, LiveConverge
<1>8. ASSUME NEW n \in Switching, Switch(n) PROVE LiveInv(m)'
  BY <1>1, <1>8 DEF Switch, history
<1>9. CASE RefreshFails \/ Restart
  BY <1>1, <1>9 DEF RefreshFails, Restart, agents, history
<1> QED
  BY <1>2, <1>3, <1>4, <1>5, <1>6, <1>7, <1>8, <1>9, Zenon DEF Next

LEMMA InvInit == Init => Inv
<1> SUFFICES ASSUME Init PROVE Inv
  OBVIOUS
<1> USE Constants
<1>1. TypeOK
  <2>1. NoSnapshot \in Snapshot
    BY DEF NoSnapshot, Snapshot
  <2>2. NoPlan \in [term : Nat, start : SUBSET Node, stop : SUBSET Node]
    BY DEF NoPlan
  <2>3. /\ snapshot \in Snapshot /\ snap \in [Call -> Snapshot]
        /\ plan \in [Call -> [term : Nat, start : SUBSET Node, stop : SUBSET Node]]
        /\ intent \in [Call -> Intents \cup {None}]
        /\ active \in [Call -> SUBSET Node] /\ todo \in [Call -> SUBSET Node]
        /\ clean \in [Call -> BOOLEAN] /\ dry \in [Node -> BOOLEAN]
    BY <2>1, <2>2, Zenon DEF Init
  <2>4. /\ pc \in [Call -> {"new", "read", "stamp", "persist", "call", "wait", "finish", "done"}]
        /\ reply \in [Call -> Reply] /\ rows \in [Call -> [Node -> Status]]
    BY DEF Init, Reply, Status
  <2>5. /\ now \in Nat /\ at \in [Call -> Nat] /\ fence \in [Node -> Nat] /\ newest \in [Node -> Nat]
    BY DEF Init
  <2> QED
    BY <2>3, <2>4, <2>5, Zenon DEF TypeOK, Init, Snapshot
<1>2. StampsDiffer
  BY DEF Init, StampsDiffer
<1>3. \A c \in Call : CallInv(c)
  BY DEF Init, CallInv
<1>4. \A c \in Call, n \in Node : RequestInv(c, n)
  BY DEF Init, RequestInv
<1>5. \A n \in Node : LiveInv(n)
  BY DEF Init, LiveInv
<1> QED
  BY <1>1, <1>2, <1>3, <1>4, <1>5 DEF Inv

LEMMA InvNext == Inv /\ [Next]_vars => Inv'
<1> SUFFICES ASSUME Inv, [Next]_vars PROVE Inv'
  OBVIOUS
<1>1. CASE Next
  BY <1>1, TypeKept, StampsKept, CallsKept, LiveKept DEF Inv, Kept
<1>2. CASE UNCHANGED vars
  <2>1. TypeOK' /\ StampsDiffer'
    BY <1>2, Zenon DEF Inv, TypeOK, StampsDiffer, vars, core, store, agents, history
  <2>2. \A c \in Call : CallInv(c)'
    BY <1>2 DEF Inv, CallInv, Current, Runs, Evident, vars, core, store, agents, history
  <2>3. \A c \in Call, n \in Node : RequestInv(c, n)'
    BY <1>2 DEF Inv, RequestInv, Current, vars, core, store, agents, history
  <2>4. \A n \in Node : LiveInv(n)'
    <3>1. \A c \in Call, n \in Node : Answers(c, n)' <=> Answers(c, n)
      BY <1>2 DEF Answers, Current, vars, core, store, agents
    <3> QED
      BY <1>2, <3>1 DEF Inv, LiveInv, vars, core, agents, history
  <2> QED
    BY <2>1, <2>2, <2>3, <2>4 DEF Inv
<1> QED
  BY <1>1, <1>2

\* The invariant of the write path.
THEOREM Invariance == Spec => []Inv
  BY InvInit, InvNext, PTL DEF Spec

\* Whoever answers for a live node is not outdone by a successful stop of a
\* later call: that one would be the newest the node has carried out.
LEMMA LiveIsActive ==
    ASSUME Inv, NEW n \in live, n \notin overtaken
    PROVE  PossiblyActive(n)
<1>0. TypeOK /\ StampsDiffer /\ (\A c \in Call : CallInv(c)) /\ n \in Node /\ LiveInv(n)
  BY DEF Inv, TypeOK
<1>1. PICK c \in Call : at[c] = newest[n] /\ Answers(c, n)
  BY <1>0 DEF LiveInv
<1>2. c \in Attempts(n)
  BY <1>1 DEF Attempts, Answers
<1>3. PICK d \in Attempts(n) : Latest(n, d)
  <2>1. \A e \in Call : at[e] <= now
    BY <1>0 DEF CallInv
  <2> QED
    BY <1>0, <1>2, <2>1, LatestExists
<1>4. d \in Call /\ at[c] <= at[d] /\ at[c] \in Nat /\ at[d] \in Nat /\ newest[n] \in Nat
  BY <1>0, <1>1, <1>2, <1>3 DEF Latest, Attempts, TypeOK
<1>5. n \in plan[d].start \/ rows[d][n] # "succeeded"
  <2>1. CASE d = c
    BY <1>1, <2>1 DEF Answers
  <2>2. CASE d # c
    <3>1. at[c] > 0
      BY <1>0, <1>1 DEF Answers, CallInv
    <3>2. at[c] < at[d]
      BY <1>0, <1>4, <2>2, <3>1 DEF StampsDiffer
    <3>3. rows[d][n] = "succeeded" => at[d] <= newest[n]
      BY <1>0, <1>4 DEF CallInv
    <3> QED
      BY <1>1, <1>4, <3>2, <3>3
  <2> QED
    BY <2>1, <2>2
<1> QED
  BY <1>3, <1>4, <1>5 DEF PossiblyActive

\* Wherever the app runs the view of possibly active nodes says that it may,
\* whatever fails, times out or is cut off: only the node's own carrying out
\* of an older request after a newer one escapes the records.
THEOREM LiveNodesAreRecorded == Spec => []InactiveUnlessOvertaken
<1>1. Inv => InactiveUnlessOvertaken
  BY LiveIsActive DEF InactiveUnlessOvertaken, Inv
<1> QED
  BY <1>1, Invariance, PTL

\* A call that returns without an error has a closed row for every node of its
\* plan, and every one of these nodes has carried its request out.
THEOREM EvidenceHolds == Spec => []EvidenceIsTrue
<1>1. Inv => EvidenceIsTrue
  <2> SUFFICES ASSUME Inv, NEW c \in Call, pc[c] = "done" /\ clean[c],
                      NEW n \in plan[c].start \cup plan[c].stop
               PROVE  rows[c][n] \in {"succeeded", "dry_run"} /\ <<c, n>> \in done
    BY Zenon DEF EvidenceIsTrue
  <2>1. CallInv(c) /\ n \in Runs(c)
    BY DEF Inv, Runs
  <2>2. todo[c] = {}
    BY <2>1 DEF CallInv
  <2>3. Evident(c, n)
    BY <2>1, <2>2 DEF CallInv
  <2> QED
    BY <2>3 DEF Evident
<1> QED
  BY <1>1, Invariance, PTL

-----------------------------------------------------------------------------
(* A rollout that has the fleet for itself.                                *)

\* What the view says of a node depends on the runs on it.
LEMMA SameView ==
    ASSUME NEW n \in Node,
           \A d \in Call : rows'[d][n] = rows[d][n],
           \A d \in Attempts(n) : at'[d] = at[d] /\ plan'[d] = plan[d]
    PROVE  PossiblyActive(n)' <=> PossiblyActive(n)
<1>1. Attempts(n)' = Attempts(n) /\ \A d \in Attempts(n) : d \in Call
  BY DEF Attempts
<1>2. \A d \in Call : Latest(n, d)' <=> Latest(n, d)
  BY <1>1 DEF Latest
<1>3. \A d \in Call : Latest(n, d) => d \in Attempts(n)
  BY DEF Latest
<1> QED
  BY <1>2, <1>3 DEF PossiblyActive

LEMMA SoleQuiet ==
    ASSUME NEW c \in Call, SoleInv(c),
           UNCHANGED <<pc, active, at, plan, todo, reply, clean, rows, sent, live, overtaken>>
    PROVE  SoleInv(c)'
<1>1. \A n \in Node : LeftOut(n)' <=> LeftOut(n)
  BY SameView DEF LeftOut
<1>2. Runs(c)' = Runs(c) /\ Current(c)' = Current(c) /\ \A d \in Call : InProgress(d)' <=> InProgress(d)
  BY DEF Runs, Current, InProgress
<1> HIDE DEF Runs, Current, LeftOut
<1> QED
  BY <1>1, <1>2 DEF SoleInv

\* A step of the call that touches no node and no row.
LEMMA SoleOwn ==
    ASSUME TypeOK, NEW c \in Call, SoleInv(c),
           UNCHANGED <<at, plan, todo, rows, live, overtaken>>, clean'[c] = clean[c],
           pc[c] \in {"call", "wait", "finish"}, pc'[c] \in {"call", "wait", "finish"},
           \A d \in Call \ {c} : pc'[d] = pc[d] /\ \A n \in Node : <<d, n>> \in sent' => <<d, n>> \in sent,
           pc'[c] = "finish" => reply'[c] # "ok" \/ (pc[c] = "finish" /\ reply[c] = "ok")
    PROVE  SoleInv(c)'
<1>1. \A n \in Node : LeftOut(n)' <=> LeftOut(n)
  BY SameView DEF LeftOut
<1>2. Runs(c)' = Runs(c) /\ Current(c)' = Current(c)
  BY DEF Runs, Current
<1>3. \A d \in Call \ {c} : InProgress(d)' <=> InProgress(d)
  BY DEF InProgress
<1> HIDE DEF Runs, Current, LeftOut, InProgress
<1>4. /\ \A d \in Call \ {c} : ~InProgress(d)' /\ \A n \in Node : <<d, n>> \notin sent'
      /\ \A d \in Call \ {c} : at'[d] < at'[c]
  BY <1>3 DEF SoleInv
<1>5. \A n \in Node \ Runs(c)' : LeftOut(n)' /\ rows'[c][n] = "none"
  BY <1>1, <1>2 DEF SoleInv
<1>6. clean'[c] => \A n \in Runs(c)' \ todo'[c] :
          rows'[c][n] = "succeeded" => (n \in live' <=> n \in plan'[c].start)
  BY <1>2 DEF SoleInv
<1>7. pc'[c] = "finish" /\ reply'[c] = "ok" =>
          (Current(c)' \in live' <=> Current(c)' \in plan'[c].start)
  BY <1>2 DEF SoleInv
<1> QED
  BY <1>4, <1>5, <1>6, <1>7 DEF SoleInv

LEMMA SoleRead ==
    ASSUME Inv, NEW c \in Call, SoleInv(c), Read(c), InProgress(c)'
    PROVE  SoleInv(c)'
<1>0. TypeOK /\ pc \in [Call -> {"new", "read", "stamp", "persist", "call", "wait", "finish", "done"}]
  BY DEF Inv, TypeOK
<1>1. CASE Return({c})
  BY <1>0, <1>1, ReturnOne DEF InProgress
<1>2. CASE /\ pc' = [pc EXCEPT ![c] = "stamp"]
           /\ active' = [active EXCEPT ![c] = {n \in Node : PossiblyActive(n)}]
  <2>1. UNCHANGED <<at, plan, rows, sent, live, overtaken>> /\ pc'[c] = "stamp"
        /\ \A d \in Call \ {c} : pc'[d] = pc[d]
    BY <1>0, <1>2 DEF Read, store, agents, history
  <2>2. active'[c] = {n \in Node : PossiblyActive(n)}
    BY <1>0, <1>2 DEF TypeOK
  <2>3. ASSUME NEW n \in Node \ active'[c] PROVE LeftOut(n)'
    <3>1. ~PossiblyActive(n)
      BY <2>2
    <3>2. n \in live => n \in overtaken
      BY <3>1, LiveIsActive
    <3>3. ~PossiblyActive(n)'
      BY <2>1, <3>1, SameView
    <3> QED
      BY <2>1, <3>2, <3>3 DEF LeftOut
  <2>4. \A d \in Call \ {c} : ~InProgress(d)' /\ \A n \in Node : <<d, n>> \notin sent'
    BY <2>1 DEF SoleInv, InProgress
  <2> QED
    BY <2>1, <2>3, <2>4 DEF SoleInv
<1> QED
  BY <1>1, <1>2, Zenon DEF Read

LEMMA SoleStamp ==
    ASSUME Inv, NEW c \in Call, SoleInv(c), Stamp(c)
    PROVE  SoleInv(c)'
<1>0. /\ TypeOK /\ CallInv(c) /\ pc[c] = "stamp" /\ now \in Nat /\ at \in [Call -> Nat]
      /\ \A d \in Call : at[d] <= now
  BY DEF Inv, TypeOK, CallInv, Stamp
<1>1. /\ UNCHANGED <<rows, sent, live, overtaken>> /\ pc'[c] = "persist"
      /\ at' = [at EXCEPT ![c] = now + 1]
      /\ \A d \in Call \ {c} : pc'[d] = pc[d] /\ plan'[d] = plan[d]
  BY <1>0 DEF Stamp, TypeOK, store, agents, history
<1>2. plan'[c] = planDeploymentRuns(snap[c].term, active[c], ResolvePlacement(intent[c], snap[c]))
  BY <1>0 DEF Stamp, TypeOK
<1>3. active[c] \subseteq Runs(c)'
  BY <1>2 DEF Runs, planDeploymentRuns
<1>4. \A d \in Call \ {c} : at'[d] = at[d] /\ at[d] < at'[c]
  BY <1>0, <1>1
<1>5. \A n \in Node : rows[c][n] = "none"
  BY <1>0 DEF CallInv
<1>6. ASSUME NEW n \in Node \ Runs(c)' PROVE LeftOut(n)' /\ rows'[c][n] = "none"
  <2>1. LeftOut(n)
    BY <1>0, <1>3 DEF SoleInv
  <2>2. \A d \in Attempts(n) : d \in Call \ {c}
    BY <1>5 DEF Attempts
  <2>3. PossiblyActive(n)' <=> PossiblyActive(n)
    BY <1>1, <1>4, <2>2, SameView
  <2> QED
    BY <1>1, <1>5, <2>1, <2>3 DEF LeftOut
<1>7. \A d \in Call \ {c} : ~InProgress(d)' /\ \A n \in Node : <<d, n>> \notin sent'
  BY <1>1 DEF SoleInv, InProgress
<1> HIDE DEF Runs, LeftOut
<1> QED
  BY <1>1, <1>4, <1>6, <1>7 DEF SoleInv

LEMMA SolePersist ==
    ASSUME Inv, NEW c \in Call, SoleInv(c), NEW w \in TxResult, persistIntent(c, w), InProgress(c)'
    PROVE  SoleInv(c)'
<1>0. TypeOK /\ CallInv(c) /\ pc[c] = "persist"
  BY DEF Inv, persistIntent
<1>1. CASE Return({c})
  BY <1>0, <1>1, ReturnOne DEF InProgress
<1>2. CASE /\ w = "ok"
           /\ pc' = [pc EXCEPT ![c] = "call"]
           /\ todo' = [todo EXCEPT ![c] = Runs(c)]
  <2>1. /\ UNCHANGED <<at, plan, sent, live, overtaken>> /\ pc'[c] = "call" /\ todo'[c] = Runs(c)
        /\ \A d \in Call \ {c} : pc'[d] = pc[d]
    BY <1>0, <1>2 DEF persistIntent, TypeOK, agents, history
  <2>2. /\ \A n \in Node : rows'[c][n] = IF n \in Runs(c) THEN "running" ELSE "none"
        /\ \A d \in Call \ {c} : rows'[d] = rows[d]
    BY <1>0, <1>2 DEF persistIntent, TypeOK, Runs
  <2>3. Runs(c)' = Runs(c)
    BY <2>1 DEF Runs
  <2>4. ASSUME NEW n \in Node \ Runs(c) PROVE LeftOut(n)' /\ rows'[c][n] = "none"
    <3>1. LeftOut(n) /\ rows[c][n] = "none"
      BY <1>0 DEF SoleInv
    <3>2. \A d \in Call : rows'[d][n] = rows[d][n]
      BY <2>2, <3>1
    <3>3. PossiblyActive(n)' <=> PossiblyActive(n)
      BY <2>1, <3>2, SameView
    <3> QED
      BY <2>1, <2>2, <3>1, <3>3 DEF LeftOut
  <2>5. \A d \in Call \ {c} : ~InProgress(d)' /\ \A n \in Node : <<d, n>> \notin sent'
    BY <2>1 DEF SoleInv, InProgress
  <2>6. \A d \in Call \ {c} : at'[d] < at'[c]
    BY <1>0, <2>1 DEF SoleInv
  <2> HIDE DEF Runs, LeftOut
  <2> QED
    BY <2>1, <2>3, <2>4, <2>5, <2>6 DEF SoleInv
<1> QED
  BY <1>1, <1>2, Zenon DEF persistIntent, Runs

LEMMA SoleFinish ==
    ASSUME Inv, NEW c \in Call, SoleInv(c), NEW w \in TxResult, finishRun(c, w), InProgress(c)'
    PROVE  SoleInv(c)'
<1>0. TypeOK /\ CallInv(c) /\ pc[c] = "finish" /\ todo[c] # {}
  BY DEF Inv, CallInv, finishRun
<1>1. CASE Return({c})
  BY <1>0, <1>1, ReturnOne DEF InProgress
<1>2. CASE /\ pc' = [pc EXCEPT ![c] = "call"]
           /\ todo' = [todo EXCEPT ![c] = todo[c] \ {Current(c)}]
  <2>0. Current(c) \in todo[c] /\ Current(c) \in Node
    BY <1>0, CurrentIsTodo
  <2>1. PICK n \in Node : n = Current(c)
    BY <2>0
  <2>2. /\ UNCHANGED <<at, plan, sent, live, overtaken>> /\ pc'[c] = "call"
        /\ todo'[c] = todo[c] \ {n}
        /\ \A d \in Call \ {c} : pc'[d] = pc[d]
    BY <1>0, <1>2, <2>1 DEF finishRun, TypeOK, agents, history
  <2>3. /\ \A d \in Call, m \in Node : <<d, m>> # <<c, n>> => rows'[d][m] = rows[d][m]
        /\ rows'[c][n] = IF w = "lost" THEN "running" ELSE StatusOf(reply[c])
    <3>1. rows' = IF w = "lost" THEN rows ELSE [rows EXCEPT ![c][n] = StatusOf(reply[c])]
      BY <2>1, Zenon DEF finishRun
    <3>2. rows[c][n] = "running" /\ StatusOf(reply[c]) \in Status
      BY <1>0, <2>0, <2>1 DEF CallInv, StatusOf, Status
    <3> QED
      BY <1>0, <3>1, <3>2, FinishRows
  <2>4. clean'[c] => clean[c] /\ w = "ok"
    BY <1>0, Zenon DEF finishRun, TypeOK
  <2>5. Runs(c)' = Runs(c) /\ Runs(c) \subseteq Node
    BY <1>0, <2>2 DEF Runs, TypeOK
  <2>6. n \in Runs(c)
    BY <1>0, <2>0, <2>1 DEF SoleInv, CallInv
  <2>7. ASSUME NEW m \in Node \ Runs(c) PROVE LeftOut(m)' /\ rows'[c][m] = "none"
    <3>1. LeftOut(m) /\ rows[c][m] = "none"
      BY <1>0 DEF SoleInv
    <3>2. \A d \in Call : rows'[d][m] = rows[d][m]
      BY <2>3, <2>6
    <3>3. PossiblyActive(m)' <=> PossiblyActive(m)
      BY <2>2, <3>2, SameView
    <3> QED
      BY <2>2, <3>1, <3>2, <3>3 DEF LeftOut
  <2>8. clean'[c] => \A m \in Runs(c) \ todo'[c] :
            rows'[c][m] = "succeeded" => (m \in live <=> m \in plan[c].start)
    <3>1. ASSUME clean'[c], NEW m \in Runs(c) \ todo'[c], rows'[c][m] = "succeeded"
          PROVE  m \in live <=> m \in plan[c].start
      <4>1. CASE m = n
        <5>1. reply[c] = "ok"
          BY <2>3, <2>4, <3>1, <4>1 DEF StatusOf
        <5> QED
          BY <1>0, <2>1, <4>1, <5>1 DEF SoleInv
      <4>2. CASE m # n
        <5>1. rows[c][m] = "succeeded" /\ m \in Runs(c) \ todo[c]
          BY <2>2, <2>3, <2>5, <3>1, <4>2
        <5> QED
          BY <1>0, <2>4, <3>1, <5>1 DEF SoleInv
      <4> QED
        BY <4>1, <4>2
    <3> QED
      BY <3>1
  <2>9. \A d \in Call \ {c} : ~InProgress(d)' /\ \A m \in Node : <<d, m>> \notin sent'
    BY <2>2 DEF SoleInv, InProgress
  <2>10. \A d \in Call \ {c} : at'[d] < at'[c]
    BY <1>0, <2>2 DEF SoleInv
  <2> HIDE DEF Runs, LeftOut
  <2> QED
    BY <2>2, <2>5, <2>7, <2>8, <2>9, <2>10 DEF SoleInv
<1> QED
  BY <1>1, <1>2, Zenon DEF finishRun

\* A convergence of the sole rollout: it is at that node, or has given it up
\* and will not end without an error.
LEMMA SoleConverge ==
    ASSUME Inv, NEW c \in Call, SoleInv(c), InProgress(c), NEW n \in Node, NEW ok \in BOOLEAN,
           Converge(c, n, ok)
    PROVE  SoleInv(c)'
<1>0. TypeOK /\ CallInv(c) /\ RequestInv(c, n)
  BY DEF Inv
<1>1. /\ UNCHANGED <<at, plan, todo, rows, clean>>
      /\ \A k \in Node \ {n} : k \in live' <=> k \in live
  BY <1>0, ConvergeAnswers
<1>2. \A k \in Node \ {n} : k \in overtaken' <=> k \in overtaken
  BY DEF Converge
<1>3. PICK r \in {"ok", "error"} :
         /\ Answer(c, n, r)
         /\ r = "ok" => live' = IF n \in plan[c].start THEN live \cup {n} ELSE live \ {n}
  <2>1. CASE ok = TRUE
    BY <2>1 DEF Converge
  <2>2. CASE ok = FALSE
    BY <2>2 DEF Converge
  <2> QED
    BY <2>1, <2>2
<1>4. /\ <<c, n>> \in sent /\ sent' = sent \ {<<c, n>>}
      /\ \A d \in Call \ {c} : pc'[d] = pc[d]
      /\ \/ pc'[c] = pc[c] /\ reply'[c] = reply[c]
         \/ pc[c] = "wait" /\ Current(c) = n /\ pc'[c] = "finish" /\ reply'[c] = r
  <2>1. r \in {"ok", "dry", "error"}
    OBVIOUS
  <2> QED
    BY <1>0, <1>3, <2>1, AnswerEffect
<1>5. pc[c] \in {"call", "wait", "finish"}
  BY <1>0, <1>4 DEF CallInv, InProgress, TypeOK
<1>6. rows[c][n] \in {"running", "failed"}
  BY <1>0, <1>4 DEF RequestInv
<1>7. Runs(c)' = Runs(c) /\ Current(c)' = Current(c) /\ Runs(c) \subseteq Node
  BY <1>0, <1>1 DEF Runs, Current, TypeOK
<1>8. n \in Runs(c)
  BY <1>5, <1>6 DEF SoleInv
<1>9. ASSUME NEW m \in Node \ Runs(c) PROVE LeftOut(m)' /\ rows'[c][m] = "none"
  <2>1. LeftOut(m) /\ rows[c][m] = "none"
    BY <1>5 DEF SoleInv
  <2>2. PossiblyActive(m)' <=> PossiblyActive(m)
    BY <1>1, SameView
  <2> QED
    BY <1>1, <1>2, <1>8, <2>1, <2>2 DEF LeftOut
<1>10. ASSUME clean[c], NEW m \in Runs(c) \ todo[c], rows[c][m] = "succeeded"
       PROVE  m \in live' <=> m \in plan[c].start
  <2>1. m # n /\ m \in Node
    BY <1>6, <1>7, <1>10
  <2>2. m \in live <=> m \in plan[c].start
    BY <1>5, <1>10 DEF SoleInv
  <2> QED
    BY <1>1, <2>1, <2>2
<1>11. pc'[c] = "finish" /\ reply'[c] = "ok" =>
          (Current(c) \in live' <=> Current(c) \in plan[c].start)
  <2>1. CASE pc'[c] = pc[c] /\ reply'[c] = reply[c]
    <3>1. SUFFICES ASSUME pc[c] = "finish", reply[c] = "ok"
                   PROVE  Current(c) \in live' <=> Current(c) \in plan[c].start
      BY <2>1
    <3>2. Current(c) \in todo[c] /\ Current(c) \in Node
      BY <1>0, <3>1, CurrentIsTodo DEF CallInv
    <3>3. Current(c) # n
      BY <1>0, <1>4, <3>1, <3>2 DEF RequestInv
    <3>4. Current(c) \in live <=> Current(c) \in plan[c].start
      BY <3>1 DEF SoleInv
    <3> QED
      BY <1>1, <3>2, <3>3, <3>4
  <2>2. CASE Current(c) = n /\ reply'[c] = r
    BY <1>3, <2>2
  <2> QED
    BY <1>4, <2>1, <2>2
<1>12. \A d \in Call \ {c} : ~InProgress(d)' /\ \A m \in Node : <<d, m>> \notin sent'
  BY <1>4 DEF SoleInv, InProgress
<1>13. \A d \in Call \ {c} : at'[d] < at'[c]
  BY <1>1, <1>5 DEF SoleInv
<1>14. pc'[c] \in {"call", "wait", "finish"}
  BY <1>4, <1>5
<1> HIDE DEF Runs, LeftOut, Current
<1> QED
  BY <1>1, <1>7, <1>9, <1>10, <1>11, <1>12, <1>13, <1>14 DEF SoleInv

\* Steps that go on with a call leave alone who had the fleet; the call is at
\* work, or has a request under way.
LEMMA SoleCallStep ==
    ASSUME Inv, Sole, NEW b \in Call, NEW c \in alone, InProgress(c)', UNCHANGED alone,
           \/ Read(b) \/ Stamp(b) \/ CallFails(b) \/ CallAgent(b) \/ GiveUp(b)
           \/ \E w \in TxResult : persistIntent(b, w) \/ finishRun(b, w)
           \/ \E n \in Node : \/ Refuse(b, n) \/ DryRun(b, n)
                              \/ \E ok \in BOOLEAN : Converge(b, n, ok)
    PROVE  SoleInv(c)'
<1>0. TypeOK /\ (\A d \in Call : CallInv(d)) /\ c \in Call
  BY DEF Inv, TypeOK
<1>01. pc \in [Call -> {"new", "read", "stamp", "persist", "call", "wait", "finish", "done"}]
  BY <1>0 DEF TypeOK
<1>1. InProgress(b) \/ \E n \in Node : <<b, n>> \in sent
  <2>1. CASE Read(b) \/ Stamp(b) \/ CallFails(b) \/ CallAgent(b) \/ GiveUp(b)
    BY <2>1 DEF Read, Stamp, CallFails, CallAgent, GiveUp, InProgress
  <2>2. ASSUME NEW w \in TxResult, persistIntent(b, w) \/ finishRun(b, w)
        PROVE  InProgress(b)
    BY <2>2 DEF persistIntent, finishRun, InProgress
  <2>3. ASSUME NEW n \in Node, Refuse(b, n) \/ DryRun(b, n)
        PROVE  <<b, n>> \in sent
    BY <2>3 DEF Refuse, DryRun, Answer
  <2>4. ASSUME NEW n \in Node, NEW ok \in BOOLEAN, Converge(b, n, ok)
        PROVE  <<b, n>> \in sent
    BY <2>4 DEF Converge, Answer
  <2> QED
    BY <2>1, <2>2, <2>3, <2>4, Zenon
<1>2. InProgress(c)
  <2>1. CASE b = c
    <3>1. SUFFICES ASSUME ~InProgress(c) PROVE FALSE
      OBVIOUS
    <3>2. PICK n \in Node : <<c, n>> \in sent
      BY <1>1, <2>1, <3>1
    <3>3. pc[c] \in {"new", "done"}
      BY <3>1 DEF InProgress
    <3>4. pc'[c] = pc[c]
      <4>1. CASE Read(c) \/ Stamp(c) \/ CallFails(c) \/ CallAgent(c) \/ GiveUp(c)
        BY <3>3, <4>1 DEF Read, Stamp, CallFails, CallAgent, GiveUp
      <4>2. ASSUME NEW w \in TxResult, persistIntent(c, w) \/ finishRun(c, w)
            PROVE  pc'[c] = pc[c]
        BY <3>3, <4>2 DEF persistIntent, finishRun
      <4>3. ASSUME NEW m \in Node, Refuse(c, m) \/ DryRun(c, m)
            PROVE  pc'[c] = pc[c]
        BY <3>3, <4>3 DEF Refuse, DryRun, Answer
      <4>4. ASSUME NEW m \in Node, NEW ok \in BOOLEAN, Converge(c, m, ok)
            PROVE  pc'[c] = pc[c]
        BY <3>3, <4>4 DEF Converge, Answer
      <4> QED
        BY <2>1, <4>1, <4>2, <4>3, <4>4, Zenon
    <3> QED
      BY <3>1, <3>4 DEF InProgress
  <2>2. CASE b # c
    <3>1. Quiet(c)
      BY <1>0, <2>2, OthersQuiet
    <3> QED
      BY <3>1 DEF Quiet, InProgress
  <2> QED
    BY <2>1, <2>2
<1>3. SoleInv(c)
  BY <1>2 DEF Sole
<1>4. b = c
  BY <1>1, <1>3 DEF SoleInv
<1>5. CASE Read(b)
  BY <1>0, <1>3, <1>4, <1>5, SoleRead
<1>6. CASE Stamp(b)
  BY <1>0, <1>3, <1>4, <1>6, SoleStamp
<1>7. CASE CallFails(b) \/ GiveUp(b) \/ CallAgent(b)
  <2>1. /\ UNCHANGED <<at, plan, todo, rows, live, overtaken, clean>>
        /\ pc[c] \in {"call", "wait"} /\ pc'[c] \in {"wait", "finish"}
        /\ \A d \in Call \ {c} : pc'[d] = pc[d]
    BY <1>01, <1>4, <1>7 DEF CallFails, GiveUp, CallAgent, store, agents, history
  <2>2. \A d \in Call \ {c} : \A n \in Node : <<d, n>> \in sent' => <<d, n>> \in sent
    BY <1>4, <1>7 DEF CallFails, GiveUp, CallAgent, agents
  <2>3. pc'[c] = "finish" => reply'[c] = "error"
    BY <1>0, <1>4, <1>7 DEF CallFails, GiveUp, CallAgent, TypeOK
  <2> QED
    BY <1>0, <1>3, <2>1, <2>2, <2>3, SoleOwn
<1>8. ASSUME NEW w \in TxResult, persistIntent(b, w) PROVE SoleInv(c)'
  BY <1>0, <1>3, <1>4, <1>8, SolePersist
<1>9. ASSUME NEW w \in TxResult, finishRun(b, w) PROVE SoleInv(c)'
  BY <1>0, <1>3, <1>4, <1>9, SoleFinish
<1>10. ASSUME NEW n \in Node, NEW r \in {"dry", "error"}, Answer(b, n, r),
              UNCHANGED <<at, plan, todo, clean, store, live, overtaken>>
       PROVE  SoleInv(c)'
  <2>1. r \in {"ok", "dry", "error"}
    OBVIOUS
  <2>2. /\ <<c, n>> \in sent /\ sent' = sent \ {<<c, n>>}
        /\ \A d \in Call \ {c} : pc'[d] = pc[d]
        /\ \/ pc'[c] = pc[c] /\ reply'[c] = reply[c]
           \/ pc[c] = "wait" /\ pc'[c] = "finish" /\ reply'[c] = r
    BY <1>0, <1>4, <1>10, <2>1, AnswerEffect
  <2>3. pc[c] \in {"call", "wait", "finish"}
    BY <1>0, <1>01, <1>2, <2>2 DEF CallInv, InProgress
  <2> QED
    BY <1>0, <1>3, <1>10, <2>2, <2>3, SoleOwn DEF store
<1>11. ASSUME NEW n \in Node, Refuse(b, n) PROVE SoleInv(c)'
  BY <1>10, <1>11 DEF Refuse, history
<1>12. ASSUME NEW n \in Node, DryRun(b, n) PROVE SoleInv(c)'
  BY <1>10, <1>12 DEF DryRun
<1>13. ASSUME NEW n \in Node, NEW ok \in BOOLEAN, Converge(b, n, ok) PROVE SoleInv(c)'
  BY <1>0, <1>2, <1>3, <1>4, <1>13, SoleConverge
<1> QED
  BY <1>5, <1>6, <1>7, <1>8, <1>9, <1>11, <1>12, <1>13, Zenon

LEMMA SoleKept ==
    ASSUME Inv, Sole, [Next]_vars
    PROVE  Sole'
<1>0. TypeOK /\ (\A d \in Call : CallInv(d)) /\ alone \subseteq Call
  BY DEF Inv, TypeOK
<1>01. pc \in [Call -> {"new", "read", "stamp", "persist", "call", "wait", "finish", "done"}]
  BY <1>0 DEF TypeOK
<1>1. ASSUME UNCHANGED <<pc, active, at, plan, todo, reply, clean, rows, sent, live, overtaken, alone>>
      PROVE  Sole'
  <2>1. SUFFICES ASSUME NEW c \in alone, InProgress(c)' PROVE SoleInv(c)'
    BY <1>1 DEF Sole
  <2>2. c \in Call /\ InProgress(c)
    BY <1>0, <1>1, <2>1 DEF InProgress
  <2>3. SoleInv(c)
    BY <2>2 DEF Sole
  <2> QED
    BY <1>1, <2>2, <2>3, SoleQuiet
<1>2. ASSUME NEW v \in Views, Refresh(v) PROVE Sole'
  BY <1>1, <1>2 DEF Refresh, store, agents, history
<1>3. CASE RefreshFails
  BY <1>1, <1>3 DEF RefreshFails, store, agents, history
<1>4. ASSUME NEW n \in Switching, Switch(n) PROVE Sole'
  BY <1>1, <1>4 DEF Switch, core, store, history
<1>5. CASE UNCHANGED vars
  BY <1>1, <1>5 DEF vars, core, store, agents, history
<1>6. CASE Restart
  <2>1. \A c \in Call : ~InProgress(c)'
    BY <1>01, <1>6 DEF Restart, Return, InProgress
  <2> QED
    BY <1>0, <1>6, <2>1 DEF Sole, Restart, history
<1>7. ASSUME NEW c \in Call, NEW i \in Intents, Begin(c, i) PROVE Sole'
  <2>1. SUFFICES ASSUME c \in alone', InProgress(c)'
                 PROVE  SoleInv(c)'
    BY <1>7 DEF Sole, Begin
  <2>2. sent = {} /\ \A d \in Call : ~InProgress(d)
    BY <1>7, <2>1 DEF Begin
  <2>3. pc'[c] = "read" /\ (\A d \in Call \ {c} : pc'[d] = pc[d]) /\ sent' = {}
    BY <1>01, <1>7, <2>2 DEF Begin, agents
  <2> QED
    BY <2>2, <2>3 DEF SoleInv, InProgress
<1>8. ASSUME NEW b \in Call, UNCHANGED alone,
             \/ Read(b) \/ Stamp(b) \/ CallFails(b) \/ CallAgent(b) \/ GiveUp(b)
             \/ \E w \in TxResult : persistIntent(b, w) \/ finishRun(b, w)
             \/ \E n \in Node : \/ Refuse(b, n) \/ DryRun(b, n)
                                \/ \E ok \in BOOLEAN : Converge(b, n, ok)
      PROVE  Sole'
  <2>1. SUFFICES ASSUME NEW c \in alone, InProgress(c)' PROVE SoleInv(c)'
    BY <1>8 DEF Sole
  <2> QED
    BY <1>8, <2>1, SoleCallStep
<1>9. ASSUME NEW b \in Call,
             \/ Read(b) \/ Stamp(b) \/ CallFails(b) \/ CallAgent(b) \/ GiveUp(b)
             \/ \E w \in TxResult : persistIntent(b, w) \/ finishRun(b, w)
             \/ \E n \in Node : \/ Refuse(b, n) \/ DryRun(b, n)
                                \/ \E ok \in BOOLEAN : Converge(b, n, ok)
      PROVE  UNCHANGED alone
  <2>1. CASE Read(b) \/ Stamp(b) \/ CallFails(b) \/ CallAgent(b) \/ GiveUp(b)
    BY <2>1 DEF Read, Stamp, CallFails, CallAgent, GiveUp, history
  <2>2. ASSUME NEW w \in TxResult, persistIntent(b, w) \/ finishRun(b, w) PROVE UNCHANGED alone
    BY <2>2 DEF persistIntent, finishRun, history
  <2>3. ASSUME NEW n \in Node, Refuse(b, n) \/ DryRun(b, n) PROVE UNCHANGED alone
    BY <2>3 DEF Refuse, DryRun, history
  <2>4. ASSUME NEW n \in Node, NEW ok \in BOOLEAN, Converge(b, n, ok) PROVE UNCHANGED alone
    BY <2>4 DEF Converge
  <2> QED
    BY <1>9, <2>1, <2>2, <2>3, <2>4, Zenon
<1> QED
  BY <1>2, <1>3, <1>4, <1>5, <1>6, <1>7, <1>8, <1>9, Zenon DEF Next

\* What the records and the fleet say when the last of the nodes is as the
\* sole rollout wants it.
LEMMA SoleEnds ==
    ASSUME TypeOK, NEW c \in Call, plan[c].start \subseteq Node,
           UNCHANGED <<at, plan, live>>,
           \A d \in Call \ {c} : at[d] < at[c],
           \A n \in Node \ Runs(c) : n \notin live /\ ~PossiblyActive(n)',
           \A n \in Runs(c) : rows'[c][n] = "succeeded" /\ (n \in live <=> n \in plan[c].start)
    PROVE  live' = plan[c].start /\ {n \in Node : PossiblyActive(n)'} = plan[c].start
<1>0. /\ live \subseteq Node /\ Runs(c) \subseteq Node /\ plan[c].start \subseteq Runs(c)
      /\ at \in [Call -> Nat]
  BY DEF TypeOK, Runs
<1>1. \A n \in Node : n \in live <=> n \in plan[c].start
  BY <1>0
<1>2. live' = plan[c].start
  <2>1. \A n : n \in live <=> n \in plan[c].start
    BY <1>0, <1>1
  <2> QED
    BY <2>1
<1>3. ASSUME NEW n \in Runs(c) PROVE PossiblyActive(n)' <=> n \in plan[c].start
  <2>0. n \in Node /\ rows'[c][n] = "succeeded"
    BY <1>0, <1>3
  <2>1. c \in Attempts(n)'
    BY <2>0 DEF Attempts
  <2>2. \A d \in Attempts(n)' : d \in Call
    BY DEF Attempts
  <2>3. \A d \in Call : at'[d] <= at'[c]
    BY <1>0
  <2>4. Latest(n, c)'
    BY <2>1, <2>2, <2>3 DEF Latest
  <2>5. \A d \in Call : Latest(n, d)' => d = c
    <3>1. ASSUME NEW d \in Call, Latest(n, d)' PROVE at'[c] <= at'[d]
      BY <2>1, <3>1 DEF Latest
    <3> QED
      BY <1>0, <3>1
  <2>6. CASE n \in plan[c].start
    BY <2>4, <2>6 DEF PossiblyActive
  <2>7. CASE n \notin plan[c].start
    <3>1. \A d \in Call : Latest(n, d)' => n \notin plan'[d].start /\ rows'[d][n] = "succeeded"
      BY <2>0, <2>5, <2>7
    <3> HIDE DEF Latest
    <3> QED
      BY <2>7, <3>1 DEF PossiblyActive
  <2> QED
    BY <2>6, <2>7
<1>4. \A n \in Node : PossiblyActive(n)' <=> n \in plan[c].start
  BY <1>0, <1>3
<1> HIDE DEF PossiblyActive
<1>5. {n \in Node : PossiblyActive(n)'} = plan[c].start
  <2>1. \A n : n \in {m \in Node : PossiblyActive(m)'} <=> n \in plan[c].start
    BY <1>4, Zenon
  <2> QED
    BY <2>1, Zenon
<1> QED
  BY <1>2, <1>5

LEMMA SoleEndsPersist ==
    ASSUME Inv, NEW c \in Call, SoleInv(c), NEW w \in TxResult, persistIntent(c, w),
           pc'[c] = "done", clean'[c], overtaken = {}
    PROVE  live' = plan[c].start /\ {n \in Node : PossiblyActive(n)'} = plan[c].start
<1>0. TypeOK /\ CallInv(c) /\ pc[c] = "persist"
  BY DEF Inv, persistIntent
<1>1. CASE pc' = [pc EXCEPT ![c] = "call"]
  BY <1>0, <1>1 DEF TypeOK
<1>2. CASE (w # "ok" \/ Runs(c) = {}) /\ clean' = [clean EXCEPT ![c] = (w = "ok")]
  <2>1. w = "ok"
    BY <1>0, <1>2, Zenon DEF TypeOK
  <2>2. Runs(c) = {}
    BY <1>2, <2>1
  <2>3. UNCHANGED <<at, plan, live>> /\ plan[c].start \subseteq Node
    BY <1>0 DEF persistIntent, agents, TypeOK
  <2>4. /\ \A n \in Node : rows'[c][n] = "none"
        /\ \A d \in Call \ {c} : rows'[d] = rows[d]
    <3>1. rows' = [rows EXCEPT ![c] = [n \in Node |-> IF n \in Runs(c) THEN "running" ELSE "none"]]
      BY <2>1 DEF persistIntent, Runs
    <3>2. rows \in [Call -> [Node -> Status]]
      BY <1>0 DEF TypeOK
    <3> QED
      BY <2>2, <3>1, <3>2
  <2>5. \A n \in Node : LeftOut(n) /\ rows[c][n] = "none"
    BY <1>0, <2>2 DEF SoleInv
  <2>6. \A n \in Node : PossiblyActive(n)' <=> PossiblyActive(n)
    BY <2>3, <2>4, <2>5, SameView
  <2>7. \A n \in Node \ Runs(c) : n \notin live /\ ~PossiblyActive(n)'
    BY <2>5, <2>6 DEF LeftOut
  <2>8. \A d \in Call \ {c} : at[d] < at[c]
    BY <1>0 DEF SoleInv
  <2> QED
    BY <1>0, <2>2, <2>3, <2>7, <2>8, SoleEnds
<1> QED
  BY <1>1, <1>2, Zenon DEF persistIntent, Runs

LEMMA SoleEndsFinish ==
    ASSUME Inv, Inv', NEW c \in Call, SoleInv(c), NEW w \in TxResult, finishRun(c, w),
           pc'[c] = "done", clean'[c], overtaken = {}, \A n \in Node : rows'[c][n] # "dry_run"
    PROVE  live' = plan[c].start /\ {n \in Node : PossiblyActive(n)'} = plan[c].start
<1>0. TypeOK /\ CallInv(c) /\ CallInv(c)' /\ pc[c] = "finish" /\ todo[c] # {}
  BY DEF Inv, CallInv, finishRun
<1>1. Current(c) \in todo[c] /\ Current(c) \in Node
  BY <1>0, CurrentIsTodo
<1>2. PICK n \in Node : n = Current(c)
  BY <1>1
<1>3. /\ \A d \in Call, m \in Node : <<d, m>> # <<c, n>> => rows'[d][m] = rows[d][m]
      /\ rows'[c][n] = IF w = "lost" THEN "running" ELSE StatusOf(reply[c])
  <2>1. rows' = IF w = "lost" THEN rows ELSE [rows EXCEPT ![c][n] = StatusOf(reply[c])]
    BY <1>2, Zenon DEF finishRun
  <2>2. rows[c][n] = "running" /\ StatusOf(reply[c]) \in Status
    BY <1>0, <1>1, <1>2 DEF CallInv, StatusOf, Status
  <2> QED
    BY <1>0, <2>1, <2>2, FinishRows
<1>4. clean[c] /\ w = "ok"
  BY <1>0, Zenon DEF finishRun, TypeOK
<1>5. UNCHANGED <<at, plan, live>> /\ plan[c].start \subseteq Node
  BY <1>0 DEF finishRun, agents, TypeOK
<1>6. todo[c] \ {n} = {}
  <2>1. CASE pc' = [pc EXCEPT ![c] = "call"]
    BY <1>0, <2>1 DEF TypeOK
  <2>2. CASE todo[c] \ {Current(c)} = {}
    BY <1>2, <2>2
  <2> QED
    BY <2>1, <2>2, Zenon DEF finishRun
<1>7. Runs(c)' = Runs(c) /\ Runs(c) \subseteq Node /\ todo'[c] = {}
  BY <1>0, <1>5 DEF Runs, TypeOK, CallInv
<1>8. n \in Runs(c)
  BY <1>0, <1>1, <1>2 DEF SoleInv, CallInv
<1>9. ASSUME NEW m \in Runs(c)
      PROVE  rows'[c][m] = "succeeded" /\ (m \in live <=> m \in plan[c].start)
  <2>1. rows'[c][m] = "succeeded"
    <3>1. Evident(c, m)'
      BY <1>0, <1>7, <1>9 DEF CallInv
    <3> QED
      BY <1>7, <3>1 DEF Evident
  <2>2. CASE m = n
    <3>1. reply[c] = "ok"
      BY <1>3, <1>4, <2>1, <2>2 DEF StatusOf
    <3> QED
      BY <1>0, <1>2, <2>1, <2>2, <3>1 DEF SoleInv
  <2>3. CASE m # n
    <3>1. rows[c][m] = "succeeded" /\ m \in Runs(c) \ todo[c]
      BY <1>3, <1>6, <1>7, <1>9, <2>1, <2>3
    <3> QED
      BY <1>0, <1>4, <2>1, <3>1 DEF SoleInv
  <2> QED
    BY <2>2, <2>3
<1>10. ASSUME NEW m \in Node \ Runs(c) PROVE m \notin live /\ ~PossiblyActive(m)'
  <2>1. LeftOut(m)
    BY <1>0 DEF SoleInv
  <2>2. \A d \in Call : rows'[d][m] = rows[d][m]
    BY <1>3, <1>8
  <2>3. PossiblyActive(m)' <=> PossiblyActive(m)
    BY <1>5, <2>2, SameView
  <2> QED
    BY <2>1, <2>3 DEF LeftOut
<1>11. \A d \in Call \ {c} : at[d] < at[c]
  BY <1>0 DEF SoleInv
<1> HIDE DEF Runs, PossiblyActive
<1> QED
  BY <1>0, <1>5, <1>9, <1>10, <1>11, SoleEnds

\* A rollout that has had the fleet for itself and returns without an error and
\* without a dry run leaves the app running on its targets and nowhere else,
\* and the view of possibly active nodes equal to them, also after rollouts
\* that failed half-way.
THEOREM SoleRolloutsConverge == Spec => SoleRolloutConverges
<1>1. Init => Sole
  BY DEF Init, Sole
<1>2. Spec => [](Inv /\ Sole)
  BY <1>1, SoleKept, InvInit, InvNext, PTL DEF Spec
<1>3. Inv /\ Sole /\ [Next]_vars =>
        [\A c \in alone :
            pc[c] # "done" /\ pc'[c] = "done" /\ clean'[c] /\ overtaken = {}
               /\ (\A n \in Node : rows'[c][n] # "dry_run")
            => /\ live' = plan[c].start
               /\ {n \in Node : PossiblyActive(n)'} = plan[c].start]_vars
  <2> SUFFICES ASSUME Inv, Sole, Next, NEW c \in alone, pc[c] # "done", pc'[c] = "done", clean'[c],
                      overtaken = {}, \A n \in Node : rows'[c][n] # "dry_run"
               PROVE  /\ live' = plan[c].start
                      /\ {n \in Node : PossiblyActive(n)'} = plan[c].start
    BY Zenon
  <2> DEFINE Goal == /\ live' = plan[c].start
                     /\ {n \in Node : PossiblyActive(n)'} = plan[c].start
  <2> HIDE DEF Goal
  <2>0. Inv' /\ TypeOK /\ (\A d \in Call : CallInv(d)) /\ c \in Call
    BY InvNext DEF Inv, TypeOK
  <2>01. pc \in [Call -> {"new", "read", "stamp", "persist", "call", "wait", "finish", "done"}]
    BY <2>0 DEF TypeOK
  <2>02. clean \in [Call -> BOOLEAN]
    BY <2>0 DEF TypeOK
  <2>1. ASSUME NEW v \in Views, Refresh(v) PROVE FALSE
    BY <2>1 DEF Refresh
  <2>2. ASSUME RefreshFails PROVE FALSE
    BY <2>2 DEF RefreshFails
  <2>3. ASSUME NEW n \in Switching, Switch(n) PROVE FALSE
    BY <2>3 DEF Switch, core
  <2>4. ASSUME Restart PROVE FALSE
    <3>1. InProgress(c)
      BY <2>0, <2>4 DEF Restart, Return
    <3> QED
      BY <2>0, <2>4, <3>1, Zenon DEF Restart
  <2>5. ASSUME NEW b \in Call, NEW i \in Intents, Begin(b, i) PROVE FALSE
    BY <2>01, <2>5 DEF Begin
  <2>6. ASSUME NEW b \in Call, Stamp(b) \/ CallFails(b) \/ CallAgent(b) \/ GiveUp(b) PROVE FALSE
    <3>1. PICK s \in {"persist", "wait", "finish"} : pc' = [pc EXCEPT ![b] = s]
      BY <2>6, Zenon DEF Stamp, CallFails, CallAgent, GiveUp
    <3> QED
      BY <2>0, <2>01, <3>1
  <2>7. ASSUME NEW b \in Call, Read(b) PROVE FALSE
    <3>1. CASE pc' = [pc EXCEPT ![b] = "stamp"]
      BY <2>01, <3>1
    <3>2. CASE Return({b}) /\ clean' = [clean EXCEPT ![b] = FALSE]
      <4>1. b = c
        BY <2>0, <3>2, ReturnOne
      <4> QED
        BY <2>02, <3>2, <4>1, Zenon
    <3> QED
      BY <2>7, <3>1, <3>2, Zenon DEF Read
  <2>8. ASSUME NEW b \in Call, NEW w \in TxResult, persistIntent(b, w) PROVE Goal
    <3>1. b = c
      <4>1. CASE b # c
        <5>1. Quiet(c)
          BY <2>0, <2>8, <4>1, OthersQuiet
        <5> QED
          BY <5>1 DEF Quiet
      <4> QED
        BY <4>1
    <3>2. SoleInv(c)
      BY <2>8, <3>1 DEF Sole, InProgress, persistIntent
    <3> QED
      BY <2>0, <2>8, <3>1, <3>2, SoleEndsPersist DEF Goal
  <2>9. ASSUME NEW b \in Call, NEW w \in TxResult, finishRun(b, w) PROVE Goal
    <3>1. b = c
      <4>1. CASE b # c
        <5>1. Quiet(c)
          BY <2>0, <2>9, <4>1, OthersQuiet
        <5> QED
          BY <5>1 DEF Quiet
      <4> QED
        BY <4>1
    <3>2. SoleInv(c)
      BY <2>9, <3>1 DEF Sole, InProgress, finishRun
    <3> QED
      BY <2>0, <2>9, <3>1, <3>2, SoleEndsFinish DEF Goal
  <2>10. ASSUME NEW b \in Call, NEW n \in Node, Refuse(b, n) \/ DryRun(b, n) PROVE FALSE
    <3>1. UNCHANGED pc \/ pc' = [pc EXCEPT ![b] = "finish"]
      BY <2>10, Zenon DEF Refuse, DryRun, Answer
    <3> QED
      BY <2>0, <2>01, <3>1
  <2>11. ASSUME NEW b \in Call, NEW n \in Node, NEW ok \in BOOLEAN, Converge(b, n, ok) PROVE FALSE
    <3>1. UNCHANGED pc \/ pc' = [pc EXCEPT ![b] = "finish"]
      BY <2>11, Zenon DEF Converge, Answer
    <3> QED
      BY <2>0, <2>01, <3>1
  <2>12. Goal
    BY <2>1, <2>2, <2>3, <2>4, <2>5, <2>6, <2>7, <2>8, <2>9, <2>10, <2>11, Zenon DEF Next
  <2> QED
    BY <2>12 DEF Goal
<1> QED
  BY <1>2, <1>3, PTL DEF Spec, SoleRolloutConverges
=============================================================================
