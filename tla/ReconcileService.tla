-------------------------- MODULE ReconcileService --------------------------
(***************************************************************************)
(* The write path of CandaceOS Core: services/candaceos/reconcile with the *)
(* fleet snapshot that gates it, the relational records of one deployment, *)
(* the agent client and the node agents it calls.                          *)
(*                                                                         *)
(* Service.reconcile has no lock: any number of calls run at once, and     *)
(* each of them reads the fleet snapshot, the nodes that may still run the *)
(* app, the clock, and writes its intent at a different moment.  A PUT     *)
(* whose caller has given up may still be carried out, any time later.     *)
(*                                                                         *)
(* All calls are about one deployment.  AgentReconciler has the inside of  *)
(* a node agent; here a request is carried out in one step.  A term names  *)
(* its leader, so a fence is a term.                                       *)
(***************************************************************************)
EXTENDS Integers, FiniteSets, FiniteSetsExt

CONSTANTS
    Node,         \* nodes; their order is the order of their IDs
    Call,         \* calls of Reconcile or ReconcileApproved
    Intents,      \* what a call may ask for
    Views,        \* what Warden's status endpoint may report
    TxResult,     \* what a transaction may do: a subset of TxResults
    Switching,    \* nodes whose agent may change between live and dry run
    MayRestart,   \* whether Core may stop and start again
    None

\* "ok": committed.  "lost": rolled back.  "unsure": committed, but the caller
\* is told that the commit failed.
TxResults == {"ok", "lost", "unsure"}

\* An exact node is a match of that node with one replica.
Intent == [kind : {"stop", "match", "leader"}, nodes : SUBSET Node, replicas : Nat]

View == [leader : Node \cup {None}, term : Nat, authoritative : BOOLEAN,
         voters : SUBSET Node, known : SUBSET Node, alive : SUBSET Node]

ASSUME ReconcileAssumption ==
    /\ Node \subseteq Nat /\ IsFiniteSet(Node) /\ IsFiniteSet(Call)
    /\ None \notin Node
    /\ Intents \subseteq Intent /\ Views \subseteq View
    /\ TxResult \subseteq TxResults
    /\ Switching \subseteq Node
    /\ MayRestart \in BOOLEAN

VARIABLES
    snapshot,     \* fleet.Client.snapshot
    now,          \* Core's clock
    pc,           \* where a call is
    intent, snap, \* its input and its copy of the snapshot
    active,       \* the nodes it found possibly active
    at,           \* its requested_at
    plan,         \* its runs: their term, the nodes to start and those to stop
    todo,         \* the nodes it has not finished
    reply,        \* what the agent client returned for the node it is at
    clean,        \* whether none of its nodes failed
    rollouts,     \* the calls with a row in candaceos_deployment_rollouts
    rows,         \* candaceos_deployment_runs: the status of a call's node
    sent,         \* PUT requests under way
    fence, dry,   \* a node's highest accepted term, and its agent's mode
    live,         \* the nodes where the app runs
    \* History: the requests carried out, the newest of them on a node, the
    \* nodes where the last one carried out was older than another before it,
    \* and the calls that had the fleet for themselves.
    done, newest, overtaken, alone

core    == <<snapshot, now, pc, intent, snap, active, at, plan, todo, reply, clean>>
store   == <<rollouts, rows>>
agents  == <<sent, fence, dry, live>>
history == <<done, newest, overtaken, alone>>
vars    == <<core, store, agents, history>>

Status == {"none", "running", "succeeded", "dry_run", "failed"}
Reply  == {"none", "ok", "dry", "error"}
NoPlan == [term |-> 0, start |-> {}, stop |-> {}]

-----------------------------------------------------------------------------
(* The fleet client.                                                       *)

\* normalize: the quorum is counted over the voters Warden lists as alive.
normalize(v) ==
    [leader |-> v.leader, term |-> v.term, authoritative |-> v.authoritative,
     quorum |-> Cardinality(v.voters \cap v.alive) >= Cardinality(v.voters) \div 2 + 1,
     known |-> v.known, alive |-> v.alive]

NoSnapshot == [leader |-> None, term |-> 0, authoritative |-> FALSE,
               quorum |-> FALSE, known |-> {}, alive |-> {}]

CanMutate(s) == s.authoritative /\ s.leader # None /\ s.quorum

\* The calls are bounded: a snapshot that none of them will read is left out.
Awaited == \E c \in Call : pc[c] = "new"

\* Warden's term never goes back.
Refresh(v) ==
    /\ Awaited
    /\ v.term >= snapshot.term
    /\ snapshot' = normalize(v)
    /\ UNCHANGED <<now, pc, intent, snap, active, at, plan, todo, reply, clean,
                   store, agents, history>>

\* recordError keeps the last observation and withdraws its authority.
RefreshFails ==
    /\ Awaited
    /\ snapshot' = [snapshot EXCEPT !.authoritative = FALSE, !.quorum = FALSE]
    /\ UNCHANGED <<now, pc, intent, snap, active, at, plan, todo, reply, clean,
                   store, agents, history>>

-----------------------------------------------------------------------------
(* The view candaceos_possibly_active_deployment_nodes.                    *)

\* The runs on a node that are not dry runs: dry_run IS DISTINCT FROM TRUE.
Attempts(n) == {c \in Call : rows[c][n] \in {"running", "succeeded", "failed"}}

Latest(n, c) == c \in Attempts(n) /\ \A d \in Attempts(n) : at[d] <= at[c]

\* Only a successful stop shows that a node is inactive.
PossiblyActive(n) ==
    \E c \in Call : /\ Latest(n, c)
                    /\ n \in plan[c].start \/ rows[c][n] # "succeeded"

-----------------------------------------------------------------------------
(* reconcile.                                                              *)

\* The first n nodes of S by ID.
First(S, n) == {x \in S : Cardinality({y \in S : y < x}) < n}

\* The alive nodes that fit the placement.
Matches(i, s) == (IF i.kind = "leader" THEN {s.leader} ELSE i.nodes) \cap s.alive

Replicas(i) == IF i.kind = "leader" THEN 1 ELSE i.replicas

\* ResolvePlacement never returns a part of the replicas, and nothing unless
\* the leader is alive.
Placeable(i, s) ==
    i.kind # "stop" => /\ s.leader \in s.alive
                       /\ Cardinality(Matches(i, s)) >= Replicas(i)

ResolvePlacement(i, s) ==
    IF i.kind = "stop" THEN {} ELSE First(Matches(i, s), Replicas(i))

InProgress(c) == pc[c] \notin {"new", "done"}

\* A call from its input to the copy of the snapshot.  A stop needs the stored
\* deployment.  A call refused here has no effect.
Begin(c, i) ==
    /\ pc[c] = "new"
    /\ i.kind = "stop" => rollouts # {}
    /\ CanMutate(snapshot)
    /\ pc' = [pc EXCEPT ![c] = "read"]
    /\ intent' = [intent EXCEPT ![c] = i]
    /\ snap' = [snap EXCEPT ![c] = snapshot]
    /\ alone' = IF sent = {} /\ \A d \in Call : ~InProgress(d) THEN {c} ELSE {}
    /\ UNCHANGED <<snapshot, now, active, at, plan, todo, reply, clean, store, agents,
                   done, newest, overtaken>>

\* A call that ends keeps nothing but its answer and its rows.
Return(C) ==
    /\ pc' = [c \in Call |-> IF c \in C THEN "done" ELSE pc[c]]
    /\ intent' = [c \in Call |-> IF c \in C THEN None ELSE intent[c]]
    /\ snap' = [c \in Call |-> IF c \in C THEN NoSnapshot ELSE snap[c]]
    /\ active' = [c \in Call |-> IF c \in C THEN {} ELSE active[c]]
    /\ todo' = [c \in Call |-> IF c \in C THEN {} ELSE todo[c]]
    /\ reply' = [c \in Call |-> IF c \in C THEN "none" ELSE reply[c]]

\* ListPossiblyActiveDeploymentNodes, in a transaction of its own, and the
\* placement, which ends the call when it cannot be met.
Read(c) ==
    /\ pc[c] = "read"
    /\ \/ /\ Placeable(intent[c], snap[c])
          /\ pc' = [pc EXCEPT ![c] = "stamp"]
          /\ active' = [active EXCEPT ![c] = {n \in Node : PossiblyActive(n)}]
          /\ UNCHANGED <<intent, snap, todo, reply, clean>>
       \/ /\ ~Placeable(intent[c], snap[c])
          /\ Return({c})
          /\ clean' = [clean EXCEPT ![c] = FALSE]
    /\ UNCHANGED <<snapshot, now, at, plan, store, agents, history>>

\* Mutant of planDeploymentRuns: nodes that are no target any more are kept.
planDeploymentRunsKeep(term, was, targets) ==
    [term |-> term, start |-> targets, stop |-> {}]

planDeploymentRuns(term, was, targets) ==
    [term |-> term, start |-> targets, stop |-> was \ targets]

\* now := s.now(), and the runs.
Stamp(c) ==
    /\ pc[c] = "stamp"
    /\ now' = now + 1
    /\ at' = [at EXCEPT ![c] = now']
    /\ plan' = [plan EXCEPT ![c] =
                   planDeploymentRuns(snap[c].term, active[c],
                                      ResolvePlacement(intent[c], snap[c]))]
    /\ pc' = [pc EXCEPT ![c] = "persist"]
    /\ active' = [active EXCEPT ![c] = {}]
    /\ UNCHANGED <<snapshot, intent, snap, todo, reply, clean, store, agents, history>>

\* persistIntent: the agents are called only when it is known to be stored.
\* With no runs, the receipt of a no-op ends the call.
persistIntent(c, w) ==
    LET runs == plan[c].start \cup plan[c].stop IN
    /\ pc[c] = "persist"
    /\ \/ w = "lost" /\ UNCHANGED store
       \/ /\ w # "lost"
          /\ rollouts' = rollouts \cup {c}
          /\ rows' = [rows EXCEPT ![c] =
                         [n \in Node |-> IF n \in runs THEN "running" ELSE "none"]]
    /\ \/ /\ w = "ok" /\ runs # {}
          /\ pc' = [pc EXCEPT ![c] = "call"]
          /\ todo' = [todo EXCEPT ![c] = runs]
          /\ UNCHANGED <<intent, snap, active, reply, clean>>
       \/ /\ w # "ok" \/ runs = {}
          /\ Return({c})
          /\ clean' = [clean EXCEPT ![c] = (w = "ok")]
    /\ UNCHANGED <<snapshot, now, at, plan, agents, history>>

\* The node a call is at: targets come first, each group in the order of IDs.
Current(c) ==
    IF todo[c] \cap plan[c].start # {} THEN Min(todo[c] \cap plan[c].start)
                                       ELSE Min(todo[c])

\* agents.Reconcile fails before the PUT: the node is not in the snapshot,
\* cannot be reached, or answers with another identity.
CallFails(c) ==
    /\ pc[c] = "call"
    /\ pc' = [pc EXCEPT ![c] = "finish"]
    /\ reply' = [reply EXCEPT ![c] = "error"]
    /\ UNCHANGED <<snapshot, now, intent, snap, active, at, plan, todo, clean, store,
                   agents, history>>

\* The PUT to a node with the right identity.
CallAgent(c) ==
    /\ pc[c] = "call"
    /\ Current(c) \in snap[c].known
    /\ pc' = [pc EXCEPT ![c] = "wait"]
    /\ sent' = sent \cup {<<c, Current(c)>>}
    /\ UNCHANGED <<snapshot, now, intent, snap, active, at, plan, todo, reply, clean,
                   store, fence, dry, live, history>>

\* The client's timeout, a closed connection, or a cancelled context.
GiveUp(c) ==
    /\ pc[c] = "wait"
    /\ pc' = [pc EXCEPT ![c] = "finish"]
    /\ reply' = [reply EXCEPT ![c] = "error"]
    /\ UNCHANGED <<snapshot, now, intent, snap, active, at, plan, todo, clean, store,
                   agents, history>>

\* The status finishRun stores.
StatusOf(r) == IF r = "ok" THEN "succeeded" ELSE IF r = "dry" THEN "dry_run" ELSE "failed"

\* Mutant of finishRun: the error of the transaction is dropped.
finishRunUnchecked(c, w) ==
    LET n == Current(c)
        rest == todo[c] \ {n}
    IN  /\ pc[c] = "finish"
        /\ rows' = IF w = "lost" THEN rows
                   ELSE [rows EXCEPT ![c][n] = StatusOf(reply[c])]
        /\ clean' = [clean EXCEPT ![c] = @ /\ reply[c] # "error"]
        /\ \/ rest = {} /\ Return({c})
           \/ /\ rest # {}
              /\ pc' = [pc EXCEPT ![c] = "call"]
              /\ todo' = [todo EXCEPT ![c] = rest]
              /\ reply' = [reply EXCEPT ![c] = "none"]
              /\ UNCHANGED <<intent, snap, active>>
        /\ UNCHANGED <<snapshot, now, at, plan, rollouts, agents, history>>

\* finishRun updates the row, which is still running, and the loop goes on to
\* the next node whatever happened; the call returns after the last.
finishRun(c, w) ==
    LET n == Current(c)
        rest == todo[c] \ {n}
    IN  /\ pc[c] = "finish"
        /\ rows' = IF w = "lost" THEN rows
                   ELSE [rows EXCEPT ![c][n] = StatusOf(reply[c])]
        /\ clean' = [clean EXCEPT ![c] = @ /\ w = "ok" /\ reply[c] # "error"]
        /\ \/ rest = {} /\ Return({c})
           \/ /\ rest # {}
              /\ pc' = [pc EXCEPT ![c] = "call"]
              /\ todo' = [todo EXCEPT ![c] = rest]
              /\ reply' = [reply EXCEPT ![c] = "none"]
              /\ UNCHANGED <<intent, snap, active>>
        /\ UNCHANGED <<snapshot, now, at, plan, rollouts, agents, history>>

-----------------------------------------------------------------------------
(* The node agents.                                                        *)

\* A request reaches its node and leaves the network.  Its answer reaches the
\* caller only if that still waits; an answer that is lost is a GiveUp.
Answer(c, n, r) ==
    /\ <<c, n>> \in sent
    /\ sent' = sent \ {<<c, n>>}
    /\ \/ /\ pc[c] = "wait" /\ Current(c) = n
          /\ pc' = [pc EXCEPT ![c] = "finish"]
          /\ reply' = [reply EXCEPT ![c] = r]
       \/ UNCHANGED <<pc, reply>>

\* The agent refuses an older term, or fails before the convergence command.
Refuse(c, n) ==
    /\ Answer(c, n, "error")
    /\ fence' = [fence EXCEPT ![n] = IF @ < plan[c].term THEN plan[c].term ELSE @]
    /\ UNCHANGED <<snapshot, now, intent, snap, active, at, plan, todo, clean, store,
                   dry, live, history>>

\* A dry run validates the assignment and changes nothing.
DryRun(c, n) ==
    /\ plan[c].term >= fence[n] /\ dry[n]
    /\ Answer(c, n, "dry")
    /\ fence' = [fence EXCEPT ![n] = plan[c].term]
    /\ done' = done \cup {<<c, n>>}
    /\ UNCHANGED <<snapshot, now, intent, snap, active, at, plan, todo, clean, store,
                   dry, live, newest, overtaken, alone>>

\* The convergence command runs.  One that fails may have done its work.
Converge(c, n, ok) ==
    LET goal == IF n \in plan[c].start THEN live \cup {n} ELSE live \ {n} IN
    /\ plan[c].term >= fence[n] /\ ~dry[n]
    /\ Answer(c, n, IF ok THEN "ok" ELSE "error")
    /\ fence' = [fence EXCEPT ![n] = plan[c].term]
    /\ live' \in (IF ok THEN {goal} ELSE {goal, live})
    /\ done' = IF ok THEN done \cup {<<c, n>>} ELSE done
    /\ newest' = [newest EXCEPT ![n] = IF @ < at[c] THEN at[c] ELSE @]
    /\ overtaken' = IF at[c] < newest[n] THEN overtaken \cup {n} ELSE overtaken \ {n}
    /\ UNCHANGED <<snapshot, now, intent, snap, active, at, plan, todo, clean, store, dry,
                   alone>>

\* An agent is restarted in the other mode.
Switch(n) ==
    /\ dry' = [dry EXCEPT ![n] = ~@]
    /\ UNCHANGED <<core, store, sent, fence, live, history>>

-----------------------------------------------------------------------------
(* Core stops and starts.                                                  *)

\* Mutant of Recovered: the interrupted runs are closed like finished ones.
RecoveredDone(s) == IF s = "running" THEN "succeeded" ELSE s

\* FailInterruptedDeploymentRuns
Recovered(s) == IF s = "running" THEN "failed" ELSE s

\* The calls under way are gone, what they sent is not.
Restart ==
    /\ MayRestart /\ \E c \in Call : InProgress(c)
    /\ Return({c \in Call : InProgress(c)})
    /\ clean' = [c \in Call |-> ~InProgress(c) /\ clean[c]]
    /\ snapshot' = NoSnapshot
    /\ rows' = [c \in Call |-> [n \in Node |-> Recovered(rows[c][n])]]
    /\ UNCHANGED <<now, at, plan, rollouts, agents, history>>

-----------------------------------------------------------------------------
Init ==
    /\ snapshot = NoSnapshot /\ now = 0
    /\ pc = [c \in Call |-> "new"]
    /\ intent = [c \in Call |-> None]
    /\ snap = [c \in Call |-> NoSnapshot]
    /\ active = [c \in Call |-> {}]
    /\ at = [c \in Call |-> 0]
    /\ plan = [c \in Call |-> NoPlan]
    /\ todo = [c \in Call |-> {}]
    /\ reply = [c \in Call |-> "none"]
    /\ clean = [c \in Call |-> TRUE]
    /\ rollouts = {}
    /\ rows = [c \in Call |-> [n \in Node |-> "none"]]
    /\ sent = {}
    /\ fence = [n \in Node |-> 0]
    /\ dry = [n \in Node |-> FALSE]
    /\ live = {}
    /\ done = {} /\ newest = [n \in Node |-> 0] /\ overtaken = {} /\ alone = {}

Next ==
    \/ \E v \in Views : Refresh(v)
    \/ RefreshFails
    \/ \E c \in Call :
          \/ \E i \in Intents : Begin(c, i)
          \/ Read(c) \/ Stamp(c) \/ CallFails(c) \/ CallAgent(c) \/ GiveUp(c)
          \/ \E w \in TxResult : persistIntent(c, w) \/ finishRun(c, w)
          \/ \E n \in Node : \/ Refuse(c, n) \/ DryRun(c, n)
                             \/ \E ok \in BOOLEAN : Converge(c, n, ok)
    \/ \E n \in Switching : Switch(n)
    \/ Restart

Spec == Init /\ [][Next]_vars

-----------------------------------------------------------------------------
(* Properties.                                                             *)

\* The type of every variable.
TypeOK ==
    /\ snapshot \in [leader : Node \cup {None}, term : Nat, authoritative : BOOLEAN,
                     quorum : BOOLEAN, known : SUBSET Node, alive : SUBSET Node]
    /\ now \in Nat
    /\ pc \in [Call -> {"new", "read", "stamp", "persist", "call", "wait", "finish",
                        "done"}]
    /\ intent \in [Call -> Intents \cup {None}]
    /\ snap \in [Call -> [leader : Node \cup {None}, term : Nat, authoritative : BOOLEAN,
                          quorum : BOOLEAN, known : SUBSET Node, alive : SUBSET Node]]
    /\ active \in [Call -> SUBSET Node]
    /\ at \in [Call -> Nat]
    /\ plan \in [Call -> [term : Nat, start : SUBSET Node, stop : SUBSET Node]]
    /\ todo \in [Call -> SUBSET Node]
    /\ reply \in [Call -> Reply]
    /\ clean \in [Call -> BOOLEAN]
    /\ rollouts \subseteq Call
    /\ rows \in [Call -> [Node -> Status]]
    /\ sent \subseteq Call \X Node
    /\ fence \in [Node -> Nat] /\ dry \in [Node -> BOOLEAN] /\ live \subseteq Node
    /\ done \subseteq Call \X Node
    /\ newest \in [Node -> Nat]
    /\ overtaken \subseteq Node /\ alone \subseteq Call

\* "A node remains possibly active after an incomplete or failed operation":
\* wherever the app runs the records say that it may, whatever fails, times
\* out or is cut off by a restart, unless the node has carried an older
\* request out after a newer one.
\* It includes the type invariant.
InactiveUnlessOvertaken ==
    /\ TypeOK
    /\ \A n \in live : PossiblyActive(n) \/ n \in overtaken

\* The same without the exception: "only a successful, live stop is definitive
\* evidence that it is inactive".
LiveNodesArePossiblyActive == \A n \in live : PossiblyActive(n)

\* Evidence: a call that returns without an error has closed a row for every
\* node of its plan, and its node has carried the request out.
EvidenceIsTrue ==
    \A c \in Call : pc[c] = "done" /\ clean[c] =>
        \A n \in plan[c].start \cup plan[c].stop :
            rows[c][n] \in {"succeeded", "dry_run"} /\ <<c, n>> \in done

\* A rollout that had the fleet for itself and ends without an error and
\* without dry runs has brought the app to its targets and nowhere else, also
\* after earlier rollouts that failed half-way, and the records agree.
SoleRolloutConverges ==
    [][\A c \in alone :
          pc[c] # "done" /\ pc'[c] = "done" /\ clean'[c] /\ overtaken = {}
             /\ (\A n \in Node : rows'[c][n] # "dry_run")
          => /\ live' = plan[c].start
             /\ {n \in Node : PossiblyActive(n)'} = plan[c].start]_vars
=============================================================================
