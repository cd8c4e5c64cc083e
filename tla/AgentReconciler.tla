--------------------------- MODULE AgentReconciler ---------------------------
(***************************************************************************)
(* The node agent of app/candaceos-agent: one Reconciler that fences       *)
(* leaders, runs Docker Compose and keeps one durable record, the          *)
(* Snapshot, in a FileStore.                                               *)
(*                                                                         *)
(* operationMu serialises Reconcile, so at most one request is under way;  *)
(* a request that waits for the mutex has no effect yet, and since a       *)
(* request of any leader of any term may arrive at any time, delayed,      *)
(* repeated and reordered requests are all among those an action may pick. *)
(* Between the steps of a request the process may crash or be restarted,   *)
(* and the machine may lose power.                                         *)
(*                                                                         *)
(* A missing fence is the fence of term 0: every request's term is at      *)
(* least 1, and the code compares terms only.  The Commands and UpdatedAt  *)
(* of a record follow its assignment and are left out.                     *)
(***************************************************************************)
EXTENDS Integers, FiniteSets

CONSTANTS
    Leader,         \* the IDs leaders sign their fences with
    Assignment,     \* the assignments a leader may ask for
    NoLeader, NoAssignment,
    Legacy,         \* an assignment without provenance, from an old version
    SaveResult,     \* what a Save may do: a subset of {"ok", "lost", "unsynced"}
    PowerLoss,      \* whether the machine may lose power
    MaxTerm         \* bound on the terms

\* "ok": written, renamed and the directory synced.  "lost": an error before
\* the rename.  "unsynced": the rename took place but the directory was not
\* synced, by an error or because the process died there.
ASSUME AgentAssumption ==
    /\ NoLeader \notin Leader
    /\ NoAssignment \notin Assignment /\ Legacy \notin Assignment
    /\ NoAssignment # Legacy
    /\ SaveResult \subseteq {"ok", "lost", "unsynced"}
    /\ PowerLoss \in BOOLEAN
    /\ MaxTerm \in Nat

Fence    == [term : 1 .. MaxTerm, leader : Leader]
NoFence  == [term |-> 0, leader |-> NoLeader]
Request  == [fence : Fence, assignment : Assignment]
\* Snapshot
Record   == [fence : Fence \cup {NoFence},
             assignment : Assignment \cup {NoAssignment}]
OnDisk   == [fence : Fence \cup {NoFence},
             assignment : Assignment \cup {NoAssignment, Legacy}]
Idle     == [step |-> "idle"]
Job      == [step : {"plan", "preflight", "action", "persist"},
             request : Request] \cup {Idle}

VARIABLES
    dryRun,      \* the executor's mode, fixed by the deployment
    up,          \* whether the process runs
    state,       \* Reconciler.state
    job,         \* the request that holds operationMu, and its next step
    disk,        \* the record the state file shows
    tail,        \* the records the file may show after a power loss
    \* History: the fence of the last convergence command started, the
    \* assignments such a command completed for, and the last record that
    \* was answered as reconciled, and whether a power loss has ever taken
    \* back a record that was visible.
    last, converged, acked, reverted

store   == <<disk, tail>>
history == <<last, converged, acked, reverted>>
vars    == <<dryRun, up, state, job, store, history>>

-----------------------------------------------------------------------------
(* The store.                                                              *)

\* FileStore.Save
Save(record, result) ==
    /\ disk' = IF result = "lost" THEN disk ELSE record
    /\ tail' = IF result = "ok" THEN {record}
               ELSE IF result = "unsynced" THEN tail \cup {record} ELSE tail

\* Mutant of persistStateLocked: published although the save failed.
persistStateLockedEager(candidate, result) ==
    /\ Save(candidate, result)
    /\ state' = candidate

\* A candidate is published only after its durable write.
persistStateLocked(candidate, result) ==
    /\ Save(candidate, result)
    /\ state' = IF result = "ok" THEN candidate ELSE state

-----------------------------------------------------------------------------
(* Reconcile.                                                              *)

at(step, request) == [step |-> step, request |-> request]

\* The refusals of acceptFence: an older term, or the term of another leader.
Stale(fence)      == fence.term < state.fence.term
Conflicts(fence)  == /\ fence.term = state.fence.term
                     /\ fence.leader # state.fence.leader

\* Mutant of accepted: a new leader starts from an empty record.
acceptedForget(fence) == [fence |-> fence, assignment |-> NoAssignment]

\* The record that accepts a newer fence keeps the assignment.
accepted(fence) == [fence |-> fence, assignment |-> state.assignment]

\* acceptFence saves a new highest fence before anything is planned; a request
\* it refuses changes nothing.
acceptFence(request) ==
    LET fence == request.fence
        go    == at("plan", request)
    IN  /\ ~Stale(fence) /\ ~Conflicts(fence)
        /\ \/ /\ fence.term = state.fence.term
              /\ job' = go
              /\ UNCHANGED <<state, store>>
           \/ /\ fence.term > state.fence.term
              /\ \E result \in SaveResult :
                    /\ persistStateLocked(accepted(fence), result)
                    /\ job' = IF result = "ok" THEN go ELSE Idle

\* The beginning of Reconcile.
Reconcile(request) ==
    /\ up /\ job = Idle
    /\ acceptFence(request)
    /\ UNCHANGED <<dryRun, up, history>>

\* Plan materialises the revision and writes commands down; it may fail, and
\* it changes nothing this record is about.
Plan ==
    /\ job.step = "plan"
    /\ \/ job' = at("preflight", job.request)
       \/ job' = Idle
    /\ UNCHANGED <<dryRun, up, state, store, history>>

\* Execute: the preflight, and where it succeeds the start of the convergence
\* command, which a dry run never reaches.
Preflight ==
    /\ job.step = "preflight"
    /\ \/ /\ job' = Idle
          /\ UNCHANGED last
       \/ /\ dryRun
          /\ job' = at("persist", job.request)
          /\ UNCHANGED last
       \/ /\ ~dryRun
          /\ job' = at("action", job.request)
          /\ last' = job.request.fence
    /\ UNCHANGED <<dryRun, up, state, store, converged, acked, reverted>>

\* Mutant of Action: a failed convergence is recorded like a successful one.
ActionIgnored ==
    /\ job.step = "action"
    /\ job' = at("persist", job.request)
    /\ \/ converged' = converged \cup {job.request.assignment}
       \/ UNCHANGED converged
    /\ UNCHANGED <<dryRun, up, state, store, last, acked, reverted>>

\* The convergence command ends, or fails having done some of its work.
Action ==
    /\ job.step = "action"
    /\ \/ /\ job' = at("persist", job.request)
          /\ converged' = converged \cup {job.request.assignment}
       \/ /\ job' = Idle
          /\ UNCHANGED converged
    /\ UNCHANGED <<dryRun, up, state, store, last, acked, reverted>>

\* The end of Reconcile: the candidate is persisted, and the caller is
\* answered with it or told that it could not be.
Persist ==
    /\ job.step = "persist"
    /\ \E result \in SaveResult :
          /\ persistStateLocked(job.request, result)
          /\ acked' = IF result = "ok" THEN {job.request} ELSE {}
    /\ job' = Idle
    /\ UNCHANGED <<dryRun, up, last, converged, reverted>>

-----------------------------------------------------------------------------
(* Stopping and starting.                                                  *)

Crash ==
    /\ up
    /\ up' = FALSE /\ job' = Idle
    /\ UNCHANGED <<dryRun, state, store, history>>

\* Power loss: the file shows one of the records not yet overtaken by a sync.
LosePower ==
    /\ PowerLoss
    /\ up' = FALSE /\ job' = Idle
    /\ disk' \in tail /\ tail' = {disk'}
    /\ reverted' = (reverted \/ disk' # disk)
    /\ UNCHANGED <<dryRun, state, last, converged, acked>>

\* Mutant of adopted: the assignment of the old format is kept.
adoptedVerbatim(record) == record

\* adoptLegacyFenceOnlySnapshot
adopted(record) == [fence |-> record.fence, assignment |-> NoAssignment]

\* NewReconciler and Load.  A legacy record is rewritten without its
\* assignment first, and the process does not start when that fails.
Start ==
    /\ ~up
    /\ \/ /\ disk.assignment # Legacy
          /\ up' = TRUE /\ state' = disk
          /\ UNCHANGED store
       \/ /\ disk.assignment = Legacy
          /\ \E result \in SaveResult :
                /\ Save(adopted(disk), result)
                /\ up' = (result = "ok")
                /\ state' = IF result = "ok" THEN adopted(disk) ELSE state
    /\ UNCHANGED <<dryRun, job, history>>

\* A new node, or one whose agent left a record of the old format.
Init ==
    /\ dryRun \in BOOLEAN
    /\ up = FALSE
    /\ state = [fence |-> NoFence, assignment |-> NoAssignment]
    /\ job = Idle
    /\ disk \in {state} \cup [fence : Fence, assignment : {Legacy}]
    /\ tail = {disk}
    /\ last = NoFence /\ converged = {} /\ acked = {} /\ reverted = FALSE

Next ==
    \/ \E request \in Request : Reconcile(request)
    \/ Plan \/ Preflight \/ Action \/ Persist
    \/ Crash \/ LosePower \/ Start

Spec == Init /\ [][Next]_vars

-----------------------------------------------------------------------------
(* Properties.                                                             *)

\* The type of every variable.  The running process never holds an assignment
\* without provenance: Load removes it before NewReconciler sees it.
TypeOK ==
    /\ dryRun \in BOOLEAN /\ up \in BOOLEAN
    /\ state \in Record
    /\ job \in Job
    /\ disk \in OnDisk /\ tail \subseteq OnDisk
    /\ last \in Fence \cup {NoFence}
    /\ converged \subseteq Assignment
    /\ acked \subseteq Request
    /\ reverted \in BOOLEAN

\* f is g, or a fence of a later term.
Covers(f, g) == f = g \/ f.term > g.term

\* Convergence commands are started under fences that never go back and no
\* term has two leaders, whatever is delayed, repeated, lost or crashes, across
\* restarts and power losses, as long as no power loss takes back a record that
\* a restart may already have read.
MutationsAreFenced == [][~reverted => Covers(last', last)]_vars

\* "The highest new fence is saved before any Docker command is allowed to
\* run": the same whatever a power loss does to the record.
FencesOutlivePower == [][Covers(last', last)]_vars

\* An answer of Reconcile is durable: until a later request is answered or
\* fails after having run, every record a restart may read names the answered
\* assignment under that fence or a newer one.  A leader that only had its
\* fence accepted does not erase what runs on the node.
AckedIsDurable ==
    \A a \in acked : \A r \in tail \cup {disk} :
        /\ r.assignment = a.assignment
        /\ Covers(r.fence, a.fence)

\* "Assignment presence must mean convergence succeeded": on a live node every
\* record, in memory or after a restart, names an assignment whose convergence
\* command has completed, or none.
AssignmentsWereConverged ==
    ~dryRun => \A r \in tail \cup {disk, state} :
                   r.assignment \in converged \cup {NoAssignment, Legacy}
=============================================================================
