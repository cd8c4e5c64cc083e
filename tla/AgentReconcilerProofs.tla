------------------------ MODULE AgentReconcilerProofs ------------------------
(***************************************************************************)
(* Proofs about AgentReconciler for every set of leaders and assignments,  *)
(* every bound on the terms and every behaviour of the store.              *)
(***************************************************************************)
EXTENDS AgentReconciler, TLAPS

-----------------------------------------------------------------------------
(* Facts about the data.                                                   *)

\* Every fence, the missing one included, has a term that is a number.
LEMMA FenceTerm ==
    ASSUME NEW f \in Fence \cup {NoFence}
    PROVE  f.term \in Int
BY AgentAssumption DEF Fence, NoFence

\* Covering is reflexive and transitive.
LEMMA CoversTransitive ==
    ASSUME NEW f \in Fence \cup {NoFence}, NEW g \in Fence \cup {NoFence},
           NEW h \in Fence \cup {NoFence}, Covers(f, g), Covers(g, h)
    PROVE  Covers(f, h)
BY FenceTerm DEF Covers

\* A fence that acceptFence does not refuse covers the one in memory, and one
\* of the same term is the one in memory.
LEMMA AdmittedFence ==
    ASSUME NEW f \in Fence, NEW g \in Fence \cup {NoFence}, f.term >= g.term,
           ~(f.term = g.term /\ f.leader # g.leader)
    PROVE  f.term = g.term => f = g
<1>1. CASE g \in Fence
  BY <1>1 DEF Fence
<1>2. CASE g = NoFence
  BY <1>2, AgentAssumption DEF Fence, NoFence
<1> QED BY <1>1, <1>2

\* Requests, records and stored records share their shape, so a request is a
\* record and a record a stored one.
LEMMA Shapes ==
    /\ Request \subseteq Record
    /\ Record \subseteq OnDisk
    /\ \A r \in OnDisk : adopted(r) \in Record
    /\ \A r \in OnDisk : r.assignment # Legacy => r \in Record
BY DEF Request, Record, OnDisk, adopted

\* The record that accepts a fence is a record.
LEMMA AcceptedType ==
    ASSUME TypeOK, NEW f \in Fence
    PROVE  accepted(f) \in Record
BY DEF TypeOK, accepted, Record

Steps == {"plan", "preflight", "action", "persist"}

\* A job that is not idle carries a request.
LEMMA BusyJob ==
    ASSUME NEW j \in Job, j.step # "idle"
    PROVE  j # Idle /\ j.request \in Request /\ j.step \in Steps
BY DEF Idle, Job, Steps

\* A request at a step is a job, and not the idle one.
LEMMA NewJob ==
    ASSUME NEW s \in Steps, NEW r \in Request
    PROVE  /\ at(s, r) \in Job /\ at(s, r) # Idle
           /\ at(s, r).request = r /\ at(s, r).step = s
BY DEF at, Idle, Job, Steps

-----------------------------------------------------------------------------
(* Type correctness.                                                       *)

\* Saving a stored record keeps the types of the store.
LEMMA SaveType ==
    ASSUME TypeOK, NEW r \in OnDisk, NEW result \in SaveResult, Save(r, result)
    PROVE  disk' \in OnDisk /\ tail' \subseteq OnDisk
BY AgentAssumption DEF TypeOK, Save

\* Every variable keeps its type: no step of the agent holds an assignment
\* without provenance in memory or records anything but a request.
THEOREM TypeCorrect == Spec => []TypeOK
<1>1. ASSUME Init PROVE TypeOK
  <2>1. state \in Record
    BY <1>1 DEF Init, Record
  <2>2. disk \in OnDisk
    BY <1>1, <2>1, Shapes DEF Init, OnDisk
  <2> QED BY <1>1, <2>1, <2>2 DEF Init, TypeOK, Job
<1>2. ASSUME TypeOK, [Next]_vars PROVE TypeOK'
  <2> USE <1>2
  <2>1. CASE \E request \in Request : Reconcile(request)
    <3>1. PICK request \in Request : Reconcile(request)
      BY <2>1
    <3>2. /\ at("plan", request) \in Job
          /\ Idle \in Job
      BY NewJob DEF Job, Steps
    <3>3. request.fence \in Fence
      BY DEF Request
    <3>6. request.fence.term \in Int /\ state.fence.term \in Int
      BY <3>3, FenceTerm DEF TypeOK, Record
    <3>4. CASE request.fence.term = state.fence.term
      BY <3>1, <3>2, <3>4, <3>6 DEF Reconcile, acceptFence, TypeOK, store, history
    <3>5. CASE request.fence.term # state.fence.term
      <4>1. PICK result \in SaveResult :
                /\ persistStateLocked(accepted(request.fence), result)
                /\ job' = IF result = "ok" THEN at("plan", request) ELSE Idle
        BY <3>1, <3>5 DEF Reconcile, acceptFence
      <4>2. accepted(request.fence) \in Record
        BY <3>3, AcceptedType
      <4>3. disk' \in OnDisk /\ tail' \subseteq OnDisk
        BY <4>1, <4>2, Shapes, SaveType DEF persistStateLocked
      <4>4. state' \in Record
        BY <4>1, <4>2 DEF persistStateLocked, TypeOK
      <4> QED BY <3>1, <3>2, <4>1, <4>3, <4>4 DEF Reconcile, TypeOK, history
    <3> QED BY <3>4, <3>5
  <2>2. CASE Plan
    <3>1. job' \in Job
      BY <2>2, BusyJob, NewJob DEF Plan, TypeOK, Job, Steps
    <3> QED BY <2>2, <3>1 DEF Plan, TypeOK, store, history
  <2>3. CASE Preflight
    <3>1. job.request \in Request /\ job' \in Job
      BY <2>3, BusyJob, NewJob DEF Preflight, TypeOK, Job, Steps
    <3>2. last' \in Fence \cup {NoFence}
      BY <2>3, <3>1 DEF Preflight, TypeOK, Request
    <3> QED BY <2>3, <3>1, <3>2 DEF Preflight, TypeOK, store
  <2>4. CASE Action
    <3>1. job.request \in Request /\ job' \in Job
      BY <2>4, BusyJob, NewJob DEF Action, TypeOK, Job, Steps
    <3>2. converged' \subseteq Assignment
      BY <2>4, <3>1 DEF Action, TypeOK, Request
    <3> QED BY <2>4, <3>1, <3>2 DEF Action, TypeOK, store
  <2>5. CASE Persist
    <3>1. job.request \in Request
      BY <2>5, BusyJob DEF Persist, TypeOK
    <3>2. PICK result \in SaveResult :
              /\ persistStateLocked(job.request, result)
              /\ acked' = IF result = "ok" THEN {job.request} ELSE {}
      BY <2>5 DEF Persist
    <3>3. disk' \in OnDisk /\ tail' \subseteq OnDisk
      BY <3>1, <3>2, Shapes, SaveType DEF persistStateLocked
    <3>4. state' \in Record /\ acked' \subseteq Request
      BY <3>1, <3>2, Shapes DEF persistStateLocked, TypeOK
    <3> QED BY <2>5, <3>3, <3>4 DEF Persist, TypeOK, Job
  <2>6. CASE Crash
    BY <2>6 DEF Crash, TypeOK, Job, store, history
  <2>7. CASE LosePower
    BY <2>7 DEF LosePower, TypeOK, Job, history
  <2>8. CASE Start
    <3>1. CASE disk.assignment # Legacy
      BY <2>8, <3>1, Shapes DEF Start, TypeOK, store, history
    <3>2. CASE disk.assignment = Legacy
      <4>1. PICK result \in SaveResult :
                /\ Save(adopted(disk), result)
                /\ up' = (result = "ok")
                /\ state' = IF result = "ok" THEN adopted(disk) ELSE state
        BY <2>8, <3>2 DEF Start
      <4>2. adopted(disk) \in Record
        BY Shapes DEF TypeOK
      <4>3. disk' \in OnDisk /\ tail' \subseteq OnDisk
        BY <4>1, <4>2, Shapes, SaveType
      <4>4. up' \in BOOLEAN
        BY <4>1
      <4> QED BY <2>8, <4>1, <4>2, <4>3, <4>4 DEF Start, TypeOK, history
    <3> QED BY <3>1, <3>2
  <2>9. CASE UNCHANGED vars
    BY <2>9 DEF TypeOK, vars, store, history
  <2> QED BY <2>1, <2>2, <2>3, <2>4, <2>5, <2>6, <2>7, <2>8, <2>9 DEF Next
<1> QED BY <1>1, <1>2, PTL DEF Spec

-----------------------------------------------------------------------------
(* Fencing.                                                                *)

\* Why MutationsAreFenced holds: the record on disk covers the fence in memory,
\* which covers the last mutation and belongs to the request under way.
FenceInv ==
    /\ ~reverted => Covers(disk.fence, last)
    /\ ~reverted /\ up => Covers(state.fence, last) /\ Covers(disk.fence, state.fence)
    /\ job # Idle => up /\ state.fence = job.request.fence

\* What a save does to the visible record.
LEMMA SaveEffect ==
    ASSUME NEW r, NEW result \in SaveResult, Save(r, result)
    PROVE  disk' = r \/ (disk' = disk /\ result = "lost")
BY AgentAssumption DEF Save

\* The invariant is preserved, and no step starts a convergence command under
\* a fence that does not cover the previous one.
LEMMA FenceStep ==
    ASSUME TypeOK, TypeOK', FenceInv, [Next]_vars
    PROVE  FenceInv' /\ (~reverted => Covers(last', last))
<1>0. /\ state.fence \in Fence \cup {NoFence} /\ disk.fence \in Fence \cup {NoFence}
      /\ last \in Fence \cup {NoFence}
  BY DEF TypeOK, Record, OnDisk
<1>1. CASE \E request \in Request : Reconcile(request)
  <2>1. PICK request \in Request : Reconcile(request)
    BY <1>1
  <2>2. request.fence \in Fence
    BY DEF Request
  <2>3. request.fence.term \in Int /\ state.fence.term \in Int
    BY <1>0, <2>2, FenceTerm
  <2>4. up /\ up' /\ last' = last /\ reverted' = reverted /\ job = Idle
    BY <2>1 DEF Reconcile, history
  <2>5. /\ at("plan", request) # Idle /\ at("plan", request).request = request
    BY NewJob DEF Steps
  <2>6. CASE request.fence.term = state.fence.term
    <3>1. request.fence = state.fence
      BY <1>0, <2>1, <2>2, <2>3, <2>6, AdmittedFence DEF Reconcile, acceptFence, Conflicts
    <3>2. /\ job' = at("plan", request)
          /\ state' = state /\ disk' = disk /\ tail' = tail
      BY <2>1, <2>3, <2>6 DEF Reconcile, acceptFence, store
    <3> QED BY <2>4, <2>5, <3>1, <3>2 DEF FenceInv, Covers
  <2>7. CASE request.fence.term # state.fence.term
    <3>1. request.fence.term > state.fence.term
      BY <2>1, <2>7 DEF Reconcile, acceptFence
    <3>2. PICK result \in SaveResult :
              /\ persistStateLocked(accepted(request.fence), result)
              /\ job' = IF result = "ok" THEN at("plan", request) ELSE Idle
      BY <2>1, <2>7 DEF Reconcile, acceptFence
    <3>3. accepted(request.fence).fence = request.fence
      BY DEF accepted
    <3>4. /\ Covers(request.fence, state.fence)
          /\ ~reverted => Covers(request.fence, last)
      <4>1. Covers(request.fence, state.fence)
        BY <3>1 DEF Covers
      <4>2. ~reverted => Covers(state.fence, last)
        BY <2>4 DEF FenceInv
      <4> QED BY <1>0, <2>2, <4>1, <4>2, CoversTransitive
    <3>5. disk' = accepted(request.fence) \/ (disk' = disk /\ result = "lost")
      BY <3>2, SaveEffect DEF persistStateLocked
    <3>6. state' = IF result = "ok" THEN accepted(request.fence) ELSE state
      BY <3>2 DEF persistStateLocked
    <3>7. CASE result = "ok"
      <4>1. disk'.fence = request.fence /\ state'.fence = request.fence
        BY <3>3, <3>5, <3>6, <3>7
      <4> QED BY <2>4, <2>5, <3>2, <3>4, <3>5, <3>7, <4>1 DEF FenceInv, Covers
    <3>8. CASE result # "ok"
      <4>1. state' = state /\ job' = Idle
        BY <3>2, <3>6, <3>8
      <4>2. disk'.fence = request.fence \/ disk' = disk
        BY <3>3, <3>5
      <4> QED BY <2>4, <3>4, <3>5, <4>1, <4>2 DEF FenceInv, Covers
    <3> QED BY <3>7, <3>8
  <2> QED BY <2>6, <2>7
<1>2. CASE Plan
  <2>1. job # Idle /\ job.request \in Request
    BY <1>2, BusyJob DEF Plan, TypeOK
  <2>2. job' = Idle \/ (job' # Idle /\ job'.request = job.request)
    BY <1>2, <2>1, NewJob DEF Plan, Steps
  <2>3. UNCHANGED <<up, state, disk, last, reverted>>
    BY <1>2 DEF Plan, store, history
  <2> QED BY <2>1, <2>2, <2>3 DEF FenceInv, Covers
<1>3. CASE Preflight
  <2>1. job # Idle /\ job.request \in Request
    BY <1>3, BusyJob DEF Preflight, TypeOK
  <2>2. job' = Idle \/ (job' # Idle /\ job'.request = job.request)
    BY <1>3, <2>1, NewJob DEF Preflight, Steps
  <2>3. UNCHANGED <<up, state, disk, reverted>>
    BY <1>3 DEF Preflight, store
  <2>4. last' = last \/ last' = job.request.fence
    BY <1>3 DEF Preflight
  <2> QED BY <2>1, <2>2, <2>3, <2>4 DEF FenceInv, Covers
<1>4. CASE Action
  <2>1. job # Idle /\ job.request \in Request
    BY <1>4, BusyJob DEF Action, TypeOK
  <2>2. job' = Idle \/ (job' # Idle /\ job'.request = job.request)
    BY <1>4, <2>1, NewJob DEF Action, Steps
  <2>3. UNCHANGED <<up, state, disk, last, reverted>>
    BY <1>4 DEF Action, store
  <2> QED BY <2>1, <2>2, <2>3 DEF FenceInv, Covers
<1>5. CASE Persist
  <2>1. job # Idle /\ job.request \in Request
    BY <1>5, BusyJob DEF Persist, TypeOK
  <2>2. PICK result \in SaveResult : persistStateLocked(job.request, result)
    BY <1>5 DEF Persist
  <2>3. disk' = job.request \/ (disk' = disk /\ result = "lost")
    BY <2>2, SaveEffect DEF persistStateLocked
  <2>4. state' = job.request \/ state' = state
    BY <2>2 DEF persistStateLocked
  <2>5. up' = up /\ last' = last /\ reverted' = reverted /\ job' = Idle
    BY <1>5 DEF Persist
  <2>6. up /\ state.fence = job.request.fence
    BY <2>1 DEF FenceInv
  <2>7. state'.fence = state.fence
    BY <2>4, <2>6
  <2>8. disk'.fence = state.fence \/ disk'.fence = disk.fence
    BY <2>3, <2>6
  <2> QED BY <2>3, <2>5, <2>6, <2>7, <2>8 DEF FenceInv, Covers
<1>6. CASE Crash
  BY <1>6 DEF Crash, FenceInv, Covers, store, history
<1>7. CASE LosePower
  <2>1. ~up' /\ job' = Idle /\ last' = last
    BY <1>7 DEF LosePower
  <2>2. ~reverted' => ~reverted /\ disk' = disk
    BY <1>7 DEF LosePower, TypeOK
  <2> QED BY <2>1, <2>2 DEF FenceInv, Covers
<1>8. CASE Start
  <2>0. UNCHANGED <<job, last, reverted>> /\ ~up
    BY <1>8 DEF Start, history
  <2>1. CASE disk.assignment # Legacy
    BY <1>8, <2>0, <2>1 DEF Start, FenceInv, Covers, store
  <2>2. CASE disk.assignment = Legacy
    <3>1. PICK result \in SaveResult :
              /\ Save(adopted(disk), result)
              /\ up' = (result = "ok")
              /\ state' = IF result = "ok" THEN adopted(disk) ELSE state
      BY <1>8, <2>2 DEF Start
    <3>2. adopted(disk).fence = disk.fence
      BY DEF adopted
    <3>3. disk' = adopted(disk) \/ (disk' = disk /\ result = "lost")
      BY <3>1, SaveEffect
    <3>4. disk'.fence = disk.fence
      BY <3>2, <3>3
    <3>5. up' => state'.fence = disk.fence
      BY <3>1, <3>2
    <3>6. job' = Idle
      BY <2>0 DEF FenceInv
    <3> QED BY <2>0, <3>3, <3>4, <3>5, <3>6 DEF FenceInv, Covers
  <2> QED BY <2>1, <2>2
<1>9. CASE UNCHANGED vars
  BY <1>9 DEF vars, store, history, FenceInv, Covers
<1> QED BY <1>1, <1>2, <1>3, <1>4, <1>5, <1>6, <1>7, <1>8, <1>9 DEF Next

\* Initially nothing ran and the store is synced.
LEMMA FenceInit == Init => FenceInv
<1> SUFFICES ASSUME Init PROVE FenceInv
  OBVIOUS
<1>1. disk.fence = NoFence \/ disk.fence \in Fence
  BY DEF Init
<1>2. Covers(disk.fence, NoFence)
  BY <1>1, AgentAssumption DEF Covers, Fence, NoFence
<1> QED BY <1>2 DEF Init, FenceInv

\* The inductive invariant of the fence: the record on disk covers the fence in
\* memory, which covers the last convergence command.
THEOREM FenceInvHolds == Spec => []FenceInv
<1>1. Spec => []TypeOK
  BY TypeCorrect
<1>2. TypeOK /\ TypeOK' /\ FenceInv /\ [Next]_vars => FenceInv'
  BY FenceStep
<1> QED BY <1>1, <1>2, FenceInit, PTL DEF Spec

\* Convergence commands are started under fences that never go back, and in
\* one term by one leader only, until a power loss takes back a visible record.
THEOREM MutationsStayFenced == Spec => MutationsAreFenced
<1>1. Spec => []TypeOK /\ []FenceInv
  BY TypeCorrect, FenceInvHolds
<1>2. TypeOK /\ TypeOK' /\ FenceInv /\ [Next]_vars
          => [~reverted => Covers(last', last)]_vars
  BY FenceStep
<1> QED BY <1>1, <1>2, PTL DEF Spec, MutationsAreFenced

\* Saves that are durable when they can be read back: every save that leaves
\* its record visible has synced it, or the machine keeps its power.
DurableSaves == "unsynced" \notin SaveResult \/ ~PowerLoss

\* With such saves the synced records are the visible one.
SyncedInv ==
    /\ ~reverted
    /\ "unsynced" \notin SaveResult => tail = {disk}

\* With durable saves nothing is ever taken back, so that the fence holds
\* without a condition: FencesOutlivePower fails only where the rename of a
\* save can be visible and not yet synced when the power goes.
THEOREM DurableSavesKeepFences == ASSUME DurableSaves PROVE Spec => FencesOutlivePower
<1>1. Spec => []TypeOK /\ []FenceInv
  BY TypeCorrect, FenceInvHolds
<1>2. Init => SyncedInv
  BY DEF Init, SyncedInv
<1>3. ASSUME TypeOK, SyncedInv, [Next]_vars PROVE SyncedInv'
  <2>1. ASSUME NEW r, NEW result \in SaveResult, Save(r, result)
        PROVE  "unsynced" \notin SaveResult => tail' = {disk'}
    BY <1>3, <2>1, AgentAssumption DEF SyncedInv, Save
  <2>2. CASE \E request \in Request : Reconcile(request)
    BY <1>3, <2>1, <2>2 DEF Reconcile, acceptFence, persistStateLocked, SyncedInv,
       store, history
  <2>3. CASE Plan \/ Preflight \/ Action \/ Crash \/ UNCHANGED vars
    BY <1>3, <2>3 DEF Plan, Preflight, Action, Crash, SyncedInv, vars, store, history
  <2>4. CASE Persist
    BY <1>3, <2>1, <2>4 DEF Persist, persistStateLocked, SyncedInv
  <2>5. CASE LosePower
    BY <1>3, <2>5 DEF LosePower, SyncedInv, DurableSaves
  <2>6. CASE Start
    BY <1>3, <2>1, <2>6 DEF Start, SyncedInv, store, history
  <2> QED BY <1>3, <2>2, <2>3, <2>4, <2>5, <2>6 DEF Next
<1>4. TypeOK /\ TypeOK' /\ FenceInv /\ SyncedInv /\ [Next]_vars
          => [Covers(last', last)]_vars
  BY FenceStep DEF SyncedInv
<1> QED BY <1>1, <1>2, <1>3, <1>4, PTL DEF Spec, FencesOutlivePower

-----------------------------------------------------------------------------
(* Durability of answers, and what recorded assignments mean.              *)

\* AckedIsDurable with what the running process adds to it: its memory names
\* the answered assignment too.
AckInv ==
    /\ AckedIsDurable
    /\ up => \A a \in acked : /\ state.assignment = a.assignment
                              /\ Covers(state.fence, a.fence)

\* AssignmentsWereConverged with the request about to be recorded.
ConvergedInv ==
    /\ AssignmentsWereConverged
    /\ ~dryRun /\ job.step = "persist" => job.request.assignment \in converged

\* A save leaves nothing but old records and the saved one.
LEMMA SaveAddsOne ==
    ASSUME NEW r, NEW result, Save(r, result)
    PROVE  /\ tail' \cup {disk'} \subseteq tail \cup {disk, r}
           /\ result = "ok" => tail' \cup {disk'} = {r}
BY DEF Save

\* Accepting a newer fence keeps every answer durable.
LEMMA AcceptKeepsAcked ==
    ASSUME TypeOK, AckInv, NEW request \in Request, Reconcile(request)
    PROVE  AckInv'
<1>1. request.fence \in Fence /\ up /\ up' /\ acked' = acked
  BY DEF Reconcile, Request, history
<1>2. CASE request.fence.term = state.fence.term
  <2>1. request.fence.term \in Int /\ state.fence.term \in Int
    BY <1>1, FenceTerm DEF TypeOK, Record
  <2>2. UNCHANGED <<state, disk, tail>>
    BY <1>2, <2>1 DEF Reconcile, acceptFence, store
  <2> QED BY <1>1, <2>2 DEF AckInv, AckedIsDurable, Covers
<1>3. CASE request.fence.term # state.fence.term
  <2>1. PICK result \in SaveResult :
            persistStateLocked(accepted(request.fence), result)
    BY <1>3 DEF Reconcile, acceptFence
  <2>2. request.fence.term > state.fence.term
    BY <1>3 DEF Reconcile, acceptFence
  <2>3. /\ tail' \cup {disk'} \subseteq tail \cup {disk, accepted(request.fence)}
        /\ state' = state \/ state' = accepted(request.fence)
    BY <2>1, SaveAddsOne DEF persistStateLocked
  <2>4. ASSUME NEW a \in acked
        PROVE  /\ accepted(request.fence).assignment = a.assignment
               /\ Covers(accepted(request.fence).fence, a.fence)
    <3>1. state.assignment = a.assignment /\ Covers(state.fence, a.fence)
      BY <1>1 DEF AckInv
    <3>2. Covers(request.fence, state.fence)
      BY <2>2 DEF Covers
    <3>3. a.fence \in Fence /\ state.fence \in Fence \cup {NoFence}
      BY DEF TypeOK, Request, Record
    <3>4. Covers(request.fence, a.fence)
      BY <1>1, <3>1, <3>2, <3>3, CoversTransitive
    <3> QED BY <3>1, <3>4 DEF accepted
  <2>5. \A a \in acked' : \A r \in tail' \cup {disk'} :
            r.assignment = a.assignment /\ Covers(r.fence, a.fence)
    BY <1>1, <2>3, <2>4 DEF AckInv, AckedIsDurable
  <2>6. \A a \in acked' : state'.assignment = a.assignment /\ Covers(state'.fence, a.fence)
    BY <1>1, <2>3, <2>4 DEF AckInv
  <2> QED BY <2>5, <2>6 DEF AckInv, AckedIsDurable, Covers
<1> QED BY <1>2, <1>3

\* A request that ends replaces the answer, durably or not at all.
LEMMA PersistKeepsAcked ==
    ASSUME AckInv, Persist
    PROVE  AckInv'
<1>1. PICK result \in SaveResult :
          /\ persistStateLocked(job.request, result)
          /\ acked' = IF result = "ok" THEN {job.request} ELSE {}
  BY DEF Persist
<1>2. CASE result = "ok"
  <2>1. tail' \cup {disk'} = {job.request} /\ state' = job.request
    BY <1>1, <1>2, SaveAddsOne DEF persistStateLocked
  <2> QED BY <1>1, <1>2, <2>1 DEF AckInv, AckedIsDurable, Covers
<1>3. CASE result # "ok"
  BY <1>1, <1>3 DEF AckInv, AckedIsDurable
<1> QED BY <1>2, <1>3

\* A starting process reads what was answered; an unread legacy record means
\* that nothing was answered yet.
LEMMA StartKeepsAcked ==
    ASSUME TypeOK, AckInv, Start
    PROVE  AckInv'
<1>1. acked' = acked
  BY DEF Start, history
<1>2. CASE disk.assignment # Legacy
  <2>1. state' = disk /\ disk' = disk /\ tail' = tail
    BY <1>2 DEF Start, store
  <2> QED BY <1>1, <2>1 DEF AckInv, AckedIsDurable, Covers
<1>3. CASE disk.assignment = Legacy
  <2>1. \A a \in acked : a.assignment \in Assignment /\ disk.assignment = a.assignment
    BY DEF TypeOK, Request, AckInv, AckedIsDurable
  <2>2. acked = {}
    BY <1>3, <2>1, AgentAssumption
  <2> QED BY <1>1, <2>2 DEF AckInv, AckedIsDurable
<1> QED BY <1>2, <1>3

\* What Reconcile answered as reconciled survives every crash and power loss,
\* and newer leaders that are merely accepted, whatever the saves do.
THEOREM AckedStaysDurable == Spec => []AckedIsDurable
<1>1. Spec => []TypeOK
  BY TypeCorrect
<1>2. Init => AckInv
  BY DEF Init, AckInv, AckedIsDurable
<1>3. ASSUME TypeOK, AckInv, [Next]_vars PROVE AckInv'
  <2> USE <1>3
  <2>1. CASE \E request \in Request : Reconcile(request)
    BY <2>1, AcceptKeepsAcked
  <2>2. CASE Plan
    BY <2>2 DEF Plan, AckInv, AckedIsDurable, Covers, store, history
  <2>3. CASE Preflight
    BY <2>3 DEF Preflight, AckInv, AckedIsDurable, Covers, store
  <2>4. CASE Action
    BY <2>4 DEF Action, AckInv, AckedIsDurable, Covers, store
  <2>5. CASE Persist
    BY <2>5, PersistKeepsAcked
  <2>6. CASE Crash
    BY <2>6 DEF Crash, AckInv, AckedIsDurable, Covers, store, history
  <2>7. CASE LosePower
    BY <2>7 DEF LosePower, AckInv, AckedIsDurable, Covers, history
  <2>8. CASE Start
    BY <2>8, StartKeepsAcked
  <2>9. CASE UNCHANGED vars
    BY <2>9 DEF vars, AckInv, AckedIsDurable, Covers, store, history
  <2> QED BY <2>1, <2>2, <2>3, <2>4, <2>5, <2>6, <2>7, <2>8, <2>9 DEF Next
<1>4. AckInv => AckedIsDurable
  BY DEF AckInv
<1> QED BY <1>1, <1>2, <1>3, <1>4, PTL DEF Spec

\* On a live node every recorded assignment had its convergence command
\* completed, in every record a restart may read.
THEOREM RecordsWereConverged == Spec => []AssignmentsWereConverged
<1>1. Spec => []TypeOK
  BY TypeCorrect
<1>2. ASSUME Init PROVE ConvergedInv
  <2>1. state.assignment = NoAssignment /\ disk.assignment \in {NoAssignment, Legacy}
    BY <1>2 DEF Init
  <2>2. tail = {disk} /\ job.step = "idle"
    BY <1>2 DEF Init, Idle
  <2> QED BY <2>1, <2>2 DEF ConvergedInv, AssignmentsWereConverged
<1>3. ASSUME TypeOK, ConvergedInv, [Next]_vars PROVE ConvergedInv'
  <2> USE <1>3
  <2>1. CASE \E request \in Request : Reconcile(request)
    <3>1. PICK request \in Request : Reconcile(request)
      BY <2>1
    <3>2. dryRun' = dryRun /\ converged' = converged /\ job'.step # "persist"
      <4>1. dryRun' = dryRun /\ converged' = converged
        BY <3>1 DEF Reconcile, history
      <4>2. job' = Idle \/ job' = at("plan", request)
        BY <3>1 DEF Reconcile, acceptFence
      <4> QED BY <4>1, <4>2 DEF Idle, at
    <3>3. \/ UNCHANGED <<state, disk, tail>>
          \/ \E result \in SaveResult :
                persistStateLocked(accepted(request.fence), result)
      BY <3>1 DEF Reconcile, acceptFence, store
    <3>4. accepted(request.fence).assignment = state.assignment
      BY DEF accepted
    <3>5. \A r \in tail' \cup {disk', state'} :
              \E q \in tail \cup {disk, state} : r.assignment = q.assignment
      BY <3>3, <3>4, SaveAddsOne DEF persistStateLocked
    <3> QED BY <3>2, <3>5 DEF ConvergedInv, AssignmentsWereConverged
  <2>2. CASE Plan
    <3>1. job'.step # "persist"
      BY <2>2 DEF Plan, Idle, at
    <3> QED BY <2>2, <3>1 DEF Plan, ConvergedInv, AssignmentsWereConverged, store, history
  <2>3. CASE Preflight
    <3>1. ~dryRun => job'.step # "persist"
      BY <2>3 DEF Preflight, Idle, at
    <3> QED BY <2>3, <3>1 DEF Preflight, ConvergedInv, AssignmentsWereConverged, store
  <2>4. CASE Action
    <3>1. converged \subseteq converged'
      BY <2>4 DEF Action
    <3>2. job'.step = "persist" => job'.request.assignment \in converged'
      BY <2>4 DEF Action, Idle, at
    <3> QED BY <2>4, <3>1, <3>2 DEF Action, ConvergedInv, AssignmentsWereConverged, store
  <2>5. CASE Persist
    <3>1. PICK result \in SaveResult : persistStateLocked(job.request, result)
      BY <2>5 DEF Persist
    <3>2. tail' \cup {disk', state'} \subseteq tail \cup {disk, state, job.request}
      BY <3>1, SaveAddsOne DEF persistStateLocked
    <3>3. job'.step # "persist" /\ dryRun' = dryRun /\ converged' = converged
      BY <2>5 DEF Persist, Idle
    <3>4. ~dryRun => job.request.assignment \in converged
      BY <2>5 DEF Persist, ConvergedInv
    <3> QED BY <3>2, <3>3, <3>4 DEF ConvergedInv, AssignmentsWereConverged
  <2>6. CASE Crash
    BY <2>6 DEF Crash, Idle, ConvergedInv, AssignmentsWereConverged, store, history
  <2>7. CASE LosePower
    BY <2>7 DEF LosePower, Idle, ConvergedInv, AssignmentsWereConverged, history
  <2>8. CASE Start
    <3>1. UNCHANGED <<dryRun, job, converged>>
      BY <2>8 DEF Start, history
    <3>2. \A r \in tail' \cup {disk', state'} :
              r \in tail \cup {disk, state} \/ r.assignment = NoAssignment
      <4>1. CASE disk.assignment # Legacy
        BY <2>8, <4>1 DEF Start, store
      <4>2. CASE disk.assignment = Legacy
        <5>1. PICK result \in SaveResult :
                  /\ Save(adopted(disk), result)
                  /\ state' = IF result = "ok" THEN adopted(disk) ELSE state
          BY <2>8, <4>2 DEF Start
        <5>2. adopted(disk).assignment = NoAssignment
          BY DEF adopted
        <5> QED BY <5>1, <5>2, SaveAddsOne
      <4> QED BY <4>1, <4>2
    <3> QED BY <3>1, <3>2 DEF ConvergedInv, AssignmentsWereConverged
  <2>9. CASE UNCHANGED vars
    BY <2>9 DEF vars, ConvergedInv, AssignmentsWereConverged, store, history
  <2> QED BY <2>1, <2>2, <2>3, <2>4, <2>5, <2>6, <2>7, <2>8, <2>9 DEF Next
<1>4. ConvergedInv => AssignmentsWereConverged
  BY DEF ConvergedInv
<1> QED BY <1>1, <1>2, <1>3, <1>4, PTL DEF Spec
=============================================================================
