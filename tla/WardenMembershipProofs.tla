----------------------- MODULE WardenMembershipProofs -----------------------
(***************************************************************************)
(* Proofs about WardenMembership for every finite set of nodes, every set  *)
(* of deployments and every bound on terms and versions.                   *)
(*                                                                         *)
(* Two chains meet here.  The votes: a vote is saved before it is cast, so *)
(* it is cast once per term; a winner holds a majority of the voters of    *)
(* the membership it counted against; majorities of a membership and of    *)
(* its direct successor share a voter.  The memberships: the disk is never *)
(* behind the memory and the memory never goes back, so an acknowledgement *)
(* of a membership stays true, and a membership is changed only after a    *)
(* majority of its voters has acknowledged it.                             *)
(***************************************************************************)
EXTENDS WardenMembership, FiniteSetTheorems, TLAPS

\* v has cast its vote of term t for c: over the wire, or for itself.
Cast(v, t, c) ==
    \/ [term |-> t, candidate |-> c, voter |-> v] \in grants
    \/ v = c /\ \E req \in voteRequests : req.term = t /\ req.candidate = c

\* Memory and disk still honour a vote cast in term t for c.
Keeps(v, t, c) ==
    /\ currentTerm[v] > t \/ (currentTerm[v] = t /\ votedFor[v] = c)
    /\ disk[v].term > t \/ (disk[v].term = t /\ disk[v].vote = c)

CastsAreKept ==
    \A v, c \in Node : \A t \in Term : Cast(v, t, c) => Keeps(v, t, c)

OneVotePerTerm ==
    \A v, c, d \in Node : \A t \in Term : Cast(v, t, c) /\ Cast(v, t, d) => c = d

\* A candidate counts only votes of the voters it knows, and they were cast.
CandidatesHoldTheirVotes ==
    \A n \in Node :
        role[n] = "candidate" =>
            /\ votesFrom[n] \subseteq membership[n].voters
            /\ \A v \in votesFrom[n] : Cast(v, currentTerm[n], n)

\* A majority of the voters of m cast its vote of term t for c.
HoldsQuorum(m, t, c) ==
    \E Q \in SUBSET m.voters :
        Cardinality(Q) >= quorum(m) /\ \A v \in Q : Cast(v, t, c)

WinnersHoldAQuorum ==
    \A w \in wins : HoldsQuorum(w.membership, w.term, w.leader)

RefusalsAreNewer == \A r \in newerTerms : r.respTerm > r.term

VoteInv ==
    /\ CastsAreKept
    /\ OneVotePerTerm
    /\ CandidatesHoldTheirVotes
    /\ WinnersHoldAQuorum
    /\ RefusalsAreNewer

\* One node joined or left.
Adjacent(V, W) ==
    \E x \in Node : \/ x \notin V /\ W = V \cup {x}
                    \/ x \in V /\ W = V \ {x}

\* A majority of a's voters holds a, or a newer membership, in memory.
Held(a) ==
    Cardinality({v \in a.voters : ~Supersedes(a, membership[v])}) >= quorum(a)

DisksAreNotBehind ==
    \A n \in Node : ~Supersedes(membership[n], disk[n].membership)

RepliesAreTrue ==
    \A r \in heartbeatReplies : r.ok => ~Supersedes(r.ref, membership[r.from])

LedgersAreTrue ==
    \A n, v \in Node : ~Supersedes(acked[n][v], membership[v])

ChangesAreSingle == \A c \in minted : Adjacent(c.old.voters, c.new.voters)

ChangedMembershipsAreHeld == \A c \in minted : Held(c.old)

MemberInv ==
    /\ DisksAreNotBehind
    /\ RepliesAreTrue
    /\ LedgersAreTrue
    /\ ChangesAreSingle
    /\ ChangedMembershipsAreHeld

Inv == TypeOK /\ VoteInv /\ MemberInv

-----------------------------------------------------------------------------
(* Memberships: versions are ordered, and majorities meet. *)

\* Sets of nodes are finite, and a majority of one is a natural number.
LEMMA SizeType ==
    ASSUME NEW V \in SUBSET Node
    PROVE  /\ IsFiniteSet(V) /\ Cardinality(V) \in Nat
           /\ Quorum(Cardinality(V)) \in Nat
  <1>1. IsFiniteSet(V) /\ Cardinality(V) \in Nat
    BY FS_Subset, FS_CardinalityType, DeploymentsAssumption
  <1>2. QED
    BY <1>1, Z3 DEF Quorum

\* A part of a set of nodes is no larger than the set.
LEMMA SizeMonotone ==
    ASSUME NEW V \in SUBSET Node, NEW W \in SUBSET V
    PROVE  /\ Cardinality(W) \in Nat /\ Cardinality(V) \in Nat
           /\ Cardinality(W) <= Cardinality(V)
  <1>1. W \in SUBSET Node
    OBVIOUS
  <1>2. Cardinality(W) \in Nat /\ Cardinality(V) \in Nat /\ IsFiniteSet(V)
    BY <1>1, SizeType
  <1>3. QED
    BY <1>2, FS_Subset

\* Two parts of a set that together outnumber it meet.
LEMMA LargePartsMeet ==
    ASSUME NEW U \in SUBSET Node, NEW Q \in SUBSET U, NEW R \in SUBSET U,
           Cardinality(Q) + Cardinality(R) > Cardinality(U)
    PROVE  \E v \in U : v \in Q /\ v \in R
  <1>1. /\ IsFiniteSet(Q) /\ IsFiniteSet(R)
        /\ Cardinality(Q) \in Nat /\ Cardinality(R) \in Nat
    BY SizeType
  <1>2. /\ Cardinality(Q \cup R) \in Nat /\ Cardinality(U) \in Nat
        /\ Cardinality(Q \cup R) <= Cardinality(U)
    <2>1. Q \cup R \in SUBSET U
      OBVIOUS
    <2>2. QED
      BY <2>1, SizeMonotone
  <1>3. Cardinality(Q \cup R)
            = Cardinality(Q) + Cardinality(R) - Cardinality(Q \cap R)
    BY <1>1, FS_Union
  <1>4. Cardinality(Q \cap R) \in Nat
    BY <1>1, FS_Intersection, FS_CardinalityType
  <1>5. Cardinality(Q \cap R) # 0
    BY <1>1, <1>2, <1>3, <1>4
  <1>6. Q \cap R # {}
    BY <1>5, FS_EmptySet
  <1>7. QED
    BY <1>6

\* Majorities of one set of voters meet.
LEMMA MajoritiesMeet ==
    ASSUME NEW V \in SUBSET Node, NEW Q \in SUBSET V, NEW R \in SUBSET V,
           Cardinality(Q) >= Quorum(Cardinality(V)),
           Cardinality(R) >= Quorum(Cardinality(V))
    PROVE  \E v \in Node : v \in Q /\ v \in R
  <1>1. Cardinality(V) \in Nat /\ Cardinality(Q) \in Nat /\ Cardinality(R) \in Nat
    BY SizeType, SizeMonotone
  <1>2. Cardinality(Q) + Cardinality(R) > Cardinality(V)
    BY <1>1, Z3 DEF Quorum
  <1>3. QED
    BY <1>2, LargePartsMeet

\* One voter more makes the set one larger, and majorities still meet.
LEMMA JoiningKeepsOverlap ==
    ASSUME NEW V \in SUBSET Node, NEW x \in Node, x \notin V,
           NEW Q \in SUBSET V, NEW R \in SUBSET (V \cup {x}),
           Cardinality(Q) >= Quorum(Cardinality(V)),
           Cardinality(R) >= Quorum(Cardinality(V \cup {x}))
    PROVE  \E v \in Node : v \in Q /\ v \in R
  <1> DEFINE U == V \cup {x}
  <1>1. U \in SUBSET Node /\ Q \in SUBSET U /\ R \in SUBSET U
    OBVIOUS
  <1>2. /\ Cardinality(V) \in Nat /\ Cardinality(Q) \in Nat /\ Cardinality(R) \in Nat
        /\ IsFiniteSet(V)
    BY <1>1, SizeType, SizeMonotone
  <1>3. Cardinality(U) = Cardinality(V) + 1
    BY <1>2, FS_AddElement
  <1>4. /\ Cardinality(Q) >= Cardinality(V) \div 2 + 1
        /\ Cardinality(R) >= (Cardinality(V) + 1) \div 2 + 1
    BY <1>3 DEF Quorum
  <1>5. Cardinality(Q) + Cardinality(R) > Cardinality(U)
    BY <1>2, <1>3, <1>4, Z3
  <1>6. QED
    BY <1>1, <1>5, LargePartsMeet

\* Majorities of two memberships one change apart share a voter: the argument
\* of types.go for changing one node at a time.
LEMMA AdjacentMajoritiesMeet ==
    ASSUME NEW V \in SUBSET Node, NEW W \in SUBSET Node, Adjacent(V, W),
           NEW Q \in SUBSET V, NEW R \in SUBSET W,
           Cardinality(Q) >= Quorum(Cardinality(V)),
           Cardinality(R) >= Quorum(Cardinality(W))
    PROVE  \E v \in Node : v \in Q /\ v \in R
  <1>1. PICK x \in Node : \/ x \notin V /\ W = V \cup {x}
                          \/ x \in V /\ W = V \ {x}
    BY DEF Adjacent
  <1>2. CASE x \notin V /\ W = V \cup {x}
    BY <1>2, JoiningKeepsOverlap
  <1>3. CASE x \in V /\ W = V \ {x}
    <2>1. x \notin W /\ V = W \cup {x}
      BY <1>3
    <2>2. \E v \in Node : v \in R /\ v \in Q
      BY <2>1, JoiningKeepsOverlap
    <2>3. QED
      BY <2>2
  <1>4. QED
    BY <1>1, <1>2, <1>3

\* Being at least as new is transitive.
LEMMA AtLeastAsNew ==
    ASSUME NEW a, NEW b, NEW c,
           {a.version, a.term, b.version, b.term, c.version, c.term} \subseteq Nat,
           ~Supersedes(a, b), ~Supersedes(b, c)
    PROVE  ~Supersedes(a, c)
  BY DEF Supersedes

\* A membership is as new as itself, and what supersedes it is not superseded
\* by it.
LEMMA Newer ==
    ASSUME NEW a, NEW b,
           {a.version, a.term, b.version, b.term} \subseteq Nat
    PROVE  /\ ~Supersedes(a, a)
           /\ Supersedes(a, b) => ~Supersedes(b, a)
  BY DEF Supersedes

-----------------------------------------------------------------------------
(* Types. *)

\* What the deployments allow.
LEMMA DeploymentType ==
    ASSUME deployment \in Deployments
    PROVE  /\ deployment.nodes \in SUBSET Node
           /\ deployment.founders \in SUBSET Node
           /\ \A n \in Node, t \in Nat : <<n, t>> \in deployment.standing => t \in Term
  BY DeploymentsAssumption DEF Deployment, Term

LEMMA SeedType ==
    ASSUME deployment \in Deployments
    PROVE  Seed \in Membership
  BY DeploymentType, DeploymentsAssumption DEF Seed, Membership, Version, Term

\* Terms and versions are natural numbers.
LEMMA Numbers ==
    /\ Term \subseteq Nat /\ Version \subseteq Nat
    /\ \A m \in Membership : ref(m) \in Ref /\ m.version \in Nat /\ m.term \in Nat
    /\ \A r \in Ref : r.version \in Nat /\ r.term \in Nat
    /\ NoAck \in Ref
  BY DeploymentsAssumption DEF Term, Version, Membership, Ref, ref, NoAck

Disk == [term : Term, vote : Node \cup {None}, membership : Membership]

\* Saving a well-formed record leaves well-formed disks.
LEMMA SaveType ==
    ASSUME disk \in [Node -> Disk], NEW n \in Node, NEW t \in Term,
           NEW v \in Node \cup {None}, NEW m \in Membership, NEW r,
           save(n, t, v, m, r)
    PROVE  disk' \in [Node -> Disk]
  BY DEF save, Disk

\* The next membership of a leader is well formed.
NewMembership(n, voters) ==
    [version |-> membership[n].version + 1, term |-> currentTerm[n], voters |-> voters]

LEMMA ChangeType ==
    ASSUME TypeOK, NEW n \in Node, NEW live, NEW voters \in admissions(n) \cup removals(n, live)
    PROVE  /\ voters \in SUBSET Node
           /\ Adjacent(membership[n].voters, voters)
           /\ membership[n].version < MaxVersion => NewMembership(n, voters) \in Membership
  <1>1. /\ membership[n].voters \in SUBSET Node /\ membership[n].version \in Version
        /\ currentTerm[n] \in Term
    BY DEF TypeOK, Membership
  <1>2. voters \in SUBSET Node /\ Adjacent(membership[n].voters, voters)
    <2>1. CASE voters \in admissions(n)
      BY <1>1, <2>1, DeploymentType DEF admissions, TypeOK, Adjacent
    <2>2. CASE voters \in removals(n, live)
      BY <1>1, <2>2 DEF removals, Adjacent
    <2>3. QED
      BY <2>1, <2>2
  <1>3. membership[n].version < MaxVersion => membership[n].version + 1 \in Version
    BY <1>1, DeploymentsAssumption DEF Version
  <1>4. QED
    BY <1>1, <1>2, <1>3 DEF NewMembership, Membership

\* What a membership change, or the decision against one, does to a leader n.
LEMMA ChangeEffect ==
    ASSUME TypeOK, NEW n \in Node, NEW ledger \in [Node -> Ref], NEW live,
           maybeStartMembershipChange(n, ledger, live)
    PROVE  \/ /\ acked' = [acked EXCEPT ![n] = ledger]
              /\ UNCHANGED <<membership, heartbeats, minted, disk>>
           \/ \E m \in Membership : \E r :
                 /\ acked' = [acked EXCEPT ![n] = ledger]
                 /\ UNCHANGED <<membership, heartbeats, minted>>
                 /\ save(n, currentTerm[n], votedFor[n], m, r)
                 /\ Supersedes(m, membership[n])
           \/ \E m \in Membership :
                 /\ changeSettled(membership[n], ledger)
                 /\ Adjacent(membership[n].voters, m.voters)
                 /\ Supersedes(m, membership[n])
                 /\ membership' = [membership EXCEPT ![n] = m]
                 /\ acked' = [acked EXCEPT ![n] = [ledger EXCEPT ![n] = ref(m)]]
                 /\ heartbeats' = heartbeats \cup {heartbeat(n, currentTerm[n], m)}
                 /\ minted' = minted \cup {[new |-> m, old |-> membership[n]]}
                 /\ disk' = [disk EXCEPT ![n] =
                        [term |-> currentTerm[n], vote |-> votedFor[n], membership |-> m]]
  <1>1. CASE acked' = [acked EXCEPT ![n] = ledger]
             /\ UNCHANGED <<membership, heartbeats, minted, disk>>
    BY <1>1
  <1>2. ASSUME NEW voters \in admissions(n) \cup removals(n, live), NEW r,
               changeSettled(membership[n], ledger),
               applyMembershipChange(n, ledger, voters, r)
        PROVE  \/ \E m \in Membership : \E s :
                     /\ acked' = [acked EXCEPT ![n] = ledger]
                     /\ UNCHANGED <<membership, heartbeats, minted>>
                     /\ save(n, currentTerm[n], votedFor[n], m, s)
                     /\ Supersedes(m, membership[n])
               \/ \E m \in Membership :
                     /\ changeSettled(membership[n], ledger)
                     /\ Adjacent(membership[n].voters, m.voters)
                     /\ Supersedes(m, membership[n])
                     /\ membership' = [membership EXCEPT ![n] = m]
                     /\ acked' = [acked EXCEPT ![n] = [ledger EXCEPT ![n] = ref(m)]]
                     /\ heartbeats' = heartbeats \cup {heartbeat(n, currentTerm[n], m)}
                     /\ minted' = minted \cup {[new |-> m, old |-> membership[n]]}
                     /\ disk' = [disk EXCEPT ![n] =
                            [term |-> currentTerm[n], vote |-> votedFor[n],
                             membership |-> m]]
    <2>1. PICK m : m = NewMembership(n, voters)
      OBVIOUS
    <2>2. m \in Membership /\ Adjacent(membership[n].voters, m.voters)
      BY <1>2, <2>1, ChangeType DEF NewMembership, applyMembershipChange
    <2>3. Supersedes(m, membership[n])
      <3>1. membership[n].version \in Nat
        BY Numbers DEF TypeOK
      <3>2. QED
        BY <2>1, <3>1 DEF NewMembership, Supersedes
    <2>4. save(n, currentTerm[n], votedFor[n], m, r)
      BY <1>2, <2>1 DEF applyMembershipChange, NewMembership
    <2>5. CASE r = "ok"
      <3>1. /\ membership' = [membership EXCEPT ![n] = m]
            /\ acked' = [acked EXCEPT ![n] = [ledger EXCEPT ![n] = ref(m)]]
            /\ heartbeats' = heartbeats \cup {heartbeat(n, currentTerm[n], m)}
            /\ minted' = minted \cup {[new |-> m, old |-> membership[n]]}
        BY <1>2, <2>1, <2>5 DEF applyMembershipChange, NewMembership
      <3>2. disk' = [disk EXCEPT ![n] =
                [term |-> currentTerm[n], vote |-> votedFor[n], membership |-> m]]
        BY <2>4, <2>5 DEF save
      <3>3. QED
        BY <1>2, <2>2, <2>3, <3>1, <3>2
    <2>6. CASE r # "ok"
      <3>1. /\ acked' = [acked EXCEPT ![n] = ledger]
            /\ UNCHANGED <<membership, heartbeats, minted>>
        BY <1>2, <2>6 DEF applyMembershipChange
      <3>2. QED
        BY <2>2, <2>3, <2>4, <3>1
    <2>7. QED
      BY <2>5, <2>6
  <1>3. QED
    BY <1>1, <1>2 DEF maybeStartMembershipChange

LEMMA TypeInit == Init => TypeOK
  <1> SUFFICES ASSUME Init PROVE TypeOK
    OBVIOUS
  <1>1. Seed \in Membership /\ 0 \in Term /\ NoAck \in Ref
    BY SeedType, Numbers, DeploymentsAssumption DEF Init, Term
  <1>2. QED
    BY <1>1 DEF Init, TypeOK

\* A membership change keeps the types of what it touches.
LEMMA ChangeKeepsTypes ==
    ASSUME TypeOK, NEW n \in Node, NEW ledger \in [Node -> Ref], NEW live,
           maybeStartMembershipChange(n, ledger, live)
    PROVE  /\ acked' \in [Node -> [Node -> Ref]]
           /\ membership' \in [Node -> Membership]
           /\ disk' \in [Node -> Disk]
           /\ heartbeats' \subseteq [term : Term, leader : Node, membership : Membership]
           /\ minted' \subseteq [new : Membership, old : Membership]
  <1> USE DEF TypeOK
  <1>1. disk \in [Node -> Disk]
    BY DEF Disk
  <1>2. CASE /\ acked' = [acked EXCEPT ![n] = ledger]
             /\ UNCHANGED <<membership, heartbeats, minted, disk>>
    BY <1>1, <1>2
  <1>3. ASSUME NEW m \in Membership, NEW r,
               /\ acked' = [acked EXCEPT ![n] = ledger]
               /\ UNCHANGED <<membership, heartbeats, minted>>
               /\ save(n, currentTerm[n], votedFor[n], m, r)
        PROVE  /\ acked' \in [Node -> [Node -> Ref]]
               /\ membership' \in [Node -> Membership]
               /\ disk' \in [Node -> Disk]
               /\ heartbeats' \subseteq [term : Term, leader : Node, membership : Membership]
               /\ minted' \subseteq [new : Membership, old : Membership]
    BY <1>1, <1>3, SaveType
  <1>4. ASSUME NEW m \in Membership,
               /\ membership' = [membership EXCEPT ![n] = m]
               /\ acked' = [acked EXCEPT ![n] = [ledger EXCEPT ![n] = ref(m)]]
               /\ heartbeats' = heartbeats \cup {heartbeat(n, currentTerm[n], m)}
               /\ minted' = minted \cup {[new |-> m, old |-> membership[n]]}
               /\ disk' = [disk EXCEPT ![n] =
                      [term |-> currentTerm[n], vote |-> votedFor[n], membership |-> m]]
        PROVE  /\ acked' \in [Node -> [Node -> Ref]]
               /\ membership' \in [Node -> Membership]
               /\ disk' \in [Node -> Disk]
               /\ heartbeats' \subseteq [term : Term, leader : Node, membership : Membership]
               /\ minted' \subseteq [new : Membership, old : Membership]
    <2>1. ref(m) \in Ref
      BY Numbers
    <2>2. QED
      BY <1>1, <1>4, <2>1 DEF heartbeat, Disk
  <1>5. QED
    BY <1>2, <1>3, <1>4, ChangeEffect

\* The ledger a reply leaves behind.
LEMMA LedgerType ==
    ASSUME TypeOK, NEW n \in Node, NEW reply \in heartbeatReplies
    PROVE  (IF /\ isVoter(n, reply.from)
               /\ Supersedes(reply.ref, acked[n][reply.from])
            THEN [acked[n] EXCEPT ![reply.from] = reply.ref]
            ELSE acked[n]) \in [Node -> Ref]
  BY DEF TypeOK

\* Type correctness, one step per action.
LEMMA TypeStep == TypeOK /\ [Next]_vars => TypeOK'
  <1> SUFFICES ASSUME TypeOK, [Next]_vars PROVE TypeOK'
    OBVIOUS
  <1> USE DEF TypeOK
  <1>0. disk \in [Node -> Disk] /\ (disk' \in [Node -> Disk] =>
            disk' \in [Node -> [term : Term, vote : Node \cup {None},
                                membership : Membership]])
    BY DEF Disk
  <1>1. CASE UNCHANGED vars
    BY <1>1 DEF vars, electionVars, ledgerVars, network, history
  <1>2. ASSUME NEW n \in Node, onElectionTimeout(n) PROVE TypeOK'
    <2>1. PICK r : startElection(n, r) /\ ~isObserver(n)
      BY <1>2 DEF onElectionTimeout
    <2>2. currentTerm[n] + 1 \in Term
      <3>1. currentTerm[n] \in Nat
        <4>1. currentTerm[n] \in Term
          OBVIOUS
        <4>2. QED
          BY <4>1, Numbers
      <3>2. QED
        BY <1>2, <3>1, DeploymentType DEF onElectionTimeout
    <2>3. disk' \in [Node -> Disk]
      BY <1>0, <2>1, <2>2, SaveType DEF startElection, saveState
    <2>4. voterPeers(n) \in SUBSET Node
      BY DEF voterPeers, Membership
    <2>5. CASE r = "ok"
      <3>1. voteRequests' \subseteq [term : Term, candidate : Node, to : SUBSET Node]
        BY <2>1, <2>2, <2>4, <2>5 DEF startElection
      <3>2. /\ currentTerm' \in [Node -> Term]
            /\ votedFor' \in [Node -> Node \cup {None}]
            /\ role' \in [Node -> {"follower", "candidate", "leader"}]
            /\ votesFrom' \in [Node -> SUBSET Node]
        <4>1. PICK t \in Term : t = currentTerm[n] + 1
          BY <2>2
        <4>2. /\ currentTerm' = [currentTerm EXCEPT ![n] = t]
              /\ votedFor' = [votedFor EXCEPT ![n] = n]
              /\ role' = [role EXCEPT ![n] = "candidate"]
              /\ votesFrom' = [votesFrom EXCEPT ![n] = {n}]
          BY <2>1, <2>5, <4>1 DEF startElection
        <4>3. QED
          BY <4>2
      <3>3. UNCHANGED <<deployment, membership, ledgerVars, grants, heartbeats,
                        heartbeatReplies, newerTerms, history>>
        BY <2>1 DEF startElection
      <3>4. QED
        BY <1>0, <2>3, <3>1, <3>2, <3>3 DEF ledgerVars, history
    <2>6. CASE r # "ok"
      BY <1>0, <2>1, <2>3, <2>6
         DEF startElection, electionVars, ledgerVars, history
    <2>7. QED
      BY <2>5, <2>6
  <1>3. ASSUME NEW n \in Node, NEW req \in voteRequests, onVote(n, req) PROVE TypeOK'
    <2>1. req.term \in Term /\ req.candidate \in Node /\ currentTerm[n] \in Term
      OBVIOUS
    <2>2. ASSUME NEW r, grantVote(n, req, r) PROVE TypeOK'
      <3>1. disk' \in [Node -> Disk]
        BY <1>0, <2>1, <2>2, SaveType DEF grantVote, saveState
      <3>2. /\ currentTerm' \in [Node -> Term]
            /\ votedFor' \in [Node -> Node \cup {None}]
            /\ role' \in [Node -> {"follower", "candidate", "leader"}]
            /\ grants' \subseteq [term : Term, candidate : Node, voter : Node]
            /\ UNCHANGED newerTerms
        <4>1. CASE r = "ok"
          <5>1. /\ currentTerm' = [currentTerm EXCEPT ![n] = req.term]
                /\ votedFor' = [votedFor EXCEPT ![n] = req.candidate]
                /\ role' = [role EXCEPT ![n] = "follower"]
                /\ grants' = grants \cup
                     {[term |-> req.term, candidate |-> req.candidate, voter |-> n]}
                /\ UNCHANGED newerTerms
            BY <2>2, <4>1 DEF grantVote, adoptTerm
          <5>2. QED
            BY <2>1, <5>1
        <4>2. CASE r # "ok"
          BY <2>1, <2>2, <4>2 DEF grantVote
        <4>3. QED
          BY <4>1, <4>2
      <3>3. QED
        BY <1>0, <1>3, <3>1, <3>2 DEF onVote, ledgerVars, history
    <2>3. ASSUME NEW r, refuseNewerTerm(n, req, r) PROVE TypeOK'
      <3>1. disk' \in [Node -> Disk]
        BY <1>0, <2>1, <2>3, SaveType DEF refuseNewerTerm, saveState
      <3>2. QED
        BY <1>0, <1>3, <2>1, <2>3, <3>1
           DEF onVote, refuseNewerTerm, adoptTerm, ledgerVars, history
    <2>4. CASE refuseVote(n, req)
      BY <1>3, <2>1, <2>4 DEF onVote, refuseVote, ledgerVars, history
    <2>5. QED
      BY <1>3, <2>2, <2>3, <2>4 DEF onVote
  <1>4. ASSUME NEW n \in Node, NEW grant \in grants, onVoteGranted(n, grant) PROVE TypeOK'
    <2>1. /\ ref(membership[n]) \in Ref /\ NoAck \in Ref
          /\ heartbeat(n, currentTerm[n], membership[n])
                \in [term : Term, leader : Node, membership : Membership]
      BY Numbers DEF heartbeat
    <2>2. CASE becomeLeader(n)
      BY <1>4, <2>1, <2>2 DEF onVoteGranted, becomeLeader
    <2>3. CASE UNCHANGED <<role, ledgerVars, heartbeats, wins>>
      BY <1>4, <2>3 DEF onVoteGranted, ledgerVars
    <2>4. QED
      BY <1>4, <2>2, <2>3 DEF onVoteGranted
  <1>5. ASSUME NEW n \in Node, NEW reply \in newerTerms, onNewerTerm(n, reply) PROVE TypeOK'
    <2>1. PICK r : stepDown(n, reply.respTerm, r)
      BY <1>5 DEF onNewerTerm
    <2>2. reply.respTerm \in Term
      OBVIOUS
    <2>3. disk' \in [Node -> Disk]
      BY <1>0, <2>1, <2>2, SaveType DEF stepDown, saveState
    <2>4. QED
      BY <1>0, <2>1, <2>2, <2>3 DEF stepDown, adoptTerm, ledgerVars, network, history
  <1>6. ASSUME NEW n \in Node, onHeartbeatTick(n) PROVE TypeOK'
    <2>1. acked[n] \in [Node -> Ref] /\ maybeStartMembershipChange(n, acked[n], contact[n])
      BY <1>6 DEF onHeartbeatTick
    <2>2. /\ acked' \in [Node -> [Node -> Ref]]
          /\ membership' \in [Node -> Membership]
          /\ disk' \in [Node -> Disk]
          /\ heartbeats' \subseteq [term : Term, leader : Node, membership : Membership]
          /\ minted' \subseteq [new : Membership, old : Membership]
      BY <2>1, ChangeKeepsTypes
    <2>3. QED
      BY <1>0, <1>6, <2>2 DEF onHeartbeatTick, electionVars
  <1>7. ASSUME NEW n \in Node, NEW hb \in heartbeats, onHeartbeat(n, hb) PROVE TypeOK'
    <2>1. hb.term \in Term /\ hb.leader \in Node /\ hb.membership \in Membership
      OBVIOUS
    <2>2. CASE rejectHeartbeat(n, hb)
      BY <1>7, <2>1, <2>2 DEF onHeartbeat, rejectHeartbeat, electionVars, ledgerVars, history
    <2>3. ASSUME NEW r, NEW s, acceptHeartbeat(n, hb, r, s) PROVE TypeOK'
      <3>1. disk' \in [Node -> Disk]
        BY <1>0, <2>1, <2>3 DEF acceptHeartbeat, Disk
      <3>2. heartbeatReplies' \subseteq
               [term : Term, to : Node, from : Node, ref : Ref, ok : BOOLEAN]
        <4>1. ref(hb.membership) \in Ref
          BY <2>1, Numbers
        <4>2. PICK ok \in BOOLEAN : replyHeartbeat(n, hb, ok)
          BY <2>3, Zenon DEF acceptHeartbeat, adoptAck
        <4>3. QED
          BY <2>1, <4>1, <4>2 DEF replyHeartbeat
      <3>3. /\ currentTerm' \in [Node -> Term]
            /\ votedFor' \in [Node -> Node \cup {None}]
            /\ role' \in [Node -> {"follower", "candidate", "leader"}]
            /\ votesFrom' \in [Node -> SUBSET Node]
            /\ membership' \in [Node -> Membership]
        BY <2>1, <2>3 DEF acceptHeartbeat, adoptTerm
      <3>4. UNCHANGED <<deployment, ledgerVars, voteRequests, grants, heartbeats, history,
                        newerTerms>>
        BY <1>7, <2>3 DEF onHeartbeat, acceptHeartbeat
      <3>5. QED
        BY <1>0, <3>1, <3>2, <3>3, <3>4 DEF ledgerVars, history
    <2>4. QED
      BY <1>7, <2>2, <2>3 DEF onHeartbeat
  <1>8. ASSUME NEW n \in Node, NEW reply \in heartbeatReplies, onHeartbeatResult(n, reply)
        PROVE  TypeOK'
    <2>1. contact' \in [Node -> SUBSET Node]
      BY <1>8 DEF onHeartbeatResult
    <2>2. UNCHANGED <<deployment, electionVars, voteRequests, grants, heartbeatReplies,
                      newerTerms, wins>>
      BY <1>8 DEF onHeartbeatResult
    <2>3. ASSUME NEW ledger \in [Node -> Ref], NEW live,
                 maybeStartMembershipChange(n, ledger, live)
          PROVE  TypeOK'
      <3>1. /\ acked' \in [Node -> [Node -> Ref]]
            /\ membership' \in [Node -> Membership]
            /\ disk' \in [Node -> Disk]
            /\ heartbeats' \subseteq [term : Term, leader : Node, membership : Membership]
            /\ minted' \subseteq [new : Membership, old : Membership]
        BY <2>3, ChangeKeepsTypes
      <3>2. QED
        BY <1>0, <2>1, <2>2, <3>1 DEF electionVars
    <2>4. CASE UNCHANGED <<acked, membership, heartbeats, minted, disk>>
      BY <2>1, <2>2, <2>4 DEF electionVars
    <2>5. QED
      BY <1>8, <2>3, <2>4, LedgerType DEF onHeartbeatResult
  <1>9. ASSUME NEW n \in Node, NewManager(n) PROVE TypeOK'
    BY <1>9, Numbers DEF NewManager, network, history
  <1>10. QED
    BY <1>1, <1>2, <1>3, <1>4, <1>5, <1>6, <1>7, <1>8, <1>9 DEF Next

-----------------------------------------------------------------------------
(* Votes. *)

\* A vote once cast is cast for ever, and so is a majority.
LEMMA CastMonotone ==
    ASSUME grants \subseteq grants', voteRequests \subseteq voteRequests'
    PROVE  /\ \A v, t, c : Cast(v, t, c) => Cast(v, t, c)'
           /\ \A m, t, c : HoldsQuorum(m, t, c) => HoldsQuorum(m, t, c)'
  <1>1. \A v, t, c : Cast(v, t, c) => Cast(v, t, c)'
    BY DEF Cast
  <1>2. ASSUME NEW m, NEW t, NEW c, HoldsQuorum(m, t, c) PROVE HoldsQuorum(m, t, c)'
    BY <1>1, <1>2 DEF HoldsQuorum, quorum
  <1>3. QED
    BY <1>1, <1>2

LEMMA CastUnchanged ==
    ASSUME UNCHANGED <<grants, voteRequests>>
    PROVE  \A v, t, c : Cast(v, t, c)' <=> Cast(v, t, c)
  BY DEF Cast

\* A term and vote that may come after others: a newer term, or the same term
\* with the same vote or with a vote where there was none.
Follows(t, v, t0, v0) == t > t0 \/ (t = t0 /\ (v = v0 \/ v0 = None))

\* The step of node n leaves the other nodes alone; its memory moves on or is
\* what its disk held, and its disk keeps its record or takes one that follows
\* its memory.
TermStep(n) ==
    /\ \A v \in Node \ {n} :
          /\ currentTerm'[v] = currentTerm[v] /\ votedFor'[v] = votedFor[v]
          /\ disk'[v] = disk[v]
    /\ \/ Follows(currentTerm'[n], votedFor'[n], currentTerm[n], votedFor[n])
       \/ currentTerm'[n] = disk[n].term /\ votedFor'[n] = disk[n].vote
    /\ \/ disk'[n] = disk[n]
       \/ Follows(disk'[n].term, disk'[n].vote, currentTerm[n], votedFor[n])

\* Such a step honours every vote honoured before.
LEMMA KeepsStep ==
    ASSUME TypeOK, TypeOK', NEW n \in Node, TermStep(n)
    PROVE  \A v, c \in Node : \A t \in Term : Keeps(v, t, c) => Keeps(v, t, c)'
  <1>1. SUFFICES ASSUME NEW v \in Node, NEW c \in Node, NEW t \in Term, Keeps(v, t, c)
                 PROVE  Keeps(v, t, c)'
    OBVIOUS
  <1>2. /\ t \in Nat /\ c # None
        /\ currentTerm[v] \in Nat /\ currentTerm'[v] \in Nat
        /\ disk[v].term \in Nat /\ disk'[v].term \in Nat
    BY Numbers, DeploymentsAssumption DEF TypeOK
  <1>3. CASE v # n
    BY <1>1, <1>3 DEF TermStep, Keeps
  <1>4. CASE v = n
    BY <1>1, <1>2, <1>4 DEF TermStep, Keeps, Follows
  <1>5. QED
    BY <1>3, <1>4

\* Nobody has a vote to lose when nothing was cast.
LEMMA VoteInit == Init => VoteInv
  BY DEF Init, VoteInv, CastsAreKept, OneVotePerTerm, CandidatesHoldTheirVotes,
         WinnersHoldAQuorum, RefusalsAreNewer, Cast

\* A step of n that casts no vote and wins no election: candidates stay as they
\* were or stop being candidates.
QuietStep(n) ==
    /\ TermStep(n)
    /\ UNCHANGED <<grants, voteRequests, wins>>
    /\ \A m \in Node : role'[m] = "candidate" =>
          /\ role[m] = "candidate" /\ currentTerm'[m] = currentTerm[m]
          /\ votesFrom'[m] = votesFrom[m] /\ membership'[m] = membership[m]
    /\ \A r \in newerTerms' \ newerTerms : r.respTerm > r.term

LEMMA QuietVotes ==
    ASSUME TypeOK, TypeOK', VoteInv, NEW n \in Node, QuietStep(n)
    PROVE  VoteInv'
  <1>1. \A v, t, c : Cast(v, t, c)' <=> Cast(v, t, c)
    BY CastUnchanged DEF QuietStep
  <1>2. CastsAreKept'
    <2>1. \A v, c \in Node : \A t \in Term : Keeps(v, t, c) => Keeps(v, t, c)'
      BY KeepsStep DEF QuietStep
    <2>2. QED
      BY <1>1, <2>1 DEF CastsAreKept, VoteInv, Term
  <1>3. OneVotePerTerm'
    BY <1>1 DEF OneVotePerTerm, VoteInv, Term
  <1>4. CandidatesHoldTheirVotes'
    BY <1>1 DEF CandidatesHoldTheirVotes, VoteInv, QuietStep
  <1>5. WinnersHoldAQuorum'
    BY CastMonotone DEF WinnersHoldAQuorum, VoteInv, QuietStep
  <1>6. RefusalsAreNewer'
    BY DEF RefusalsAreNewer, VoteInv, QuietStep
  <1>7. QED
    BY <1>2, <1>3, <1>4, <1>5, <1>6 DEF VoteInv

\* A step of n that casts its vote of term t for c, on disk before it counts.
CastStep(n, t, c) ==
    /\ TermStep(n)
    /\ currentTerm'[n] = t /\ votedFor'[n] = c
    /\ disk'[n].term = t /\ disk'[n].vote = c
    /\ t > currentTerm[n] \/ (t = currentTerm[n] /\ votedFor[n] \in {None, c})
    /\ grants \subseteq grants' /\ voteRequests \subseteq voteRequests'
    /\ \A v, d \in Node : \A s \in Term :
          Cast(v, s, d)' => Cast(v, s, d) \/ (v = n /\ s = t /\ d = c)

LEMMA CastVotes ==
    ASSUME TypeOK, TypeOK', VoteInv, NEW n \in Node, NEW t \in Term, NEW c \in Node,
           CastStep(n, t, c)
    PROVE  CastsAreKept' /\ OneVotePerTerm'
  <1>1. CastsAreKept'
    <2>1. \A v, d \in Node : \A s \in Term : Keeps(v, s, d) => Keeps(v, s, d)'
      BY KeepsStep DEF CastStep
    <2>2. Keeps(n, t, c)'
      BY DEF CastStep, Keeps
    <2>3. \A v, d \in Node : \A s \in Term : Cast(v, s, d)' => Keeps(v, s, d)'
      BY <2>1, <2>2 DEF CastStep, CastsAreKept, VoteInv
    <2>4. QED
      BY <2>3 DEF CastsAreKept, Term
  <1>2. ASSUME NEW d \in Node, Cast(n, t, d) PROVE d = c
    <2>1. Keeps(n, t, d)
      BY <1>2 DEF VoteInv, CastsAreKept
    <2>2. currentTerm[n] \in Nat /\ t \in Nat /\ d # None
      BY Numbers, DeploymentsAssumption DEF TypeOK
    <2>3. QED
      BY <2>1, <2>2 DEF Keeps, CastStep
  <1>3. \A v, d, e \in Node : \A s \in Term : Cast(v, s, d)' /\ Cast(v, s, e)' => d = e
    BY <1>2 DEF CastStep, VoteInv, OneVotePerTerm
  <1>4. QED
    BY <1>1, <1>3 DEF OneVotePerTerm, Term

\* Where save leaves the disks: only the record of n may change, and to the one
\* given.
LEMMA SaveEffect ==
    ASSUME TypeOK, NEW n \in Node, NEW t, NEW v, NEW m, NEW r, save(n, t, v, m, r)
    PROVE  /\ \A w \in Node \ {n} : disk'[w] = disk[w]
           /\ \/ disk'[n] = disk[n]
              \/ disk'[n].term = t /\ disk'[n].vote = v /\ disk'[n].membership = m
           /\ r = "ok" =>
                 disk'[n].term = t /\ disk'[n].vote = v /\ disk'[n].membership = m
  BY DEF save, TypeOK

\* A candidate votes for itself in a term nobody has asked its vote for.
LEMMA ElectionVotes ==
    ASSUME TypeOK, TypeOK', VoteInv, NEW n \in Node, onElectionTimeout(n)
    PROVE  VoteInv'
  <1>1. PICK r : startElection(n, r)
    BY DEF onElectionTimeout
  <1>2. n \in membership[n].voters
    BY DEF onElectionTimeout, isObserver, isVoter
  <1>3. PICK t : t = currentTerm[n] + 1
    OBVIOUS
  <1>4. currentTerm[n] \in Nat /\ t \in Nat /\ t > currentTerm[n]
    <2>1. currentTerm[n] \in Term
      BY DEF TypeOK
    <2>2. currentTerm[n] \in Nat
      BY <2>1, Numbers
    <2>3. QED
      BY <1>3, <2>2
  <1>5. save(n, t, n, membership[n], r)
    BY <1>1, <1>3 DEF startElection, saveState
  <1>6. /\ \A v \in Node \ {n} : disk'[v] = disk[v]
        /\ disk'[n] = disk[n] \/ (disk'[n].term = t /\ disk'[n].vote = n)
        /\ r = "ok" => disk'[n].term = t /\ disk'[n].vote = n
    BY <1>5, SaveEffect
  <1>7. CASE r # "ok"
    <2>1. UNCHANGED <<electionVars, voteRequests, membership, grants, newerTerms, wins>>
      BY <1>1, <1>7 DEF startElection, history
    <2>2. QuietStep(n)
      BY <1>4, <1>6, <2>1 DEF QuietStep, TermStep, Follows, electionVars
    <2>3. QED
      BY <2>2, QuietVotes
  <1>8. CASE r = "ok"
    <2>1. /\ currentTerm' = [currentTerm EXCEPT ![n] = t]
          /\ votedFor' = [votedFor EXCEPT ![n] = n]
          /\ role' = [role EXCEPT ![n] = "candidate"]
          /\ votesFrom' = [votesFrom EXCEPT ![n] = {n}]
          /\ voteRequests' = voteRequests \cup
               {[term |-> t, candidate |-> n, to |-> voterPeers(n)]}
          /\ UNCHANGED <<membership, grants, newerTerms, wins>>
      BY <1>1, <1>3, <1>8 DEF startElection, history
    <2>2. /\ currentTerm'[n] = t /\ votedFor'[n] = n /\ t \in Term
          /\ \A v \in Node \ {n} :
                currentTerm'[v] = currentTerm[v] /\ votedFor'[v] = votedFor[v]
      BY <2>1 DEF TypeOK
    <2>3. TermStep(n)
      BY <1>4, <1>6, <2>2 DEF TermStep, Follows
    <2>4. \A v, d \in Node : \A s \in Term :
             Cast(v, s, d)' => Cast(v, s, d) \/ (v = n /\ s = t /\ d = n)
      BY <2>1 DEF Cast
    <2>5. CastStep(n, t, n)
      BY <1>4, <1>6, <1>8, <2>1, <2>2, <2>3, <2>4 DEF CastStep
    <2>6. CastsAreKept' /\ OneVotePerTerm'
      BY <2>2, <2>5, CastVotes
    <2>7. \A v, s, c : Cast(v, s, c) => Cast(v, s, c)'
      BY <2>1, CastMonotone
    <2>8. CandidatesHoldTheirVotes'
      <3>1. Cast(n, t, n)'
        <4>1. PICK q : q = [term |-> t, candidate |-> n, to |-> voterPeers(n)]
          OBVIOUS
        <4>2. q \in voteRequests'
          BY <2>1, <4>1
        <4>3. q.term = t /\ q.candidate = n
          BY <4>1
        <4>4. QED
          BY <4>2, <4>3 DEF Cast
      <3>2. ASSUME NEW m \in Node, role'[m] = "candidate", NEW s, s = currentTerm'[m]
            PROVE  /\ votesFrom'[m] \subseteq membership'[m].voters
                   /\ \A v \in votesFrom'[m] : Cast(v, s, m)'
        <4>1. CASE m = n
          <5>1. votesFrom'[m] = {n} /\ membership'[m] = membership[n] /\ s = t
            BY <2>1, <3>2, <4>1 DEF TypeOK
          <5>2. QED
            BY <1>2, <3>1, <4>1, <5>1
        <4>2. CASE m # n
          <5>1. /\ votesFrom'[m] = votesFrom[m] /\ membership'[m] = membership[m]
                /\ s = currentTerm[m] /\ role[m] = "candidate"
            BY <2>1, <3>2, <4>2 DEF TypeOK
          <5>2. QED
            BY <2>7, <5>1 DEF VoteInv, CandidatesHoldTheirVotes
        <4>3. QED
          BY <4>1, <4>2
      <3>3. QED
        BY <3>2 DEF CandidatesHoldTheirVotes
    <2>9. WinnersHoldAQuorum'
      BY <2>1, CastMonotone DEF WinnersHoldAQuorum, VoteInv
    <2>10. RefusalsAreNewer'
      BY <2>1 DEF RefusalsAreNewer, VoteInv
    <2>11. QED
      BY <2>6, <2>8, <2>9, <2>10 DEF VoteInv
  <1>9. QED
    BY <1>7, <1>8

\* A voter grants its vote of a term once, and saves it first.
LEMMA VoteVotes ==
    ASSUME TypeOK, TypeOK', VoteInv, NEW n \in Node, NEW req \in voteRequests,
           onVote(n, req)
    PROVE  VoteInv'
  <1>1. /\ req.term \in Term /\ req.term \in Nat /\ req.candidate \in Node
        /\ currentTerm[n] \in Nat
    BY Numbers DEF TypeOK
  <1>2. UNCHANGED <<votesFrom, membership, voteRequests, wins>>
    BY DEF onVote, history
  <1>3. ASSUME NEW r, grantVote(n, req, r) PROVE VoteInv'
    <2>1. save(n, req.term, req.candidate, membership[n], r) /\ UNCHANGED newerTerms
      BY <1>3 DEF grantVote, saveState
    <2>2. /\ \A v \in Node \ {n} : disk'[v] = disk[v]
          /\ \/ disk'[n] = disk[n]
             \/ disk'[n].term = req.term /\ disk'[n].vote = req.candidate
          /\ r = "ok" => disk'[n].term = req.term /\ disk'[n].vote = req.candidate
      BY <2>1, SaveEffect
    <2>3. \/ req.term > currentTerm[n]
          \/ req.term = currentTerm[n] /\ votedFor[n] \in {None, req.candidate}
      BY <1>1, <1>3 DEF grantVote, mayGrant, effVotedFor
    <2>4. CASE r # "ok"
      <3>1. UNCHANGED <<currentTerm, votedFor, role, grants>>
        BY <1>3, <2>4 DEF grantVote
      <3>2. QuietStep(n)
        BY <1>1, <1>2, <2>1, <2>2, <2>3, <3>1 DEF QuietStep, TermStep, Follows
      <3>3. QED
        BY <3>2, QuietVotes
    <2>5. CASE r = "ok"
      <3>1. /\ currentTerm' = [currentTerm EXCEPT ![n] = req.term]
            /\ votedFor' = [votedFor EXCEPT ![n] = req.candidate]
            /\ role' = [role EXCEPT ![n] = "follower"]
            /\ grants' = grants \cup
                 {[term |-> req.term, candidate |-> req.candidate, voter |-> n]}
        BY <1>3, <2>5 DEF grantVote, adoptTerm
      <3>2. /\ currentTerm'[n] = req.term /\ votedFor'[n] = req.candidate
            /\ \A v \in Node \ {n} :
                  currentTerm'[v] = currentTerm[v] /\ votedFor'[v] = votedFor[v]
        BY <3>1 DEF TypeOK
      <3>3. TermStep(n)
        BY <1>1, <2>2, <2>3, <3>2 DEF TermStep, Follows
      <3>4. \A v, d \in Node : \A s \in Term :
               Cast(v, s, d)' =>
                   Cast(v, s, d) \/ (v = n /\ s = req.term /\ d = req.candidate)
        BY <1>2, <3>1 DEF Cast
      <3>5. CastStep(n, req.term, req.candidate)
        BY <1>2, <2>2, <2>3, <2>5, <3>1, <3>2, <3>3, <3>4 DEF CastStep
      <3>6. CastsAreKept' /\ OneVotePerTerm'
        BY <1>1, <3>5, CastVotes
      <3>7. \A v, s, c : Cast(v, s, c) => Cast(v, s, c)'
        BY <1>2, <3>1, CastMonotone
      <3>8. CandidatesHoldTheirVotes'
        BY <1>2, <3>1, <3>7 DEF TypeOK, VoteInv, CandidatesHoldTheirVotes
      <3>9. WinnersHoldAQuorum' /\ RefusalsAreNewer'
        BY <1>2, <2>1, <3>1, CastMonotone DEF WinnersHoldAQuorum, RefusalsAreNewer, VoteInv
      <3>10. QED
        BY <3>6, <3>8, <3>9 DEF VoteInv
    <2>6. QED
      BY <2>4, <2>5
  <1>4. ASSUME NEW r, refuseNewerTerm(n, req, r) PROVE VoteInv'
    <2>1. /\ save(n, req.term, None, membership[n], r) /\ req.term > currentTerm[n]
          /\ UNCHANGED <<grants, newerTerms>>
      BY <1>4 DEF refuseNewerTerm, saveState
    <2>2. /\ \A v \in Node \ {n} : disk'[v] = disk[v]
          /\ disk'[n] = disk[n] \/ (disk'[n].term = req.term /\ disk'[n].vote = None)
      BY <2>1, SaveEffect
    <2>3. \/ adoptTerm(n, req.term, None)
          \/ UNCHANGED <<currentTerm, votedFor, role>>
      BY <1>4 DEF refuseNewerTerm
    <2>4. TermStep(n)
      BY <1>1, <2>1, <2>2, <2>3 DEF TypeOK, TermStep, Follows, adoptTerm
    <2>5. QuietStep(n)
      BY <1>2, <2>1, <2>3, <2>4 DEF TypeOK, QuietStep, adoptTerm
    <2>6. QED
      BY <2>5, QuietVotes
  <1>5. CASE refuseVote(n, req)
    <2>1. /\ UNCHANGED <<currentTerm, votedFor, role, disk, grants>>
          /\ \A r \in newerTerms' \ newerTerms : r.respTerm > r.term
      BY <1>5 DEF refuseVote
    <2>2. QuietStep(n)
      BY <1>1, <1>2, <2>1 DEF QuietStep, TermStep, Follows
    <2>3. QED
      BY <2>2, QuietVotes
  <1>6. QED
    BY <1>3, <1>4, <1>5 DEF onVote

\* Counting a vote: the candidate holds it, and a majority makes it a winner.
LEMMA GrantedVotes ==
    ASSUME TypeOK, TypeOK', VoteInv, NEW n \in Node, NEW grant \in grants,
           onVoteGranted(n, grant)
    PROVE  VoteInv'
  <1> DEFINE votes == votesFrom[n] \cup {grant.voter}
  <1>1. /\ grant.candidate = n /\ role[n] = "candidate" /\ grant.term = currentTerm[n]
        /\ grant.voter \in membership[n].voters
        /\ votesFrom' = [votesFrom EXCEPT ![n] = votes]
        /\ UNCHANGED <<currentTerm, votedFor, membership, disk, voteRequests, grants,
                       newerTerms>>
    BY DEF onVoteGranted, isVoter
  <1>2. \A v, t, c : Cast(v, t, c)' <=> Cast(v, t, c)
    BY <1>1, CastUnchanged
  <1>3. /\ votes \subseteq membership[n].voters
        /\ \A v \in votes : Cast(v, currentTerm[n], n)
    <2>1. Cast(grant.voter, currentTerm[n], n)
      <3>1. grant = [term |-> currentTerm[n], candidate |-> n, voter |-> grant.voter]
        BY <1>1 DEF TypeOK
      <3>2. QED
        BY <3>1 DEF Cast
    <2>2. QED
      BY <1>1, <2>1 DEF VoteInv, CandidatesHoldTheirVotes
  <1>4. /\ \A m \in Node \ {n} : role'[m] = role[m] /\ votesFrom'[m] = votesFrom[m]
        /\ votesFrom'[n] = votes
    <2>1. \A m \in Node \ {n} : role'[m] = role[m]
      BY DEF onVoteGranted, becomeLeader, TypeOK
    <2>2. QED
      BY <1>1, <2>1 DEF TypeOK
  <1>5. CandidatesHoldTheirVotes'
    BY <1>1, <1>2, <1>3, <1>4 DEF VoteInv, CandidatesHoldTheirVotes
  <1>6. CastsAreKept'
    <2>1. TermStep(n)
      BY <1>1 DEF TermStep, Follows
    <2>2. \A v, c \in Node : \A t \in Term : Keeps(v, t, c) => Keeps(v, t, c)'
      BY <2>1, KeepsStep
    <2>3. QED
      BY <1>2, <2>2 DEF CastsAreKept, VoteInv, Term
  <1>7. OneVotePerTerm' /\ RefusalsAreNewer'
    BY <1>1, <1>2 DEF OneVotePerTerm, RefusalsAreNewer, VoteInv, Term
  <1>8. WinnersHoldAQuorum'
    <2>1. \A w \in wins : HoldsQuorum(w.membership, w.term, w.leader)'
      BY <1>1, CastMonotone DEF VoteInv, WinnersHoldAQuorum
    <2>2. CASE Cardinality(votes) >= quorum(membership[n])
      <3>1. HoldsQuorum(membership[n], currentTerm[n], n)
        BY <1>3, <2>2 DEF HoldsQuorum
      <3>2. wins' = wins \cup {heartbeat(n, currentTerm[n], membership[n])}
        BY <2>2 DEF onVoteGranted, becomeLeader
      <3>3. PICK m, t : m = membership[n] /\ t = currentTerm[n]
        OBVIOUS
      <3>4. HoldsQuorum(m, t, n)'
        BY <1>1, <3>1, <3>3, CastMonotone
      <3>5. QED
        BY <2>1, <3>2, <3>3, <3>4 DEF WinnersHoldAQuorum, heartbeat
    <2>3. CASE ~(Cardinality(votes) >= quorum(membership[n]))
      BY <2>1, <2>3 DEF onVoteGranted, WinnersHoldAQuorum
    <2>4. QED
      BY <2>2, <2>3
  <1>9. QED
    BY <1>5, <1>6, <1>7, <1>8 DEF VoteInv

\* A newer term ends a candidacy or a leadership without a vote.
LEMMA NewerTermVotes ==
    ASSUME TypeOK, TypeOK', VoteInv, NEW n \in Node, NEW reply \in newerTerms,
           onNewerTerm(n, reply)
    PROVE  VoteInv'
  <1>1. PICK r : stepDown(n, reply.respTerm, r)
    BY DEF onNewerTerm
  <1>2. reply.respTerm > currentTerm[n] /\ reply.respTerm \in Nat /\ currentTerm[n] \in Nat
    BY Numbers DEF onNewerTerm, VoteInv, RefusalsAreNewer, TypeOK
  <1>3. /\ \A v \in Node \ {n} : disk'[v] = disk[v]
        /\ disk'[n] = disk[n] \/ (disk'[n].term = reply.respTerm /\ disk'[n].vote = None)
    BY <1>1, SaveEffect DEF stepDown, saveState
  <1>4. /\ adoptTerm(n, reply.respTerm, None)
        /\ UNCHANGED <<votesFrom, membership, grants, voteRequests, newerTerms, wins>>
    BY <1>1 DEF stepDown, network, history
  <1>5. TermStep(n)
    BY <1>2, <1>3, <1>4 DEF TypeOK, TermStep, Follows, adoptTerm
  <1>6. QuietStep(n)
    BY <1>4, <1>5 DEF TypeOK, QuietStep, adoptTerm
  <1>7. QED
    BY <1>6, QuietVotes

\* A leader that changes the membership, or does not, keeps its term and vote.
LEMMA ChangeVotes ==
    ASSUME TypeOK, TypeOK', VoteInv, NEW n \in Node, NEW ledger \in [Node -> Ref], NEW live,
           role[n] = "leader", maybeStartMembershipChange(n, ledger, live),
           UNCHANGED <<electionVars, grants, voteRequests, newerTerms, wins>>
    PROVE  VoteInv'
  <1>1. /\ \A m \in Node \ {n} : membership'[m] = membership[m] /\ disk'[m] = disk[m]
        /\ \/ disk'[n] = disk[n]
           \/ disk'[n].term = currentTerm[n] /\ disk'[n].vote = votedFor[n]
    <2>1. CASE UNCHANGED <<membership, heartbeats, minted, disk>>
      BY <2>1
    <2>2. ASSUME NEW m \in Membership, NEW r, UNCHANGED <<membership, heartbeats, minted>>,
                 save(n, currentTerm[n], votedFor[n], m, r)
          PROVE  /\ \A v \in Node \ {n} :
                       membership'[v] = membership[v] /\ disk'[v] = disk[v]
                 /\ \/ disk'[n] = disk[n]
                    \/ disk'[n].term = currentTerm[n] /\ disk'[n].vote = votedFor[n]
      BY <2>2, SaveEffect
    <2>3. ASSUME NEW m \in Membership, membership' = [membership EXCEPT ![n] = m],
                 disk' = [disk EXCEPT ![n] =
                    [term |-> currentTerm[n], vote |-> votedFor[n], membership |-> m]]
          PROVE  /\ \A v \in Node \ {n} :
                       membership'[v] = membership[v] /\ disk'[v] = disk[v]
                 /\ \/ disk'[n] = disk[n]
                    \/ disk'[n].term = currentTerm[n] /\ disk'[n].vote = votedFor[n]
      BY <2>3 DEF TypeOK
    <2>4. QED
      BY <2>1, <2>2, <2>3, ChangeEffect
  <1>2. TermStep(n)
    BY <1>1 DEF TermStep, Follows, electionVars
  <1>3. QuietStep(n)
    BY <1>1, <1>2 DEF QuietStep, electionVars
  <1>4. QED
    BY <1>3, QuietVotes

\* A heartbeat makes a follower of its receiver and spends no vote.
LEMMA HeartbeatVotes ==
    ASSUME TypeOK, TypeOK', VoteInv, NEW n \in Node, NEW hb \in heartbeats,
           onHeartbeat(n, hb)
    PROVE  VoteInv'
  <1>1. /\ hb.term \in Nat /\ currentTerm[n] \in Nat
        /\ UNCHANGED <<grants, voteRequests, wins>>
    BY Numbers DEF TypeOK, onHeartbeat, history
  <1>2. CASE rejectHeartbeat(n, hb)
    <2>1. /\ UNCHANGED <<electionVars, membership, disk>>
          /\ \A r \in newerTerms' \ newerTerms : r.respTerm > r.term
      BY <1>1, <1>2 DEF rejectHeartbeat
    <2>2. QuietStep(n)
      BY <1>1, <2>1 DEF QuietStep, TermStep, Follows, electionVars
    <2>3. QED
      BY <2>2, QuietVotes
  <1>3. ASSUME NEW r, NEW s, acceptHeartbeat(n, hb, r, s) PROVE VoteInv'
    <2>1. PICK vote : vote = IF hb.term > currentTerm[n] THEN None ELSE votedFor[n]
      OBVIOUS
    <2>2. hb.term >= currentTerm[n] /\ adoptTerm(n, hb.term, vote) /\ UNCHANGED newerTerms
      BY <1>3, <2>1 DEF acceptHeartbeat
    <2>3. /\ \A m \in Node \ {n} : /\ membership'[m] = membership[m]
                                   /\ votesFrom'[m] = votesFrom[m] /\ disk'[m] = disk[m]
          /\ \/ disk'[n] = disk[n]
             \/ disk'[n].term = hb.term /\ disk'[n].vote = vote
      BY <1>3, <2>1 DEF acceptHeartbeat, TypeOK
    <2>4. Follows(hb.term, vote, currentTerm[n], votedFor[n])
      BY <1>1, <2>1, <2>2 DEF Follows
    <2>5. TermStep(n)
      BY <2>2, <2>3, <2>4 DEF TermStep, adoptTerm, TypeOK
    <2>6. QuietStep(n)
      BY <1>1, <2>2, <2>3, <2>5 DEF QuietStep, adoptTerm, TypeOK
    <2>7. QED
      BY <2>6, QuietVotes
  <1>4. QED
    BY <1>2, <1>3 DEF onHeartbeat

\* A restart resumes with the vote on disk.
LEMMA RestartVotes ==
    ASSUME TypeOK, TypeOK', VoteInv, NEW n \in Node, NewManager(n)
    PROVE  VoteInv'
  <1>1. TermStep(n)
    BY DEF NewManager, TermStep, TypeOK
  <1>2. QuietStep(n)
    BY <1>1 DEF NewManager, QuietStep, TypeOK, network, history
  <1>3. QED
    BY <1>2, QuietVotes

-----------------------------------------------------------------------------
(* Memberships. *)

LEMMA MemberInit == Init => MemberInv
  <1> SUFFICES ASSUME Init PROVE MemberInv
    OBVIOUS
  <1>1. Seed.version \in Nat /\ Seed.term \in Nat /\ Seed \in Membership
    BY SeedType, Numbers DEF Init
  <1>2. DisksAreNotBehind
    BY <1>1, Newer DEF Init, DisksAreNotBehind
  <1>3. LedgersAreTrue
    BY <1>1 DEF Init, LedgersAreTrue, NoAck, Supersedes
  <1>4. RepliesAreTrue /\ ChangesAreSingle /\ ChangedMembershipsAreHeld
    BY DEF Init, RepliesAreTrue, ChangesAreSingle, ChangedMembershipsAreHeld
  <1>5. QED
    BY <1>2, <1>3, <1>4 DEF MemberInv

\* The memories move on, the disks are not behind them, and every new reply,
\* ledger entry and change is justified by the memories.
MemberStep ==
    /\ \A v \in Node : ~Supersedes(membership[v], membership'[v])
    /\ \A v \in Node : ~Supersedes(membership'[v], disk'[v].membership)
    /\ \A r \in heartbeatReplies' \ heartbeatReplies :
          r.ok => ~Supersedes(r.ref, membership'[r.from])
    /\ \A n, v \in Node :
          acked'[n][v] = acked[n][v] \/ ~Supersedes(acked'[n][v], membership'[v])
    /\ \A c \in minted' \ minted :
          Adjacent(c.old.voters, c.new.voters) /\ Held(c.old)

\* What a majority holds it keeps holding.
LEMMA HeldStep ==
    ASSUME TypeOK, TypeOK', MemberStep, NEW a \in Membership, Held(a)
    PROVE  Held(a)'
  <1> DEFINE S == {v \in a.voters : ~Supersedes(a, membership[v])}
             T == {v \in a.voters : ~Supersedes(a, membership'[v])}
  <1>1. a.voters \in SUBSET Node /\ a.version \in Nat /\ a.term \in Nat
    BY Numbers DEF Membership
  <1>2. ASSUME NEW v \in S PROVE v \in T
    <2>1. v \in Node /\ ~Supersedes(membership[v], membership'[v]) /\ ~Supersedes(a, membership[v])
      BY <1>1 DEF MemberStep
    <2>2. membership[v] \in Membership /\ membership'[v] \in Membership
      BY <2>1 DEF TypeOK
    <2>3. {a.version, a.term, membership[v].version, membership[v].term,
           membership'[v].version, membership'[v].term} \subseteq Nat
      BY <1>1, <2>2, Numbers
    <2>4. ~Supersedes(a, membership'[v])
      BY <2>1, <2>3, AtLeastAsNew
    <2>5. QED
      BY <2>4
  <1>3. T \in SUBSET Node /\ S \in SUBSET T
    BY <1>1, <1>2
  <1>4. /\ Cardinality(S) \in Nat /\ Cardinality(T) \in Nat
        /\ Cardinality(S) <= Cardinality(T)
    BY <1>3, SizeMonotone
  <1>5. quorum(a) \in Nat /\ Cardinality(S) >= quorum(a)
    BY <1>1, SizeType DEF Held, quorum
  <1>6. Cardinality(T) >= quorum(a)
    BY <1>4, <1>5
  <1>7. QED
    BY <1>6 DEF Held, quorum

LEMMA MemberStepKeeps ==
    ASSUME TypeOK, TypeOK', MemberInv, MemberStep
    PROVE  MemberInv'
  <1>1. ASSUME NEW v \in Node, NEW a, a.version \in Nat, a.term \in Nat,
               ~Supersedes(a, membership[v])
        PROVE  ~Supersedes(a, membership'[v])
    <2>1. membership[v] \in Membership /\ membership'[v] \in Membership
      BY DEF TypeOK
    <2>2. {a.version, a.term, membership[v].version, membership[v].term,
           membership'[v].version, membership'[v].term} \subseteq Nat
      BY <1>1, <2>1, Numbers
    <2>3. QED
      BY <1>1, <2>2, AtLeastAsNew DEF MemberStep
  <1>2. DisksAreNotBehind'
    BY DEF DisksAreNotBehind, MemberStep
  <1>3. RepliesAreTrue'
    <2>1. ASSUME NEW r \in heartbeatReplies, r.ok
          PROVE  ~Supersedes(r.ref, membership'[r.from])
      <3>1. r.ref \in Ref /\ r.from \in Node
        BY DEF TypeOK
      <3>2. r.ref.version \in Nat /\ r.ref.term \in Nat
        BY <3>1, Numbers
      <3>3. QED
        BY <1>1, <2>1, <3>1, <3>2 DEF MemberInv, RepliesAreTrue
    <2>2. QED
      BY <2>1, Zenon DEF RepliesAreTrue, MemberStep
  <1>4. LedgersAreTrue'
    <2>1. ASSUME NEW n \in Node, NEW v \in Node
          PROVE  ~Supersedes(acked'[n][v], membership'[v])
      <3>1. acked[n][v] \in Ref
        BY DEF TypeOK
      <3>2. ~Supersedes(acked[n][v], membership'[v])
        BY <1>1, <3>1, Numbers DEF MemberInv, LedgersAreTrue
      <3>3. QED
        BY <3>2 DEF MemberStep
    <2>2. QED
      BY <2>1 DEF LedgersAreTrue
  <1>5. ChangesAreSingle' /\ ChangedMembershipsAreHeld'
    <2>1. ASSUME NEW c \in minted'
          PROVE  Adjacent(c.old.voters, c.new.voters) /\ Held(c.old)
      BY DEF MemberStep, MemberInv, ChangesAreSingle, ChangedMembershipsAreHeld
    <2>2. ASSUME NEW c \in minted' PROVE Held(c.old)'
      <3>1. c.old \in Membership
        BY DEF TypeOK
      <3>2. QED
        BY <2>1, <3>1, HeldStep
    <2>3. QED
      BY <2>1, <2>2 DEF ChangesAreSingle, ChangedMembershipsAreHeld, Adjacent
  <1>6. QED
    BY <1>2, <1>3, <1>4, <1>5 DEF MemberInv

\* A step that keeps memberships, replies and changes, and saves at most the
\* membership held in memory.
LEMMA KeptMembership ==
    ASSUME TypeOK, TypeOK', MemberInv, NEW n \in Node,
           UNCHANGED <<membership, heartbeatReplies, minted>>,
           \A v \in Node \ {n} : disk'[v] = disk[v],
           disk'[n] = disk[n] \/ disk'[n].membership = membership[n],
           \A m, v \in Node : \/ acked'[m][v] = acked[m][v]
                              \/ acked'[m][v] = NoAck
                              \/ m = n /\ v = n /\ acked'[m][v] = ref(membership[n])
    PROVE  MemberStep
  <1>1. \A v \in Node : membership[v].version \in Nat /\ membership[v].term \in Nat
    BY Numbers DEF TypeOK
  <1>2. \A v \in Node : ~Supersedes(membership[v], membership[v])
    BY <1>1 DEF Supersedes
  <1>3. \A v \in Node : ~Supersedes(NoAck, membership[v])
    BY <1>1 DEF Supersedes, NoAck
  <1>4. ~Supersedes(ref(membership[n]), membership[n])
    BY <1>1 DEF Supersedes, ref
  <1>5. \A v \in Node : ~Supersedes(membership[v], disk'[v].membership)
    BY <1>2 DEF MemberInv, DisksAreNotBehind
  <1>6. QED
    BY <1>2, <1>3, <1>4, <1>5 DEF MemberStep

\* Elections carry the membership along.
LEMMA ElectionMembers ==
    ASSUME TypeOK, TypeOK', MemberInv, NEW n \in Node,
           \/ onElectionTimeout(n)
           \/ \E req \in voteRequests : onVote(n, req)
           \/ \E grant \in grants : onVoteGranted(n, grant)
           \/ \E reply \in newerTerms : onNewerTerm(n, reply)
    PROVE  MemberStep
  <1>1. ASSUME NEW t, NEW v, NEW r, saveState(n, t, v, r),
               UNCHANGED <<membership, acked, heartbeatReplies, minted>>
        PROVE  MemberStep
    <2>1. /\ \A w \in Node \ {n} : disk'[w] = disk[w]
          /\ disk'[n] = disk[n] \/ disk'[n].membership = membership[n]
      BY <1>1, SaveEffect DEF saveState
    <2>2. QED
      BY <1>1, <2>1, KeptMembership
  <1>2. CASE onElectionTimeout(n)
    BY <1>1, <1>2 DEF onElectionTimeout, startElection, ledgerVars, history
  <1>3. ASSUME NEW req \in voteRequests, onVote(n, req) PROVE MemberStep
    <2>1. UNCHANGED <<membership, acked, heartbeatReplies, minted>>
      BY <1>3 DEF onVote, ledgerVars, history
    <2>2. CASE refuseVote(n, req)
      <3>1. UNCHANGED disk
        BY <2>2 DEF refuseVote
      <3>2. QED
        BY <2>1, <3>1, KeptMembership
    <2>3. QED
      BY <1>1, <1>3, <2>1, <2>2 DEF onVote, grantVote, refuseNewerTerm
  <1>4. ASSUME NEW grant \in grants, onVoteGranted(n, grant) PROVE MemberStep
    <2>1. UNCHANGED <<membership, disk, heartbeatReplies, minted>>
      BY <1>4 DEF onVoteGranted
    <2>2. \A m, v \in Node :
             \/ acked'[m][v] = acked[m][v]
             \/ acked'[m][v] = NoAck
             \/ m = n /\ v = n /\ acked'[m][v] = ref(membership[n])
      BY <1>4 DEF onVoteGranted, becomeLeader, ledgerVars, TypeOK
    <2>3. QED
      BY <2>1, <2>2, KeptMembership
  <1>5. ASSUME NEW reply \in newerTerms, onNewerTerm(n, reply) PROVE MemberStep
    BY <1>1, <1>5 DEF onNewerTerm, stepDown, ledgerVars, network, history
  <1>6. QED
    BY <1>2, <1>3, <1>4, <1>5

\* The SETTLE rule: a leader changes a membership only when its ledger, which is
\* true of the memories, shows a majority that holds it.
LEMMA SettledIsHeld ==
    ASSUME TypeOK, NEW n \in Node, NEW ledger \in [Node -> Ref],
           \A v \in Node : ~Supersedes(ledger[v], membership[v]),
           changeSettled(membership[n], ledger)
    PROVE  Held(membership[n])
  <1>1. PICK a \in Membership : a = membership[n]
    BY DEF TypeOK
  <1> DEFINE S == {v \in a.voters : ~Supersedes(a, ledger[v])}
             T == {v \in a.voters : ~Supersedes(a, membership[v])}
  <1>2. a.voters \in SUBSET Node /\ a.version \in Nat /\ a.term \in Nat
    BY Numbers DEF Membership
  <1>3. ASSUME NEW v \in S PROVE v \in T
    <2>1. v \in Node /\ ledger[v] \in Ref /\ membership[v] \in Membership
      BY <1>2 DEF TypeOK
    <2>2. {a.version, a.term, ledger[v].version, ledger[v].term,
           membership[v].version, membership[v].term} \subseteq Nat
      BY <1>2, <2>1, Numbers
    <2>3. ~Supersedes(a, membership[v])
      BY <2>1, <2>2, AtLeastAsNew
    <2>4. QED
      BY <2>3
  <1>4. T \in SUBSET Node /\ S \in SUBSET T
    BY <1>2, <1>3
  <1>5. /\ Cardinality(S) \in Nat /\ Cardinality(T) \in Nat
        /\ Cardinality(S) <= Cardinality(T)
    BY <1>4, SizeMonotone
  <1>6. quorum(a) \in Nat /\ Cardinality(S) >= quorum(a)
    BY <1>1, <1>2, SizeType DEF changeSettled, quorum
  <1>7. Cardinality(T) >= quorum(a)
    BY <1>5, <1>6
  <1>8. QED
    BY <1>1, <1>7 DEF Held

LEMMA ChangeMembers ==
    ASSUME TypeOK, TypeOK', MemberInv, NEW n \in Node, NEW ledger \in [Node -> Ref],
           NEW live, \A v \in Node : ~Supersedes(ledger[v], membership[v]),
           maybeStartMembershipChange(n, ledger, live), UNCHANGED heartbeatReplies
    PROVE  MemberStep
  <1>1. \A v \in Node : membership[v] \in Membership
    BY DEF TypeOK
  <1>2. \A v \in Node : ~Supersedes(membership[v], membership[v])
    BY <1>1, Numbers DEF Supersedes
  <1>3. CASE /\ acked' = [acked EXCEPT ![n] = ledger]
             /\ UNCHANGED <<membership, heartbeats, minted, disk>>
    BY <1>2, <1>3 DEF MemberStep, MemberInv, DisksAreNotBehind, TypeOK
  <1>4. ASSUME NEW m \in Membership, NEW r,
               acked' = [acked EXCEPT ![n] = ledger],
               UNCHANGED <<membership, heartbeats, minted>>,
               save(n, currentTerm[n], votedFor[n], m, r), Supersedes(m, membership[n])
        PROVE  MemberStep
    <2>1. ~Supersedes(membership[n], m)
      <3>1. {m.version, m.term, membership[n].version, membership[n].term} \subseteq Nat
        BY <1>1, Numbers
      <3>2. QED
        BY <1>4, <3>1, Newer
    <2>2. \A v \in Node : ~Supersedes(membership[v], disk'[v].membership)
      BY <1>4, <2>1, SaveEffect DEF MemberInv, DisksAreNotBehind
    <2>3. \A k, v \in Node :
             acked'[k][v] = acked[k][v] \/ ~Supersedes(acked'[k][v], membership[v])
      BY <1>4 DEF TypeOK
    <2>4. QED
      BY <1>2, <1>4, <2>2, <2>3 DEF MemberStep
  <1>5. ASSUME NEW m \in Membership, changeSettled(membership[n], ledger),
               Adjacent(membership[n].voters, m.voters), Supersedes(m, membership[n]),
               membership' = [membership EXCEPT ![n] = m],
               acked' = [acked EXCEPT ![n] = [ledger EXCEPT ![n] = ref(m)]],
               minted' = minted \cup {[new |-> m, old |-> membership[n]]},
               disk' = [disk EXCEPT ![n] =
                  [term |-> currentTerm[n], vote |-> votedFor[n], membership |-> m]]
        PROVE  MemberStep
    <2>1. /\ ~Supersedes(membership[n], m) /\ ~Supersedes(m, m) /\ ~Supersedes(ref(m), m)
      <3>1. {m.version, m.term, membership[n].version, membership[n].term} \subseteq Nat
        BY <1>1, Numbers
      <3>2. ~Supersedes(membership[n], m) /\ ~Supersedes(m, m)
        BY <1>5, <3>1, Newer
      <3>3. ~Supersedes(ref(m), m)
        BY <3>1 DEF Supersedes, ref
      <3>4. QED
        BY <3>2, <3>3
    <2>2. membership'[n] = m /\ \A v \in Node \ {n} : membership'[v] = membership[v]
      BY <1>5 DEF TypeOK
    <2>3. \A v \in Node : ~Supersedes(membership[v], membership'[v])
      BY <1>2, <2>1, <2>2
    <2>4. \A v \in Node : ~Supersedes(membership'[v], disk'[v].membership)
      <3>1. disk'[n].membership = m /\ \A v \in Node \ {n} : disk'[v] = disk[v]
        BY <1>5 DEF TypeOK
      <3>2. QED
        BY <2>1, <2>2, <3>1 DEF MemberInv, DisksAreNotBehind
    <2>5. \A k, v \in Node :
             acked'[k][v] = acked[k][v] \/ ~Supersedes(acked'[k][v], membership'[v])
      <3>1. /\ acked'[n][n] = ref(m) /\ \A v \in Node \ {n} : acked'[n][v] = ledger[v]
            /\ \A k \in Node \ {n} : acked'[k] = acked[k]
        BY <1>5 DEF TypeOK
      <3>2. QED
        BY <2>1, <2>2, <3>1
    <2>6. \A c \in minted' \ minted :
             Adjacent(c.old.voters, c.new.voters) /\ Held(c.old)
      <3>1. Held(membership[n])
        BY <1>5, SettledIsHeld
      <3>2. QED
        BY <1>5, <3>1
    <2>7. QED
      BY <2>3, <2>4, <2>5, <2>6 DEF MemberStep
  <1>6. QED
    BY <1>3, <1>4, <1>5, ChangeEffect

\* A heartbeat is acknowledged only for a membership that is held, on disk too.
LEMMA HeartbeatMembers ==
    ASSUME TypeOK, TypeOK', MemberInv, NEW n \in Node, NEW hb \in heartbeats,
           onHeartbeat(n, hb)
    PROVE  MemberStep
  <1>1. UNCHANGED <<acked, minted>>
    BY DEF onHeartbeat, ledgerVars, history
  <1>2. CASE rejectHeartbeat(n, hb)
    <2>1. UNCHANGED <<membership, disk, heartbeatReplies>>
      BY <1>2 DEF rejectHeartbeat
    <2>2. QED
      BY <1>1, <2>1, KeptMembership
  <1>3. ASSUME NEW r, NEW s, acceptHeartbeat(n, hb, r, s) PROVE MemberStep
    <2>1. /\ hb.membership \in Membership
          /\ \A v \in Node : membership[v] \in Membership
      BY DEF TypeOK
    <2>2. /\ {hb.membership.version, hb.membership.term} \subseteq Nat
          /\ \A v \in Node : {membership[v].version, membership[v].term} \subseteq Nat
      BY <2>1, Numbers
    <2>3. \A v \in Node : ~Supersedes(membership[v], membership[v])
      BY <2>2 DEF Supersedes
    <2>4. /\ \A v \in Node \ {n} : membership'[v] = membership[v] /\ disk'[v] = disk[v]
          /\ \/ membership'[n] = hb.membership /\ adoptsFrom(n, hb) /\ s = "ok"
             \/ membership'[n] = membership[n] /\ ~(adoptsFrom(n, hb) /\ s = "ok")
      BY <1>3 DEF acceptHeartbeat, TypeOK
    <2>5. adoptsFrom(n, hb) => ~Supersedes(membership[n], hb.membership)
      BY <2>2, Newer DEF adoptsFrom
    <2>6. \A v \in Node : ~Supersedes(membership[v], membership'[v])
      BY <2>3, <2>4, <2>5
    <2>7. ~Supersedes(hb.membership, hb.membership)
          /\ ~Supersedes(ref(hb.membership), hb.membership)
      BY <2>2 DEF Supersedes, ref
    <2>8. \A v \in Node : ~Supersedes(membership'[v], disk'[v].membership)
      <3>1. CASE adoptsFrom(n, hb) /\ s = "ok"
        <4>1. disk'[n].membership = hb.membership
          BY <1>3, <3>1 DEF acceptHeartbeat, TypeOK
        <4>2. QED
          BY <2>4, <2>7, <3>1, <4>1 DEF MemberInv, DisksAreNotBehind
      <3>2. CASE ~(adoptsFrom(n, hb) /\ s = "ok")
        <4>1. \/ disk'[n] = disk[n]
              \/ disk'[n].membership = membership[n]
              \/ disk'[n].membership = hb.membership /\ adoptsFrom(n, hb)
          BY <1>3, <3>2 DEF acceptHeartbeat, TypeOK
        <4>2. QED
          BY <2>3, <2>4, <2>5, <3>2, <4>1 DEF MemberInv, DisksAreNotBehind
      <3>3. QED
        BY <3>1, <3>2
    <2>9. ASSUME NEW q \in heartbeatReplies' \ heartbeatReplies, q.ok
          PROVE  ~Supersedes(q.ref, membership'[q.from])
      <3>1. q.ref = ref(hb.membership) /\ q.from = n
        BY <1>3 DEF acceptHeartbeat, replyHeartbeat
      <3>2. adoptsFrom(n, hb) => s = "ok"
        <4>1. q.ok = adoptAck(adoptsFrom(n, hb), s)
          BY <1>3 DEF acceptHeartbeat, replyHeartbeat
        <4>2. QED
          BY <2>9, <4>1, Zenon DEF adoptAck
      <3>3. CASE adoptsFrom(n, hb)
        BY <2>4, <2>7, <3>1, <3>2, <3>3
      <3>4. CASE ~adoptsFrom(n, hb)
        <4>1. ~Supersedes(ref(hb.membership), membership[n])
          BY <3>4 DEF adoptsFrom, Supersedes, ref
        <4>2. QED
          BY <2>4, <3>1, <3>4, <4>1
      <3>5. QED
        BY <3>3, <3>4
    <2>10. QED
      BY <1>1, <2>6, <2>8, <2>9, Zenon DEF MemberStep
  <1>4. QED
    BY <1>2, <1>3 DEF onHeartbeat

\* An acknowledgement that reaches the ledger is still true.
LEMMA ResultMembers ==
    ASSUME TypeOK, TypeOK', MemberInv, NEW n \in Node, NEW reply \in heartbeatReplies,
           onHeartbeatResult(n, reply)
    PROVE  MemberStep
  <1> DEFINE moved == IF /\ isVoter(n, reply.from)
                         /\ Supersedes(reply.ref, acked[n][reply.from])
                      THEN [acked[n] EXCEPT ![reply.from] = reply.ref]
                      ELSE acked[n]
  <1>1. PICK ledger \in [Node -> Ref] : ledger = moved
    BY LedgerType
  <1>2. UNCHANGED heartbeatReplies
    BY DEF onHeartbeatResult
  <1>3. CASE reply.ok
    <2>1. PICK live : maybeStartMembershipChange(n, ledger, live)
      BY <1>1, <1>3 DEF onHeartbeatResult
    <2>2. \A v \in Node : ~Supersedes(ledger[v], membership[v])
      <3>1. ~Supersedes(reply.ref, membership[reply.from])
        BY <1>3, Zenon DEF MemberInv, RepliesAreTrue
      <3>2. \A v \in Node : ~Supersedes(acked[n][v], membership[v])
        BY DEF MemberInv, LedgersAreTrue
      <3>3. \A v \in Node : \/ ledger[v] = acked[n][v]
                            \/ v = reply.from /\ ledger[v] = reply.ref
        BY <1>1 DEF TypeOK
      <3>4. QED
        BY <3>1, <3>2, <3>3
    <2>3. QED
      BY <1>2, <2>1, <2>2, ChangeMembers
  <1>4. CASE ~reply.ok
    <2>1. UNCHANGED <<acked, membership, heartbeats, minted, disk>>
      BY <1>4 DEF onHeartbeatResult
    <2>2. QED
      BY <1>2, <2>1, KeptMembership
  <1>5. QED
    BY <1>3, <1>4

\* A tick of a leader uses the ledger it has.
LEMMA TickMembers ==
    ASSUME TypeOK, TypeOK', MemberInv, NEW n \in Node, onHeartbeatTick(n)
    PROVE  MemberStep
  <1>1. PICK ledger \in [Node -> Ref] : ledger = acked[n]
    BY DEF TypeOK
  <1>2. \A v \in Node : ~Supersedes(ledger[v], membership[v])
    BY <1>1 DEF MemberInv, LedgersAreTrue
  <1>3. QED
    BY <1>1, <1>2, ChangeMembers DEF onHeartbeatTick

\* A restart resumes with the membership on disk, which is not older.
LEMMA RestartMembers ==
    ASSUME TypeOK, TypeOK', MemberInv, NEW n \in Node, NewManager(n)
    PROVE  MemberStep
  <1>1. /\ membership'[n] = disk[n].membership
        /\ \A v \in Node \ {n} : membership'[v] = membership[v]
        /\ UNCHANGED <<disk, heartbeatReplies, minted>>
    BY DEF NewManager, network, history, TypeOK
  <1>2. \A v \in Node : membership[v] \in Membership /\ membership'[v] \in Membership
    BY DEF TypeOK
  <1>3. \A v \in Node : /\ {membership[v].version, membership[v].term} \subseteq Nat
                        /\ {membership'[v].version, membership'[v].term} \subseteq Nat
    BY <1>2, Numbers
  <1>4. \A v \in Node : /\ ~Supersedes(membership[v], membership[v])
                        /\ ~Supersedes(membership'[v], membership'[v])
                        /\ ~Supersedes(NoAck, membership'[v])
    BY <1>3 DEF Supersedes, NoAck
  <1>5. \A v \in Node : ~Supersedes(membership[v], disk[v].membership)
    BY DEF MemberInv, DisksAreNotBehind
  <1>6. \A m, v \in Node : acked'[m][v] = acked[m][v] \/ acked'[m][v] = NoAck
    BY DEF NewManager, TypeOK
  <1>7. QED
    BY <1>1, <1>4, <1>5, <1>6 DEF MemberStep

LEMMA StutterMembers ==
    ASSUME TypeOK, TypeOK', MemberInv, UNCHANGED vars
    PROVE  MemberStep
  <1>1. UNCHANGED <<membership, disk, heartbeatReplies, minted, acked>>
    BY DEF vars, ledgerVars, network, history
  <1>2. \A v \in Node : membership[v].version \in Nat /\ membership[v].term \in Nat
    BY Numbers DEF TypeOK
  <1>3. \A v \in Node : ~Supersedes(membership[v], membership[v])
    BY <1>2 DEF Supersedes
  <1>4. QED
    BY <1>1, <1>3 DEF MemberStep, MemberInv, DisksAreNotBehind

-----------------------------------------------------------------------------
(* The theorems. *)

LEMMA MembersStep ==
    ASSUME TypeOK, TypeOK', MemberInv, [Next]_vars
    PROVE  MemberStep
  <1>1. CASE UNCHANGED vars
    BY <1>1, StutterMembers
  <1>2. ASSUME NEW n \in Node,
               \/ onElectionTimeout(n)
               \/ \E req \in voteRequests : onVote(n, req)
               \/ \E grant \in grants : onVoteGranted(n, grant)
               \/ \E reply \in newerTerms : onNewerTerm(n, reply)
        PROVE  MemberStep
    BY <1>2, ElectionMembers
  <1>3. ASSUME NEW n \in Node, onHeartbeatTick(n) PROVE MemberStep
    BY <1>3, TickMembers
  <1>4. ASSUME NEW n \in Node, NEW hb \in heartbeats, onHeartbeat(n, hb) PROVE MemberStep
    BY <1>4, HeartbeatMembers
  <1>5. ASSUME NEW n \in Node, NEW reply \in heartbeatReplies, onHeartbeatResult(n, reply)
        PROVE  MemberStep
    BY <1>5, ResultMembers
  <1>6. ASSUME NEW n \in Node, NewManager(n) PROVE MemberStep
    BY <1>6, RestartMembers
  <1>7. QED
    BY <1>1, <1>2, <1>3, <1>4, <1>5, <1>6, Zenon DEF Next

LEMMA VotesStep ==
    ASSUME TypeOK, TypeOK', VoteInv, [Next]_vars
    PROVE  VoteInv'
  <1>1. CASE UNCHANGED vars
    BY <1>1 DEF vars, electionVars, network, history, VoteInv, CastsAreKept, OneVotePerTerm,
                CandidatesHoldTheirVotes, WinnersHoldAQuorum, RefusalsAreNewer, Cast, Keeps,
                HoldsQuorum, Term, quorum
  <1>2. ASSUME NEW n \in Node, onElectionTimeout(n) PROVE VoteInv'
    BY <1>2, ElectionVotes
  <1>3. ASSUME NEW n \in Node, NEW req \in voteRequests, onVote(n, req) PROVE VoteInv'
    BY <1>3, VoteVotes
  <1>4. ASSUME NEW n \in Node, NEW grant \in grants, onVoteGranted(n, grant) PROVE VoteInv'
    BY <1>4, GrantedVotes
  <1>5. ASSUME NEW n \in Node, NEW reply \in newerTerms, onNewerTerm(n, reply) PROVE VoteInv'
    BY <1>5, NewerTermVotes
  <1>6. ASSUME NEW n \in Node, onHeartbeatTick(n) PROVE VoteInv'
    <2>1. acked[n] \in [Node -> Ref]
      BY DEF TypeOK
    <2>2. QED
      BY <1>6, <2>1, ChangeVotes DEF onHeartbeatTick
  <1>7. ASSUME NEW n \in Node, NEW hb \in heartbeats, onHeartbeat(n, hb) PROVE VoteInv'
    BY <1>7, HeartbeatVotes
  <1>8. ASSUME NEW n \in Node, NEW reply \in heartbeatReplies, onHeartbeatResult(n, reply)
        PROVE  VoteInv'
    <2>1. /\ role[n] = "leader"
          /\ UNCHANGED <<electionVars, grants, voteRequests, newerTerms, wins>>
      BY <1>8 DEF onHeartbeatResult
    <2>2. ASSUME NEW ledger \in [Node -> Ref], NEW live,
                 maybeStartMembershipChange(n, ledger, live)
          PROVE  VoteInv'
      BY <2>1, <2>2, ChangeVotes
    <2>3. CASE UNCHANGED <<acked, membership, heartbeats, minted, disk>>
      <3>1. QuietStep(n)
        BY <2>1, <2>3 DEF QuietStep, TermStep, Follows, electionVars
      <3>2. QED
        BY <3>1, QuietVotes
    <2>4. QED
      BY <1>8, <2>2, <2>3, LedgerType DEF onHeartbeatResult
  <1>9. ASSUME NEW n \in Node, NewManager(n) PROVE VoteInv'
    BY <1>9, RestartVotes
  <1>10. QED
    BY <1>1, <1>2, <1>3, <1>4, <1>5, <1>6, <1>7, <1>8, <1>9, Zenon DEF Next

\* The inductive invariant: votes are cast once and kept, and what is known of
\* memberships, in replies, ledgers and on disks, stays true.
THEOREM Invariance == Spec => []Inv
  <1>1. Init => Inv
    BY TypeInit, VoteInit, MemberInit DEF Inv
  <1>2. Inv /\ [Next]_vars => Inv'
    <2>1. SUFFICES ASSUME Inv, [Next]_vars PROVE Inv'
      OBVIOUS
    <2>2. TypeOK /\ TypeOK' /\ VoteInv /\ MemberInv
      BY <2>1, TypeStep DEF Inv
    <2>3. VoteInv'
      BY <2>1, <2>2, VotesStep
    <2>4. MemberInv'
      BY <2>1, <2>2, MembersStep, MemberStepKeeps
    <2>5. QED
      BY <2>2, <2>3, <2>4 DEF Inv
  <1>3. QED
    BY <1>1, <1>2, PTL DEF Spec

\* Two winners of one term never held the same membership, nor one the direct
\* successor of the other: their majorities would share a voter, and a voter
\* votes once per term.
THEOREM AdjacentElectionsAreSafe == Spec => []AdjacentMembershipsAreSafe
  <1>1. ASSUME TypeOK, VoteInv, NEW w \in wins, NEW x \in wins, w.term = x.term,
               NEW v \in Node, Cast(v, w.term, w.leader), Cast(v, x.term, x.leader)
        PROVE  w.leader = x.leader
    BY <1>1 DEF TypeOK, VoteInv, OneVotePerTerm
  <1>2. ASSUME Inv, NEW w \in wins, NEW x \in wins, w.term = x.term, w.leader # x.leader
        PROVE  /\ w.membership # x.membership
               /\ [new |-> w.membership, old |-> x.membership] \notin minted
    <2>1. w.membership.voters \in SUBSET Node /\ x.membership.voters \in SUBSET Node
      BY <1>2 DEF Inv, TypeOK, Membership
    <2>2. PICK Q \in SUBSET w.membership.voters :
             /\ Cardinality(Q) >= Quorum(Cardinality(w.membership.voters))
             /\ \A v \in Q : Cast(v, w.term, w.leader)
      BY <1>2 DEF Inv, VoteInv, WinnersHoldAQuorum, HoldsQuorum, quorum
    <2>3. PICK R \in SUBSET x.membership.voters :
             /\ Cardinality(R) >= Quorum(Cardinality(x.membership.voters))
             /\ \A v \in R : Cast(v, x.term, x.leader)
      BY <1>2 DEF Inv, VoteInv, WinnersHoldAQuorum, HoldsQuorum, quorum
    <2>4. ~ \E v \in Node : v \in Q /\ v \in R
      BY <1>1, <1>2, <2>2, <2>3 DEF Inv
    <2>5. w.membership # x.membership
      BY <2>1, <2>2, <2>3, <2>4, MajoritiesMeet
    <2>6. ~Adjacent(x.membership.voters, w.membership.voters)
      <3>1. ASSUME Adjacent(x.membership.voters, w.membership.voters)
            PROVE  \E v \in Node : v \in R /\ v \in Q
        BY <2>1, <2>2, <2>3, <3>1, AdjacentMajoritiesMeet
      <3>2. QED
        BY <2>4, <3>1
    <2>7. [new |-> w.membership, old |-> x.membership] \notin minted
      <3>1. \A c \in minted : Adjacent(c.old.voters, c.new.voters)
        BY <1>2 DEF Inv, MemberInv, ChangesAreSingle
      <3>2. QED
        BY <2>6, <3>1
    <2>8. QED
      BY <2>5, <2>7
  <1>3. Inv => AdjacentMembershipsAreSafe
    BY <1>2 DEF AdjacentMembershipsAreSafe
  <1>4. QED
    BY <1>3, Invariance, PTL

\* Before a membership is changed, a majority of its voters has stored it or a
\* newer one, and they never fall behind it again, whatever crashes or fails.
THEOREM ChangesAreDurable == Spec => []ChangedMembershipsAreDurable
  <1>1. ASSUME Inv, NEW c \in minted
        PROVE  Cardinality({v \in c.old.voters : ~Supersedes(c.old, disk[v].membership)})
                   >= quorum(c.old)
    <2>1. PICK a \in Membership : a = c.old
      BY <1>1 DEF Inv, TypeOK
    <2> DEFINE S == {v \in a.voters : ~Supersedes(a, membership[v])}
               T == {v \in a.voters : ~Supersedes(a, disk[v].membership)}
    <2>2. a.voters \in SUBSET Node /\ a.version \in Nat /\ a.term \in Nat
      BY Numbers DEF Membership
    <2>3. ASSUME NEW v \in S PROVE v \in T
      <3>1. v \in Node /\ membership[v] \in Membership /\ disk[v].membership \in Membership
        BY <1>1, <2>2 DEF Inv, TypeOK
      <3>2. {a.version, a.term, membership[v].version, membership[v].term,
             disk[v].membership.version, disk[v].membership.term} \subseteq Nat
        BY <2>2, <3>1, Numbers
      <3>3. ~Supersedes(a, membership[v]) /\ ~Supersedes(membership[v], disk[v].membership)
        BY <1>1, <3>1 DEF Inv, MemberInv, DisksAreNotBehind
      <3>4. ~Supersedes(a, disk[v].membership)
        BY <3>2, <3>3, AtLeastAsNew
      <3>5. QED
        BY <3>4
    <2>4. T \in SUBSET Node /\ S \in SUBSET T
      BY <2>2, <2>3
    <2>5. /\ Cardinality(S) \in Nat /\ Cardinality(T) \in Nat
          /\ Cardinality(S) <= Cardinality(T)
      BY <2>4, SizeMonotone
    <2>6. quorum(a) \in Nat /\ Cardinality(S) >= quorum(a)
      BY <1>1, <2>1, <2>2, SizeType
         DEF Inv, MemberInv, ChangedMembershipsAreHeld, Held, quorum
    <2>7. Cardinality(T) >= quorum(a)
      BY <2>5, <2>6
    <2>8. QED
      BY <2>1, <2>7
  <1>2. Inv => ChangedMembershipsAreDurable
    BY <1>1 DEF ChangedMembershipsAreDurable, Inv
  <1>3. QED
    BY <1>2, Invariance, PTL

\* No node ever goes back to an older membership, restarts included.
THEOREM MembershipMovesOn == Spec => MembershipNeverRegresses
  <1>1. Inv /\ Inv' /\ [Next]_vars =>
           \A n \in Node : ~Supersedes(membership[n], membership'[n])
    BY MembersStep DEF Inv, MemberStep
  <1>2. QED
    BY <1>1, Invariance, PTL DEF MembershipNeverRegresses, Spec

=============================================================================
