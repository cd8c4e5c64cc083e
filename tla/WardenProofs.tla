---------------------------- MODULE WardenProofs ----------------------------
(***************************************************************************)
(* Proofs about the static election of the Warden (WardenElection), for    *)
(* every finite set of nodes and every bound on terms, and in the second   *)
(* half about the incident engine of its leader (WardenWatchdog), for      *)
(* every set of peers, every electorate and every cooldown.                *)
(*                                                                         *)
(* The chain of the election is the one the code comments argue for: a     *)
(* vote is saved before it is cast, so it is cast once per term; a leader  *)
(* holds a majority of votes; two majorities share a voter.                *)
(***************************************************************************)
EXTENDS WardenElection, WardenWatchdog, FiniteSetTheorems, TLAPS

\* v has cast its vote of term t for c: over the wire, or for itself.
Cast(v, t, c) ==
    \/ [term |-> t, candidate |-> c, voter |-> v] \in grants
    \/ v = c /\ [term |-> t, candidate |-> c] \in voteRequests

\* Memory and disk still honour a vote cast in term t for c.
MemoryKeeps(v, t, c) ==
    currentTerm[v] > t \/ (currentTerm[v] = t /\ votedFor[v] = c)

DiskKeeps(v, t, c) ==
    diskTerm[v] > t \/ (diskTerm[v] = t /\ diskVotedFor[v] = c)

\* The conjuncts of the inductive invariant.
CastsAreKept ==
    \A v, c \in Node : \A t \in Term :
        Cast(v, t, c) => MemoryKeeps(v, t, c) /\ DiskKeeps(v, t, c)

OneVotePerTerm ==
    \A v, c, d \in Node : \A t \in Term : Cast(v, t, c) /\ Cast(v, t, d) => c = d

CandidatesHoldTheirVotes ==
    \A n \in Node :
        role[n] = "candidate" =>
            /\ [term |-> currentTerm[n], candidate |-> n] \in voteRequests
            /\ [term |-> currentTerm[n], leader |-> n] \notin heartbeats
            /\ \A v \in votesFrom[n] : Cast(v, currentTerm[n], n)

\* c stood in term t and a majority cast its vote of that term for c.
HoldsQuorum(t, c) ==
    /\ [term |-> t, candidate |-> c] \in voteRequests
    /\ \E Q \in SUBSET Node :
          Cardinality(Q) >= quorum /\ \A v \in Q : Cast(v, t, c)

LeadersHoldAQuorum ==
    \A h \in heartbeats : HoldsQuorum(h.term, h.leader)

RefusalsAreNewer ==
    \A r \in voteRefusals : r.respTerm > r.term

IInv ==
    /\ TypeOK
    /\ CastsAreKept
    /\ OneVotePerTerm
    /\ CandidatesHoldTheirVotes
    /\ LeadersHoldAQuorum
    /\ RefusalsAreNewer
    /\ ViewsNameTheWinner

-----------------------------------------------------------------------------
\* The size of a majority is a natural number; a single vote is a majority only
\* of a single node.
LEMMA QuorumSize ==
    /\ Cardinality(Node) \in Nat
    /\ quorum \in Nat
    /\ 2 * quorum > Cardinality(Node)
  <1>1. Cardinality(Node) \in Nat
    BY FS_CardinalityType, NodeAssumption
  <1>2. QED
    BY <1>1, Z3 DEF quorum

\* Two sets of voters that each reach quorum() share a voter.
LEMMA QuorumsIntersect ==
    ASSUME NEW Q \in SUBSET Node, NEW R \in SUBSET Node,
           Cardinality(Q) >= quorum, Cardinality(R) >= quorum
    PROVE  \E v \in Node : v \in Q /\ v \in R
  <1>1. /\ IsFiniteSet(Q) /\ IsFiniteSet(R)
        /\ Cardinality(Q) \in Nat /\ Cardinality(R) \in Nat
    BY FS_Subset, FS_CardinalityType, NodeAssumption
  <1>2. /\ IsFiniteSet(Q \cup R)
        /\ Cardinality(Q \cup R) <= Cardinality(Node)
    <2>1. Q \cup R \in SUBSET Node
      OBVIOUS
    <2>2. QED
      BY <2>1, FS_Subset, NodeAssumption
  <1>3. Cardinality(Q \cup R)
            = Cardinality(Q) + Cardinality(R) - Cardinality(Q \cap R)
    BY <1>1, FS_Union
  <1>4. Cardinality(Q \cap R) \in Nat
    BY <1>1, FS_Intersection, FS_CardinalityType
  <1>5. Cardinality(Q \cup R) \in Nat
    BY <1>2, FS_CardinalityType
  <1>6. Cardinality(Q \cap R) # 0
    BY <1>1, <1>2, <1>3, <1>4, <1>5, QuorumSize
  <1>7. Q \cap R # {}
    BY <1>6, FS_EmptySet
  <1>8. QED
    BY <1>7

-----------------------------------------------------------------------------
\* Type correctness: terms stay within the bound, votes and leaders are nodes
\* or empty, messages are well formed.
LEMMA TypeInit == Init => TypeOK
  BY NodeAssumption, NoneAssumption, TermAssumption
     DEF Init, TypeOK, Term, MaybeNode, Role

LEMMA TypeStep == TypeOK /\ [Next]_vars => TypeOK'
  <1> SUFFICES ASSUME TypeOK, [Next]_vars PROVE TypeOK'
    OBVIOUS
  <1> USE TermAssumption DEF TypeOK, Term, MaybeNode, Role, VoteRequest,
          HeartbeatRequest, Grant, NewerTerm
  <1>1. CASE UNCHANGED vars
    BY <1>1 DEF vars, memory, disk, network
  <1>2. ASSUME NEW n \in Node, onElectionTimeout(n) PROVE TypeOK'
    <2>1. currentTerm[n] + 1 \in 0 .. MaxTerm
      BY <1>2 DEF onElectionTimeout
    <2>2. CASE startElection(n)
      <3>1. PICK t \in Term : t = currentTerm[n] + 1
        BY <2>1
      <3>2. /\ diskTerm' = [diskTerm EXCEPT ![n] = t]
            /\ diskVotedFor' = [diskVotedFor EXCEPT ![n] = n]
            /\ currentTerm' = [currentTerm EXCEPT ![n] = t]
            /\ votedFor' = [votedFor EXCEPT ![n] = n]
            /\ votesFrom' = [votesFrom EXCEPT ![n] = {n}]
            /\ voteRequests' = voteRequests \cup {[term |-> t, candidate |-> n]}
            /\ UNCHANGED <<grants, voteRefusals, heartbeatRejections>>
        BY <2>2, <3>1 DEF startElection, saveState
      <3>3. \/ becomeLeader(n, t)
            \/ /\ role' = [role EXCEPT ![n] = "candidate"]
               /\ leaderID' = [leaderID EXCEPT ![n] = None]
               /\ UNCHANGED heartbeats
        BY <2>2, <3>1 DEF startElection
      <3>4. /\ role' \in [Node -> Role] /\ leaderID' \in [Node -> MaybeNode]
            /\ heartbeats' \subseteq HeartbeatRequest
        BY <3>1, <3>3 DEF becomeLeader
      <3>5. /\ diskTerm' \in [Node -> Term] /\ diskVotedFor' \in [Node -> MaybeNode]
            /\ currentTerm' \in [Node -> Term] /\ votedFor' \in [Node -> MaybeNode]
        BY <3>1, <3>2
      <3>6. votesFrom' \in [Node -> SUBSET Node] /\ voteRequests' \subseteq VoteRequest
        BY <3>1, <3>2
      <3>7. QED
        BY <3>2, <3>4, <3>5, <3>6
    <2>3. ASSUME NEW result \in SaveResult, startElectionFailed(n, result)
          PROVE  TypeOK'
      BY <2>1, <2>3 DEF startElectionFailed, saveState, memory, network, disk
    <2>4. QED
      BY <1>2, <2>2, <2>3 DEF onElectionTimeout
  <1>3. ASSUME NEW n \in Node, NEW req \in voteRequests, onVote(n, req)
        PROVE  TypeOK'
    <2>1. CASE grantVote(n, req)
      BY <1>3, <2>1 DEF onVote, grantVote, saveState, adopt, disk
    <2>2. ASSUME NEW result \in SaveResult, refuseUnsaved(n, req, result)
          PROVE  TypeOK'
      BY <1>3, <2>2 DEF onVote, refuseUnsaved, saveState, memory, disk
    <2>3. CASE refuseVote(n, req)
      BY <1>3, <2>3 DEF onVote, refuseVote, refusal, memory, disk
    <2>4. QED
      BY <1>3, <2>1, <2>2, <2>3 DEF onVote
  <1>4. ASSUME NEW n \in Node, NEW grant \in grants, onVoteGranted(n, grant)
        PROVE  TypeOK'
    BY <1>4 DEF onVoteGranted, becomeLeader, disk
  <1>5. ASSUME NEW n \in Node, NEW reply \in voteRefusals,
               onVoteRefused(n, reply)
        PROVE  TypeOK'
    BY <1>5 DEF onVoteRefused, stepDown, saveState, adopt, network, disk
  <1>6. ASSUME NEW n \in Node, NEW req \in heartbeats, onHeartbeat(n, req)
        PROVE  TypeOK'
    <2>1. CASE rejectHeartbeat(n, req)
      BY <1>6, <2>1 DEF onHeartbeat, rejectHeartbeat, memory, disk
    <2>2. CASE acceptHeartbeat(n, req)
      BY <1>6, <2>2 DEF onHeartbeat, acceptHeartbeat, saveState, adopt, disk
    <2>3. QED
      BY <1>6, <2>1, <2>2 DEF onHeartbeat
  <1>7. ASSUME NEW n \in Node, NEW reply \in heartbeatRejections,
               onHeartbeatResult(n, reply)
        PROVE  TypeOK'
    BY <1>7 DEF onHeartbeatResult, stepDown, saveState, adopt, network, disk
  <1>8. ASSUME NEW n \in Node, NewManager(n) PROVE TypeOK'
    BY <1>8 DEF NewManager, disk, network
  <1>9. QED
    BY <1>1, <1>2, <1>3, <1>4, <1>5, <1>6, <1>7, <1>8 DEF Next

\* Spec keeps the type invariant.
THEOREM TypeCorrect == Spec => []TypeOK
  BY TypeInit, TypeStep, PTL DEF Spec

-----------------------------------------------------------------------------
\* No vote is cast in a step that leaves the requests and the grants alone, so
\* what was said of the cast votes stays true.
LEMMA CastUnchanged ==
    ASSUME UNCHANGED <<voteRequests, grants>>
    PROVE  \A v, t, c : Cast(v, t, c)' <=> Cast(v, t, c)
  BY DEF Cast

\* Requests and grants are never withdrawn, so a cast vote stays cast.
LEMMA CastMonotone ==
    ASSUME voteRequests \subseteq voteRequests', grants \subseteq grants'
    PROVE  /\ \A v, t, c : Cast(v, t, c) => Cast(v, t, c)'
           /\ \A t, c : HoldsQuorum(t, c) => HoldsQuorum(t, c)'
  <1>1. \A v, t, c : Cast(v, t, c) => Cast(v, t, c)'
    BY DEF Cast
  <1>2. QED
    BY <1>1 DEF HoldsQuorum

\* A node that writes a newer term, whatever the fate of the save, and maybe
\* adopts it in memory, breaks no promise: its memory was already at least as
\* new as every vote it cast.
LEMMA NewerTermKeepsVotes ==
    ASSUME TypeOK, CastsAreKept, OneVotePerTerm, TypeOK',
           NEW n \in Node, NEW term \in Term, NEW vote \in MaybeNode,
           NEW result \in SaveResult,
           term > currentTerm[n],
           saveState(n, term, vote, result),
           UNCHANGED <<voteRequests, grants>>,
           \/ UNCHANGED <<currentTerm, votedFor>>
           \/ /\ currentTerm' = [currentTerm EXCEPT ![n] = term]
              /\ votedFor' = [votedFor EXCEPT ![n] = vote]
    PROVE  CastsAreKept' /\ OneVotePerTerm'
  <1>1. OneVotePerTerm'
    BY CastUnchanged DEF OneVotePerTerm
  <1>2. ASSUME NEW v \in Node, NEW c \in Node, NEW t \in Term, Cast(v, t, c)
        PROVE  MemoryKeeps(v, t, c)' /\ DiskKeeps(v, t, c)'
    <2>1. MemoryKeeps(v, t, c) /\ DiskKeeps(v, t, c)
      BY <1>2 DEF CastsAreKept
    <2>2. QED
      BY <2>1, TermAssumption
         DEF MemoryKeeps, DiskKeeps, saveState, disk, TypeOK, Term
  <1>3. QED
    BY <1>1, <1>2, CastUnchanged DEF CastsAreKept

\* A step that casts no vote and changes neither memory nor disk of the votes.
LEMMA NothingCast ==
    ASSUME CastsAreKept, OneVotePerTerm,
           UNCHANGED <<currentTerm, votedFor, disk, voteRequests, grants>>
    PROVE  CastsAreKept' /\ OneVotePerTerm'
  BY DEF CastsAreKept, OneVotePerTerm, Cast, MemoryKeeps, DiskKeeps, disk

-----------------------------------------------------------------------------
\* The initial state satisfies the inductive invariant.
LEMMA IInvInit == Init => IInv
  <1> SUFFICES ASSUME Init PROVE IInv
    OBVIOUS
  <1>1. TypeOK
    BY TypeInit
  <1>2. CastsAreKept /\ OneVotePerTerm
    BY DEF Init, CastsAreKept, OneVotePerTerm, Cast
  <1>3. CandidatesHoldTheirVotes /\ LeadersHoldAQuorum /\ RefusalsAreNewer
    BY DEF Init, CandidatesHoldTheirVotes, LeadersHoldAQuorum, RefusalsAreNewer
  <1>4. ViewsNameTheWinner
    BY DEF Init, ViewsNameTheWinner
  <1>5. QED
    BY <1>1, <1>2, <1>3, <1>4 DEF IInv

\* A node that follows or forgets a leader leaves the election record alone.
LEMMA FollowerStep ==
    ASSUME IInv, TypeOK', NEW n \in Node, NEW leader \in MaybeNode,
           NEW term \in Term,
           UNCHANGED <<voteRequests, heartbeats, grants>>,
           currentTerm' = [currentTerm EXCEPT ![n] = term],
           role' = [role EXCEPT ![n] = "follower"],
           leaderID' = [leaderID EXCEPT ![n] = leader],
           \A m \in Node : m # n => votesFrom'[m] = votesFrom[m],
           leader # None => [term |-> term, leader |-> leader] \in heartbeats
    PROVE  CandidatesHoldTheirVotes' /\ LeadersHoldAQuorum' /\ ViewsNameTheWinner'
  <1>1. CandidatesHoldTheirVotes'
    BY CastUnchanged DEF CandidatesHoldTheirVotes, IInv, TypeOK
  <1>2. LeadersHoldAQuorum'
    BY CastMonotone DEF LeadersHoldAQuorum, IInv
  <1>3. ViewsNameTheWinner'
    BY DEF ViewsNameTheWinner, IInv, TypeOK
  <1>4. QED
    BY <1>1, <1>2, <1>3

\* startElection opens a term in which this node has cast no vote yet.
LEMMA NewTermIsUnvoted ==
    ASSUME IInv, NEW n \in Node, currentTerm[n] < MaxTerm
    PROVE  /\ currentTerm[n] + 1 \in Term
           /\ \A c \in Node : ~Cast(n, currentTerm[n] + 1, c)
           /\ [term |-> currentTerm[n] + 1, candidate |-> n] \notin voteRequests
           /\ [term |-> currentTerm[n] + 1, leader |-> n] \notin heartbeats
  <1>1. currentTerm[n] + 1 \in Term /\ currentTerm[n] \in Nat
    BY TermAssumption DEF IInv, TypeOK, Term
  <1>2. ASSUME NEW c \in Node, Cast(n, currentTerm[n] + 1, c) PROVE FALSE
    <2>1. MemoryKeeps(n, currentTerm[n] + 1, c)
      BY <1>1, <1>2 DEF IInv, CastsAreKept
    <2>2. QED
      BY <1>1, <2>1 DEF MemoryKeeps
  <1>3. [term |-> currentTerm[n] + 1, candidate |-> n] \notin voteRequests
    BY <1>2 DEF Cast
  <1>4. [term |-> currentTerm[n] + 1, leader |-> n] \notin heartbeats
    BY <1>3 DEF IInv, LeadersHoldAQuorum, HoldsQuorum
  <1>5. QED
    BY <1>1, <1>2, <1>3, <1>4

LEMMA StartElectionStep ==
    ASSUME IInv, TypeOK', NEW n \in Node,
           currentTerm[n] < MaxTerm, startElection(n)
    PROVE  IInv'
  <1>0. PICK T \in Term : T = currentTerm[n] + 1
    BY NewTermIsUnvoted
  <1> DEFINE request == [term |-> T, candidate |-> n]
  <1>1. /\ \A c \in Node : ~Cast(n, T, c)
        /\ [term |-> T, leader |-> n] \notin heartbeats
    BY <1>0, NewTermIsUnvoted
  <1>2. /\ currentTerm' = [currentTerm EXCEPT ![n] = T]
        /\ votedFor' = [votedFor EXCEPT ![n] = n]
        /\ votesFrom' = [votesFrom EXCEPT ![n] = {n}]
        /\ diskTerm' = [diskTerm EXCEPT ![n] = T]
        /\ diskVotedFor' = [diskVotedFor EXCEPT ![n] = n]
        /\ voteRequests' = voteRequests \cup {request}
        /\ UNCHANGED <<grants, voteRefusals>>
    BY <1>0 DEF startElection, saveState
  <1>3. \A v, c \in Node : \A t \in Term :
            Cast(v, t, c)' <=> Cast(v, t, c) \/ (v = n /\ c = n /\ t = T)
    BY <1>2 DEF Cast
  <1>4. OneVotePerTerm'
    BY <1>1, <1>3 DEF OneVotePerTerm, IInv
  <1>5. ASSUME NEW v \in Node, NEW c \in Node, NEW t \in Term, Cast(v, t, c)'
        PROVE  MemoryKeeps(v, t, c)' /\ DiskKeeps(v, t, c)'
    <2>1. CASE Cast(v, t, c)
      <3>1. MemoryKeeps(v, t, c) /\ DiskKeeps(v, t, c)
        BY <2>1 DEF CastsAreKept, IInv
      <3>2. QED
        BY <1>0, <1>2, <3>1, TermAssumption
           DEF MemoryKeeps, DiskKeeps, IInv, TypeOK, Term
    <2>2. CASE v = n /\ c = n /\ t = T
      BY <1>2, <2>2 DEF MemoryKeeps, DiskKeeps, IInv, TypeOK
    <2>3. QED
      BY <1>3, <1>5, <2>1, <2>2
  <1>6. CASE 1 >= quorum
    <2>1. /\ role' = [role EXCEPT ![n] = "leader"]
          /\ leaderID' = [leaderID EXCEPT ![n] = n]
          /\ heartbeats' = heartbeats \cup {[term |-> T, leader |-> n]}
      BY <1>0, <1>6 DEF startElection, becomeLeader
    <2>2. ViewsNameTheWinner'
      BY <1>2, <2>1 DEF ViewsNameTheWinner, IInv, TypeOK
    <2>3. CandidatesHoldTheirVotes'
      BY <1>2, <2>1, CastMonotone DEF CandidatesHoldTheirVotes, IInv, TypeOK
    <2>4. Cardinality({n}) >= quorum
      BY <1>6, FS_Singleton, QuorumSize
    <2>5. Cast(n, T, n)'
      BY <1>3
    <2>6. LeadersHoldAQuorum'
      <3>1. ASSUME NEW h \in heartbeats PROVE HoldsQuorum(h.term, h.leader)'
        BY <1>2, CastMonotone DEF LeadersHoldAQuorum, IInv
      <3>2. HoldsQuorum(T, n)'
        BY <1>2, <2>4, <2>5 DEF HoldsQuorum
      <3>3. QED
        BY <2>1, <3>1, <3>2 DEF LeadersHoldAQuorum
    <2>7. QED
      BY <1>2, <1>4, <1>5, <2>2, <2>3, <2>6
         DEF IInv, CastsAreKept, RefusalsAreNewer
  <1>7. CASE ~(1 >= quorum)
    <2>1. /\ role' = [role EXCEPT ![n] = "candidate"]
          /\ leaderID' = [leaderID EXCEPT ![n] = None]
          /\ UNCHANGED heartbeats
      BY <1>7 DEF startElection
    <2>2. ViewsNameTheWinner'
      BY <1>2, <2>1 DEF ViewsNameTheWinner, IInv, TypeOK
    <2>3. CandidatesHoldTheirVotes'
      <3>1. ASSUME NEW m \in Node, m # n, role'[m] = "candidate"
            PROVE  /\ [term |-> currentTerm'[m], candidate |-> m] \in voteRequests'
                   /\ [term |-> currentTerm'[m], leader |-> m] \notin heartbeats'
                   /\ \A v \in votesFrom'[m] : Cast(v, currentTerm[m], m)'
        BY <1>2, <2>1, <3>1, CastMonotone
           DEF CandidatesHoldTheirVotes, IInv, TypeOK
      <3>2. /\ [term |-> currentTerm'[n], candidate |-> n] \in voteRequests'
            /\ [term |-> currentTerm'[n], leader |-> n] \notin heartbeats'
            /\ \A v \in votesFrom'[n] : Cast(v, currentTerm[n], n)'
        BY <1>1, <1>2, <1>3, <2>1 DEF IInv, TypeOK
      <3>3. QED
        BY <1>2, <3>1, <3>2 DEF CandidatesHoldTheirVotes
    <2>4. LeadersHoldAQuorum'
      BY <1>2, <2>1, CastMonotone DEF LeadersHoldAQuorum, IInv
    <2>5. QED
      BY <1>2, <1>4, <1>5, <2>2, <2>3, <2>4
         DEF IInv, CastsAreKept, RefusalsAreNewer
  <1>8. QED
    BY <1>6, <1>7

\* onVote grants: the vote of that term was free or already this candidate's.
LEMMA GrantVoteStep ==
    ASSUME IInv, TypeOK', NEW n \in Node, NEW req \in voteRequests,
           grantVote(n, req), UNCHANGED <<voteRequests, heartbeats>>
    PROVE  IInv'
  <1>0. /\ req.term \in Term /\ req.candidate \in Node
        /\ req.term \in Nat /\ currentTerm[n] \in Nat
        /\ currentTerm[n] <= req.term
    BY TermAssumption
       DEF IInv, TypeOK, VoteRequest, Term, grantVote, mayGrant
  <1>1. /\ currentTerm' = [currentTerm EXCEPT ![n] = req.term]
        /\ votedFor' = [votedFor EXCEPT ![n] = req.candidate]
        /\ role' = [role EXCEPT ![n] = "follower"]
        /\ leaderID' = [leaderID EXCEPT ![n] = None]
        /\ diskTerm' = [diskTerm EXCEPT ![n] = req.term]
        /\ diskVotedFor' = [diskVotedFor EXCEPT ![n] = req.candidate]
        /\ grants' = grants \cup
              {[term |-> req.term, candidate |-> req.candidate, voter |-> n]}
        /\ UNCHANGED <<votesFrom, voteRequests, heartbeats, voteRefusals>>
    BY DEF grantVote, adopt, saveState
  <1>2. \A v, c \in Node : \A t \in Term :
            Cast(v, t, c)' <=>
                Cast(v, t, c) \/ (v = n /\ c = req.candidate /\ t = req.term)
    BY <1>1 DEF Cast
  <1>3. ASSUME NEW c \in Node, Cast(n, req.term, c) PROVE c = req.candidate
    <2>1. MemoryKeeps(n, req.term, c)
      BY <1>0, <1>3 DEF IInv, CastsAreKept
    <2>2. QED
      BY <1>0, <2>1, NoneAssumption
         DEF MemoryKeeps, grantVote, mayGrant, effVotedFor
  <1>4. OneVotePerTerm'
    BY <1>0, <1>2, <1>3 DEF OneVotePerTerm, IInv
  <1>5. ASSUME NEW v \in Node, NEW c \in Node, NEW t \in Term, Cast(v, t, c)'
        PROVE  MemoryKeeps(v, t, c)' /\ DiskKeeps(v, t, c)'
    <2>1. CASE Cast(v, t, c)
      <3>1. MemoryKeeps(v, t, c) /\ DiskKeeps(v, t, c)
        BY <2>1 DEF CastsAreKept, IInv
      <3>2. v = n /\ t = req.term => c = req.candidate
        BY <1>3, <2>1
      <3>3. QED
        BY <1>0, <1>1, <3>1, <3>2, TermAssumption
           DEF MemoryKeeps, DiskKeeps, IInv, TypeOK, Term
    <2>2. CASE v = n /\ c = req.candidate /\ t = req.term
      BY <1>1, <2>2 DEF MemoryKeeps, DiskKeeps, IInv, TypeOK
    <2>3. QED
      BY <1>2, <1>5, <2>1, <2>2
  <1>6. LeadersHoldAQuorum'
    BY <1>1, CastMonotone DEF LeadersHoldAQuorum, IInv
  <1>7. CandidatesHoldTheirVotes'
    BY <1>1, CastMonotone DEF CandidatesHoldTheirVotes, IInv, TypeOK
  <1>8. ViewsNameTheWinner'
    BY <1>1 DEF ViewsNameTheWinner, IInv, TypeOK
  <1>9. QED
    BY <1>1, <1>4, <1>5, <1>6, <1>7, <1>8
       DEF IInv, CastsAreKept, RefusalsAreNewer

\* onVote cannot save: only the disk may hold the vote that was refused, and
\* that vote contradicts none that was cast.
LEMMA RefuseUnsavedStep ==
    ASSUME IInv, TypeOK', NEW n \in Node, NEW req \in voteRequests,
           NEW result \in SaveResult, refuseUnsaved(n, req, result),
           UNCHANGED <<voteRequests, heartbeats>>
    PROVE  IInv'
  <1>0. /\ req.term \in Term /\ req.candidate \in Node
        /\ req.term \in Nat /\ currentTerm[n] \in Nat
        /\ currentTerm[n] <= req.term
    BY TermAssumption
       DEF IInv, TypeOK, VoteRequest, Term, refuseUnsaved, mayGrant
  <1>1. /\ UNCHANGED <<memory, grants, voteRefusals>>
        /\ saveState(n, req.term, req.candidate, result)
    BY DEF refuseUnsaved
  <1>2. \A v, t, c : Cast(v, t, c)' <=> Cast(v, t, c)
    BY <1>1, CastUnchanged
  <1>3. ASSUME NEW v \in Node, NEW c \in Node, NEW t \in Term, Cast(v, t, c)
        PROVE  MemoryKeeps(v, t, c)' /\ DiskKeeps(v, t, c)'
    <2>1. MemoryKeeps(v, t, c) /\ DiskKeeps(v, t, c)
      BY <1>3 DEF CastsAreKept, IInv
    <2>2. v = n /\ t = req.term => c = req.candidate
      BY <1>0, <2>1, NoneAssumption
         DEF MemoryKeeps, refuseUnsaved, mayGrant, effVotedFor
    <2>3. QED
      BY <1>0, <1>1, <2>1, <2>2, TermAssumption
         DEF MemoryKeeps, DiskKeeps, saveState, memory, disk, IInv, TypeOK, Term
  <1>4. CastsAreKept' /\ OneVotePerTerm'
    BY <1>2, <1>3 DEF CastsAreKept, OneVotePerTerm, IInv
  <1>5. LeadersHoldAQuorum'
    BY <1>1, CastMonotone DEF LeadersHoldAQuorum, IInv
  <1>6. CandidatesHoldTheirVotes'
    BY <1>1, <1>2 DEF CandidatesHoldTheirVotes, memory, IInv
  <1>7. ViewsNameTheWinner'
    BY <1>1 DEF ViewsNameTheWinner, memory, IInv
  <1>8. QED
    BY <1>1, <1>4, <1>5, <1>6, <1>7 DEF IInv, RefusalsAreNewer

\* onVoteResult counts a grant of the candidate's own term, so the tally is a
\* set of votes that were really cast for it.
LEMMA VoteGrantedStep ==
    ASSUME IInv, TypeOK', NEW n \in Node, NEW grant \in grants,
           onVoteGranted(n, grant)
    PROVE  IInv'
  <1>0. /\ role[n] = "candidate" /\ grant.candidate = n
        /\ grant.term = currentTerm[n] /\ grant.voter \in Node
        /\ grant = [term |-> currentTerm[n], candidate |-> n,
                    voter |-> grant.voter]
    BY DEF onVoteGranted, currentCandidacy, IInv, TypeOK, Grant
  <1>1. /\ votesFrom' = [votesFrom EXCEPT ![n] = votesFrom[n] \cup {grant.voter}]
        /\ UNCHANGED <<currentTerm, votedFor, disk, voteRequests, grants,
                       voteRefusals>>
    BY DEF onVoteGranted, disk
  <1>2. CastsAreKept' /\ OneVotePerTerm'
    BY <1>1, NothingCast DEF IInv
  <1>3. \A v \in votesFrom[n] \cup {grant.voter} : Cast(v, currentTerm[n], n)
    BY <1>0 DEF Cast, CandidatesHoldTheirVotes, IInv
  <1>4. CASE Cardinality(votesFrom[n] \cup {grant.voter}) >= quorum
    <2>1. /\ role' = [role EXCEPT ![n] = "leader"]
          /\ leaderID' = [leaderID EXCEPT ![n] = n]
          /\ heartbeats' =
                heartbeats \cup {[term |-> currentTerm[n], leader |-> n]}
      BY <1>4 DEF onVoteGranted, becomeLeader
    <2>2. HoldsQuorum(currentTerm[n], n)
      BY <1>0, <1>3, <1>4
         DEF HoldsQuorum, CandidatesHoldTheirVotes, IInv, TypeOK
    <2>3. LeadersHoldAQuorum'
      BY <1>1, <2>1, <2>2, CastMonotone DEF LeadersHoldAQuorum, IInv
    <2>4. CandidatesHoldTheirVotes'
      BY <1>1, <2>1, CastUnchanged DEF CandidatesHoldTheirVotes, IInv, TypeOK
    <2>5. ViewsNameTheWinner'
      BY <1>1, <2>1 DEF ViewsNameTheWinner, IInv, TypeOK
    <2>6. QED
      BY <1>1, <1>2, <2>3, <2>4, <2>5 DEF IInv, RefusalsAreNewer
  <1>5. CASE ~(Cardinality(votesFrom[n] \cup {grant.voter}) >= quorum)
    <2>1. UNCHANGED <<role, leaderID, heartbeats>>
      BY <1>5 DEF onVoteGranted
    <2>2. LeadersHoldAQuorum'
      BY <1>1, <2>1, CastMonotone DEF LeadersHoldAQuorum, IInv
    <2>3. CandidatesHoldTheirVotes'
      BY <1>1, <1>3, <2>1, CastUnchanged
         DEF CandidatesHoldTheirVotes, IInv, TypeOK
    <2>4. ViewsNameTheWinner'
      BY <1>1, <2>1 DEF ViewsNameTheWinner, IInv
    <2>5. QED
      BY <1>1, <1>2, <2>2, <2>3, <2>4 DEF IInv, RefusalsAreNewer
  <1>6. QED
    BY <1>4, <1>5

\* stepDown: a newer term from a reply, kept in memory even if the save failed.
LEMMA StepDownStep ==
    ASSUME IInv, TypeOK', NEW n \in Node, NEW term \in Term,
           NEW result \in SaveResult, term > currentTerm[n],
           stepDown(n, term, result), UNCHANGED network
    PROVE  IInv'
  <1>1. CastsAreKept' /\ OneVotePerTerm'
    BY NewerTermKeepsVotes DEF stepDown, adopt, network, IInv, MaybeNode
  <1>2. CandidatesHoldTheirVotes' /\ LeadersHoldAQuorum' /\ ViewsNameTheWinner'
    BY FollowerStep DEF stepDown, adopt, network, MaybeNode
  <1>3. QED
    BY <1>1, <1>2 DEF IInv, RefusalsAreNewer, network

\* onHeartbeat of a current or newer term.
LEMMA AcceptHeartbeatStep ==
    ASSUME IInv, TypeOK', NEW n \in Node, NEW req \in heartbeats,
           acceptHeartbeat(n, req),
           UNCHANGED <<voteRequests, heartbeats, grants, voteRefusals>>
    PROVE  IInv'
  <1>0. /\ req.term \in Term /\ req.leader \in Node
        /\ req = [term |-> req.term, leader |-> req.leader]
    BY DEF IInv, TypeOK, HeartbeatRequest
  <1>1. /\ currentTerm' = [currentTerm EXCEPT ![n] = req.term]
        /\ role' = [role EXCEPT ![n] = "follower"]
        /\ leaderID' = [leaderID EXCEPT ![n] = req.leader]
        /\ UNCHANGED votesFrom
    BY DEF acceptHeartbeat, adopt
  <1>2. CandidatesHoldTheirVotes' /\ LeadersHoldAQuorum' /\ ViewsNameTheWinner'
    BY <1>0, <1>1, FollowerStep DEF MaybeNode
  <1>3. CASE req.term > currentTerm[n]
    <2>1. PICK result \in SaveResult : saveState(n, req.term, None, result)
      BY <1>3 DEF acceptHeartbeat
    <2>2. votedFor' = [votedFor EXCEPT ![n] = None]
      BY <1>3 DEF acceptHeartbeat, adopt
    <2>3. CastsAreKept' /\ OneVotePerTerm'
      BY <1>0, <1>1, <1>3, <2>1, <2>2, NewerTermKeepsVotes DEF IInv, MaybeNode
    <2>4. QED
      BY <1>2, <2>3 DEF IInv, RefusalsAreNewer
  <1>4. CASE ~(req.term > currentTerm[n])
    <2>1. req.term = currentTerm[n]
      BY <1>0, <1>4, TermAssumption DEF acceptHeartbeat, IInv, TypeOK, Term
    <2>2. UNCHANGED <<currentTerm, votedFor, disk>>
      BY <1>1, <1>4, <2>1 DEF acceptHeartbeat, adopt, IInv, TypeOK
    <2>3. CastsAreKept' /\ OneVotePerTerm'
      BY <2>2, NothingCast DEF IInv
    <2>4. QED
      BY <1>2, <2>3 DEF IInv, RefusalsAreNewer
  <1>5. QED
    BY <1>3, <1>4

\* A restart: the disk honours every cast vote, and memory becomes the disk.
LEMMA NewManagerStep ==
    ASSUME IInv, TypeOK', NEW n \in Node, NewManager(n)
    PROVE  IInv'
  <1>1. \A v, t, c : Cast(v, t, c)' <=> Cast(v, t, c)
    BY CastUnchanged DEF NewManager, network
  <1>2. ASSUME NEW v \in Node, NEW c \in Node, NEW t \in Term, Cast(v, t, c)
        PROVE  MemoryKeeps(v, t, c)' /\ DiskKeeps(v, t, c)'
    <2>1. MemoryKeeps(v, t, c) /\ DiskKeeps(v, t, c)
      BY <1>2 DEF CastsAreKept, IInv
    <2>2. QED
      BY <2>1 DEF MemoryKeeps, DiskKeeps, NewManager, disk, IInv, TypeOK
  <1>3. CastsAreKept' /\ OneVotePerTerm'
    BY <1>1, <1>2 DEF CastsAreKept, OneVotePerTerm, IInv
  <1>4. CandidatesHoldTheirVotes' /\ LeadersHoldAQuorum' /\ ViewsNameTheWinner'
    <2>1. diskTerm[n] \in Term
      BY DEF IInv, TypeOK
    <2>2. QED
      BY <2>1, FollowerStep DEF NewManager, network, MaybeNode, IInv, TypeOK
  <1>5. QED
    BY <1>3, <1>4 DEF IInv, RefusalsAreNewer, NewManager, network

\* A step that changes nothing the invariant speaks of, save new refusals.
LEMMA QuietStep ==
    ASSUME IInv, TypeOK', RefusalsAreNewer',
           UNCHANGED <<memory, disk, voteRequests, heartbeats, grants>>
    PROVE  IInv'
  <1>1. CastsAreKept' /\ OneVotePerTerm'
    BY NothingCast DEF IInv, memory
  <1>2. LeadersHoldAQuorum'
    BY CastMonotone DEF LeadersHoldAQuorum, IInv
  <1>3. CandidatesHoldTheirVotes'
    BY CastUnchanged DEF CandidatesHoldTheirVotes, memory, IInv
  <1>4. ViewsNameTheWinner'
    BY DEF ViewsNameTheWinner, memory, IInv
  <1>5. QED
    BY <1>1, <1>2, <1>3, <1>4 DEF IInv

\* Every step of every handler preserves the inductive invariant.
LEMMA IInvStep == IInv /\ [Next]_vars => IInv'
  <1> SUFFICES ASSUME IInv, [Next]_vars PROVE IInv'
    OBVIOUS
  <1>0. TypeOK'
    BY TypeStep DEF IInv
  <1>1. CASE UNCHANGED vars
    BY <1>0, <1>1, QuietStep DEF vars, network, RefusalsAreNewer, IInv
  <1>2. ASSUME NEW n \in Node, onElectionTimeout(n) PROVE IInv'
    <2>1. CASE startElection(n)
      BY <1>0, <1>2, <2>1, StartElectionStep DEF onElectionTimeout
    <2>2. ASSUME NEW result \in SaveResult, startElectionFailed(n, result)
          PROVE  IInv'
      <3>1. /\ currentTerm[n] + 1 \in Term
            /\ currentTerm[n] + 1 > currentTerm[n]
        BY <1>2, TermAssumption DEF onElectionTimeout, IInv, TypeOK, Term
      <3>2. PICK term \in Term : term = currentTerm[n] + 1
        BY <3>1
      <3>3. /\ UNCHANGED <<memory, network>>
            /\ saveState(n, term, n, result)
        BY <2>2, <3>2 DEF startElectionFailed
      <3>4. CastsAreKept' /\ OneVotePerTerm'
        BY <1>0, <3>1, <3>2, <3>3, NewerTermKeepsVotes
           DEF memory, network, MaybeNode, IInv
      <3>5. LeadersHoldAQuorum'
        BY <3>3, CastMonotone DEF LeadersHoldAQuorum, IInv, network
      <3>6. CandidatesHoldTheirVotes'
        BY <3>3, CastUnchanged
           DEF CandidatesHoldTheirVotes, memory, network, IInv
      <3>7. ViewsNameTheWinner' /\ RefusalsAreNewer'
        BY <3>3 DEF ViewsNameTheWinner, RefusalsAreNewer, memory, network, IInv
      <3>8. QED
        BY <1>0, <3>4, <3>5, <3>6, <3>7 DEF IInv
    <2>3. QED
      BY <1>2, <2>1, <2>2 DEF onElectionTimeout
  <1>3. ASSUME NEW n \in Node, NEW req \in voteRequests, onVote(n, req)
        PROVE  IInv'
    <2>1. CASE grantVote(n, req)
      BY <1>0, <1>3, <2>1, GrantVoteStep DEF onVote
    <2>2. ASSUME NEW result \in SaveResult, refuseUnsaved(n, req, result)
          PROVE  IInv'
      BY <1>0, <1>3, <2>2, RefuseUnsavedStep DEF onVote
    <2>3. CASE refuseVote(n, req)
      <3>1. RefusalsAreNewer'
        BY <2>3 DEF refuseVote, refusal, RefusalsAreNewer, IInv
      <3>2. QED
        BY <1>0, <1>3, <2>3, <3>1, QuietStep DEF onVote, refuseVote
    <2>4. QED
      BY <1>3, <2>1, <2>2, <2>3 DEF onVote
  <1>4. ASSUME NEW n \in Node, NEW grant \in grants, onVoteGranted(n, grant)
        PROVE  IInv'
    BY <1>0, <1>4, VoteGrantedStep
  <1>5. ASSUME NEW n \in Node, NEW reply \in voteRefusals,
               onVoteRefused(n, reply)
        PROVE  IInv'
    <2>1. reply.respTerm \in Term /\ reply.respTerm > currentTerm[n]
      BY <1>5 DEF onVoteRefused, currentCandidacy, RefusalsAreNewer, IInv,
                  TypeOK, NewerTerm
    <2>2. QED
      BY <1>0, <1>5, <2>1, StepDownStep DEF onVoteRefused
  <1>6. ASSUME NEW n \in Node, NEW req \in heartbeats, onHeartbeat(n, req)
        PROVE  IInv'
    <2>1. CASE rejectHeartbeat(n, req)
      BY <1>0, <1>6, <2>1, QuietStep
         DEF onHeartbeat, rejectHeartbeat, RefusalsAreNewer, IInv
    <2>2. CASE acceptHeartbeat(n, req)
      BY <1>0, <1>6, <2>2, AcceptHeartbeatStep DEF onHeartbeat
    <2>3. QED
      BY <1>6, <2>1, <2>2 DEF onHeartbeat
  <1>7. ASSUME NEW n \in Node, NEW reply \in heartbeatRejections,
               onHeartbeatResult(n, reply)
        PROVE  IInv'
    <2>1. reply.respTerm \in Term /\ reply.respTerm > currentTerm[n]
      BY <1>7 DEF onHeartbeatResult, IInv, TypeOK, NewerTerm
    <2>2. QED
      BY <1>0, <1>7, <2>1, StepDownStep DEF onHeartbeatResult
  <1>8. ASSUME NEW n \in Node, NewManager(n) PROVE IInv'
    BY <1>0, <1>8, NewManagerStep
  <1>9. QED
    BY <1>1, <1>2, <1>3, <1>4, <1>5, <1>6, <1>7, <1>8 DEF Next

\* The inductive invariant holds in every reachable state.
THEOREM IInvHolds == Spec => []IInv
  BY IInvInit, IInvStep, PTL DEF Spec

-----------------------------------------------------------------------------
\* A node with a majority of the votes of a term is the only one that can have
\* led it: the two majorities share a voter, which voted once.
LEMMA SameWinner ==
    ASSUME IInv, NEW h \in heartbeats, NEW c \in Node, HoldsQuorum(h.term, c)
    PROVE  h.leader = c
  <1>1. h.term \in Term /\ h.leader \in Node
    BY DEF IInv, TypeOK, HeartbeatRequest
  <1>2. PICK Q \in SUBSET Node :
            Cardinality(Q) >= quorum /\ \A v \in Q : Cast(v, h.term, h.leader)
    BY DEF IInv, LeadersHoldAQuorum, HoldsQuorum
  <1>3. PICK R \in SUBSET Node :
            Cardinality(R) >= quorum /\ \A v \in R : Cast(v, h.term, c)
    BY DEF HoldsQuorum
  <1>4. PICK v \in Node : v \in Q /\ v \in R
    BY <1>2, <1>3, QuorumsIntersect
  <1>5. QED
    BY <1>1, <1>2, <1>3, <1>4 DEF IInv, OneVotePerTerm

\* At most one leader per term, over all terms, crashes, save failures and
\* message delays (election.go, onVote and onVoteResult).
THEOREM ElectionIsSafe == Spec => []ElectionSafety
  <1>1. IInv => ElectionSafety
    <2>1. SUFFICES ASSUME IInv, NEW g \in heartbeats, NEW h \in heartbeats,
                          g.term = h.term
                   PROVE  g.leader = h.leader
      BY DEF ElectionSafety
    <2>2. h.leader \in Node /\ HoldsQuorum(g.term, h.leader)
      BY <2>1 DEF IInv, LeadersHoldAQuorum, TypeOK, HeartbeatRequest
    <2>3. QED
      BY <2>1, <2>2, SameWinner
  <1>2. QED
    BY <1>1, IInvHolds, PTL

\* A vote granted over the wire survives save failures and restarts of the
\* voter (saveState before the grant in onVote).
THEOREM GrantedVotesAreKept == Spec => []VotesAreKept
  <1>1. IInv => VotesAreKept
    <2>1. SUFFICES ASSUME IInv, NEW g \in grants
                   PROVE  /\ MemoryKeeps(g.voter, g.term, g.candidate)
                          /\ DiskKeeps(g.voter, g.term, g.candidate)
      BY DEF VotesAreKept, MemoryKeeps, DiskKeeps
    <2>2. /\ g.voter \in Node /\ g.candidate \in Node /\ g.term \in Term
          /\ g = [term |-> g.term, candidate |-> g.candidate, voter |-> g.voter]
      BY <2>1 DEF IInv, TypeOK, Grant
    <2>3. Cast(g.voter, g.term, g.candidate)
      BY <2>2 DEF Cast
    <2>4. QED
      BY <2>1, <2>2, <2>3 DEF IInv, CastsAreKept
  <1>2. QED
    BY <1>1, IInvHolds, PTL

\* The (Term, LeaderID) pair in a node's view always names the winner of that
\* term, so a fence built from any view names one leader per term.
THEOREM ViewsAreTruthful == Spec => []ViewsNameTheWinner
  <1>1. IInv => ViewsNameTheWinner
    BY DEF IInv
  <1>2. QED
    BY <1>1, IInvHolds, PTL

\* No incarnation of a node stands in a term an earlier one stood in
\* (startElection saves the self-vote first).
THEOREM CandidaciesStayFresh == Spec => CandidaciesAreFresh
  <1> DEFINE Fresh ==
        \A n \in Node :
            role'[n] = "candidate" /\ role[n] # "candidate"
              => [term |-> currentTerm'[n], candidate |-> n] \notin voteRequests
  <1>1. IInv /\ [Next]_vars => [Fresh]_vars
    <2> SUFFICES ASSUME IInv, Next, NEW n \in Node,
                        role'[n] = "candidate", role[n] # "candidate"
                 PROVE  [term |-> currentTerm'[n], candidate |-> n]
                            \notin voteRequests
      OBVIOUS
    <2> DEFINE Demotes ==
          \A m \in Node : role'[m] \in {role[m], "follower", "leader"}
    <2> USE DEF adopt, memory, network, IInv, TypeOK
    <2>1. \/ \E m \in Node : onElectionTimeout(m) /\ startElection(m)
          \/ Demotes
      <3>1. ASSUME NEW m \in Node, onElectionTimeout(m), ~startElection(m)
            PROVE  Demotes
        BY <3>1 DEF onElectionTimeout, startElectionFailed
      <3>2. ASSUME NEW m \in Node, NEW req \in voteRequests, onVote(m, req)
            PROVE  Demotes
        BY <3>2 DEF onVote, grantVote, refuseUnsaved, refuseVote
      <3>3. ASSUME NEW m \in Node, NEW grant \in grants, onVoteGranted(m, grant)
            PROVE  Demotes
        BY <3>3 DEF onVoteGranted, becomeLeader
      <3>4. ASSUME NEW m \in Node, NEW reply \in voteRefusals,
                   onVoteRefused(m, reply)
            PROVE  Demotes
        BY <3>4 DEF onVoteRefused, stepDown
      <3>5. ASSUME NEW m \in Node, NEW req \in heartbeats, onHeartbeat(m, req)
            PROVE  Demotes
        BY <3>5 DEF onHeartbeat, rejectHeartbeat, acceptHeartbeat
      <3>6. ASSUME NEW m \in Node, NEW reply \in heartbeatRejections,
                   onHeartbeatResult(m, reply)
            PROVE  Demotes
        BY <3>6 DEF onHeartbeatResult, stepDown
      <3>7. ASSUME NEW m \in Node, NewManager(m) PROVE Demotes
        BY <3>7 DEF NewManager
      <3>8. QED
        BY <3>1, <3>2, <3>3, <3>4, <3>5, <3>6, <3>7 DEF Next
    <2>2. PICK m \in Node : onElectionTimeout(m) /\ startElection(m)
      BY <2>1
    <2>3. m = n
      BY <2>2 DEF startElection, becomeLeader, IInv, TypeOK
    <2>4. currentTerm[n] < MaxTerm /\ currentTerm'[n] = currentTerm[n] + 1
      BY <2>2, <2>3 DEF onElectionTimeout, startElection, IInv, TypeOK
    <2>5. QED
      BY <2>4, NewTermIsUnvoted
  <1>2. QED
    BY <1>1, IInvHolds, PTL DEF Spec, CandidaciesAreFresh

-----------------------------------------------------------------------------
\* A majority of one means that there is one node.
LEMMA QuorumOfOne ==
    ASSUME NEW n \in Node, 1 >= quorum
    PROVE  \A m \in Node : m = n
  <1>1. Cardinality(Node) <= 1
    BY QuorumSize
  <1>2. /\ IsFiniteSet({n}) /\ Cardinality({n}) = 1
        /\ {n} \in SUBSET Node
    BY FS_Singleton
  <1>3. Cardinality({n}) <= Cardinality(Node)
    BY <1>2, FS_Subset, NodeAssumption
  <1>4. Node = {n}
    BY <1>1, <1>2, <1>3, QuorumSize, FS_Subset, NodeAssumption
  <1>5. QED
    BY <1>4

\* Each handler is a step of the registry or leaves it alone.
LEMMA RegistryStep ==
    IInv /\ [Next]_vars
      => [Registry!Next]_<<heartbeats, currentTerm, leaderID>>
  <1> SUFFICES ASSUME IInv, [Next]_vars
               PROVE  [Registry!Next]_<<heartbeats, currentTerm, leaderID>>
    OBVIOUS
  <1> DEFINE Goal == [Registry!Next]_<<heartbeats, currentTerm, leaderID>>
  <1> USE DEF Registry!Next, Registry!Show
  <1>1. CASE UNCHANGED vars
    BY <1>1 DEF vars, memory, network
  <1>2. ASSUME NEW n \in Node, onElectionTimeout(n) PROVE Goal
    <2>1. currentTerm[n] + 1 \in 0 .. MaxTerm
      BY <1>2, TermAssumption DEF onElectionTimeout, IInv, TypeOK, Term
    <2>2. CASE startElection(n) /\ 1 >= quorum
      <3>1. \A w \in heartbeats : w.term # currentTerm[n] + 1
        <4>1. SUFFICES ASSUME NEW w \in heartbeats, w.term = currentTerm[n] + 1
                       PROVE  FALSE
          OBVIOUS
        <4>2. w = [term |-> w.term, leader |-> w.leader] /\ w.leader \in Node
          BY DEF IInv, TypeOK, HeartbeatRequest
        <4>3. w.leader = n
          BY <2>2, <4>2, QuorumOfOne
        <4>4. QED
          BY <1>2, <4>1, <4>2, <4>3, NewTermIsUnvoted DEF onElectionTimeout
      <3>2. Registry!Win(n, currentTerm[n] + 1)
        BY <2>2, <3>1 DEF startElection, becomeLeader, Registry!Win
      <3>3. QED
        BY <2>1, <3>2
    <2>3. CASE startElection(n) /\ ~(1 >= quorum)
      <3>1. Registry!Forget(n, currentTerm[n] + 1)
        BY <2>3 DEF startElection, Registry!Forget
      <3>2. QED
        BY <2>1, <3>1
    <2>4. CASE \E result \in SaveResult : startElectionFailed(n, result)
      BY <2>4 DEF startElectionFailed, memory, network
    <2>5. QED
      BY <1>2, <2>2, <2>3, <2>4 DEF onElectionTimeout
  <1>3. ASSUME NEW n \in Node, NEW req \in voteRequests, onVote(n, req)
        PROVE  Goal
    <2>1. CASE grantVote(n, req)
      <3>1. req.term \in 0 .. MaxTerm
        BY DEF IInv, TypeOK, VoteRequest, Term
      <3>2. Registry!Forget(n, req.term)
        BY <1>3, <2>1 DEF grantVote, adopt, onVote, Registry!Forget
      <3>3. QED
        BY <3>1, <3>2
    <2>2. CASE ~grantVote(n, req)
      BY <1>3, <2>2 DEF onVote, refuseUnsaved, refuseVote, memory
    <2>3. QED
      BY <2>1, <2>2
  <1>4. ASSUME NEW n \in Node, NEW grant \in grants, onVoteGranted(n, grant)
        PROVE  Goal
    <2>0. /\ role[n] = "candidate" /\ grant.candidate = n
          /\ grant.voter \in Node /\ currentTerm[n] \in 0 .. MaxTerm
          /\ grant = [term |-> currentTerm[n], candidate |-> n,
                      voter |-> grant.voter]
      BY <1>4 DEF onVoteGranted, currentCandidacy, IInv, TypeOK, Grant, Term
    <2>1. CASE Cardinality(votesFrom[n] \cup {grant.voter}) >= quorum
      <3>0. \A v \in votesFrom[n] \cup {grant.voter} : Cast(v, currentTerm[n], n)
        BY <2>0 DEF Cast, CandidatesHoldTheirVotes, IInv
      <3>1. HoldsQuorum(currentTerm[n], n)
        BY <2>0, <2>1, <3>0
           DEF HoldsQuorum, CandidatesHoldTheirVotes, IInv, TypeOK
      <3>2. \A w \in heartbeats : w.term # currentTerm[n]
        <4>1. SUFFICES ASSUME NEW w \in heartbeats, w.term = currentTerm[n]
                       PROVE  FALSE
          OBVIOUS
        <4>2. w.leader = n
          BY <3>1, <4>1, SameWinner
        <4>3. w = [term |-> w.term, leader |-> w.leader]
          BY DEF IInv, TypeOK, HeartbeatRequest
        <4>4. QED
          BY <2>0, <4>1, <4>2, <4>3 DEF CandidatesHoldTheirVotes, IInv
      <3>3. Registry!Win(n, currentTerm[n])
        BY <1>4, <2>1, <3>2
           DEF onVoteGranted, becomeLeader, Registry!Win, IInv, TypeOK
      <3>4. QED
        BY <2>0, <3>3
    <2>2. CASE ~(Cardinality(votesFrom[n] \cup {grant.voter}) >= quorum)
      BY <1>4, <2>2 DEF onVoteGranted
    <2>3. QED
      BY <2>1, <2>2
  <1>5. ASSUME NEW n \in Node, NEW term \in Term, NEW result \in SaveResult,
               stepDown(n, term, result), UNCHANGED network
        PROVE  Goal
    <2>1. Registry!Forget(n, term)
      BY <1>5 DEF stepDown, adopt, network, Registry!Forget
    <2>2. QED
      BY <2>1 DEF Term
  <1>6. ASSUME NEW n \in Node, NEW reply \in voteRefusals,
               onVoteRefused(n, reply)
        PROVE  Goal
    BY <1>5, <1>6 DEF onVoteRefused, IInv, TypeOK, NewerTerm
  <1>7. ASSUME NEW n \in Node, NEW req \in heartbeats, onHeartbeat(n, req)
        PROVE  Goal
    <2>1. CASE rejectHeartbeat(n, req)
      BY <1>7, <2>1 DEF onHeartbeat, rejectHeartbeat, memory
    <2>2. CASE acceptHeartbeat(n, req)
      <3>1. Registry!Learn(n, req)
        BY <1>7, <2>2 DEF onHeartbeat, acceptHeartbeat, adopt, Registry!Learn
      <3>2. QED
        BY <3>1
    <2>3. QED
      BY <1>7, <2>1, <2>2 DEF onHeartbeat
  <1>8. ASSUME NEW n \in Node, NEW reply \in heartbeatRejections,
               onHeartbeatResult(n, reply)
        PROVE  Goal
    BY <1>5, <1>8 DEF onHeartbeatResult, IInv, TypeOK, NewerTerm
  <1>9. ASSUME NEW n \in Node, NewManager(n) PROVE Goal
    <2>1. diskTerm[n] \in 0 .. MaxTerm
      BY DEF IInv, TypeOK, Term
    <2>2. Registry!Forget(n, diskTerm[n])
      BY <1>9 DEF NewManager, network, Registry!Forget
    <2>3. QED
      BY <2>1, <2>2
  <1>10. QED
    BY <1>1, <1>2, <1>3, <1>4, <1>6, <1>7, <1>8, <1>9 DEF Next

\* The manager implements the abstract registry of term winners: a step that
\* records a leader takes a term nobody has won, and a view only ever shows no
\* leader or the registered one.
THEOREM ElectionImplementsRegistry == Spec => ImplementsRegistry
  <1>1. Init => Registry!Init
    BY DEF Init, Registry!Init
  <1>2. QED
    BY <1>1, RegistryStep, IInvHolds, PTL
       DEF Spec, ImplementsRegistry, Registry!Spec

-----------------------------------------------------------------------------
(* The watchdog: the inductive invariant.                                  *)

key(inc)   == <<inc.type, inc.peer>>
death(p)   == [type |-> "peer_dead", peer |-> p, at |-> open[p]]
success(inc) == [inc |-> inc, ok |-> TRUE]

\* A cooldown runs only for what did reach the operator, and from a time that
\* has come; the success that will start it has reached the operator already.
Stamped ==
    /\ \A k \in Kind \X Peer :
          cooldowns[k] # Never => lastMail[k] # Never /\ cooldowns[k] <= now
    /\ \A inc \in Incident : success(inc) \in results => lastMail[key(inc)] # Never

\* An open episode has its incident in the queue or is covered by a cooldown.
Kept(p) ==
    open[p] # Never =>
        \/ pending[death(p)] > 0
        \/ /\ lastMail[<<"peer_dead", p>>] # Never
           /\ cooldowns[<<"peer_dead", p>>] # Never
           /\ open[p] - cooldowns[<<"peer_dead", p>>] < Cooldown

\* An incident has one delivery at a time: a goroutine in Notify or the result
\* it left.
OneDelivery(inc) ==
    /\ inc \in sending => inc \in inFlight /\ \A res \in results : res.inc # inc
    /\ \A res \in results : res.inc = inc => inc \in inFlight
    /\ \A r, s \in results : r.inc = inc /\ s.inc = inc => r = s

\* Every incident that was raised accounts for one mail: one it sent, one it is
\* about to send, or one it may send later.  A success that is not handled yet
\* is still in the queue, and so is, for good, an accepted mail that was reported
\* as failed: each of those accounts for one mail more.
Accounted(inc) ==
    /\ mailed[inc] <= raised[inc] + unsure[inc]
    /\ inc \in sending => mailed[inc] < raised[inc] + unsure[inc]
    /\ mailed[inc] + pending[inc]
         <= raised[inc] + unsure[inc] + (IF success(inc) \in results THEN 1 ELSE 0)

EpisodeInv ==
    /\ WatchdogTypeOK
    /\ Stamped
    /\ \A p \in Peer : open[p] <= now /\ Kept(p)

DeliveryInv == \A inc \in Incident : OneDelivery(inc) /\ Accounted(inc)

-----------------------------------------------------------------------------
(* Facts about the data.                                                   *)

LEMMA IncidentType ==
    ASSUME now \in Time, NEW type \in Kind, NEW p \in Peer
    PROVE  /\ incident(type, p) \in Incident
           /\ incident(type, p).type = type /\ incident(type, p).peer = p
           /\ incident(type, p).at = now
BY DEF incident, Incident

\* The episodes and the queue that evaluate goes on with.
Episodes == gainLeadership[1]
Queue    == gainLeadership[2]

LEMMA Gain ==
    /\ wasLeader => Episodes = open /\ Queue = pending
    /\ ~wasLeader => Episodes = noEpisodes /\ Queue = noPending
BY DEF Episodes, Queue, gainLeadership

LEMMA GainType ==
    ASSUME WatchdogTypeOK
    PROVE  Episodes \in [Peer -> Time \cup {Never}] /\ Queue \in [Incident -> Nat]
BY Gain DEF WatchdogTypeOK, noEpisodes, noPending

\* The incidents an evaluation queues.
New ==
    LET deaths  == {incident("peer_dead", p) : p \in dying(Episodes)}
        returns == {incident("peer_recovered", p) : p \in recovering(Episodes)}
    IN  {inc \in deaths \cup (IF NotifyRecovery THEN returns ELSE {}) : queued(inc)}

\* evaluateLeader as its assignments.
LeaderStep ==
    /\ wasLeader' = TRUE
    /\ open' = [p \in Peer |-> IF p \in dying(Episodes) THEN now
                               ELSE IF p \in recovering(Episodes) THEN Never
                               ELSE Episodes[p]]
    /\ pending' = [inc \in Incident |-> Queue[inc] + (IF inc \in New THEN 1 ELSE 0)]
    /\ raised' = [inc \in Incident |-> raised[inc] + (IF inc \in New THEN 1 ELSE 0)]
    /\ inFlight' = inFlight \cup {inc \in Incident : pending'[inc] > 0 /\ inc \notin inFlight}
    /\ sending' = sending \cup {inc \in Incident : pending'[inc] > 0 /\ inc \notin inFlight}
    /\ cooldowns' = cooldowns

LEMMA LeaderSteps ==
    ASSUME evaluateLeader
    PROVE  LeaderStep
BY Zenon DEF evaluateLeader, evaluateEpisodes, dispatchPending, New, Episodes, Queue, LeaderStep

-----------------------------------------------------------------------------
(* Episodes.                                                               *)

LEMMA WatchdogTypeStep ==
    ASSUME WatchdogTypeOK, [WatchdogNext]_watchdogVars
    PROVE  WatchdogTypeOK'
<1> USE WatchdogAssumption
<1>1. ASSUME evaluate PROVE WatchdogTypeOK'
  <2>1. CASE evaluateFollower
    BY <1>1, <2>1 DEF WatchdogTypeOK, evaluate, evaluateFollower, view
  <2>2. CASE evaluateIsolated
    BY <1>1, <2>2, GainType DEF WatchdogTypeOK, evaluate, evaluateIsolated, Episodes, Queue, view
  <2>3. CASE evaluateLeader
    <3>1. Episodes \in [Peer -> Time \cup {Never}] /\ Queue \in [Incident -> Nat]
      BY GainType
    <3>2. LeaderStep
      BY <2>3, LeaderSteps
    <3>3. open' \in [Peer -> Time \cup {Never}]
      BY <3>1, <3>2 DEF WatchdogTypeOK, LeaderStep
    <3>4. pending' \in [Incident -> Nat] /\ raised' \in [Incident -> Nat]
      BY <3>1, <3>2 DEF WatchdogTypeOK, LeaderStep
    <3>5. inFlight' \subseteq Incident /\ sending' \subseteq Incident
      BY <3>2 DEF WatchdogTypeOK, LeaderStep
    <3> QED BY <1>1, <3>2, <3>3, <3>4, <3>5 DEF WatchdogTypeOK, evaluate, LeaderStep, view
  <2> QED BY <1>1, <2>1, <2>2, <2>3 DEF evaluate
<1>2. ASSUME NEW inc \in sending, NEW outcome \in Outcomes, Notify(inc, outcome)
      PROVE  WatchdogTypeOK'
  <2>1. inc \in Incident /\ <<inc.type, inc.peer>> \in Kind \X Peer
    BY DEF WatchdogTypeOK, Incident
  <2>2. [inc |-> inc, ok |-> outcome = "sent"] \in [inc : Incident, ok : BOOLEAN]
    BY <2>1
  <2>3. results' \subseteq [inc : Incident, ok : BOOLEAN]
    BY <1>2, <2>2, Zenon DEF WatchdogTypeOK, Notify
  <2>4. mailed' \in [Incident -> Nat] /\ lastMail' \in [Kind \X Peer -> Time \cup {Never}]
    <3>1. \/ UNCHANGED <<mailed, lastMail>>
          \/ /\ mailed' = [mailed EXCEPT ![inc] = @ + 1]
             /\ lastMail' = [lastMail EXCEPT ![<<inc.type, inc.peer>>] = now]
      BY <1>2, Zenon DEF Notify
    <3>2. /\ mailed \in [Incident -> Nat] /\ now \in Time
          /\ lastMail \in [Kind \X Peer -> Time \cup {Never}]
      BY Zenon DEF WatchdogTypeOK
    <3>3. mailed' \in [Incident -> Nat]
      BY <2>1, <3>1, <3>2
    <3>4. lastMail' \in [Kind \X Peer -> Time \cup {Never}]
      BY <2>1, <3>1, <3>2
    <3> QED BY <3>3, <3>4
  <2>5. unsure' \in [Incident -> Nat]
    BY <1>2, <2>1 DEF WatchdogTypeOK, Notify
  <2> QED BY <1>2, <2>3, <2>4, <2>5 DEF WatchdogTypeOK, Notify, view, loopState
<1>3. ASSUME NEW res \in results, handleResult(res) PROVE WatchdogTypeOK'
  <2>1. res.inc \in Incident /\ <<res.inc.type, res.inc.peer>> \in Kind \X Peer
    BY DEF WatchdogTypeOK, Incident
  <2>2. cooldowns' \in [Kind \X Peer -> Time \cup {Never}]
    BY <1>3, <2>1 DEF WatchdogTypeOK, handleResult
  <2>3. pending' \in [Incident -> Nat]
    BY <1>3, <2>1 DEF WatchdogTypeOK, handleResult, removePending
  <2> QED BY <1>3, <2>2, <2>3 DEF WatchdogTypeOK, handleResult, view, history
<1>4. ASSUME Run PROVE WatchdogTypeOK'
  BY <1>4 DEF WatchdogTypeOK, Run, noEpisodes, noPending, history
<1>5. ASSUME NEW p \in Peer, PeerChanges(p) PROVE WatchdogTypeOK'
  BY <1>5 DEF WatchdogTypeOK, PeerChanges, loopState, history
<1>6. ASSUME LeadershipChanges PROVE WatchdogTypeOK'
  BY <1>6 DEF WatchdogTypeOK, LeadershipChanges, loopState, history
<1>8. ASSUME VotersChange PROVE WatchdogTypeOK'
  BY <1>8 DEF WatchdogTypeOK, VotersChange, loopState, history
<1>9. ASSUME Tick PROVE WatchdogTypeOK'
  BY <1>9 DEF WatchdogTypeOK, Tick, Time, view, loopState, history
<1>7. ASSUME UNCHANGED watchdogVars PROVE WatchdogTypeOK'
  BY <1>7 DEF WatchdogTypeOK, watchdogVars, view, loopState, history
<1> QED BY <1>1, <1>2, <1>3, <1>4, <1>5, <1>6, <1>7, <1>8, <1>9 DEF WatchdogNext

\* The keys of incidents.
LEMMA KeyType ==
    ASSUME NEW inc \in Incident
    PROVE  key(inc) \in Kind \X Peer
BY DEF key, Incident

LEMMA DeathType ==
    ASSUME WatchdogTypeOK, NEW p \in Peer, open[p] # Never
    PROVE  /\ death(p) \in Incident /\ key(death(p)) = <<"peer_dead", p>>
           /\ <<"peer_dead", p>> \in Kind \X Peer
BY DEF WatchdogTypeOK, death, Incident, Kind, key

\* A step that raises, delivers and handles nothing.
LEMMA QuietEpisodes ==
    ASSUME EpisodeInv, WatchdogTypeOK', now <= now',
           UNCHANGED <<open, cooldowns, pending, results, lastMail>>
    PROVE  EpisodeInv'
<1>1. now \in Int /\ now' \in Int
  BY DEF EpisodeInv, WatchdogTypeOK, Time
<1>2. Stamped'
  <2>1. ASSUME NEW k \in Kind \X Peer, cooldowns[k] # Never
        PROVE  lastMail[k] # Never /\ cooldowns[k] <= now'
    <3>1. lastMail[k] # Never /\ cooldowns[k] <= now /\ cooldowns[k] \in Int
      BY <2>1, WatchdogAssumption DEF EpisodeInv, Stamped, WatchdogTypeOK, Time
    <3> QED BY <1>1, <3>1
  <2> QED BY <2>1 DEF EpisodeInv, Stamped, success, key
<1>3. ASSUME NEW p \in Peer PROVE open[p] <= now' /\ Kept(p)'
  <2>1. open[p] \in Int /\ open[p] <= now
    BY WatchdogAssumption DEF EpisodeInv, WatchdogTypeOK, Time, Never
  <2> QED BY <1>1, <2>1 DEF EpisodeInv, Kept, death
<1> QED BY <1>2, <1>3 DEF EpisodeInv

LEMMA EpisodeStep ==
    ASSUME EpisodeInv, [WatchdogNext]_watchdogVars
    PROVE  EpisodeInv'
<1> USE WatchdogAssumption
<1>0. WatchdogTypeOK /\ WatchdogTypeOK'
  BY WatchdogTypeStep DEF EpisodeInv
<1>a. now \in Nat /\ Time \subseteq Nat /\ Never = -1
  BY <1>0 DEF WatchdogTypeOK, Time, Never
<1>1. ASSUME evaluate PROVE EpisodeInv'
  <2>0. UNCHANGED <<now, results, lastMail>> /\ cooldowns' = cooldowns
    BY <1>1 DEF evaluate, evaluateFollower, evaluateIsolated, evaluateLeader
  <2>1. Stamped'
    BY <2>0 DEF EpisodeInv, Stamped, success, key
  <2>2. CASE evaluateFollower
    BY <1>0, <1>a, <1>1, <2>0, <2>2, QuietEpisodes DEF evaluateFollower
  <2>3. ASSUME NEW p \in Peer
        PROVE  /\ Episodes[p] <= now
               /\ Episodes[p] # Never => Episodes[p] = open[p] /\ Queue = pending
    <3>1. CASE wasLeader
      BY <3>1, Gain DEF EpisodeInv
    <3>2. CASE ~wasLeader
      BY <1>a, <3>2, Gain DEF noEpisodes
    <3> QED BY <3>1, <3>2
  <2>4. CASE evaluateIsolated
    <3>1. open' = Episodes /\ pending' = Queue
      BY <2>4 DEF evaluateIsolated, Episodes, Queue
    <3>2. ASSUME NEW p \in Peer PROVE Kept(p)'
      BY <2>0, <2>3, <3>1 DEF EpisodeInv, Kept, death
    <3> QED BY <1>0, <2>0, <2>1, <2>3, <3>1, <3>2 DEF EpisodeInv
  <2>5. CASE evaluateLeader
    <3>0. LeaderStep
      BY <2>5, LeaderSteps
    <3>1. /\ Episodes \in [Peer -> Time \cup {Never}] /\ Queue \in [Incident -> Nat]
      BY <1>0, GainType
    <3>2. ASSUME NEW p \in Peer PROVE open'[p] <= now' /\ Kept(p)'
      <4>1. CASE p \in dying(Episodes)
        <5>1. open'[p] = now
          BY <3>0, <4>1 DEF LeaderStep
        <5>2. death(p)' = incident("peer_dead", p) /\ incident("peer_dead", p) \in Incident
          BY <1>0, <5>1, IncidentType DEF death, incident, WatchdogTypeOK, Kind
        <5>3. CASE queued(incident("peer_dead", p))
          <6>1. incident("peer_dead", p) \in New
            BY <4>1, <5>3 DEF New
          <6>2. pending'[incident("peer_dead", p)] > 0
            BY <3>0, <3>1, <5>2, <6>1 DEF LeaderStep
          <6> QED BY <1>a, <2>0, <5>1, <5>2, <6>2 DEF Kept
        <5>4. CASE ~queued(incident("peer_dead", p))
          <6>1. <<"peer_dead", p>> \in Kind \X Peer
            BY DEF Kind
          <6>2. /\ cooldowns[<<"peer_dead", p>>] # Never
                /\ ~(now - cooldowns[<<"peer_dead", p>>] >= Cooldown)
            BY <5>4 DEF queued, incident
          <6>3. cooldowns[<<"peer_dead", p>>] \in Nat
            BY <1>0, <1>a, <6>1, <6>2 DEF WatchdogTypeOK
          <6>4. lastMail[<<"peer_dead", p>>] # Never
            BY <6>1, <6>2 DEF EpisodeInv, Stamped
          <6> QED BY <1>a, <2>0, <5>1, <6>2, <6>3, <6>4 DEF Kept
        <5> QED BY <5>3, <5>4
      <4>2. CASE p \notin dying(Episodes) /\ p \in recovering(Episodes)
        BY <1>a, <2>0, <3>0, <4>2 DEF LeaderStep, Kept
      <4>3. CASE p \notin dying(Episodes) /\ p \notin recovering(Episodes)
        <5>1. open'[p] = Episodes[p]
          BY <3>0, <4>3 DEF LeaderStep
        <5>2. CASE Episodes[p] = Never
          BY <1>a, <2>0, <5>1, <5>2 DEF Kept
        <5>3. CASE Episodes[p] # Never
          <6>1. open'[p] = open[p] /\ open[p] # Never /\ Queue = pending
            BY <2>3, <5>1, <5>3
          <6>2. death(p)' = death(p) /\ death(p) \in Incident
            BY <1>0, <6>1, DeathType DEF death
          <6>3. pending[death(p)] > 0 => pending'[death(p)] > 0
            BY <1>0, <3>0, <6>1, <6>2 DEF LeaderStep, WatchdogTypeOK
          <6>4. Kept(p)'
            BY <2>0, <6>1, <6>2, <6>3 DEF EpisodeInv, Kept
          <6> QED BY <2>0, <2>3, <5>1, <6>4
        <5> QED BY <5>2, <5>3
      <4> QED BY <4>1, <4>2, <4>3
    <3> QED BY <1>0, <2>1, <3>2 DEF EpisodeInv
  <2> QED BY <1>1, <2>2, <2>4, <2>5 DEF evaluate
<1>2. ASSUME NEW inc \in sending, NEW outcome \in Outcomes, Notify(inc, outcome)
      PROVE  EpisodeInv'
  <2>0. /\ inc \in Incident /\ key(inc) \in Kind \X Peer
        /\ UNCHANGED <<now, open, cooldowns, pending>>
    BY <1>0, <1>2, KeyType DEF WatchdogTypeOK, Notify, loopState
  <2>1. ASSUME NEW k \in Kind \X Peer, lastMail[k] # Never PROVE lastMail'[k] # Never
    <3>1. PICK x : lastMail' = lastMail \/ lastMail' = [lastMail EXCEPT ![x] = now]
      BY <1>2, Zenon DEF Notify
    <3>2. lastMail'[k] = lastMail[k] \/ lastMail'[k] = now
      BY <1>0, <3>1, Zenon DEF WatchdogTypeOK
    <3> QED BY <1>a, <2>1, <3>2
  <2>2. outcome = "sent" => lastMail'[key(inc)] # Never
    BY <1>0, <1>a, <1>2, <2>0 DEF Notify, WatchdogTypeOK, key
  <2>3. ASSUME NEW i \in Incident, success(i) \in results' PROVE lastMail'[key(i)] # Never
    <3>1. CASE success(i) \in results
      BY <2>1, <3>1, KeyType DEF EpisodeInv, Stamped
    <3>2. CASE success(i) \notin results
      <4>1. success(i) = [inc |-> inc, ok |-> outcome = "sent"]
        BY <1>2, <2>3, <3>2 DEF Notify
      <4>2. i = inc /\ outcome = "sent"
        BY <4>1 DEF success
      <4> QED BY <2>2, <4>2
    <3> QED BY <3>1, <3>2
  <2>4. Stamped'
    BY <2>0, <2>1, <2>3 DEF EpisodeInv, Stamped, key, success
  <2>5. ASSUME NEW p \in Peer PROVE Kept(p)'
    BY <2>0, <2>1 DEF EpisodeInv, Kept, death, Kind
  <2> QED BY <1>0, <2>0, <2>4, <2>5 DEF EpisodeInv
<1>3. ASSUME NEW res \in results, handleResult(res) PROVE EpisodeInv'
  <2>0. /\ res.inc \in Incident /\ key(res.inc) \in Kind \X Peer
        /\ UNCHANGED <<now, open, lastMail>> /\ results' \subseteq results
    BY <1>0, <1>3, KeyType DEF WatchdogTypeOK, handleResult, history
  <2>1. CASE ~res.ok
    <3>1. UNCHANGED cooldowns /\ pending' = pending
      BY <1>0, <1>3, <2>0, <2>1 DEF handleResult, removePending, WatchdogTypeOK
    <3>2. Stamped'
      BY <2>0, <3>1 DEF EpisodeInv, Stamped, success, key
    <3>3. ASSUME NEW p \in Peer PROVE Kept(p)'
      BY <2>0, <3>1 DEF EpisodeInv, Kept, death
    <3> QED BY <1>0, <2>0, <3>2, <3>3 DEF EpisodeInv
  <2>2. CASE res.ok
    <3>1. cooldowns' = [cooldowns EXCEPT ![key(res.inc)] = now]
      BY <1>3, <2>2 DEF handleResult, key
    <3>2. lastMail[key(res.inc)] # Never
      <4>1. res = success(res.inc)
        BY <1>0, <2>2 DEF WatchdogTypeOK, success
      <4> QED BY <2>0, <4>1 DEF EpisodeInv, Stamped
    <3>3. Stamped'
      <4>1. ASSUME NEW k \in Kind \X Peer, cooldowns'[k] # Never
            PROVE  lastMail[k] # Never /\ cooldowns'[k] <= now
        BY <1>0, <1>a, <2>0, <3>1, <3>2, <4>1 DEF EpisodeInv, Stamped, WatchdogTypeOK
      <4> QED BY <2>0, <4>1 DEF EpisodeInv, Stamped, success, key
    <3>4. ASSUME NEW p \in Peer PROVE Kept(p)'
      <4> SUFFICES ASSUME open[p] # Never PROVE Kept(p)'
        BY <2>0 DEF Kept
      <4>0. /\ death(p) \in Incident /\ key(death(p)) = <<"peer_dead", p>>
            /\ <<"peer_dead", p>> \in Kind \X Peer /\ death(p)' = death(p)
        BY <1>0, <2>0, DeathType DEF death
      <4>1. CASE key(res.inc) = <<"peer_dead", p>>
        <5>1. cooldowns'[<<"peer_dead", p>>] = now
          BY <1>0, <3>1, <4>0, <4>1 DEF WatchdogTypeOK
        <5>2. open[p] \in Int /\ open[p] <= now
          BY <1>0 DEF EpisodeInv, WatchdogTypeOK, Time, Never
        <5> QED BY <1>a, <2>0, <3>2, <4>1, <5>1, <5>2 DEF Kept
      <4>2. CASE key(res.inc) # <<"peer_dead", p>>
        <5>1. pending'[death(p)] = pending[death(p)]
          BY <1>0, <1>3, <4>0, <4>2 DEF handleResult, removePending, WatchdogTypeOK
        <5>2. cooldowns'[<<"peer_dead", p>>] = cooldowns[<<"peer_dead", p>>]
          BY <1>0, <3>1, <4>0, <4>2 DEF WatchdogTypeOK
        <5> QED BY <2>0, <4>0, <5>1, <5>2 DEF EpisodeInv, Kept
      <4> QED BY <4>1, <4>2
    <3> QED BY <1>0, <2>0, <3>3, <3>4 DEF EpisodeInv
  <2> QED BY <2>1, <2>2
<1>4. ASSUME Run PROVE EpisodeInv'
  BY <1>0, <1>a, <1>4 DEF EpisodeInv, Stamped, Kept, Run, noEpisodes, history
<1>5. ASSUME NEW p \in Peer, PeerChanges(p) PROVE EpisodeInv'
  BY <1>0, <1>a, <1>5, QuietEpisodes DEF PeerChanges, loopState, history
<1>6. ASSUME LeadershipChanges \/ VotersChange PROVE EpisodeInv'
  BY <1>0, <1>a, <1>6, QuietEpisodes DEF LeadershipChanges, VotersChange, loopState, history
<1>7. ASSUME Tick PROVE EpisodeInv'
  BY <1>0, <1>a, <1>7, QuietEpisodes DEF Tick, loopState, history
<1>8. ASSUME UNCHANGED watchdogVars PROVE EpisodeInv'
  BY <1>0, <1>a, <1>8, QuietEpisodes DEF watchdogVars, loopState, history
<1> QED BY <1>1, <1>2, <1>3, <1>4, <1>5, <1>6, <1>7, <1>8 DEF WatchdogNext

-----------------------------------------------------------------------------
(* Deliveries.                                                             *)

\* A step that raises, delivers and handles nothing.
LEMMA QuietDeliveries ==
    ASSUME DeliveryInv, UNCHANGED <<pending, inFlight, sending, results, raised, mailed, unsure>>
    PROVE  DeliveryInv'
<1>1. ASSUME NEW inc \in Incident PROVE OneDelivery(inc)'
  BY DEF DeliveryInv, OneDelivery
<1>2. ASSUME NEW inc \in Incident PROVE Accounted(inc)'
  <2>1. success(inc)' = success(inc)
    BY DEF success
  <2> QED BY <2>1 DEF DeliveryInv, Accounted
<1> QED BY <1>1, <1>2 DEF DeliveryInv

LEMMA DeliveryStep ==
    ASSUME WatchdogTypeOK, DeliveryInv, [WatchdogNext]_watchdogVars
    PROVE  DeliveryInv'
<1> USE WatchdogAssumption
<1>0. /\ pending \in [Incident -> Nat] /\ raised \in [Incident -> Nat]
      /\ mailed \in [Incident -> Nat] /\ unsure \in [Incident -> Nat]
      /\ sending \subseteq Incident
      /\ results \subseteq [inc : Incident, ok : BOOLEAN]
  BY DEF WatchdogTypeOK
<1>1. ASSUME evaluate PROVE DeliveryInv'
  <2>0. UNCHANGED <<results, mailed, unsure>>
    BY <1>1 DEF evaluate
  <2>1. CASE evaluateFollower
    BY <2>0, <2>1, QuietDeliveries DEF evaluateFollower
  <2>2. Queue \in [Incident -> Nat] /\ \A inc \in Incident : Queue[inc] <= pending[inc]
    <3>1. CASE wasLeader
      BY <1>0, <3>1, Gain
    <3>2. CASE ~wasLeader
      BY <1>0, <3>2, Gain DEF noPending
    <3> QED BY <3>1, <3>2
  <2>3. CASE evaluateIsolated
    <3>1. pending' = Queue /\ UNCHANGED <<inFlight, sending, raised>>
      BY <2>3 DEF evaluateIsolated, Queue
    <3>2. ASSUME NEW inc \in Incident PROVE OneDelivery(inc)'
      BY <2>0, <3>1 DEF DeliveryInv, OneDelivery
    <3>3. ASSUME NEW inc \in Incident PROVE Accounted(inc)'
      <4>1. /\ pending'[inc] <= pending[inc] /\ success(inc)' = success(inc)
            /\ pending'[inc] \in Nat /\ pending[inc] \in Nat
            /\ raised[inc] \in Nat /\ mailed[inc] \in Nat /\ unsure[inc] \in Nat
        BY <1>0, <2>2, <3>1 DEF success
      <4> QED BY <2>0, <3>1, <4>1 DEF DeliveryInv, Accounted
    <3> QED BY <3>2, <3>3 DEF DeliveryInv
  <2>4. CASE evaluateLeader
    <3>0. LeaderStep
      BY <2>4, LeaderSteps
    <3>1. ASSUME NEW inc \in Incident PROVE OneDelivery(inc)'
      BY <2>0, <3>0, <3>1 DEF DeliveryInv, OneDelivery, LeaderStep
    <3>2. ASSUME NEW inc \in Incident PROVE Accounted(inc)'
      <4> DEFINE n == IF inc \in New THEN 1 ELSE 0
      <4>1. /\ n \in {0, 1} /\ Queue[inc] <= pending[inc] /\ success(inc)' = success(inc)
            /\ pending'[inc] = Queue[inc] + n /\ raised'[inc] = raised[inc] + n
            /\ Queue[inc] \in Nat /\ pending[inc] \in Nat
            /\ raised[inc] \in Nat /\ mailed[inc] \in Nat /\ unsure[inc] \in Nat
        BY <1>0, <2>2, <3>0 DEF LeaderStep, success
      <4>2. inc \in sending' => inc \in sending \/ (pending'[inc] > 0 /\ inc \notin inFlight)
        BY <3>0 DEF LeaderStep
      <4>3. success(inc) \in results => inc \in inFlight
        BY DEF DeliveryInv, OneDelivery, success
      <4> HIDE DEF n
      <4> QED BY <2>0, <4>1, <4>2, <4>3 DEF DeliveryInv, Accounted
    <3> QED BY <3>1, <3>2 DEF DeliveryInv
  <2> QED BY <1>1, <2>1, <2>3, <2>4 DEF evaluate
<1>2. ASSUME NEW inc \in sending, NEW outcome \in Outcomes, Notify(inc, outcome)
      PROVE  DeliveryInv'
  <2> DEFINE r == [inc |-> inc, ok |-> outcome = "sent"]
  <2>0. /\ inc \in Incident
        /\ sending' = sending \ {inc} /\ results' = results \cup {r}
        /\ UNCHANGED <<pending, inFlight, raised>>
    BY <1>0, <1>2 DEF Notify, loopState
  <2>1. outcome \in {"sent", "failed", "sentError"}
    BY DEF NotifyOutcome
  <2>2. /\ r.inc = inc
        /\ outcome = "sent" => r = success(inc)
        /\ \A i \in Incident : r = success(i) => i = inc /\ outcome = "sent"
    BY DEF success
  <2>3. /\ outcome # "failed" => mailed' = [mailed EXCEPT ![inc] = @ + 1]
        /\ outcome = "failed" => mailed' = mailed
        /\ outcome = "sentError" => unsure' = [unsure EXCEPT ![inc] = @ + 1]
        /\ outcome # "sentError" => unsure' = unsure
    BY <1>2, <2>1 DEF Notify
  <2> HIDE DEF r
  <2>4. ASSUME NEW i \in Incident PROVE OneDelivery(i)'
    BY <2>0, <2>2, <2>4 DEF DeliveryInv, OneDelivery
  <2>5. ASSUME NEW i \in Incident PROVE Accounted(i)'
    <3>1. /\ pending[i] \in Nat /\ raised[i] \in Nat /\ mailed[i] \in Nat /\ unsure[i] \in Nat
          /\ success(i)' = success(i)
      BY <1>0 DEF success
    <3>2. CASE i # inc
      <4>1. success(i) \in results' <=> success(i) \in results
        BY <2>0, <2>2, <3>2
      <4>2. mailed'[i] = mailed[i] /\ unsure'[i] = unsure[i]
        BY <1>0, <2>1, <2>3, <3>2
      <4> QED BY <2>0, <3>1, <3>2, <4>1, <4>2 DEF DeliveryInv, Accounted
    <3>3. CASE i = inc
      <4>1. success(i) \notin results
        BY <3>3 DEF DeliveryInv, OneDelivery, success
      <4>2. /\ mailed[i] < raised[i] + unsure[i]
            /\ mailed[i] + pending[i] <= raised[i] + unsure[i]
        BY <1>0, <3>1, <3>3, <4>1 DEF DeliveryInv, Accounted
      <4>3. i \notin sending'
        BY <2>0, <3>3
      <4>4. CASE outcome = "sent"
        <5>1. /\ mailed'[i] = mailed[i] + 1 /\ success(i) \in results'
              /\ unsure'[i] = unsure[i]
          BY <1>0, <2>0, <2>2, <2>3, <3>3, <4>4
        <5> QED BY <2>0, <3>1, <4>2, <4>3, <5>1 DEF Accounted
      <4>5. CASE outcome = "failed"
        <5>1. /\ mailed'[i] = mailed[i] /\ success(i) \notin results'
              /\ unsure'[i] = unsure[i]
          BY <2>0, <2>2, <2>3, <4>1, <4>5
        <5> QED BY <2>0, <3>1, <4>2, <4>3, <5>1 DEF Accounted
      <4>6. CASE outcome = "sentError"
        <5>1. /\ mailed'[i] = mailed[i] + 1 /\ success(i) \notin results'
              /\ unsure'[i] = unsure[i] + 1
          BY <1>0, <2>0, <2>2, <2>3, <3>3, <4>1, <4>6
        <5> QED BY <2>0, <3>1, <4>2, <4>3, <5>1 DEF Accounted
      <4> QED BY <2>1, <4>4, <4>5, <4>6
    <3> QED BY <3>2, <3>3
  <2> QED BY <2>4, <2>5 DEF DeliveryInv
<1>3. ASSUME NEW res \in results, handleResult(res) PROVE DeliveryInv'
  <2>0. /\ res.inc \in Incident
        /\ results' = results \ {res} /\ inFlight' = inFlight \ {res.inc}
        /\ UNCHANGED <<sending, raised, mailed, unsure>>
    BY <1>0, <1>3 DEF handleResult, history
  <2>1. ASSUME NEW i \in Incident PROVE OneDelivery(i)'
    BY <2>0, <2>1 DEF DeliveryInv, OneDelivery
  <2>2. ASSUME NEW i \in Incident PROVE Accounted(i)'
    <3>1. /\ pending[i] \in Nat /\ raised[i] \in Nat /\ mailed[i] \in Nat /\ unsure[i] \in Nat
          /\ success(i)' = success(i)
      BY <1>0 DEF success
    <3>2. CASE i # res.inc
      <4>1. success(i) \in results' <=> success(i) \in results
        BY <2>0, <3>2 DEF success
      <4>2. pending'[i] = pending[i]
        BY <1>0, <1>3, <2>0, <3>2 DEF handleResult, removePending
      <4> QED BY <2>0, <3>1, <4>1, <4>2 DEF DeliveryInv, Accounted
    <3>3. CASE i = res.inc
      <4>1. success(i) \notin results'
        BY <2>0, <3>3 DEF DeliveryInv, OneDelivery, success
      <4>2. CASE res.ok
        <5>1. pending'[i] = IF pending[i] > 0 THEN pending[i] - 1 ELSE pending[i]
          BY <1>0, <1>3, <2>0, <3>3, <4>2 DEF handleResult, removePending
        <5> QED BY <2>0, <3>1, <4>1, <5>1 DEF DeliveryInv, Accounted
      <4>3. CASE ~res.ok
        <5>1. pending'[i] = pending[i]
          BY <1>0, <1>3, <2>0, <3>3, <4>3 DEF handleResult, removePending
        <5>2. success(i) \notin results
          <6>1. res # success(i)
            BY <4>3 DEF success
          <6> QED BY <3>3, <6>1 DEF DeliveryInv, OneDelivery, success
        <5> QED BY <2>0, <3>1, <4>1, <5>1, <5>2 DEF DeliveryInv, Accounted
      <4> QED BY <4>2, <4>3
    <3> QED BY <3>2, <3>3
  <2> QED BY <2>1, <2>2 DEF DeliveryInv
<1>4. ASSUME Run PROVE DeliveryInv'
  <2>1. ASSUME NEW i \in Incident PROVE OneDelivery(i)'
    BY <1>4 DEF OneDelivery, Run
  <2>2. ASSUME NEW i \in Incident PROVE Accounted(i)'
    BY <1>0, <1>4 DEF DeliveryInv, Accounted, Run, noPending, history
  <2> QED BY <2>1, <2>2 DEF DeliveryInv
<1>5. ASSUME NEW p \in Peer, PeerChanges(p) PROVE DeliveryInv'
  BY <1>5, QuietDeliveries DEF PeerChanges, loopState, history
<1>6. ASSUME LeadershipChanges \/ VotersChange \/ Tick PROVE DeliveryInv'
  BY <1>6, QuietDeliveries DEF LeadershipChanges, VotersChange, Tick, loopState, history
<1>7. ASSUME UNCHANGED watchdogVars PROVE DeliveryInv'
  BY <1>7, QuietDeliveries DEF watchdogVars, loopState, history
<1> QED BY <1>1, <1>2, <1>3, <1>4, <1>5, <1>6, <1>7 DEF WatchdogNext

-----------------------------------------------------------------------------
(* What the watchdog promises.                                             *)

LEMMA InitEpisodes == WatchdogInit => EpisodeInv
<1> SUFFICES ASSUME WatchdogInit PROVE EpisodeInv
  OBVIOUS
<1>1. WatchdogTypeOK
  <2>1. now \in Time /\ voters \in Electorates /\ status \in [Peer -> Status]
    BY WatchdogAssumption DEF WatchdogInit, Time
  <2>2. /\ open \in [Peer -> Time \cup {Never}]
        /\ cooldowns \in [Kind \X Peer -> Time \cup {Never}]
        /\ lastMail \in [Kind \X Peer -> Time \cup {Never}]
    BY DEF WatchdogInit, noEpisodes
  <2>3. /\ pending \in [Incident -> Nat] /\ raised \in [Incident -> Nat]
        /\ mailed \in [Incident -> Nat] /\ unsure \in [Incident -> Nat]
    BY DEF WatchdogInit, noPending
  <2> QED BY <2>1, <2>2, <2>3 DEF WatchdogInit, WatchdogTypeOK
<1>2. Stamped
  BY DEF WatchdogInit, Stamped, success
<1>3. ASSUME NEW p \in Peer PROVE open[p] <= now /\ Kept(p)
  BY DEF WatchdogInit, Kept, noEpisodes, Never
<1> QED BY <1>1, <1>2, <1>3 DEF EpisodeInv

\* The inductive invariant behind the episodes.
THEOREM EpisodesInvariance == WatchdogSpec => []EpisodeInv
<1>1. EpisodeInv /\ [WatchdogNext]_watchdogVars => EpisodeInv'
  BY EpisodeStep
<1> QED BY <1>1, InitEpisodes, PTL DEF WatchdogSpec

\* An open episode is never forgotten, however leadership, the electorate,
\* deliveries and restarts of the process interleave.
THEOREM EpisodesAreKept == WatchdogSpec => []NoEpisodeIsLost
<1>1. EpisodeInv => NoEpisodeIsLost
  BY DEF EpisodeInv, NoEpisodeIsLost, Kept, death
<1> QED BY <1>1, EpisodesInvariance, PTL

\* An incident that was queued once is mailed at most once, plus once for every
\* delivery of it that the server accepted and the notifier reported as failed.
THEOREM MailsAreAccounted == WatchdogSpec => []OneMailPerIncident
<1>1. WatchdogInit => DeliveryInv
  BY DEF WatchdogInit, DeliveryInv, OneDelivery, Accounted, noPending, success
<1>2. DeliveryInv /\ WatchdogTypeOK /\ [WatchdogNext]_watchdogVars => DeliveryInv'
  BY DeliveryStep
<1>3. EpisodeInv => WatchdogTypeOK
  BY DEF EpisodeInv
<1>4. DeliveryInv => OneMailPerIncident
  BY DEF DeliveryInv, Accounted, OneMailPerIncident
<1> QED BY <1>1, <1>2, <1>3, <1>4, EpisodesInvariance, PTL DEF WatchdogSpec
=============================================================================
