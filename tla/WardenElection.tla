--------------------------- MODULE WardenElection ---------------------------
(***************************************************************************)
(* The election state machine of services/warden/election in static mode   *)
(* (Config.Discoverer = nil): the voters are Config.Peers for ever.        *)
(*                                                                         *)
(* A Manager is one loop goroutine per node, so each handler is one atomic *)
(* action.  Between handlers the process may stop and start again from its *)
(* store.  Requests and replies live in sets that are never emptied: a     *)
(* message may be handled late, out of order, more than once or never,     *)
(* which covers RPC timeouts, cancelled callers whose request the loop     *)
(* still handles, and the leader's periodic re-sending of its heartbeat.   *)
(*                                                                         *)
(* Timers are abstracted: an election timeout may fire at any moment.      *)
(* Liveness bookkeeping (lastContact, cached views) does not feed back     *)
(* into elections; the view it produces is an input of WardenWatchdog.     *)
(***************************************************************************)
EXTENDS Naturals, FiniteSets

CONSTANTS
    Node,       \* the static peers (Config.Peers); every one is a voter
    None,       \* the empty NodeID ""
    Standing,   \* bound: the nodes whose election timer may fire
    MaxTerm     \* bound: no election starts beyond this term

ASSUME NodeAssumption == IsFiniteSet(Node) /\ Node # {}
ASSUME NoneAssumption == None \notin Node
ASSUME TermAssumption == MaxTerm \in Nat

VARIABLES
    \* Loop-owned memory of each Manager.
    currentTerm, votedFor, role, leaderID, votesFrom,
    \* The durable PersistentState of each node's IStore.
    diskTerm, diskVotedFor,
    \* VoteRequest and HeartbeatRequest messages ever sent.  becomeLeader
    \* heartbeats at once, so heartbeats also records who led which term.
    voteRequests, heartbeats,
    \* The replies that can change their receiver: granted votes, and refused
    \* votes or rejected heartbeats that carry a newer term.  Any other reply
    \* is dropped by onVoteResult and onHeartbeatResult.
    grants, voteRefusals, heartbeatRejections

memory   == <<currentTerm, votedFor, role, leaderID, votesFrom>>
disk     == <<diskTerm, diskVotedFor>>
network  == <<voteRequests, heartbeats, grants, voteRefusals, heartbeatRejections>>
vars     == <<memory, disk, network>>

Term     == 0 .. MaxTerm
Role     == {"follower", "candidate", "leader"}
MaybeNode == Node \cup {None}

VoteRequest      == [term : Term, candidate : Node]
HeartbeatRequest == [term : Term, leader : Node]
Grant            == [term : Term, candidate : Node, voter : Node]
NewerTerm        == [term : Term, to : Node, respTerm : Term]

TypeOK ==
    /\ currentTerm \in [Node -> Term]
    /\ votedFor \in [Node -> MaybeNode]
    /\ role \in [Node -> Role]
    /\ leaderID \in [Node -> MaybeNode]
    /\ votesFrom \in [Node -> SUBSET Node]
    /\ diskTerm \in [Node -> Term]
    /\ diskVotedFor \in [Node -> MaybeNode]
    /\ voteRequests \subseteq VoteRequest
    /\ heartbeats \subseteq HeartbeatRequest
    /\ grants \subseteq Grant
    /\ voteRefusals \subseteq NewerTerm
    /\ heartbeatRejections \subseteq NewerTerm

-----------------------------------------------------------------------------
\* The majority threshold over the voters.
quorum == Cardinality(Node) \div 2 + 1

\* What IStore.Save may do.  FileStore.Save reports an error from any step
\* before the rename ("lost": the old record stays) and from the fsync of the
\* directory after it ("unsure": the new record is already in place).
SaveResult == {"ok", "lost", "unsure"}

saveState(n, term, vote, result) ==
    IF result = "lost"
    THEN UNCHANGED disk
    ELSE /\ diskTerm' = [diskTerm EXCEPT ![n] = term]
         /\ diskVotedFor' = [diskVotedFor EXCEPT ![n] = vote]

\* Adopt a term in memory: vote and leader as given, follower role.
adopt(n, term, vote, leader) ==
    /\ currentTerm' = [currentTerm EXCEPT ![n] = term]
    /\ votedFor' = [votedFor EXCEPT ![n] = vote]
    /\ role' = [role EXCEPT ![n] = "follower"]
    /\ leaderID' = [leaderID EXCEPT ![n] = leader]
    /\ UNCHANGED votesFrom

-----------------------------------------------------------------------------
\* Mutant of becomeLeader: the winner forgets to name itself.
becomeLeaderUnnamed(n, term) ==
    /\ role' = [role EXCEPT ![n] = "leader"]
    /\ heartbeats' = heartbeats \cup {[term |-> term, leader |-> n]}
    /\ UNCHANGED leaderID

\* becomeLeader, run with the term the node stands in; the vote is already
\* durable, and heartbeats go out at once (sendHeartbeats).
becomeLeader(n, term) ==
    /\ role' = [role EXCEPT ![n] = "leader"]
    /\ leaderID' = [leaderID EXCEPT ![n] = n]
    /\ heartbeats' = heartbeats \cup {[term |-> term, leader |-> n]}

\* Mutant of stepDown: the deposed leader still names itself.
stepDownKeepLeaderID(n, newTerm, result) ==
    /\ saveState(n, newTerm, None, result)
    /\ adopt(n, newTerm, None, leaderID[n])

\* A higher term on a reply: the save may fail, the node steps down anyway.
stepDown(n, newTerm, result) ==
    /\ saveState(n, newTerm, None, result)
    /\ adopt(n, newTerm, None, None)

\* startElection when the self-vote could not be saved: nothing changes in
\* memory and the timer is re-armed.
startElectionFailed(n, result) ==
    /\ result # "ok"
    /\ saveState(n, currentTerm[n] + 1, n, result)
    /\ UNCHANGED <<memory, network>>

\* Mutant of startElection: the self-vote is never saved.
startElectionUnsaved(n) ==
    LET term == currentTerm[n] + 1 IN
    /\ UNCHANGED disk
    /\ currentTerm' = [currentTerm EXCEPT ![n] = term]
    /\ votedFor' = [votedFor EXCEPT ![n] = n]
    /\ votesFrom' = [votesFrom EXCEPT ![n] = {n}]
    /\ voteRequests' = voteRequests \cup {[term |-> term, candidate |-> n]}
    /\ role' = [role EXCEPT ![n] = "candidate"]
    /\ leaderID' = [leaderID EXCEPT ![n] = None]
    /\ UNCHANGED <<heartbeats, grants, voteRefusals, heartbeatRejections>>

\* startElection once (term, self) is saved.  A quorum of one wins outright.
startElection(n) ==
    LET term == currentTerm[n] + 1 IN
    /\ saveState(n, term, n, "ok")
    /\ currentTerm' = [currentTerm EXCEPT ![n] = term]
    /\ votedFor' = [votedFor EXCEPT ![n] = n]
    /\ votesFrom' = [votesFrom EXCEPT ![n] = {n}]
    /\ voteRequests' = voteRequests \cup {[term |-> term, candidate |-> n]}
    /\ IF 1 >= quorum
       THEN becomeLeader(n, term)
       ELSE /\ role' = [role EXCEPT ![n] = "candidate"]
            /\ leaderID' = [leaderID EXCEPT ![n] = None]
            /\ UNCHANGED heartbeats
    /\ UNCHANGED <<grants, voteRefusals, heartbeatRejections>>

\* The election timer fires.  A leader only re-arms it.
onElectionTimeout(n) ==
    /\ role[n] # "leader"
    /\ n \in Standing
    /\ currentTerm[n] < MaxTerm
    /\ \/ startElection(n)
       \/ \E result \in SaveResult : startElectionFailed(n, result)

-----------------------------------------------------------------------------
\* A refusal matters to the candidate only if it carries a newer term.
refusal(n, req) ==
    IF currentTerm[n] > req.term
    THEN {[term |-> req.term, to |-> req.candidate, respTerm |-> currentTerm[n]]}
    ELSE {}

\* The vote a node still holds for the term of a request.
effVotedFor(n, req) ==
    IF req.term > currentTerm[n] THEN None ELSE votedFor[n]

\* The vote is free for this candidate in the term of its request.
mayGrant(n, req) ==
    /\ req.term >= currentTerm[n]
    /\ effVotedFor(n, req) \in {None, req.candidate}

\* Mutant of grantVote: the grant is sent although nothing was saved.
grantVoteUnsaved(n, req) ==
    /\ mayGrant(n, req)
    /\ UNCHANGED disk
    /\ adopt(n, req.term, req.candidate, None)
    /\ grants' = grants \cup
         {[term |-> req.term, candidate |-> req.candidate, voter |-> n]}
    /\ UNCHANGED voteRefusals

\* onVote: (term, vote) is saved, then adopted, then the grant is sent.
grantVote(n, req) ==
    /\ mayGrant(n, req)
    /\ saveState(n, req.term, req.candidate, "ok")
    /\ adopt(n, req.term, req.candidate, None)
    /\ grants' = grants \cup
         {[term |-> req.term, candidate |-> req.candidate, voter |-> n]}
    /\ UNCHANGED voteRefusals

\* onVote: the save fails, so the vote is refused and memory is untouched.
refuseUnsaved(n, req, result) ==
    /\ result # "ok"
    /\ mayGrant(n, req)
    /\ saveState(n, req.term, req.candidate, result)
    /\ UNCHANGED <<memory, grants, voteRefusals>>

\* onVote: a stale term, or the vote of this term is already spent.
refuseVote(n, req) ==
    /\ ~mayGrant(n, req)
    /\ voteRefusals' = voteRefusals \cup refusal(n, req)
    /\ UNCHANGED <<memory, disk, grants>>

onVote(n, req) ==
    /\ n # req.candidate
    /\ \/ grantVote(n, req)
       \/ \E result \in SaveResult : refuseUnsaved(n, req, result)
       \/ refuseVote(n, req)
    /\ UNCHANGED <<voteRequests, heartbeats, heartbeatRejections>>

\* Mutant of currentCandidacy: late replies of an earlier election are tallied too.
currentCandidacyAnyTerm(n, term) ==
    role[n] = "candidate"

\* The reply answers the election this node is still standing in.
currentCandidacy(n, term) ==
    role[n] = "candidate" /\ term = currentTerm[n]

\* onVoteResult: a granted vote is tallied by voter; a majority makes the
\* candidate leader.
onVoteGranted(n, grant) ==
    /\ grant.candidate = n
    /\ currentCandidacy(n, grant.term)
    /\ votesFrom' = [votesFrom EXCEPT ![n] = @ \cup {grant.voter}]
    /\ IF Cardinality(votesFrom[n] \cup {grant.voter}) >= quorum
       THEN becomeLeader(n, currentTerm[n])
       ELSE UNCHANGED <<role, leaderID, heartbeats>>
    /\ UNCHANGED <<currentTerm, votedFor, disk>>
    /\ UNCHANGED <<voteRequests, grants, voteRefusals, heartbeatRejections>>

\* onVoteResult: a refusal with a newer term ends the candidacy.
onVoteRefused(n, reply) ==
    /\ reply.to = n
    /\ currentCandidacy(n, reply.term)
    /\ \E result \in SaveResult : stepDown(n, reply.respTerm, result)
    /\ UNCHANGED network

-----------------------------------------------------------------------------
\* Mutant of rejectHeartbeat: the stale leader is told its own term back.
rejectHeartbeatSameTerm(n, req) ==
    /\ req.term < currentTerm[n]
    /\ heartbeatRejections' = heartbeatRejections \cup
         {[term |-> req.term, to |-> req.leader, respTerm |-> req.term]}
    /\ UNCHANGED <<memory, disk>>

\* onHeartbeat: a stale term is rejected with the newer one.
rejectHeartbeat(n, req) ==
    /\ req.term < currentTerm[n]
    /\ heartbeatRejections' = heartbeatRejections \cup
         {[term |-> req.term, to |-> req.leader, respTerm |-> currentTerm[n]]}
    /\ UNCHANGED <<memory, disk>>

\* onHeartbeat: a newer term is saved with the vote cleared, and adopted even
\* if the save failed; the sender is the leader from here on.
acceptHeartbeat(n, req) ==
    /\ req.term >= currentTerm[n]
    /\ IF req.term > currentTerm[n]
       THEN /\ \E result \in SaveResult : saveState(n, req.term, None, result)
            /\ adopt(n, req.term, None, req.leader)
       ELSE /\ adopt(n, req.term, votedFor[n], req.leader)
            /\ UNCHANGED disk
    /\ UNCHANGED heartbeatRejections

onHeartbeat(n, req) ==
    /\ n # req.leader
    /\ rejectHeartbeat(n, req) \/ acceptHeartbeat(n, req)
    /\ UNCHANGED <<voteRequests, heartbeats, grants, voteRefusals>>

\* Only the term of a heartbeat reply can change the election's state.
onHeartbeatResult(n, reply) ==
    /\ reply.to = n
    /\ role[n] = "leader"
    /\ reply.term = currentTerm[n]
    /\ reply.respTerm > currentTerm[n]
    /\ \E result \in SaveResult : stepDown(n, reply.respTerm, result)
    /\ UNCHANGED network

\* Mutant of NewManager: a restart opens a term of its own.
NewManagerNextTerm(n) ==
    /\ currentTerm' = [currentTerm EXCEPT ![n] = diskTerm[n] + 1]
    /\ votedFor' = [votedFor EXCEPT ![n] = None]
    /\ role' = [role EXCEPT ![n] = "follower"]
    /\ leaderID' = [leaderID EXCEPT ![n] = None]
    /\ votesFrom' = [votesFrom EXCEPT ![n] = {}]
    /\ UNCHANGED <<disk, network>>

\* The process stops at any point between two handlers and NewManager starts
\* it from what the store holds.
NewManager(n) ==
    /\ currentTerm' = [currentTerm EXCEPT ![n] = diskTerm[n]]
    /\ votedFor' = [votedFor EXCEPT ![n] = diskVotedFor[n]]
    /\ role' = [role EXCEPT ![n] = "follower"]
    /\ leaderID' = [leaderID EXCEPT ![n] = None]
    /\ votesFrom' = [votesFrom EXCEPT ![n] = {}]
    /\ UNCHANGED <<disk, network>>

-----------------------------------------------------------------------------
Init ==
    /\ currentTerm = [n \in Node |-> 0]
    /\ votedFor = [n \in Node |-> None]
    /\ role = [n \in Node |-> "follower"]
    /\ leaderID = [n \in Node |-> None]
    /\ votesFrom = [n \in Node |-> {}]
    /\ diskTerm = [n \in Node |-> 0]
    /\ diskVotedFor = [n \in Node |-> None]
    /\ voteRequests = {}
    /\ heartbeats = {}
    /\ grants = {}
    /\ voteRefusals = {}
    /\ heartbeatRejections = {}

Next ==
    \E n \in Node :
        \/ onElectionTimeout(n)
        \/ \E req \in voteRequests : onVote(n, req)
        \/ \E grant \in grants : onVoteGranted(n, grant)
        \/ \E reply \in voteRefusals : onVoteRefused(n, reply)
        \/ \E req \in heartbeats : onHeartbeat(n, req)
        \/ \E reply \in heartbeatRejections : onHeartbeatResult(n, reply)
        \/ NewManager(n)

Spec == Init /\ [][Next]_vars

-----------------------------------------------------------------------------
\* The election shows its environment an abstract registry of term winners.
Registry == INSTANCE LeaderRegistry
    WITH wins <- heartbeats, shownTerm <- currentTerm, shownLeader <- leaderID

\* The manager implements LeaderRegistry: each term is won at most once, and a
\* node only ever shows a term without a leader or a term with its winner.
ImplementsRegistry == Registry!Spec

\* doc.go: "at most one leader can exist per term", over the whole history and
\* not only among the nodes that hold the role now.
ElectionSafety ==
    \A g, h \in heartbeats : g.term = h.term => g.leader = h.leader

\* A vote granted over the wire is never recast: the voter has moved to a later
\* term or still holds that vote, in memory and on disk, whatever saves failed
\* and however often it restarted.
VotesAreKept ==
    \A g \in grants :
        /\ \/ currentTerm[g.voter] > g.term
           \/ currentTerm[g.voter] = g.term /\ votedFor[g.voter] = g.candidate
        /\ \/ diskTerm[g.voter] > g.term
           \/ diskTerm[g.voter] = g.term /\ diskVotedFor[g.voter] = g.candidate

\* Every (Term, LeaderID) pair a node shows in its view, and so every fence
\* derived from one, names the winner of that term, also on a follower that
\* heard of it from a heartbeat and on a deposed leader.
ViewsNameTheWinner ==
    \A n \in Node :
        leaderID[n] # None =>
            [term |-> currentTerm[n], leader |-> leaderID[n]] \in heartbeats

\* A node stands at most once per term, restarts included, so a vote granted
\* to an earlier incarnation can never be counted by a later one.
CandidaciesAreFresh ==
    [][\A n \in Node :
         role'[n] = "candidate" /\ role[n] # "candidate"
            => [term |-> currentTerm'[n], candidate |-> n] \notin voteRequests]_vars

\* A leader of an old term does not stay leader: its heartbeats reach a node
\* with a newer durable term, whose reply makes it step down.
StaleLeaderStepsDown ==
    \A n \in Node : \A t \in Term :
        (role[n] = "leader" /\ currentTerm[n] = t
            /\ \E m \in Node : currentTerm[m] > t)
        ~> ~(role[n] = "leader" /\ currentTerm[n] = t)

\* What the loop and the network owe: a heartbeat that is re-sent every tick is
\* handled at some point, and a reply that arrives is handled by the loop.
Delivery ==
    /\ \A n, m \in Node : \A t \in Term :
          WF_vars(LET req == [term |-> t, leader |-> m]
                  IN  req \in heartbeats /\ onHeartbeat(n, req))
    /\ \A n \in Node :
          WF_vars(\E reply \in heartbeatRejections : onHeartbeatResult(n, reply))

LiveSpec == Spec /\ Delivery
=============================================================================
