-------------------------- MODULE WardenMembership --------------------------
(***************************************************************************)
(* The election manager of services/warden/election in discovery mode: the *)
(* voters are a persisted, versioned Membership that the leader grows or   *)
(* shrinks one node at a time and spreads with its heartbeats.             *)
(*                                                                         *)
(* Elections work as in WardenElection, except that every node counts      *)
(* votes against the membership it holds itself.  leaderID and the views   *)
(* are left out: nothing here reads them.  Discovery is an input: which    *)
(* observers are verified and stable enough to be admitted, and which      *)
(* voters are dead and absent from the roster, is chosen freely whenever   *)
(* the leader looks (the leader's own guards on them are kept).            *)
(*                                                                         *)
(* Messages are kept for ever: late, repeated and lost delivery.           *)
(***************************************************************************)
EXTENDS Naturals, FiniteSets

CONSTANTS
    Node,           \* all nodes, observers included
    None,           \* the empty NodeID ""
    Deployments,    \* the deployments to be checked, see Deployment
    MaxTerm,        \* bound: no election starts beyond this term
    MaxVersion      \* bound: no membership beyond this version

\* One deployment: its nodes, its seed voters (Config.Peers), the outcomes of
\* IStore.Save on its disks and, as bounds, the pairs of nodes that can reach
\* each other, the nodes that may restart, and the elections that may start, as
\* pairs of a node and a term.
Deployment ==
    [nodes : SUBSET Node, founders : SUBSET Node,
     saves : SUBSET {"ok", "lost", "unsure"}, links : SUBSET (Node \X Node),
     restarting : SUBSET Node, standing : SUBSET (Node \X (1 .. MaxTerm))]

\* A lone founder wins outright without any vote; WardenElection covers that.
\* From two founders on, a leader can never remove its way down to one voter.
ASSUME DeploymentsAssumption ==
    /\ IsFiniteSet(Node) /\ None \notin Node
    /\ MaxTerm \in Nat /\ MaxVersion \in Nat \ {0}
    /\ \A d \in Deployments :
          /\ d \in Deployment
          /\ d.founders \subseteq d.nodes /\ Cardinality(d.founders) >= 2
          /\ "ok" \in d.saves

VARIABLES
    deployment,     \* fixed when the system is set up
    currentTerm, votedFor, role, votesFrom, membership,
    acked,          \* leader: the ackedVersion ledger, (Version, CreatedInTerm)
    contact,        \* leader: the keys of lastContact, who ever replied
    disk,           \* the PersistentState of each node
    voteRequests, grants, heartbeats, heartbeatReplies, newerTerms,
    wins,           \* history: who won which term holding which membership
    minted          \* history: each membership with the one it changed

electionVars == <<currentTerm, votedFor, role, votesFrom>>
ledgerVars   == <<acked, contact>>
network      == <<voteRequests, grants, heartbeats, heartbeatReplies, newerTerms>>
history      == <<wins, minted>>
vars == <<deployment, electionVars, membership, ledgerVars, disk, network, history>>

Term       == 0 .. MaxTerm
Version    == 0 .. MaxVersion
Membership == [version : Version, term : Term, voters : SUBSET Node]
Ref        == [version : Version, term : Term]

TypeOK ==
    /\ deployment \in Deployments
    /\ currentTerm \in [Node -> Term]
    /\ votedFor \in [Node -> Node \cup {None}]
    /\ role \in [Node -> {"follower", "candidate", "leader"}]
    /\ votesFrom \in [Node -> SUBSET Node]
    /\ membership \in [Node -> Membership]
    /\ acked \in [Node -> [Node -> Ref]]
    /\ contact \in [Node -> SUBSET Node]
    /\ disk \in [Node -> [term : Term, vote : Node \cup {None},
                          membership : Membership]]
    /\ voteRequests \subseteq [term : Term, candidate : Node, to : SUBSET Node]
    /\ grants \subseteq [term : Term, candidate : Node, voter : Node]
    /\ heartbeats \subseteq [term : Term, leader : Node, membership : Membership]
    /\ heartbeatReplies \subseteq
          [term : Term, to : Node, from : Node, ref : Ref, ok : BOOLEAN]
    /\ newerTerms \subseteq
          [kind : {"vote", "heartbeat"}, term : Term, to : Node, respTerm : Term]
    /\ wins \subseteq [term : Term, leader : Node, membership : Membership]
    /\ minted \subseteq [new : Membership, old : Membership]

-----------------------------------------------------------------------------
\* Memberships.
SaveResult == deployment.saves
Seed == [version |-> 1, term |-> 0, voters |-> deployment.founders]
ref(m) == [version |-> m.version, term |-> m.term]
NoAck == [version |-> 0, term |-> 0]

\* Membership.Supersedes, also newerAck: lexicographic on version and term.
Supersedes(a, b) ==
    \/ a.version > b.version
    \/ a.version = b.version /\ a.term > b.term

\* Mutant of Quorum: half of the voters is enough.
QuorumHalf(k) == (k + 1) \div 2

Quorum(k) == k \div 2 + 1
quorum(m) == Quorum(Cardinality(m.voters))
isVoter(n, id) == id \in membership[n].voters
isObserver(n) == ~isVoter(n, n)
voterPeers(n) == membership[n].voters \ {n}

\* An RPC between two nodes may get through.
reaches(n, m) == n # m /\ {<<n, m>>, <<m, n>>} \cap deployment.links # {}

\* IStore.Save of the whole PersistentState of n.
save(n, term, vote, m, result) ==
    disk' = IF result = "lost" THEN disk
            ELSE [disk EXCEPT ![n] =
                    [term |-> term, vote |-> vote, membership |-> m]]

\* Every term or vote write carries the membership held in memory.
saveState(n, term, vote, result) == save(n, term, vote, membership[n], result)

adoptTerm(n, term, vote) ==
    /\ currentTerm' = [currentTerm EXCEPT ![n] = term]
    /\ votedFor' = [votedFor EXCEPT ![n] = vote]
    /\ role' = [role EXCEPT ![n] = "follower"]

-----------------------------------------------------------------------------
\* Membership changes of a leader.  ledger is the acked ledger that the calling
\* handler leaves behind, live the voters it has heard from.

\* A majority of the current voters acked this membership or a newer one.
changeSettled(m, ledger) ==
    Cardinality({v \in m.voters : ~Supersedes(m, ledger[v])}) >= quorum(m)

\* nextAdmission: some verified and stable observer.
admissions(n) ==
    {membership[n].voters \cup {c} : c \in deployment.nodes \ (membership[n].voters \cup {n})}

\* nextRemoval: some dead and roster-absent voter other than the leader, while
\* the leader sees a live majority of the current voters.
removals(n, live) ==
    {membership[n].voters \ {v} :
        v \in {w \in membership[n].voters \ {n} :
                 Cardinality(((live \cap membership[n].voters) \cup {n}) \ {w})
                    >= quorum(membership[n])}}

heartbeat(n, term, m) == [term |-> term, leader |-> n, membership |-> m]

\* applyMembershipChange: saved first, adopted and sent only if that succeeded.
applyMembershipChange(n, ledger, voters, result) ==
    LET m == [version |-> membership[n].version + 1,
              term |-> currentTerm[n], voters |-> voters]
    IN  /\ membership[n].version < MaxVersion
        /\ save(n, currentTerm[n], votedFor[n], m, result)
        /\ IF result = "ok"
           THEN /\ membership' = [membership EXCEPT ![n] = m]
                /\ acked' = [acked EXCEPT ![n] = [ledger EXCEPT ![n] = ref(m)]]
                /\ heartbeats' =
                      heartbeats \cup {heartbeat(n, currentTerm[n], m)}
                /\ minted' = minted \cup {[new |-> m, old |-> membership[n]]}
           ELSE /\ acked' = [acked EXCEPT ![n] = ledger]
                /\ UNCHANGED <<membership, heartbeats, minted>>

\* maybeStartMembershipChange: at most one change, and only once the last one
\* has settled; nothing happens while nobody qualifies.
maybeStartMembershipChange(n, ledger, live) ==
    \/ /\ acked' = [acked EXCEPT ![n] = ledger]
       /\ UNCHANGED <<membership, heartbeats, minted, disk>>
    \/ /\ changeSettled(membership[n], ledger)
       /\ \E voters \in admissions(n) \cup removals(n, live), result \in SaveResult :
             applyMembershipChange(n, ledger, voters, result)

-----------------------------------------------------------------------------
\* Elections.

stepDown(n, newTerm, result) ==
    /\ saveState(n, newTerm, None, result)
    /\ adoptTerm(n, newTerm, None)
    /\ UNCHANGED <<deployment, votesFrom, membership, ledgerVars, network, history>>

\* startElection: the self-vote is saved first, and nothing happens if that
\* fails.
startElection(n, result) ==
    LET term == currentTerm[n] + 1 IN
    /\ saveState(n, term, n, result)
    /\ IF result = "ok"
       THEN /\ currentTerm' = [currentTerm EXCEPT ![n] = term]
            /\ votedFor' = [votedFor EXCEPT ![n] = n]
            /\ role' = [role EXCEPT ![n] = "candidate"]
            /\ votesFrom' = [votesFrom EXCEPT ![n] = {n}]
            /\ voteRequests' = voteRequests \cup
                 {[term |-> term, candidate |-> n, to |-> voterPeers(n)]}
       ELSE UNCHANGED <<electionVars, voteRequests>>
    /\ UNCHANGED <<deployment, membership, ledgerVars, grants, heartbeats, heartbeatReplies,
                   newerTerms, history>>

\* The election timer fires; leaders and observers only re-arm it.
onElectionTimeout(n) ==
    /\ <<n, currentTerm[n] + 1>> \in deployment.standing
    /\ role[n] # "leader" /\ ~isObserver(n)
    /\ \E result \in SaveResult : startElection(n, result)

effVotedFor(n, req) ==
    IF req.term > currentTerm[n] THEN None ELSE votedFor[n]

\* Only a voter grants, and only to a voter of the membership it holds.
mayGrant(n, req) ==
    /\ ~isObserver(n) /\ req.term >= currentTerm[n]
    /\ isVoter(n, req.candidate)
    /\ effVotedFor(n, req) \in {None, req.candidate}

grantVote(n, req, result) ==
    /\ mayGrant(n, req)
    /\ saveState(n, req.term, req.candidate, result)
    /\ IF result = "ok"
       THEN /\ adoptTerm(n, req.term, req.candidate)
            /\ grants' = grants \cup
                 {[term |-> req.term, candidate |-> req.candidate, voter |-> n]}
       ELSE UNCHANGED <<currentTerm, votedFor, role, grants>>
    /\ UNCHANGED newerTerms

\* A refused request of a newer term is adopted without spending the vote.
refuseNewerTerm(n, req, result) ==
    /\ ~mayGrant(n, req) /\ ~isObserver(n) /\ req.term > currentTerm[n]
    /\ saveState(n, req.term, None, result)
    /\ IF result = "ok"
       THEN adoptTerm(n, req.term, None)
       ELSE UNCHANGED <<currentTerm, votedFor, role>>
    /\ UNCHANGED <<grants, newerTerms>>

\* Any other refusal matters to the candidate only if it carries a newer term.
refuseVote(n, req) ==
    /\ currentTerm[n] > req.term
    /\ newerTerms' = newerTerms \cup
         {[kind |-> "vote", term |-> req.term, to |-> req.candidate,
           respTerm |-> currentTerm[n]]}
    /\ UNCHANGED <<currentTerm, votedFor, role, disk, grants>>

onVote(n, req) ==
    /\ n \in req.to /\ reaches(n, req.candidate)
    /\ \/ \E result \in SaveResult :
             grantVote(n, req, result) \/ refuseNewerTerm(n, req, result)
       \/ refuseVote(n, req)
    /\ UNCHANGED <<deployment, votesFrom, membership, ledgerVars, voteRequests, heartbeats,
                   heartbeatReplies, history>>

\* becomeLeader: a fresh ledger and heartbeats at once.  Its own ack alone never
\* settles a membership of two or more voters, so no change starts here.
becomeLeader(n) ==
    /\ role' = [role EXCEPT ![n] = "leader"]
    /\ contact' = [contact EXCEPT ![n] = {}]
    /\ acked' = [acked EXCEPT ![n] =
          [v \in Node |-> IF v = n THEN ref(membership[n]) ELSE NoAck]]
    /\ heartbeats' = heartbeats \cup {heartbeat(n, currentTerm[n], membership[n])}
    /\ wins' = wins \cup {heartbeat(n, currentTerm[n], membership[n])}

\* onVoteResult of a grant: only current voters count.
onVoteGranted(n, grant) ==
    LET votes == votesFrom[n] \cup {grant.voter} IN
    /\ grant.candidate = n /\ role[n] = "candidate"
    /\ grant.term = currentTerm[n]
    /\ isVoter(n, grant.voter)
    /\ votesFrom' = [votesFrom EXCEPT ![n] = votes]
    /\ IF Cardinality(votes) >= quorum(membership[n])
       THEN becomeLeader(n)
       ELSE UNCHANGED <<role, ledgerVars, heartbeats, wins>>
    /\ UNCHANGED <<deployment, currentTerm, votedFor, membership, disk, voteRequests, grants,
                   heartbeatReplies, newerTerms, minted>>

\* A reply with a newer term ends a candidacy or a leadership.
onNewerTerm(n, reply) ==
    /\ reply.to = n /\ reply.term = currentTerm[n]
    /\ role[n] = IF reply.kind = "vote" THEN "candidate" ELSE "leader"
    /\ \E result \in SaveResult : stepDown(n, reply.respTerm, result)

-----------------------------------------------------------------------------
\* Heartbeats.

\* The tick of a leader: heartbeats go out again, and a change may start.
onHeartbeatTick(n) ==
    /\ role[n] = "leader"
    /\ maybeStartMembershipChange(n, acked[n], contact[n])
    /\ UNCHANGED <<deployment, electionVars, contact, voteRequests, grants, heartbeatReplies,
                   newerTerms, wins>>

replyHeartbeat(n, hb, ok) ==
    heartbeatReplies' = heartbeatReplies \cup
        {[term |-> hb.term, to |-> hb.leader, from |-> n,
          ref |-> ref(hb.membership), ok |-> ok]}

rejectHeartbeat(n, hb) ==
    /\ hb.term < currentTerm[n]
    /\ newerTerms' = newerTerms \cup
         {[kind |-> "heartbeat", term |-> hb.term, to |-> hb.leader,
           respTerm |-> currentTerm[n]]}
    /\ UNCHANGED <<electionVars, membership, disk, heartbeatReplies>>

\* Mutant of adoptsFrom: whatever the leader sends replaces the membership held.
adoptsAny(n, hb) == hb.membership # membership[n]

\* Only a strictly newer membership is taken from a heartbeat.
adoptsFrom(n, hb) == Supersedes(hb.membership, membership[n])

\* Mutant of adoptAck: the membership is acknowledged without being stored.
adoptAckAlways(adopts, result) == TRUE

\* A heartbeat is acknowledged unless its membership was due and not stored.
adoptAck(adopts, result) == adopts => result = "ok"

\* A newer term is adopted whatever the save does.  adoptMembership then saves
\* a newer membership with the term and vote now in memory; only if that save
\* succeeds is it adopted and acknowledged.
acceptHeartbeat(n, hb, termResult, memberResult) ==
    LET newer == hb.term > currentTerm[n]
        vote  == IF newer THEN None ELSE votedFor[n]
        adopts == adoptsFrom(n, hb)
        termDisk == IF newer /\ termResult # "lost"
                    THEN [disk EXCEPT ![n] =
                            [term |-> hb.term, vote |-> None,
                             membership |-> membership[n]]]
                    ELSE disk
        ok == adoptAck(adopts, memberResult)
    IN  /\ hb.term >= currentTerm[n]
        /\ newer \/ termResult = "ok"
        /\ adopts \/ memberResult = "ok"
        /\ adoptTerm(n, hb.term, vote)
        /\ membership' = [membership EXCEPT ![n] =
                            IF adopts /\ memberResult = "ok" THEN hb.membership ELSE @]
        /\ votesFrom' = [votesFrom EXCEPT ![n] =
                            IF adopts /\ memberResult = "ok" /\ ~isObserver(n)
                                 /\ n \notin hb.membership.voters
                            THEN {} ELSE @]
        /\ disk' = IF adopts /\ memberResult # "lost"
                   THEN [termDisk EXCEPT ![n] =
                           [term |-> hb.term, vote |-> vote,
                            membership |-> hb.membership]]
                   ELSE termDisk
        /\ replyHeartbeat(n, hb, ok)
        /\ UNCHANGED newerTerms

onHeartbeat(n, hb) ==
    /\ reaches(n, hb.leader)
    /\ \/ rejectHeartbeat(n, hb)
       \/ \E r, s \in SaveResult : acceptHeartbeat(n, hb, r, s)
    /\ UNCHANGED <<deployment, ledgerVars, voteRequests, grants, heartbeats, history>>

\* onHeartbeatResult: any reply shows the peer alive; only OK from a voter
\* moves the ledger, and then a change may start.
onHeartbeatResult(n, reply) ==
    LET ledger == IF /\ isVoter(n, reply.from)
                     /\ Supersedes(reply.ref, acked[n][reply.from])
                  THEN [acked[n] EXCEPT ![reply.from] = reply.ref]
                  ELSE acked[n]
        live == IF isVoter(n, reply.from)
                THEN contact[n] \cup {reply.from} ELSE contact[n]
    IN  /\ reply.to = n /\ role[n] = "leader" /\ reply.term = currentTerm[n]
        /\ contact' = [contact EXCEPT ![n] = live]
        /\ IF reply.ok
           THEN maybeStartMembershipChange(n, ledger, live)
           ELSE UNCHANGED <<acked, membership, heartbeats, minted, disk>>
        /\ UNCHANGED <<deployment, electionVars, voteRequests, grants, heartbeatReplies,
                       newerTerms, wins>>

\* NewManager resumes from the store.
NewManager(n) ==
    /\ n \in deployment.restarting
    /\ currentTerm' = [currentTerm EXCEPT ![n] = disk[n].term]
    /\ votedFor' = [votedFor EXCEPT ![n] = disk[n].vote]
    /\ role' = [role EXCEPT ![n] = "follower"]
    /\ votesFrom' = [votesFrom EXCEPT ![n] = {}]
    /\ membership' = [membership EXCEPT ![n] = disk[n].membership]
    /\ acked' = [acked EXCEPT ![n] = [v \in Node |-> NoAck]]
    /\ contact' = [contact EXCEPT ![n] = {}]
    /\ UNCHANGED <<deployment, disk, network, history>>

-----------------------------------------------------------------------------
\* A store without a record stands for the seed of Config.Peers.
Init ==
    /\ deployment \in Deployments
    /\ currentTerm = [n \in Node |-> 0]
    /\ votedFor = [n \in Node |-> None]
    /\ role = [n \in Node |-> "follower"]
    /\ votesFrom = [n \in Node |-> {}]
    /\ membership = [n \in Node |-> Seed]
    /\ acked = [n \in Node |-> [v \in Node |-> NoAck]]
    /\ contact = [n \in Node |-> {}]
    /\ disk = [n \in Node |-> [term |-> 0, vote |-> None, membership |-> Seed]]
    /\ voteRequests = {} /\ grants = {} /\ heartbeats = {}
    /\ heartbeatReplies = {} /\ newerTerms = {}
    /\ wins = {} /\ minted = {}

\* A node outside the deployment has no link and nothing to do.
Next ==
    \E n \in Node :
        \/ onElectionTimeout(n)
        \/ \E req \in voteRequests : onVote(n, req)
        \/ \E grant \in grants : onVoteGranted(n, grant)
        \/ \E reply \in newerTerms : onNewerTerm(n, reply)
        \/ onHeartbeatTick(n)
        \/ \E hb \in heartbeats : onHeartbeat(n, hb)
        \/ \E reply \in heartbeatReplies : onHeartbeatResult(n, reply)
        \/ NewManager(n)

Spec == Init /\ [][Next]_vars

-----------------------------------------------------------------------------
\* types.go:121: changing one node at a time "keep[s] any
\* old-majority/new-majority pair overlapping, which preserves election safety":
\* at most one leader per term.
ElectionSafety ==
    \A w, x \in wins : w.term = x.term => w.leader = x.leader

\* Two winners of one term never held the same membership, nor one the direct
\* successor of the other: what single-node changes do guarantee.
AdjacentMembershipsAreSafe ==
    \A w, x \in wins :
        w.term = x.term /\ w.leader # x.leader =>
            /\ w.membership # x.membership
            /\ [new |-> w.membership, old |-> x.membership] \notin minted

\* The SETTLE rule holds on the disks: before a membership is changed, a
\* majority of its voters has stored it (or a newer one), and whatever crashes
\* or fails later, they never fall behind it again.
\* It includes the type invariant.
ChangedMembershipsAreDurable ==
    /\ TypeOK
    /\ \A c \in minted :
        Cardinality({v \in c.old.voters : ~Supersedes(c.old, disk[v].membership)})
            >= quorum(c.old)

\* A node never goes back to an older membership, restarts included.
MembershipNeverRegresses ==
    [][\A n \in Node : ~Supersedes(membership[n], membership'[n])]_vars

=============================================================================
