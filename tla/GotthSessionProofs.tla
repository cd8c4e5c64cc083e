------------------------- MODULE GotthSessionProofs -------------------------
(***************************************************************************)
(* Proofs about GotthSession for every finite set of regions, all pages,   *)
(* every depth of the queues, every window and every bound.                *)
(*                                                                         *)
(* The inductive invariant has five parts.  The types of what is queued    *)
(* and on the wire.  The order of the wire: its frames carry rising        *)
(* sequences between the client's and the server's.  The pages: a frame    *)
(* that follows another, or the client, says by its updates what changed   *)
(* since, so the client can miss only what a snapshot superseded.  The     *)
(* acknowledgements: those on their way rise from the one the server holds *)
(* to the client's position.  And what the properties say of stale         *)
(* regions, superseded ranges and owed events.                             *)
(***************************************************************************)
EXTENDS GotthSession, FiniteSetTheorems, FunctionTheorems, NaturalsInduction,
        SequenceTheorems, TLAPS

\* What waits in the mailbox, what a frame may carry and what is on the wire.
Message ==
    [kind : {"slow", "recovered", "event", "effect"}, origin : Origin]
        \cup [kind : {"resync"}, last : Nat]
Pages == [Fragment -> Markup \cup {NoMarkup}]
Updates == UNION {[S -> Markup] : S \in SUBSET Fragment}
Frame ==
    [kind : {"snapshot", "patch"}, seq : Nat, from : Nat, through : Nat,
     updates : Updates, page : Pages]

isFrame(f) == f.kind # "limited"

\* The updates of a frame are of its page.  A snapshot, unless it is the first
\* frame, declares everything up to its own sequence superseded; a patch declares
\* nothing.
WellFormed(f) ==
    /\ \A r \in DOMAIN f.updates : f.page[r] = f.updates[r]
    /\ f.kind = "snapshot" => IF f.from = 0 THEN f.seq = 1 ELSE f.through = f.seq - 1
    /\ f.kind = "patch" => f.from = 0

\* If f is the frame after sequence n, it says what changed since page p.
Continues(f, n, p) == f.seq = n + 1 => f.page = over(p, f.updates)

\* The wire w between a client that shows page p at sequence s and a server that
\* has sent page h with sequence n: the frames are numbered upwards from s to n,
\* and every page follows from the one before.
WireOK(w, s, p, n, h) ==
    /\ s <= n /\ (s = n => p = h)
    /\ \A i \in DOMAIN w :
          isFrame(w[i]) =>
              /\ s < w[i].seq /\ w[i].seq <= n
              /\ WellFormed(w[i])
              /\ Continues(w[i], s, p)
              /\ w[i].seq = n => w[i].page = h
    /\ \A i, j \in DOMAIN w :
          isFrame(w[i]) /\ isFrame(w[j]) =>
              /\ i < j => w[i].seq < w[j].seq
              /\ Continues(w[j], w[i].seq, w[i].page)

\* The acknowledgements a on their way rise from the last one handled to the
\* client's position.
AcksOK(a, from, s) ==
    /\ from <= s
    /\ \A i \in DOMAIN a : from <= a[i] /\ a[i] <= s
    /\ \A i, j \in DOMAIN a : i < j => a[i] <= a[j]

\* The parts of the inductive invariant.
ViewInv ==
    /\ page \in Page /\ hashes \in Pages
    /\ dirty \subseteq Fragment /\ failed \subseteq Fragment /\ panics \in Nat

FlagsInv == {coalesceHeld, slowNotified, fullSince, refused} \subseteq BOOLEAN

EdgesInv ==
    /\ pendingOrig \in Seq(Origin) /\ Len(pendingOrig) <= 1
    /\ pendingIDs \in Seq(EventID)
    /\ named \subseteq EventID /\ dropped \subseteq EventID

SentInv ==
    /\ serverSeq \in Nat /\ lastSnapshotSeq \in Nat /\ lastSnapshotSeq <= serverSeq
    /\ ranges \subseteq Nat \X Nat
    /\ \A r \in ranges : r[2] < lastSnapshotSeq
    /\ RangesAreDisjoint

MailInv ==
    /\ mailbox \in Seq(Message) /\ Len(mailbox) <= MailboxDepth
    /\ eventSeq \in 0 .. MaxEvents /\ applied \subseteq EventID
    /\ tokens \in 0 .. ResyncBurst /\ resyncDenied \in Nat

AcksInv ==
    /\ acks \in Seq(Nat) /\ Len(acks) <= AckChannelDepth /\ acked \in Nat
    /\ AcksOK(acks, acked, seq)

WireInv ==
    /\ wire \in Seq(Frame \cup {limited})
    /\ WireOK(wire, seq, expected, serverSeq, hashes)

ClientInv ==
    /\ seq \in Nat /\ {gap, gapTimer} \subseteq BOOLEAN
    /\ dom \in Pages /\ expected \in Pages /\ skipped \subseteq Fragment
    /\ ClientShowsWhatWasSent
    /\ accounted \subseteq Nat /\ 1 .. seq \subseteq accounted

ClosedInv == closed \in {"open", "unmounted", "flood", "slow", "range", "panics", "away"}

\* Every region whose markup differs from what was sent is dirty or failed to
\* render.
Marked == \A f \in Fragment : page[f] # hashes[f] => f \in dirty \cup failed

SessionInv ==
    /\ ViewInv /\ FlagsInv /\ EdgesInv /\ SentInv /\ MailInv
    /\ AcksInv /\ WireInv /\ ClientInv /\ ClosedInv
    /\ serverSeq > 0 => Marked
    /\ NothingIsUnattributed

-----------------------------------------------------------------------------
(* Sequences and the sets of their elements.                               *)

LEMMA ToSetFacts ==
    ASSUME NEW S
    PROVE  /\ ToSet(<<>>) = {}
           /\ \A x : ToSet(<<x>>) = {x}
           /\ \A s \in Seq(S) : ToSet(s) \subseteq S
<1>1. ToSet(<<>>) = {}
  BY DEF ToSet
<1>2. ASSUME NEW x PROVE ToSet(<<x>>) = {x}
  BY DEF ToSet
<1>3. ASSUME NEW s \in Seq(S) PROVE ToSet(s) \subseteq S
  BY DEF ToSet
<1> QED BY <1>1, <1>2, <1>3

LEMMA ToSetConcat ==
    ASSUME NEW S, NEW s \in Seq(S), NEW t \in Seq(S)
    PROVE  s \o t \in Seq(S) /\ ToSet(s \o t) = ToSet(s) \cup ToSet(t)
<1>1. s \o t \in Seq(S)
  OBVIOUS
<1>2. ASSUME NEW i \in DOMAIN (s \o t) PROVE (s \o t)[i] \in ToSet(s) \cup ToSet(t)
  BY DEF ToSet
<1>3. ASSUME NEW i \in DOMAIN s PROVE s[i] \in ToSet(s \o t)
  <2>1. i \in DOMAIN (s \o t) /\ (s \o t)[i] = s[i]
    OBVIOUS
  <2> QED BY <2>1 DEF ToSet
<1>4. ASSUME NEW i \in DOMAIN t PROVE t[i] \in ToSet(s \o t)
  <2>1. i + Len(s) \in DOMAIN (s \o t) /\ (s \o t)[i + Len(s)] = t[i]
    OBVIOUS
  <2> QED BY <2>1 DEF ToSet
<1> QED BY <1>1, <1>2, <1>3, <1>4 DEF ToSet

LEMMA NatMin ==
    ASSUME NEW S \in SUBSET Nat, S # {}
    PROVE  \E m \in S : \A x \in S : m <= x
<1>1. IsWellFoundedOn(OpToRel(<, Nat), Nat)
  BY NatLessThanWellFounded
<1>2. \E m \in S : \A x \in S : ~(<<x, m>> \in OpToRel(<, Nat))
  BY <1>1, WFMin
<1>3. \A x, y \in S : ~(<<x, y>> \in OpToRel(<, Nat)) => y <= x
  BY DEF OpToRel
<1> QED
  BY <1>2, <1>3

\* The elements of a finite set of numbers have the ranks 1 .. Cardinality(S),
\* each its own.
LEMMA RankedFacts ==
    ASSUME NEW n \in Nat, NEW S \in SUBSET (1 .. n)
    PROVE  /\ IsFiniteSet(S) /\ Cardinality(S) \in Nat
           /\ \A k \in 1 .. Cardinality(S) : ranked(S, k) \in S
           /\ \A i \in S : \E k \in 1 .. Cardinality(S) : ranked(S, k) = i
<1> DEFINE upTo(i) == {j \in S : j <= i}
           rank == [i \in S |-> Cardinality(upTo(i))]
           C == Cardinality(S)
<1>1. IsFiniteSet(1 .. n)
  BY FS_Interval
<1>2. IsFiniteSet(S)
  BY <1>1, FS_Subset
<1>3. C \in Nat
  BY <1>2, FS_CardinalityType
<1>4. ASSUME NEW i \in S
      PROVE  IsFiniteSet(upTo(i)) /\ rank[i] \in 1 .. C
  <2>1. upTo(i) \in SUBSET S /\ i \in upTo(i)
    OBVIOUS
  <2>2. IsFiniteSet(upTo(i)) /\ Cardinality(upTo(i)) <= C
    BY <1>2, <2>1, FS_Subset
  <2>3. Cardinality(upTo(i)) \in Nat
    BY <2>2, FS_CardinalityType
  <2>4. Cardinality(upTo(i)) # 0
    BY <2>1, <2>2, FS_EmptySet
  <2>5. rank[i] = Cardinality(upTo(i))
    OBVIOUS
  <2> HIDE DEF upTo, rank, C
  <2> QED BY <1>3, <2>2, <2>3, <2>4, <2>5
<1>5. ASSUME NEW i \in S, NEW j \in S, i < j PROVE rank[i] < rank[j]
  <2>a. i \in Nat /\ j \in Nat /\ \A x \in S : x \in Nat
    OBVIOUS
  <2>b. \A x \in S : x <= i => x <= j
    BY <1>5, <2>a
  <2>c. ~(j <= i) /\ j <= j
    BY <1>5, <2>a
  <2>1. upTo(i) \cup {j} \in SUBSET upTo(j) /\ j \notin upTo(i)
    BY <2>b, <2>c
  <2>2. Cardinality(upTo(i) \cup {j}) = Cardinality(upTo(i)) + 1
    BY <1>4, <2>1, FS_AddElement
  <2>3. Cardinality(upTo(i) \cup {j}) <= Cardinality(upTo(j))
    BY <1>4, <2>1, FS_Subset
  <2>4. rank[i] = Cardinality(upTo(i)) /\ rank[j] = Cardinality(upTo(j))
    OBVIOUS
  <2>5. rank[i] \in Nat /\ rank[j] \in Nat
    BY <1>3, <1>4
  <2> HIDE DEF upTo, rank
  <2> QED BY <2>2, <2>3, <2>4, <2>5
<1>6. ASSUME NEW i \in S, NEW j \in S, rank[i] = rank[j] PROVE i = j
  <2>1. rank[i] \in Nat /\ rank[j] \in Nat /\ i \in Nat /\ j \in Nat
    BY <1>3, <1>4
  <2> HIDE DEF rank
  <2> QED BY <1>5, <1>6, <2>1
<1>7. rank \in Injection(S, 1 .. C)
  <2>1. rank \in [S -> 1 .. C]
    BY <1>4
  <2> HIDE DEF rank, C
  <2> QED BY <1>6, <2>1, Fun_IsInj
<1>8. rank \in Surjection(S, 1 .. C)
  <2>1. IsFiniteSet(1 .. C) /\ Cardinality(1 .. C) = C
    BY <1>3, FS_Interval
  <2> HIDE DEF rank, C
  <2>2. Cardinality(S) = Cardinality(1 .. C)
    BY <2>1 DEF C
  <2> QED BY <1>7, <2>1, <2>2, FS_Injection
<1>9. ASSUME NEW k \in 1 .. C PROVE ranked(S, k) \in S /\ rank[ranked(S, k)] = k
  <2>1. \E i \in S : rank[i] = k
    <3> HIDE DEF rank, C
    <3>1. \A t \in 1 .. C : \E i \in S : rank[i] = t
      BY <1>8, Fun_SurjectionProperties
    <3> QED BY <3>1
  <2>2. \E i \in S : Cardinality(upTo(i)) = k
    BY <2>1
  <2>3. ranked(S, k) \in S /\ Cardinality(upTo(ranked(S, k))) = k
    BY <2>2, Zenon DEF ranked
  <2> QED BY <2>3
<1>10. ASSUME NEW i \in S PROVE ranked(S, rank[i]) = i
  <2>1. rank[i] \in 1 .. C
    BY <1>4
  <2> HIDE DEF rank, C
  <2> QED BY <1>6, <1>9, <2>1
<1> HIDE DEF rank, upTo
<1> QED BY <1>2, <1>3, <1>4, <1>9, <1>10

-----------------------------------------------------------------------------
(* The events that contribute to an emission.                              *)

\* What the limits come to.
LEMMA LimitFacts ==
    /\ MailboxDepth \in Nat /\ AckChannelDepth \in Nat /\ ResyncBurst \in Nat
    /\ Ceiling \in Nat /\ MaxEvents \in Nat
BY LimitsAssumption

LEMMA OriginFacts ==
    /\ Timer \in Origin
    /\ NoEvent \notin EventID
    /\ Resync \in EventID
    /\ \A o \in Origin : o.event \in EventID \cup {NoEvent} /\ o.contributing \in Seq(EventID)
BY LimitFacts DEF Origin, Timer, NoEvent, EventID, Resync

\* unionEdges keeps every event but the origin's own.
LEMMA UnionEdges ==
    ASSUME NEW o \in Origin, NEW t \in Seq(EventID)
    PROVE  /\ unionEdges(o, t) \in Seq(EventID)
           /\ ToSet(unionEdges(o, t)) = (ToSet(o.contributing) \cup ToSet(t)) \ {o.event}
<1> DEFINE all == o.contributing \o t
           kept == {i \in DOMAIN all : /\ all[i] # o.event
                                       /\ \A j \in 1 .. i - 1 : all[j] # all[i]}
           C == Cardinality(kept)
           u == [k \in 1 .. C |-> all[ranked(kept, k)]]
<1>1. all \in Seq(EventID) /\ ToSet(all) = ToSet(o.contributing) \cup ToSet(t)
  BY OriginFacts, ToSetConcat
<1>2. unionEdges(o, t) = u
  BY Zenon DEF unionEdges
<1> HIDE DEF all
<1>3. Len(all) \in Nat /\ DOMAIN all = 1 .. Len(all) /\ \A i \in DOMAIN all : all[i] \in EventID
  BY <1>1
<1>4. kept \in SUBSET (1 .. Len(all))
  BY <1>3
<1>5. /\ C \in Nat
      /\ \A k \in 1 .. C : ranked(kept, k) \in kept
      /\ \A i \in kept : \E k \in 1 .. C : ranked(kept, k) = i
  BY <1>3, <1>4, RankedFacts
<1>6. ASSUME NEW k \in 1 .. C
      PROVE  u[k] \in EventID /\ u[k] \in ToSet(all) \ {o.event}
  <2>1. ranked(kept, k) \in kept
    BY <1>5
  <2>2. ranked(kept, k) \in DOMAIN all /\ all[ranked(kept, k)] # o.event
    BY <2>1
  <2>3. u[k] = all[ranked(kept, k)]
    OBVIOUS
  <2> HIDE DEF u, kept
  <2> QED BY <1>3, <2>2, <2>3 DEF ToSet
<1>7. u \in Seq(EventID) /\ DOMAIN u = 1 .. C
  <2>1. u \in [1 .. C -> EventID]
    BY <1>6
  <2> HIDE DEF u, C
  <2> QED BY <1>5, <2>1
<1>8. ASSUME NEW v \in ToSet(all) \ {o.event} PROVE v \in ToSet(u)
  <2> DEFINE I == {i \in DOMAIN all : all[i] = v}
  <2>1. I # {} /\ I \in SUBSET Nat
    BY <1>3 DEF ToSet
  <2>2. PICK m \in I : \A x \in I : m <= x
    BY <2>1, NatMin
  <2>3. m \in DOMAIN all /\ all[m] = v /\ m \in 1 .. Len(all)
    BY <1>3, <2>2
  <2>4. ASSUME NEW j \in 1 .. m - 1 PROVE all[j] # v
    <3>1. j \in DOMAIN all /\ ~(m <= j)
      BY <1>3, <2>3
    <3> QED BY <2>2, <3>1
  <2>5. m \in kept
    BY <1>8, <2>3, <2>4
  <2>6. PICK k \in 1 .. C : ranked(kept, k) = m
    BY <1>5, <2>5
  <2>7. u[k] = v
    BY <2>3, <2>6
  <2> HIDE DEF u, C
  <2> QED BY <1>7, <2>7 DEF ToSet
<1> HIDE DEF u, C
<1>9. ToSet(u) = ToSet(all) \ {o.event}
  BY <1>6, <1>7, <1>8 DEF ToSet
<1> QED BY <1>1, <1>2, <1>7, <1>9

\* What an emission with the given event takes over from a deferred origin (at
\* most one) and the identifiers owed.
owed(orig, ids, e) ==
    ToSet(ids) \cup (IF orig = <<>> THEN {}
                     ELSE ToSet(Head(orig).contributing)
                          \cup ({Head(orig).event} \ {NoEvent, e}))

taken(orig, ids, o) ==
    IF orig = <<>>
    THEN ids
    ELSE LET prev == Head(orig)
             own == IF prev.event \in {NoEvent, o.event} THEN <<>> ELSE <<prev.event>>
         IN  ids \o own \o prev.contributing

LEMMA Taken ==
    ASSUME NEW orig \in Seq(Origin), NEW ids \in Seq(EventID), NEW o \in Origin
    PROVE  /\ taken(orig, ids, o) \in Seq(EventID)
           /\ ToSet(taken(orig, ids, o)) = owed(orig, ids, o.event)
<1>1. CASE orig = <<>>
  BY <1>1 DEF taken, owed
<1>2. CASE orig # <<>>
  <2>1. PICK prev \in Origin : prev = Head(orig)
    BY <1>2
  <2>2. PICK own \in Seq(EventID) :
            /\ own = IF prev.event \in {NoEvent, o.event} THEN <<>> ELSE <<prev.event>>
            /\ ToSet(own) = {prev.event} \ {NoEvent, o.event}
    <3>1. CASE prev.event \in {NoEvent, o.event}
      <4>1. <<>> \in Seq(EventID) /\ ToSet(<<>>) = {}
        BY ToSetFacts
      <4> QED BY <3>1, <4>1
    <3>2. CASE prev.event \notin {NoEvent, o.event}
      <4>1. prev.event \in EventID
        BY <3>2, OriginFacts
      <4>2. <<prev.event>> \in Seq(EventID) /\ ToSet(<<prev.event>>) = {prev.event}
        BY <4>1, ToSetFacts
      <4> QED BY <3>2, <4>2
    <3> QED BY <3>1, <3>2
  <2>3. taken(orig, ids, o) = ids \o own \o prev.contributing
    BY <1>2, <2>1, <2>2 DEF taken
  <2>4. prev.contributing \in Seq(EventID)
    BY OriginFacts
  <2>5. ids \o own \in Seq(EventID) /\ ToSet(ids \o own) = ToSet(ids) \cup ToSet(own)
    BY ToSetConcat
  <2>6. /\ ids \o own \o prev.contributing \in Seq(EventID)
        /\ ToSet(ids \o own \o prev.contributing)
              = ToSet(ids \o own) \cup ToSet(prev.contributing)
    <3>1. PICK first \in Seq(EventID) : first = ids \o own
      BY <2>5
    <3>2. /\ first \o prev.contributing \in Seq(EventID)
          /\ ToSet(first \o prev.contributing) = ToSet(first) \cup ToSet(prev.contributing)
      BY <2>4, ToSetConcat
    <3> QED BY <3>1, <3>2
  <2>7. owed(orig, ids, o.event)
          = ToSet(ids) \cup ToSet(prev.contributing) \cup ({prev.event} \ {NoEvent, o.event})
    BY <1>2, <2>1 DEF owed
  <2> QED BY <2>2, <2>3, <2>5, <2>6, <2>7
<1> QED BY <1>1, <1>2

LEMMA TakePending ==
    ASSUME pendingOrig \in Seq(Origin), pendingIDs \in Seq(EventID), NEW o \in Origin
    PROVE  /\ takePending(o) \in Seq(EventID)
           /\ ToSet(takePending(o)) = owed(pendingOrig, pendingIDs, o.event)
<1>1. takePending(o) = taken(pendingOrig, pendingIDs, o)
  BY Zenon DEF takePending, taken
<1> QED BY <1>1, Taken

-----------------------------------------------------------------------------
(* The wire and the acknowledgements.                                      *)

LEMMA FrameFacts ==
    /\ \A f \in Frame :
          /\ isFrame(f) /\ f.kind \in {"snapshot", "patch"}
          /\ f.seq \in Nat /\ f.from \in Nat /\ f.through \in Nat
          /\ f.updates \in Updates /\ f.page \in Pages
    /\ ~isFrame(limited) /\ limited.kind = "limited"
    /\ limited \notin Frame
BY DEF Frame, isFrame, limited

LEMMA WireTail ==
    ASSUME NEW w \in Seq(Frame \cup {limited}), w # <<>>, NEW s, NEW p, NEW n, NEW h,
           WireOK(w, s, p, n, h)
    PROVE  /\ Tail(w) \in Seq(Frame \cup {limited})
           /\ WireOK(Tail(w), s, p, n, h)
<1>0. Tail(w) \in Seq(Frame \cup {limited})
  BY HeadTailProperties
<1>1. PICK t \in Seq(Frame \cup {limited}) : t = Tail(w)
  BY <1>0
<1>2. \A i \in DOMAIN t : i \in Nat /\ i + 1 \in DOMAIN w /\ t[i] = w[i + 1]
  BY <1>1
<1>3. WireOK(t, s, p, n, h)
  <2>1. \A i \in DOMAIN t :
          isFrame(t[i]) =>
              /\ s < t[i].seq /\ t[i].seq <= n
              /\ WellFormed(t[i])
              /\ Continues(t[i], s, p)
              /\ t[i].seq = n => t[i].page = h
    BY <1>2 DEF WireOK
  <2>2. \A i, j \in DOMAIN t :
          isFrame(t[i]) /\ isFrame(t[j]) =>
              /\ i < j => t[i].seq < t[j].seq
              /\ Continues(t[j], t[i].seq, t[i].page)
    <3> SUFFICES ASSUME NEW i \in DOMAIN t, NEW j \in DOMAIN t, isFrame(t[i]), isFrame(t[j])
                 PROVE  /\ i < j => t[i].seq < t[j].seq
                        /\ Continues(t[j], t[i].seq, t[i].page)
      OBVIOUS
    <3>1. i < j => i + 1 < j + 1
      BY <1>2
    <3> QED BY <1>2, <3>1 DEF WireOK
  <2> QED BY <2>1, <2>2 DEF WireOK
<1> QED BY <1>1, <1>3

LEMMA WireLimited ==
    ASSUME NEW w \in Seq(Frame \cup {limited}), NEW s, NEW p, NEW n, NEW h,
           WireOK(w, s, p, n, h)
    PROVE  /\ Append(w, limited) \in Seq(Frame \cup {limited})
           /\ WireOK(Append(w, limited), s, p, n, h)
<1>0. Append(w, limited) \in Seq(Frame \cup {limited})
  BY AppendProperties
<1>1. PICK t \in Seq(Frame \cup {limited}) : t = Append(w, limited)
  BY <1>0
<1>2. \A i \in DOMAIN t : isFrame(t[i]) => i \in DOMAIN w /\ t[i] = w[i]
  BY <1>1, FrameFacts
<1>3. WireOK(t, s, p, n, h)
  <2>1. \A i \in DOMAIN t :
          isFrame(t[i]) =>
              /\ s < t[i].seq /\ t[i].seq <= n
              /\ WellFormed(t[i])
              /\ Continues(t[i], s, p)
              /\ t[i].seq = n => t[i].page = h
    BY <1>2 DEF WireOK
  <2>2. \A i, j \in DOMAIN t :
          isFrame(t[i]) /\ isFrame(t[j]) =>
              /\ i < j => t[i].seq < t[j].seq
              /\ Continues(t[j], t[i].seq, t[i].page)
    BY <1>2 DEF WireOK
  <2> QED BY <2>1, <2>2 DEF WireOK
<1> QED BY <1>1, <1>3

\* The server sends the frame after n.
LEMMA WirePush ==
    ASSUME NEW w \in Seq(Frame \cup {limited}), NEW s \in Nat, NEW p, NEW n \in Nat, NEW h,
           WireOK(w, s, p, n, h),
           NEW f \in Frame, f.seq = n + 1, WellFormed(f),
           f.page = over(h, f.updates)
    PROVE  /\ Append(w, f) \in Seq(Frame \cup {limited})
           /\ WireOK(Append(w, f), s, p, n + 1, f.page)
<1>0. Append(w, f) \in Seq(Frame \cup {limited})
  BY AppendProperties
<1>1. PICK t \in Seq(Frame \cup {limited}) : t = Append(w, f)
  BY <1>0
<1>2. \A i \in DOMAIN t :
        /\ i \in Nat
        /\ \/ i \in DOMAIN w /\ t[i] = w[i] /\ i <= Len(w)
           \/ i = Len(w) + 1 /\ t[i] = f
  <2>1. /\ Len(w) \in Nat /\ DOMAIN t = 1 .. Len(w) + 1 /\ DOMAIN w = 1 .. Len(w)
        /\ \A i \in 1 .. Len(w) : t[i] = w[i]
        /\ t[Len(w) + 1] = f
    BY <1>1, AppendProperties
  <2> QED BY <2>1
<1>3. s <= n /\ (s = n => p = h)
  BY DEF WireOK
<1>4. ASSUME NEW i \in DOMAIN w, isFrame(w[i])
      PROVE  w[i] \in Frame /\ w[i].seq \in Nat /\ s < w[i].seq /\ w[i].seq <= n
  <2>1. w[i] \in Frame
    BY <1>4, FrameFacts
  <2> QED BY <1>4, <2>1, FrameFacts DEF WireOK
<1>5. ASSUME NEW i \in DOMAIN t, isFrame(t[i])
      PROVE  /\ s < t[i].seq /\ t[i].seq <= n + 1
             /\ WellFormed(t[i])
             /\ Continues(t[i], s, p)
             /\ t[i].seq = n + 1 => t[i].page = f.page
  <2>1. CASE i \in DOMAIN w /\ t[i] = w[i]
    <3>1. WellFormed(w[i]) /\ Continues(w[i], s, p)
      BY <1>5, <2>1 DEF WireOK
    <3>2. w[i].seq \in Nat /\ s < w[i].seq /\ w[i].seq <= n
      BY <1>4, <1>5, <2>1
    <3> QED BY <2>1, <3>1, <3>2
  <2>2. CASE t[i] = f
    <3>1. s < f.seq /\ f.seq <= n + 1
      BY <1>3
    <3>2. Continues(f, s, p)
      BY <1>3 DEF Continues
    <3> QED BY <2>2, <3>1, <3>2
  <2> QED BY <1>2, <2>1, <2>2
<1>6. ASSUME NEW i \in DOMAIN t, NEW j \in DOMAIN t, isFrame(t[i]), isFrame(t[j])
      PROVE  /\ i < j => t[i].seq < t[j].seq
             /\ Continues(t[j], t[i].seq, t[i].page)
  <2>1. CASE (i \in DOMAIN w /\ t[i] = w[i]) /\ (j \in DOMAIN w /\ t[j] = w[j])
    BY <1>6, <2>1 DEF WireOK
  <2>2. CASE (i \in DOMAIN w /\ t[i] = w[i]) /\ (j = Len(w) + 1 /\ t[j] = f)
    <3>1. w[i].seq \in Nat /\ w[i].seq <= n
      BY <1>4, <1>6, <2>2
    <3>2. w[i].seq = n => w[i].page = h
      BY <1>6, <2>2 DEF WireOK
    <3>3. w[i].seq < f.seq
      BY <3>1
    <3>4. Continues(f, w[i].seq, w[i].page)
      BY <3>1, <3>2 DEF Continues
    <3> QED BY <2>2, <3>3, <3>4
  <2>3. CASE (i = Len(w) + 1 /\ t[i] = f) /\ (j \in DOMAIN w /\ t[j] = w[j] /\ j <= Len(w))
    <3>1. w[j].seq \in Nat /\ w[j].seq <= n
      BY <1>4, <1>6, <2>3
    <3>2. ~(i < j) /\ w[j].seq # f.seq + 1
      BY <2>3, <3>1
    <3> QED BY <2>3, <3>2 DEF Continues
  <2>4. CASE (i = Len(w) + 1 /\ t[i] = f) /\ (j = Len(w) + 1 /\ t[j] = f)
    <3>1. ~(i < j) /\ f.seq # f.seq + 1
      BY <2>4, FrameFacts
    <3> QED BY <2>4, <3>1 DEF Continues
  <2> QED BY <1>2, <2>1, <2>2, <2>3, <2>4
<1>7. s <= n + 1 /\ s # n + 1
  BY <1>3
<1>8. WireOK(t, s, p, n + 1, f.page)
  BY <1>5, <1>6, <1>7 DEF WireOK
<1> QED BY <1>1, <1>8

\* The client handles a frame that it applies.
LEMMA WireApply ==
    ASSUME NEW w \in Seq(Frame \cup {limited}), w # <<>>, NEW s \in Nat, NEW p,
           NEW n \in Nat, NEW h, WireOK(w, s, p, n, h),
           NEW f \in Frame, f = Head(w)
    PROVE  /\ Tail(w) \in Seq(Frame \cup {limited})
           /\ WireOK(Tail(w), f.seq, f.page, n, h)
           /\ s < f.seq /\ f.seq <= n
           /\ WellFormed(f) /\ Continues(f, s, p)
<1>0. Tail(w) \in Seq(Frame \cup {limited})
  BY HeadTailProperties
<1>1. PICK t \in Seq(Frame \cup {limited}) : t = Tail(w)
  BY <1>0
<1>2. /\ 1 \in DOMAIN w /\ w[1] = f /\ isFrame(f)
      /\ \A i \in DOMAIN t : i \in Nat /\ i > 0 /\ i + 1 \in DOMAIN w /\ t[i] = w[i + 1]
  BY <1>1, FrameFacts
<1>3. /\ s < f.seq /\ f.seq <= n /\ WellFormed(f) /\ Continues(f, s, p)
      /\ f.seq = n => f.page = h
  BY <1>2 DEF WireOK
<1>4. WireOK(t, s, p, n, h)
  BY <1>1, WireTail
<1>5. ASSUME NEW i \in DOMAIN t, isFrame(t[i])
      PROVE  f.seq < t[i].seq /\ Continues(t[i], f.seq, f.page)
  <2>1. i + 1 \in DOMAIN w /\ t[i] = w[i + 1] /\ 1 < i + 1
    BY <1>2
  <2> QED BY <1>2, <1>5, <2>1 DEF WireOK
<1>6. WireOK(t, f.seq, f.page, n, h)
  BY <1>3, <1>4, <1>5 DEF WireOK
<1> QED BY <1>1, <1>3, <1>6

LEMMA AcksPush ==
    ASSUME NEW a \in Seq(Nat), NEW b \in Nat, NEW s \in Nat, AcksOK(a, b, s),
           NEW n \in Nat, s <= n
    PROVE  /\ AcksOK(a, b, n)
           /\ Append(a, n) \in Seq(Nat) /\ Len(Append(a, n)) = Len(a) + 1
           /\ AcksOK(Append(a, n), b, n)
<1>1. AcksOK(a, b, n)
  BY DEF AcksOK
<1>0. Append(a, n) \in Seq(Nat) /\ Len(Append(a, n)) = Len(a) + 1
  BY AppendProperties
<1>2. PICK t \in Seq(Nat) : t = Append(a, n) /\ Len(t) = Len(a) + 1
  BY <1>0
<1>3. \A i \in DOMAIN t :
        /\ i \in Nat
        /\ \/ i \in DOMAIN a /\ t[i] = a[i] /\ i <= Len(a)
           \/ i = Len(a) + 1 /\ t[i] = n
  <2>1. /\ Len(a) \in Nat /\ DOMAIN t = 1 .. Len(a) + 1 /\ DOMAIN a = 1 .. Len(a)
        /\ \A i \in 1 .. Len(a) : t[i] = a[i]
        /\ t[Len(a) + 1] = n
    BY <1>2, AppendProperties
  <2> QED BY <2>1
<1>4. ASSUME NEW i \in DOMAIN t PROVE b <= t[i] /\ t[i] <= n
  <2>1. CASE i \in DOMAIN a /\ t[i] = a[i]
    BY <1>1, <2>1 DEF AcksOK
  <2>2. CASE t[i] = n
    BY <1>1, <2>2 DEF AcksOK
  <2> QED BY <1>3, <2>1, <2>2
<1>5. ASSUME NEW i \in DOMAIN t, NEW j \in DOMAIN t, i < j PROVE t[i] <= t[j]
  <2>1. CASE j \in DOMAIN a /\ t[j] = a[j] /\ j <= Len(a)
    <3>1. i \in Nat /\ j \in Nat /\ Len(a) \in Nat
      BY <1>3
    <3>2. i # Len(a) + 1
      BY <1>5, <2>1, <3>1
    <3>3. i \in DOMAIN a /\ t[i] = a[i]
      BY <1>3, <3>2
    <3> QED BY <1>5, <2>1, <3>3 DEF AcksOK
  <2>2. CASE t[j] = n
    BY <1>4, <2>2
  <2> QED BY <1>3, <2>1, <2>2
<1>6. AcksOK(t, b, n)
  BY <1>1, <1>4, <1>5 DEF AcksOK
<1> QED BY <1>1, <1>2, <1>6

LEMMA AcksTail ==
    ASSUME NEW a \in Seq(Nat), a # <<>>, NEW b \in Nat, NEW s \in Nat, AcksOK(a, b, s)
    PROVE  /\ Tail(a) \in Seq(Nat) /\ Len(Tail(a)) <= Len(a)
           /\ Head(a) \in Nat /\ b <= Head(a) /\ Head(a) <= s
           /\ AcksOK(Tail(a), Head(a), s)
<1>0. Tail(a) \in Seq(Nat) /\ Len(Tail(a)) <= Len(a)
  BY HeadTailProperties
<1>1. PICK t \in Seq(Nat) : t = Tail(a) /\ Len(t) <= Len(a)
  BY <1>0
<1>2. PICK n \in Nat : n = Head(a) /\ 1 \in DOMAIN a /\ a[1] = n
  OBVIOUS
<1>3. \A i \in DOMAIN t : i \in Nat /\ i > 0 /\ i + 1 \in DOMAIN a /\ t[i] = a[i + 1]
  BY <1>1
<1>4. b <= n /\ n <= s
  BY <1>2 DEF AcksOK
<1>5. \A i \in DOMAIN t : n <= t[i] /\ t[i] <= s
  BY <1>2, <1>3 DEF AcksOK
<1>6. ASSUME NEW i \in DOMAIN t, NEW j \in DOMAIN t, i < j PROVE t[i] <= t[j]
  <2>1. i + 1 < j + 1 /\ i + 1 \in DOMAIN a /\ j + 1 \in DOMAIN a
    BY <1>3, <1>6
  <2> QED BY <1>3, <2>1 DEF AcksOK
<1>7. AcksOK(t, n, s)
  BY <1>4, <1>5, <1>6 DEF AcksOK
<1> QED BY <1>1, <1>2, <1>4, <1>7

-----------------------------------------------------------------------------
(* What is owed to the next emission.                                      *)

Owed == owed(pendingOrig, pendingIDs, NoEvent)

\* A step accounts for everything that was accounted for, and for the event e.
Covers(e) ==
    Owed \cup named \cup dropped \cup ({e} \ {NoEvent}) \subseteq Owed' \cup named' \cup dropped'

LEMMA OwedIsTaken ==
    ASSUME EdgesInv
    PROVE  NothingIsUnattributed <=> applied \subseteq named \cup Owed \cup dropped
<1>1. ToSet(takePending(Timer)) = Owed
  BY TakePending, OriginFacts DEF EdgesInv, Owed, Timer
<1> QED BY <1>1 DEF NothingIsUnattributed

LEMMA OwedIsTakenNext ==
    ASSUME EdgesInv'
    PROVE  NothingIsUnattributed' <=> applied' \subseteq named' \cup Owed' \cup dropped'
<1>1. takePending(Timer)' = taken(pendingOrig', pendingIDs', Timer)
  BY Zenon DEF takePending, taken, Timer
<1>2. ToSet(taken(pendingOrig', pendingIDs', Timer)) = Owed'
  BY Taken, OriginFacts DEF EdgesInv, Owed, Timer
<1>3. ToSet(takePending(Timer))' = Owed'
  BY <1>1, <1>2 DEF ToSet
<1> QED BY <1>3 DEF NothingIsUnattributed

\* A step that covers the event of its transition leaves nothing unattributed.
LEMMA Attributed ==
    ASSUME EdgesInv, EdgesInv', NothingIsUnattributed, NEW e, Covers(e),
           applied' \subseteq applied \cup ({e} \ {NoEvent})
    PROVE  NothingIsUnattributed'
<1>1. applied \subseteq named \cup Owed \cup dropped
  BY OwedIsTaken
<1>2. applied' \subseteq named' \cup Owed' \cup dropped'
  BY <1>1 DEF Covers
<1> QED BY <1>2, OwedIsTakenNext

LEMMA QuietEdges ==
    ASSUME EdgesInv, UNCHANGED <<pendingOrig, pendingIDs, named, dropped>>
    PROVE  EdgesInv' /\ Covers(NoEvent)
BY DEF EdgesInv, Covers, Owed

LEMMA OwedShifts ==
    ASSUME NEW orig, NEW ids, NEW e
    PROVE  owed(orig, ids, NoEvent) \subseteq owed(orig, ids, e) \cup ({e} \ {NoEvent})
BY DEF owed

\* A deferred origin with a list of identifiers owes both.
LEMMA OwedOne ==
    ASSUME NEW o \in Origin, NEW ids \in Seq(EventID)
    PROVE  /\ <<o>> \in Seq(Origin) /\ Len(<<o>>) = 1
           /\ owed(<<o>>, ids, NoEvent)
                = ToSet(ids) \cup ToSet(o.contributing) \cup ({o.event} \ {NoEvent})
<1>1. <<o>> \in Seq(Origin) /\ Len(<<o>>) = 1 /\ <<o>> # <<>> /\ Head(<<o>>) = o
  OBVIOUS
<1> QED BY <1>1 DEF owed

LEMMA DeferCovers ==
    ASSUME EdgesInv, NEW o \in Origin, deferPatch(o), UNCHANGED <<named, dropped>>
    PROVE  EdgesInv' /\ Covers(o.event)
<1>1. PICK ids \in Seq(EventID) : pendingIDs' = ids /\ ToSet(ids) = Owed
  <2>0. pendingIDs \in Seq(EventID) /\ pendingOrig \in Seq(Origin)
    BY DEF EdgesInv
  <2>1. CASE pendingOrig = <<>>
    <3>1. pendingIDs' = pendingIDs \o <<>>
      BY <2>1, Zenon DEF deferPatch
    <3>2. pendingIDs' = pendingIDs
      BY <2>0, <3>1, ConcatEmptySeq
    <3> QED BY <2>0, <2>1, <3>2 DEF Owed, owed
  <2>2. CASE pendingOrig # <<>>
    <3>1. PICK prev \in Origin : prev = Head(pendingOrig)
      BY <2>0, <2>2
    <3>2. PICK own \in Seq(EventID) :
              /\ own = IF prev.event = NoEvent THEN <<>> ELSE <<prev.event>>
              /\ ToSet(own) = {prev.event} \ {NoEvent}
      <4>1. CASE prev.event = NoEvent
        <5>1. <<>> \in Seq(EventID) /\ ToSet(<<>>) = {}
          BY ToSetFacts
        <5> QED BY <4>1, <5>1
      <4>2. CASE prev.event # NoEvent
        <5>1. prev.event \in EventID
          BY <4>2, OriginFacts
        <5>2. <<prev.event>> \in Seq(EventID) /\ ToSet(<<prev.event>>) = {prev.event}
          BY <5>1, ToSetFacts
        <5> QED BY <4>2, <5>2
      <4> QED BY <4>1, <4>2
    <3>3. pendingIDs' = pendingIDs \o (own \o prev.contributing)
      BY <2>2, <3>1, <3>2, Zenon DEF deferPatch
    <3>4. prev.contributing \in Seq(EventID)
      BY OriginFacts
    <3>5. PICK more \in Seq(EventID) :
              /\ more = own \o prev.contributing
              /\ ToSet(more) = ToSet(own) \cup ToSet(prev.contributing)
      <4>1. /\ own \o prev.contributing \in Seq(EventID)
            /\ ToSet(own \o prev.contributing) = ToSet(own) \cup ToSet(prev.contributing)
        BY <3>4, ToSetConcat
      <4> QED BY <4>1
    <3>6. /\ pendingIDs \o more \in Seq(EventID)
          /\ ToSet(pendingIDs \o more) = ToSet(pendingIDs) \cup ToSet(more)
      BY <2>0, ToSetConcat
    <3>7. Owed = ToSet(pendingIDs) \cup ToSet(prev.contributing)
                    \cup ({prev.event} \ {NoEvent})
      BY <2>2, <3>1 DEF Owed, owed
    <3> QED BY <3>2, <3>3, <3>5, <3>6, <3>7
  <2> QED BY <2>1, <2>2
<1>2. pendingOrig' = <<o>>
  BY DEF deferPatch
<1>3. EdgesInv'
  BY <1>1, <1>2, OwedOne DEF EdgesInv
<1>4. Owed' = ToSet(ids) \cup ToSet(o.contributing) \cup ({o.event} \ {NoEvent})
  BY <1>1, <1>2, OwedOne DEF Owed
<1> QED BY <1>1, <1>3, <1>4 DEF Covers

\* redefer owes, or drops, what it was given.
LEMMA RedeferCovers ==
    ASSUME EdgesInv, NEW o \in Origin, NEW c \in Seq(EventID), redefer(o, c), named' = named
    PROVE  /\ EdgesInv'
           /\ dropped \cup ToSet(c) \cup ToSet(o.contributing) \cup ({o.event} \ {NoEvent})
                \subseteq Owed' \cup dropped'
<1>1. PICK ids \in Seq(EventID) : pendingIDs' = ids
  <2>1. PICK n \in 0 .. Len(c) :
            n = IF Len(c) > Ceiling THEN Ceiling ELSE Len(c)
    BY LimitFacts
  <2>2. pendingIDs' = SubSeq(c, 1, n)
    BY <2>1, Zenon DEF redefer
  <2>3. SubSeq(c, 1, n) \in Seq(EventID)
    BY <2>1
  <2> QED BY <2>2, <2>3
<1>2. /\ pendingOrig' = <<o>>
      /\ dropped' = dropped \cup (ToSet(c) \ (ToSet(ids) \cup ToSet(o.contributing) \cup {o.event}))
  BY <1>1, Zenon DEF redefer
<1>3. ToSet(c) \subseteq EventID
  BY ToSetFacts
<1>4. EdgesInv'
  BY <1>1, <1>2, <1>3, OwedOne DEF EdgesInv
<1>5. Owed' = ToSet(ids) \cup ToSet(o.contributing) \cup ({o.event} \ {NoEvent})
  BY <1>1, <1>2, OwedOne DEF Owed
<1>6. NoEvent \notin EventID
  BY OriginFacts
<1> QED BY <1>2, <1>3, <1>4, <1>5, <1>6

-----------------------------------------------------------------------------
(* Emission.                                                               *)

LEMMA PageMarkup == \A p \in Page : \A f \in Fragment : p[f] \in Markup
<1> SUFFICES ASSUME NEW p \in Page, NEW f \in Fragment PROVE p[f] \in Markup
  OBVIOUS
<1>1. p = [g \in Fragment |-> p[g]]
  BY PageAssumption
<1>2. f \in DOMAIN p
  BY <1>1
<1>3. p[f] \in Range(p)
  BY <1>2 DEF Range
<1> QED BY <1>3 DEF Markup

LEMMA PageType == \A p \in Page : p \in Pages
<1> SUFFICES ASSUME NEW p \in Page PROVE p \in Pages
  OBVIOUS
<1>1. p = [f \in Fragment |-> p[f]]
  BY PageAssumption
<1> QED BY <1>1, PageMarkup DEF Pages

LEMMA OverType ==
    ASSUME NEW old \in Pages, NEW u \in Updates
    PROVE  over(old, u) \in Pages
<1>1. PICK S \in SUBSET Fragment : u \in [S -> Markup]
  BY DEF Updates
<1>2. ASSUME NEW f \in Fragment
      PROVE  (IF f \in DOMAIN u THEN u[f] ELSE old[f]) \in Markup \cup {NoMarkup}
  BY <1>1 DEF Pages
<1> QED BY <1>2 DEF over, Pages

LEMMA OverUpdates ==
    ASSUME NEW old, NEW u \in Updates
    PROVE  \A r \in DOMAIN u : over(old, u)[r] = u[r]
<1>1. DOMAIN u \subseteq Fragment
  BY DEF Updates
<1> QED BY <1>1 DEF over

\* A frame was sent; nothing was.
frameOf(kind, n, from, through, u, p) ==
    [kind |-> kind, seq |-> n, from |-> from, through |-> through, updates |-> u, page |-> p]

Pushed(kind, u, from, through) ==
    /\ serverSeq' = serverSeq + 1
    /\ hashes' = over(hashes, u)
    /\ wire' = Append(wire, frameOf(kind, serverSeq + 1, from, through, u, over(hashes, u)))
    /\ lastSnapshotSeq' = IF kind = "snapshot" THEN serverSeq + 1 ELSE lastSnapshotSeq
    /\ ranges' = IF from = 0 THEN ranges ELSE ranges \cup {<<from, through>>}

NotSent == UNCHANGED <<hashes, wire, serverSeq, lastSnapshotSeq, ranges>>

LEMMA SendOKEffect ==
    ASSUME EdgesInv, NEW kind, NEW o \in Origin, NEW u, NEW from, NEW through,
           sendOK(kind, o, u, from, through)
    PROVE  /\ EdgesInv' /\ Covers(o.event)
           /\ Pushed(kind, u, from, through)
           /\ dirty' = {} /\ refused' = refused
<1>1. Pushed(kind, u, from, through) /\ dirty' = {} /\ refused' = refused
  BY DEF sendOK, Pushed, frameOf
<1>2. PICK c \in Seq(EventID) :
          /\ c = unionEdges(o, takePending(o))
          /\ ToSet(c) = (ToSet(o.contributing) \cup ToSet(takePending(o))) \ {o.event}
  BY TakePending, UnionEdges DEF EdgesInv
<1>3. /\ named' = named \cup ToSet(c) \cup ({o.event} \ {NoEvent})
      /\ pendingOrig' = <<>> /\ pendingIDs' = <<>> /\ dropped' = dropped
  BY <1>2, Zenon DEF sendOK
<1>4. ToSet(c) \subseteq EventID /\ {o.event} \ {NoEvent} \subseteq EventID
  BY ToSetFacts, OriginFacts
<1>5. EdgesInv'
  BY <1>3, <1>4 DEF EdgesInv
<1>6. ToSet(takePending(o)) = owed(pendingOrig, pendingIDs, o.event)
  BY TakePending DEF EdgesInv
<1>7. Owed \subseteq ToSet(takePending(o)) \cup ({o.event} \ {NoEvent})
  BY <1>6, OwedShifts DEF Owed
<1>8. NoEvent \notin ToSet(takePending(o))
  BY TakePending, ToSetFacts, OriginFacts DEF EdgesInv
<1>9. ToSet(takePending(o)) \subseteq ToSet(c) \cup ({o.event} \ {NoEvent})
  BY <1>2, <1>8
<1> QED BY <1>1, <1>3, <1>5, <1>7, <1>9 DEF Covers

LEMMA SendInvalidEffect ==
    ASSUME EdgesInv, refused \in BOOLEAN, NEW kind, NEW o \in Origin, NEW u,
           sendInvalid(kind, o, u)
    PROVE  /\ EdgesInv' /\ Covers(o.event)
           /\ NotSent
           /\ dirty' = DOMAIN u /\ refused' \in BOOLEAN
<1>1. NotSent /\ dirty' = DOMAIN u /\ named' = named
  BY DEF sendInvalid, NotSent
<1>2. refused' \in BOOLEAN
  BY Zenon DEF sendInvalid
<1>3. PICK c \in Seq(EventID) :
          /\ c = unionEdges(o, takePending(o))
          /\ ToSet(c) = (ToSet(o.contributing) \cup ToSet(takePending(o))) \ {o.event}
  BY TakePending, UnionEdges DEF EdgesInv
<1>4. PICK r \in Origin : /\ r = [o EXCEPT !.contributing = c]
                          /\ r.event = o.event /\ r.contributing = c
  <2>1. /\ [o EXCEPT !.contributing = c] \in Origin
        /\ [o EXCEPT !.contributing = c].event = o.event
        /\ [o EXCEPT !.contributing = c].contributing = c
    BY DEF Origin
  <2> QED BY <2>1
<1>5. redefer(r, takePending(o))
  BY <1>3, <1>4, Zenon DEF sendInvalid
<1>6. takePending(o) \in Seq(EventID)
      /\ ToSet(takePending(o)) = owed(pendingOrig, pendingIDs, o.event)
  BY TakePending DEF EdgesInv
<1>7. /\ EdgesInv'
      /\ dropped \cup ToSet(takePending(o)) \cup ({o.event} \ {NoEvent})
            \subseteq Owed' \cup dropped'
  BY <1>1, <1>4, <1>5, <1>6, RedeferCovers
<1>8. Owed \subseteq ToSet(takePending(o)) \cup ({o.event} \ {NoEvent})
  BY <1>6, OwedShifts DEF Owed
<1> QED BY <1>1, <1>2, <1>7, <1>8 DEF Covers

\* An emission of a patch for event e, or none: what is still stale is dirty.
Emitted(e) ==
    /\ EdgesInv' /\ Covers(e)
    /\ refused' \in BOOLEAN
    /\ dirty' \subseteq Fragment /\ failed' \subseteq Fragment /\ panics' \in Nat
    /\ Marked'
    /\ NotSent \/ \E u \in Updates : Pushed("patch", u, 0, 0)

\* The failures of a pass are regions, and are counted.
LEMMA FailureTypes ==
    ASSUME failed \subseteq Fragment, panics \in Nat,
           NEW c \in SUBSET Fragment, NEW x \in SUBSET Fragment, NEW y \in SUBSET Fragment,
           noteRenderFailures(c, x, y)
    PROVE  failed' \subseteq Fragment /\ panics' \in Nat
<1>1. IsFiniteSet(x) /\ IsFiniteSet(y)
  BY PageAssumption, FS_Subset
<1>2. Cardinality(x) \in Nat /\ Cardinality(y) \in Nat
  BY <1>1, FS_CardinalityType
<1> QED BY <1>2 DEF noteRenderFailures

\* A pass over c in which x fail: its updates show the current page, and what it
\* leaves stale failed now or before.
LEMMA RenderPassFacts ==
    ASSUME page' \in Page, hashes \in Pages,
           NEW c \in SUBSET Fragment, NEW x \in SUBSET c, NEW y, NEW all \in BOOLEAN,
           noteRenderFailures(c, x, y),
           \A f \in Fragment : page'[f] # hashes[f] => f \in c \cup failed
    PROVE  /\ renderPass(c, x, all) \in Updates
           /\ \A f \in DOMAIN renderPass(c, x, all) : renderPass(c, x, all)[f] = page'[f]
           /\ \A f \in Fragment :
                 page'[f] # hashes[f] => f \in DOMAIN renderPass(c, x, all) \cup failed'
<1>1. page' \in Pages /\ \A f \in Fragment : page'[f] \in Markup
  BY PageType, PageMarkup
<1> DEFINE S == {g \in c \ x : all \/ page'[g] # hashes[g]}
<1>2. renderPass(c, x, all) = [f \in S |-> page'[f]]
  BY DEF renderPass
<1>3. S \in SUBSET Fragment
  OBVIOUS
<1>4. [f \in S |-> page'[f]] \in [S -> Markup]
  BY <1>1, <1>3
<1>5. failed' = (failed \ c) \cup x
  BY DEF noteRenderFailures
<1>6. \A f \in Fragment : page'[f] # hashes[f] => f \in S \cup failed'
  BY <1>5
<1> HIDE DEF S
<1>7. [f \in S |-> page'[f]] \in Updates
  BY <1>3, <1>4 DEF Updates
<1> QED BY <1>2, <1>6, <1>7

\* What is stale after the updates were sent, or were not, is owed or failed.
LEMMA SentIsMarked ==
    ASSUME NEW u \in Updates, hashes' = over(hashes, u),
           \A f \in DOMAIN u : u[f] = page'[f],
           \A f \in Fragment : page'[f] # hashes[f] => f \in DOMAIN u \cup failed'
    PROVE  Marked'
<1>1. ASSUME NEW f \in Fragment, page'[f] # hashes'[f] PROVE f \in failed'
  <2>1. f \notin DOMAIN u
    BY <1>1, OverUpdates
  <2>2. hashes'[f] = hashes[f]
    BY <2>1 DEF over
  <2> QED BY <1>1, <2>1, <2>2
<1> QED BY <1>1 DEF Marked

LEMMA EmitEffect ==
    ASSUME EdgesInv, refused \in BOOLEAN, page' \in Page, hashes \in Pages,
           failed \subseteq Fragment, panics \in Nat,
           NEW o \in Origin, NEW d \in SUBSET Fragment,
           \A f \in Fragment : page'[f] # hashes[f] => f \in d \cup failed,
           emit(o, d)
    PROVE  Emitted(o.event)
<1>0. PICK all \in BOOLEAN : \E failing \in SUBSET (IF all THEN Fragment ELSE d) :
         LET considered == IF all THEN Fragment ELSE d
             updates == renderPass(considered, failing, all)
         IN  /\ noteRenderFailures(considered, failing, IF all THEN failing \cap d ELSE {})
             /\ IF DOMAIN updates = {}
                THEN /\ redefer(o, takePending(o))
                     /\ dirty' = {}
                     /\ UNCHANGED <<hashes, wire, serverSeq, lastSnapshotSeq, named, ranges,
                                    oversized, refused>>
                ELSE sendOK("patch", o, updates, 0, 0) \/ sendInvalid("patch", o, updates)
  BY Zenon DEF emit
<1>a. PICK c \in SUBSET Fragment : c = (IF all THEN Fragment ELSE d) /\ d \subseteq c
  OBVIOUS
<1>b. PICK x \in SUBSET c :
         LET updates == renderPass(c, x, all)
         IN  /\ noteRenderFailures(c, x, IF all THEN x \cap d ELSE {})
             /\ IF DOMAIN updates = {}
                THEN /\ redefer(o, takePending(o))
                     /\ dirty' = {}
                     /\ UNCHANGED <<hashes, wire, serverSeq, lastSnapshotSeq, named, ranges,
                                    oversized, refused>>
                ELSE sendOK("patch", o, updates, 0, 0) \/ sendInvalid("patch", o, updates)
  BY <1>0, <1>a, Zenon
<1>c. PICK y \in SUBSET Fragment : y = IF all THEN x \cap d ELSE {}
  OBVIOUS
<1>d. noteRenderFailures(c, x, y)
  BY <1>b, <1>c, Zenon
<1>1. PICK u : u = renderPass(c, x, all)
  OBVIOUS
<1>2. /\ u \in Updates
      /\ \A f \in DOMAIN u : u[f] = page'[f]
      /\ \A f \in Fragment : page'[f] # hashes[f] => f \in DOMAIN u \cup failed'
  <2>1. \A f \in Fragment : page'[f] # hashes[f] => f \in c \cup failed
    BY <1>a
  <2> QED BY <1>1, <1>d, <2>1, RenderPassFacts
<1>3. DOMAIN u \subseteq Fragment
  BY <1>2 DEF Updates
<1>e. failed' \subseteq Fragment /\ panics' \in Nat
  BY <1>d, FailureTypes
<1>4. CASE /\ DOMAIN u = {}
           /\ redefer(o, takePending(o))
           /\ dirty' = {}
           /\ UNCHANGED <<hashes, wire, serverSeq, lastSnapshotSeq, named, ranges,
                          oversized, refused>>
  <2>1. takePending(o) \in Seq(EventID)
        /\ ToSet(takePending(o)) = owed(pendingOrig, pendingIDs, o.event)
    BY TakePending DEF EdgesInv
  <2>2. /\ EdgesInv'
        /\ dropped \cup ToSet(takePending(o)) \cup ({o.event} \ {NoEvent})
              \subseteq Owed' \cup dropped'
    BY <1>4, <2>1, RedeferCovers
  <2>3. Owed \subseteq ToSet(takePending(o)) \cup ({o.event} \ {NoEvent})
    BY <2>1, OwedShifts DEF Owed
  <2>4. Covers(o.event)
    BY <1>4, <2>2, <2>3 DEF Covers
  <2>5. Marked'
    BY <1>2, <1>4 DEF Marked
  <2>6. NotSent /\ refused' \in BOOLEAN /\ dirty' \subseteq Fragment
    BY <1>4 DEF NotSent
  <2> QED BY <1>e, <2>2, <2>4, <2>5, <2>6 DEF Emitted
<1>5. CASE sendOK("patch", o, u, 0, 0)
  <2>1. /\ EdgesInv' /\ Covers(o.event) /\ Pushed("patch", u, 0, 0)
        /\ dirty' = {} /\ refused' = refused
    BY <1>5, SendOKEffect
  <2>2. hashes' = over(hashes, u)
    BY <2>1 DEF Pushed
  <2>3. Marked'
    BY <1>2, <2>2, SentIsMarked
  <2> QED BY <1>2, <1>e, <2>1, <2>3 DEF Emitted
<1>6. CASE sendInvalid("patch", o, u)
  <2>1. /\ EdgesInv' /\ Covers(o.event) /\ NotSent
        /\ dirty' = DOMAIN u /\ refused' \in BOOLEAN
    BY <1>6, SendInvalidEffect
  <2>2. hashes' = hashes
    BY <2>1 DEF NotSent
  <2>3. Marked'
    BY <1>2, <2>1, <2>2 DEF Marked
  <2> QED BY <1>3, <1>e, <2>1, <2>3 DEF Emitted
<1> QED BY <1>1, <1>b, <1>4, <1>5, <1>6, Zenon

LEMMA MessageFacts ==
    /\ \A o \in Origin : \A k \in {"slow", "recovered", "event", "effect"} :
          [kind |-> k, origin |-> o] \in Message
    /\ \A n \in Nat : [kind |-> "resync", last |-> n] \in Message
    /\ \A m \in Message : m.kind # "resync" => m.origin \in Origin
    /\ \A m \in Message : m.kind = "resync" => m.last \in Nat
BY DEF Message

LEMMA PostType ==
    ASSUME NEW mb \in Seq(Message), Len(mb) <= MailboxDepth, NEW m \in Message
    PROVE  post(mb, m) \in Seq(Message) /\ Len(post(mb, m)) <= MailboxDepth
<1>1. CASE Len(mb) < MailboxDepth
  <2>1. Append(mb, m) \in Seq(Message) /\ Len(Append(mb, m)) = Len(mb) + 1
    BY AppendProperties
  <2> QED BY <1>1, <2>1, LimitFacts DEF post
<1>2. CASE ~(Len(mb) < MailboxDepth)
  BY <1>2 DEF post
<1> QED BY <1>1, <1>2

\* A handler marked d, left the mailbox mb and emits: whatever stage of
\* backpressure it meets, the patch is sent or everything is still owed.
LEMMA EmitPatchEffect ==
    ASSUME EdgesInv, FlagsInv, page' \in Page, hashes \in Pages,
           failed \subseteq Fragment, panics \in Nat,
           NEW o \in Origin, NEW d \in SUBSET Fragment,
           \A f \in Fragment : page'[f] # hashes[f] => f \in d \cup failed,
           NEW forced, NEW held \in BOOLEAN, NEW slow \in BOOLEAN,
           NEW mb \in Seq(Message), Len(mb) <= MailboxDepth,
           emitPatch(o, forced, d, held, slow, mb)
    PROVE  /\ Emitted(o.event)
           /\ mailbox' \in Seq(Message) /\ Len(mailbox') <= MailboxDepth
           /\ FlagsInv'
<1>0. refused \in BOOLEAN /\ fullSince \in BOOLEAN /\ full \in BOOLEAN
  <2>1. refused \in BOOLEAN /\ fullSince \in BOOLEAN
    BY DEF FlagsInv
  <2>2. full \in BOOLEAN
    BY DEF full
  <2> QED BY <2>1, <2>2, Zenon
<1>1. ASSUME defer(o, d) PROVE Emitted(o.event) /\ refused' = refused
  <2>1. /\ deferPatch(o) /\ dirty' = d
        /\ UNCHANGED <<hashes, panics, failed, wire, serverSeq, lastSnapshotSeq, ranges,
                       refused, named, dropped>>
    BY <1>1 DEF defer, sent
  <2>2. EdgesInv' /\ Covers(o.event)
    BY <2>1, DeferCovers
  <2>3. Marked'
    BY <2>1 DEF Marked
  <2>4. NotSent /\ refused' \in BOOLEAN /\ dirty' \subseteq Fragment
    BY <1>0, <2>1 DEF NotSent
  <2> QED BY <2>1, <2>2, <2>3, <2>4 DEF Emitted
<1>2. [kind |-> "slow", origin |-> Timer] \in Message
  BY MessageFacts, OriginFacts
<1>3. CASE /\ defer(o, d)
           /\ slowNotified' = TRUE
           /\ mailbox' = IF slow THEN mb ELSE post(mb, [kind |-> "slow", origin |-> Timer])
           /\ coalesceHeld' = held
           /\ noteFullness
  <2>1. mailbox' \in Seq(Message) /\ Len(mailbox') <= MailboxDepth
    BY <1>2, <1>3, PostType
  <2>2. FlagsInv'
    BY <1>0, <1>1, <1>3, Zenon DEF FlagsInv, noteFullness
  <2> QED BY <1>1, <1>3, <2>1, <2>2
<1>4. CASE /\ defer(o, d)
           /\ coalesceHeld' = TRUE
           /\ noteFullness
           /\ slowNotified' = slow
           /\ mailbox' = mb
  <2>1. FlagsInv'
    BY <1>0, <1>1, <1>4, Zenon DEF FlagsInv, noteFullness
  <2> QED BY <1>1, <1>4, <2>1
<1>5. CASE /\ emit(o, d)
           /\ coalesceHeld' = FALSE
           /\ fullSince' = IF forced THEN full ELSE fullSince
           /\ slowNotified' = slow
           /\ mailbox' = mb
  <2>1. Emitted(o.event)
    BY <1>0, <1>5, EmitEffect
  <2>2. fullSince' \in BOOLEAN
    BY <1>0, <1>5, Zenon
  <2>3. refused' \in BOOLEAN
    BY <2>1 DEF Emitted
  <2>4. FlagsInv'
    BY <1>5, <2>2, <2>3, Zenon DEF FlagsInv
  <2> QED BY <1>5, <2>1, <2>4
<1> QED BY <1>3, <1>4, <1>5, Zenon DEF emitPatch

-----------------------------------------------------------------------------
(* What was sent, on the wire and at the server.                           *)

LEMMA NotSentKeeps ==
    ASSUME SentInv, WireInv, NotSent, UNCHANGED client
    PROVE  SentInv' /\ WireInv'
<1>1. SentInv'
  BY DEF SentInv, NotSent, RangesAreDisjoint
<1>2. WireInv'
  BY DEF WireInv, NotSent, client
<1> QED BY <1>1, <1>2

LEMMA PushedPatch ==
    ASSUME SentInv, WireInv, ClientInv, hashes \in Pages, UNCHANGED client,
           NEW u \in Updates, Pushed("patch", u, 0, 0)
    PROVE  SentInv' /\ WireInv' /\ hashes' \in Pages
<1>1. PICK p \in Pages : p = over(hashes, u)
  BY OverType
<1>2. serverSeq \in Nat /\ seq \in Nat
  BY DEF SentInv, ClientInv
<1>3. PICK f \in Frame : f = frameOf("patch", serverSeq + 1, 0, 0, u, p)
  <2>1. serverSeq + 1 \in Nat /\ 0 \in Nat
    BY <1>2
  <2>2. frameOf("patch", serverSeq + 1, 0, 0, u, p) \in Frame
    BY <2>1 DEF Frame, frameOf
  <2> QED BY <2>2
<1>4. /\ f.seq = serverSeq + 1 /\ f.page = p /\ f.kind = "patch"
      /\ f.updates = u /\ f.from = 0
  BY <1>3 DEF frameOf
<1>5. WellFormed(f)
  BY <1>1, <1>4, OverUpdates DEF WellFormed
<1>6. /\ Append(wire, f) \in Seq(Frame \cup {limited})
      /\ WireOK(Append(wire, f), seq, expected, serverSeq + 1, p)
  BY <1>1, <1>2, <1>4, <1>5, WirePush DEF WireInv
<1>7. wire' = Append(wire, f) /\ serverSeq' = serverSeq + 1 /\ hashes' = p
  BY <1>1, <1>3 DEF Pushed
<1>8. WireInv'
  BY <1>6, <1>7 DEF WireInv, client
<1>9. ranges' = ranges /\ lastSnapshotSeq' = lastSnapshotSeq
  BY DEF Pushed
<1>10. SentInv'
  BY <1>2, <1>7, <1>9 DEF SentInv, RangesAreDisjoint
<1> QED BY <1>7, <1>8, <1>10

\* A snapshot is the first frame, or declares a range that begins after the last
\* snapshot and ends with the last sequence.
LEMMA PushedSnapshot ==
    ASSUME SentInv, WireInv, ClientInv, hashes \in Pages, UNCHANGED client,
           NEW u \in Updates, NEW from \in Nat, NEW through \in Nat,
           Pushed("snapshot", u, from, through),
           \/ from = 0 /\ serverSeq = 0
           \/ lastSnapshotSeq < from /\ from <= through /\ through = serverSeq
    PROVE  SentInv' /\ WireInv' /\ hashes' \in Pages
<1>1. PICK p \in Pages : p = over(hashes, u)
  BY OverType
<1>2. serverSeq \in Nat /\ seq \in Nat /\ lastSnapshotSeq \in Nat
  BY DEF SentInv, ClientInv
<1>3. PICK f \in Frame : f = frameOf("snapshot", serverSeq + 1, from, through, u, p)
  <2>1. serverSeq + 1 \in Nat
    BY <1>2
  <2>2. frameOf("snapshot", serverSeq + 1, from, through, u, p) \in Frame
    BY <2>1 DEF Frame, frameOf
  <2> QED BY <2>2
<1>4. /\ f.seq = serverSeq + 1 /\ f.page = p /\ f.kind = "snapshot"
      /\ f.updates = u /\ f.from = from /\ f.through = through
  BY <1>3 DEF frameOf
<1>5. WellFormed(f)
  <2>1. \A r \in DOMAIN f.updates : f.page[r] = f.updates[r]
    BY <1>1, <1>4, OverUpdates
  <2>2. IF f.from = 0 THEN f.seq = 1 ELSE f.through = f.seq - 1
    BY <1>2, <1>4
  <2> QED BY <1>4, <2>1, <2>2 DEF WellFormed
<1>6. /\ Append(wire, f) \in Seq(Frame \cup {limited})
      /\ WireOK(Append(wire, f), seq, expected, serverSeq + 1, p)
  <2>1. /\ wire \in Seq(Frame \cup {limited})
        /\ WireOK(wire, seq, expected, serverSeq, hashes)
    BY DEF WireInv
  <2>2. f.seq = serverSeq + 1 /\ f.page = over(hashes, f.updates)
    BY <1>1, <1>4
  <2>3. /\ Append(wire, f) \in Seq(Frame \cup {limited})
        /\ WireOK(Append(wire, f), seq, expected, serverSeq + 1, f.page)
    BY <1>2, <1>5, <2>1, <2>2, WirePush
  <2> QED BY <1>4, <2>3
<1>7. wire' = Append(wire, f) /\ serverSeq' = serverSeq + 1 /\ hashes' = p
  BY <1>1, <1>3 DEF Pushed
<1>8. WireInv'
  BY <1>6, <1>7 DEF WireInv, client
<1>9. lastSnapshotSeq' = serverSeq + 1
  BY DEF Pushed
<1>10. CASE from = 0
  <2>1. ranges' = ranges
    BY <1>10 DEF Pushed
  <2>2. \A r \in ranges : r[2] < serverSeq + 1
    BY <1>2 DEF SentInv
  <2>3. SentInv'
    BY <1>2, <1>7, <1>9, <2>1, <2>2 DEF SentInv, RangesAreDisjoint
  <2> QED BY <1>7, <1>8, <2>3
<1>11. CASE from # 0
  <2>0. lastSnapshotSeq < from /\ from <= through /\ through = serverSeq
    BY <1>11
  <2>1. ranges' = ranges \cup {<<from, through>>}
    BY <1>11 DEF Pushed
  <2>2. \A r \in ranges : r[1] \in Nat /\ r[2] \in Nat /\ r[2] < lastSnapshotSeq
    BY DEF SentInv
  <2>3. \A r \in ranges : r[2] < serverSeq + 1 /\ r[2] < from
    BY <1>2, <2>0, <2>2
  <2>4. \A r \in ranges' : r \in Nat \X Nat /\ r[2] < serverSeq + 1
    BY <1>2, <2>0, <2>1, <2>3 DEF SentInv
  <2>5. RangesAreDisjoint'
    BY <2>1, <2>3 DEF RangesAreDisjoint, SentInv
  <2>6. SentInv'
    BY <1>2, <1>7, <1>9, <2>4, <2>5 DEF SentInv
  <2> QED BY <1>7, <1>8, <2>6
<1> QED BY <1>10, <1>11

LEMMA EmittedKeeps ==
    ASSUME ViewInv, SentInv, WireInv, ClientInv, UNCHANGED client, page' \in Page,
           NEW e, Emitted(e)
    PROVE  ViewInv' /\ SentInv' /\ WireInv' /\ EdgesInv' /\ Covers(e) /\ Marked'
<1>1. /\ EdgesInv' /\ Covers(e) /\ Marked'
      /\ dirty' \subseteq Fragment /\ failed' \subseteq Fragment /\ panics' \in Nat
  BY DEF Emitted
<1>2. SentInv' /\ WireInv' /\ hashes' \in Pages
  <2>1. CASE NotSent
    BY <2>1, NotSentKeeps DEF ViewInv, NotSent
  <2>2. ASSUME NEW u \in Updates, Pushed("patch", u, 0, 0)
        PROVE  SentInv' /\ WireInv' /\ hashes' \in Pages
    BY <2>2, PushedPatch DEF ViewInv
  <2> QED BY <2>1, <2>2 DEF Emitted
<1> QED BY <1>1, <1>2 DEF ViewInv

\* A snapshot of the regions that can be rendered is sent or refused.
LEMMA SnapshotEffect ==
    ASSUME ViewInv, EdgesInv, FlagsInv, SentInv, WireInv, ClientInv, UNCHANGED client,
           page' = page, NEW o \in Origin, NEW from \in Nat, NEW through \in Nat,
           \/ from = 0 /\ serverSeq = 0
           \/ lastSnapshotSeq < from /\ from <= through /\ through = serverSeq,
           emitSnapshot(o, from, through)
    PROVE  /\ ViewInv' /\ EdgesInv' /\ Covers(o.event) /\ SentInv' /\ WireInv'
           /\ refused' \in BOOLEAN /\ Marked'
<1>1. PICK x \in SUBSET Fragment :
          /\ noteRenderFailures(Fragment, x, {})
          /\ \/ sendOK("snapshot", o, renderPass(Fragment, x, TRUE), from, through)
             \/ sendInvalid("snapshot", o, renderPass(Fragment, x, TRUE))
  BY Zenon DEF emitSnapshot
<1>2. PICK u : u = renderPass(Fragment, x, TRUE)
  OBVIOUS
<1>3. page' \in Page /\ hashes \in Pages /\ refused \in BOOLEAN
  BY DEF ViewInv, FlagsInv
<1>4. /\ u \in Updates
      /\ \A f \in DOMAIN u : u[f] = page'[f]
      /\ \A f \in Fragment : page'[f] # hashes[f] => f \in DOMAIN u \cup failed'
  <2>1. /\ \A f \in Fragment : page'[f] # hashes[f] => f \in Fragment \cup failed
        /\ Fragment \in SUBSET Fragment /\ TRUE \in BOOLEAN
    OBVIOUS
  <2> QED BY <1>1, <1>2, <1>3, <2>1, RenderPassFacts
<1>5. failed' \subseteq Fragment /\ panics' \in Nat
  <2>1. Fragment \in SUBSET Fragment /\ {} \in SUBSET Fragment
    OBVIOUS
  <2> QED BY <1>1, <2>1, FailureTypes DEF ViewInv
<1>6. DOMAIN u \subseteq Fragment
  BY <1>4 DEF Updates
<1>7. CASE sendOK("snapshot", o, u, from, through)
  <2>1. /\ EdgesInv' /\ Covers(o.event) /\ Pushed("snapshot", u, from, through)
        /\ dirty' = {} /\ refused' = refused
    BY <1>7, SendOKEffect
  <2>2. SentInv' /\ WireInv' /\ hashes' \in Pages
    BY <1>3, <1>4, <2>1, PushedSnapshot
  <2>3. Marked'
    <3>1. hashes' = over(hashes, u)
      BY <2>1 DEF Pushed
    <3> QED BY <1>4, <3>1, SentIsMarked
  <2>4. ViewInv'
    BY <1>3, <1>5, <2>1, <2>2 DEF ViewInv
  <2> QED BY <1>3, <2>1, <2>2, <2>3, <2>4
<1>8. CASE sendInvalid("snapshot", o, u)
  <2>1. /\ EdgesInv' /\ Covers(o.event) /\ NotSent
        /\ dirty' = DOMAIN u /\ refused' \in BOOLEAN
    BY <1>3, <1>8, SendInvalidEffect
  <2>2. SentInv' /\ WireInv'
    BY <2>1, NotSentKeeps
  <2>3. hashes' = hashes
    BY <2>1 DEF NotSent
  <2>4. Marked'
    BY <1>4, <2>1, <2>3 DEF Marked
  <2>5. ViewInv'
    BY <1>3, <1>5, <1>6, <2>1, <2>3 DEF ViewInv
  <2> QED BY <2>1, <2>2, <2>4, <2>5
<1> QED BY <1>1, <1>2, <1>7, <1>8, Zenon

-----------------------------------------------------------------------------
(* The handlers of the actor.                                              *)

LEMMA PanicsClose ==
    ASSUME ClosedInv, notePanic
    PROVE  ClosedInv'
BY DEF ClosedInv, notePanic

\* The whole invariant from its parts.
LEMMA Reassemble ==
    ASSUME SessionInv, ViewInv', FlagsInv', EdgesInv', SentInv', MailInv', AcksInv', WireInv',
           ClientInv', ClosedInv', serverSeq' > 0 => Marked',
           NEW e, Covers(e), applied' \subseteq applied \cup ({e} \ {NoEvent})
    PROVE  SessionInv'
<1>1. NothingIsUnattributed'
  BY Attributed DEF SessionInv
<1> QED BY <1>1 DEF SessionInv

LEMMA ClientStays ==
    ASSUME ClientInv, UNCHANGED client
    PROVE  ClientInv'
BY DEF ClientInv, ClientShowsWhatWasSent, client

LEMMA AcksStay ==
    ASSUME AcksInv, UNCHANGED <<acks, acked, seq>>
    PROVE  AcksInv'
BY DEF AcksInv

\* A step that touches neither the view nor what is owed.
LEMMA ServerStays ==
    ASSUME SessionInv, UNCHANGED <<view, deferral, slowNotified, fullSince, sent>>
    PROVE  /\ ViewInv' /\ FlagsInv' /\ EdgesInv' /\ SentInv' /\ Covers(NoEvent)
           /\ serverSeq' > 0 => Marked'
<1>1. ViewInv' /\ SentInv' /\ (serverSeq' > 0 => Marked')
  BY DEF SessionInv, ViewInv, SentInv, Marked, RangesAreDisjoint, view, sent
<1>2. FlagsInv'
  BY DEF SessionInv, FlagsInv, deferral, sent
<1>3. EdgesInv' /\ Covers(NoEvent)
  BY QuietEdges DEF SessionInv, deferral, sent
<1> QED BY <1>1, <1>2, <1>3

LEMMA HeadOfMailbox ==
    ASSUME MailInv, mailbox # <<>>
    PROVE  /\ Head(mailbox) \in Message
           /\ Tail(mailbox) \in Seq(Message) /\ Len(Tail(mailbox)) <= MailboxDepth
<1>1. /\ Head(mailbox) \in Message /\ Tail(mailbox) \in Seq(Message)
      /\ Len(Tail(mailbox)) = Len(mailbox) - 1 /\ Len(mailbox) \in Nat
  BY HeadTailProperties DEF MailInv
<1> QED BY <1>1, LimitFacts DEF MailInv

LEMMA MountStep ==
    ASSUME SessionInv, mount
    PROVE  SessionInv'
<1> USE DEF SessionInv
<1>0. /\ page' = page /\ acked' = acked /\ serverSeq = 0
      /\ emitSnapshot(Timer, 0, 0)
      /\ UNCHANGED <<coalesceHeld, slowNotified, fullSince, bucket, mailbox, acks, client,
                     minted, applied>>
  BY DEF mount
<1>1. Timer \in Origin /\ Timer.event = NoEvent /\ 0 \in Nat
  BY OriginFacts DEF Timer
<1>2. /\ ViewInv' /\ EdgesInv' /\ Covers(NoEvent) /\ SentInv' /\ WireInv'
      /\ refused' \in BOOLEAN /\ Marked'
  BY <1>0, <1>1, SnapshotEffect
<1>4. FlagsInv'
  BY <1>0, <1>2 DEF FlagsInv
<1>5. MailInv'
  BY <1>0 DEF MailInv, bucket, minted
<1>6. AcksInv' /\ ClientInv'
  BY <1>0, ClientStays, AcksStay DEF client
<1>7. ClosedInv'
  <2>1. closed' = "unmounted" \/ notePanic
    BY Zenon DEF mount
  <2> QED BY <2>1, PanicsClose DEF ClosedInv
<1>8. applied' \subseteq applied \cup ({NoEvent} \ {NoEvent})
  BY <1>0
<1> HIDE DEF SessionInv
<1> QED BY <1>2, <1>4, <1>5, <1>6, <1>7, <1>8, Reassemble

LEMMA TransitionStep ==
    ASSUME SessionInv, transition
    PROVE  SessionInv'
<1> USE DEF SessionInv
<1>0. /\ mailbox # <<>> /\ Head(mailbox).kind # "resync"
      /\ UNCHANGED <<bucket, acks, client, eventSeq, emits, losses>>
      /\ notePanic
  BY DEF transition
<1>1. PICK o \in Origin : o = Head(mailbox).origin
  BY <1>0, HeadOfMailbox, MessageFacts
<1>2. PICK marked \in SUBSET Fragment :
          /\ page' \in Page
          /\ \A f \in Fragment \ marked : page'[f] = page[f]
          /\ UNCHANGED acked
          /\ applied' = applied \cup ({o.event} \ {NoEvent})
          /\ emitPatch(o, FALSE, dirty \cup marked, coalesceHeld, slowNotified, Tail(mailbox))
  BY <1>1, Zenon DEF transition
<1>3. PICK mb \in Seq(Message) : mb = Tail(mailbox) /\ Len(mb) <= MailboxDepth
  BY <1>0, HeadOfMailbox
<1>4. PICK d \in SUBSET Fragment : d = dirty \cup marked
  BY DEF ViewInv
<1>5. coalesceHeld \in BOOLEAN /\ slowNotified \in BOOLEAN
  BY DEF FlagsInv
<1>a. serverSeq > 0
  BY DEF transition, mounted
<1>6. \A f \in Fragment : page'[f] # hashes[f] => f \in d \cup failed
  BY <1>2, <1>4, <1>a DEF Marked
<1>7. /\ Emitted(o.event)
      /\ mailbox' \in Seq(Message) /\ Len(mailbox') <= MailboxDepth
      /\ FlagsInv'
  <2>1. emitPatch(o, FALSE, d, coalesceHeld, slowNotified, mb)
    BY <1>2, <1>3, <1>4
  <2> QED BY <1>2, <1>3, <1>5, <1>6, <2>1, EmitPatchEffect DEF ViewInv
<1>8. ViewInv' /\ SentInv' /\ WireInv' /\ EdgesInv' /\ Covers(o.event) /\ Marked'
  BY <1>0, <1>2, <1>7, EmittedKeeps
<1>9. MailInv'
  BY <1>0, <1>2, <1>7, OriginFacts DEF MailInv, bucket
<1>10. AcksInv' /\ ClientInv'
  BY <1>0, <1>2, ClientStays, AcksStay DEF client
<1>11. ClosedInv'
  BY <1>0, PanicsClose
<1> HIDE DEF SessionInv
<1> QED BY <1>2, <1>7, <1>8, <1>9, <1>10, <1>11, Reassemble

LEMMA ReducePanicsStep ==
    ASSUME SessionInv, reducePanics
    PROVE  SessionInv'
<1>1. /\ ViewInv' /\ FlagsInv' /\ EdgesInv' /\ SentInv' /\ Covers(NoEvent)
      /\ serverSeq' > 0 => Marked'
  BY ServerStays DEF reducePanics
<1>2. MailInv'
  <2>1. mailbox # <<>> /\ mailbox' = Tail(mailbox) /\ UNCHANGED <<bucket, minted, applied>>
    BY DEF reducePanics
  <2> QED BY <2>1, HeadOfMailbox DEF SessionInv, MailInv, bucket, minted
<1>3. AcksInv' /\ ClientInv'
  BY ClientStays, AcksStay DEF SessionInv, reducePanics, client
<1>4. WireInv' /\ ClosedInv'
  BY DEF SessionInv, reducePanics, WireInv, ClosedInv, client, view, sent
<1>5. applied' \subseteq applied \cup ({NoEvent} \ {NoEvent})
  BY DEF reducePanics
<1> QED BY <1>1, <1>2, <1>3, <1>4, <1>5, Reassemble

\* The floor is at or after what the request, the acknowledgements and the last
\* snapshot account for.
LEMMA FloorFacts ==
    ASSUME NEW n \in Nat, acked \in Nat, lastSnapshotSeq \in Nat
    PROVE  /\ resyncFloor(n) \in Nat
           /\ resyncFloor(n) >= n /\ resyncFloor(n) >= acked
           /\ resyncFloor(n) >= lastSnapshotSeq
<1> DEFINE S == {n, acked, lastSnapshotSeq}
<1>1. \E x \in S : \A y \in S : x >= y
  OBVIOUS
<1>2. resyncFloor(n) \in S /\ \A y \in S : resyncFloor(n) >= y
  BY <1>1, Zenon DEF resyncFloor, Max
<1> QED BY <1>2

LEMMA ResyncStep ==
    ASSUME SessionInv, resync
    PROVE  SessionInv'
<1> USE DEF SessionInv
<1>0. /\ mailbox # <<>> /\ Head(mailbox).kind = "resync" /\ mailbox' = Tail(mailbox)
      /\ serverSeq > 0
      /\ UNCHANGED <<coalesceHeld, slowNotified, fullSince, acked, acks, client, minted,
                     applied>>
  BY DEF resync, mounted
<1>1. PICK n \in Nat : n = Head(mailbox).last
  BY <1>0, HeadOfMailbox, MessageFacts
<1>2. AcksInv' /\ ClientInv'
  BY <1>0, ClientStays, AcksStay DEF client
<1>3. \A e : applied' \subseteq applied \cup ({e} \ {NoEvent})
  BY <1>0
<1>4. mailbox' \in Seq(Message) /\ Len(mailbox') <= MailboxDepth
  BY <1>0, HeadOfMailbox
<1>5. CASE resyncDeny
  <2>1. UNCHANGED <<view, deferral, slowNotified, fullSince, sent>>
    BY <1>0, <1>5 DEF resyncDeny, deferral
  <2>2. /\ ViewInv' /\ FlagsInv' /\ EdgesInv' /\ SentInv' /\ Covers(NoEvent)
        /\ serverSeq' > 0 => Marked'
    BY <2>1, ServerStays
  <2>3. MailInv'
    BY <1>0, <1>4, <1>5 DEF MailInv, resyncDeny, minted
  <2>4. WireInv'
    <3>1. /\ wire' = Append(wire, limited)
          /\ UNCHANGED <<seq, expected, serverSeq, hashes>>
      BY <1>0, <1>5 DEF resyncDeny, client, view, sent
    <3> QED BY <3>1, WireLimited DEF WireInv
  <2>5. ClosedInv'
    BY <1>5 DEF ClosedInv, resyncDeny
  <2> HIDE DEF SessionInv
  <2> QED BY <1>2, <1>3, <2>2, <2>3, <2>4, <2>5, Reassemble
<1>6. CASE /\ tokens > 0
           /\ tokens' = tokens - 1 /\ resyncDenied' = 0
           /\ resyncNoop(n)
           /\ notePanic
  <2>1. UNCHANGED <<view, deferral, slowNotified, fullSince, sent>>
    BY <1>0, <1>6 DEF resyncNoop, deferral
  <2>2. /\ ViewInv' /\ FlagsInv' /\ EdgesInv' /\ SentInv' /\ Covers(NoEvent)
        /\ serverSeq' > 0 => Marked'
    BY <2>1, ServerStays
  <2>3. MailInv'
    BY <1>0, <1>4, <1>6, LimitFacts DEF MailInv, minted
  <2>4. WireInv' /\ ClosedInv'
    BY <1>0, <1>6, PanicsClose DEF WireInv, resyncNoop, client, view, sent
  <2> HIDE DEF SessionInv
  <2> QED BY <1>2, <1>3, <2>2, <2>3, <2>4, Reassemble
<1>7. CASE /\ tokens > 0
           /\ tokens' = tokens - 1 /\ resyncDenied' = 0
           /\ resyncSnapshot(n)
           /\ notePanic
  <2>1. PICK fl \in Nat : fl = resyncFloor(n) /\ fl >= lastSnapshotSeq /\ fl < serverSeq
    <3>1. resyncFloor(n) \in Nat /\ resyncFloor(n) >= lastSnapshotSeq
      BY FloorFacts DEF SentInv, AcksInv
    <3>2. resyncFloor(n) < serverSeq
      BY <1>7 DEF resyncSnapshot
    <3> QED BY <3>1, <3>2
  <2>2. PICK o \in Origin : o = [event |-> Resync, contributing |-> <<>>]
    <3>1. Resync \in EventID /\ <<>> \in Seq(EventID)
      BY OriginFacts
    <3>2. [event |-> Resync, contributing |-> <<>>] \in Origin
      BY <3>1 DEF Origin
    <3> QED BY <3>2
  <2>3. page' = page /\ emitSnapshot(o, fl + 1, serverSeq)
    BY <1>7, <2>1, <2>2 DEF resyncSnapshot
  <2>5. fl + 1 \in Nat /\ serverSeq \in Nat
        /\ lastSnapshotSeq < fl + 1 /\ fl + 1 <= serverSeq
    BY <2>1 DEF SentInv
  <2>6. /\ ViewInv' /\ EdgesInv' /\ Covers(o.event) /\ SentInv' /\ WireInv'
        /\ refused' \in BOOLEAN /\ Marked'
    BY <1>0, <2>3, <2>5, SnapshotEffect
  <2>8. FlagsInv'
    BY <1>0, <2>6 DEF FlagsInv
  <2>9. MailInv'
    <3>0. ResyncBurst \in Nat /\ tokens \in 0 .. ResyncBurst
      BY LimitFacts DEF MailInv
    <3>1. tokens' \in 0 .. ResyncBurst /\ resyncDenied' \in Nat
      BY <1>7, <3>0
    <3>2. UNCHANGED <<eventSeq, applied>>
      BY <1>0 DEF minted
    <3> QED BY <1>4, <3>1, <3>2 DEF MailInv
  <2>10. ClosedInv'
    BY <1>7, PanicsClose
  <2>11. o.event = Resync
    BY <2>2
  <2> HIDE DEF SessionInv
  <2> QED BY <1>2, <1>3, <2>6, <2>8, <2>9, <2>10, <2>11, Reassemble
<1> HIDE DEF SessionInv
<1> QED BY <1>1, <1>5, <1>6, <1>7, Zenon DEF resync

LEMMA OwedOriginType ==
    ASSUME EdgesInv
    PROVE  owedOrigin \in Origin
<1>1. pendingOrig # <<>> => Head(pendingOrig) \in Origin
  BY HeadTailProperties DEF EdgesInv
<1> QED BY <1>1, OriginFacts DEF owedOrigin

\* An acknowledgement of the client this session has is never refused.
LEMMA AcksAreValid ==
    ASSUME SessionInv, acks # <<>>
    PROVE  ~ackInvalid(Head(acks)) /\ Head(acks) \in Nat
<1>1. /\ Head(acks) \in Nat /\ acked <= Head(acks) /\ Head(acks) <= seq
  BY AcksTail DEF SessionInv, AcksInv, ClientInv
<1>2. seq <= serverSeq /\ seq \in Nat /\ serverSeq \in Nat /\ acked \in Nat
  BY DEF SessionInv, WireInv, WireOK, ClientInv, SentInv, AcksInv
<1> QED BY <1>1, <1>2 DEF ackInvalid

LEMMA OnAckStep ==
    ASSUME SessionInv, onAck
    PROVE  SessionInv'
<1> USE DEF SessionInv
<1>0. /\ acks # <<>> /\ acks' = Tail(acks) /\ serverSeq > 0
      /\ UNCHANGED <<bucket, client, minted, applied>>
  BY DEF onAck, mounted
<1>1. ~ackInvalid(Head(acks)) /\ Head(acks) \in Nat
  BY <1>0, AcksAreValid
<1>2. acked' = Head(acks) /\ UNCHANGED page /\ notePanic
  BY <1>1 DEF onAck
<1>3. AcksInv' /\ ClientInv'
  <2>1. /\ Tail(acks) \in Seq(Nat) /\ Len(Tail(acks)) <= Len(acks)
        /\ AcksOK(Tail(acks), Head(acks), seq)
    BY <1>0, AcksTail DEF AcksInv, ClientInv
  <2>2. Len(Tail(acks)) <= AckChannelDepth
    <3>1. Len(Tail(acks)) \in Nat /\ Len(acks) \in Nat
      BY <2>1 DEF AcksInv
    <3> QED BY <2>1, <3>1, LimitFacts DEF AcksInv
  <2>3. AcksInv'
    BY <1>0, <1>1, <1>2, <2>1, <2>2 DEF AcksInv, client
  <2> QED BY <1>0, <2>3, ClientStays
<1>4. ClosedInv'
  BY <1>2, PanicsClose
<1>5. \A e : applied' \subseteq applied \cup ({e} \ {NoEvent})
  BY <1>0
<1>6. PICK held \in BOOLEAN : held = (coalesceHeld /\ coalescing)
  BY Zenon
<1>7. CASE /\ coalesceHeld' = held
           /\ noteFullness
           /\ UNCHANGED <<hashes, dirty, panics, failed, pendingOrig, pendingIDs,
                          slowNotified, mailbox, wire, sent>>
  <2>1. ViewInv' /\ SentInv' /\ WireInv' /\ Marked'
    BY <1>0, <1>2, <1>7 DEF ViewInv, SentInv, WireInv, Marked, RangesAreDisjoint, client, sent
  <2>2. EdgesInv' /\ Covers(NoEvent)
    BY <1>7, QuietEdges DEF sent
  <2>3. FlagsInv'
    <3>1. full \in BOOLEAN
      BY DEF full
    <3>2. fullSince' \in BOOLEAN
      BY <1>7, <3>1, Zenon DEF noteFullness
    <3>3. coalesceHeld' \in BOOLEAN /\ slowNotified' = slowNotified /\ refused' = refused
      BY <1>7, Zenon DEF sent
    <3> QED BY <3>2, <3>3 DEF FlagsInv
  <2>4. MailInv'
    BY <1>0, <1>7 DEF MailInv, bucket, minted
  <2> HIDE DEF SessionInv
  <2> QED BY <1>3, <1>4, <1>5, <2>1, <2>2, <2>3, <2>4, Reassemble
<1>8. CASE emitPatch(owedOrigin, TRUE, dirty, held, FALSE,
                     IF slowNotified
                     THEN post(mailbox, [kind |-> "recovered", origin |-> Timer])
                     ELSE mailbox)
  <2>1. PICK o \in Origin : o = owedOrigin
    BY OwedOriginType
  <2>2. PICK mb \in Seq(Message) :
            /\ Len(mb) <= MailboxDepth
            /\ mb = IF slowNotified
                    THEN post(mailbox, [kind |-> "recovered", origin |-> Timer])
                    ELSE mailbox
    <3>1. [kind |-> "recovered", origin |-> Timer] \in Message
      BY MessageFacts, OriginFacts
    <3>2. /\ post(mailbox, [kind |-> "recovered", origin |-> Timer]) \in Seq(Message)
          /\ Len(post(mailbox, [kind |-> "recovered", origin |-> Timer])) <= MailboxDepth
      BY <3>1, PostType DEF MailInv
    <3>3. mailbox \in Seq(Message) /\ Len(mailbox) <= MailboxDepth
      BY DEF MailInv
    <3>4. CASE slowNotified
      BY <3>2, <3>4
    <3>5. CASE ~slowNotified
      BY <3>3, <3>5
    <3> QED BY <3>4, <3>5
  <2>3. PICK d \in SUBSET Fragment : d = dirty
    BY DEF ViewInv
  <2>4. page' \in Page /\ hashes \in Pages /\ failed \subseteq Fragment /\ panics \in Nat
    BY <1>2 DEF ViewInv
  <2>5. \A f \in Fragment : page'[f] # hashes[f] => f \in d \cup failed
    BY <1>0, <1>2, <2>3 DEF Marked
  <2>6. /\ Emitted(o.event)
        /\ mailbox' \in Seq(Message) /\ Len(mailbox') <= MailboxDepth
        /\ FlagsInv'
    <3>1. emitPatch(o, TRUE, d, held, FALSE, mb)
      BY <1>8, <2>1, <2>2, <2>3, Zenon
    <3>2. FALSE \in BOOLEAN
      OBVIOUS
    <3> QED BY <2>2, <2>4, <2>5, <3>1, <3>2, EmitPatchEffect
  <2>7. ViewInv' /\ SentInv' /\ WireInv' /\ EdgesInv' /\ Covers(o.event) /\ Marked'
    BY <1>0, <2>4, <2>6, EmittedKeeps
  <2>8. MailInv'
    BY <1>0, <2>6 DEF MailInv, bucket, minted
  <2> HIDE DEF SessionInv
  <2> QED BY <1>3, <1>4, <1>5, <2>6, <2>7, <2>8, Reassemble
<1> HIDE DEF SessionInv
<1> QED BY <1>1, <1>6, <1>7, <1>8, Zenon DEF onAck

LEMMA OnTickStep ==
    ASSUME SessionInv, onTick
    PROVE  SessionInv'
<1> USE DEF SessionInv
<1>0. /\ serverSeq > 0 /\ acked' = acked
      /\ UNCHANGED <<bucket, acks, client, minted, applied>>
  BY DEF onTick, mounted, tickLeaves
<1>1. AcksInv' /\ ClientInv'
  BY <1>0, ClientStays, AcksStay DEF client
<1>2. \A e : applied' \subseteq applied \cup ({e} \ {NoEvent})
  BY <1>0
<1>3. ClosedInv'
  <2>1. closed' = "slow" \/ notePanic
    BY DEF onTick, evict, flush
  <2> QED BY <2>1, PanicsClose DEF ClosedInv
<1>4. ASSUME UNCHANGED <<view, deferral, slowNotified, mailbox, wire, sent>>,
             fullSince' \in BOOLEAN
      PROVE  SessionInv'
  <2>1. ViewInv' /\ SentInv' /\ WireInv' /\ Marked'
    BY <1>0, <1>4 DEF ViewInv, SentInv, WireInv, Marked, RangesAreDisjoint, client, sent, view
  <2>2. EdgesInv' /\ Covers(NoEvent)
    BY <1>4, QuietEdges DEF sent, deferral
  <2>3. FlagsInv'
    BY <1>4 DEF FlagsInv, deferral, sent
  <2>4. MailInv'
    BY <1>0, <1>4 DEF MailInv, bucket, minted
  <2> HIDE DEF SessionInv
  <2> QED BY <1>1, <1>2, <1>3, <2>1, <2>2, <2>3, <2>4, Reassemble
<1>5. CASE evict
  <2>1. fullSince' \in BOOLEAN
    BY <1>5 DEF evict, FlagsInv
  <2>2. UNCHANGED <<view, deferral, slowNotified, mailbox, wire, sent>>
    BY <1>5 DEF evict
  <2> QED BY <1>4, <2>1, <2>2
<1>6. CASE noteFullness /\ UNCHANGED <<view, deferral, slowNotified, mailbox, wire, sent>>
  <2>1. full \in BOOLEAN
    BY DEF full
  <2>2. fullSince' \in BOOLEAN
    BY <1>6, <2>1, Zenon DEF noteFullness
  <2> QED BY <1>4, <1>6, <2>2
<1>7. CASE /\ UNCHANGED page
           /\ emitPatch(owedOrigin, TRUE, dirty, coalesceHeld, slowNotified, mailbox)
  <2>1. PICK o \in Origin : o = owedOrigin
    BY OwedOriginType
  <2>2. PICK mb \in Seq(Message) : mb = mailbox /\ Len(mb) <= MailboxDepth
    BY DEF MailInv
  <2>3. PICK d \in SUBSET Fragment : d = dirty
    BY DEF ViewInv
  <2>4. page' \in Page /\ hashes \in Pages /\ failed \subseteq Fragment /\ panics \in Nat
    BY <1>7 DEF ViewInv
  <2>5. \A f \in Fragment : page'[f] # hashes[f] => f \in d \cup failed
    BY <1>0, <1>7, <2>3 DEF Marked
  <2>6. /\ Emitted(o.event)
        /\ mailbox' \in Seq(Message) /\ Len(mailbox') <= MailboxDepth
        /\ FlagsInv'
    <3>1. emitPatch(o, TRUE, d, coalesceHeld, slowNotified, mb)
      BY <1>7, <2>1, <2>2, <2>3, Zenon
    <3>2. coalesceHeld \in BOOLEAN /\ slowNotified \in BOOLEAN
      BY DEF FlagsInv
    <3> QED BY <2>2, <2>4, <2>5, <3>1, <3>2, EmitPatchEffect
  <2>7. ViewInv' /\ SentInv' /\ WireInv' /\ EdgesInv' /\ Covers(o.event) /\ Marked'
    BY <1>0, <2>4, <2>6, EmittedKeeps
  <2>8. MailInv'
    BY <1>0, <2>6 DEF MailInv, bucket, minted
  <2> HIDE DEF SessionInv
  <2> QED BY <1>1, <1>2, <1>3, <2>6, <2>7, <2>8, Reassemble
<1> HIDE DEF SessionInv
<1> QED BY <1>5, <1>6, <1>7, Zenon DEF onTick, flush

-----------------------------------------------------------------------------
(* The steps of the client and of its connection.                          *)

\* A step that leaves the server alone.
LEMMA ClientSide ==
    ASSUME SessionInv, UNCHANGED server,
           MailInv', AcksInv', WireInv', ClientInv', ClosedInv'
    PROVE  SessionInv'
<1>1. /\ ViewInv' /\ FlagsInv' /\ EdgesInv' /\ SentInv' /\ Covers(NoEvent)
      /\ serverSeq' > 0 => Marked'
  BY ServerStays DEF server
<1>2. applied' \subseteq applied \cup ({NoEvent} \ {NoEvent})
  BY DEF server
<1> QED BY <1>1, <1>2, Reassemble

\* A request is queued, or refused with a frame of its own.
LEMMA AskKeeps ==
    ASSUME MailInv, seq \in Nat, NEW w \in Seq(Frame \cup {limited}), NEW p, NEW n, NEW h,
           WireOK(w, seq, p, n, h), ask(w)
    PROVE  /\ mailbox' \in Seq(Message) /\ Len(mailbox') <= MailboxDepth
           /\ wire' \in Seq(Frame \cup {limited}) /\ WireOK(wire', seq, p, n, h)
<1>1. CASE Len(mailbox) < MailboxDepth
  <2>1. PICK m \in Message : m = [kind |-> "resync", last |-> seq]
    BY MessageFacts
  <2>2. mailbox' = post(mailbox, m) /\ wire' = w
    BY <1>1, <2>1 DEF ask, post
  <2>3. post(mailbox, m) \in Seq(Message) /\ Len(post(mailbox, m)) <= MailboxDepth
    BY PostType DEF MailInv
  <2> QED BY <2>2, <2>3
<1>2. CASE ~(Len(mailbox) < MailboxDepth)
  <2>1. wire' = Append(w, limited) /\ mailbox' = mailbox
    BY <1>2 DEF ask
  <2> QED BY <2>1, WireLimited DEF MailInv
<1> QED BY <1>1, <1>2

\* The client acknowledges its position, which has not gone back.
LEMMA SendAckKeeps ==
    ASSUME AcksInv, seq \in Nat, NEW n \in Nat, seq <= n, sendAck(n)
    PROVE  /\ acks' \in Seq(Nat) /\ Len(acks') <= AckChannelDepth
           /\ AcksOK(acks', acked, n)
<1>1. /\ acks \in Seq(Nat) /\ acked \in Nat /\ AcksOK(acks, acked, seq)
      /\ Len(acks) <= AckChannelDepth
  BY DEF AcksInv
<1>2. /\ AcksOK(acks, acked, n)
      /\ Append(acks, n) \in Seq(Nat) /\ Len(Append(acks, n)) = Len(acks) + 1
      /\ AcksOK(Append(acks, n), acked, n)
  BY <1>1, AcksPush
<1>3. CASE Len(acks) < AckChannelDepth
  <2>1. acks' = Append(acks, n)
    BY <1>3 DEF sendAck
  <2>2. Len(acks) \in Nat /\ AckChannelDepth \in Nat
    BY <1>1, LimitFacts
  <2>3. Len(acks) + 1 <= AckChannelDepth
    BY <1>3, <2>2
  <2> QED BY <1>2, <2>1, <2>3
<1>4. CASE ~(Len(acks) < AckChannelDepth)
  BY <1>1, <1>2, <1>4 DEF sendAck
<1> QED BY <1>3, <1>4

LEMMA RefillStep ==
    ASSUME SessionInv, refill
    PROVE  SessionInv'
<1>1. /\ ViewInv' /\ FlagsInv' /\ EdgesInv' /\ SentInv' /\ Covers(NoEvent)
      /\ serverSeq' > 0 => Marked'
  BY ServerStays DEF refill
<1>2. MailInv'
  BY LimitFacts DEF SessionInv, refill, MailInv, minted
<1>3. AcksInv' /\ ClientInv'
  BY ClientStays, AcksStay DEF SessionInv, refill, client
<1>4. WireInv' /\ ClosedInv'
  BY DEF SessionInv, refill, WireInv, ClosedInv, client, view, sent
<1>5. applied' \subseteq applied \cup ({NoEvent} \ {NoEvent})
  BY DEF refill
<1> QED BY <1>1, <1>2, <1>3, <1>4, <1>5, Reassemble

LEMMA RetryStep ==
    ASSUME SessionInv, retry
    PROVE  SessionInv'
<1>0. /\ UNCHANGED server /\ UNCHANGED <<seq, gap, dom, accounted, expected, skipped, acks, closed>>
      /\ UNCHANGED minted /\ gapTimer' = FALSE /\ ask(wire)
  BY DEF retry
<1>1. /\ UNCHANGED <<hashes, serverSeq, acked, tokens, resyncDenied, applied>>
      /\ UNCHANGED eventSeq
  BY <1>0 DEF server, view, sent, bucket, minted
<1>2. /\ mailbox' \in Seq(Message) /\ Len(mailbox') <= MailboxDepth
      /\ wire' \in Seq(Frame \cup {limited})
      /\ WireOK(wire', seq, expected, serverSeq, hashes)
  BY <1>0, AskKeeps DEF SessionInv, WireInv, ClientInv
<1>3. MailInv'
  BY <1>1, <1>2 DEF SessionInv, MailInv
<1>4. WireInv'
  BY <1>0, <1>1, <1>2 DEF WireInv
<1>5. AcksInv'
  BY <1>0, <1>1, AcksStay DEF SessionInv
<1>6. ClientInv' /\ ClosedInv'
  BY <1>0 DEF SessionInv, ClientInv, ClosedInv, ClientShowsWhatWasSent
<1> QED BY <1>0, <1>3, <1>4, <1>5, <1>6, ClientSide

LEMMA SendEventStep ==
    ASSUME SessionInv, sendEvent
    PROVE  SessionInv'
<1>0. /\ UNCHANGED server /\ UNCHANGED <<acks, closed>> /\ UNCHANGED client
      /\ eventSeq < MaxEvents /\ eventSeq' = eventSeq + 1
  BY DEF sendEvent
<1>1. UNCHANGED <<hashes, serverSeq, acked, tokens, resyncDenied, applied, seq, expected>>
  BY <1>0 DEF server, view, sent, bucket, client
<1>2. eventSeq' \in 1 .. MaxEvents /\ eventSeq' \in EventID
  BY <1>0, LimitFacts DEF SessionInv, MailInv, EventID, Resync
<1>3. /\ wire \in Seq(Frame \cup {limited}) /\ WireOK(wire, seq, expected, serverSeq, hashes)
      /\ mailbox \in Seq(Message) /\ Len(mailbox) <= MailboxDepth
  BY DEF SessionInv, WireInv, MailInv
<1>4. /\ mailbox' \in Seq(Message) /\ Len(mailbox') <= MailboxDepth
      /\ wire' \in Seq(Frame \cup {limited})
      /\ WireOK(wire', seq, expected, serverSeq, hashes)
  <2>1. CASE wire' = Append(wire, limited) /\ mailbox' = mailbox
    BY <1>3, <2>1, WireLimited
  <2>2. CASE /\ Len(mailbox) < MailboxDepth
             /\ mailbox' = Append(mailbox, [kind |-> "event",
                               origin |-> [event |-> eventSeq', contributing |-> <<>>]])
             /\ wire' = wire
    <3>1. [event |-> eventSeq', contributing |-> <<>>] \in Origin
      BY <1>2 DEF Origin
    <3>2. PICK m \in Message :
             m = [kind |-> "event", origin |-> [event |-> eventSeq', contributing |-> <<>>]]
      BY <3>1, MessageFacts
    <3>3. mailbox' = post(mailbox, m)
      BY <2>2, <3>2 DEF post
    <3> QED BY <1>3, <2>2, <3>3, PostType
  <2> QED BY <2>1, <2>2 DEF sendEvent
<1>5. MailInv'
  BY <1>1, <1>2, <1>4 DEF SessionInv, MailInv
<1>6. WireInv'
  BY <1>1, <1>4 DEF WireInv
<1>7. AcksInv' /\ ClientInv' /\ ClosedInv'
  BY <1>0, <1>1, AcksStay, ClientStays DEF SessionInv, ClosedInv
<1> QED BY <1>0, <1>5, <1>6, <1>7, ClientSide

LEMMA EmitterStep ==
    ASSUME SessionInv, emitter
    PROVE  SessionInv'
<1>0. /\ UNCHANGED server /\ UNCHANGED <<acks, wire, closed, eventSeq>> /\ UNCHANGED client
      /\ Len(mailbox) < MailboxDepth
  BY DEF emitter
<1>1. UNCHANGED <<hashes, serverSeq, acked, tokens, resyncDenied, applied, seq, expected>>
  BY <1>0 DEF server, view, sent, bucket, client
<1>2. PICK scheduledBy \in {<<>>} \cup {<<e>> : e \in applied} :
         mailbox' = Append(mailbox, [kind |-> "effect",
                       origin |-> [event |-> NoEvent, contributing |-> scheduledBy]])
  BY DEF emitter
<1>3. scheduledBy \in Seq(EventID)
  <2>1. \A e \in applied : <<e>> \in Seq(EventID)
    <3>1. \A e \in applied : e \in EventID
      BY DEF SessionInv, MailInv
    <3> QED BY <3>1
  <2>2. <<>> \in Seq(EventID)
    OBVIOUS
  <2>3. scheduledBy = <<>> \/ \E e \in applied : scheduledBy = <<e>>
    BY Zenon
  <2> QED BY <2>1, <2>2, <2>3, Zenon
<1>4. [event |-> NoEvent, contributing |-> scheduledBy] \in Origin
  BY <1>3 DEF Origin
<1>5. PICK m \in Message :
         m = [kind |-> "effect", origin |-> [event |-> NoEvent, contributing |-> scheduledBy]]
  BY <1>4, MessageFacts
<1>6. mailbox' = post(mailbox, m)
  BY <1>0, <1>2, <1>5 DEF post
<1>7. MailInv'
  BY <1>0, <1>1, <1>6, PostType DEF SessionInv, MailInv
<1>8. WireInv'
  BY <1>0, <1>1 DEF SessionInv, WireInv
<1>9. AcksInv' /\ ClientInv' /\ ClosedInv'
  BY <1>0, <1>1, AcksStay, ClientStays DEF SessionInv, ClosedInv
<1> QED BY <1>0, <1>7, <1>8, <1>9, ClientSide

LEMMA LoseStep ==
    ASSUME SessionInv, lose
    PROVE  SessionInv'
<1>0. /\ UNCHANGED server /\ UNCHANGED <<acks, mailbox, closed, eventSeq>> /\ UNCHANGED client
      /\ wire # <<>> /\ wire' = Tail(wire)
  BY DEF lose
<1>1. UNCHANGED <<hashes, serverSeq, acked, tokens, resyncDenied, applied, seq, expected>>
  BY <1>0 DEF server, view, sent, bucket, client
<1>2. MailInv'
  BY <1>0, <1>1 DEF SessionInv, MailInv
<1>3. WireInv'
  BY <1>0, <1>1, WireTail DEF SessionInv, WireInv
<1>4. AcksInv' /\ ClientInv' /\ ClosedInv'
  BY <1>0, <1>1, AcksStay, ClientStays DEF SessionInv, ClosedInv
<1> QED BY <1>0, <1>2, <1>3, <1>4, ClientSide

LEMMA CloseStep ==
    ASSUME SessionInv, Close
    PROVE  SessionInv'
<1>0. /\ UNCHANGED server /\ UNCHANGED <<client, minted>>
      /\ mailbox' = <<>> /\ acks' = <<>> /\ wire' = <<>> /\ closed' = "away"
  BY DEF Close
<1>1. /\ UNCHANGED <<hashes, serverSeq, acked, tokens, resyncDenied, applied, seq, expected>>
      /\ UNCHANGED eventSeq
  BY <1>0 DEF server, view, sent, bucket, client, minted
<1>2. MailInv'
  BY <1>0, <1>1, LimitFacts DEF SessionInv, MailInv
<1>3. WireInv'
  BY <1>0, <1>1 DEF SessionInv, WireInv, WireOK
<1>4. AcksInv'
  BY <1>0, <1>1, LimitFacts DEF SessionInv, AcksInv, AcksOK
<1>5. ClientInv' /\ ClosedInv'
  BY <1>0, ClientStays DEF SessionInv, ClosedInv
<1> QED BY <1>0, <1>2, <1>3, <1>4, <1>5, ClientSide

\* The client applies a frame: it shows the page the frame was sent with in every
\* region not skipped, and every sequence up to the frame's is accounted for.
LEMMA ApplyStep ==
    ASSUME SessionInv, NEW f \in Frame, wire # <<>>, f = Head(wire),
           f.kind = "snapshot" \/ (f.kind = "patch" /\ f.seq = seq + 1),
           apply(f), wire' = Tail(wire), UNCHANGED mailbox, UNCHANGED <<server, minted>>
    PROVE  SessionInv'
<1>1. /\ UNCHANGED <<hashes, serverSeq, acked, tokens, resyncDenied, applied>>
      /\ UNCHANGED <<server, eventSeq>>
  BY DEF server, view, sent, bucket, minted
<1>2. MailInv'
  BY <1>1 DEF SessionInv, MailInv
<1>3. /\ wire \in Seq(Frame \cup {limited}) /\ WireOK(wire, seq, expected, serverSeq, hashes)
      /\ seq \in Nat /\ serverSeq \in Nat /\ dom \in Pages /\ expected \in Pages
      /\ skipped \subseteq Fragment /\ ClientShowsWhatWasSent
      /\ accounted \subseteq Nat /\ 1 .. seq \subseteq accounted
      /\ f.kind \in {"snapshot", "patch"} /\ f.seq \in Nat /\ f.from \in Nat
      /\ f.through \in Nat /\ f.page \in Pages /\ f.updates \in Updates
  BY FrameFacts DEF SessionInv, WireInv, ClientInv, SentInv
<1>4. /\ Tail(wire) \in Seq(Frame \cup {limited})
      /\ WireOK(Tail(wire), f.seq, f.page, serverSeq, hashes)
      /\ seq < f.seq
      /\ WellFormed(f) /\ Continues(f, seq, expected)
  BY <1>3, WireApply
<1>5. CASE f.seq > seq /\ rangeMeets(f)
  <2>1. /\ seq' = f.seq /\ dom' = over(dom, f.updates) /\ gap' = FALSE /\ gapTimer' = FALSE
        /\ sendAck(f.seq) /\ expected' = f.page /\ closed' = closed
        /\ skipped' = (IF f.from = 0 THEN skipped ELSE Fragment) \ DOMAIN f.updates
        /\ accounted' = accounted \cup {f.seq}
                          \cup (IF f.from = 0 THEN {} ELSE f.from .. f.through)
    BY <1>5 DEF apply
  <2>2. WireInv'
    BY <1>1, <1>4, <2>1 DEF WireInv
  <2>3. AcksInv'
    <3>1. /\ acks' \in Seq(Nat) /\ Len(acks') <= AckChannelDepth
          /\ AcksOK(acks', acked, f.seq)
      BY <1>3, <1>4, <2>1, SendAckKeeps DEF SessionInv
    <3> QED BY <1>1, <2>1, <3>1 DEF SessionInv, AcksInv
  <2>4. dom' \in Pages /\ skipped' \subseteq Fragment /\ ClientShowsWhatWasSent'
    <3>1. dom' \in Pages
      BY <1>3, <2>1, OverType
    <3>2. skipped' \subseteq Fragment
      BY <1>3, <2>1
    <3>3. ASSUME NEW r \in Fragment \ skipped' PROVE dom'[r] = expected'[r]
      <4>1. dom'[r] = IF r \in DOMAIN f.updates THEN f.updates[r] ELSE dom[r]
        BY <2>1 DEF over
      <4>2. CASE r \in DOMAIN f.updates
        BY <1>4, <2>1, <4>1, <4>2 DEF WellFormed
      <4>3. CASE r \notin DOMAIN f.updates
        <5>1. f.from = 0 /\ r \notin skipped
          BY <2>1, <3>3, <4>3
        <5>2. f.seq = seq + 1
          <6>1. CASE f.kind = "snapshot"
            BY <1>3, <1>4, <5>1, <6>1 DEF WellFormed
          <6> QED BY <1>3, <6>1
        <5>3. f.page[r] = expected[r]
          BY <1>4, <4>3, <5>2 DEF Continues, over
        <5>4. dom[r] = expected[r]
          BY <1>3, <5>1 DEF ClientShowsWhatWasSent
        <5> QED BY <2>1, <4>1, <4>3, <5>3, <5>4
      <4> QED BY <4>2, <4>3
    <3> QED BY <3>1, <3>2, <3>3 DEF ClientShowsWhatWasSent
  <2>5. 1 .. f.seq \subseteq accounted'
    <3>1. CASE f.from = 0
      <4>1. f.seq = seq + 1
        <5>1. CASE f.kind = "snapshot"
          BY <1>3, <1>4, <3>1, <5>1 DEF WellFormed
        <5> QED BY <1>3, <5>1
      <4>2. \A k \in 1 .. f.seq : k \in 1 .. seq \/ k = f.seq
        BY <1>3, <4>1
      <4> QED BY <1>3, <2>1, <4>2
    <3>2. CASE f.from # 0
      <4>1. f.kind = "snapshot" /\ f.through = f.seq - 1
        BY <1>3, <1>4, <3>2 DEF WellFormed
      <4>2. f.from = seq + 1
        BY <1>5, <3>2 DEF rangeMeets
      <4>3. \A k \in 1 .. f.seq : k \in 1 .. seq \/ k \in f.from .. f.through \/ k = f.seq
        <5>1. seq \in Nat /\ f.seq \in Nat
          BY <1>3
        <5> QED BY <4>1, <4>2, <5>1
      <4>4. accounted' = accounted \cup {f.seq} \cup (f.from .. f.through)
        BY <2>1, <3>2
      <4> QED BY <1>3, <4>3, <4>4
    <3> QED BY <3>1, <3>2
  <2>6. accounted' \subseteq Nat
    <3>1. f.from .. f.through \subseteq Nat
      BY <1>3
    <3> QED BY <1>3, <2>1, <3>1
  <2>7. ClientInv'
    BY <1>3, <2>1, <2>4, <2>5, <2>6 DEF ClientInv
  <2>8. ClosedInv'
    BY <2>1 DEF SessionInv, ClosedInv
  <2> QED BY <1>1, <1>2, <2>2, <2>3, <2>7, <2>8, ClientSide
<1>6. CASE ~(f.seq > seq /\ rangeMeets(f))
  <2>1. closed' = "range" /\ UNCHANGED <<client, acks>>
    BY <1>6 DEF apply
  <2>2. UNCHANGED <<seq, expected>>
    BY <2>1 DEF client
  <2>3. WireInv'
    <3>1. WireOK(Tail(wire), seq, expected, serverSeq, hashes)
      BY <1>3, WireTail
    <3> QED BY <1>1, <1>4, <2>2, <3>1 DEF WireInv
  <2>4. AcksInv' /\ ClientInv'
    BY <1>1, <2>1, <2>2, AcksStay, ClientStays DEF SessionInv
  <2>5. ClosedInv'
    BY <2>1 DEF ClosedInv
  <2> QED BY <1>1, <1>2, <2>3, <2>4, <2>5, ClientSide
<1> QED BY <1>5, <1>6

\* A patch that does not follow is discarded.
LEMMA DiscardStep ==
    ASSUME SessionInv, wire # <<>>, discard(Tail(wire)), UNCHANGED <<server, minted>>
    PROVE  SessionInv'
<1>1. /\ UNCHANGED <<hashes, serverSeq, acked, tokens, resyncDenied, applied>>
      /\ UNCHANGED <<server, eventSeq>>
  BY DEF server, view, sent, bucket, minted
<1>2. /\ wire \in Seq(Frame \cup {limited}) /\ WireOK(wire, seq, expected, serverSeq, hashes)
      /\ seq \in Nat /\ gapTimer \in BOOLEAN /\ seq <= seq
  BY DEF SessionInv, WireInv, ClientInv
<1>3. /\ gap' = TRUE /\ sendAck(seq)
      /\ UNCHANGED <<seq, gapTimer, dom, accounted, expected, skipped, closed>>
  BY DEF discard
<1>4. PICK w \in Seq(Frame \cup {limited}) :
         w = Tail(wire) /\ WireOK(w, seq, expected, serverSeq, hashes)
  BY <1>2, WireTail
<1>5. /\ mailbox' \in Seq(Message) /\ Len(mailbox') <= MailboxDepth
      /\ wire' \in Seq(Frame \cup {limited})
      /\ WireOK(wire', seq, expected, serverSeq, hashes)
  <2>1. CASE gap
    <3>1. wire' = w /\ mailbox' = mailbox
      BY <1>4, <2>1 DEF discard
    <3> QED BY <1>4, <3>1 DEF SessionInv, MailInv
  <2>2. CASE ~gap
    <3>1. ask(w)
      BY <1>4, <2>2, Zenon DEF discard
    <3> QED BY <1>2, <1>4, <3>1, AskKeeps DEF SessionInv
  <2> QED BY <2>1, <2>2
<1>6. MailInv'
  BY <1>1, <1>5 DEF SessionInv, MailInv
<1>7. WireInv'
  BY <1>1, <1>3, <1>5 DEF WireInv
<1>8. AcksInv'
  <2>1. acks' \in Seq(Nat) /\ Len(acks') <= AckChannelDepth /\ AcksOK(acks', acked, seq)
    BY <1>2, <1>3, SendAckKeeps DEF SessionInv
  <2> QED BY <1>1, <1>3, <2>1 DEF SessionInv, AcksInv
<1>9. ClientInv' /\ ClosedInv'
  BY <1>3 DEF SessionInv, ClientInv, ClosedInv, ClientShowsWhatWasSent
<1> QED BY <1>1, <1>6, <1>7, <1>8, <1>9, ClientSide

\* A request was refused: the retry is armed while the gap lasts.
LEMMA LimitedStep ==
    ASSUME SessionInv, wire # <<>>, gapTimer' = (gapTimer \/ gap), wire' = Tail(wire),
           UNCHANGED <<seq, gap, dom, accounted, expected, skipped, acks, mailbox, closed>>,
           UNCHANGED <<server, minted>>
    PROVE  SessionInv'
<1>1. /\ UNCHANGED <<hashes, serverSeq, acked, tokens, resyncDenied, applied>>
      /\ UNCHANGED <<server, eventSeq>>
  BY DEF server, view, sent, bucket, minted
<1>2. MailInv'
  BY <1>1 DEF SessionInv, MailInv
<1>3. WireInv'
  BY <1>1, WireTail DEF SessionInv, WireInv
<1>4. AcksInv'
  BY <1>1, AcksStay DEF SessionInv
<1>5. gapTimer' \in BOOLEAN
  <2>1. gapTimer \in BOOLEAN /\ gap \in BOOLEAN
    BY DEF SessionInv, ClientInv
  <2> QED BY <2>1, Zenon
<1>6. ClientInv' /\ ClosedInv'
  BY <1>5 DEF SessionInv, ClientInv, ClosedInv, ClientShowsWhatWasSent
<1> QED BY <1>1, <1>2, <1>3, <1>4, <1>6, ClientSide

LEMMA OnMessageStep ==
    ASSUME SessionInv, onMessage
    PROVE  SessionInv'
<1>0. wire # <<>> /\ UNCHANGED <<server, minted>>
  BY DEF onMessage
<1>1. Head(wire) \in Frame \cup {limited}
  BY <1>0, HeadTailProperties DEF SessionInv, WireInv
<1>2. CASE /\ Head(wire).kind = "snapshot"
                \/ (Head(wire).kind = "patch" /\ Head(wire).seq = seq + 1)
           /\ apply(Head(wire))
           /\ wire' = Tail(wire)
           /\ UNCHANGED mailbox
  <2>1. PICK f \in Frame : f = Head(wire)
    BY <1>1, <1>2, FrameFacts
  <2>2. apply(f) /\ (f.kind = "snapshot" \/ (f.kind = "patch" /\ f.seq = seq + 1))
    BY <1>2, <2>1, Zenon
  <2> QED BY <1>0, <1>2, <2>1, <2>2, ApplyStep
<1>3. CASE discard(Tail(wire))
  BY <1>0, <1>3, DiscardStep
<1>4. CASE /\ gapTimer' = (gapTimer \/ gap)
           /\ wire' = Tail(wire)
           /\ UNCHANGED <<seq, gap, dom, accounted, expected, skipped, acks, mailbox, closed>>
  BY <1>0, <1>4, LimitedStep
<1> QED BY <1>2, <1>3, <1>4, Zenon DEF onMessage

-----------------------------------------------------------------------------
(* The session.                                                            *)

LEMMA InitInv == Init => SessionInv
<1> SUFFICES ASSUME Init PROVE SessionInv
  OBVIOUS
<1> USE DEF Init
<1>1. page \in Page /\ hashes \in Pages /\ dom = hashes /\ expected = hashes
  BY PageAssumption DEF Pages
<1>2. ViewInv /\ FlagsInv
  BY <1>1 DEF ViewInv, FlagsInv
<1>3. EdgesInv
  BY DEF EdgesInv
<1>4. SentInv
  BY DEF SentInv, RangesAreDisjoint
<1>5. MailInv
  BY LimitFacts DEF MailInv
<1>6. AcksInv
  BY LimitFacts DEF AcksInv, AcksOK
<1>7. WireInv
  BY DEF WireInv, WireOK
<1>8. ClientInv
  <2>1. 1 .. 0 = {}
    OBVIOUS
  <2> QED BY <1>1, <2>1 DEF ClientInv, ClientShowsWhatWasSent
<1>9. ClosedInv /\ ~(serverSeq > 0) /\ NothingIsUnattributed
  BY DEF ClosedInv, NothingIsUnattributed
<1> QED BY <1>2, <1>3, <1>4, <1>5, <1>6, <1>7, <1>8, <1>9 DEF SessionInv

LEMMA StutterStep ==
    ASSUME SessionInv, UNCHANGED vars
    PROVE  SessionInv'
<1>1. /\ UNCHANGED server /\ UNCHANGED <<acks, mailbox, wire, closed>>
      /\ UNCHANGED <<client, minted>>
  BY DEF vars, server
<1>2. /\ UNCHANGED <<hashes, serverSeq, acked, tokens, resyncDenied, applied, seq, expected>>
      /\ UNCHANGED eventSeq
  BY <1>1 DEF server, view, sent, bucket, client, minted
<1>3. MailInv' /\ WireInv'
  BY <1>1, <1>2 DEF SessionInv, MailInv, WireInv
<1>4. AcksInv' /\ ClientInv' /\ ClosedInv'
  BY <1>1, <1>2, AcksStay, ClientStays DEF SessionInv, ClosedInv
<1> QED BY <1>1, <1>3, <1>4, ClientSide

LEMMA NextStep ==
    ASSUME SessionInv, [Next]_vars
    PROVE  SessionInv'
<1>1. CASE mount
  BY <1>1, MountStep
<1>2. CASE transition
  BY <1>2, TransitionStep
<1>3. CASE reducePanics
  BY <1>3, ReducePanicsStep
<1>4. CASE resync
  BY <1>4, ResyncStep
<1>5. CASE onAck
  BY <1>5, OnAckStep
<1>6. CASE onTick
  BY <1>6, OnTickStep
<1>7. CASE refill
  BY <1>7, RefillStep
<1>8. CASE onMessage
  BY <1>8, OnMessageStep
<1>9. CASE retry
  BY <1>9, RetryStep
<1>10. CASE sendEvent
  BY <1>10, SendEventStep
<1>11. CASE emitter
  BY <1>11, EmitterStep
<1>12. CASE lose
  BY <1>12, LoseStep
<1>13. CASE Close
  BY <1>13, CloseStep
<1>14. CASE UNCHANGED vars
  BY <1>14, StutterStep
<1> QED
  BY <1>1, <1>2, <1>3, <1>4, <1>5, <1>6, <1>7, <1>8, <1>9, <1>10, <1>11, <1>12, <1>13,
     <1>14, Zenon DEF Next

\* The inductive invariant holds throughout a session, whatever the order of the
\* actor's messages, acknowledgements and ticks, the patches lost and the frames
\* refused (session/actor.go, render/renderer.go and client/runtime.js).
THEOREM SessionInvariance == Spec => []SessionInv
<1>1. SessionInv /\ [Next]_vars => SessionInv'
  BY NextStep
<1> QED BY InitInv, <1>1, PTL DEF Spec

LEMMA SessionTypes == SessionInv => TypeOK
<1> SUFFICES ASSUME SessionInv PROVE TypeOK
  OBVIOUS
<1> USE DEF SessionInv
<1>1. /\ page \in Page /\ UNION {dirty, failed, skipped} \subseteq Fragment
      /\ {hashes, dom, expected} \subseteq [Fragment -> Markup \cup {NoMarkup}]
  BY DEF ViewInv, ClientInv, Pages
<1>2. /\ Len(pendingOrig) <= 1 /\ ToSet(pendingOrig) \subseteq Origin
      /\ pendingIDs \in Seq(EventID)
  BY ToSetFacts DEF EdgesInv
<1>3. {coalesceHeld, slowNotified, fullSince, gap, gapTimer, refused} \subseteq BOOLEAN
  <2>1. /\ {coalesceHeld, slowNotified, fullSince, refused} \subseteq BOOLEAN
        /\ {gap, gapTimer} \subseteq BOOLEAN
    BY DEF FlagsInv, ClientInv
  <2> QED BY <2>1, Zenon
<1>4. /\ {serverSeq, acked, lastSnapshotSeq, seq, resyncDenied, panics} \subseteq Nat
      /\ tokens \in 0 .. ResyncBurst
      /\ Len(mailbox) <= MailboxDepth /\ acks \in Seq(Nat) /\ Len(acks) <= AckChannelDepth
  BY DEF ViewInv, SentInv, AcksInv, ClientInv, MailInv
<1>5. \A i \in DOMAIN wire : wire[i].kind \in {"snapshot", "patch", "limited"}
  <2>1. \A i \in DOMAIN wire : wire[i] \in Frame \cup {limited}
    BY DEF WireInv
  <2> QED BY <2>1, FrameFacts
<1>6. closed \in {"open", "unmounted", "flood", "slow", "ack", "range", "panics", "away"}
  BY DEF ClosedInv
<1>7. UNION {applied, named, dropped} \subseteq EventID
  BY DEF MailInv, EdgesInv
<1> HIDE DEF SessionInv
<1> QED BY <1>1, <1>2, <1>3, <1>4, <1>5, <1>6, <1>7 DEF TypeOK

\* A region whose current markup differs from the markup last delivered stays
\* marked until a frame with it is sent or its render fails: whatever emitPatch
\* defers, coalesces, suppresses or has refused, whatever else fails in the same
\* pass and whatever is rendered twice, Renderer.Discard and the dirty set keep it.
THEOREM StaleRegionsStayDirty == Spec => []StaleRegionsAreDirty
<1>1. SessionInv => StaleRegionsAreDirty
  BY SessionTypes DEF SessionInv, Marked, StaleRegionsAreDirty
<1> QED BY SessionInvariance, <1>1, PTL

\* The page in the browser is the one the server sent with the last frame that
\* the runtime applied: a frame is applied only to the page it was made from, or
\* carries the region.  The hashes of Renderer.Commit drift from what the client
\* holds in one case only: a region that a resync snapshot superseded without
\* carrying it, because its render failed, until a frame carries it.
THEOREM ClientFollowsServer == Spec => []ClientShowsWhatWasSent
<1>1. SessionInv => ClientShowsWhatWasSent
  BY DEF SessionInv, ClientInv, ClientShowsWhatWasSent
<1> QED BY SessionInvariance, <1>1, PTL

\* No sequence is declared superseded twice: resync starts each range after the
\* last snapshot, and a range ends before the snapshot that declares it.
THEOREM RangesStayDisjoint == Spec => []RangesAreDisjoint
<1>1. SessionInv => RangesAreDisjoint
  BY DEF SessionInv, SentInv
<1> QED BY SessionInvariance, <1>1, PTL

\* The runtime never passes a sequence that it neither applied nor had declared
\* superseded by the snapshot it applied.
THEOREM SequencesStayAccounted == Spec => []SequencesAreAccounted
<1>1. SessionInv => SequencesAreAccounted
  BY DEF SessionInv, ClientInv, SequencesAreAccounted
<1> QED BY SessionInvariance, <1>1, PTL

\* The identifier of an event whose transition took place is named by a frame,
\* owed to the next one, or dropped with the error that redefer logs.
THEOREM EventsStayAttributed == Spec => []NothingIsUnattributed
<1>1. SessionInv => NothingIsUnattributed
  BY DEF SessionInv
<1> QED BY SessionInvariance, <1>1, PTL

\* onAck never takes an acknowledgement of the runtime for a violation of the
\* protocol, repeated and dropped acknowledgements included.
THEOREM HonestClientsStay == Spec => []HonestAcksAreValid
<1>1. SessionInv => HonestAcksAreValid
  BY DEF SessionInv, ClosedInv, HonestAcksAreValid
<1> QED BY SessionInvariance, <1>1, PTL
=============================================================================
