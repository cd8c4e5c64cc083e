---------------------------- MODULE GotthSession ----------------------------
(***************************************************************************)
(* One live session of GoTTH: the actor that owns a connection's state     *)
(* (pkg/gotth/internal/session), its renderer (pkg/gotth/internal/render)  *)
(* and the runtime in the browser (pkg/gotth/client/runtime.js).           *)
(*                                                                         *)
(* The actor handles one message, acknowledgement or tick at a time, and   *)
(* picks among them in any order.  What the client sends is on the         *)
(* mailbox or the acknowledgement channel at once: a delay on the way to   *)
(* the server is a delay in these queues.  What the server sends is on the *)
(* wire until the client handles it.  Only a patch can be lost: that is    *)
(* the gap the client is built to survive.                                 *)
(*                                                                         *)
(* Markup stands for the bytes of a fragment, and a client event for the   *)
(* identifier the server gave it.  A connection ends its session, so one   *)
(* session is modelled from its mount to its close.                        *)
(***************************************************************************)
EXTENDS Integers, Sequences, FiniteSets, SequencesExt

CONSTANTS
    Fragment,         \* the regions of the page
    Collection,       \* the regions with children of their own
    Page,             \* the pages the application may show: the markup of each region
    NoMarkup,         \* what is known of a region the session has not delivered
    MailboxDepth,     \* Limits.MailboxDepth
    AckChannelDepth,  \* Limits.AckChannelDepth
    AckWindow,        \* Limits.AckWindow
    CoalesceFlushAt,  \* Limits.CoalesceFlushAt
    Ceiling,          \* protocol.CoalesceFlushCeiling, the bound of the schema
    ResyncBurst,      \* Limits.ResyncBurst
    PanicBudget,      \* Limits.PanicBudget
    MaxEvents,        \* bound: events the user causes
    MaxEmits,         \* bound: events the effects emit
    MaxChanges,       \* bound: transitions that change the page
    MaxLosses,        \* bound: patches lost on the way
    MaxOversized,     \* bound: frames too large for the schema
    MaxIncidents      \* bound: events, losses and failing renders together

Markup == UNION {Range(p) : p \in Page}

ASSUME PageAssumption ==
    /\ IsFiniteSet(Fragment) /\ Collection \subseteq Fragment
    /\ Page # {}
    /\ \A p \in Page : p = [f \in Fragment |-> p[f]]
    /\ NoMarkup \notin Markup

ASSUME LimitsAssumption ==
    /\ {MailboxDepth, AckChannelDepth, AckWindow, ResyncBurst, PanicBudget} \subseteq Nat \ {0}
    /\ Ceiling \in Nat /\ CoalesceFlushAt \in 1 .. Ceiling - 1
    /\ {MaxEvents, MaxEmits, MaxChanges, MaxLosses, MaxOversized, MaxIncidents} \subseteq Nat

VARIABLES
    \* The application and its renderer: the markup of the current state, the
    \* markup last delivered, the fragments waiting to be rendered, and the
    \* failures charged to the panic budget.
    page, hashes, dirty, panics,
    \* The actor: the deferred origin (at most one) and the identifiers owed to
    \* the next emission, the stages of backpressure and the snapshot floor.
    pendingOrig, pendingIDs, coalesceHeld, slowNotified, fullSince,
    lastSnapshotSeq,
    \* The window: the last sequence sent and the last one acknowledged.
    serverSeq, acked,
    \* The resync bucket.
    tokens, resyncDenied,
    \* The queues into the actor and the wire to the client.
    mailbox, acks, wire,
    \* The client.
    seq, gap, gapTimer, dom,
    \* Why the session ended, or "open".
    closed,
    \* What happened: events minted, emitted, patches lost, frames refused,
    \* events whose transition took place, identifiers named on the wire or
    \* dropped, superseded ranges, sequences the client can account for, the
    \* page it should be showing, the regions whose last render failed, and the
    \* regions whose last word to the client was a snapshot without them that
    \* superseded what it had missed.
    eventSeq, emits, changes, losses, oversized, refused, applied, named, dropped,
    ranges, accounted, expected, failed, skipped

view == <<page, hashes, dirty, panics, failed>>
deferral == <<pendingOrig, pendingIDs, coalesceHeld>>
bucket == <<tokens, resyncDenied>>
client == <<seq, gap, gapTimer, dom, accounted, expected, skipped>>
sent == <<serverSeq, lastSnapshotSeq, named, dropped, ranges, oversized, refused>>
minted == <<eventSeq, emits, changes, losses>>
vars == <<view, deferral, slowNotified, fullSince, acked, bucket, mailbox, acks,
          wire, client, sent, closed, minted, applied>>

\* An identifier of a client event, of the requests to resync (which share
\* one) and none.
Resync == MaxEvents + 1
EventID == 1 .. Resync
NoEvent == 0

\* The cause of a patch and the events that contribute to it.
Origin == [event : EventID \cup {NoEvent}, contributing : Seq(EventID)]
Timer == [event |-> NoEvent, contributing |-> <<>>]

open == closed = "open"

\* A bound: whether something more may happen in this session.
eventful == eventSeq + emits + losses + panics < MaxIncidents

-----------------------------------------------------------------------------
(* The window and the identifiers owed to the next emission.  A handler fixes
   acked' and page' first; the operators below read those. *)

depth == serverSeq - acked'
full == depth >= AckWindow
coalescing == depth >= AckWindow \div 2

\* noteFullness only matters by whether a full window has been seen.
noteFullness == fullSince' = full

\* takePending: what an emission with origin o takes over.
takePending(o) ==
    IF pendingOrig = <<>>
    THEN pendingIDs
    ELSE LET prev == Head(pendingOrig)
             own == IF prev.event \in {NoEvent, o.event} THEN <<>> ELSE <<prev.event>>
         IN  pendingIDs \o own \o prev.contributing

\* The k-th smallest of a set of numbers.
ranked(S, k) == CHOOSE i \in S : Cardinality({j \in S : j <= i}) = k

\* unionEdges: in first-seen order, without duplicates and without the origin's
\* own event.
unionEdges(o, deferred) ==
    LET all == o.contributing \o deferred
        kept == {i \in DOMAIN all : /\ all[i] # o.event
                                    /\ \A j \in 1 .. i - 1 : all[j] # all[i]}
    IN  [k \in 1 .. Cardinality(kept) |-> all[ranked(kept, k)]]

\* unionReaches, asked of the frame this emission would build.
mustFlush(o) ==
    Cardinality((ToSet(o.contributing) \cup ToSet(takePending(o))) \ {o.event}) >= CoalesceFlushAt

deferPatch(o) ==
    /\ pendingIDs' = pendingIDs \o
           (IF pendingOrig = <<>> THEN <<>>
            ELSE LET prev == Head(pendingOrig)
                 IN  (IF prev.event = NoEvent THEN <<>> ELSE <<prev.event>>)
                     \o prev.contributing)
    /\ pendingOrig' = <<o>>

\* Mutant of redefer: what was taken is not put back.
redeferForgets(o, contributing) ==
    /\ pendingIDs' = <<>>
    /\ pendingOrig' = <<o>>
    /\ UNCHANGED dropped

\* redefer puts back what takePending took, up to the ceiling.
redefer(o, contributing) ==
    /\ pendingIDs' = SubSeq(contributing, 1,
                            IF Len(contributing) > Ceiling THEN Ceiling ELSE Len(contributing))
    /\ pendingOrig' = <<o>>
    /\ dropped' = dropped \cup (ToSet(contributing)
                    \ (ToSet(pendingIDs') \cup ToSet(o.contributing) \cup {o.event}))

-----------------------------------------------------------------------------
(* Emission. *)

\* The page with some of its fragments replaced.
over(old, updates) ==
    [f \in Fragment |-> IF f \in DOMAIN updates THEN updates[f] ELSE old[f]]

\* post never blocks: a full mailbox drops the message.
post(mb, m) == IF Len(mb) < MailboxDepth THEN Append(mb, m) ELSE mb

\* send succeeds: the hashes are committed and the union is on the wire.
sendOK(kind, o, updates, from, through) ==
    LET contributing == unionEdges(o, takePending(o))
        n == serverSeq + 1
    IN  /\ Len(contributing) <= Ceiling
        /\ serverSeq' = n
        /\ hashes' = over(hashes, updates)
        /\ wire' = Append(wire, [kind |-> kind, seq |-> n, from |-> from,
                                 through |-> through, updates |-> updates,
                                 page |-> hashes'])
        /\ lastSnapshotSeq' = IF kind = "snapshot" THEN n ELSE lastSnapshotSeq
        /\ ranges' = IF from = 0 THEN ranges ELSE ranges \cup {<<from, through>>}
        /\ named' = named \cup ToSet(contributing) \cup ({o.event} \ {NoEvent})
        /\ pendingOrig' = <<>>
        /\ pendingIDs' = <<>>
        /\ dirty' = {}
        /\ UNCHANGED <<dropped, oversized, refused>>

\* Mutant of sendInvalid: the fragments are not marked again.
sendInvalidForgets(kind, o, updates) ==
    LET contributing == unionEdges(o, takePending(o))
        tooMany == Len(contributing) > Ceiling
    IN  /\ tooMany \/ oversized < MaxOversized
        /\ oversized' = IF tooMany THEN oversized ELSE oversized + 1
        /\ refused' = (refused \/ kind = "snapshot")
        /\ redefer([o EXCEPT !.contributing = contributing], takePending(o))
        /\ dirty' = {}
        /\ UNCHANGED <<serverSeq, hashes, wire, lastSnapshotSeq, ranges, named>>

\* Mutant of sendInvalid: the hashes are committed before the frame is sent.
sendInvalidCommits(kind, o, updates) ==
    LET contributing == unionEdges(o, takePending(o))
        tooMany == Len(contributing) > Ceiling
    IN  /\ tooMany \/ oversized < MaxOversized
        /\ oversized' = IF tooMany THEN oversized ELSE oversized + 1
        /\ refused' = (refused \/ kind = "snapshot")
        /\ redefer([o EXCEPT !.contributing = contributing], takePending(o))
        /\ dirty' = {}
        /\ hashes' = over(hashes, updates)
        /\ UNCHANGED <<serverSeq, wire, lastSnapshotSeq, ranges, named>>

\* send refuses a frame the schema does not allow: its union is too long, or
\* its markup.  The markup is rendered again later and the union is owed.
sendInvalid(kind, o, updates) ==
    LET contributing == unionEdges(o, takePending(o))
        tooMany == Len(contributing) > Ceiling
    IN  /\ tooMany \/ oversized < MaxOversized
        /\ oversized' = IF tooMany THEN oversized ELSE oversized + 1
        /\ refused' = (refused \/ kind = "snapshot")
        /\ redefer([o EXCEPT !.contributing = contributing], takePending(o))
        /\ dirty' = DOMAIN updates
        /\ UNCHANGED <<serverSeq, hashes, wire, lastSnapshotSeq, ranges, named>>

\* Renderer.render over the considered fragments, without the ones that fail and,
\* but for RenderAll, without the ones that show what the client already has.
renderPass(considered, failing, all) ==
    [f \in {g \in considered \ failing : all \/ page'[g] # hashes[g]} |-> page'[f]]

\* A failing fragment is not marked again; each failure is charged.  The client
\* makes nothing of the error frame that reports them.
noteRenderFailures(considered, failing, again) ==
    /\ failing # {} => eventful
    /\ failed' = (failed \ considered) \cup failing
    /\ panics' = panics + Cardinality(failing) + Cardinality(again)

\* notePanic: the budget ends the session.
notePanic == closed' = IF panics' >= PanicBudget THEN "panics" ELSE closed

\* The emitting part of emitPatch.  The children of a changed collection may need
\* more updates than a patch has room for: everything is rendered again then.
emit(o, d) ==
    \E all \in BOOLEAN :
    \E failing \in SUBSET (IF all THEN Fragment ELSE d) :
       LET considered == IF all THEN Fragment ELSE d
           updates == renderPass(considered, failing, all)
       IN  /\ all => \E f \in (Collection \cap d) \ failing : page'[f] # hashes[f]
           /\ noteRenderFailures(considered, failing, IF all THEN failing \cap d ELSE {})
           /\ IF DOMAIN updates = {}
              THEN /\ redefer(o, takePending(o))
                   /\ dirty' = {}
                   /\ UNCHANGED <<hashes, wire, serverSeq, lastSnapshotSeq, named, ranges,
                                  oversized, refused>>
              ELSE sendOK("patch", o, updates, 0, 0) \/ sendInvalid("patch", o, updates)

\* A transition that is not emitted now: its origin is owed to the next frame.
defer(o, d) ==
    /\ deferPatch(o)
    /\ dirty' = d
    /\ UNCHANGED <<hashes, panics, failed, wire, sent>>

\* emitPatch with the stages of backpressure.  d are the dirty fragments, held
\* and slow the flags, mb the mailbox as the handler left them.
emitPatch(o, forced, d, held, slow, mb) ==
    \/ /\ full /\ ~mustFlush(o)
       /\ slowNotified' = TRUE
       /\ mailbox' = IF slow THEN mb ELSE post(mb, [kind |-> "slow", origin |-> Timer])
       /\ coalesceHeld' = held
       /\ noteFullness
       /\ defer(o, d)
    \/ /\ ~full /\ ~mustFlush(o)
       /\ coalescing /\ ~forced /\ ~held
       /\ slowNotified' = slow
       /\ mailbox' = mb
       /\ coalesceHeld' = TRUE
       /\ noteFullness
       /\ defer(o, d)
    \/ /\ \/ mustFlush(o)
          \/ ~full /\ (~coalescing \/ forced \/ held)
       /\ slowNotified' = slow
       /\ mailbox' = mb
       /\ coalesceHeld' = FALSE
       /\ fullSince' = IF forced THEN full ELSE fullSince
       /\ emit(o, d)

\* A snapshot carries every fragment that can be rendered.
emitSnapshot(o, from, through) ==
    \E failing \in SUBSET Fragment :
       LET updates == renderPass(Fragment, failing, TRUE)
       IN  /\ noteRenderFailures(Fragment, failing, {})
           /\ \/ sendOK("snapshot", o, updates, from, through)
              \/ sendInvalid("snapshot", o, updates)

-----------------------------------------------------------------------------
(* The handlers of the actor. *)

\* mount: the first frame is a snapshot, or the session is closed.
mount ==
    /\ open /\ serverSeq = 0
    /\ UNCHANGED <<coalesceHeld, slowNotified, fullSince, bucket, mailbox, acks, client,
                   minted, applied>>
    /\ UNCHANGED <<page, acked>>
    /\ emitSnapshot(Timer, 0, 0)
    /\ IF serverSeq' = 0 THEN closed' = "unmounted" ELSE notePanic

mounted == open /\ serverSeq > 0

\* transition: the reducer moves the page, the renderer marks what changed and
\* perhaps more, and the patch is emitted or deferred.
transition ==
    /\ mounted /\ mailbox # <<>> /\ Head(mailbox).kind # "resync"
    /\ UNCHANGED <<bucket, acks, client, eventSeq, emits, losses>>
    /\ LET o == Head(mailbox).origin IN
       \E marked \in SUBSET Fragment :
          /\ page' \in Page
          /\ \A f \in Fragment \ marked : page'[f] = page[f]
          /\ changes' = IF page' = page THEN changes ELSE changes + 1
          /\ changes' <= MaxChanges
          /\ UNCHANGED acked
          /\ applied' = applied \cup ({o.event} \ {NoEvent})
          /\ emitPatch(o, FALSE, dirty \cup marked, coalesceHeld, slowNotified, Tail(mailbox))
    /\ notePanic

\* The reducer panics: the state stays as it was.
reducePanics ==
    /\ mounted /\ mailbox # <<>> /\ Head(mailbox).kind # "resync"
    /\ mailbox' = Tail(mailbox)
    /\ UNCHANGED <<view, deferral, slowNotified, fullSince, acked, bucket, acks, wire,
                   client, sent, closed, minted, applied>>

limited == [kind |-> "limited"]

\* resync: refused by its bucket, without a gap, or answered by a snapshot that
\* supersedes what the client cannot have applied.
resyncDeny ==
    /\ tokens = 0
    /\ resyncDenied' = resyncDenied + 1
    /\ wire' = Append(wire, limited)
    /\ closed' = IF resyncDenied' >= 3 * ResyncBurst THEN "flood" ELSE closed
    /\ UNCHANGED <<view, pendingOrig, pendingIDs, sent, tokens>>

\* Mutant of resyncFloor: the last snapshot is not considered.
resyncFloorStale(n) == Max({n, acked})

\* The last sequence that a request from seq n can be missing nothing before.
resyncFloor(n) == Max({n, acked, lastSnapshotSeq})

resyncNoop(n) ==
    /\ resyncFloor(n) >= serverSeq
    /\ UNCHANGED <<view, pendingOrig, pendingIDs, sent, wire>>

\* Mutant of resyncSnapshot: the range ends one too early.
resyncSnapshotShort(n) ==
    /\ resyncFloor(n) < serverSeq
    /\ UNCHANGED page
    /\ emitSnapshot([event |-> Resync, contributing |-> <<>>], resyncFloor(n) + 1, serverSeq - 1)

resyncSnapshot(n) ==
    /\ resyncFloor(n) < serverSeq
    /\ UNCHANGED page
    /\ emitSnapshot([event |-> Resync, contributing |-> <<>>], resyncFloor(n) + 1, serverSeq)

resync ==
    /\ mounted /\ mailbox # <<>> /\ Head(mailbox).kind = "resync"
    /\ mailbox' = Tail(mailbox)
    /\ UNCHANGED <<coalesceHeld, slowNotified, fullSince, acked, acks, client, minted,
                   applied>>
    /\ \/ resyncDeny
       \/ /\ tokens > 0
          /\ tokens' = tokens - 1 /\ resyncDenied' = 0
          /\ resyncNoop(Head(mailbox).last) \/ resyncSnapshot(Head(mailbox).last)
          /\ notePanic

\* The origin of an emission no message caused.
owedOrigin == IF pendingOrig = <<>> THEN Timer ELSE Head(pendingOrig)

\* Mutant of ackInvalid: a repeated acknowledgement is refused.
ackInvalidRepeated(n) == n > serverSeq \/ n <= acked

\* An acknowledgement of what was never sent, or that goes back.
ackInvalid(n) == n > serverSeq \/ n < acked

\* onAck: an acknowledgement that re-opens the window onto pending work emits.
onAck ==
    /\ mounted /\ acks # <<>>
    /\ acks' = Tail(acks)
    /\ UNCHANGED <<bucket, client, minted, applied>>
    /\ LET n == Head(acks) IN
       IF ackInvalid(n)
       THEN /\ closed' = "ack"
            /\ UNCHANGED <<view, deferral, slowNotified, fullSince, acked, mailbox, wire, sent>>
       ELSE /\ acked' = n
            /\ UNCHANGED page
            /\ LET held == coalesceHeld /\ coalescing IN
               IF full \/ dirty = {}
               THEN /\ coalesceHeld' = held
                    /\ noteFullness
                    /\ UNCHANGED <<hashes, dirty, panics, failed, pendingOrig, pendingIDs,
                                   slowNotified, mailbox, wire, sent>>
               ELSE emitPatch(owedOrigin, TRUE, dirty, held, FALSE,
                       IF slowNotified
                       THEN post(mailbox, [kind |-> "recovered", origin |-> Timer])
                       ELSE mailbox)
            /\ notePanic

\* onTick: a window that stays full past the grace period ends the session;
\* otherwise deferred work is flushed.
evict ==
    /\ full /\ fullSince
    /\ closed' = "slow"
    /\ UNCHANGED <<view, deferral, slowNotified, fullSince, mailbox, wire, sent>>

\* Mutant of flush: the tick leaves deferred work to an acknowledgement.
flushNever ==
    /\ UNCHANGED closed
    /\ noteFullness
    /\ UNCHANGED <<view, deferral, slowNotified, mailbox, wire, sent>>

flush ==
    /\ IF full \/ dirty = {}
       THEN /\ noteFullness
            /\ UNCHANGED <<view, deferral, slowNotified, mailbox, wire, sent>>
       ELSE /\ UNCHANGED page
            /\ emitPatch(owedOrigin, TRUE, dirty, coalesceHeld, slowNotified, mailbox)
    /\ notePanic

tickLeaves == <<acked, bucket, acks, client, minted, applied>>

onTick ==
    /\ mounted
    /\ UNCHANGED tickLeaves
    /\ evict \/ flush

\* Time refills the resync bucket.
refill ==
    /\ mounted /\ tokens < ResyncBurst
    /\ tokens' = tokens + 1
    /\ UNCHANGED <<view, deferral, slowNotified, fullSince, acked, resyncDenied, mailbox,
                   acks, wire, client, sent, closed, minted, applied>>

-----------------------------------------------------------------------------
(* The client, and what its frames do at the server's ingress. *)

server == <<view, deferral, slowNotified, fullSince, acked, bucket, sent, applied>>

\* ingressAck: an acknowledgement that finds the channel full is dropped.
sendAck(n) == acks' = IF Len(acks) < AckChannelDepth THEN Append(acks, n) ELSE acks

\* ask and ingressResync: a request that finds the mailbox full is refused.
\* w is the wire without the frame being handled.
ask(w) ==
    IF Len(mailbox) < MailboxDepth
    THEN /\ mailbox' = Append(mailbox, [kind |-> "resync", last |-> seq])
         /\ wire' = w
    ELSE /\ wire' = Append(w, limited)
         /\ UNCHANGED mailbox

\* The range of a snapshot begins where the client stands.
rangeMeets(f) ==
    IF f.from = 0 THEN f.through = 0
    ELSE f.from = seq + 1 /\ f.from <= f.through /\ f.through < f.seq

\* applied: the frame moves the client forward, ends a gap and is acknowledged,
\* or the client closes the connection.
apply(f) ==
    IF f.seq > seq /\ rangeMeets(f)
    THEN /\ seq' = f.seq
         /\ dom' = over(dom, f.updates)
         /\ gap' = FALSE
         /\ gapTimer' = FALSE
         /\ sendAck(f.seq)
         /\ expected' = f.page
         /\ skipped' = (IF f.from = 0 THEN skipped ELSE Fragment) \ DOMAIN f.updates
         /\ accounted' = accounted \cup {f.seq} \cup (IF f.from = 0 THEN {} ELSE f.from .. f.through)
         /\ UNCHANGED closed
    ELSE /\ closed' = "range"
         /\ UNCHANGED <<client, acks>>

\* A patch that does not follow is discarded: the gap is latched, the snapshot
\* asked for once, and what the client has acknowledged again.
discard(w) ==
    /\ gap' = TRUE
    /\ IF gap THEN wire' = w /\ UNCHANGED mailbox ELSE ask(w)
    /\ sendAck(seq)
    /\ UNCHANGED <<seq, gapTimer, dom, accounted, expected, skipped, closed>>

onMessage ==
    /\ open /\ wire # <<>>
    /\ UNCHANGED <<server, minted>>
    /\ LET f == Head(wire)
           w == Tail(wire)
       IN  \/ /\ f.kind = "snapshot" \/ (f.kind = "patch" /\ f.seq = seq + 1)
              /\ apply(f)
              /\ wire' = w
              /\ UNCHANGED mailbox
           \/ /\ f.kind = "patch" /\ f.seq # seq + 1
              /\ discard(w)
           \/ /\ f.kind = "limited"
              /\ gapTimer' = (gapTimer \/ gap)
              /\ wire' = w
              /\ UNCHANGED <<seq, gap, dom, accounted, expected, skipped, acks, mailbox, closed>>

\* The armed retry of a refused request.
retry ==
    /\ open /\ gapTimer
    /\ gapTimer' = FALSE
    /\ ask(wire)
    /\ UNCHANGED <<server, seq, gap, dom, accounted, expected, skipped, acks, closed, minted>>

\* sendEvent and ingressEvent: nothing is sent before the first snapshot; the
\* event is refused by its bucket or by a full mailbox, or queued.
sendEvent ==
    /\ open /\ seq # 0 /\ eventSeq < MaxEvents /\ eventful
    /\ eventSeq' = eventSeq + 1
    /\ \/ /\ wire' = Append(wire, limited)
          /\ UNCHANGED mailbox
       \/ /\ Len(mailbox) < MailboxDepth
          /\ mailbox' = Append(mailbox, [kind |-> "event",
                            origin |-> [event |-> eventSeq', contributing |-> <<>>]])
          /\ UNCHANGED wire
    /\ UNCHANGED <<server, acks, client, closed, emits, changes, losses>>

\* emitter: an effect scheduled by an earlier transition emits an event of its
\* own; a full mailbox refuses it.
emitter ==
    /\ mounted /\ emits < MaxEmits /\ eventful
    /\ Len(mailbox) < MailboxDepth
    /\ emits' = emits + 1
    /\ \E scheduledBy \in {<<>>} \cup {<<e>> : e \in applied} :
          mailbox' = Append(mailbox, [kind |-> "effect",
                        origin |-> [event |-> NoEvent, contributing |-> scheduledBy]])
    /\ UNCHANGED <<server, acks, wire, client, closed, eventSeq, changes, losses>>

\* A patch is lost on its way.
lose ==
    /\ open /\ losses < MaxLosses /\ eventful
    /\ wire # <<>> /\ Head(wire).kind = "patch"
    /\ losses' = losses + 1
    /\ wire' = Tail(wire)
    /\ UNCHANGED <<server, mailbox, acks, client, closed, eventSeq, emits, changes>>

\* Close: the connection fails or its client leaves, falls silent or idles, the
\* reducer's or a declaration's panics spend the budget, or the server stops.
\* What is queued or on the wire is never handled.
Close ==
    /\ open
    /\ closed' = "away"
    /\ mailbox' = <<>> /\ acks' = <<>> /\ wire' = <<>>
    /\ UNCHANGED <<server, client, minted>>

Init ==
    /\ page = CHOOSE p \in Page : TRUE
    /\ hashes = [f \in Fragment |-> NoMarkup]
    /\ dirty = Fragment /\ panics = 0 /\ failed = {}
    /\ pendingOrig = <<>> /\ pendingIDs = <<>>
    /\ coalesceHeld = FALSE /\ slowNotified = FALSE /\ fullSince = FALSE
    /\ serverSeq = 0 /\ acked = 0 /\ lastSnapshotSeq = 0
    /\ tokens = ResyncBurst /\ resyncDenied = 0
    /\ mailbox = <<>> /\ acks = <<>> /\ wire = <<>>
    /\ seq = 0 /\ gap = FALSE /\ gapTimer = FALSE
    /\ dom = hashes /\ expected = hashes /\ skipped = {}
    /\ closed = "open"
    /\ eventSeq = 0 /\ emits = 0 /\ changes = 0 /\ losses = 0 /\ oversized = 0 /\ refused = FALSE
    /\ applied = {} /\ named = {} /\ dropped = {} /\ ranges = {} /\ accounted = {}

Next ==
    \/ mount \/ transition \/ reducePanics \/ resync \/ onAck \/ onTick \/ refill
    \/ onMessage \/ retry \/ sendEvent \/ emitter \/ lose \/ Close

Spec == Init /\ [][Next]_vars

\* The actor's loop and the browser run, ticks and timers fire and time refills
\* the bucket.  Users, effects and the network owe nothing.
Fairness ==
    /\ WF_vars(mount \/ transition \/ reducePanics \/ resync \/ onAck)
    /\ WF_vars(onMessage \/ retry \/ refill)
    /\ WF_vars(onTick)
    /\ WF_vars(mounted /\ UNCHANGED tickLeaves /\ evict)

LiveSpec == Spec /\ Fairness

-----------------------------------------------------------------------------
\* The state of the session, of its queues and of the client is well formed.
TypeOK ==
    /\ page \in Page
    /\ {hashes, dom, expected} \subseteq [Fragment -> Markup \cup {NoMarkup}]
    /\ UNION {dirty, failed, skipped} \subseteq Fragment
    /\ Len(pendingOrig) <= 1 /\ ToSet(pendingOrig) \subseteq Origin
    /\ pendingIDs \in Seq(EventID)
    /\ {coalesceHeld, slowNotified, fullSince, gap, gapTimer, refused} \subseteq BOOLEAN
    /\ {serverSeq, acked, lastSnapshotSeq, seq, resyncDenied, panics} \subseteq Nat
    /\ tokens \in 0 .. ResyncBurst
    /\ Len(mailbox) <= MailboxDepth /\ acks \in Seq(Nat) /\ Len(acks) <= AckChannelDepth
    /\ \A i \in DOMAIN wire : wire[i].kind \in {"snapshot", "patch", "limited"}
    /\ closed \in {"open", "unmounted", "flood", "slow", "ack", "range", "panics",
                  "away"}
    /\ UNION {applied, named, dropped} \subseteq EventID

\* A region whose current markup differs from the markup the renderer believes
\* the client holds is waiting to be rendered: deferral, coalescing, suppression
\* and a refused frame (Discard) never forget a change.  Only a region whose last
\* render failed may differ and not wait: render() does not mark it again.
\* It includes the type invariant.
StaleRegionsAreDirty ==
    /\ TypeOK
    /\ serverSeq > 0 =>
          \A f \in Fragment : page[f] # hashes[f] => f \in dirty \cup failed

\* Whatever was lost, refused, suppressed or superseded, the page in the browser
\* is the one the server sent with the last frame applied: hashes[f] means "the
\* bytes the client holds" (Renderer.Commit), in every region but those that a
\* resync snapshot superseded without carrying them, because their render failed,
\* and that no frame has carried since.
ClientShowsWhatWasSent == \A f \in Fragment \ skipped : dom[f] = expected[f]

\* The ranges that two snapshots declare superseded share no sequence: resync
\* starts each after the client's position, what it acknowledged and the last
\* snapshot, so a repeated or late request never supersedes a frame twice.
RangesAreDisjoint ==
    \A r, s \in ranges : r = s \/ r[2] < s[1] \/ s[2] < r[1]

\* Every sequence up to the client's was applied by it or declared superseded by
\* a snapshot it applied: none is skipped silently.
SequencesAreAccounted == 1 .. seq \subseteq accounted

\* An event whose transition took place is named by a frame on the wire, owed to
\* the next one, or was dropped with the error redefer logs: none of the exits
\* that emit nothing loses it.
NothingIsUnattributed == applied \subseteq named \cup ToSet(takePending(Timer)) \cup dropped

\* A client that follows the protocol, losing patches and repeating itself
\* included, never acknowledges what onAck takes for a protocol violation.
HonestAcksAreValid == closed # "ack"

\* The last frame was lost and nothing follows it that would reveal the gap.
tailLost ==
    ~gap /\ seq < serverSeq /\ \A i \in DOMAIN wire : wire[i].kind = "limited"

\* More events are owed than one frame may name.
tooLong == Len(unionEdges(Timer, takePending(Timer))) > Ceiling

\* The browser keeps catching up with the application while the session lasts.
\* The only ways to stay behind are the loss of the last frame, a snapshot that
\* was refused after the gap was latched, a union past the schema's ceiling, and,
\* for one region, a render that failed: the last one of the region, or the one
\* for the snapshot that superseded what the client had missed of it.
Converges ==
    []<>(\/ \A f \in Fragment \ (failed \cup skipped) : dom[f] = page[f]
         \/ ~open \/ refused \/ tailLost \/ tooLong)
=============================================================================
