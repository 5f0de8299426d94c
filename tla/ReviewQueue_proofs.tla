------------------------- MODULE ReviewQueue_proofs -------------------------
(***************************************************************************)
(* Theorems about ReviewQueue, for any items, extractions, processes and   *)
(* bounds.  An entry of the queue travels: it is read into snapshots and   *)
(* into the run of W5, and written back by processes that know nothing of  *)
(* each other.  The invariant is therefore one about entries, wherever     *)
(* they are.                                                               *)
(***************************************************************************)
EXTENDS ReviewQueue, TLAPS

\* An entry in itself: the gate is one that W4 may take of its candidate, an
\* approval seals the subject, an overlay is the one compiled into the candidate,
\* and a structural chain is not compiled but re-extracted.
Sane(e) ==
    /\ e \in EntryType
    /\ e.gate \in Verdicts[e.subject.draft]
    /\ e.status = "approved" => e.seal = e.subject /\ e.action \in Approval
    /\ e.subject.applied # None => e.subject.included = e.subject.applied
    /\ IsStructural(e) => e.subject.applied = None
    /\ e.request # None => IsStructural(e)
    /\ e.subject.events = << >> => e.subject.included = << >>

\* Only trace items are corrected: what another item binds is its extraction.
Uncorrected(i, e) ==
    i \notin TraceItem =>
        /\ e.request = None
        /\ e.subject = [base |-> e.subject.draft, draft |-> e.subject.draft,
                        included |-> << >>, events |-> << >>, applied |-> None]

\* A human gave the approval that the entry carries.
Given(i, e, A) ==
    e.status = "approved" =>
        \E a \in A : a.item = i /\ a.subject = e.subject /\ a.action = e.action

Fine(i, e, A) == e # None => Sane(e) /\ Uncorrected(i, e) /\ Given(i, e, A)

\* What W5 may leave in the graph.
Merged(n, A) ==
    /\ n.subject.included = n.subject.events
    /\ n.execute => n.item \notin Document
    /\ \E a \in A : /\ a.item = n.item
                    /\ a.subject = n.subject
                    /\ n.execute => Releases(a)

\* The inductive invariant.
EntriesFine ==
    /\ \A i \in Item : Fine(i, queue[i], approvals)
    /\ \A p \in Clerk \cup {W5} : snapshot[p] # None =>
           \A i \in Item : Fine(i, snapshot[p][i], approvals)
    /\ \A i \in Item : Fine(i, job.taken[i], approvals)
TakenIsKnown == job.unaudited # None => job.taken[job.unaudited] # None
GraphMerged == \A o \in Object : graph[o] # None => Merged(graph[o], approvals)
IInv == TypeOK /\ EntriesFine /\ TakenIsKnown /\ GraphMerged
-----------------------------------------------------------------------------
USE ItemAssumption, BoundAssumption, NoneAssumption

\* The fields of an entry whose decision has been withdrawn.
LEMMA UnsealedFields ==
    ASSUME NEW e \in EntryType, NEW st \in Status
    PROVE  /\ Unsealed(e, st) \in EntryType
           /\ Unsealed(e, st).status = st
           /\ Unsealed(e, st).subject = e.subject
           /\ Unsealed(e, st).request = e.request
           /\ Unsealed(e, st).gate = e.gate
  BY DEF Unsealed, EntryType

\* Withdrawing a decision keeps an entry fine.
LEMMA UnsealedFine ==
    ASSUME NEW i \in Item, NEW e, NEW A, NEW B, Sane(e), Uncorrected(i, e),
           NEW st \in Status \ {"approved"}
    PROVE  Unsealed(e, st) \in EntryType /\ Fine(i, Unsealed(e, st), B)
  <1>1. e \in EntryType
    BY DEF Sane
  <1> QED
    BY <1>1, UnsealedFields DEF Fine, Sane, Uncorrected, Given, IsStructural

\* A new item is fine.
LEMMA BuiltFine ==
    ASSUME NEW i \in Item, NEW x \in Extraction, NEW g \in Verdicts[x], NEW A
    PROVE  /\ Fine(i, Built(i, x, g), A)
           /\ Sane(Built(i, x, g)) /\ Uncorrected(i, Built(i, x, g))
  <1>1. Base(i, x) \in Extraction \cup {Bundle[y] : y \in Extraction}
    BY DEF Base
  <1>2. << >> \in Seq(Event)
    OBVIOUS
  <1>3. Built(i, x, g).subject \in SubjectType
    BY <1>1, <1>2 DEF Built, SubjectType
  <1>4. Built(i, x, g) \in EntryType
    <2>1. g \in Gate
      OBVIOUS
    <2> QED
      BY <1>3, <2>1 DEF Built, EntryType, Status
  <1>5. Sane(Built(i, x, g))
    BY <1>4 DEF Sane, Built
  <1>6. Uncorrected(i, Built(i, x, g))
    BY DEF Uncorrected, Built, Base
  <1> QED
    BY <1>5, <1>6 DEF Fine, Given, Built

\* The fields of an entry that inherits the decision on another.
LEMMA InheritFields ==
    ASSUME NEW i \in Item, NEW old \in EntryType, NEW new \in EntryType
    PROVE  LET h == Inherit(i, old, new)
           IN  /\ h \in EntryType
               /\ h.status = old.status /\ h.action = old.action /\ h.seal = old.seal
               /\ h.request = new.request /\ h.gate = new.gate
               /\ h.subject = [new.subject EXCEPT
                      !.events = IF i \in TraceItem THEN old.subject.events ELSE << >>]
  <1> DEFINE ev == IF i \in TraceItem THEN old.subject.events ELSE << >>
             sub == [new.subject EXCEPT !.events = ev]
  <1>1. ev \in Seq(Event)
    BY DEF EntryType, SubjectType
  <1>2. sub \in SubjectType
    BY <1>1 DEF EntryType, SubjectType
  <1>3. Inherit(i, old, new) =
            [subject |-> sub, gate |-> new.gate, status |-> old.status,
             action |-> old.action, seal |-> old.seal, request |-> new.request]
    <2>1. new = [subject |-> new.subject, gate |-> new.gate, status |-> new.status,
                 action |-> new.action, seal |-> new.seal, request |-> new.request]
      BY DEF EntryType
    <2>2. Inherit(i, old, new) =
              [new EXCEPT !.subject = sub, !.status = old.status, !.action = old.action,
                          !.seal = old.seal]
      BY <2>1 DEF Inherit
    <2> QED
      BY <2>1, <2>2
  <1> HIDE DEF sub
  <1>4. Inherit(i, old, new) \in EntryType
    BY <1>2, <1>3 DEF EntryType
  <1> QED
    BY <1>3, <1>4 DEF sub

\* A case enqueued again is fine: a decision outlives the merge only if the
\* subject it was made for is the one the item now holds.
LEMMA MergeFine ==
    ASSUME NEW i \in Item, NEW x \in Extraction, NEW g \in Verdicts[x], NEW A,
           NEW old, old # None, Fine(i, old, A)
    PROVE  Merge(i, old, Built(i, x, g)) \in EntryType /\ Fine(i, Merge(i, old, Built(i, x, g)), A)
  <1> DEFINE new == Built(i, x, g)
             h == Inherit(i, old, new)
  <1>1. /\ Sane(old) /\ Uncorrected(i, old) /\ Given(i, old, A)
        /\ old \in EntryType
    BY DEF Fine, Sane
  <1>2. /\ Fine(i, new, A) /\ Sane(new) /\ Uncorrected(i, new)
        /\ new \in EntryType
    BY BuiltFine DEF Sane
  <1>3. /\ new.subject.draft = x /\ new.subject.included = << >>
        /\ new.subject.events = << >> /\ new.subject.applied = None
        /\ new.subject.base = Base(i, x) /\ new.request = None
        /\ new.gate \in Verdicts[x]
    BY DEF Built
  <1> HIDE DEF new
  <1>4. /\ h \in EntryType
        /\ h.status = old.status /\ h.action = old.action /\ h.seal = old.seal
        /\ h.request = None /\ h.gate \in Verdicts[x]
        /\ h.subject = [new.subject EXCEPT
               !.events = IF i \in TraceItem THEN old.subject.events ELSE << >>]
    BY <1>1, <1>2, <1>3, InheritFields
  <1> HIDE DEF h
  <1>5. /\ h.subject.included = << >> /\ h.subject.applied = None
        /\ h.subject.base = new.subject.base /\ h.subject.draft = x
        /\ i \notin TraceItem => h.subject = new.subject
    BY <1>2, <1>3, <1>4 DEF EntryType, SubjectType
  <1>6. Uncorrected(i, h)
    BY <1>2, <1>4, <1>5 DEF Uncorrected
  <1>7. CASE old.status = "pending"
    BY <1>2, <1>7 DEF Merge, new
  <1>8. CASE old.status # "pending" /\ old.subject.base # new.subject.base
    <2>1. Merge(i, old, new) = Unsealed(new, "needs_re_review")
      BY <1>8 DEF Merge
    <2> QED
      BY <1>2, <2>1, UnsealedFine DEF Status, new
  <1>9. CASE old.status # "pending" /\ old.subject.base = new.subject.base
             /\ i \in TraceItem /\ h.seal # h.subject
    <2>1. Merge(i, old, new) = Unsealed(h, "needs_re_review")
      BY <1>9 DEF Merge, h
    <2>2. /\ Unsealed(h, "needs_re_review") \in EntryType
          /\ Unsealed(h, "needs_re_review").status = "needs_re_review"
          /\ Unsealed(h, "needs_re_review").subject = h.subject
          /\ Unsealed(h, "needs_re_review").gate = h.gate
          /\ Unsealed(h, "needs_re_review").request = h.request
      BY <1>4, UnsealedFields DEF Status
    <2> QED
      BY <1>4, <1>5, <1>9, <2>1, <2>2 DEF Fine, Sane, Uncorrected, Given, new
  <1>10. CASE old.status # "pending" /\ old.subject.base = new.subject.base
              /\ ~(i \in TraceItem /\ h.seal # h.subject)
    <2>1. Merge(i, old, new) = h
      BY <1>10 DEF Merge, h
    <2>2. old.status = "approved" => old.seal = old.subject /\ old.action \in Approval
      BY <1>1 DEF Sane
    <2>3. old.status = "approved" => h.subject = old.subject
      <3>1. CASE i \in TraceItem
        BY <1>4, <1>10, <2>2, <3>1
      <3>2. CASE i \notin TraceItem
        BY <1>1, <1>2, <1>3, <1>5, <1>10, <3>2 DEF Uncorrected, Base
      <3> QED
        BY <3>1, <3>2
    <2>4. Sane(h)
      BY <1>4, <1>5, <2>2, <2>3 DEF Sane
    <2>5. Given(i, h, A)
      BY <1>1, <1>4, <2>3 DEF Given
    <2> QED
      BY <1>4, <1>6, <2>1, <2>4, <2>5 DEF Fine, new
  <1> QED
    BY <1>7, <1>8, <1>9, <1>10
-----------------------------------------------------------------------------
\* A decision on a fine entry is fine once the approval is counted.
LEMMA DecidedFine ==
    ASSUME NEW i \in Item, NEW e, Sane(e), Uncorrected(i, e), NEW a \in Action, NEW B,
           a \in Approval =>
               \E b \in B : b.item = i /\ b.subject = e.subject /\ b.action = a
    PROVE  Decided(e, a) \in EntryType /\ Fine(i, Decided(e, a), B)
  <1> DEFINE d == Decided(e, a)
  <1>1. e \in EntryType
    BY DEF Sane
  <1>2. /\ d \in EntryType
        /\ d.subject = e.subject /\ d.request = e.request /\ d.action = a
        /\ d.gate = e.gate
        /\ d.status = (IF a \in Approval THEN "approved" ELSE "rejected")
        /\ a \in Approval => d.seal = e.subject
    BY <1>1 DEF Decided, EntryType, Status
  <1> HIDE DEF d
  <1>3. Sane(d)
    BY <1>2 DEF Sane, IsStructural
  <1>4. Uncorrected(i, d)
    BY <1>2 DEF Uncorrected
  <1>5. Given(i, d, B)
    BY <1>2 DEF Given
  <1> QED
    BY <1>2, <1>3, <1>4, <1>5 DEF Fine, d

\* A correction keeps an entry fine: the approval goes, and the overlay.
LEMMA CorrectedFine ==
    ASSUME NEW i \in TraceItem, NEW e, Sane(e), NEW event \in Event, NEW B
    PROVE  Corrected(e, event) \in EntryType /\ Fine(i, Corrected(e, event), B)
  <1> DEFINE u == Unsealed(e, "needs_re_review")
             c == Corrected(e, event)
             sub == [e.subject EXCEPT !.events = Append(e.subject.events, event),
                                      !.applied = None]
  <1>1. /\ e \in EntryType /\ e.subject \in SubjectType /\ e.subject.events \in Seq(Event)
    BY DEF Sane, EntryType, SubjectType
  <1>2. /\ u \in EntryType /\ u.status = "needs_re_review"
        /\ u.subject = e.subject /\ u.request = e.request /\ u.gate = e.gate
    BY <1>1, UnsealedFields DEF Status
  <1> HIDE DEF u
  <1>3. Append(e.subject.events, event) \in Seq(Event)
    BY <1>1
  <1>4. /\ sub \in SubjectType
        /\ sub.events = Append(e.subject.events, event) /\ sub.applied = None
        /\ sub.included = e.subject.included /\ sub.draft = e.subject.draft
    BY <1>1, <1>3 DEF SubjectType
  <1>5. c = [u EXCEPT !.subject = sub]
    BY <1>2 DEF Corrected, u
  <1> HIDE DEF sub, c
  <1>6. /\ c \in EntryType /\ c.status = "needs_re_review"
        /\ c.subject = sub /\ c.request = e.request /\ c.gate = e.gate
    BY <1>2, <1>4, <1>5 DEF EntryType
  <1>7. sub.events # << >>
    BY <1>1, <1>4
  <1>8. IsStructural(e) => IsStructural(c)
    <2> SUFFICES ASSUME NEW n \in DOMAIN e.subject.events,
                        e.subject.events[n].kind = "structural"
                 PROVE  IsStructural(c)
      BY DEF IsStructural
    <2>1. n \in DOMAIN sub.events /\ sub.events[n] = e.subject.events[n]
      BY <1>1, <1>4
    <2> QED
      BY <1>6, <2>1 DEF IsStructural
  <1>9. Sane(c)
    BY <1>4, <1>6, <1>7, <1>8 DEF Sane
  <1> QED
    BY <1>6, <1>9 DEF Fine, Uncorrected, Given, c

\* A request for a re-extraction keeps an entry fine: its chain is structural
\* and therefore never was compiled.
LEMMA RequestedFine ==
    ASSUME NEW i \in TraceItem, NEW e, Sane(e), IsStructural(e), NEW B
    PROVE  Requested(e) \in EntryType /\ Fine(i, Requested(e), B)
  <1> DEFINE u == Unsealed(e, "needs_w2_reextract")
             q == Requested(e)
  <1>1. e \in EntryType /\ e.subject.events \in Seq(Event)
    BY DEF Sane, EntryType, SubjectType
  <1>2. /\ u \in EntryType /\ u.status = "needs_w2_reextract"
        /\ u.subject = e.subject /\ u.gate = e.gate
    BY <1>1, UnsealedFields DEF Status
  <1> HIDE DEF u
  <1>3. q = [u EXCEPT !.request = [events |-> e.subject.events, fulfilled |-> FALSE]]
    BY DEF Requested, u
  <1> HIDE DEF q
  <1>4. /\ q \in EntryType /\ q.status = "needs_w2_reextract"
        /\ q.subject = e.subject /\ q.gate = e.gate
    BY <1>1, <1>2, <1>3 DEF EntryType
  <1>5. Sane(q)
    BY <1>4 DEF Sane, IsStructural
  <1> QED
    BY <1>4, <1>5 DEF Fine, Uncorrected, Given, q

\* A compilation keeps an entry fine: the whole chain is in the candidate.
LEMMA CompiledFine ==
    ASSUME NEW i \in TraceItem, NEW e, Sane(e), ~IsStructural(e),
           NEW g \in Verdicts[e.subject.draft], NEW B
    PROVE  Compiled(e, g) \in EntryType /\ Fine(i, Compiled(e, g), B)
  <1> DEFINE u == Unsealed(e, "pending")
             c == Compiled(e, g)
             sub == [e.subject EXCEPT !.included = e.subject.events,
                                      !.applied = e.subject.events]
  <1>1. /\ e \in EntryType /\ e.subject \in SubjectType /\ e.subject.events \in Seq(Event)
    BY DEF Sane, EntryType, SubjectType
  <1>2. /\ u \in EntryType /\ u.status = "pending"
        /\ u.subject = e.subject /\ u.request = e.request
    BY <1>1, UnsealedFields DEF Status
  <1> HIDE DEF u
  <1>3. /\ sub \in SubjectType
        /\ sub.events = e.subject.events /\ sub.applied = e.subject.events
        /\ sub.included = e.subject.events /\ sub.draft = e.subject.draft
        /\ g \in Gate
    BY <1>1 DEF SubjectType
  <1>4. c = [u EXCEPT !.subject = sub, !.gate = g]
    BY <1>2 DEF Compiled, u
  <1> HIDE DEF sub, c
  <1>5. /\ c \in EntryType /\ c.status = "pending"
        /\ c.subject = sub /\ c.request = e.request /\ c.gate = g
    BY <1>2, <1>3, <1>4 DEF EntryType
  <1>6. IsStructural(c) <=> IsStructural(e)
    BY <1>3, <1>5 DEF IsStructural
  <1>7. Sane(c)
    BY <1>3, <1>5, <1>6 DEF Sane
  <1> QED
    BY <1>5, <1>7 DEF Fine, Uncorrected, Given, c

\* A re-extraction keeps an entry fine; the request is still one.
LEMMA FulfilledFine ==
    ASSUME NEW i \in Item, NEW e, Sane(e), Uncorrected(i, e), e.request # None,
           NEW x \in Extraction, NEW g \in Verdicts[x], NEW B
    PROVE  Fulfilled(e, x, g) \in EntryType /\ Fine(i, Fulfilled(e, x, g), B)
  <1> DEFINE u == Unsealed(e, "pending")
             f == Fulfilled(e, x, g)
             sub == [e.subject EXCEPT !.draft = x, !.included = e.request.events]
             req == [e.request EXCEPT !.fulfilled = TRUE]
  <1>1. /\ e \in EntryType /\ e.subject \in SubjectType
        /\ e.subject.events \in Seq(Event)
        /\ e.request \in [events : Seq(Event), fulfilled : BOOLEAN]
    BY DEF Sane, EntryType, SubjectType
  <1>2. /\ u \in EntryType /\ u.status = "pending"
        /\ u.subject = e.subject /\ u.request = e.request
    BY <1>1, UnsealedFields DEF Status
  <1> HIDE DEF u
  <1>3. /\ sub \in SubjectType
        /\ sub.events = e.subject.events /\ sub.applied = e.subject.applied
        /\ sub.draft = x /\ g \in Gate
    BY <1>1 DEF SubjectType
  <1>4. req \in [events : Seq(Event), fulfilled : BOOLEAN]
    BY <1>1
  <1>5. f = [u EXCEPT !.subject = sub, !.gate = g, !.request = req]
    BY <1>2 DEF Fulfilled, u
  <1> HIDE DEF sub, req, f
  <1>6. /\ f \in EntryType /\ f.status = "pending" /\ f.subject = sub /\ f.gate = g
    BY <1>2, <1>3, <1>4, <1>5 DEF EntryType
  <1>7. IsStructural(e) /\ e.subject.applied = None /\ i \in TraceItem
    BY DEF Sane, Uncorrected
  <1>8. IsStructural(f) /\ sub.events # << >>
    BY <1>1, <1>3, <1>6, <1>7 DEF IsStructural
  <1>9. Sane(f)
    BY <1>3, <1>6, <1>7, <1>8 DEF Sane
  <1> QED
    BY <1>6, <1>7, <1>9 DEF Fine, Uncorrected, Given, f
-----------------------------------------------------------------------------
ApprovalType == [item : Item, subject : SubjectType, action : Approval]
UsedType == [{"events", "decisions", "ingests", "edits", "runs"} -> Nat]
Process == Clerk \cup {W5}

\* Approvals are only ever added.
LEMMA MoreApprovals ==
    ASSUME NEW A, NEW B, A \subseteq B
    PROVE  /\ \A i, e : Fine(i, e, A) => Fine(i, e, B)
           /\ \A n : Merged(n, A) => Merged(n, B)
  BY DEF Fine, Given, Merged

\* Counting against a bound.
LEMMA SpendKeeps ==
    ASSUME used \in UsedType, NEW c \in DOMAIN used, NEW max, Spend(c, max)
    PROVE  used' \in UsedType
  BY DEF Spend, UsedType

\* Writing the file back keeps all entries fine: those of the snapshot were.
LEMMA WriteKeeps ==
    ASSUME IInv, NEW p \in Process, snapshot[p] # None, NEW i \in Item,
           NEW e \in EntryType, Write(p, i, e),
           approvals \subseteq approvals', Fine(i, e, approvals')
    PROVE  /\ queue' \in QueueType
           /\ snapshot' \in [Process -> QueueType \cup {None}]
           /\ \A j \in Item : Fine(j, queue'[j], approvals')
           /\ \A q \in Process : snapshot'[q] # None =>
                  \A j \in Item : Fine(j, snapshot'[q][j], approvals')
  <1>1. /\ snapshot \in [Process -> QueueType \cup {None}]
        /\ snapshot[p] \in QueueType
    BY DEF IInv, TypeOK, Process
  <1>2. /\ queue' = [snapshot[p] EXCEPT ![i] = e]
        /\ snapshot' = [snapshot EXCEPT ![p] = None]
    BY DEF Write
  <1>3. queue' \in QueueType
    BY <1>1, <1>2 DEF QueueType, EntryOrNone
  <1>4. \A j \in Item : Fine(j, snapshot[p][j], approvals')
    BY MoreApprovals DEF IInv, EntriesFine, Process
  <1>5. \A j \in Item : Fine(j, queue'[j], approvals')
    BY <1>1, <1>2, <1>4 DEF QueueType
  <1>6. ASSUME NEW q \in Process, snapshot'[q] # None, NEW j \in Item
        PROVE  Fine(j, snapshot'[q][j], approvals')
    <2>1. snapshot'[q] = snapshot[q]
      BY <1>1, <1>2, <1>6
    <2> QED
      BY <1>6, <2>1, MoreApprovals DEF IInv, EntriesFine, Process
  <1> QED
    BY <1>1, <1>2, <1>3, <1>5, <1>6

\* A command that writes a fine entry keeps the invariant.
LEMMA CommandKeeps ==
    ASSUME IInv, NEW p \in Process, snapshot[p] # None, NEW i \in Item,
           NEW e \in EntryType, Write(p, i, e),
           approvals \subseteq approvals', Fine(i, e, approvals'),
           approvals' \subseteq ApprovalType, used' \in UsedType,
           UNCHANGED <<source, graph, audit, job>>
    PROVE  IInv'
  <1>1. TypeOK'
    BY WriteKeeps DEF IInv, TypeOK, Process, ApprovalType, UsedType
  <1>2. EntriesFine'
    BY WriteKeeps, MoreApprovals DEF IInv, EntriesFine, Process
  <1>3. TakenIsKnown' /\ GraphMerged'
    BY MoreApprovals DEF IInv, TakenIsKnown, GraphMerged
  <1> QED
    BY <1>1, <1>2, <1>3 DEF IInv

\* What a process has read of an item is fine.
LEMMA ReadFine ==
    ASSUME IInv, NEW p \in Process, NEW i \in Item, Has(p, i)
    PROVE  /\ snapshot[p] # None /\ snapshot[p][i] # None
           /\ Sane(snapshot[p][i]) /\ Uncorrected(i, snapshot[p][i])
           /\ Given(i, snapshot[p][i], approvals)
  BY DEF Has, IInv, EntriesFine, Process, Fine

\* Taking or dropping a snapshot.
LEMMA LoadKeeps ==
    ASSUME IInv, NEW p \in Process, Load(p) \/ Abandon(p)
    PROVE  IInv'
  <1>1. /\ snapshot \in [Process -> QueueType \cup {None}]
        /\ queue \in QueueType
    BY DEF IInv, TypeOK, Process
  <1>2. PICK s \in {queue, None} : snapshot' = [snapshot EXCEPT ![p] = s]
    BY DEF Load, Abandon
  <1>3. UNCHANGED <<queue, source, graph, audit, job, approvals, used>>
    BY DEF Load, Abandon
  <1>4. snapshot' \in [Process -> QueueType \cup {None}]
    BY <1>1, <1>2
  <1>5. TypeOK'
    BY <1>3, <1>4 DEF IInv, TypeOK, Process
  <1>6. ASSUME NEW q \in Process, snapshot'[q] # None, NEW j \in Item
        PROVE  Fine(j, snapshot'[q][j], approvals)
    <2>1. CASE q = p
      BY <1>1, <1>2, <1>6, <2>1 DEF IInv, EntriesFine
    <2>2. CASE q # p
      BY <1>1, <1>2, <1>6, <2>2 DEF IInv, EntriesFine, Process
    <2> QED
      BY <2>1, <2>2
  <1>7. EntriesFine' /\ TakenIsKnown' /\ GraphMerged'
    BY <1>3, <1>6 DEF IInv, EntriesFine, TakenIsKnown, GraphMerged, Process
  <1> QED
    BY <1>5, <1>7 DEF IInv

\* enqueue
LEMMA EnqueueKeeps ==
    ASSUME IInv, NEW p \in Process, NEW i \in Item, NEW x \in Extraction, NEW g \in Gate,
           Enqueue(p, i, x, g)
    PROVE  IInv'
  <1> DEFINE old == snapshot[p][i]
             new == Built(i, x, g)
             e == IF old = None THEN new ELSE Merge(i, old, new)
  <1>1. /\ snapshot[p] # None /\ Write(p, i, e) /\ g \in Verdicts[x]
        /\ UNCHANGED <<source, graph, audit, job, approvals>>
    BY DEF Enqueue
  <1>2. used' \in UsedType
    BY SpendKeeps DEF Enqueue, IInv, TypeOK, UsedType
  <1>3. Fine(i, old, approvals)
    BY <1>1 DEF IInv, EntriesFine, Process
  <1>4. Fine(i, e, approvals) /\ e \in EntryType
    <2>1. CASE old = None
      BY <1>1, <2>1, BuiltFine DEF Sane
    <2>2. CASE old # None
      BY <1>1, <1>3, <2>2, MergeFine
    <2> QED
      BY <2>1, <2>2
  <1> HIDE DEF e
  <1>5. approvals \subseteq ApprovalType
    BY DEF IInv, TypeOK, ApprovalType
  <1> QED
    BY <1>1, <1>2, <1>4, <1>5, CommandKeeps

\* mark_decision
LEMMA DecideKeeps ==
    ASSUME IInv, NEW p \in Process, NEW i \in Item, NEW a \in Action, Decide(p, i, a)
    PROVE  IInv'
  <1> DEFINE e == snapshot[p][i]
             r == [item |-> i, subject |-> e.subject, action |-> a]
  <1>1. /\ Has(p, i) /\ Write(p, i, Decided(e, a))
        /\ approvals' = IF a \in Approval THEN approvals \cup {r} ELSE approvals
        /\ UNCHANGED <<source, graph, audit, job>>
    BY DEF Decide
  <1>2. used' \in UsedType
    BY SpendKeeps DEF Decide, IInv, TypeOK, UsedType
  <1>3. snapshot[p] # None /\ Sane(e) /\ Uncorrected(i, e) /\ e \in EntryType
    BY <1>1, ReadFine DEF Sane
  <1>4. /\ a \in Approval => r \in ApprovalType
        /\ r.item = i /\ r.subject = e.subject /\ r.action = a
    BY <1>3 DEF ApprovalType, EntryType
  <1> HIDE DEF r
  <1>5. /\ approvals \subseteq approvals' /\ approvals' \subseteq ApprovalType
        /\ a \in Approval => r \in approvals'
    BY <1>1, <1>4 DEF IInv, TypeOK, ApprovalType
  <1>6. Decided(e, a) \in EntryType /\ Fine(i, Decided(e, a), approvals')
    BY <1>3, <1>4, <1>5, DecidedFine
  <1> HIDE DEF e
  <1> QED
    BY <1>1, <1>2, <1>3, <1>5, <1>6, CommandKeeps

\* append_trace_correction
LEMMA AppendCorrectionKeeps ==
    ASSUME IInv, NEW p \in Process, NEW i \in Item, NEW k \in Kind,
           AppendCorrection(p, i, k)
    PROVE  IInv'
  <1> DEFINE e == snapshot[p][i]
             event == [kind |-> k, id |-> used["events"] + 1]
             c == Corrected(e, event)
  <1>1. /\ Has(p, i) /\ i \in TraceItem /\ Write(p, i, c)
        /\ UNCHANGED <<source, graph, audit, job, approvals>>
    BY DEF AppendCorrection
  <1>2. used' \in UsedType
    BY SpendKeeps DEF AppendCorrection, IInv, TypeOK, UsedType
  <1>3. snapshot[p] # None /\ Sane(e) /\ e \in EntryType
    BY <1>1, ReadFine DEF Sane
  <1>4. event \in Event
    BY DEF AppendCorrection, Spend, IInv, TypeOK, Event
  <1> HIDE DEF event
  <1>5. c \in EntryType /\ Fine(i, c, approvals)
    BY <1>1, <1>3, <1>4, CorrectedFine
  <1>6. approvals \subseteq ApprovalType
    BY DEF IInv, TypeOK, ApprovalType
  <1> HIDE DEF e, c
  <1> QED
    BY <1>1, <1>2, <1>3, <1>5, <1>6, CommandKeeps

\* compile_trace_corrections
LEMMA CompileKeeps ==
    ASSUME IInv, NEW p \in Process, NEW i \in Item, NEW g \in Gate, Compile(p, i, g)
    PROVE  IInv'
  <1> DEFINE e == snapshot[p][i]
             c == IF IsStructural(e) THEN Requested(e) ELSE Compiled(e, g)
  <1>1. /\ Has(p, i) /\ i \in TraceItem /\ Write(p, i, c)
        /\ g \in Verdicts[e.subject.draft]
        /\ UNCHANGED <<source, graph, audit, job, approvals, used>>
    BY DEF Compile
  <1>2. snapshot[p] # None /\ Sane(e)
    BY <1>1, ReadFine
  <1>3. c \in EntryType /\ Fine(i, c, approvals)
    BY <1>1, <1>2, RequestedFine, CompiledFine
  <1>4. approvals \subseteq ApprovalType /\ used \in UsedType
    BY DEF IInv, TypeOK, ApprovalType, UsedType
  <1> HIDE DEF e, c
  <1> QED
    BY <1>1, <1>2, <1>3, <1>4, CommandKeeps

\* fulfill_w2_reextract
LEMMA FulfilKeeps ==
    ASSUME IInv, NEW p \in Process, NEW i \in Item, NEW x \in Extraction, NEW g \in Gate,
           Fulfil(p, i, x, g)
    PROVE  IInv'
  <1> DEFINE e == snapshot[p][i]
             f == Fulfilled(e, x, g)
  <1>1. /\ Has(p, i) /\ e.request # None /\ Write(p, i, f) /\ g \in Verdicts[x]
        /\ UNCHANGED <<source, graph, audit, job, approvals, used>>
    BY DEF Fulfil
  <1>2. snapshot[p] # None /\ Sane(e) /\ Uncorrected(i, e)
    BY <1>1, ReadFine
  <1>3. f \in EntryType /\ Fine(i, f, approvals)
    BY <1>1, <1>2, FulfilledFine
  <1>4. approvals \subseteq ApprovalType /\ used \in UsedType
    BY DEF IInv, TypeOK, ApprovalType, UsedType
  <1> HIDE DEF e, f
  <1> QED
    BY <1>1, <1>2, <1>3, <1>4, CommandKeeps

\* A source changes.
LEMMA EditKeeps ==
    ASSUME IInv, NEW i \in Item, NEW x \in Extraction, Edit(i, x)
    PROVE  IInv'
  <1>1. UNCHANGED <<queue, snapshot, graph, audit, job, approvals>>
    BY DEF Edit
  <1>2. source' \in [Document -> Extraction]
    BY DEF Edit, IInv, TypeOK
  <1>3. used' \in UsedType
    BY SpendKeeps DEF Edit, IInv, TypeOK, UsedType
  <1>4. TypeOK'
    BY <1>1, <1>2, <1>3 DEF IInv, TypeOK, UsedType
  <1> QED
    BY <1>1, <1>4 DEF IInv, EntriesFine, TakenIsKnown, GraphMerged
-----------------------------------------------------------------------------
(***************************************************************************)
(* W5.                                                                     *)
(***************************************************************************)
JobType == [phase : {"idle", "apply", "mark"}, todo : SUBSET Item, taken : QueueType,
            unaudited : Item \cup {None}, stale : SUBSET Item]

LEMMA IdleFine ==
    /\ Idle \in JobType
    /\ Idle.unaudited = None
    /\ \A i \in Item : \A A : Fine(i, Idle.taken[i], A)
  BY DEF Idle, JobType, QueueType, EntryOrNone, Fine

\* A step that changes nothing but the job, and takes nothing that is not fine.
LEMMA JobKeeps ==
    ASSUME IInv, job' \in JobType, used' \in UsedType,
           \A i \in Item : Fine(i, job'.taken[i], approvals),
           TakenIsKnown',
           UNCHANGED <<queue, snapshot, source, graph, audit, approvals>>
    PROVE  IInv'
  <1>1. TypeOK'
    BY DEF IInv, TypeOK, JobType, UsedType
  <1>2. EntriesFine' /\ GraphMerged'
    BY DEF IInv, EntriesFine, GraphMerged
  <1> QED
    BY <1>1, <1>2 DEF IInv

LEMMA JobHas ==
    ASSUME IInv
    PROVE  /\ job \in JobType /\ used \in UsedType
           /\ \A i \in Item : Fine(i, job.taken[i], approvals)
           /\ TakenIsKnown
  BY DEF IInv, TypeOK, EntriesFine, JobType, UsedType

\* Starting, skipping, finishing and dying change the job alone.
LEMMA StartApplyKeeps ==
    ASSUME IInv, StartApply
    PROVE  IInv'
  <1> DEFINE taken == [i \in Item |-> IF Approved(queue[i]) THEN queue[i] ELSE None]
  <1>1. /\ job' = [Idle EXCEPT !.phase = "apply", !.todo = {i \in Item : Approved(queue[i])},
                               !.taken = taken]
        /\ UNCHANGED <<queue, snapshot, source, graph, audit, approvals>>
    BY DEF StartApply
  <1>2. used' \in UsedType
    BY JobHas, SpendKeeps DEF StartApply, UsedType
  <1>3. taken \in QueueType /\ \A i \in Item : Fine(i, taken[i], approvals)
    BY DEF IInv, TypeOK, QueueType, EntryOrNone, EntriesFine, Fine
  <1> HIDE DEF taken
  <1>4. job' \in JobType /\ job'.taken = taken /\ job'.unaudited = None
    BY <1>1, <1>3, IdleFine DEF JobType
  <1> QED
    BY <1>1, <1>2, <1>3, <1>4, JobKeeps DEF TakenIsKnown

LEMMA SkipKeeps ==
    ASSUME IInv, NEW i \in Item, Skip(i) \/ SkipStale(i)
    PROVE  IInv'
  <1>1. PICK S \in SUBSET Item :
            job' = [job EXCEPT !.todo = job.todo \ {i}, !.stale = S]
    <2>1. CASE Skip(i)
      <3>1. job' = [job EXCEPT !.todo = job.todo \ {i}, !.stale = job.stale]
        BY <2>1, JobHas DEF Skip, JobType
      <3> QED
        BY <3>1, JobHas DEF JobType
    <2>2. CASE SkipStale(i)
      BY <2>2, JobHas DEF SkipStale, JobType
    <2> QED
      BY <2>1, <2>2
  <1>2. UNCHANGED <<queue, snapshot, source, graph, audit, approvals, used>>
    BY DEF Skip, SkipStale
  <1>3. job' \in JobType /\ job'.taken = job.taken /\ job'.unaudited = job.unaudited
    BY <1>1, JobHas DEF JobType
  <1> QED
    BY <1>2, <1>3, JobHas, JobKeeps DEF TakenIsKnown

LEMMA FinishApplyKeeps ==
    ASSUME IInv, FinishApply
    PROVE  IInv'
  <1>1. /\ job' \in {Idle, [Idle EXCEPT !.phase = "mark", !.stale = job.stale]}
        /\ UNCHANGED <<queue, snapshot, source, graph, audit, approvals, used>>
    BY DEF FinishApply
  <1>2. job' \in JobType /\ job'.taken = Idle.taken /\ job'.unaudited = None
    BY <1>1, JobHas, IdleFine DEF JobType
  <1> QED
    BY <1>1, <1>2, JobHas, IdleFine, JobKeeps DEF TakenIsKnown

\* The audit row.
LEMMA AuditKeeps ==
    ASSUME IInv, Audit
    PROVE  IInv'
  <1> DEFINE i == job.unaudited
             e == job.taken[i]
  <1>1. i \in Item /\ e # None /\ e \in EntryType
    BY JobHas DEF Audit, JobType, TakenIsKnown, Fine, Sane
  <1>2. /\ audit' = audit \cup {<<i, Content(e.subject)>>}
        /\ job' = [job EXCEPT !.unaudited = None]
        /\ UNCHANGED <<queue, snapshot, source, graph, approvals, used>>
    BY DEF Audit
  <1>3. Content(e.subject) \in [draft : Extraction, included : Seq(Event)]
    BY <1>1 DEF Content, EntryType, SubjectType
  <1>4. audit' \subseteq Item \X [draft : Extraction, included : Seq(Event)]
    BY <1>1, <1>2, <1>3 DEF IInv, TypeOK
  <1>5. job' \in JobType /\ job'.taken = job.taken /\ job'.unaudited = None
    BY <1>2, JobHas DEF JobType
  <1>6. TypeOK'
    BY <1>2, <1>4, <1>5 DEF IInv, TypeOK, JobType
  <1>7. EntriesFine' /\ TakenIsKnown' /\ GraphMerged'
    BY <1>2, <1>5 DEF IInv, EntriesFine, TakenIsKnown, GraphMerged
  <1> QED
    BY <1>6, <1>7 DEF IInv

\* What W5 admits has an approval for its subject and all of its corrections.
LEMMA AdmissibleMerges ==
    ASSUME NEW i \in Item, NEW e, NEW A, Fine(i, e, A), Admissible(i, e)
    PROVE  Merged([item |-> i, subject |-> e.subject, execute |-> MaterializeAllowed(i, e)], A)
  <1>1. /\ e # None /\ e.status = "approved" /\ Sane(e) /\ Given(i, e, A)
        /\ e.subject.events # << >> => e.subject.applied = e.subject.events
    BY DEF Admissible, Approved, Fine, CorrectionsCompiled
  <1>2. e.subject.events \in Seq(Event)
    BY <1>1 DEF Sane, EntryType, SubjectType
  <1>3. e.subject.included = e.subject.events
    BY <1>1, <1>2, NoneAssumption DEF Sane
  <1>4. PICK a \in A : a.item = i /\ a.subject = e.subject /\ a.action = e.action
    BY <1>1 DEF Given
  <1>5. MaterializeAllowed(i, e) => i \notin Document /\ Releases(a)
    <2>1. e.gate = "admit" => e.subject \in Admitted
      BY <1>1 DEF Sane, EntryType, Admitted
    <2> QED
      BY <1>4, <2>1 DEF MaterializeAllowed, Releases
  <1> QED
    BY <1>1, <1>3, <1>4, <1>5 DEF Merged

\* The merge.
LEMMA ApplyKeeps ==
    ASSUME IInv, NEW i \in Item, Apply(i)
    PROVE  IInv'
  <1> DEFINE e == job.taken[i]
             n == [item |-> i, subject |-> e.subject, execute |-> MaterializeAllowed(i, e)]
  <1>1. /\ graph' = MergeGraph(i, e)
        /\ Admissible(i, e)
        /\ job' = [job EXCEPT !.todo = @ \ {i}, !.unaudited = i]
        /\ UNCHANGED <<queue, snapshot, source, audit, approvals, used>>
    BY DEF Apply
  <1>2. Fine(i, e, approvals) /\ e # None /\ e \in EntryType
    BY <1>1, JobHas DEF Admissible, Approved, Fine, Sane
  <1>3. /\ job' \in JobType /\ job'.taken = job.taken /\ job'.unaudited = i
    BY <1>1, JobHas DEF JobType
  <1>4. n \in NodeType /\ Merged(n, approvals)
    <2>1. MaterializeAllowed(i, e) \in BOOLEAN
      BY DEF MaterializeAllowed
    <2>2. e.subject \in SubjectType
      BY <1>2 DEF EntryType
    <2>3. n \in NodeType
      BY <2>1, <2>2 DEF NodeType
    <2> QED
      BY <1>1, <1>2, <2>3, AdmissibleMerges
  <1>5. graph' \in [Object -> {n} \cup {graph[o] : o \in Object} \cup {None}]
        /\ \A o \in Object : graph'[o] \in {n, graph[o], None}
    BY <1>1 DEF MergeGraph
  <1> HIDE DEF n
  <1>6. graph' \in [Object -> NodeType \cup {None}]
    BY <1>4, <1>5 DEF IInv, TypeOK
  <1>7. TypeOK'
    BY <1>1, <1>3, <1>6 DEF IInv, TypeOK, JobType
  <1>8. GraphMerged'
    BY <1>1, <1>4, <1>5 DEF IInv, GraphMerged
  <1>9. EntriesFine' /\ TakenIsKnown'
    BY <1>1, <1>2, <1>3 DEF IInv, EntriesFine, TakenIsKnown
  <1> QED
    BY <1>7, <1>8, <1>9 DEF IInv

\* Sending a stale item back to review.
LEMMA MarkKeeps ==
    ASSUME IInv, NEW i \in Item, MarkNeedsReReview(i) \/ MarkNotFound(i)
    PROVE  IInv'
  <1>1. /\ job' \in {Idle, [job EXCEPT !.stale = job.stale \ {i}]}
        /\ UNCHANGED <<source, graph, audit, approvals, used>>
    <2>1. [job EXCEPT !.stale = @ \ {i}] = [job EXCEPT !.stale = job.stale \ {i}]
      BY JobHas DEF JobType
    <2> QED
      BY <2>1 DEF MarkNeedsReReview, MarkNotFound
  <1>2. /\ job' \in JobType
        /\ \/ job'.taken = Idle.taken /\ job'.unaudited = None
           \/ job'.taken = job.taken /\ job'.unaudited = job.unaudited
    <2>1. CASE job' = Idle
      BY <2>1, IdleFine
    <2>2. CASE job' = [job EXCEPT !.stale = job.stale \ {i}]
      BY <2>2, JobHas DEF JobType
    <2> QED
      BY <1>1, <2>1, <2>2
  <1>3. TakenIsKnown' /\ \A j \in Item : Fine(j, job'.taken[j], approvals)
    BY <1>2, JobHas, IdleFine DEF TakenIsKnown
  <1>4. W5 \in Process
    BY DEF Process
  <1>5. /\ queue' \in QueueType
        /\ snapshot' \in [Process -> QueueType \cup {None}]
        /\ \A j \in Item : Fine(j, queue'[j], approvals)
        /\ \A q \in Process : snapshot'[q] # None =>
               \A j \in Item : Fine(j, snapshot'[q][j], approvals)
    <2>1. CASE MarkNeedsReReview(i)
      <3> DEFINE e == Unsealed(snapshot[W5][i], "needs_re_review")
      <3>1. Has(W5, i) /\ Write(W5, i, e)
        BY <2>1 DEF MarkNeedsReReview
      <3>2. /\ snapshot[W5] # None
            /\ Sane(snapshot[W5][i]) /\ Uncorrected(i, snapshot[W5][i])
        BY <1>4, <3>1, ReadFine
      <3>3. e \in EntryType /\ Fine(i, e, approvals')
        BY <3>2, UnsealedFine DEF Status
      <3> HIDE DEF e
      <3> QED
        BY <1>1, <1>4, <3>1, <3>2, <3>3, WriteKeeps
    <2>2. CASE MarkNotFound(i)
      <3>1. /\ snapshot' = [snapshot EXCEPT ![W5] = None]
            /\ UNCHANGED queue
        BY <2>2 DEF MarkNotFound
      <3> QED
        BY <3>1 DEF IInv, TypeOK, EntriesFine, Process
    <2> QED
      BY <2>1, <2>2
  <1>6. TypeOK'
    BY <1>1, <1>2, <1>5 DEF IInv, TypeOK, JobType, Process
  <1>7. EntriesFine' /\ GraphMerged'
    BY <1>1, <1>3, <1>5 DEF IInv, EntriesFine, GraphMerged, Process
  <1> QED
    BY <1>3, <1>6, <1>7 DEF IInv

LEMMA CrashApplyKeeps ==
    ASSUME IInv, CrashApply
    PROVE  IInv'
  <1>1. /\ job' = Idle
        /\ snapshot' = [snapshot EXCEPT ![W5] = None]
        /\ UNCHANGED <<queue, source, graph, audit, approvals, used>>
    BY DEF CrashApply
  <1>2. job' \in JobType /\ \A j \in Item : Fine(j, job'.taken[j], approvals)
    BY <1>1, IdleFine
  <1>3. TypeOK'
    BY <1>1, <1>2 DEF IInv, TypeOK, JobType
  <1>4. EntriesFine'
    BY <1>1, <1>2 DEF IInv, TypeOK, EntriesFine
  <1>5. TakenIsKnown' /\ GraphMerged'
    BY <1>1, IdleFine DEF IInv, TakenIsKnown, GraphMerged
  <1> QED
    BY <1>3, <1>4, <1>5 DEF IInv
-----------------------------------------------------------------------------
\* The invariant holds at the start,
LEMMA InitIInv == Init => IInv
  <1> SUFFICES ASSUME Init PROVE IInv
    OBVIOUS
  <1>1. source \in [Document -> Extraction]
    BY DEF Init
  <1>2. used \in UsedType
    BY DEF Init, UsedType
  <1>3. job \in JobType /\ job = Idle
    BY IdleFine DEF Init
  <1>4. TypeOK
    BY <1>1, <1>2, <1>3 DEF Init, TypeOK, QueueType, EntryOrNone, JobType, UsedType
  <1>5. EntriesFine
    BY <1>3, IdleFine DEF Init, EntriesFine, Fine
  <1> QED
    BY <1>3, <1>4, <1>5, IdleFine DEF Init, IInv, TakenIsKnown, GraphMerged

\* and every step keeps it.
LEMMA NextIInv ==
    ASSUME IInv, [Next]_vars
    PROVE  IInv'
  <1>1. ASSUME NEW p \in Clerk, Command(p)
        PROVE  IInv'
    <2>1. p \in Process
      BY DEF Process
    <2>2. CASE Load(p) \/ Abandon(p)
      BY <2>1, <2>2, LoadKeeps
    <2>3. CASE \E i \in Item, x \in Extraction, g \in Gate : Enqueue(p, i, x, g)
      BY <2>1, <2>3, EnqueueKeeps
    <2>4. CASE \E i \in Item, x \in Extraction, g \in Gate : Fulfil(p, i, x, g)
      BY <2>1, <2>4, FulfilKeeps
    <2>5. CASE \E i \in Item, a \in Action : Decide(p, i, a)
      BY <2>1, <2>5, DecideKeeps
    <2>6. CASE \E i \in Item, k \in Kind : AppendCorrection(p, i, k)
      BY <2>1, <2>6, AppendCorrectionKeeps
    <2>7. CASE \E i \in Item, g \in Gate : Compile(p, i, g)
      BY <2>1, <2>7, CompileKeeps
    <2> QED
      BY <1>1, <2>2, <2>3, <2>4, <2>5, <2>6, <2>7 DEF Command
  <1>2. CASE Applier
    <2>1. CASE LoadToMark
      BY <2>1, LoadKeeps DEF LoadToMark, Process
    <2>2. CASE StartApply \/ Audit \/ FinishApply \/ CrashApply
      BY <2>2, StartApplyKeeps, AuditKeeps, FinishApplyKeeps, CrashApplyKeeps
    <2>3. CASE \E i \in Item : \/ Skip(i) \/ SkipStale(i) \/ Apply(i)
                               \/ MarkNeedsReReview(i) \/ MarkNotFound(i)
      BY <2>3, SkipKeeps, ApplyKeeps, MarkKeeps
    <2> QED
      BY <1>2, <2>1, <2>2, <2>3 DEF Applier
  <1>3. ASSUME NEW i \in Item, NEW x \in Extraction, Edit(i, x)
        PROVE  IInv'
    BY <1>3, EditKeeps
  <1>4. CASE UNCHANGED vars
    BY <1>4 DEF vars, IInv, TypeOK, EntriesFine, TakenIsKnown, GraphMerged
  <1> QED
    BY <1>1, <1>2, <1>3, <1>4 DEF Next

\* Every reachable state satisfies the inductive invariant.
THEOREM Invariance == Spec => []IInv
  BY InitIInv, NextIInv, PTL DEF Spec

\* The files, the snapshots and the run of W5 hold what the code writes.
THEOREM TypeCorrect == Spec => []TypeOK
  BY Invariance, PTL DEF IInv

\* An approval in the queue is bound to the very subject the item holds now,
\* whatever commands, stale snapshots and re-enqueues have done to the file.
THEOREM ApprovalsAreBound == Spec => []ApprovalIsBound
  <1>1. IInv => ApprovalIsBound
    BY DEF IInv, EntriesFine, Fine, Sane, ApprovalIsBound, Approved
  <1> QED
    BY <1>1, Invariance, PTL

\* Approved-only: each object of the graph was written for a subject that a
\* human approved, and may be executed only if that approval releases it.
THEOREM ApprovedOnly == Spec => []GraphWasApproved
  <1>1. IInv => GraphWasApproved
    BY DEF IInv, GraphMerged, Merged, GraphWasApproved
  <1> QED
    BY <1>1, Invariance, PTL

\* What is merged has in it every correction of its chain.
THEOREM NoCorrectionIsLeftOut == Spec => []CorrectionsAreMerged
  <1>1. IInv => CorrectionsAreMerged
    BY DEF IInv, GraphMerged, Merged, CorrectionsAreMerged
  <1> QED
    BY <1>1, Invariance, PTL

\* Only the merge writes the graph.
LEMMA GraphIsMergedInto ==
    ASSUME [Next]_vars
    PROVE  UNCHANGED graph \/ \E i \in Item : Apply(i)
  <1>1. ASSUME NEW p \in Clerk, Command(p)
        PROVE  UNCHANGED graph
    BY <1>1 DEF Command, Load, Abandon, Enqueue, Fulfil, Decide, AppendCorrection, Compile
  <1>2. ASSUME Applier
        PROVE  UNCHANGED graph \/ \E i \in Item : Apply(i)
    BY <1>2 DEF Applier, StartApply, Audit, FinishApply, LoadToMark, Load, CrashApply, Skip,
                SkipStale, MarkNeedsReReview, MarkNotFound
  <1>3. ASSUME NEW i \in Item, NEW x \in Extraction, Edit(i, x)
        PROVE  UNCHANGED graph
    BY <1>3 DEF Edit
  <1> QED
    BY <1>1, <1>2, <1>3 DEF Next, vars

\* Knowledge released for execution is not taken out by what is not released:
\* neither by an approval for support alone nor by the new version of a document.
THEOREM ReleaseIsKept == Spec => ReleasedStays
  <1>1. ASSUME IInv, [Next]_vars, NEW o \in Object, graph[o] # None, graph[o].execute
        PROVE  graph'[o] # None /\ graph'[o].execute
    <2>1. ASSUME NEW i \in Item, Apply(i)
          PROVE  graph'[o] # None /\ graph'[o].execute
      <3> DEFINE e == job.taken[i]
                 n == [item |-> i, subject |-> e.subject,
                       execute |-> MaterializeAllowed(i, e)]
      <3>1. graph' = MergeGraph(i, e) /\ Admissible(i, e)
        BY <2>1 DEF Apply
      <3>2. graph[o].item \notin Document
        BY <1>1 DEF IInv, GraphMerged, Merged
      <3>3. graph'[o] = graph[o] \/ (graph'[o] = n /\ MaterializeAllowed(i, e))
        BY <1>1, <3>1, <3>2 DEF MergeGraph
      <3>4. ASSUME MaterializeAllowed(i, e), graph'[o] = n
            PROVE  graph'[o] # None /\ graph'[o].execute
        <4>1. e \in EntryType
          BY <1>1, <3>1, JobHas DEF Admissible, Approved, Fine, Sane
        <4>2. e.subject \in SubjectType
          BY <4>1 DEF EntryType
        <4>3. MaterializeAllowed(i, e) = TRUE
          BY <3>4 DEF MaterializeAllowed
        <4>4. n \in NodeType /\ n.execute
          BY <4>2, <4>3 DEF NodeType
        <4> QED
          BY <3>4, <4>4, NoneAssumption
      <3> QED
        BY <1>1, <3>3, <3>4
    <2> QED
      BY <1>1, <2>1, GraphIsMergedInto
  <1>2. IInv /\ [Next]_vars =>
            [\A o \in Object : graph[o] # None /\ graph[o].execute =>
                 graph'[o] # None /\ graph'[o].execute]_vars
    BY <1>1
  <1> QED
    BY <1>2, Invariance, PTL DEF Spec, ReleasedStays
-----------------------------------------------------------------------------
\* Approvals are only ever added.
LEMMA ApprovalsGrow ==
    ASSUME [Next]_vars
    PROVE  approvals \subseteq approvals'
  <1>1. ASSUME NEW p \in Clerk, Command(p)
        PROVE  approvals \subseteq approvals'
    BY <1>1 DEF Command, Load, Abandon, Enqueue, Fulfil, Decide, AppendCorrection, Compile
  <1>2. ASSUME Applier
        PROVE  approvals \subseteq approvals'
    BY <1>2 DEF Applier, StartApply, Audit, FinishApply, LoadToMark, Load, CrashApply, Skip,
                SkipStale, MarkNeedsReReview, MarkNotFound, Apply
  <1>3. ASSUME NEW i \in Item, NEW x \in Extraction, Edit(i, x)
        PROVE  approvals \subseteq approvals'
    BY <1>3 DEF Edit
  <1> QED
    BY <1>1, <1>2, <1>3 DEF Next, vars

\* The merge of W5 is a release of the abstract gate.
LEMMA ApplyReleases ==
    ASSUME IInv, NEW i \in Item, Apply(i)
    PROVE  \E a \in approvals, execute \in BOOLEAN : Gatekeeper!Release(a, execute)
  <1> DEFINE e == job.taken[i]
             x == MaterializeAllowed(i, e)
             n == [item |-> i, subject |-> e.subject, execute |-> x]
  <1>1. /\ graph' = MergeGraph(i, e)
        /\ Admissible(i, e)
        /\ UNCHANGED approvals
    BY DEF Apply
  <1>2. e # None /\ e.status = "approved" /\ Given(i, e, approvals)
    BY <1>1, JobHas DEF Admissible, Approved, Fine
  <1>3. PICK a \in approvals : a.item = i /\ a.subject = e.subject /\ a.action = e.action
    BY <1>2 DEF Given
  <1>4. /\ x \in BOOLEAN
        /\ x => \/ a.action \in {"approve_for_execution_policy"}
                \/ a.action \in {"approve"} /\ a.subject \in Admitted
    <2>1. e.gate = "admit" => e.subject \in Admitted
      BY <1>2, JobHas DEF Fine, Sane, EntryType, Admitted
    <2> QED
      BY <1>3, <2>1 DEF MaterializeAllowed
  <1>5. graph' \in [Object -> {graph'[o] : o \in Object}]
    BY <1>1 DEF MergeGraph
  <1>6. ASSUME NEW o \in Object
        PROVE  \/ graph'[o] = graph[o]
               \/ /\ graph'[o] = n
                  /\ graph[o] # None /\ graph[o].execute => n.execute
               \/ /\ graph'[o] = None
                  /\ i \in Document
                  /\ graph[o] # None
                  /\ graph[o].item = i
                  /\ ~graph[o].execute
    <2>1. CASE o \in Objects[e.subject.draft] /\ (x \/ graph[o] = None)
      <3>1. graph'[o] = n
        BY <1>1, <2>1 DEF MergeGraph
      <3> QED
        BY <2>1, <3>1
    <2>2. CASE /\ ~(o \in Objects[e.subject.draft] /\ (x \/ graph[o] = None))
               /\ i \in Document /\ o \notin Objects[e.subject.draft]
               /\ graph[o] # None /\ graph[o].item = i
      <3>1. graph'[o] = None
        BY <1>1, <2>2 DEF MergeGraph
      <3>2. ~graph[o].execute
        BY <2>2 DEF IInv, GraphMerged, Merged
      <3> QED
        BY <2>2, <3>1, <3>2
    <2>3. CASE /\ ~(o \in Objects[e.subject.draft] /\ (x \/ graph[o] = None))
               /\ ~(/\ i \in Document /\ o \notin Objects[e.subject.draft]
                    /\ graph[o] # None /\ graph[o].item = i)
      BY <1>1, <2>3 DEF MergeGraph
    <2> QED
      BY <2>1, <2>2, <2>3
  <1> HIDE DEF x
  <1>7. Gatekeeper!Release(a, x)
    BY <1>1, <1>3, <1>4, <1>5, <1>6
       DEF Gatekeeper!Release, Gatekeeper!Kept, Gatekeeper!Written, Gatekeeper!Withdrawn
  <1> QED
    BY <1>4, <1>7

\* The write side implements the abstract gate: whatever queues, snapshots,
\* corrections and crashes do, knowledge changes by released approvals only.
THEOREM ImplementsTheGate == Spec => KnowledgeIsApproved
  <1>1. Init => Gatekeeper!Init
    BY DEF Init, Gatekeeper!Init, Gatekeeper!Nothing
  <1>2. ASSUME IInv, [Next]_vars
        PROVE  [Gatekeeper!Next]_<<approvals, graph>>
    <2>1. CASE UNCHANGED graph
      BY <1>2, <2>1, ApprovalsGrow DEF Gatekeeper!Next, Gatekeeper!Approve
    <2>2. CASE \E i \in Item : Apply(i)
      BY <1>2, <2>2, ApplyReleases DEF Gatekeeper!Next
    <2> QED
      BY <1>2, <2>1, <2>2, GraphIsMergedInto
  <1> QED
    BY <1>1, <1>2, Invariance, PTL DEF Spec, KnowledgeIsApproved, Gatekeeper!Spec
=============================================================================
