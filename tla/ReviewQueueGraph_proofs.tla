----------------------- MODULE ReviewQueueGraph_proofs -----------------------
(***************************************************************************)
(* Which objects are in the graph: that versions of a document never mix   *)
(* and that the audit file is true.  Both depend on who owns an object     *)
(* (ObjectAssumption), so the invariant adds to that of ReviewQueue_proofs *)
(* what extraction an entry was made from, and where W5 puts its objects.  *)
(***************************************************************************)
EXTENDS ReviewQueue_proofs

\* An entry holds what the sources of its item may be extracted to.
Yielded(i, e) == e # None => e.subject.draft \in Yields[i]
EntriesYielded ==
    /\ \A i \in Item : Yielded(i, queue[i])
    /\ \A p \in Process : snapshot[p] # None => \A i \in Item : Yielded(i, snapshot[p][i])
    /\ \A i \in Item : Yielded(i, job.taken[i])
SourceYielded == \A i \in Document : source[i] \in Yields[i]

\* An object of a document is one of the version it was written for, which is
\* all that was approved.
Versioned(n, o) ==
    n.item \in Document =>
        /\ o \in Objects[n.subject.draft]
        /\ n.subject.draft \in Yields[n.item]
        /\ n.subject = [base |-> n.subject.draft, draft |-> n.subject.draft,
                        included |-> << >>, events |-> << >>, applied |-> None]
GraphVersioned == \A o \in Object : graph[o] # None => Versioned(graph[o], o)

\* An item that is merged and not audited yet is in the graph.
UnauditedInGraph ==
    job.unaudited # None =>
        \A o \in Objects[job.taken[job.unaudited].subject.draft] : graph[o] # None

\* The audit file is about extractions of its items.
AuditYielded == \A r \in audit : r[2].draft \in Yields[r[1]]

GInv == /\ IInv
        /\ EntriesYielded
        /\ SourceYielded
        /\ GraphVersioned
        /\ UnauditedInGraph
        /\ AuditYielded
        /\ VersionsNeverMix
        /\ AuditIsTrue
-----------------------------------------------------------------------------
USE ItemAssumption, BoundAssumption, NoneAssumption

\* Withdrawing a decision, and the operations built on it, keep the extraction.
LEMMA SameDraft ==
    ASSUME NEW e \in EntryType
    PROVE  /\ \A a \in Action : Decided(e, a).subject.draft = e.subject.draft
           /\ \A event \in Event : Corrected(e, event).subject.draft = e.subject.draft
           /\ Requested(e).subject.draft = e.subject.draft
           /\ \A g \in Gate : Compiled(e, g).subject.draft = e.subject.draft
  <1>1. ASSUME NEW s \in Status
        PROVE  Unsealed(e, s) \in EntryType /\ Unsealed(e, s).subject = e.subject
    BY UnsealedFields
  <1>2. \A a : Decided(e, a).subject = e.subject
    BY DEF Decided, EntryType
  <1>3. ASSUME NEW u \in EntryType, u.subject = e.subject
        PROVE  /\ \A event : [u EXCEPT !.subject.events = Append(@, event),
                                      !.subject.applied = None].subject.draft = e.subject.draft
               /\ \A g : [u EXCEPT !.subject.included = e.subject.events,
                                  !.subject.applied = e.subject.events,
                                  !.gate = g].subject.draft = e.subject.draft
               /\ [u EXCEPT !.request = [events |-> e.subject.events,
                                         fulfilled |-> FALSE]].subject = e.subject
    BY <1>3 DEF EntryType, SubjectType
  <1> QED
    BY <1>1, <1>2, <1>3 DEF Corrected, Requested, Compiled, Status

\* An item enqueued again holds the new extraction.
LEMMA MergeDraft ==
    ASSUME NEW i \in Item, NEW x \in Extraction, NEW g \in Verdicts[x],
           NEW old \in EntryType
    PROVE  Merge(i, old, Built(i, x, g)).subject.draft = x
  <1> DEFINE new == Built(i, x, g)
             h == Inherit(i, old, new)
  <1>1. new \in EntryType /\ new.subject.draft = x
    BY BuiltFine DEF Sane, Built
  <1> HIDE DEF new
  <1>2. h \in EntryType /\ h.subject.draft = x
    <2>1. /\ h \in EntryType
          /\ h.subject = [new.subject EXCEPT
                 !.events = IF i \in TraceItem THEN old.subject.events ELSE << >>]
      BY <1>1, InheritFields
    <2> QED
      BY <1>1, <2>1 DEF EntryType, SubjectType
  <1> HIDE DEF h
  <1>3. "needs_re_review" \in Status
    BY DEF Status
  <1>4. /\ Unsealed(new, "needs_re_review").subject.draft = x
        /\ Unsealed(h, "needs_re_review").subject.draft = x
    BY <1>1, <1>2, <1>3, UnsealedFields
  <1>5. Merge(i, old, new) \in {new, h, Unsealed(new, "needs_re_review"),
                                Unsealed(h, "needs_re_review")}
    BY DEF Merge, h
  <1> QED
    BY <1>1, <1>2, <1>4, <1>5 DEF new

\* A re-extracted candidate is the new extraction.
LEMMA FulfilledDraft ==
    ASSUME NEW e \in EntryType, NEW x \in Extraction, NEW g \in Gate
    PROVE  Fulfilled(e, x, g).subject.draft = x
  <1> DEFINE u == Unsealed(e, "pending")
  <1>1. u \in EntryType
    BY UnsealedFields DEF Status
  <1>2. Fulfilled(e, x, g) = [u EXCEPT !.subject = [u.subject EXCEPT !.draft = x,
                                           !.included = e.request.events],
                                       !.gate = g,
                                       !.request = [u.request EXCEPT !.fulfilled = TRUE]]
    BY <1>1 DEF Fulfilled, EntryType
  <1> HIDE DEF u
  <1>3. Fulfilled(e, x, g).subject = [u.subject EXCEPT !.draft = x, !.included = e.request.events]
    BY <1>1, <1>2 DEF EntryType
  <1> QED
    BY <1>1, <1>3 DEF EntryType, SubjectType
-----------------------------------------------------------------------------
\* What a process has read is of its item.
LEMMA ReadYielded ==
    ASSUME IInv, EntriesYielded, NEW p \in Process, NEW i \in Item, Has(p, i)
    PROVE  snapshot[p][i] \in EntryType /\ snapshot[p][i].subject.draft \in Yields[i]
  <1>1. snapshot[p][i] \in EntryType
    BY ReadFine DEF Sane
  <1> QED
    BY <1>1 DEF Has, EntriesYielded, Yielded

\* Writing the file back with an entry of its item.
LEMMA WriteYields ==
    ASSUME IInv, EntriesYielded, NEW p \in Process, snapshot[p] # None, NEW i \in Item, NEW e,
           Write(p, i, e), e.subject.draft \in Yields[i]
    PROVE  /\ \A j \in Item : Yielded(j, queue'[j])
           /\ \A q \in Process : snapshot'[q] # None =>
                  \A j \in Item : Yielded(j, snapshot'[q][j])
  <1>1. /\ snapshot \in [Process -> QueueType \cup {None}]
        /\ snapshot[p] \in QueueType
    BY DEF IInv, TypeOK, Process
  <1>2. /\ queue' = [snapshot[p] EXCEPT ![i] = e]
        /\ snapshot' = [snapshot EXCEPT ![p] = None]
    BY DEF Write
  <1>3. ASSUME NEW j \in Item
        PROVE  Yielded(j, queue'[j])
    BY <1>1, <1>2 DEF QueueType, EntriesYielded, Yielded
  <1>4. ASSUME NEW q \in Process, snapshot'[q] # None, NEW j \in Item
        PROVE  Yielded(j, snapshot'[q][j])
    <2>1. snapshot'[q] = snapshot[q]
      BY <1>1, <1>2, <1>4
    <2> QED
      BY <1>4, <2>1 DEF EntriesYielded
  <1> QED
    BY <1>3, <1>4

\* Whatever a command writes is of its item.
LEMMA CommandYields ==
    ASSUME IInv, EntriesYielded, SourceYielded, NEW p \in Clerk, Command(p)
    PROVE  EntriesYielded'
  <1>1. p \in Process /\ job' = job
    BY DEF Process, Command, Load, Abandon, Enqueue, Fulfil, Decide, AppendCorrection, Compile
  <1>2. CASE Load(p) \/ Abandon(p)
    <2>1. snapshot \in [Process -> QueueType \cup {None}]
      BY DEF IInv, TypeOK, Process
    <2>2. PICK s \in {queue, None} : snapshot' = [snapshot EXCEPT ![p] = s]
      BY <1>2 DEF Load, Abandon
    <2>3. UNCHANGED queue
      BY <1>2 DEF Load, Abandon
    <2>4. ASSUME NEW q \in Process, snapshot'[q] # None, NEW j \in Item
          PROVE  Yielded(j, snapshot'[q][j])
      BY <1>1, <2>1, <2>2, <2>4 DEF EntriesYielded
    <2> QED
      BY <1>1, <2>3, <2>4 DEF EntriesYielded
  <1>3. ASSUME NEW i \in Item, NEW e, snapshot[p] # None, Write(p, i, e),
               e.subject.draft \in Yields[i]
        PROVE  EntriesYielded'
    BY <1>1, <1>3, WriteYields DEF EntriesYielded
  <1>4. ASSUME NEW i \in Item, NEW x \in Extraction, NEW g \in Gate, Enqueue(p, i, x, g)
        PROVE  EntriesYielded'
    <2> DEFINE old == snapshot[p][i]
               new == Built(i, x, g)
               e == IF old = None THEN new ELSE Merge(i, old, new)
    <2>1. snapshot[p] # None /\ Write(p, i, e) /\ x \in Yields[i] /\ g \in Verdicts[x]
      BY <1>4 DEF Enqueue, SourceYielded
    <2>2. old # None => old \in EntryType
      BY <1>1, <2>1 DEF IInv, EntriesFine, Fine, Sane, Process
    <2>3. e.subject.draft = x
      BY <2>1, <2>2, MergeDraft DEF Built
    <2> HIDE DEF e
    <2> QED
      BY <1>3, <2>1, <2>3
  <1>5. ASSUME NEW i \in Item, NEW x \in Extraction, NEW g \in Gate, Fulfil(p, i, x, g)
        PROVE  EntriesYielded'
    BY <1>1, <1>3, <1>5, ReadYielded, FulfilledDraft DEF Fulfil, Has
  <1>6. ASSUME NEW i \in Item, NEW a \in Action, Decide(p, i, a)
        PROVE  EntriesYielded'
    BY <1>1, <1>3, <1>6, ReadYielded, SameDraft DEF Decide, Has
  <1>7. ASSUME NEW i \in Item, NEW k \in Kind, AppendCorrection(p, i, k)
        PROVE  EntriesYielded'
    <2>1. [kind |-> k, id |-> used["events"] + 1] \in Event
      BY <1>7 DEF AppendCorrection, Spend, IInv, TypeOK, Event
    <2> QED
      BY <1>1, <1>3, <1>7, <2>1, ReadYielded, SameDraft DEF AppendCorrection, Has
  <1>8. ASSUME NEW i \in Item, NEW g \in Gate, Compile(p, i, g)
        PROVE  EntriesYielded'
    <2> DEFINE e == snapshot[p][i]
               c == IF IsStructural(e) THEN Requested(e) ELSE Compiled(e, g)
    <2>1. snapshot[p] # None /\ Write(p, i, c) /\ Has(p, i)
      BY <1>8 DEF Compile, Has
    <2>2. c.subject.draft \in Yields[i]
      BY <1>1, <2>1, ReadYielded, SameDraft
    <2> HIDE DEF c
    <2> QED
      BY <1>3, <2>1, <2>2
  <1> QED
    BY <1>2, <1>4, <1>5, <1>6, <1>7, <1>8 DEF Command

\* A step of W5 that leaves graph and audit file alone, and forgets the merged
\* item if it changes what it has taken.
LEMMA QuietKeeps ==
    ASSUME GInv, IInv', UNCHANGED <<source, graph, audit>>,
           \/ job'.taken = job.taken /\ job'.unaudited \in {job.unaudited, None}
           \/ job'.unaudited = None /\ \A i \in Item : Yielded(i, job'.taken[i]),
           \/ UNCHANGED <<queue, snapshot>>
           \/ UNCHANGED queue /\ \E s \in {queue, None} : snapshot' = [snapshot EXCEPT ![W5] = s]
           \/ \E i \in Item : \E e : /\ snapshot[W5] # None /\ Write(W5, i, e)
                                      /\ e.subject.draft \in Yields[i]
    PROVE  GInv'
  <1>1. W5 \in Process /\ snapshot \in [Process -> QueueType \cup {None}]
    BY DEF Process, GInv, IInv, TypeOK
  <1>2. UnauditedInGraph' /\ \A i \in Item : Yielded(i, job'.taken[i])
    BY DEF GInv, UnauditedInGraph, EntriesYielded
  <1>3. /\ \A i \in Item : Yielded(i, queue'[i])
        /\ \A q \in Process : snapshot'[q] # None => \A i \in Item : Yielded(i, snapshot'[q][i])
    <2>1. CASE UNCHANGED <<queue, snapshot>>
      BY <2>1 DEF GInv, EntriesYielded
    <2>2. CASE UNCHANGED queue /\ \E s \in {queue, None} : snapshot' = [snapshot EXCEPT ![W5] = s]
      BY <1>1, <2>2 DEF GInv, EntriesYielded
    <2>3. CASE \E i \in Item : \E e : /\ snapshot[W5] # None /\ Write(W5, i, e)
                                       /\ e.subject.draft \in Yields[i]
      <3>1. PICK i \in Item : \E e : /\ snapshot[W5] # None /\ Write(W5, i, e)
                                     /\ e.subject.draft \in Yields[i]
        BY <2>3
      <3>2. PICK e : /\ snapshot[W5] # None /\ Write(W5, i, e)
                     /\ e.subject.draft \in Yields[i]
        BY <3>1
      <3> QED
        BY <1>1, <3>2, WriteYields DEF GInv
    <2> QED
      BY <2>1, <2>2, <2>3
  <1> QED
    BY <1>2, <1>3 DEF GInv, EntriesYielded, SourceYielded, GraphVersioned, AuditYielded,
                      VersionsNeverMix, AuditIsTrue

\* The steps of W5 other than the merge and the audit row.
LEMMA BookkeepingKeeps ==
    ASSUME GInv, IInv', NEW i \in Item,
           \/ StartApply \/ FinishApply \/ CrashApply \/ LoadToMark
           \/ Skip(i) \/ SkipStale(i) \/ MarkNeedsReReview(i) \/ MarkNotFound(i)
    PROVE  GInv'
  <1>1. job \in JobType
    BY JobHas DEF GInv
  <1>2. Idle.unaudited = None /\ \A j \in Item : Yielded(j, Idle.taken[j])
    BY DEF Idle, Yielded
  <1>3. CASE StartApply
    <2> DEFINE taken == [j \in Item |-> IF Approved(queue[j]) THEN queue[j] ELSE None]
    <2>1. /\ job' = [Idle EXCEPT !.phase = "apply", !.todo = {j \in Item : Approved(queue[j])},
                                 !.taken = taken]
          /\ UNCHANGED <<queue, snapshot, source, graph, audit>>
      BY <1>3 DEF StartApply
    <2>2. \A j \in Item : Yielded(j, taken[j])
      BY DEF GInv, EntriesYielded, Yielded
    <2> HIDE DEF taken
    <2>3. job'.unaudited = None /\ job'.taken = taken
      BY <2>1 DEF Idle
    <2> QED
      BY <2>1, <2>2, <2>3, QuietKeeps
  <1>4. CASE Skip(i) \/ SkipStale(i)
    <2>1. job'.taken = job.taken /\ job'.unaudited = job.unaudited
      BY <1>1, <1>4 DEF Skip, SkipStale, JobType
    <2> QED
      BY <1>4, <2>1, QuietKeeps DEF Skip, SkipStale
  <1>5. CASE FinishApply
    <2>1. job' \in {Idle, [Idle EXCEPT !.phase = "mark", !.stale = job.stale]}
      BY <1>5 DEF FinishApply
    <2>2. job'.unaudited = None /\ job'.taken = Idle.taken
      BY <1>1, <2>1, IdleFine DEF JobType
    <2> QED
      BY <1>2, <1>5, <2>2, QuietKeeps DEF FinishApply
  <1>6. CASE CrashApply
    BY <1>2, <1>6, QuietKeeps DEF CrashApply
  <1>7. CASE LoadToMark
    BY <1>7, QuietKeeps DEF LoadToMark, Load
  <1>8. CASE MarkNeedsReReview(i) \/ MarkNotFound(i)
    <2>1. job' \in {Idle, [job EXCEPT !.stale = job.stale \ {i}]}
      BY <1>1, <1>8 DEF MarkNeedsReReview, MarkNotFound, JobType
    <2>2. \/ job'.taken = job.taken /\ job'.unaudited = job.unaudited
          \/ job'.unaudited = None /\ \A j \in Item : Yielded(j, job'.taken[j])
      BY <1>1, <1>2, <2>1 DEF JobType
    <2>3. CASE MarkNotFound(i)
      BY <2>2, <2>3, QuietKeeps DEF MarkNotFound
    <2>4. CASE MarkNeedsReReview(i)
      <3> DEFINE e == Unsealed(snapshot[W5][i], "needs_re_review")
      <3>1. snapshot[W5] # None /\ Has(W5, i) /\ Write(W5, i, e)
        BY <2>4 DEF MarkNeedsReReview, Has
      <3>2. W5 \in Process
        BY DEF Process
      <3>3. e.subject.draft \in Yields[i]
        BY <3>1, <3>2, ReadYielded, UnsealedFields DEF GInv, Status
      <3>4. UNCHANGED <<source, graph, audit>>
        BY <2>4 DEF MarkNeedsReReview
      <3> HIDE DEF e
      <3> QED
        BY <2>2, <3>1, <3>3, <3>4, QuietKeeps
    <2> QED
      BY <1>8, <2>3, <2>4
  <1> QED
    BY <1>3, <1>4, <1>5, <1>6, <1>7, <1>8

\* The audit row is about what W5 has just merged.
LEMMA AuditKeepsGraph ==
    ASSUME GInv, IInv', Audit
    PROVE  GInv'
  <1> DEFINE i == job.unaudited
             e == job.taken[i]
             r == <<i, Content(e.subject)>>
  <1>1. /\ audit' = audit \cup {r}
        /\ job' = [job EXCEPT !.unaudited = None]
        /\ i # None
        /\ UNCHANGED <<queue, snapshot, source, graph>>
    BY DEF Audit
  <1>2. job \in JobType /\ i \in Item /\ e # None
    BY <1>1, JobHas DEF GInv, JobType, TakenIsKnown
  <1>3. job'.taken = job.taken /\ job'.unaudited = None
    BY <1>1, <1>2 DEF JobType
  <1>4. r[1] = i /\ r[2].draft = e.subject.draft
    BY DEF Content
  <1> HIDE DEF r
  <1>5. e.subject.draft \in Yields[i]
    BY <1>2 DEF GInv, EntriesYielded, Yielded
  <1>6. AuditYielded' /\ AuditIsTrue'
    BY <1>1, <1>4, <1>5 DEF GInv, AuditYielded, AuditIsTrue, UnauditedInGraph
  <1> QED
    BY <1>1, <1>3, <1>6 DEF GInv, EntriesYielded, SourceYielded, GraphVersioned,
                            UnauditedInGraph, VersionsNeverMix

\* The merge.
LEMMA ApplyKeepsGraph ==
    ASSUME GInv, IInv', NEW i \in Item, Apply(i)
    PROVE  GInv'
  <1> DEFINE e == job.taken[i]
             x == e.subject.draft
             n == [item |-> i, subject |-> e.subject, execute |-> MaterializeAllowed(i, e)]
  <1>1. /\ graph' = MergeGraph(i, e)
        /\ job' = [job EXCEPT !.todo = @ \ {i}, !.unaudited = i]
        /\ Admissible(i, e) /\ ~SourceChanged(i, e)
        /\ UNCHANGED <<queue, snapshot, source, audit>>
    BY DEF Apply
  <1>2. /\ job \in JobType /\ e # None /\ e \in EntryType
        /\ Uncorrected(i, e)
    BY <1>1, JobHas DEF GInv, Admissible, Approved, Fine, Sane
  <1>3. job'.taken = job.taken /\ job'.unaudited = i
    BY <1>1, <1>2 DEF JobType
  <1>4. n \in NodeType /\ x \in Extraction /\ x \in Yields[i] /\ Objects[x] \subseteq Object
    <2>1. MaterializeAllowed(i, e) \in BOOLEAN
      BY DEF MaterializeAllowed
    <2> QED
      BY <1>2, <2>1 DEF NodeType, EntryType, SubjectType, GInv, EntriesYielded, Yielded
  <1>5. n # None /\ n.item = i /\ n.subject = e.subject
    BY <1>4
  <1>6. ASSUME NEW o \in Object
        PROVE  \/ graph'[o] = n /\ o \in Objects[x]
               \/ graph'[o] = graph[o] /\ ~(i \in Document /\ o \notin Objects[x]
                                            /\ graph[o] # None /\ graph[o].item = i)
               \/ /\ graph'[o] = None /\ i \in Document /\ o \notin Objects[x]
                  /\ graph[o] # None /\ graph[o].item = i
    BY <1>1 DEF MergeGraph
  <1>7. \A o \in Objects[x] : graph'[o] # None
    BY <1>1, <1>4, <1>5 DEF MergeGraph
  <1> HIDE DEF n
  <1>8. GraphVersioned'
    <2>1. ASSUME NEW o \in Objects[x]
          PROVE  Versioned(n, o)
      BY <1>2, <1>4, <1>5, <2>1 DEF Versioned, Uncorrected
    <2> QED
      BY <1>6, <2>1 DEF GInv, GraphVersioned
  <1>9. ASSUME i \in Document, NEW q \in Object, graph[q] # None, graph[q].item = i,
               q \in Objects[x]
        PROVE  graph[q].subject = e.subject
    <2> DEFINE y == graph[q].subject.draft
    <2>1. Versioned(graph[q], q)
      BY <1>9 DEF GInv, GraphVersioned
    <2>2. /\ q \in Objects[y] /\ y \in Yields[i]
          /\ graph[q].subject = [base |-> y, draft |-> y, included |-> << >>,
                                 events |-> << >>, applied |-> None]
      BY <1>9, <2>1 DEF Versioned
    <2>3. x = y
      BY <1>4, <1>9, <2>2, ObjectAssumption
    <2> QED
      BY <1>2, <1>9, <2>2, <2>3 DEF Uncorrected
  <1>10. VersionsNeverMix'
    <2>1. ASSUME NEW o \in Object, NEW q \in Object,
                 graph'[o] # None, graph'[q] # None,
                 graph'[o].item = graph'[q].item, graph'[o].item \in Document
          PROVE  graph'[o].subject = graph'[q].subject
      <3>1. CASE graph'[o] = n /\ graph'[q] = n
        BY <3>1
      <3>2. CASE graph'[o] = graph[o] /\ graph'[q] = graph[q]
        BY <2>1, <3>2 DEF GInv, VersionsNeverMix
      <3>3. CASE graph'[o] = n /\ graph'[q] = graph[q] /\ graph'[q] # n
        BY <1>5, <1>6, <1>9, <2>1, <3>3
      <3>4. CASE graph'[o] = graph[o] /\ graph'[q] = n /\ graph'[o] # n
        BY <1>5, <1>6, <1>9, <2>1, <3>4
      <3> QED
        BY <1>6, <2>1, <3>1, <3>2, <3>3, <3>4
    <2> QED
      BY <2>1 DEF VersionsNeverMix
  <1>11. AuditIsTrue'
    <2>1. ASSUME NEW r \in audit, r[1] \notin Document, NEW o \in Objects[r[2].draft]
          PROVE  graph'[o] # None
      <3>1. r[1] \in Item /\ r[2].draft \in Extraction /\ r[2].draft \in Yields[r[1]]
        BY DEF GInv, IInv, TypeOK, AuditYielded
      <3>2. o \in Object /\ graph[o] # None
        BY <2>1, <3>1 DEF GInv, AuditIsTrue
      <3>3. ~(i \in Document /\ graph[o].item = i)
        <4>1. SUFFICES ASSUME i \in Document, graph[o].item = i
                       PROVE  FALSE
          OBVIOUS
        <4> DEFINE y == graph[o].subject.draft
        <4>2. o \in Objects[y] /\ y \in Yields[i] /\ y \in Extraction
          BY <3>2, <4>1 DEF GInv, GraphVersioned, Versioned
        <4>3. Objects[r[2].draft] \cap Objects[y] = {}
          BY <2>1, <3>1, <4>1, <4>2, ObjectAssumption
        <4> QED
          BY <4>2, <4>3
      <3> QED
        BY <1>5, <1>6, <3>2, <3>3
    <2> QED
      BY <1>1, <2>1 DEF AuditIsTrue
  <1>12. EntriesYielded' /\ SourceYielded' /\ AuditYielded' /\ UnauditedInGraph'
    BY <1>1, <1>3, <1>7 DEF GInv, EntriesYielded, SourceYielded, AuditYielded, UnauditedInGraph
  <1> QED
    BY <1>8, <1>10, <1>11, <1>12 DEF GInv
-----------------------------------------------------------------------------
LEMMA InitGInv == Init => GInv
  <1> SUFFICES ASSUME Init PROVE GInv
    OBVIOUS
  <1>1. IInv
    BY InitIInv
  <1> QED
    BY <1>1 DEF Init, Idle, Process, GInv, EntriesYielded, Yielded, SourceYielded, GraphVersioned,
                UnauditedInGraph, AuditYielded, VersionsNeverMix, AuditIsTrue

LEMMA NextGInv ==
    ASSUME GInv, [Next]_vars
    PROVE  GInv'
  <1>1. IInv /\ IInv'
    BY NextIInv DEF GInv
  <1>2. ASSUME NEW p \in Clerk, Command(p)
        PROVE  GInv'
    <2>1. EntriesYielded'
      BY <1>2, CommandYields DEF GInv
    <2>2. UNCHANGED <<source, graph, audit, job>>
      BY <1>2 DEF Command, Load, Abandon, Enqueue, Fulfil, Decide, AppendCorrection, Compile
    <2> QED
      BY <1>1, <2>1, <2>2 DEF GInv, SourceYielded, GraphVersioned, UnauditedInGraph,
                              AuditYielded, VersionsNeverMix, AuditIsTrue
  <1>3. CASE Applier
    <2>1. CASE Audit
      BY <1>1, <2>1, AuditKeepsGraph
    <2>2. ASSUME NEW i \in Item, Apply(i)
          PROVE  GInv'
      BY <1>1, <2>2, ApplyKeepsGraph
    <2>3. ASSUME NEW i \in Item,
                 Skip(i) \/ SkipStale(i) \/ MarkNeedsReReview(i) \/ MarkNotFound(i)
          PROVE  GInv'
      BY <1>1, <2>3, BookkeepingKeeps
    <2>4. CASE StartApply \/ FinishApply \/ CrashApply \/ LoadToMark
      <3>1. CASE Item = {}
        <4>1. UNCHANGED <<source, graph, audit>>
          BY <2>4 DEF StartApply, FinishApply, CrashApply, LoadToMark, Load
        <4> QED
          BY <1>1, <3>1, <4>1 DEF GInv, EntriesYielded, Yielded, SourceYielded, GraphVersioned,
             UnauditedInGraph, AuditYielded, VersionsNeverMix, AuditIsTrue, IInv, TypeOK
      <3>2. CASE Item # {}
        BY <1>1, <2>4, <3>2, BookkeepingKeeps
      <3> QED
        BY <3>1, <3>2
    <2> QED
      BY <1>3, <2>1, <2>2, <2>3, <2>4 DEF Applier
  <1>4. ASSUME NEW i \in Item, NEW x \in Extraction, Edit(i, x)
        PROVE  GInv'
    <2>1. SourceYielded'
      BY <1>4 DEF Edit, GInv, SourceYielded, IInv, TypeOK
    <2> QED
      BY <1>1, <1>4, <2>1 DEF Edit, GInv, EntriesYielded, GraphVersioned, UnauditedInGraph,
                              AuditYielded, VersionsNeverMix, AuditIsTrue
  <1>5. CASE UNCHANGED vars
    BY <1>1, <1>5 DEF vars, GInv, EntriesYielded, SourceYielded, GraphVersioned,
                      UnauditedInGraph, AuditYielded, VersionsNeverMix, AuditIsTrue
  <1> QED
    BY <1>2, <1>3, <1>4, <1>5 DEF Next

\* Every reachable state satisfies the invariant.
THEOREM GraphInvariance == Spec => []GInv
  BY InitGInv, NextGInv, PTL DEF Spec

\* Two versions of one document are never in the graph together.
THEOREM OneVersion == Spec => []VersionsNeverMix
  <1>1. GInv => VersionsNeverMix
    BY DEF GInv
  <1> QED
    BY <1>1, GraphInvariance, PTL

\* What the audit file calls applied is in the graph.
THEOREM TheAuditIsTrue == Spec => []AuditIsTrue
  <1>1. GInv => AuditIsTrue
    BY DEF GInv
  <1> QED
    BY <1>1, GraphInvariance, PTL
=============================================================================
