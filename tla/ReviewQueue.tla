---------------------------- MODULE ReviewQueue ----------------------------
(***************************************************************************)
(* The human gate of the write side: the review queue W6                   *)
(* (agents/write/w6_review_queue) and the approved-only applier W5         *)
(* (agents/write_v2/ingest.py) that merges approved typed candidates into  *)
(* the KG_v2 graph.                                                        *)
(*                                                                         *)
(* The queue is one JSON file.  Every command (an ingestion, a decision, a *)
(* correction, a compilation, a re-extraction) reads all of it, changes    *)
(* one item and writes all of it back, without a lock: Load takes the      *)
(* snapshot, the operation's action computes from it and writes.  W5 works *)
(* from the snapshot it took when it started.                              *)
(***************************************************************************)
EXTENDS Naturals, Sequences, FiniteSets

CONSTANTS
    Item,          \* queue items, by dedupe_key
    TraceItem,     \* those built by build_w7_trace_review_item: hash-bound
    Document,      \* those of review_scope document_layer: pinned to a source
                   \*   file; every other item is a fault_execution candidate
    Extraction,    \* candidates that an extraction (W2 .. W4, W9) may produce
    Yields,        \* Yields[i]: what the sources of item i may be extracted to
    Verdicts,      \* Verdicts[x]: decisions W4 may take of x, or of x corrected
    Bundle,        \* Bundle[x]: the trace bundle hash of extraction x
    Objects,       \* Objects[x]: ids of the graph objects of x
    Object,
    Clerk,         \* concurrent processes that run W6 commands
    W5,            \* the process that applies; one at a time
    MaxEvents,     \* bound on the correction events ever appended
    MaxDecisions,  \* bound on the human decisions
    MaxIngests,    \* bound on the enqueues
    MaxEdits,      \* bound on the edits of a source file
    MaxRuns,       \* bound on the runs of W5
    None           \* no entry, snapshot, hash, request, action, node

Action   == {"approve", "approve_support_only", "approve_for_execution_policy",
             "reject"}    \* request_more_info leaves another non-approved status
Approval == Action \ {"reject"}
Gate     == {"admit", "route_review", "reject"}   \* quality_gate.decision of W4
Status   == {"pending", "approved", "rejected", "needs_re_review", "needs_w2_reextract"}
Kind     == {"local", "structural"}               \* structural: split / merge of cases

\* A correction event; its created_at and hash make it unlike any other.
Event == [kind : Kind, id : 1..MaxEvents]

ASSUME ItemAssumption ==
    /\ TraceItem \subseteq Item
    /\ Document \subseteq Item \ TraceItem
    /\ Yields \in [Item -> SUBSET Extraction]
    /\ Verdicts \in [Extraction -> SUBSET Gate]
    /\ Objects \in [Extraction -> SUBSET Object]
    /\ None \notin Item \cup Extraction
    /\ W5 \notin Clerk
ASSUME BoundAssumption ==
    {MaxEvents, MaxDecisions, MaxIngests, MaxEdits, MaxRuns} \subseteq Nat

VARIABLES
    queue,      \* v2_typed_candidates.json
    snapshot,   \* what each process has read of it
    source,     \* the source file of each document
    graph,      \* the KG_v2 graph: who wrote each object
    audit,      \* approved_applied.json: item and content of each row
    job,        \* the run of W5
    approvals,  \* observability: the approvals humans gave
    used        \* how much of each bound is used up

vars == <<queue, snapshot, source, graph, audit, job, approvals, used>>

(***************************************************************************)
(* approval_subject_hash: what an approval binds.  The candidate and the   *)
(* corrected payload are the extraction `draft' with the events `included' *)
(* compiled into it; `applied' is applied_correction_overlay_hash, None    *)
(* when correction_overlay_applied is not set.                             *)
(***************************************************************************)
SubjectType == [base : Extraction \cup {Bundle[x] : x \in Extraction}, draft : Extraction,
                included : Seq(Event), events : Seq(Event),
                applied : Seq(Event) \cup {None}]

\* human_approved and review_decision are not kept apart from status: the
\* code sets all three together.  action is selected_action, seal is
\* approved_content_hash.
EntryType ==
    [subject : SubjectType, gate : Gate, status : Status, action : Action \cup {None},
     seal : SubjectType \cup {None},
     request : [events : Seq(Event), fulfilled : BOOLEAN] \cup {None}]

\* An object of the graph: who wrote it, and execution_materialize_allowed.
NodeType == [item : Item, subject : SubjectType, execute : BOOLEAN]

ASSUME NoneAssumption ==
    \* None is no chain of events and no object.
    /\ None \notin Seq(Event)
    /\ None \notin NodeType

ASSUME ObjectAssumption ==
    \* Documents, sections and steps have content-addressed ids: they are of one
    \* version of a document, and no other kind of item yields them.  (Media
    \* assets, which versions and documents may share, are left out.)
    \A d \in Document, y \in Extraction : y \in Yields[d] =>
        /\ \A x \in Yields[d] : x # y => Objects[x] \cap Objects[y] = {}
        /\ \A i \in Item \ Document, x \in Extraction :
               x \in Yields[i] => Objects[x] \cap Objects[y] = {}

Content(s) == [draft |-> s.draft, included |-> s.included]   \* content_hash
Approved(e) == e # None /\ e.status = "approved"
Idle == [phase |-> "idle", todo |-> {}, taken |-> [i \in Item |-> None],
         unaudited |-> None, stale |-> {}]
-----------------------------------------------------------------------------
(***************************************************************************)
(* What an operation of W6 makes of an entry.                              *)
(***************************************************************************)
Base(i, x) == IF i \in TraceItem THEN Bundle[x] ELSE x

\* build_typed_review_item, build_w7_trace_review_item
Built(i, x, g) ==
    [subject |-> [base |-> Base(i, x), draft |-> x, included |-> << >>,
                  events |-> << >>, applied |-> None],
     gate |-> g, status |-> "pending", action |-> None, seal |-> None, request |-> None]

Unsealed(e, status) == [e EXCEPT !.status = status, !.action = None, !.seal = None]

\* The state a re-enqueued item inherits when the base is the same.
Inherit(i, old, new) ==
    [new EXCEPT !.status = old.status, !.action = old.action, !.seal = old.seal,
                !.subject.events = IF i \in TraceItem THEN old.subject.events ELSE << >>]

\* Mutant of Merge: a decision is inherited whatever the base is now.
MergeAnyBase(i, old, new) ==
    IF old.status = "pending" THEN new ELSE Inherit(i, old, new)

\* _merge_review_state
Merge(i, old, new) ==
    LET heir == Inherit(i, old, new)
    IN  IF old.status = "pending" THEN new
        ELSE IF old.subject.base # new.subject.base THEN Unsealed(new, "needs_re_review")
        ELSE IF i \in TraceItem /\ heir.seal # heir.subject
        THEN Unsealed(heir, "needs_re_review")
        ELSE heir

Decided(e, a) ==
    [e EXCEPT !.status = IF a \in Approval THEN "approved" ELSE "rejected",
              !.action = a, !.seal = IF a \in Approval THEN e.subject ELSE None]

\* Mutant of Corrected: the approval is not invalidated.
CorrectedOnly(e, event) ==
    [e EXCEPT !.subject.events = Append(@, event), !.subject.applied = None]

\* append_trace_correction; the corrected payload is dropped, the candidate stays.
Corrected(e, event) ==
    [Unsealed(e, "needs_re_review") EXCEPT !.subject.events = Append(@, event),
                                           !.subject.applied = None]

IsStructural(e) == \E n \in DOMAIN e.subject.events : e.subject.events[n].kind = "structural"

\* compile_trace_corrections: a re-extraction request, or a new candidate.
Requested(e) ==
    [Unsealed(e, "needs_w2_reextract") EXCEPT
        !.request = [events |-> e.subject.events, fulfilled |-> FALSE]]
Compiled(e, g) ==
    [Unsealed(e, "pending") EXCEPT !.subject.included = e.subject.events,
                                   !.subject.applied = e.subject.events, !.gate = g]

\* Mutant of Fulfilled: the item is marked fulfilled and not its request.
FulfilledItem(e, x, g) ==
    [Unsealed(e, "fulfilled") EXCEPT !.subject.draft = x,
                                     !.subject.included = e.request.events, !.gate = g]

\* fulfill_w2_reextract: W2 has worked on the corrected manifest of the request.
Fulfilled(e, x, g) ==
    [Unsealed(e, "pending") EXCEPT !.subject.draft = x,
                                   !.subject.included = e.request.events, !.gate = g,
                                   !.request.fulfilled = TRUE]
-----------------------------------------------------------------------------
(***************************************************************************)
(* Commands on the queue.                                                  *)
(***************************************************************************)
Spend(c, max) == used[c] < max /\ used' = [used EXCEPT ![c] = @ + 1]

\* _read, at the start of every operation.
Load(p) ==
    /\ snapshot[p] = None
    /\ snapshot' = [snapshot EXCEPT ![p] = queue]
    /\ UNCHANGED <<queue, source, graph, audit, job, approvals, used>>

\* An early return, a scorer or callback that raises, or a crash.
Abandon(p) ==
    /\ snapshot[p] # None
    /\ snapshot' = [snapshot EXCEPT ![p] = None]
    /\ UNCHANGED <<queue, source, graph, audit, job, approvals, used>>

\* _write: the whole file, from p's snapshot with the entry of i replaced.
Write(p, i, e) ==
    /\ queue' = [snapshot[p] EXCEPT ![i] = e]
    /\ snapshot' = [snapshot EXCEPT ![p] = None]

Has(p, i) == snapshot[p] # None /\ snapshot[p][i] # None

\* enqueue; a document is extracted from its source file.
Enqueue(p, i, x, g) ==
    /\ snapshot[p] # None
    /\ x \in IF i \in Document THEN {source[i]} ELSE Yields[i]
    /\ g \in Verdicts[x]
    /\ Spend("ingests", MaxIngests)
    /\ LET new == Built(i, x, g)
       IN  Write(p, i, IF snapshot[p][i] = None THEN new
                       ELSE Merge(i, snapshot[p][i], new))
    /\ UNCHANGED <<source, graph, audit, job, approvals>>

\* mark_decision: on the item as it is now, by id.
Decide(p, i, a) ==
    /\ Has(p, i)
    /\ Spend("decisions", MaxDecisions)
    /\ Write(p, i, Decided(snapshot[p][i], a))
    /\ approvals' = IF a \in Approval
                    THEN approvals \cup
                         {[item |-> i, subject |-> snapshot[p][i].subject, action |-> a]}
                    ELSE approvals
    /\ UNCHANGED <<source, graph, audit, job>>

AppendCorrection(p, i, k) ==
    /\ Has(p, i)
    /\ i \in TraceItem
    /\ Spend("events", MaxEvents)
    /\ Write(p, i, Corrected(snapshot[p][i], [kind |-> k, id |-> used["events"] + 1]))
    /\ UNCHANGED <<source, graph, audit, job, approvals>>

Compile(p, i, g) ==
    /\ Has(p, i)
    /\ i \in TraceItem
    /\ snapshot[p][i].subject.events # << >>
    /\ g \in Verdicts[snapshot[p][i].subject.draft]
    /\ Write(p, i, IF IsStructural(snapshot[p][i]) THEN Requested(snapshot[p][i])
                   ELSE Compiled(snapshot[p][i], g))
    /\ UNCHANGED <<source, graph, audit, job, approvals, used>>

Fulfil(p, i, x, g) ==
    /\ Has(p, i)
    /\ snapshot[p][i].request # None
    /\ x \in Yields[i]
    /\ g \in Verdicts[x]
    /\ Write(p, i, Fulfilled(snapshot[p][i], x, g))
    /\ UNCHANGED <<source, graph, audit, job, approvals, used>>

\* The source file of a document is replaced.
Edit(i, x) ==
    /\ i \in Document
    /\ x \in Yields[i] \ {source[i]}
    /\ Spend("edits", MaxEdits)
    /\ source' = [source EXCEPT ![i] = x]
    /\ UNCHANGED <<queue, snapshot, graph, audit, job, approvals>>
-----------------------------------------------------------------------------
(***************************************************************************)
(* W5: apply_approved_review_queue, one item after the other; the process  *)
(* may die between any two writes.                                         *)
(***************************************************************************)
\* Mutant of CorrectionsCompiled: whether the chain is compiled is not asked.
CorrectionsApproved(e) == e.subject.events # << >> => Approved(e)
CorrectionsCompiled(e) == e.subject.events # << >> => e.subject.applied = e.subject.events

\* The checks on the item alone: approval_hash_matches, the correction
\* overlay, _approved, _w4_admitted.
Admissible(i, e) ==
    /\ i \in TraceItem => e.seal = e.subject
    /\ CorrectionsCompiled(e)
    /\ Approved(e)
    /\ e.gate \in {"admit", "route_review"}

\* _reviewed_source_hash_issues
SourceChanged(i, e) == i \in Document /\ source[i] # e.subject.draft

\* _seen_dedupe_key
AlreadyApplied(i, e) == <<i, Content(e.subject)>> \in audit

\* Mutant of MaterializeAllowed: a plain approval releases what W4 did not admit.
MaterializePlainly(i, e) ==
    i \notin Document /\ e.action \in {"approve", "approve_for_execution_policy"}

\* _materialize_allowed of an approved entry.
MaterializeAllowed(i, e) ==
    /\ i \notin Document
    /\ \/ e.action = "approve_for_execution_policy" /\ e.gate \in {"admit", "route_review"}
       \/ e.action = "approve" /\ e.gate = "admit"

(***************************************************************************)
(* _objects_for_approved_merge and merge_graph: an object that exists is   *)
(* only touched by a candidate that may materialize.  Objects of a         *)
(* document have content-addressed ids, and its old version is purged.     *)
(* Left out: the stub that marks an existing KnowledgeDocument approved,   *)
(* and the objects of an old version that others refer to, which stay.     *)
(***************************************************************************)
\* Mutant of MergeGraph: every candidate writes over what exists.
MergeOver(i, e) ==
    [o \in Object |->
        IF o \in Objects[e.subject.draft]
        THEN [item |-> i, subject |-> e.subject, execute |-> MaterializeAllowed(i, e)]
        ELSE IF i \in Document /\ graph[o] # None
        THEN IF graph[o].item = i THEN None ELSE graph[o]
        ELSE graph[o]]

\* Mutant of MergeGraph: only a candidate that may materialize writes.
MergeReleased(i, e) ==
    [o \in Object |->
        IF o \in Objects[e.subject.draft] /\ MaterializeAllowed(i, e)
        THEN [item |-> i, subject |-> e.subject, execute |-> TRUE]
        ELSE graph[o]]

\* Mutant of MergeGraph: the document's old version is not purged.
MergeUnpurged(i, e) ==
    [o \in Object |->
        IF /\ o \in Objects[e.subject.draft]
           /\ MaterializeAllowed(i, e) \/ graph[o] = None
        THEN [item |-> i, subject |-> e.subject, execute |-> MaterializeAllowed(i, e)]
        ELSE graph[o]]

\* Mutant of MergeGraph: the purge does not ask whose the object is.
MergePurgesAll(i, e) ==
    [o \in Object |->
        IF /\ o \in Objects[e.subject.draft]
           /\ MaterializeAllowed(i, e) \/ graph[o] = None
        THEN [item |-> i, subject |-> e.subject, execute |-> MaterializeAllowed(i, e)]
        ELSE IF i \in Document /\ o \notin Objects[e.subject.draft] THEN None
        ELSE graph[o]]

MergeGraph(i, e) ==
    [o \in Object |->
        IF /\ o \in Objects[e.subject.draft]
           /\ MaterializeAllowed(i, e) \/ graph[o] = None
        THEN [item |-> i, subject |-> e.subject, execute |-> MaterializeAllowed(i, e)]
        ELSE IF i \in Document /\ o \notin Objects[e.subject.draft] /\ graph[o] # None
        THEN IF graph[o].item = i THEN None ELSE graph[o]
        ELSE graph[o]]

StartApply ==
    /\ job.phase = "idle"
    /\ Spend("runs", MaxRuns)
    /\ job' = [Idle EXCEPT !.phase = "apply", !.todo = {i \in Item : Approved(queue[i])},
                           !.taken = [i \in Item |-> IF Approved(queue[i]) THEN queue[i]
                                                     ELSE None]]
    /\ UNCHANGED <<queue, snapshot, source, graph, audit, approvals>>

\* i is the next item of the run; the previous one has its audit row.
Turn(i) == /\ job.phase = "apply"
           /\ job.unaudited = None
           /\ i \in job.todo

\* A result "skipped" that changes nothing, or "already_applied".
Skip(i) ==
    /\ Turn(i)
    /\ \/ ~Admissible(i, job.taken[i])
       \/ ~SourceChanged(i, job.taken[i]) /\ AlreadyApplied(i, job.taken[i])
    /\ job' = [job EXCEPT !.todo = @ \ {i}]
    /\ UNCHANGED <<queue, snapshot, source, graph, audit, approvals, used>>

\* source_content_changed_since_review; W6 is told at the end of the run.
SkipStale(i) ==
    /\ Turn(i)
    /\ Admissible(i, job.taken[i])
    /\ SourceChanged(i, job.taken[i])
    /\ job' = [job EXCEPT !.todo = @ \ {i}, !.stale = @ \cup {i}]
    /\ UNCHANGED <<queue, snapshot, source, graph, audit, approvals, used>>

Apply(i) ==
    /\ Turn(i)
    /\ Admissible(i, job.taken[i])
    /\ ~SourceChanged(i, job.taken[i])
    /\ ~AlreadyApplied(i, job.taken[i])
    /\ graph' = MergeGraph(i, job.taken[i])
    /\ job' = [job EXCEPT !.todo = @ \ {i}, !.unaudited = i]
    /\ UNCHANGED <<queue, snapshot, source, audit, approvals, used>>

\* The audit row, after the terminology layer has been rebuilt.
Audit ==
    /\ job.unaudited # None
    /\ audit' = audit \cup {<<job.unaudited, Content(job.taken[job.unaudited].subject)>>}
    /\ job' = [job EXCEPT !.unaudited = None]
    /\ UNCHANGED <<queue, snapshot, source, graph, approvals, used>>

\* The batch is done; what was stale is sent back to review.
FinishApply ==
    /\ job.phase = "apply" /\ job.todo = {} /\ job.unaudited = None
    /\ job' = IF job.stale = {} THEN Idle ELSE [Idle EXCEPT !.phase = "mark", !.stale = job.stale]
    /\ UNCHANGED <<queue, snapshot, source, graph, audit, approvals, used>>

LoadToMark ==
    /\ job.phase = "mark"
    /\ Load(W5)

\* mark_needs_re_review; an item that is gone from the file is "not_found".
MarkNeedsReReview(i) ==
    /\ i \in job.stale
    /\ Has(W5, i)
    /\ Write(W5, i, Unsealed(snapshot[W5][i], "needs_re_review"))
    /\ job' = IF job.stale = {i} THEN Idle ELSE [job EXCEPT !.stale = @ \ {i}]
    /\ UNCHANGED <<source, graph, audit, approvals, used>>

MarkNotFound(i) ==
    /\ i \in job.stale
    /\ snapshot[W5] # None
    /\ snapshot[W5][i] = None
    /\ snapshot' = [snapshot EXCEPT ![W5] = None]
    /\ job' = IF job.stale = {i} THEN Idle ELSE [job EXCEPT !.stale = @ \ {i}]
    /\ UNCHANGED <<queue, source, graph, audit, approvals, used>>

CrashApply ==
    /\ job.phase # "idle"
    /\ job' = Idle
    /\ snapshot' = [snapshot EXCEPT ![W5] = None]
    /\ UNCHANGED <<queue, source, graph, audit, approvals, used>>
-----------------------------------------------------------------------------
Init ==
    /\ queue = [i \in Item |-> None]
    /\ snapshot = [p \in Clerk \cup {W5} |-> None]
    /\ source \in {f \in [Document -> Extraction] : \A i \in Document : f[i] \in Yields[i]}
    /\ graph = [o \in Object |-> None]
    /\ audit = {}
    /\ job = Idle
    /\ approvals = {}
    /\ used = [c \in {"events", "decisions", "ingests", "edits", "runs"} |-> 0]

Command(p) ==
    \/ Load(p)
    \/ Abandon(p)
    \/ \E i \in Item :
        \/ \E x \in Extraction, g \in Gate : Enqueue(p, i, x, g) \/ Fulfil(p, i, x, g)
        \/ \E a \in Action : Decide(p, i, a)
        \/ \E k \in Kind : AppendCorrection(p, i, k)
        \/ \E g \in Gate : Compile(p, i, g)

Applier ==
    \/ StartApply \/ Audit \/ FinishApply \/ LoadToMark \/ CrashApply
    \/ \E i \in Item : Skip(i) \/ SkipStale(i) \/ Apply(i)
                     \/ MarkNeedsReReview(i) \/ MarkNotFound(i)

Next ==
    \/ \E p \in Clerk : Command(p)
    \/ Applier
    \/ \E i \in Item, x \in Extraction : Edit(i, x)

Spec == Init /\ [][Next]_vars
-----------------------------------------------------------------------------
(***************************************************************************)
(* Properties.                                                             *)
(***************************************************************************)
EntryOrNone == EntryType \cup {None}
QueueType == [Item -> EntryOrNone]

\* Every variable has its type; each file and process holds what the code writes.
TypeOK ==
    /\ queue \in QueueType
    /\ snapshot \in [Clerk \cup {W5} -> QueueType \cup {None}]
    /\ source \in [Document -> Extraction]
    /\ graph \in [Object -> NodeType \cup {None}]
    /\ audit \subseteq Item \X [draft : Extraction, included : Seq(Event)]
    /\ job \in [phase : {"idle", "apply", "mark"}, todo : SUBSET Item, taken : QueueType,
                unaudited : Item \cup {None}, stale : SUBSET Item]
    /\ approvals \subseteq [item : Item, subject : SubjectType, action : Approval]
    /\ used \in [{"events", "decisions", "ingests", "edits", "runs"} -> Nat]

\* An approval in the queue is bound to the very subject the item holds now
\* (approval_subject_hash), whatever re-enqueues, corrections, compilations
\* and re-extractions have done to the item since.
ApprovalIsBound ==
    \A i \in Item : Approved(queue[i]) => queue[i].seal = queue[i].subject

\* What an approval releases for execution: a plain one what W4 can admit, the
\* explicit one also what W4 routed to review, and one for support nothing.
Admitted == {s \in SubjectType : "admit" \in Verdicts[s.draft]}
Releases(a) ==
    \/ a.action = "approve_for_execution_policy"
    \/ a.action = "approve" /\ a.subject \in Admitted

\* Approved-only: each object of the graph was written for a subject that a
\* human approved, and may be executed only if that approval releases it, through
\* re-enqueues that inherit a decision and a gate taken at another time.
GraphWasApproved ==
    \A o \in Object : graph[o] # None =>
        \E a \in approvals :
            /\ a.item = graph[o].item
            /\ a.subject = graph[o].subject
            /\ graph[o].execute => Releases(a)

\* What is merged has in it every correction a human made to it: W5 takes no
\* candidate that lags behind its correction_events.
CorrectionsAreMerged ==
    \A o \in Object : graph[o] # None => graph[o].subject.included = graph[o].subject.events

\* Two versions of one document are never in the graph together, also when W5
\* dies half way: the old layer is purged by the merge that brings the new.
VersionsNeverMix ==
    \A o, q \in Object :
        /\ graph[o] # None /\ graph[q] # None
        /\ graph[o].item = graph[q].item
        /\ graph[o].item \in Document
        => graph[o].subject = graph[q].subject

\* What approved_applied.json calls applied is in the graph, so that a replay
\* answered with already_applied loses nothing, after a crash too.
AuditIsTrue ==
    \A r \in audit : r[1] \notin Document =>
        \A o \in Objects[r[2].draft] : graph[o] # None

\* Knowledge released for execution stays so: a candidate that may not be
\* materialized cannot overwrite it (_objects_for_approved_merge).
ReleasedStays ==
    [][\A o \in Object : graph[o] # None /\ graph[o].execute =>
           graph'[o] # None /\ graph'[o].execute]_vars

\* Queues, snapshots, corrections and crashes are a way to do no more than the
\* abstract gate: each step of the graph merges one approved subject, for
\* execution only if the approval allows it.
Gatekeeper == INSTANCE ApprovedKnowledge WITH
    content <- graph,
    Revisable <- Document,
    Explicit <- {"approve_for_execution_policy"},
    Plain <- {"approve"}
KnowledgeIsApproved == Gatekeeper!Spec
=============================================================================
