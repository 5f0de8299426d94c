---------------------------- MODULE TraceAssembly ----------------------------
(* W7, the shadow orchestrator that assembles atomic cases into traces:      *)
(*   neighbor link -> component consistency -> components -> bridge review   *)
(*   -> final components -> trace phases -> outcome -> compiled bundle       *)
(* (W7ShadowOrchestrator.run_w7b).  Each reviewing stage cuts its input into *)
(* tasks, decided on a thread pool: read the checkpoint of the task, else    *)
(* ask the model a bounded number of times, and write the checkpoint of an   *)
(* answer the contract accepted.  The process may die anywhere and the same  *)
(* input be run again over the checkpoints that were left.                   *)
(*                                                                           *)
(* A case is a number (the order of its reference), an edge a pair of cases  *)
(* in that order.  What the model says is any answer; what the contract      *)
(* checks of its text (evidence, reasons, relation hints) is "accepted".     *)
EXTENDS Integers, FiniteSets

CONSTANTS
    NCase,      \* number of case cards
    Edge,       \* candidate edges, all of which require adjudication
    Blocked,    \* semantic edges that carry auto_merge_blockers
    Root,       \* cases of a kind that may be the root of a trace
    Limit,      \* max_component_size (12 in run_w7b)
    ChunkSize,  \* neighbor_chunk_edges
    MaxFault    \* bound: failed tasks and restarts of a behaviour

Case == 1..NCase

Before(e, f) == e[1] < f[1] \/ (e[1] = f[1] /\ e[2] < f[2])

ASSUME CaseAssumption == NCase \in Nat \ {0} /\ Root \subseteq Case
ASSUME EdgeAssumption ==
    Edge \subseteq {e \in Case \X Case : e[1] < e[2]} /\ Blocked \subseteq Edge
ASSUME BoundAssumption ==
    {Limit, ChunkSize} \subseteq Nat \ {0} /\ MaxFault \in Nat

Decision == {"must_link", "possible_link", "cannot_link"}
Verdict  == {"promote_must", "keep_possible", "confirm_cannot"}
None     == "none"          \* no (valid) decision for the edge

Reviewing == {"link", "consistency", "bridge", "phase", "outcome"}
Building  == {"components", "final"}

\* Initial decision plus the repairs of a stage.
Attempts == [link |-> 3, consistency |-> 2, bridge |-> 2, phase |-> 2,
             outcome |-> 2]

VARIABLES
    stage,       \* where run_w7b is
    client,      \* is a decision model configured in this run
    todo,        \* open tasks of the stage -> attempts already used
    verdict,     \* link or bridge answers received so far, by edge
    decision,    \* the link decision as revised so far
    marks,       \* edges whose decision still carries auto_merge_blockers
    weak,        \* cannot edges the consistency review called weak_cannot
    comp,        \* case -> least case of its component (find)
    queue,       \* must edges the union loop has not reached
    downgraded,  \* must edges the union loop made possible
    traces,      \* trace groups of the phase patch
    standalone,  \* cases the phase patch leaves standalone
    resolved,    \* traces the outcome patch resolves
    trouble,     \* reviewing stages that fell back or ended with issues
    checkpoint,  \* stage -> set of <<input, output>> on disk
    faults,      \* failed tasks and restarts so far
    linked,      \* history: the decision the link stage ended with
    guarded,     \* history: must edges the identity guard held back
    settled      \* history: the result of the first run without trouble

review == <<todo, verdict, weak, traces, standalone, resolved, trouble>>
graph  == <<decision, marks, comp, queue, downgraded>>
past   == <<client, linked, guarded, settled>>
vars   == <<stage, review, graph, checkpoint, past, faults>>

-----------------------------------------------------------------------------
(* The pure parts: components.py                                            *)

EdgesOf(d, v) == {e \in Edge : d[e] = v}

\* A must-link path joins a and b: b is in every set closed under the must
\* edges that holds a.
Joined(M, a, b) ==
    \A S \in SUBSET Case :
        (a \in S /\ \A e \in M : e[1] \in S <=> e[2] \in S) => b \in S

\* build_component_conflicts: cannot edges contradicted by a must-link path.
Conflicts(d) ==
    {e \in EdgesOf(d, "cannot_link") :
        Joined(EdgesOf(d, "must_link"), e[1], e[2])}

\* apply_candidate_edge_safety_guards: which must edges it holds back.
HeldBack(v) == {e \in Blocked : v[e] = "must_link"}

\* validate_trace_link_decision rebuilds each edge from six fields; the
\* blockers the guard attached are not one of them.
MarksKept(m) == {}

Block(c, k) == {b \in Case : c[b] = k}

\* Mutant of Blockers: a pair is looked for in one direction only.
BlockersOneWay(c, d, k, l) ==
    {e \in EdgesOf(d, "cannot_link") : c[e[1]] = k /\ c[e[2]] = l}

\* blocking_cannot_pairs
Blockers(c, d, k, l) ==
    {e \in EdgesOf(d, "cannot_link") : {c[e[1]], c[e[2]]} = {k, l}}

\* Mutant of TooLarge: off by one.
TooLargeAtLimit(c, k, l) ==
    Cardinality(Block(c, k)) + Cardinality(Block(c, l)) >= Limit

TooLarge(c, k, l) ==
    Cardinality(Block(c, k)) + Cardinality(Block(c, l)) > Limit

\* build_component_bridge_candidates: possible edges between two components
\* that could be one.  Every candidate is judged against the same components.
Candidates(c, d, m) ==
    {e \in EdgesOf(d, "possible_link") \ m :
        /\ c[e[1]] # c[e[2]]
        /\ Blockers(c, d, c[e[1]], c[e[2]]) = {}
        /\ ~TooLarge(c, c[e[1]], c[e[2]])}

\* union: the smaller root is kept.
Union(c, k, l) ==
    LET keep == IF k < l THEN k ELSE l
    IN  [b \in Case |-> IF c[b] \in {k, l} THEN keep ELSE c[b]]

Components(c) == {Block(c, k) : k \in {c[b] : b \in Case}}

\* The internal checks build_trace_components ends with.
Sound(c, d) ==
    /\ \A e \in EdgesOf(d, "cannot_link") : c[e[1]] # c[e[2]]
    /\ \A k \in Case : Cardinality(Block(c, k)) <= Limit

Partitions(S) ==
    {P \in SUBSET ((SUBSET S) \ {{}}) :
        UNION P = S /\ \A A, B \in P : A = B \/ A \cap B = {}}

-----------------------------------------------------------------------------
(* Tasks, their checkpoint keys and their answers                           *)

Rank(e, S) == Cardinality({f \in S : Before(f, e)})

\* chunks = values[i : i + neighbor_chunk_edges]
Chunks(S) ==
    {{e \in S : Rank(e, S) \div ChunkSize = i} : i \in 0..Cardinality(S)} \ {{}}

Open(T) == [t \in T |-> 0]

\* CheckpointStore.key: a hash of the stage and of everything the task is
\* decided from.  (The cards, the graph and the message ids are the same in
\* every run of the input.)
Input(t) ==
    CASE stage = "link"        -> t
      [] stage = "consistency" -> <<t, EdgesOf(decision, "must_link")>>
      [] stage = "bridge"      -> <<Candidates(comp, decision, marks), comp, t>>
      [] stage = "phase"       -> <<t, decision>>
      [] stage = "outcome"     -> t

\* The answers the contract of the stage accepts, local repairs included.
Accepted(t) ==
    CASE stage = "link"        -> [t -> Decision]
      [] stage = "consistency" -> SUBSET t
      [] stage = "bridge"      -> [t -> Verdict]
      [] stage = "phase"       -> Partitions(t)
      [] stage = "outcome"     -> SUBSET t

\* Mutant of Fallback: without a review the conflicting cannot edges are weak.
FallbackWeakens(t) ==
    CASE stage = "link"        -> [e \in t |-> None]
      [] stage = "bridge"      -> [e \in t |-> "keep_possible"]
      [] stage = "consistency" -> t
      [] OTHER                 -> {}

\* What a failed model call leaves: no link, every cannot_link confirmed,
\* every bridge left possible, the component standalone, nothing resolved.
Fallback(t) ==
    CASE stage = "link"   -> [e \in t |-> None]
      [] stage = "bridge" -> [e \in t |-> "keep_possible"]
      [] OTHER            -> {}

\* What the last attempt leaves when the contract still finds issues: the
\* link and the outcome stage go on with the flawed answer.
Flawed(t) ==
    CASE stage = "link"    -> [t -> Decision \cup {None}]
      [] stage = "outcome" -> SUBSET t
      [] OTHER             -> {Fallback(t)}

Init ==
    /\ stage = "link"
    /\ client \in BOOLEAN
    /\ todo = IF client THEN Open(Chunks(Edge)) ELSE Open({})
    /\ verdict = [e \in Edge |-> None]
    /\ decision = [e \in Edge |-> None]
    /\ marks = {}
    /\ weak = {}
    /\ comp = [b \in Case |-> b]
    /\ queue = {}
    /\ downgraded = {}
    /\ traces = {}
    /\ standalone = {}
    /\ resolved = {}
    /\ trouble = {}
    /\ checkpoint = [s \in Reviewing |-> {}]
    /\ faults = 0
    /\ linked = [e \in Edge |-> None]
    /\ guarded = {}
    /\ settled = {}

\* Mutant of Answer: a component whose phase task failed is not standalone.
AnswerDropsFailed(t, o) ==
    /\ stage' = stage
    /\ todo' = [u \in (DOMAIN todo) \ {t} |-> todo[u]]
    /\ verdict' = IF stage \in {"link", "bridge"}
                  THEN [e \in Edge |-> IF e \in t THEN o[e] ELSE verdict[e]]
                  ELSE verdict
    /\ weak' = IF stage = "consistency" THEN o ELSE weak
    /\ traces' = IF stage = "phase" THEN traces \cup o ELSE traces
    /\ resolved' = IF stage = "outcome" THEN o ELSE resolved
    /\ UNCHANGED <<standalone, graph, past>>

\* The answer o of task t is kept for the combination of the stage.
Answer(t, o) ==
    /\ stage' = stage
    /\ todo' = [u \in (DOMAIN todo) \ {t} |-> todo[u]]
    /\ verdict' = IF stage \in {"link", "bridge"}
                  THEN [e \in Edge |-> IF e \in t THEN o[e] ELSE verdict[e]]
                  ELSE verdict
    /\ weak' = IF stage = "consistency" THEN o ELSE weak
    /\ traces' = IF stage = "phase" THEN traces \cup o ELSE traces
    /\ standalone' = IF stage = "phase" /\ o = {}
                     THEN standalone \cup t ELSE standalone
    /\ resolved' = IF stage = "outcome" THEN o ELSE resolved
    /\ UNCHANGED <<graph, past>>

Known(t) == {x \in checkpoint[stage] : x[1] = Input(t)}

\* checkpoints.read: an answer of this or an earlier run to the same input.
ReadCheckpoint(t) ==
    /\ todo[t] = 0
    /\ \E x \in Known(t) : Answer(t, x[2])
    /\ UNCHANGED <<trouble, checkpoint, faults>>

\* Mutant of Accept: only the stages before the traces are checkpointed.
AcceptForgets(t) ==
    /\ Known(t) = {}
    /\ \E o \in Accepted(t) :
        /\ Answer(t, o)
        /\ checkpoint' = IF stage = "phase" THEN checkpoint ELSE
            [checkpoint EXCEPT ![stage] = @ \cup {<<Input(t), o>>}]
    /\ UNCHANGED <<trouble, faults>>

\* The contract accepts the answer; it is written before the task ends.
Accept(t) ==
    /\ Known(t) = {}
    /\ \E o \in Accepted(t) :
        /\ Answer(t, o)
        /\ checkpoint' =
            [checkpoint EXCEPT ![stage] = @ \cup {<<Input(t), o>>}]
    /\ UNCHANGED <<trouble, faults>>

\* Mutant of AskAgain: the last attempt may ask again too.
AskAgainUnbounded(t) ==
    /\ Known(t) = {}
    /\ todo[t] < Attempts[stage]
    /\ stage' = stage
    /\ todo' = [todo EXCEPT ![t] = @ + 1]
    /\ UNCHANGED <<verdict, weak, traces, standalone, resolved, trouble, graph,
                   checkpoint, past, faults>>

\* Mutant of AskAgain: a repair starts the count of attempts again.
AskAgainRestarts(t) ==
    /\ Known(t) = {}
    /\ stage' = stage
    /\ todo' = [todo EXCEPT ![t] = 1 - @]
    /\ UNCHANGED <<verdict, weak, traces, standalone, resolved, trouble, graph,
                   checkpoint, past, faults>>

\* The contract finds issues and an attempt is left to repair them.
AskAgain(t) ==
    /\ Known(t) = {}
    /\ todo[t] + 1 < Attempts[stage]
    /\ stage' = stage
    /\ todo' = [todo EXCEPT ![t] = @ + 1]
    /\ UNCHANGED <<verdict, weak, traces, standalone, resolved, trouble, graph,
                   checkpoint, past, faults>>

\* CheckpointStore.write: nothing of an answer with issues is kept.
WriteFlawed(t, o) == checkpoint

Fault == faults < MaxFault /\ faults' = faults + 1

\* Issues after the last attempt.
GiveUp(t) ==
    /\ Known(t) = {} /\ Fault
    /\ todo[t] + 1 = Attempts[stage]
    /\ trouble' = trouble \cup {stage}
    /\ \E o \in Flawed(t) : Answer(t, o) /\ checkpoint' = WriteFlawed(t, o)

\* The model call raises, at any attempt.
CallFails(t) ==
    /\ Known(t) = {} /\ Fault
    /\ trouble' = trouble \cup {stage}
    /\ Answer(t, Fallback(t))
    /\ UNCHANGED checkpoint

DecideTask(t) ==
    ReadCheckpoint(t) \/ Accept(t) \/ AskAgain(t) \/ GiveUp(t) \/ CallFails(t)

-----------------------------------------------------------------------------
(* The main thread, once every task of a stage has answered                 *)

Answered == DOMAIN todo = {}

\* build_trace_components starts from one component per case.
StartBuilding(d) ==
    /\ comp' = [b \in Case |-> b]
    /\ queue' = EdgesOf(d, "must_link")
    /\ downgraded' = {}

\* run_neighbor_link: guard each chunk, combine, validate the combination.
\* Whatever the issues, the stages after it go on with the decision.
CombineLink ==
    /\ stage = "link" /\ Answered
    /\ stage' = "consistency"
    /\ decision' = [e \in Edge |-> IF e \in HeldBack(verdict)
                                   THEN "possible_link" ELSE verdict[e]]
    /\ marks' = MarksKept(HeldBack(verdict))
    /\ trouble' = IF \E e \in Edge : verdict[e] = None
                  THEN trouble \cup {"link"} ELSE trouble
    /\ linked' = decision'
    /\ guarded' = HeldBack(verdict)
    /\ todo' = Open({Conflicts(decision')} \ {{}})
    /\ UNCHANGED <<verdict, weak, traces, standalone, resolved, comp, queue,
                   downgraded, checkpoint, client, settled, faults>>

\* apply_component_consistency_decision
CombineConsistency ==
    /\ stage = "consistency" /\ Answered
    /\ stage' = "components"
    /\ decision' = [e \in Edge |-> IF e \in weak THEN "possible_link"
                                   ELSE decision[e]]
    /\ StartBuilding(decision')
    /\ UNCHANGED <<review, marks, checkpoint, past, faults>>

\* One turn of the loop over the must edges, in the order of the pairs.
UnionStep ==
    /\ stage \in Building
    /\ \E e \in queue :
        /\ \A f \in queue \ {e} : Before(e, f)
        /\ queue' = queue \ {e}
        /\ LET k == comp[e[1]]
               l == comp[e[2]]
           IN  \/ /\ k = l
                  /\ UNCHANGED <<comp, downgraded>>
               \/ /\ k # l
                  /\ Blockers(comp, decision, k, l) # {} \/ TooLarge(comp, k, l)
                  /\ downgraded' = downgraded \cup {e}
                  /\ UNCHANGED comp
               \/ /\ k # l
                  /\ Blockers(comp, decision, k, l) = {}
                  /\ ~TooLarge(comp, k, l)
                  /\ comp' = Union(comp, k, l)
                  /\ UNCHANGED downgraded
    /\ UNCHANGED <<stage, review, decision, marks, checkpoint, past, faults>>

\* The first components are ready: the bridges between them are reviewed.
OfferBridges ==
    /\ stage = "components" /\ queue = {}
    /\ stage' = "bridge"
    /\ todo' = Open(Chunks(Candidates(comp, decision, marks)))
    /\ verdict' = [e \in Edge |-> None]
    /\ UNCHANGED <<weak, traces, standalone, resolved, trouble, graph,
                   checkpoint, past, faults>>

\* apply_component_bridge_decision
CombineBridges ==
    /\ stage = "bridge" /\ Answered
    /\ stage' = "final"
    /\ decision' = [e \in Edge |->
                      CASE verdict[e] = "promote_must"   -> "must_link"
                        [] verdict[e] = "confirm_cannot" -> "cannot_link"
                        [] OTHER                         -> decision[e]]
    /\ StartBuilding(decision')
    /\ UNCHANGED <<review, marks, checkpoint, past, faults>>

\* The final components are ready.  One without a diagnostic root stays
\* standalone unasked; without a model no component is assigned at all.
OpenPhases ==
    /\ stage = "final" /\ queue = {}
    /\ stage' = "phase"
    /\ LET rooted == {C \in Components(comp) : C \cap Root # {}}
       IN  /\ todo' = IF client THEN Open(rooted) ELSE Open({})
           /\ standalone' = IF client THEN Case \ UNION rooted ELSE {}
    /\ trouble' = trouble
                    \cup (IF Sound(comp, decision) THEN {} ELSE {"final"})
                    \cup (IF client THEN {} ELSE {"phase"})
    /\ UNCHANGED <<verdict, weak, traces, resolved, graph, checkpoint, past,
                   faults>>

\* run_trace_phases ends; the outcome is asked for only when every component
\* has an accepted phase decision (phase.schema_valid) and there are traces.
CombinePhases ==
    /\ stage = "phase" /\ Answered
    /\ stage' = "outcome"
    /\ todo' = Open(IF "phase" \in trouble THEN {} ELSE {traces} \ {{}})
    /\ UNCHANGED <<verdict, weak, traces, standalone, resolved, trouble, graph,
                   checkpoint, past, faults>>

\* compile_review_bundle
Unassigned == Case \ ((UNION traces) \cup standalone)

\* schema_valid of the run: the consistency and bridge stages only warn.
Valid == trouble \subseteq {"consistency", "bridge"} /\ Unassigned = {}

Result == [decision |-> decision, components |-> Components(comp),
           traces |-> traces, standalone |-> standalone, resolved |-> resolved]

CompileBundle ==
    /\ stage = "outcome" /\ Answered
    /\ stage' = "done"
    /\ settled' = IF settled = {} /\ trouble = {} THEN {Result} ELSE settled
    /\ UNCHANGED <<review, graph, checkpoint, client, linked, guarded, faults>>

\* The process died, or the batch is run again: only checkpoints are left.
RunAgain ==
    /\ Fault
    /\ stage' = "link"
    /\ client' \in BOOLEAN
    /\ todo' = IF client' THEN Open(Chunks(Edge)) ELSE Open({})
    /\ verdict' = [e \in Edge |-> None]
    /\ decision' = [e \in Edge |-> None]
    /\ marks' = {}
    /\ weak' = {}
    /\ comp' = [b \in Case |-> b]
    /\ queue' = {}
    /\ downgraded' = {}
    /\ traces' = {}
    /\ standalone' = {}
    /\ resolved' = {}
    /\ trouble' = {}
    /\ linked' = [e \in Edge |-> None]
    /\ guarded' = {}
    /\ UNCHANGED <<checkpoint, settled>>

MainThread ==
    \/ CombineLink \/ CombineConsistency \/ UnionStep \/ OfferBridges
    \/ CombineBridges \/ OpenPhases \/ CombinePhases \/ CompileBundle

Worker == \E t \in DOMAIN todo : DecideTask(t)

Next == MainThread \/ Worker \/ RunAgain

\* The main thread waits in list(executor.map(...)): it and the pool run.
Spec == Init /\ [][Next]_vars /\ WF_vars(MainThread) /\ WF_vars(Worker)

-----------------------------------------------------------------------------
(* Properties                                                               *)

TypeOK ==
    /\ stage \in Reviewing \cup Building \cup {"done"}
    /\ client \in BOOLEAN
    /\ \A t \in DOMAIN todo : stage \in Reviewing
                              /\ todo[t] \in 0..(Attempts[stage] - 1)
    /\ verdict \in [Edge -> Decision \cup Verdict \cup {None}]
    /\ decision \in [Edge -> Decision \cup {None}]
    /\ linked \in [Edge -> Decision \cup {None}]
    /\ comp \in [Case -> Case]
    /\ {marks, weak, queue, downgraded, guarded} \subseteq SUBSET Edge
    /\ traces \subseteq SUBSET Case
    /\ standalone \subseteq Case
    /\ resolved \subseteq SUBSET Case
    /\ trouble \subseteq Reviewing \cup Building
    /\ faults \in 0..MaxFault

Assembled == stage \in {"phase", "outcome", "done"}

\* A component never holds two cases of a cannot_link edge and never more
\* cases than the limit, although bridges are promoted one by one against the
\* same components and every stage before may have fallen back.
ComponentsAreSound ==
    stage \in Building \cup {"bridge"} \/ Assembled => Sound(comp, decision)

\* What the union loop leaves apart had to be: two cases joined by a must
\* edge are in one component, or one component for both would break a
\* cannot_link or the limit; and exactly the edges left apart are downgraded.
OnlyForcedSplits ==
    Assembled =>
        \A e \in EdgesOf(decision, "must_link") :
            LET k == comp[e[1]]
                l == comp[e[2]]
            IN  IF k = l THEN e \notin downgraded
                ELSE /\ e \in downgraded
                     /\ \/ \E f \in EdgesOf(decision, "cannot_link") :
                             {comp[f[1]], comp[f[2]]} = {k, l}
                        \/ Cardinality(Block(comp, k) \cup Block(comp, l)) > Limit

\* End to end: a compiled trace joins no pair the link stage called
\* cannot_link, unless a review that was accepted called it weak, and none
\* the final decision calls so; it stays within the limit.
TracesAreSafe ==
    Assembled =>
        \A T \in traces :
            /\ Cardinality(T) <= Limit
            /\ \A e \in Edge :
                {e[1], e[2]} \subseteq T =>
                    /\ decision[e] # "cannot_link"
                    /\ linked[e] = "cannot_link" =>
                          e \in weak /\ "consistency" \notin trouble

\* With a model, every case is in exactly one trace or standalone, whatever
\* failed; and a run that calls itself valid has decided every edge.
EverythingAccountedFor ==
    /\ \A T \in traces : T \cap standalone = {}
    /\ \A T, U \in traces : T = U \/ T \cap U = {}
    /\ stage = "done" =>
          /\ client => Unassigned = {}
          /\ Valid => \A e \in Edge : decision[e] # None

\* Once a run went through without trouble, a later run of the input asks the
\* model nothing and ends with the same result: it is replayed.
ReplayIsStable ==
    settled # {} /\ client =>
        /\ \A t \in DOMAIN todo : Known(t) # {}
        /\ stage = "done" => settled = {Result}

\* Every run ends, whatever the model answers.
RunEnds == []<>(stage = "done")

\* apply_candidate_edge_safety_guards: an edge across an identity shift is
\* not merged automatically, it "remains available for human review".
GuardedStaysForReview ==
    \A e \in guarded : decision[e] # "must_link"
=============================================================================
