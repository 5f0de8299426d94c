------------------------- MODULE DiagnosticSession -------------------------
(***************************************************************************)
(* One diagnostic session of the read side: the supervisor O0              *)
(* (DebugAgentSystem.start and .step, runtime/system.py) walking the       *)
(* actions of a compiled KG_v2 plan with a user, and the session store MEM *)
(* (agents/read/mem_session) that keeps the session in memory and in a     *)
(* JSON file.  One action per early return of `step', in the order of the  *)
(* code; crashes strike between a handler's saves and inside a save.       *)
(***************************************************************************)
EXTENDS Naturals, Sequences, FiniteSets

CONSTANTS
    Action,           \* DiagnosticAction ids
    Variant,          \* FaultVariant ids that retrieval can lock
    Plan,             \* Plan[v]: the compiled plan of v, a sequence of actions
    Unsafe,           \* actions that are destructive or high_cost
    VerifiedFix,      \* actions with an evidenced verified_fix outcome
    Activation,       \* Activation[a]: groups of signals a runtime-confirmed
                      \*   fix outcome of a needs in the message ({}: none)
    Rule,             \* BranchRule records, see RuleType
    Signal,           \* phrases that select a branch or activate an outcome
    Routing,          \* signals in the routing_context the session was started with
    Message,          \* user messages, see MessageType
    Resource,         \* evidence resources a caller can attach
    Answers,          \* Answers[q]: resources whose observations answer q
    Revision,         \* graph revisions
    MaxTurns,         \* config.runtime.max_turns
    ConfirmRequired,  \* destructive_action_requires_human_confirm
    GapEnabled,       \* config.evidence_gap.enabled
    IncidentEnabled,  \* config.incident_runtime.enabled: its values in the
                      \*   processes that serve the session
    MaxStarts,        \* bound on the calls of start
    MaxCrashes,       \* bound on the crashes and restarts
    NoAction, NoVariant, NoRevision, NoMessage,  \* the "" of the code's fields
    NoSession, Absent, Corrupt                   \* no record in memory / file

Status  == {"step", "ask_info", "resolved", "escalate", "failed"}
Closed  == {"resolved", "escalate"}
\* kg_v2_locked stands for kg_v2_tentative_ambiguous too: step reads only
\* whether the session is a document answer.
Lock    == {"", "kg_v2_locked", "document_answer_only"}

\* What required_data asks for; the kind decides which resource answers it.
Question == {"symptom", "document", "branch_context", "confirm", "branch_condition"}
NoQuestion == "none"

\* Failures that start gives for want of a variant it may lock
\* (knowledge_scope_not_covered, candidate_..._scope_mismatch, low_...score)
\* differ in wording alone and are the first two here.
Failure == {"", "document_answer_variant_unverified", "no_kg_v2_variant_match",
            "missing_branch_context", "branch_condition_required", "pending_validation",
            "invalid_kg_v2_session", "max_turns_reached", "kg_v2_plan_exhausted",
            "branch_terminal", "branch_target_not_in_plan",
            "current_action_not_in_plan"}

Outcome == {"context_not_root_cause", "recurred", "ineffective",
            "partial_temporary", "mitigation_observed", "pending_validation",
            "verified_fix", "diagnostic_method"}
NoOutcome == "none"

(***************************************************************************)
(* A message is the groups of phrases its text contains as substrings (the *)
(* lists _SOLVED .. _REJECT and those of _classify_outcome), the branch    *)
(* signals it carries, the resources attached to it, and what its sender   *)
(* meant by it, which the code does not see.                               *)
(***************************************************************************)
Phrase == {"not_root_cause", "recurred_again", "negative", "temporary",
           "mitigation", "pending", "solved", "recurred", "confirm", "reject"}
MessageType == [phrases : SUBSET Phrase, signals : SUBSET Signal,
                resources : SUBSET Resource, blank : BOOLEAN,
                meaning : {"approve", "refuse", "other"}]

RuleType == [variant : Variant, from : Action, on : SUBSET Outcome,
             all : SUBSET Signal, any : SUBSET Signal, exclude : SUBSET Signal,
             groups : SUBSET SUBSET Signal, code : SUBSET Signal,
             priority : Nat, to : Action \cup {NoAction},
             \* `to' is the action of the plan step that carries to_trace_step_id
             terminal : {"continue", "resolved", "unresolved", "escalated"}]

ASSUME PlanAssumption ==
    /\ Plan \in [Variant -> Seq(Action)]
    /\ \A v \in Variant : /\ Plan[v] # << >>
                          /\ \A i, j \in DOMAIN Plan[v] :
                                 Plan[v][i] = Plan[v][j] => i = j
    /\ Unsafe \subseteq Action
    /\ VerifiedFix \subseteq Action
    /\ Activation \in [Action -> SUBSET SUBSET Signal]
ASSUME InputAssumption ==
    /\ Routing \subseteq Signal
    /\ Rule \subseteq RuleType
    /\ Message \subseteq MessageType
    /\ Answers \in [Question -> SUBSET Resource]
ASSUME ConfigAssumption ==
    /\ MaxTurns \in Nat \ {0}
    /\ ConfirmRequired \in BOOLEAN
    /\ GapEnabled \in BOOLEAN
    /\ MaxStarts \in Nat
    /\ MaxCrashes \in Nat
    /\ Revision # {}
ASSUME IncidentAssumption == IncidentEnabled # {} /\ IncidentEnabled \subseteq BOOLEAN
ASSUME AbsentAssumption ==
    /\ NoAction \notin Action
    /\ NoVariant \notin Variant
    /\ NoRevision \notin Revision

VARIABLES
    graph,    \* the current graph revision
    mem,      \* the session object in the store's dictionary
    disk,     \* the session's JSON file
    heard,    \* observability: the message the last call of step read
    starts,   \* calls of start so far
    crashes   \* crashes and restarts so far

vars == <<graph, mem, disk, heard, starts, crashes>>

Session ==
    [status : Status, lock : Lock, variant : Variant \cup {NoVariant},
     index : Nat,                        \* current_index, from 0
     current : Action \cup {NoAction},   \* current_action_id
     required : Question \cup {NoQuestion}, failure : Failure,
     ruled_out : SUBSET Action, presented : SUBSET Action,
     answered : SUBSET Action,           \* domain of action_results
     confirmed : SUBSET Action,          \* confirmed_action_ids
     pending : Action \cup {NoAction},   \* pending_confirmation_action_id
     branching : Action \cup {NoAction}, \* pending_branch_condition_action_id
     branch_outcome : Outcome \cup {NoOutcome},
     resolved : Action \cup {NoAction},  \* resolved_action_id
     query : SUBSET Resource,            \* evidence written into the query text
     processed : SUBSET Resource,        \* processed_tool_fingerprints
     revision : Revision \cup {NoRevision},
     turn_count : Nat]

\* The record DiagnosticSessionStore.create makes.
Fresh ==
    [status |-> "step", lock |-> "", variant |-> NoVariant, index |-> 0,
     current |-> NoAction, required |-> NoQuestion, failure |-> "",
     ruled_out |-> {}, presented |-> {}, answered |-> {}, confirmed |-> {},
     pending |-> NoAction, branching |-> NoAction, branch_outcome |-> NoOutcome,
     resolved |-> NoAction, query |-> {}, processed |-> {},
     revision |-> NoRevision, turn_count |-> 0]

\* DiagnosticSessionStore.get: the dictionary first, then the file.
Known  == mem # NoSession \/ disk \notin {Absent, Corrupt}
Stored == IF mem # NoSession THEN mem ELSE disk
-----------------------------------------------------------------------------
(***************************************************************************)
(* Reading the user's message.                                             *)
(***************************************************************************)
\* _classify_outcome: the first group that occurs decides.
Classify(m) ==
    IF "not_root_cause" \in m.phrases THEN "context_not_root_cause"
    ELSE IF "recurred_again" \in m.phrases THEN "recurred"
    ELSE IF "negative" \in m.phrases THEN "ineffective"
    ELSE IF "temporary" \in m.phrases THEN "partial_temporary"
    ELSE IF "mitigation" \in m.phrases THEN "mitigation_observed"
    ELSE IF "pending" \in m.phrases THEN "pending_validation"
    ELSE IF "solved" \in m.phrases THEN "verified_fix"
    ELSE IF "recurred" \in m.phrases THEN "recurred"
    ELSE "diagnostic_method"

\* Mutant of Verified: no evidenced outcome of the action is asked for.
VerifiedByWord(a, m) == "solved" \in m.phrases

\* _verified_fix_outcome: an evidenced fix, activated if it has to be.
Verified(a, m) ==
    /\ a \in VerifiedFix
    /\ \A g \in Activation[a] : g \cap m.signals # {}

\* The rules of the step whose trigger includes the outcome.
Triggered(v, a, o) == {r \in Rule : r.variant = v /\ r.from = a /\ o \in r.on}

Configured(r) == r.any # {} \/ r.all # {} \/ r.groups # {} \/ r.exclude # {}

\* A branch is selected by the message and the routing context together.
Signals(m) == m.signals \cup Routing

Matches(r, m) ==
    /\ r.exclude \cap Signals(m) = {}
    /\ r.all \subseteq Signals(m)
    /\ \A g \in r.groups : g \cap Signals(m) # {}
    /\ r.any = {} \/ (r.any \cup r.code) \cap Signals(m) # {}
    /\ r.all # {} \/ r.groups # {} \/ r.any # {} \/ r.code \cap Signals(m) # {}

\* The score of _matching_branch, in tens.
Score(r, m) ==
    (IF r.code \cap Signals(m) # {} THEN 10 ELSE 0) + 2 * Cardinality(r.all)
        + 3 * Cardinality(r.groups) + Cardinality(r.any \cap Signals(m))

Best(S, m) ==
    {r \in S : \A q \in S : \/ Score(r, m) > Score(q, m)
                            \/ Score(r, m) = Score(q, m) /\ r.priority <= q.priority}
First(S) == {r \in S : \A q \in S : r.priority <= q.priority}

\* _matching_branch: the rule to follow, if the message decides one.
Selected(v, a, o, m) ==
    LET triggered == Triggered(v, a, o)
        scored    == {r \in triggered : Matches(r, m)}
    IN  IF scored # {} THEN Best(scored, m)
        ELSE IF \E r \in triggered : Configured(r) THEN {}
        ELSE First(triggered)

\* ... or a request for the condition that tells the rules apart.
NeedsCondition(v, a, o, m) ==
    /\ \E r \in Triggered(v, a, o) : Configured(r)
    /\ \A r \in Triggered(v, a, o) : ~Matches(r, m)
-----------------------------------------------------------------------------
(***************************************************************************)
(* What a handler makes of a session record s.                             *)
(***************************************************************************)
Escalate(s, reason) == [s EXCEPT !.status = "escalate", !.failure = reason]

\* Mutant of AskConfirmation: the action is recorded as presented before the
\* gate is looked at.
AskConfirmationLate(s, i) ==
    [s EXCEPT !.status = "ask_info", !.current = Plan[s.variant][i],
              !.pending = Plan[s.variant][i], !.required = "confirm",
              !.presented = @ \cup {Plan[s.variant][i]}]
\* _present_step for the i-th action of the plan; asking for a confirmation.
AskConfirmation(s, i) ==
    [s EXCEPT !.status = "ask_info", !.current = Plan[s.variant][i],
              !.pending = Plan[s.variant][i], !.required = "confirm"]
\* Mutant of Show: current_index counted from 1.
ShowFromOne(s, i) ==
    [s EXCEPT !.status = "step", !.failure = "", !.required = NoQuestion,
              !.index = i, !.current = Plan[s.variant][i],
              !.presented = @ \cup {Plan[s.variant][i]}]
Show(s, i) ==
    [s EXCEPT !.status = "step", !.failure = "", !.required = NoQuestion,
              !.index = i - 1, !.current = Plan[s.variant][i],
              !.presented = @ \cup {Plan[s.variant][i]}]
NeedsConfirmation(s, a) == ConfirmRequired /\ a \in Unsafe \ s.confirmed
Present(s, i) ==
    IF NeedsConfirmation(s, Plan[s.variant][i]) THEN AskConfirmation(s, i) ELSE Show(s, i)

Positions(s, a) == {i \in DOMAIN Plan[s.variant] : Plan[s.variant][i] = a}
InPlan(s, a) == Positions(s, a) # {}
\* Mutant of PresentAction: a branch jumps past the safety gate.
PresentUngated(s, a, reason) ==
    IF InPlan(s, a) THEN {Show(s, i) : i \in Positions(s, a)}
    ELSE {Escalate(s, reason)}
PresentAction(s, a, reason) ==
    IF InPlan(s, a) THEN {Present(s, i) : i \in Positions(s, a)}
    ELSE {Escalate(s, reason)}

\* _advance: the first later action that is not ruled out, or the end.
Advance(s) ==
    LET t == [s EXCEPT !.ruled_out = @ \cup {s.current}]
        later == {i \in DOMAIN Plan[s.variant] :
                      i > s.index + 1 /\ Plan[s.variant][i] \notin t.ruled_out}
    IN  IF later = {} THEN {Escalate(t, "kg_v2_plan_exhausted")}
        ELSE {Present(t, i) : i \in {i \in later : \A j \in later : i <= j}}

PendingValidation(s) == [s EXCEPT !.status = "step", !.failure = "pending_validation"]

Resolve(s, a) == [s EXCEPT !.status = "resolved", !.resolved = a]

\* _ask_branch_condition
AskCondition(s, a, o) ==
    [s EXCEPT !.status = "ask_info", !.failure = "branch_condition_required",
              !.required = "branch_condition", !.branching = a, !.branch_outcome = o]

\* Mutant of Follow: a branch to resolved does not look at the outcome.
FollowAnyOutcome(s, a, o, r, m) ==
    IF r.terminal = "resolved"
    THEN {IF Verified(a, m) THEN Resolve(s, a) ELSE PendingValidation(s)}
    ELSE IF r.terminal \in {"unresolved", "escalated"}
    THEN {Escalate(s, "branch_terminal")}
    ELSE PresentAction(s, r.to, "branch_target_not_in_plan")

\* _follow_branch from action a, outcome o, along rule r.
Follow(s, a, o, r, m) ==
    IF r.terminal = "resolved"
    THEN {IF Verified(a, m) /\ o = "verified_fix" THEN Resolve(s, a)
          ELSE PendingValidation(s)}
    ELSE IF r.terminal \in {"unresolved", "escalated"}
    THEN {Escalate(s, "branch_terminal")}
    ELSE PresentAction(s, r.to, "branch_target_not_in_plan")

(***************************************************************************)
(* _start_state: everything about the diagnosis is reset but the query,    *)
(* the processed fingerprints and the turn count; then retrieval, whose    *)
(* result is any the index may give, binds a variant or does not.          *)
(***************************************************************************)
\* Mutant of Reset: processed_tool_fingerprints is not among the preserved keys.
ResetForgetful(s) == [Fresh EXCEPT !.query = s.query, !.turn_count = s.turn_count,
                                   !.revision = graph]
Reset(s) == [Fresh EXCEPT !.query = s.query, !.processed = s.processed,
                          !.turn_count = s.turn_count, !.revision = graph]

Bind(s, v) == [s EXCEPT !.variant = v, !.lock = "kg_v2_locked"]

Ask(s, question, reason) ==
    [s EXCEPT !.status = "ask_info", !.required = question, !.failure = reason]

StartState(s) ==
    LET r == Reset(s)
        document == [r EXCEPT !.lock = "document_answer_only"]
    IN  {document, Ask(document, "document", "document_answer_variant_unverified"),
         Ask(r, "symptom", "no_kg_v2_variant_match")}
        \cup UNION {{Present(Bind(r, v), 1),
                     Ask(Bind(r, v), "branch_context", "missing_branch_context")} :
                    v \in Variant}

(***************************************************************************)
(* EvidenceGapResolver.resolve: of the resources not yet processed, those  *)
(* that answer the question become part of the query; every resource is    *)
(* recorded as processed by _record_evidence_gap, which saves.             *)
(***************************************************************************)
GapAllowed(s) == /\ s.pending = NoAction
                 /\ s.branching = NoAction
                 /\ s.failure \notin {"pending_validation", "branch_condition_required"}
GapApplies(s, resources) ==
    /\ GapEnabled
    /\ s.status = "ask_info"
    /\ s.required # NoQuestion
    /\ resources # {}
    /\ GapAllowed(s)
Useful(s, resources) ==
    IF s.required = NoQuestion THEN {}
    ELSE (resources \ s.processed) \cap Answers[s.required]
Record(s, resources) == [s EXCEPT !.processed = @ \cup resources]
WithEvidence(s, resources) ==
    [Record(s, resources) EXCEPT !.query = @ \cup Useful(s, resources)]

\* Mutant of Restorable: the pinned revision is not compared.
RestorableAnywhere(s) == s.variant # NoVariant

\* _restore_plan succeeds.
Restorable(s) == s.revision \in {graph, NoRevision} /\ s.variant # NoVariant
-----------------------------------------------------------------------------
(***************************************************************************)
(* The end of a handler: the record is saved and the response returned, or *)
(* the process dies inside the last save (write_text truncates the file    *)
(* first) or after it.                                                     *)
(***************************************************************************)
Crash == /\ crashes < MaxCrashes
         /\ crashes' = crashes + 1
         /\ mem' = NoSession

Respond(t) == /\ mem' = t
              /\ disk' = t
              /\ UNCHANGED crashes

Commit(t) == \/ Respond(t)
             \/ Crash /\ disk' \in {t, Corrupt}

Init == /\ graph \in Revision
        /\ mem = NoSession
        /\ disk = Absent
        /\ heard = NoMessage
        /\ starts = 0
        /\ crashes = 0

\* DebugAgentSystem.start: create, _start_state, _maybe_complete_evidence_gap.
Examines(t, resources) == GapApplies(t, resources) /\ FALSE \in IncidentEnabled
Started(resources) ==
    UNION {IF ~GapApplies(t, resources) THEN {t}
           ELSE {u \in {t} : TRUE \in IncidentEnabled} \cup
                IF ~Examines(t, resources) THEN {}
                ELSE IF Useful(t, resources) = {} THEN {Record(t, resources)}
                ELSE StartState(WithEvidence(t, resources)) : t \in StartState(Fresh)}
Starting == /\ starts < MaxStarts
            /\ starts' = starts + 1
            /\ heard' = NoMessage
            /\ UNCHANGED graph
Start(resources) ==
    /\ Starting
    /\ \E t \in Started(resources) : Commit(t)

\* start dies after the save of create, or of the first diagnosis, or of the
\* fingerprints.
CrashInStart(resources) ==
    /\ Starting
    /\ Crash
    /\ \/ disk' = Fresh
       \/ \E t \in StartState(Fresh) :
              /\ Examines(t, resources)
              /\ disk' \in {t, Record(t, resources)}
-----------------------------------------------------------------------------
(***************************************************************************)
(* DebugAgentSystem.step.  Begin is the record with its turn counted,      *)
(* Looked the one that reaches the code after the evidence-gap block.      *)
(***************************************************************************)
Hear(m) == heard' = m /\ UNCHANGED <<graph, starts>>
Unread  == heard' = NoMessage /\ UNCHANGED <<graph, starts>>
Begin   == [Stored EXCEPT !.turn_count = @ + 1]
\* Mutant of InTurns: the comparison with max_turns off by one.
InTurnsLate == Known /\ Begin.status \notin Closed /\ Begin.turn_count <= MaxTurns
InTurns == Known /\ Begin.status \notin Closed /\ Begin.turn_count < MaxTurns

Looked(m) == IF Examines(Begin, m.resources) THEN Record(Begin, m.resources) ELSE Begin

\* Bound on the turns counted after the session is closed.
TurnBound == MaxTurns + 1

StepUnknown == /\ ~Known
               /\ Unread
               /\ UNCHANGED <<mem, disk, crashes>>

StepClosed == /\ Known
              /\ Begin.status \in Closed
              /\ Begin.turn_count <= TurnBound
              /\ Unread
              /\ Commit(Begin)

\* Mutant of StepMaxTurns: tested before the closed statuses.
StepMaxTurnsFirst == /\ Known
                     /\ Begin.turn_count >= MaxTurns
                     /\ Begin.turn_count <= TurnBound
                     /\ Unread
                     /\ Commit(Escalate(Begin, "max_turns_reached"))
StepMaxTurns == /\ Known
                /\ Begin.status \notin Closed
                /\ Begin.turn_count >= MaxTurns
                /\ Unread
                /\ Commit(Escalate(Begin, "max_turns_reached"))

StepIncident(m) == /\ InTurns
                   /\ GapApplies(Begin, m.resources)
                   /\ TRUE \in IncidentEnabled
                   /\ Hear(m)
                   /\ Commit(Begin)

StepEvidence(m) == /\ InTurns
                   /\ Examines(Begin, m.resources)
                   /\ Useful(Begin, m.resources) # {}
                   /\ Hear(m)
                   /\ \E t \in StartState(WithEvidence(Begin, m.resources)) :
                          Commit(t)

\* The process dies after _record_evidence_gap saved the fingerprints and
\* before the diagnosis that uses the evidence is saved.
CrashInEvidence(m) == /\ InTurns
                      /\ Examines(Begin, m.resources)
                      /\ Hear(m)
                      /\ Crash
                      /\ disk' = Record(Begin, m.resources)

StepNothingFound(m) == /\ InTurns
                       /\ Examines(Begin, m.resources)
                       /\ Useful(Begin, m.resources) = {}
                       /\ m.blank
                       /\ Hear(m)
                       /\ Commit(Record(Begin, m.resources))

\* The evidence-gap block did not answer.
PastGap(m) ==
    /\ InTurns
    /\ GapApplies(Begin, m.resources) =>
           FALSE \in IncidentEnabled /\ Useful(Begin, m.resources) = {} /\ ~m.blank

DocumentOnly(s) == s.lock = "document_answer_only" /\ s.variant = NoVariant

\* A message after a document answer is a new read request.
StepDocument(m) == /\ PastGap(m)
                   /\ DocumentOnly(Looked(m))
                   /\ Hear(m)
                   /\ \E t \in StartState([Looked(m) EXCEPT !.query = {}]) :
                          Commit(t)

StepInvalid(m) ==
    /\ PastGap(m)
    /\ ~DocumentOnly(Looked(m))
    /\ ~Restorable(Looked(m))
    /\ Unread
    /\ Commit([Looked(m) EXCEPT !.status = "failed", !.failure = "invalid_kg_v2_session"])

\* The plan is restored.
Planned(m) == PastGap(m) /\ ~DocumentOnly(Looked(m)) /\ Restorable(Looked(m))

\* The session waits for a confirmation: a refusing phrase is looked for
\* before a confirming one; anything else repeats the question.  The plan
\* is the one that asked, so it has the action (confirmed_action_not_in_plan
\* cannot be reached).
Confirming(m) == Planned(m) /\ Looked(m).pending # NoAction

StepReject(m) ==
    /\ Confirming(m)
    /\ "reject" \in m.phrases
    /\ Hear(m)
    /\ \E t \in Advance([Looked(m) EXCEPT !.ruled_out = @ \cup {Looked(m).pending},
                                         !.pending = NoAction]) :
           Commit(t)

\* Mutant of StepConfirm: the confirming phrases are looked for first.
StepConfirmFirst(m) ==
    /\ Confirming(m)
    /\ "confirm" \in m.phrases
    /\ Hear(m)
    /\ LET a == Looked(m).pending
           s == [Looked(m) EXCEPT !.pending = NoAction]
       IN  \E i \in Positions(s, a) :
               Commit(Show([s EXCEPT !.confirmed = @ \cup {a}], i))
StepConfirm(m) ==
    /\ Confirming(m)
    /\ "reject" \notin m.phrases
    /\ "confirm" \in m.phrases
    /\ Hear(m)
    /\ LET a == Looked(m).pending
           s == [Looked(m) EXCEPT !.pending = NoAction]
       IN  \E i \in Positions(s, a) :
               Commit(Show([s EXCEPT !.confirmed = @ \cup {a}], i))

\* Mutant of StepUnclear: the repeated question does not count as a turn.
StepUnclearFree(m) ==
    /\ Confirming(m)
    /\ m.phrases \cap {"confirm", "reject"} = {}
    /\ Hear(m)
    /\ Commit([Looked(m) EXCEPT !.required = "confirm", !.turn_count = Stored.turn_count])
StepUnclear(m) ==
    /\ Confirming(m)
    /\ m.phrases \cap {"confirm", "reject"} = {}
    /\ Hear(m)
    /\ Commit([Looked(m) EXCEPT !.required = "confirm"])

\* The session waits for the condition that selects a branch.  The outcome
\* is the one of the earlier message; the new message is not classified.  Its
\* rules are those that asked, so one is selected or the question repeated,
\* and the action is in the plan.
Branching(m) == /\ Planned(m)
                /\ Looked(m).pending = NoAction
                /\ Looked(m).branching # NoAction
BranchOf(s, m)  == Selected(s.variant, s.branching, s.branch_outcome, m)

StepStillUnclear(m) ==
    /\ Branching(m)
    /\ BranchOf(Looked(m), m) = {}
    /\ Hear(m)
    /\ Commit(AskCondition(Looked(m), Looked(m).branching, Looked(m).branch_outcome))

\* Mutant of StepBranch: pending_branch_condition_action_id is not popped.
StepBranchKept(m) ==
    /\ Branching(m)
    /\ Hear(m)
    /\ \E r \in BranchOf(Looked(m), m) :
         \E t \in Follow([Looked(m) EXCEPT !.answered = @ \cup {Looked(m).branching}],
                        Looked(m).branching, Looked(m).branch_outcome, r, m) :
             Commit(t)
StepBranch(m) ==
    /\ Branching(m)
    /\ Hear(m)
    /\ \E r \in BranchOf(Looked(m), m) :
         \E t \in Follow([Looked(m) EXCEPT !.branching = NoAction,
                                          !.branch_outcome = NoOutcome,
                                          !.answered = @ \cup {Looked(m).branching}],
                        Looked(m).branching, Looked(m).branch_outcome, r, m) :
             Commit(t)

\* The session waits for missing information: the query is extended and
\* diagnosed anew.
Plain(m) == /\ Planned(m)
            /\ Looked(m).pending = NoAction
            /\ Looked(m).branching = NoAction
Informing(s) == s.status = "ask_info" /\ s.required # NoQuestion

StepMoreInfo(m) ==
    /\ Plain(m)
    /\ Informing(Looked(m))
    /\ Hear(m)
    /\ \E t \in StartState(Looked(m)) : Commit(t)

\* The message is the outcome of the current action.
Reporting(m) == Plain(m) /\ ~Informing(Looked(m))
Reported(m)  == [Looked(m) EXCEPT !.answered = @ \cup {Looked(m).current}]
Rules(m)     == Selected(Looked(m).variant, Looked(m).current, Classify(m), m)
Unrouted(m)  == /\ Rules(m) = {}
                /\ ~NeedsCondition(Looked(m).variant, Looked(m).current, Classify(m), m)

StepNoCurrent(m) ==
    /\ Reporting(m)
    /\ ~InPlan(Looked(m), Looked(m).current)
    /\ Hear(m)
    /\ Commit(Escalate(Looked(m), "current_action_not_in_plan"))

StepAskBranch(m) ==
    /\ Reporting(m)
    /\ InPlan(Looked(m), Looked(m).current)
    /\ NeedsCondition(Looked(m).variant, Looked(m).current, Classify(m), m)
    /\ Hear(m)
    /\ Commit(AskCondition(Reported(m), Looked(m).current, Classify(m)))

StepFollow(m) ==
    /\ Reporting(m)
    /\ InPlan(Looked(m), Looked(m).current)
    /\ Hear(m)
    /\ \E r \in Rules(m) :
         \E t \in Follow(Reported(m), Looked(m).current, Classify(m), r, m) :
             Commit(t)

StepFixReported(m) ==
    /\ Reporting(m)
    /\ InPlan(Looked(m), Looked(m).current)
    /\ Unrouted(m)
    /\ Classify(m) = "verified_fix"
    /\ Hear(m)
    /\ LET t == IF Verified(Looked(m).current, m)
                THEN Resolve(Reported(m), Looked(m).current)
                ELSE PendingValidation(Reported(m))
       IN  Commit(t)

StepAdvance(m) ==
    /\ Reporting(m)
    /\ InPlan(Looked(m), Looked(m).current)
    /\ Unrouted(m)
    /\ Classify(m) # "verified_fix"
    /\ Hear(m)
    /\ \E t \in Advance(Reported(m)) : Commit(t)
-----------------------------------------------------------------------------
\* Every invocation of the command line is a process of its own.
Restart == /\ mem # NoSession
           /\ Crash
           /\ UNCHANGED <<graph, disk, heard, starts>>

\* The write side publishes another graph.
Publish == /\ graph' \in Revision \ {graph}
           /\ UNCHANGED <<mem, disk, heard, starts, crashes>>

\* A call of step that does not look at its message, and one that does.
StepUnread == StepUnknown \/ StepClosed \/ StepMaxTurns
Step(m) ==
    \/ StepIncident(m)     \/ StepEvidence(m)  \/ StepNothingFound(m)
    \/ StepDocument(m)     \/ StepInvalid(m)
    \/ StepReject(m)       \/ StepConfirm(m)   \/ StepUnclear(m)
    \/ StepStillUnclear(m) \/ StepBranch(m)    \/ StepMoreInfo(m)
    \/ StepNoCurrent(m)    \/ StepAskBranch(m) \/ StepFollow(m)
    \/ StepFixReported(m)  \/ StepAdvance(m)

Next ==
    \/ \E resources \in SUBSET Resource : Start(resources) \/ CrashInStart(resources)
    \/ StepUnread
    \/ \E m \in Message : Step(m) \/ CrashInEvidence(m)
    \/ Restart
    \/ Publish

Spec == Init /\ [][Next]_vars

(***************************************************************************)
(* The user keeps answering; nothing is assumed of crashes or of the graph.*)
(***************************************************************************)
FairSpec == Spec /\ WF_vars(StepUnread \/ \E m \in Message : Step(m))
-----------------------------------------------------------------------------
(***************************************************************************)
(* Properties.                                                             *)
(***************************************************************************)
Records == {mem, disk} \ {NoSession, Absent, Corrupt}

\* The variables have their types; a presented position is one of the plan.
TypeOK ==
    /\ graph \in Revision
    /\ mem \in Session \cup {NoSession}
    /\ disk \in Session \cup {Absent, Corrupt}
    /\ heard \in Message \cup {NoMessage}
    /\ starts \in 0 .. MaxStarts
    /\ crashes \in 0 .. MaxCrashes
    /\ \A s \in Records : s.variant # NoVariant => s.index + 1 \in DOMAIN Plan[s.variant]

\* Safety gate: within a diagnosis every destructive or high-cost action that
\* was ever presented as a step was confirmed, and the action a session in
\* status step or resolved stands at is one it presented.
UnsafeConfirmed ==
    ConfirmRequired =>
        \A s \in Records :
            /\ s.presented \cap Unsafe \subseteq s.confirmed
            /\ s.confirmed \subseteq s.presented \cap Unsafe
            /\ s.status \in {"step", "resolved"} /\ s.variant # NoVariant =>
                   /\ s.current \in s.presented
                   /\ s.current = Plan[s.variant][s.index + 1]

\* A session asks one thing at a time: while a confirmation is pending, no
\* branch condition is (step reads the next message as the answer to the
\* confirmation), the pending action is the current one, and the session
\* neither presents it nor is resolved.
OneQuestion ==
    \A s \in Records :
        /\ s.pending # NoAction =>
               /\ s.branching = NoAction
               /\ s.current = s.pending
               /\ s.status \notin {"step", "resolved"}
        /\ s.branching # NoAction =>
               s.current = s.branching /\ s.branching \in s.presented

\* resolved is fail-closed: the action it names was presented, reported on, has
\* an evidenced verified_fix outcome and, if unsafe, was confirmed.
ResolvedSound ==
    \A s \in Records : s.status = "resolved" =>
        /\ s.resolved \in s.presented \cap s.answered \cap VerifiedFix
        /\ ConfirmRequired /\ s.resolved \in Unsafe => s.resolved \in s.confirmed

\* max_turns: a session whose turns are used up is closed, also after a crash.
TurnsBounded ==
    \A s \in Records : s.turn_count >= MaxTurns => s.status \in Closed

\* O-EG: evidence enters the query only from resources recorded as processed,
\* so no resource is parsed twice, whatever is lost between the two saves.
EvidenceOnce == \A s \in Records : s.query \subseteq s.processed

\* resolved and escalate are final until start is called for the session, also
\* across crashes: the session stays as it is or its file is unreadable.
ClosedStays ==
    [][Known /\ Stored.status \in Closed /\ starts' = starts /\ Known' =>
         Stored'.status = Stored.status /\ Stored'.resolved = Stored.resolved]_vars

\* An action becomes confirmed only by a message with a confirming and without
\* a refusing phrase, given when the session asked about that very action.
ConfirmedByAnswer ==
    [][Known /\ Known' =>
         \A a \in Stored'.confirmed \ Stored.confirmed :
             /\ a = Stored.pending
             /\ "confirm" \in heard'.phrases
             /\ "reject" \notin heard'.phrases]_vars

\* The phrases that keep a text from being read as verified_fix.
Doubt == {"not_root_cause", "recurred_again", "negative",
          "temporary", "mitigation", "pending"}

\* resolved is entered only on the user's report: for the action the session
\* stood at, which it presented in an earlier call, with the signals that
\* activate its fix, after a text that was classified as verified_fix: the one
\* just heard, or, when it answers a question about a branch, the one that led to
\* the question.  (The answer itself is not classified, only looked through for
\* signals; TemporaryNeverResolves in DiagnosticSessionDocs shows what follows.)
ResolvedByReport ==
    [][Known /\ Known' /\ Stored'.status = "resolved" /\ Stored.status # "resolved" =>
         LET a == Stored'.resolved
         IN  /\ a = Stored.current
             /\ a \in Stored.presented
             /\ \A g \in Activation[a] : g \cap heard'.signals # {}
             /\ \/ Stored.branching = a /\ Stored.branch_outcome = "verified_fix"
                \/ /\ Stored.branching = NoAction
                   /\ "solved" \in heard'.phrases
                   /\ heard'.phrases \cap Doubt = {}]_vars

\* A plan is walked only on the graph revision it was compiled from: a step
\* that presents, confirms, rules out or resolves anything leaves a session
\* pinned to the current revision.
StalePlanStops ==
    [][Known /\ Known' =>
         \/ Stored'.revision = graph
         \/ /\ Stored'.presented \subseteq Stored.presented
            /\ Stored'.confirmed \subseteq Stored.confirmed
            /\ Stored'.ruled_out \subseteq Stored.ruled_out
            /\ Stored'.resolved \in {Stored.resolved, NoAction}]_vars

\* No session goes on for ever: a user who keeps answering meets resolved or
\* escalate, whatever the graph does, unless a crash spoilt the file.
SessionEnds == <>[](~Known \/ Stored.status \in Closed)

\* What the caller knows of the session: of a lost one, no more than of a new.
Seen  == IF Known THEN Stored ELSE Fresh
Phase == IF ~Known THEN "none"
         ELSE IF Stored.status \in Closed THEN Stored.status ELSE "open"

\* Plans, rules, evidence, restarts and crashes are a way to do no more than
\* the abstract dialogue: unsafe actions are shown when granted, what resolves
\* was shown, and only start takes up a closed session.
Dialogue == INSTANCE GuidedDiagnosis WITH
    Guarded <- IF ConfirmRequired THEN Unsafe ELSE {},
    Fix     <- VerifiedFix,
    None    <- NoAction,
    phase   <- Phase,
    shown   <- Seen.presented,
    granted <- Seen.confirmed,
    asked   <- Seen.pending,
    fix     <- Seen.resolved,
    calls   <- starts
DialogueIsGuided == Dialogue!Spec
=============================================================================
