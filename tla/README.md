# debug-agent-system: TLA+ specifications and proofs

This directory specifies the control logic of debug-agent-system in TLA+, checks it with TLC on
small instances and proves part of it with TLAPS for every value of the constants. Definitions are
translated from the code under `src/`; `PROJECT.json` gives for each the lines it stands for, for
each property a mutation of the code that breaks it, and for each hazard the properties about it.

| module | what it is |
|---|---|
| `DiagnosticSession` | one diagnostic session: `DebugAgentSystem.start`/`step` and the session store |
| `MCDiagnosticSession` | its instance for TLC (`DiagnosticSession.cfg`) |
| `DiagnosticSessionDocs` | what the documents say of a session and the code does not keep |
| `DiagnosticSession_proofs` | the theorems about its invariants |
| `DiagnosticSessionSteps_proofs` | the theorems about its steps and its refinement |
| `GuidedDiagnosis` | the abstract dialogue that `DiagnosticSession` implements |
| `ReviewQueue` | the human gate of the write side: review queue W6 and approved-only applier W5 |
| `MCReviewQueue` | its instance for TLC (`ReviewQueue.cfg`, `ReviewRace.cfg`) |
| `ReviewQueue_proofs` | the theorems about it |
| `ReviewQueueGraph_proofs` | the theorems about which versions are in the graph and in the audit file |
| `ReviewQueueDocs` | what the documents say of the gate and the code does not keep |
| `ApprovedKnowledge` | the abstract gate that `ReviewQueue` implements |
| `GraphPublication` | from W5's file writes through the SAG index to a session: `json_store`, `ingest`, `sqlite_sag_v2`, `_build_read_model` |
| `MCGraphPublication` | its instance for TLC (`GraphPublication.cfg`) |
| `GraphPublication_proofs` | the theorems about it |
| `TraceAssembly` | W7: `run_w7b`, its stages, tasks and checkpoints, and `components.py` |
| `MCTraceAssembly` | its instance for TLC (`TraceAssembly.cfg`, `TraceGuard.cfg`) |
| `TraceAssembly_proofs` | the theorems about it |
| `CaseIntake` | W7a and W2 over a batch of episodes: `batch_orchestrator`, `run_w7a`, contracts, atomic cases, case cards |
| `MCCaseIntake` | its instance for TLC (`CaseIntake.cfg`) |
| `CaseIntake_proofs` | the theorems about it |
| `CaseIntakeReplay_proofs` | the theorem that a replayed batch gives the same |

To check a run, `tlc -config ReviewRace.cfg MCReviewQueue.tla`; to check proofs,
`tlapm ReviewQueue_proofs.tla`. Paths below are relative to `src/src/debug_agent_system/`.

## 1. The system

The program diagnoses equipment faults with a knowledge graph (KG_v2). The **read side** turns a
description of a symptom into a plan of diagnostic actions and walks it with the user. The **write
side** turns chats, documents and cases into candidates for the graph, which a human approves
before they are merged. The two meet in the graph: its files, the SAG index built from them, and
the graph revision that a session is pinned to.

### Components

| component | state it keeps | operations | what makes it hard, and correct |
|---|---|---|---|
| O0 dialogue (`runtime/system.py`) | `SessionState`: status, plan position, pending confirmation, pending branch condition, confirmed / ruled out / answered actions, revision, turns | `start`, `step` with some twenty early returns | ways around the safety gate; answers to the wrong question; ends that are not evidenced; loops |
| MEM session store (`agents/read/mem_session`) | a dictionary, one JSON file per session | `create`, `get`, `save` | truncating writes, several saves per call, processes that share a file |
| O-EG evidence gap (`agents/read/o_evidence_gap`) | processed fingerprints in the session | `resolve` | evidence used twice or recorded and not used |
| read model, plan compiler (`knowledge_v2/read_model.py`) | the graph as loaded at process start | `retrieve`, `compile_plan` | cached graph against live revision |
| answer composition (`evidence_answer.py`, ...) | none | composing text | none for control |
| SAG v2 (`knowledge_v2/sqlite_sag_v2.py`) | SQLite index, revision markers | build, publish, health, restore | three markers and an atomic replace that must agree |
| KG_v2 store (`knowledge_v2/json_store.py`) | one JSON file per object type, one of edges | `merge_graph`, `replace_graph` | many files, one logical write |
| materializer, validator, builders | none | pure transformations | size of data |
| terminology | term files | discovery, review | its own review queue |
| W6 review queue (`agents/write/w6_review_queue`) | one JSON file per queue | `enqueue`, `mark_decision`, `append_trace_correction`, `compile_trace_corrections`, `fulfill_w2_reextract`, `mark_needs_re_review` | unlocked read-modify-write; stale approvals; lost corrections |
| W5 ingest (`agents/write_v2/ingest.py`) | `approved_applied.json` | `apply_approved_review_queue` | works from a snapshot; several writes; dies in between |
| W7 traces (`agents/write/w7_trace`) | checkpoints | shadow and batch orchestration on threads | shared checkpoint store, resumption |
| W1-W4, W9, W10 (`agents/write/...`) | none between calls | extraction, conflict, gate | sequential; what they leave is what is enqueued |
| legacy W5 and knowledge v1 | v1 graph | superseded | - |
| tools | registry, executor budget | parsing, execution | budget and cache |
| incident runtime | none | analysis of artifacts | pure |
| read runtimes v3, v4; Codex and DeepSeek harnesses; raw pipeline | traces | model-driven loops | budgets; an external service |
| CLI, QA adapter | none | one process per command | restarts between any two turns |
| evaluation | none | offline scoring | - |

`PROJECT.json` "components" has the sources of each and says what is modelled.

### How they interact

- `step` reads the session through MEM, restores the plan through the read model (which compares
  the pinned revision with the store's), lets O-EG look at attached resources, and saves; one call
  makes up to three saves. Every CLI invocation is a process of its own.
- An ingestion ends in `enqueue`. A reviewer reads a listing and calls `mark_decision` by id, or
  `append_trace_correction` and `compile_trace_corrections`, which calls back into W4. Each is a
  process that reads the whole queue file and writes the whole file.
- `apply_approved_review_queue` reads the queue once, then for each approved item reads the graph
  and the audit file, merges, rebuilds derived layers and appends to the audit file; it ends with
  the materialization of the batch and with `mark_needs_re_review` for stale documents.
- After a merge the SAG index is rebuilt and the graph revision changes, which ends the sessions
  pinned to the old one (`invalid_kg_v2_session`).

## 2. `DiagnosticSession`

State: `mem` and `disk` are the record in the store's dictionary and in its file (`Absent` before
the first save, `Corrupt` after a crash inside `write_text`); `graph` is the current revision;
`heard` is the message the last call read, for the properties alone (`MCView` removes it);
`starts` and `crashes` count what is bounded. A record has the fields of `SessionState` that
control reads, among them the metadata keys: `pending` is `pending_confirmation_action_id`,
`branching` is `pending_branch_condition_action_id`, `query` is the evidence written into the query
text.

| action | code in `runtime/system.py` |
|---|---|
| `Start`, `CrashInStart` | `start`: create, `_start_state`, `_maybe_complete_evidence_gap`; death after each save |
| `StepUnknown`, `StepClosed`, `StepMaxTurns` | the returns before the message is looked at |
| `StepIncident`, `StepEvidence`, `StepNothingFound`, `CrashInEvidence` | the evidence-gap block |
| `StepDocument`, `StepInvalid` | a document answer asked on; `_restore_plan` fails |
| `StepReject`, `StepConfirm`, `StepUnclear` | the answer to a confirmation |
| `StepStillUnclear`, `StepBranch` | the answer to a branch condition |
| `StepMoreInfo` | the answer to a request for information |
| `StepNoCurrent`, `StepAskBranch`, `StepFollow`, `StepFixReported`, `StepAdvance` | the report on the current action |
| `Restart`, `Publish` | a new process; the write side publishes another revision |

Helpers carry the names of the code: `Present` is `_present_step` with the safety gate, `Advance`
is `_advance`, `Follow` is `_follow_branch`, `Selected` and `NeedsCondition` are `_matching_branch`,
`Classify` is `_classify_outcome`, `Verified` is `_verified_fix_outcome`.

Abstractions. A message is the set of phrase groups its text contains as substrings, the branch
signals in it, the resources attached, and what its sender meant, which no action reads. Retrieval
may give any variant, a document answer or nothing. The compiled plan is a constant of the variant,
non-empty and without repeated actions, and the same in every revision; the routing context is the
one `start` was given. The cut at `max_resources` is left out. Wording, timelines, citations and
`analyze_incident` are not modelled.

### Runs

- `diagnostic_session` (`DiagnosticSession.cfg`): two plans that share a destructive action, one
  rule for every way a branch can end (forwards, backwards, into the unsafe action, out of the
  plan, terminal, asking for a condition), eleven messages (one for each way a text is read, and
  those in which two readings compete), two resources, two revisions, five turns, one crash, and
  processes with the incident runtime on and off (`IncidentEnabled`), any of which may serve the
  next call. Five
  turns are enough to be asked, to confirm, to branch, to answer a branch question and to report a
  fix, with one left over for a detour; the sixth is counted after the end. It checks
  - `UnsafeConfirmed`: no destructive or high-cost action is presented unconfirmed, by any way;
  - `OneQuestion`: a confirmation and a branch condition are never asked for at once;
  - `ResolvedSound`, `ResolvedByReport`: `resolved` names a presented, reported, evidenced fix and
    is entered on a text that was read as a verified fix of the action the session stood at: the
    last text, or the one before a question about its branch, whatever the answer says (see below);
  - `TurnsBounded`, `ClosedStays`: used-up turns close a session and closed is final, crashes or not;
  - `EvidenceOnce`: nothing enters the query without being recorded as processed;
  - `ConfirmedByAnswer`: what becomes confirmed was asked about and the text had a confirming and
    no refusing phrase;
  - `StalePlanStops`: no plan is walked on a revision other than the one it is pinned to;
  - `DialogueIsGuided`: the session implements `GuidedDiagnosis` (below);
  - `SessionEnds`: every session ends or is unreadable, although attached evidence need not move the
    diagnosis and questions may be repeated.

Fairness: weak fairness of `step` as a whole, that is, a user who keeps answering something. No
message is preferred, and nothing is assumed of crashes, restarts or publications. The code's only
guarantee of termination is `max_turns`, and the run shows that no path forgets to count.

Documents against code, each with the counterexample of a run:

- `refusal_never_confirms`: 不同意 contains 同意 and no word of `_REJECT`, so it confirms;
- `temporary_never_resolves`: the answer to a branch question is not classified
  (`runtime/system.py:360`); it keeps the outcome of the text before, so after 已解决 an answer that
  speaks of a temporary recovery resolves, which 读侧-管线组织方式总览.md:639 excludes. That disjunct
  of `ResolvedByReport` is what the code does, not what the document says.

Not given a run: a session that asks for the symptom because no variant matched has no plan to
restore, so the answer turns it into `failed` (`step` restores the plan before it looks at
`ask_info`), while 读侧-诊断检索-整体设计.md:253 speaks of asking until there is enough.

### The dialogue it implements

`GuidedDiagnosis` says what the user of a session can rely on, without plans, rules, texts, turns,
evidence, files or crashes. Its state is what the caller sees: whether there is a session and how it
ended, what was shown, what was granted, what is being asked, what resolved it. A diagnosis begins
with nothing granted; an action that needs to be granted is shown only when it was asked about and
granted, by the very step that shows it or earlier in the same diagnosis; a fix is named only while
nothing is asked and only if it was shown; a diagnosis that ended begins again only by `start`.
`DiagnosticSession` maps to it by what is read of the session (`Seen`, `Phase`): a session that a
crash made unreadable is `Lost`, a new diagnosis after more information is `Rediagnose`, the walk
along the plan is `Show`, `Ask`, `Resolve` and `GiveUp`, and what only counts turns, records
evidence or repeats a question is a stutter.

### Proofs

`DiagnosticSession_proofs` proves the type invariant and the five safety invariants for every plan,
rule set, message set, resource set, number of revisions and bound, from the assumptions named in
`DiagnosticSession` (well-formed plans without repetitions, rules and messages of their types, at
least one turn, null values outside the sets they extend).

None of the invariants is inductive alone: whether a confirmation leads to a confirmed action
depends on what is pending, which depends on the position in the plan. The strengthening `IInv`
says that each record, in memory or in the file, is `Sound` (`Positioned`, `Gated`, `Asking`,
`Standing`, `Resolution`, evidence recorded) and `InTime`. Since every save writes a record a
handler computed, and a crash loses the dictionary, writes the file or spoils it, it is enough that
every handler makes sound records of sound records: lemmas `ShowSound`, `AskConfirmationSound`,
`AdvanceSound`, `FollowSound`, `StartStateSound`, ... follow the helpers of the code, `Walking` is
what holds between them, and `CommitKeeps` is the one lemma about saving. `StartKeeps` to
`StepReportKeeps` have one step per action, `NextIInv` puts them together, and `Invariance` is
`Spec => []IInv`. The theorems are `TypeCorrect`, `GateHolds`, `OneAtATime`, `ResolvedIsSound`,
`TurnsAreBounded` and `EvidenceIsOnce`.

`DiagnosticSessionSteps_proofs` proves what a step may do, under the same assumptions: `ClosedStays`,
`ConfirmedByAnswer`, `ResolvedByReport`, `StalePlanStops` and the refinement `DialogueIsGuided`. The
argument is one classification of all steps. `Moved` says that what the next call reads is the
record as it was but for fields no property speaks of (`Carried`), a diagnosis that has just begun
(`Begun`), or the plan of an open session walked on the message just heard (`Walked`): shown, asked,
ended, granted or fixed. `FollowOnward`, `AdvanceOnward`, `PresentOnward` follow the helpers of the
code, `StartMoves` to `StepReportMoves` the actions, and `NextMoves` puts them together. That this
speaks of what the next call *reads* needs the invariant `SInv`: the file holds what the dictionary
holds, so a crash between two calls loses nothing; and a session with a plan is pinned, so that the
comparison in `_restore_plan` means the current revision. Each action property and each step of the
refinement (`CarriedIsGuided`, `BegunIsGuided`, `WalkedIsGuided`, `LostIsGuided`) follows from the
three cases.

The same module proves two facts that no run states. `QuestionsAreAnswerable`: the action a session
asks about, to confirm it or to learn the condition of its branch, is in its plan. So the errors
`confirmed_action_not_in_plan` (`system.py:339`) and `pending_branch_action_not_in_plan`
(`system.py:358`) are met in no state, and the model has no action for them. The invariant behind it
is `Answerable`, kept because every handler leaves the record answerable (`Went`).
`EveryCallCountsATurn`: between two calls of `start`, what the next call reads changes only with one
turn counted, repeated questions and restarts of the diagnosis included. With `TurnsAreBounded` it is
the safety that `SessionEnds` rests on; `SessionEnds` itself is only model-checked, since liveness is
out of the prover's reach.

## 3. `ReviewQueue`

State: `queue` is `v2_typed_candidates.json`, an entry or `None` per `dedupe_key`; `snapshot[p]` is
what process `p` has read of it; `graph` says for each object which subject wrote it and whether it
may be executed (`execution_materialize_allowed`); `audit` is `approved_applied.json`; `job` is the
run of W5: the items of its snapshot still to do, the one merged but not in the audit file, the
stale documents; `source` is the current version of each document's file. `approvals` is for the
properties, `used` counts against the bounds.

A subject is what `approval_subject_hash` hashes: base, extraction, corrections compiled in, chain
of correction events, and overlay applied. Hashes are the values they hash.

| action | code |
|---|---|
| `Load`, `Abandon` | `_read`; an early return, a raising callback, or the death of the process |
| `Enqueue` | `enqueue` with `_merge_review_state` |
| `Decide` | `mark_decision`, of the item by its id, whatever it holds now |
| `AppendCorrection`, `Compile`, `Fulfil` | `append_trace_correction`, `compile_trace_corrections`, `fulfill_w2_reextract` |
| `Edit` | the source file of a document changes |
| `StartApply`, `Skip`, `SkipStale`, `Apply`, `Audit`, `FinishApply` | `apply_approved_review_queue`: the snapshot; per item the checks in their order, the merge, the audit row |
| `LoadToMark`, `MarkNeedsReReview`, `MarkNotFound` | the items sent back to review |
| `CrashApply` | W5 dies between two writes |

Every operation of W6 is two steps, `Load` and a write of the whole file, so processes overwrite
each other as they do in the code.

Abstractions.

- `status` stands for `review_status`, `human_approved` and `review_decision`, which the code sets
  together; the actions that do not approve are one, `reject`, and the approving synonyms are
  `approve`.
- W4 gives one of the decisions `Verdicts` allows for an extraction, corrected or not. `admit`
  means that the candidate may be materialized and is ready for execution; readiness levels,
  schema, provenance and SOP checks are taken to pass.
- A fulfilled candidate has in it the corrections the request was made for. An event is identified
  by a number, as its hash and time identify it in the code.
- A merge is one step: `_objects_for_approved_merge` with the purge of a document's older version.
  Terminology, document links, materialization and the SAG build are left out, and so are
  fault-mapping items and document / mapping pairs. Objects that a purge retains because several
  documents or other knowledge refer to them (media, actions) are left out as well, and with them
  the stub the code writes for a document that exists: the objects of the model belong to one
  version. The file-by-file merge is in `GraphPublication`.
- `enqueue` is of one item per write, and one W5 runs at a time. A crash that truncates the queue
  file is left out: every later command then fails, and nothing recovers.

### Runs

- `review_queue` (`ReviewQueue.cfg`): a hash-bound trace item, two extractions of the same bundle,
  one of which W4 may reject or route to review; a chain of one event, two enqueues, two decisions,
  two runs of W5 that may crash anywhere, one process of commands. Two of each are enough to decide
  twice on different subjects, to be merged and merged again, and to be enqueued over a decided or
  a corrected item; with one process, what is lost is not lost to a race. It checks
  - `ApprovalIsBound`: an approval in the queue is bound to the subject the item holds now;
  - `GraphWasApproved`: what is in the graph was approved by a human as that subject, and what may
    be executed was approved for the execution policy, or plainly and is a subject W4 may admit:
    neither a support-only approval nor a plain one of a candidate routed to review releases it,
    although items are enqueued and gated again between a decision and W5;
  - `CorrectionsAreMerged`: no candidate is merged that lags behind its correction events;
  - `AuditIsTrue`: what the audit file calls applied is in the graph;
  - `ReleasedStays`: what is released for execution is not taken out by a candidate that is not.
- `review_race` (`ReviewRace.cfg`): the trace item and a document, two processes of commands
  (interchangeable, hence the symmetry), two enqueues, two decisions, one edit of the source, two
  runs of W5. The trace item is one that W4 routes to review. `GraphWasApproved` holds whatever the
  processes overwrite, and `VersionsNeverMix`: two versions of a document are never in the graph
  together. `KnowledgeIsApproved` is the specification of `ApprovedKnowledge` under the mapping below.

No fairness: nothing in the code makes a reviewer decide or W5 run.

Documents against code:

- `fulfilled_is_applicable`: `fulfill_w2_reextract` does not set `correction_overlay_applied`, so
  W5 refuses the re-extracted candidate (`correction_events_not_compiled`) however it is approved.
- `events_are_kept`: a compiled, corrected item is `pending` and undecided, so the next ingestion of
  the same bundle replaces it whole and the human's correction events are gone.
- `route_review_keeps_its_limit`: the comment in `_w4_admitted` (`ingest.py:1245`) and
  写侧-群聊知识入图.md:448 say that an approved `route_review` candidate stays out of the execution
  view, until it is corrected and gated again; `_materialize_allowed` releases it under
  `approve_for_execution_policy`, as its own comment (`ingest.py:1189`) explains and a unit test
  wants. `GraphWasApproved` and `ApprovedKnowledge` follow the code: only an explicit release does it.

Not given a run: a decision is given by id and seals what the item holds at that moment; neither
`mark_decision` nor the command (`cli.py:930`) is told what the reviewer read. Content that replaced
an undecided item meanwhile is approved unread, while 写侧-群聊知识入图.md:450 says that changed
content must be reviewed again. The model does not tell who has read what.

### Proofs

`ReviewQueue_proofs` proves `TypeOK`, `ApprovalIsBound`, `GraphWasApproved`, `CorrectionsAreMerged`
and `ReleasedStays` for any sets of items, extractions and objects, any number of processes of
commands and any bounds, from the assumptions named in `ReviewQueue`: trace items and documents are
disjoint, tables are of their types, W5 is no process of commands, and `None` is no value.

What makes the promises survive lost updates is that they are made per entry. A process that writes
back an old file revives old entries, but every entry it writes was fine when it was read, and fine
does not depend on the rest of the file. So `IInv` says of every entry, in the queue, in a snapshot
or in W5's hands, that it is `Fine`:

- `Sane`: an approval seals the subject; an overlay that is applied is the one compiled into the
  candidate; a structural chain has no overlay, and only such a chain has a request; a candidate
  without events has no corrections in it; and its gate is one W4 may take of its extraction, which
  is what a plain approval releases by. The four before it are what `CorrectionsAreMerged` needs at
  the moment of the merge;
- `Uncorrected`: an item that is not a trace binds its extraction and nothing else, so that an
  inherited decision is one about the same subject although W5 does not compare its hash;
- `Given`: the approval it carries is one that a human gave.

and of every object that it is `Merged`. Lemmas `MergeFine` to `FulfilledFine` show that each
operation makes fine entries of fine entries, `WriteKeeps` that writing a file back keeps all of it
fine, `AdmissibleMerges` that what passes W5's checks may be merged; then one lemma per action.

`ReviewQueueGraph_proofs` proves `VersionsNeverMix` and `AuditIsTrue`, which depend on who owns an
object: `ObjectAssumption` says that the versions of a document have disjoint objects, which nothing
else yields, as their content-addressed ids have it (the instance lets extractions of a trace item
share a `FaultVariant`). `GInv` adds to `IInv` what extraction an entry was made from, that an
object of a document carries its version and nothing else, and that an item merged and not yet
audited is in the graph.

### The gate it implements

`ApprovedKnowledge` is the promise without the machinery: humans approve subjects, and knowledge
changes only by the release of one approved subject, each object of which stays, is written by it,
or is withdrawn as the older version of the same document; what may be executed is not replaced by
what may not, and was released by an explicit approval (`Explicit`), or a plain one (`Plain`) of a
subject in `Admitted`, here those W4 may admit. `ReviewQueue` maps `graph` to `content` and `approvals` to itself; queue, snapshots,
audit file and W5's run are not visible. `ImplementsTheGate` is
`Spec => KnowledgeIsApproved`: every step but `Apply` leaves the graph alone, and `Apply` merges an
entry that `IInv` says was approved as the subject it holds.

## 4. `TraceAssembly`

W7 cuts each reviewing stage into tasks, decided on a thread pool: read the checkpoint of the same
input, or ask the model (three attempts for links, two elsewhere), and write a checkpoint of an
answer the contract accepted. The main thread waits for the pool, combines the answers and opens the
next stage. State: `stage`; `todo`, the open tasks with their attempts; `verdict`, `weak`, `traces`,
`standalone`, `resolved`, the answers received; `decision`, the link decision as revised; `comp`,
`queue`, `downgraded`, the union loop of `build_trace_components`; `checkpoint`, what is on disk;
`trouble`, the stages that fell back. `linked`, `guarded` and `settled` are history.

| action | code (`agents/write/w7_trace`) |
|---|---|
| `ReadCheckpoint`, `Accept`, `AskAgain`, `GiveUp`, `CallFails` | the ways a task ends: `decide_chunk`, `decide_component` and the bodies of the one-task stages |
| `CombineLink`, `CombineConsistency`, `CombineBridges`, `CombinePhases` | what the stage does with the answers, and the first lines of the next one |
| `UnionStep`, `OfferBridges`, `OpenPhases` | `build_trace_components`, run twice, and what follows it |
| `CompileBundle` | `compile_review_bundle` and the verdict on the run |
| `RunAgain` | the process died, or the batch is run again: only checkpoints are left |

Abstractions. A case is a number, an edge a pair of cases; whatever the contract checks of an
answer's text is "accepted", with the local repairs included, and any accepted answer may come. A
checkpoint key is the input of the task; the code's keys also have the chunk's number in their
stage, which the model leaves out, so its checkpoints are found at least as often. A failing task
writes no checkpoint, so a task that fails and is asked again in a rerun meets the same checkpoints
as one whose process died. The branches of consistency and bridge for a missing model cannot be
reached inside `run_w7b`, because there is no decision without one.

### Runs

- `trace_assembly` (`TraceAssembly.cfg`): four cases, a triangle of edges and an edge out of it, one
  of them with merge blockers, two cases that may be roots, limit three, chunks of two, and one
  failed task or one rerun. A triangle is the least graph in which a cannot link contradicts a must
  path; the fourth case makes a component exceed the limit and gives two bridges that compete. One
  failure is enough to let a fallback flow through every later stage. The run stops when it is
  done, so deadlock is not checked. It checks
  - `ComponentsAreSound`: no component holds a cannot link or exceeds the limit, although bridges
    are judged one by one against the same components and promoted by separate tasks;
  - `OnlyForcedSplits`: only what a cannot link or the limit forbids is left apart, and exactly
    those edges are reported as downgraded;
  - `TracesAreSafe`: from the link stage to the compiled trace no cannot link is lost except to an
    accepted review that called it weak;
  - `EverythingAccountedFor`: no case is lost or in two places, and a run that calls itself valid
    has decided every edge;
  - `ReplayIsStable`: after a run without trouble the same input asks nothing and gives the same;
  - `RunEnds`: every run ends. Fairness: weak, of the main thread and of the pool as a whole, which
    is what `list(executor.map(...))` and the operating system give; no answer is preferred.
- `trace_guard` (`TraceGuard.cfg`, no failures): code against docstring. An edge across an identity
  shift that the guard held back loses its blockers when `run_neighbor_link` validates the combined
  decision, so it is offered as a bridge and may become `must_link` after all. The unit test of the
  bridge stage does not see it because it starts from the decision before that validation.

Seen on the way and not given a run: two promoted bridges may displace an original must link at the
size limit; and one failed component makes the phase stage invalid, which skips the outcome of every
trace, where 写侧多输入统一管线实施计划.md:312 speaks of the component alone.

### Proofs

`TraceAssembly_proofs` proves the type invariant, `ComponentsAreSound`, `OnlyForcedSplits`,
`TracesAreSafe` and `EverythingAccountedFor` for any number of cases, any candidate graph, any limit,
chunk size and number of failures. `IInv` follows the data: answers have the shape of their tasks,
also those from checkpoints (`CheckpointsFit`, `LinkOpen`, `OneReview`); a cannot link leaves the
decision only through an accepted review (`CannotsKept`), because a bridge is a possible edge
(`BridgesArePossible`); the union loop keeps the blocks sound (`SoundBlocks`) and what it left apart
stays impossible to join, because blocks only grow and a cannot link between two blocks follows them
(`SplitsForced`); traces are parts of blocks, disjoint from each other, from the standalone cases
and from the components still open (`PhasesApart`, `TracesInBlocks`, `AllAssigned`); and a stage
without trouble has decided its edges (`AllDecided`).

`ReplaysAreStable` proves `ReplayIsStable`, which relates the results of two runs. `IInv` does not say
which of the possible answers is on the disk. `RInv` adds that one input has one output (`OneEach`),
because a key is written only while nothing is saved under it, and that what the main thread of a run
without trouble holds is what the disk says of the stages behind it (`Held`). For this the result of
each stage is written as a function of the disk (`ReviewedOn`, `BridgedOn`, `TracedOn`, `ResultOn`).
The union loop takes its edges in one order (`FirstEdge`, `LoopUnique`), comes to an end (`LoopEnds`)
and so builds a function of the decision (`BuiltFrom`, `LoopHeld`). A run that settled its result
leaves everything it asked on the disk (`Complete`), where it stays (theorem `SavedStays`), a later
run finds an answer for each of its tasks (`ReplayKnows`), and so nothing in it can fail (`Smooth`).

What the end of a run rests on is proved too. `NeverStuck`: in every reachable state a task can go
on, or the main thread has a next edge or a next stage. `RunsGoDown`: every step but a new run
enters a later stage, or takes something off a finite set (`StepsLeftFinite`) of attempts, open tasks
and undecided edges. What remains, that enabled steps are taken, is the fairness of `Spec`;
`RunEnds` itself is only model-checked.

## 5. `GraphPublication`

W5 merges approved items into the graph's files, one after the other and each truncated before it is
written; the batch ends with policies recomputed from the whole graph, the materialized execution
and the SAG index. A read process compares the revision in the index with a hash of the files,
rebuilds the index if they differ, loads the files and serves that graph until it ends. A session
pins the revision of the index; its plan comes from the graph of the process. Nothing is locked.

A file is the set of items merged into it, or `Torn`; a revision is what the hashed files held. Three
files stand for all: one with objects of every item, `DecisionPolicy`, and the edges, in this order;
a crash between two object files leaves what a crash between the first and the last does, an item of
which the graph has a part. An item is a version of a bundle, or of the document layer of a source
(`Document`, `Source`), whose merge purges the version it replaces (`Replaced`).

W6 is not in this module: a batch is any set of items without an audit row. Whatever reviewers did
since the last one, approve, reject, send back or replace, gives one of these sets, so that nothing
is assumed of what an earlier crash left: it may be in the next batch or in none ever again.

| action | code |
|---|---|
| `StartRun`, `Merge`, `Skip`, `EndBatch` | `apply_approved_review_queue`, `apply_approved_typed_review_item` (merged, or `schema_invalid`), `apply_approved_batch` |
| `OpenFile`, `FillFile`, `OpenAudit`, `FillAudit` | the two halves of each `write_text` of `_write_graph` and of the audit file |
| `Materialize`, `Publish` | `_recompute_and_materialize`; the build after it, or `--skip-sag-build` |
| `Boot`, `Compare`, `Load`, `Hash`, `Install`, `Serve` | `_build_read_model` and `build_sqlite_sag_v2` |
| `Stop`, `CrashRun`, `CrashBoot` | a load that raises, the end of a process, death at any point |
| `StartSession`, `StepSession`, `RefuseSession` | the pin and its comparison in `_restore_plan` |

Abstractions. A scan of the files (a load or a hash) is one step; if a write falls into it, the
reader is `overtaken`, and so is one that has loaded before. `Executable` are the items that pass
`_materialize_allowed` or `_policy_recompute_allowed` and are not blocked from execution. The source
revision and the index schema, which are further reasons to rebuild, and the refresh of terminology
and document links, which are further writes of the same kind, are left out. Of the validation, that
no edge dangles is modelled (`Valid`): a merge that fails it writes nothing. That the store in memory
has by then taken fields of the refused item (`json_store.py:159`) is not seen where items are atoms.
Objects that a purge retains because others refer to them are left out. Bundles do not replace each
other. `_current_graph_revision` is that of a process with a SAG index; without one it hashes the
files. One W5 runs at a time. Snapshot mode is a process that may refuse. `left` is history: what a
crash left merged, or half merged, without a row.

### Runs

`graph_publication` (`GraphPublication.cfg`): two versions of a document and two executable bundles
(each pair interchangeable, hence the symmetry), batches of any of them in any order, and a read
process that may boot any number of times. All of them together are out of reach, so `MCBound` cuts
the run in two: W5 alone with all four items and two crashes anywhere, or W5 with the documents and
the read process beside it, and one crash anywhere. Two versions are replaced both ways; two crashes
leave a half replaced document and then a second one on top of it, or an item left in the graph and
a batch cut before its recomputation; a replacement gives the reader a graph that is not larger than
the one it knows. Sessions and publications are not bounded. A second reader adds nothing but a
second overtaken one; the proofs are for any number, and for all of it together. W5 stops for good
at a torn file, so deadlock is not checked. It checks

- `AuditedIsWhole`: an audit row, which bars the item for ever, is only there when every file of the
  graph has the item, and from then on every file has it or another version of the document,
  whatever crashed and whatever was merged later;
- `OneVersion`: no readable file has objects or edges of two versions of a document, not even when a
  replacement was cut between the files and another one follows;
- `OnlyACrashBlocks`: unless a crash fell between two files of a merge, every item can be merged;
- `RecomputeCatchesUp`: policies and execution view that a crash left out are made up for by the
  next batch that recomputes, because it recomputes from the whole graph; and nothing has policies
  but what is audited and what a crash left in the graph without a row;
- `SessionKeepsItsGraph`: a session served by processes that were not overtaken walks the graph it
  began on, through any number of processes and publications.

Two lemmas under the last one are theorems without a run: `IndexIsWhatItSays`, that an index differs
from the revision it is marked with only if a write or another index overtook its builder, and
`ServesItsIndex`, that a process serves another graph than the index only if it was overtaken.

No fairness: nothing makes a reviewer approve, W5 run or a process start.

Seen on the way, each an exception that a property names.

- If W5 dies between the files of a document replacement, the edges of the old version point to
  objects that are gone. `validate_graph` then refuses every merge, of any item, and the purge does
  not find the old version, since it looks for it among the objects. Merging the old version again
  would mend it, but the audit row it normally has keeps it out: the edges have to be repaired
  by hand.
- An item that a crash left merged without a row, and whose approval is then taken back, stays in the
  graph; the next recomputation computes policies from it if it is executable.
- `build_sqlite_sag_v2` loads the store before it hashes the files (`sqlite_sag_v2.py:522,532`), so a
  write in between leaves an index that is marked newer than its content and is never rebuilt.
- A process overtaken by a publication pins the new revision and walks the graph it loaded, and since
  plan ids are made of the ids of trace, policy and variant, changed content under unchanged ids is
  not noticed.
- A batch that died between audit and materialization is made up for only by the next batch with an
  executable item. If the process dies after all files are written and before the audit row, the
  rerun sees an unchanged graph and does not publish; the next boot of the read side does.
- A torn file stops every command until it is repaired.

### Proofs

`GraphPublication_proofs` proves the type invariant and the seven properties for any items, documents
and sources, any batches, any number of readers and crashes. Nothing is assumed of approvals, and
merges both add and purge. While W5 runs nobody else writes, so its store is what the files behind
`next` hold (`StoreIsWritten`). What has an audit row, or is about to get one, is in its store itself
or by the version that replaced it (`AuditedIsStored`): lemmas `Versions` and `MergeKeepsVersions`
say that a purge takes away one version of a document only as it puts another in. What is in its
store is audited, of this run, or was left by a crash (`StoredIsKnown`), whatever is approved by now;
so policies computed from the store are those of audited and left items (`PoliciesAreWhole`). The
store has one version of each document (`StoreIsSingle`, `MergeIsSingle`) and, as long as no crash
fell between two files, edges that fit its objects (`StoreIsValid`). Every write overtakes the
readers that live, so one that was not overtaken has seen the files as they are
(`ReadersSeeTheFiles`), and sessions served by such readers have one graph (`SessionsHaveOneGraph`).

## 6. `CaseIntake`

Before `run_w7b` a batch of episodes goes through four stages. The **case boundary** model cuts each
chunk of an episode's messages into case fragments and non-case messages; the **evidence anchor**
model assigns the messages with attachments to fragments; if both are without issues, the **atomic
manifest** isolates each fragment with its evidence, and **W2** extracts the diagnostic ones; then
the main thread builds one **case card** per fragment, from W2 or from the fragment itself. The
episodes of a batch are decided on one pool and, when all of them are, extracted on another. Every
stage reads a checkpoint of the same input or asks, and saves what the contract accepted.

State: `at[u]` and `chunk[u]`, how far episode `u` is; `cases`, `nonCase`, `anchors`, `loose`, what
its decisions hold so far; `sound`, whether boundary and anchor are without issues; `results`, what
W2 made of each atomic case; `raised`, the extractions that raised; `checkpoint`, what is on disk;
`ended`, whether the cards are built; `client` and `extractor`, whether this run has a decision model
and an extractor; `settled`, history for `ReplayBuildsTheSame`.

| action | code (`agents/write/w7_trace`) |
|---|---|
| `BoundaryRead`, `BoundaryAsk`, `BoundaryFails`, `BoundaryDisabled` | one chunk of `run_case_boundary`; no client |
| `AnchorSkips`, `AnchorRead`, `AnchorAsk`, `AnchorFails` | `run_evidence_anchor` |
| `ExtractSkips`, `ExtractRead`, `Extract`, `ExtractFails` | `extract_atomic_unit` with `extract_w7_atomic_cases` |
| `BuildCards` | the main thread from `w7a_units` to `run_w7b` |
| `RunAgain` | the process died, or the batch is run again |

`BoundaryAccepted`, `Normalized` and `AnchorAccepted` are the contracts, `RawCards`, `AtomicCards`
and `Cards` the functions that make and deduplicate cards, `HasManifest` the condition on which
`run_w7a` builds a manifest.

Abstractions. What the contracts check of an answer's text and drop from it (duplicate references,
spans, roles) is a flag, `flaw`. The ten kinds of a case are the four that the code tells apart.
An answer and its checkpoint are one step: a death between the two is a death before the answer. A
checkpoint is keyed by the values its input is hashed from. W2 makes of an atomic case a valid or an
invalid case, whose reference names the episode, or a failed candidate, whose reference is that of
the fragment alone. Episodes have ids of their own, so that cards of different episodes have one
reference only if both failed, which is a conflict and not a merge. A checkpoint directory is given,
as the pipeline does whenever it keeps its results. The union of the episodes' ledgers is left out.

### Run

`case_intake` (`CaseIntake.cfg`): two episodes of two chunks each, which share a message as W1 lets
them, one of them with an attachment; two fragment references; eight answers of which each chunk
finds some flawed, one for claiming a message and calling it a non-case; the anchors in every way; three starts, with or without model and extractor. Two
chunks are the least that makes references collide unless prefixed, and an early chunk fail while
a late one succeeds; two episodes the least in which one fails alone and two cards may have one
reference; three starts give a failure, a clean run and a replay. It checks

- `NothingIsLost`: in a batch without issues every message is evidence of a card of its own episode,
  noise, or declared non-case;
- `EveryCaseHasItsCard`: in a batch without issues every fragment to be assembled has exactly one
  card, with its messages and the attachments anchored to it, whether W2 made the card or not;
- `OnlyAccountedIsExtracted`: W2 makes cards only of episodes whose messages and attachments are all
  accounted for and none of them twice (claimed and non-case, assigned and left over), whatever
  failed in other chunks, episodes and runs, and whatever was on disk;
- `ReplayBuildsTheSame`: after a run without issues, a run with a model has none and gives the same;
- `BatchEnds`: every started batch ends. Fairness: weak, of the work as a whole, which is what the
  pools and the calls give (the client has a timeout, and an exception is caught); no answer is
  preferred, and nothing is assumed of restarts.

Seen on the way. `_raw_cards` makes cards of the fragments of a boundary with issues and leaves the
batch to be marked by `issues`, while the single-episode `run` (`orchestrator.py:1717`) uses valid
boundaries only. A message may be declared non-case and, if it has an attachment, be anchored to a
fragment too. Two failed candidates of different episodes have one reference, and the card of the
second is dropped with an issue (`batch_case_ref_conflict`).

### Proofs

`CaseIntake_proofs` proves the type invariant, `OnlyAccountedIsExtracted`, `EveryCaseHasItsCard` and
`NothingIsLost` for any number of episodes, chunks, messages, answers and starts, from assumptions
on the shape of the constants (an episode has at least one chunk, as `or [[]]` gives it, and holds a message
once, as `_episode_messages` leaves it, so that its chunks are disjoint; an answer
uses a reference once, as the contract leaves it). `IInv` follows the argument of the code: what is on
disk was accepted (`CheckpointsAreGood`), so that reading it is as good as an accepted answer; while
an episode is sound, its chunks have accounted for their rows, each once (`ChunksAreKept`), and, behind the
anchor, its attachments are accounted for (`AnchorsAreKept`); references name their chunk and do not
repeat (`RefsAreApart`); W2 has one result for each atomic case of a sound episode (`ResultsFit`).
`OneCardEach` then shows that the cards of a clean batch are the fragments, one to one.

`CaseIntakeReplay_proofs` proves `ReplayBuildsTheSame`, which relates two runs. `IInv` says that what
is on disk is good, not which of the possible answers it is; `RInv` adds that a key is written only
while nothing is saved under it, so that one input has one output (`OneEach`) and it stays
(theorem `SavedStays`), and that a sound episode holds exactly what is saved for the chunks and stages behind
it (`Held`). What a clean run ends with is then a function of the disk (`FinalCards`), and
everything it asked is saved (`Kept`, `CleanCards`). A later run of the same kind finds an answer
to every question (`NothingToAsk`), so nothing in it can fail (`Smooth`) and it ends with the cards
of the same disk.

Two theorems of `CaseIntake_proofs` say what the end of a batch rests on: `NeverStuck`, that nobody
waits at the barrier before W2 for an episode that cannot come, and `BatchesGoDown`, that every step
but a new run takes a decision off those one episode has left (`DecisionsLeft`) and gives none back.
`BatchEnds` itself is only model-checked.

## 7. Not modelled

Rendering and selection of answers, ranking, extraction from text, schema validation and the
projections of the materializer are functions of large records without control of their own. The v1
store and its ingest are superseded. Each hazard that no property covers has a note in
`PROJECT.json`.

Model-driven runtimes depend on an external service. Seen in the loop of the Codex read harness
(`adapters/codex_read/harness.py:113`): a repeated `diagnose_start`, `diagnose_step` or
`render_evidence_answer` is answered with a `skipped` record, which then stands as the latest
diagnosis, since only `rejected` is excluded (165-192); and `canonical_render_used` stays true when a
diagnosis step follows the rendering.

Out of the prover's reach and left to TLC: liveness (`SessionEnds`, `RunEnds`, `BatchEnds`). Every
other property a passing run checks is a theorem.

## 8. Plan

Built first, because a wrong step there reaches people and equipment: the dialogue with its safety
gate and the abstract dialogue it implements. Second, the gate through which the graph changes, and
the abstract gate it implements. Third, the intake of cases and the assembly of traces that the gate
is asked to approve, and the way of what was approved to the sessions. To come, in this order:

1. `SessionStore`: two processes that step the same session; today one process at a time does.
2. The tool executor's budget and cache, and the loop of the Codex and DeepSeek read harnesses.

Modules stay free of RECURSIVE operators so that all can be proved about. Where a later component
needs a run, related questions share one: bounds stay at two of everything that can race, and one
crash.
