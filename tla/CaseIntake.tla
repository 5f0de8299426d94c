------------------------------ MODULE CaseIntake ------------------------------
(* W7a and W2 over a batch of episodes, before the traces are assembled:     *)
(*   case boundary (chunk by chunk) -> evidence anchor -> atomic manifest    *)
(*   -> W2 over the atomic cases -> case cards                               *)
(* (W7BatchShadowOrchestrator.run).  The units of the batch are decided on a *)
(* thread pool and so are, once all of them are, their W2 extractions; every *)
(* stage reads its checkpoint, else asks, and writes what was accepted.  The *)
(* process may die anywhere, and the batch be run again.                     *)
(*                                                                           *)
(* A unit is a number (its place in the batch), an episode of its own.  What *)
(* the models and W2 say is any answer; "flaw" stands for what the contract  *)
(* checks of its text and drops from it (duplicate references, bad spans).   *)
EXTENDS Integers, Sequences, FiniteSets

CONSTANTS
    NUnit,      \* number of episodes in the batch
    Message,    \* message ids
    Rows,       \* Rows[u][i]: the messages of the i-th boundary chunk of u;
                \* an episode holds a message once (_episode_messages)
    Evidence,   \* Evidence[u]: its messages that carry attachments or media
    Ref,        \* fragment references a model may use
    Reply,      \* what the boundary model may say of a chunk
    MaxRuns     \* bound: times the batch is started

Unit == 1..NUnit

\* CASE_KINDS, one kind of each sort the code tells apart.
Kind     == {"diagnostic_case", "field_work_report", "coordination_only", "noise"}
Atomic   == {"diagnostic_case"}     \* W2_ATOMIC_CASE_KINDS
Assembly == Kind \ {"noise"}        \* TRACE_ASSEMBLY_CASE_KINDS

FragmentOf(R) == [ref : R, kind : Kind, messages : SUBSET Message]
MessagesOf(u) == UNION {Rows[u][i] : i \in DOMAIN Rows[u]}

ASSUME UnitAssumption == NUnit \in Nat \ {0} /\ MaxRuns \in Nat \ {0}
ASSUME RowsAssumption ==
    /\ Rows \in [Unit -> Seq(SUBSET Message)]
    /\ \A u \in Unit :
        /\ Len(Rows[u]) > 0
        /\ \A i, j \in DOMAIN Rows[u] : i # j => Rows[u][i] \cap Rows[u][j] = {}
ASSUME EvidenceAssumption ==
    /\ Evidence \in [Unit -> SUBSET Message]
    /\ \A u \in Unit : Evidence[u] \subseteq MessagesOf(u)
ASSUME ReplyAssumption ==
    /\ Reply \subseteq [cases : SUBSET FragmentOf(Ref), nonCase : SUBSET Message,
                       flaw : BOOLEAN]
    /\ \A r \in Reply : \A c, d \in r.cases : c.ref = d.ref => c = d

NoRef == <<0, "unknown">>   \* a reference to a fragment that does not exist
Outcome == {"case", "invalid", "failed"}    \* of W2 on an atomic case

VARIABLES
    client,     \* is a decision model configured in this run
    extractor,  \* is an atomic extractor configured in this run
    at,         \* unit -> the stage it is at
    chunk,      \* unit -> boundary chunks decided
    cases,      \* unit -> case fragments so far
    nonCase,    \* unit -> messages declared non-case so far
    sound,      \* unit -> no boundary or anchor issue so far
    anchors,    \* unit -> <<evidence message, fragment reference>>
    loose,      \* unit -> unassigned evidence messages
    results,    \* unit -> <<fragment reference, outcome>> of W2
    raised,     \* units whose extraction raised
    checkpoint, \* stage -> set of <<input, output>> on disk
    ended,      \* have the cards been built
    runs,       \* times the batch was started
    settled     \* history: extractor -> the cards of the first clean run

decided == <<cases, nonCase, sound, anchors, loose>>
setup   == <<client, extractor, runs>>
vars    == <<at, chunk, decided, results, raised, checkpoint, ended, setup, settled>>

-----------------------------------------------------------------------------
(* The contracts                                                            *)

Claimed(cs) == UNION {c.messages : c \in cs}

\* Mutant of BoundaryAccepted: a message may be left unaccounted.
BoundaryAcceptsGaps(r, rows) ==
    /\ ~r.flaw
    /\ Claimed(r.cases) \cup r.nonCase \subseteq rows
    /\ Claimed(r.cases) \cap r.nonCase = {}
    /\ \A c \in r.cases :
        c.messages = {} => c.kind \in {"coordination_only", "noise"}

\* Mutant of BoundaryAccepted: message_case_and_non_case is not reported.
BoundaryAcceptsBoth(r, rows) ==
    /\ ~r.flaw
    /\ Claimed(r.cases) \cup r.nonCase = rows
    /\ \A c \in r.cases :
        c.messages = {} => c.kind \in {"coordination_only", "noise"}

\* validate_case_boundary_decision finds no issue: only known messages, every
\* one of them in a case or a non-case, none in both.
BoundaryAccepted(r, rows) ==
    /\ ~r.flaw
    /\ Claimed(r.cases) \cup r.nonCase = rows
    /\ Claimed(r.cases) \cap r.nonCase = {}
    /\ \A c \in r.cases :
        c.messages = {} => c.kind \in {"coordination_only", "noise"}

\* Mutant of Normalized: what is reported as unknown is kept.
NormalizedKeepsUnknown(r, rows) == [cases |-> r.cases, nonCase |-> r.nonCase]

\* What it keeps of an answer.
Normalized(r, rows) ==
    [cases   |-> {[c EXCEPT !.messages = @ \cap rows] : c \in r.cases},
     nonCase |-> r.nonCase \cap rows]

Refs(cs) == {c.ref : c \in cs}

\* validate_evidence_anchor_decision finds no issue: every candidate is
\* assigned to a fragment or left unassigned, not both.
AnchorAccepted(a, evidence, refs) ==
    /\ ~a.flaw
    /\ {p[1] : p \in a.to} \cup a.loose = evidence
    /\ {p[1] : p \in a.to} \cap a.loose = {}
    /\ {p[2] : p \in a.to} \subseteq refs

\* Its answers after the normalization: one fragment per message.
AnchorReply(evidence, refs) ==
    {a \in [to : SUBSET (evidence \X (refs \cup {NoRef})),
            loose : SUBSET evidence, flaw : BOOLEAN] :
        \A p, q \in a.to : p[1] = q[1] => p = q}

-----------------------------------------------------------------------------
(* Fragments, manifests and cards                                           *)

\* prefix = B001- if there is more than one chunk
Prefixed(u, i, r) == <<IF Len(Rows[u]) > 1 THEN i ELSE 0, r>>

Referenced(u, i, c) == [c EXCEPT !.ref = Prefixed(u, i, @)]

\* run_w7a: the adapter runs on valid decisions only.
HasManifest(u) == sound[u]

\* source_message_ids and the anchored evidence of a fragment
Selected(u, c) == c.messages \cup {p[1] : p \in {q \in anchors[u] : q[2] = c.ref}}

\* The hash of the manifest covers all of this.
Manifest(u) == <<u, cases[u], nonCase[u], anchors[u], loose[u]>>

\* w2_atomic_episodes
AtomicCases(u) == {c \in cases[u] : c.kind \in Atomic}

Card(u, c, ref) ==
    [ref |-> ref, unit |-> u, fragment |-> c.ref, kind |-> c.kind,
     evidence |-> Selected(u, c)]

\* case_ref of w7_case_cards_from_w2_candidates: the id of the source case,
\* which names thread and episode, or else the reference of the fragment.
CaseRef(u, c, outcome) ==
    IF outcome = "failed" THEN <<"fragment", 0, c.ref>> ELSE <<"case", u, c.ref>>

AtomicCards(u) ==
    UNION {{Card(u, c, CaseRef(u, c, p[2])) : p \in {q \in results[u] : q[1] = c.ref}} :
            c \in AtomicCases(u)}

\* Mutant of RawCards: the anchored evidence is left behind.
RawCardsUnanchored(u) ==
    {[Card(u, c, <<"raw", u, c.ref>>) EXCEPT !.evidence = c.messages] : c \in
        {c \in cases[u] : c.kind \in Assembly
                          /\ (extractor => c.kind \notin Atomic)}}

\* _raw_cards: made of whatever the boundary left, valid or not.
RawCards(u) ==
    {Card(u, c, <<"raw", u, c.ref>>) : c \in
        {c \in cases[u] : c.kind \in Assembly
                          /\ (extractor => c.kind \notin Atomic)}}

AllCards == UNION {AtomicCards(u) \cup RawCards(u) : u \in Unit}

\* _dedupe_cards: of two cards with one reference the first unit's is kept.
Cards == {c \in AllCards : ~\E d \in AllCards : d.ref = c.ref /\ d.unit < c.unit}

\* Mutant of Clean: what W2 could not make a case of is no issue.
CleanWithoutW2 ==
    /\ \A u \in Unit : sound[u]
    /\ Cards = AllCards

\* issues = [] before the traces are assembled
Clean ==
    /\ \A u \in Unit : sound[u]
    /\ raised = {}
    /\ \A u \in Unit : \A p \in results[u] : p[2] = "case"
    /\ Cards = AllCards

-----------------------------------------------------------------------------
(* A run of the batch                                                       *)

Start ==
    /\ client' \in BOOLEAN
    /\ extractor' \in BOOLEAN
    /\ at' = [u \in Unit |-> "boundary"]
    /\ chunk' = [u \in Unit |-> 0]
    /\ cases' = [u \in Unit |-> {}]
    /\ nonCase' = [u \in Unit |-> {}]
    /\ sound' = [u \in Unit |-> TRUE]
    /\ anchors' = [u \in Unit |-> {}]
    /\ loose' = [u \in Unit |-> {}]
    /\ results' = [u \in Unit |-> {}]
    /\ raised' = {}
    /\ ended' = FALSE

Init ==
    /\ client \in BOOLEAN
    /\ extractor \in BOOLEAN
    /\ at = [u \in Unit |-> "boundary"]
    /\ chunk = [u \in Unit |-> 0]
    /\ cases = [u \in Unit |-> {}]
    /\ nonCase = [u \in Unit |-> {}]
    /\ sound = [u \in Unit |-> TRUE]
    /\ anchors = [u \in Unit |-> {}]
    /\ loose = [u \in Unit |-> {}]
    /\ results = [u \in Unit |-> {}]
    /\ raised = {}
    /\ ended = FALSE
    /\ checkpoint = [s \in {"boundary", "anchor", "w2"} |-> {}]
    /\ runs = 1
    /\ settled = [e \in BOOLEAN |-> {}]

Saved(stage, input) == {x \in checkpoint[stage] : x[1] = input}

Save(stage, input, output) ==
    checkpoint' = [checkpoint EXCEPT ![stage] = @ \cup {<<input, output>>}]

\* One chunk of unit u is decided: decision d, with or without issues.
Combine(u, d, ok) ==
    /\ chunk' = [chunk EXCEPT ![u] = @ + 1]
    /\ at' = [at EXCEPT ![u] = IF chunk[u] + 1 = Len(Rows[u]) THEN "anchor" ELSE @]
    /\ cases' = [cases EXCEPT ![u] = @ \cup
                    {Referenced(u, chunk[u] + 1, c) : c \in d.cases}]
    /\ nonCase' = [nonCase EXCEPT ![u] = @ \cup d.nonCase]
    /\ sound' = [sound EXCEPT ![u] = @ /\ ok]
    /\ UNCHANGED <<anchors, loose, results, raised, ended, setup, settled>>

\* checkpoints.read of the next chunk: a decision without issues.
BoundaryRead(u) ==
    /\ client /\ at[u] = "boundary"
    /\ \E x \in Saved("boundary", <<u, chunk[u] + 1>>) : Combine(u, x[2], TRUE)
    /\ UNCHANGED checkpoint

\* The model answers; with issues the decision is used but not saved.
BoundaryAsk(u) ==
    /\ client /\ at[u] = "boundary"
    /\ Saved("boundary", <<u, chunk[u] + 1>>) = {}
    /\ \E r \in Reply :
        LET rows == Rows[u][chunk[u] + 1]
            d    == Normalized(r, rows)
        IN  /\ Combine(u, d, BoundaryAccepted(r, rows))
            /\ IF BoundaryAccepted(r, rows)
               THEN Save("boundary", <<u, chunk[u] + 1>>, d)
               ELSE UNCHANGED checkpoint

\* The call raises: an empty decision with an issue.
BoundaryFails(u) ==
    /\ client /\ at[u] = "boundary"
    /\ Saved("boundary", <<u, chunk[u] + 1>>) = {}
    /\ Combine(u, [cases |-> {}, nonCase |-> {}], FALSE)
    /\ UNCHANGED checkpoint

\* model_disabled: no chunk is looked at.
BoundaryDisabled(u) ==
    /\ ~client /\ at[u] = "boundary"
    /\ at' = [at EXCEPT ![u] = "anchor"]
    /\ sound' = [sound EXCEPT ![u] = FALSE]
    /\ UNCHANGED <<chunk, cases, nonCase, anchors, loose, results, raised,
                   checkpoint, ended, setup, settled>>

\* The anchors of unit u are decided.
Anchor(u, a, ok) ==
    /\ at' = [at EXCEPT ![u] = "w2"]
    /\ anchors' = [anchors EXCEPT ![u] = a.to]
    /\ loose' = [loose EXCEPT ![u] = a.loose]
    /\ sound' = [sound EXCEPT ![u] = @ /\ ok]
    /\ UNCHANGED <<chunk, cases, nonCase, results, raised, ended, setup, settled>>

NoAnchors == [to |-> {}, loose |-> {}]

\* Mutant of AnchorSkips: an invalid boundary waits for a valid one.
AnchorSkipsEmptyOnly(u) ==
    /\ at[u] = "anchor"
    /\ Evidence[u] = {}
    /\ Anchor(u, NoAnchors, sound[u])
    /\ UNCHANGED checkpoint

\* No attachment is a valid end, an invalid boundary is not asked about.
AnchorSkips(u) ==
    /\ at[u] = "anchor"
    /\ Evidence[u] = {} \/ ~sound[u]
    /\ Anchor(u, NoAnchors, sound[u])
    /\ UNCHANGED checkpoint

\* The input of the stage: the ledger, the boundary and the candidates.
AnchorInput(u) == <<u, cases[u], nonCase[u]>>

MustAnchor(u) == at[u] = "anchor" /\ Evidence[u] # {} /\ sound[u]

AnchorRead(u) ==
    /\ MustAnchor(u)
    /\ \E x \in Saved("anchor", AnchorInput(u)) : Anchor(u, x[2], TRUE)
    /\ UNCHANGED checkpoint

AnchorAsk(u) ==
    /\ MustAnchor(u)
    /\ Saved("anchor", AnchorInput(u)) = {}
    /\ \E a \in AnchorReply(Evidence[u], Refs(cases[u])) :
        LET ok == AnchorAccepted(a, Evidence[u], Refs(cases[u]))
            d  == [to |-> a.to, loose |-> a.loose]
        IN  /\ Anchor(u, d, ok)
            /\ IF ok THEN Save("anchor", AnchorInput(u), d) ELSE UNCHANGED checkpoint

AnchorFails(u) ==
    /\ MustAnchor(u)
    /\ Saved("anchor", AnchorInput(u)) = {}
    /\ Anchor(u, NoAnchors, FALSE)
    /\ UNCHANGED checkpoint

\* list(executor.map(run_w7a_unit, ...)): every unit is decided.
AllDecided == \A u \in Unit : at[u] \in {"w2", "done"}

MustExtract(u) == at[u] = "w2" /\ AllDecided /\ extractor /\ HasManifest(u)

\* W2 is done with unit u.
Extracted(u, found) ==
    /\ at' = [at EXCEPT ![u] = "done"]
    /\ results' = [results EXCEPT ![u] = found]
    /\ UNCHANGED <<chunk, decided, ended, setup, settled>>

ExtractSkips(u) ==
    /\ at[u] = "w2" /\ AllDecided
    /\ ~(extractor /\ HasManifest(u))
    /\ Extracted(u, {})
    /\ UNCHANGED <<raised, checkpoint>>

ExtractRead(u) ==
    /\ MustExtract(u)
    /\ \E x \in Saved("w2", Manifest(u)) : Extracted(u, x[2])
    /\ UNCHANGED <<raised, checkpoint>>

\* extract_w7_atomic_cases: a case that cannot be extracted fails alone; a
\* result is saved when all its candidates are valid.
Extract(u) ==
    /\ MustExtract(u)
    /\ Saved("w2", Manifest(u)) = {}
    /\ \E outcome \in [Refs(AtomicCases(u)) -> Outcome] :
        LET found == {<<r, outcome[r]>> : r \in Refs(AtomicCases(u))}
        IN  /\ Extracted(u, found)
            /\ IF \A p \in found : p[2] = "case"
               THEN Save("w2", Manifest(u), found)
               ELSE UNCHANGED checkpoint
    /\ UNCHANGED raised

ExtractFails(u) ==
    /\ MustExtract(u)
    /\ Saved("w2", Manifest(u)) = {}
    /\ Extracted(u, {})
    /\ raised' = raised \cup {u}
    /\ UNCHANGED checkpoint

\* The main thread collects the cards and goes on to run_w7b.
BuildCards ==
    /\ ~ended
    /\ \A u \in Unit : at[u] = "done"
    /\ ended' = TRUE
    /\ settled' = IF Clean /\ settled[extractor] = {}
                  THEN [settled EXCEPT ![extractor] = {Cards}] ELSE settled
    /\ UNCHANGED <<at, chunk, decided, results, raised, checkpoint, setup>>

\* The process died, or the batch is run again: only checkpoints are left.
RunAgain ==
    /\ runs < MaxRuns
    /\ runs' = runs + 1
    /\ Start
    /\ UNCHANGED <<checkpoint, settled>>

Decide(u) ==
    \/ BoundaryRead(u) \/ BoundaryAsk(u) \/ BoundaryFails(u) \/ BoundaryDisabled(u)
    \/ AnchorSkips(u) \/ AnchorRead(u) \/ AnchorAsk(u) \/ AnchorFails(u)
    \/ ExtractSkips(u) \/ ExtractRead(u) \/ Extract(u) \/ ExtractFails(u)

Work == BuildCards \/ \E u \in Unit : Decide(u)

Next == Work \/ RunAgain

\* A call to a model or to W2 returns or raises, and the pool runs.
Spec == Init /\ [][Next]_vars /\ WF_vars(Work)

-----------------------------------------------------------------------------
(* Properties                                                               *)

TypeOK ==
    /\ client \in BOOLEAN
    /\ extractor \in BOOLEAN
    /\ at \in [Unit -> {"boundary", "anchor", "w2", "done"}]
    /\ chunk \in [Unit -> Nat]
    /\ cases \in [Unit -> SUBSET FragmentOf(Nat \X Ref)]
    /\ nonCase \in [Unit -> SUBSET Message]
    /\ sound \in [Unit -> BOOLEAN]
    /\ anchors \in [Unit -> SUBSET (Message \X ((Nat \X Ref) \cup {NoRef}))]
    /\ loose \in [Unit -> SUBSET Message]
    /\ results \in [Unit -> SUBSET ((Nat \X Ref) \X Outcome)]
    /\ raised \subseteq Unit
    /\ ended \in BOOLEAN
    /\ runs \in 1..MaxRuns
    /\ \A u \in Unit :
        /\ chunk[u] <= Len(Rows[u])
        /\ Claimed(cases[u]) \cup nonCase[u] \subseteq MessagesOf(u)

\* Every message of unit u is claimed by fragments or declared non-case, not
\* both; every attachment is assigned to a fragment of u or left loose, not both.
Accounted(u) ==
    /\ Claimed(cases[u]) \cup nonCase[u] = MessagesOf(u)
    /\ Claimed(cases[u]) \cap nonCase[u] = {}
    /\ {p[1] : p \in anchors[u]} \cup loose[u] = Evidence[u]
    /\ {p[1] : p \in anchors[u]} \cap loose[u] = {}
    /\ {p[2] : p \in anchors[u]} \subseteq Refs(cases[u])

\* A batch that reports no issue lost nothing: every message of every episode
\* is evidence of a card of that episode, or the models put it aside.
NothingIsLost ==
    ended /\ Clean =>
        \A u \in Unit : \A m \in MessagesOf(u) :
            \/ \E c \in Cards : c.unit = u /\ m \in c.evidence
            \/ \E c \in cases[u] : c.kind = "noise" /\ m \in c.messages
            \/ m \in nonCase[u]

\* A batch that reports no issue has exactly one card for every fragment that
\* is to be assembled, with its messages and its anchored evidence.
EveryCaseHasItsCard ==
    ended /\ Clean =>
        \A u \in Unit : \A f \in {c \in cases[u] : c.kind \in Assembly} :
            \E c \in Cards :
                /\ c.unit = u /\ c.fragment = f.ref /\ c.kind = f.kind
                /\ c.evidence = f.messages \cup
                       {m \in Evidence[u] : <<m, f.ref>> \in anchors[u]}
                /\ \A d \in Cards : d.unit = u /\ d.fragment = f.ref => d = c

\* When W2 makes the cards of the diagnostic kinds, they come from episodes
\* whose messages and attachments are all accounted for, none of them twice,
\* whatever failed in other chunks, episodes or runs: a decision with issues
\* is not extracted.
OnlyAccountedIsExtracted ==
    extractor => \A u \in Unit : AtomicCards(u) # {} => Accounted(u)

\* Once a run of the batch reported no issue, later runs of it report none
\* and build the same cards, whatever died or failed in between.
ReplayBuildsTheSame ==
    ended /\ client /\ settled[extractor] # {} =>
        Clean /\ settled[extractor] = {Cards}

\* Every run ends: no failure in one unit keeps the others waiting.
BatchEnds == []<>ended
=============================================================================
