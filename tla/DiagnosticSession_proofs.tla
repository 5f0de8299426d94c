---------------------- MODULE DiagnosticSession_proofs ----------------------
(***************************************************************************)
(* Theorems about DiagnosticSession, for every plan, rule set, message set *)
(* and bound.  The safety invariants follow from one inductive invariant:  *)
(* every record of the session, in memory or in the file, is Sound.        *)
(***************************************************************************)
EXTENDS DiagnosticSession, TLAPS

\* What is true of a record whose next action is about to be presented: no
\* question is pending and no unsafe action was presented unconfirmed.
Walking(s) ==
    /\ s \in Session
    /\ s.variant \in Variant
    /\ s.index + 1 \in DOMAIN Plan[s.variant]
    /\ s.pending = NoAction
    /\ s.branching = NoAction
    /\ ConfirmRequired => s.presented \cap Unsafe \subseteq s.confirmed
    /\ s.query \subseteq s.processed

\* A confirmed action was presented.
Settled(s) == ConfirmRequired => s.confirmed \subseteq s.presented \cap Unsafe

Positioned(s) ==
    IF s.variant = NoVariant
    THEN s.current = NoAction /\ s.pending = NoAction /\ s.branching = NoAction
    ELSE s.index + 1 \in DOMAIN Plan[s.variant]

Gated(s) ==
    ConfirmRequired => /\ s.presented \cap Unsafe \subseteq s.confirmed
                       /\ s.confirmed \subseteq s.presented \cap Unsafe

Asking(s) ==
    /\ s.pending # NoAction =>
           /\ ConfirmRequired
           /\ s.pending \in Unsafe
           /\ s.branching = NoAction
           /\ s.current = s.pending
           /\ s.status \notin {"step", "resolved"}
    /\ s.branching # NoAction => s.current = s.branching /\ s.branching \in s.presented

\* The action a session stands at was presented, unless its confirmation is
\* pending or it was refused and the plan ended there.
Standing(s) ==
    /\ s.current # NoAction /\ s.current # s.pending /\ s.status # "escalate" =>
           s.current \in s.presented /\ s.current = Plan[s.variant][s.index + 1]
    /\ s.status \in {"step", "resolved"} /\ s.variant # NoVariant =>
           s.current # NoAction

Resolution(s) ==
    s.status = "resolved" => s.resolved \in s.presented \cap s.answered \cap VerifiedFix

Sound(s) ==
    /\ s \in Session
    /\ Positioned(s)
    /\ Gated(s)
    /\ Asking(s)
    /\ Standing(s)
    /\ Resolution(s)
    /\ s.query \subseteq s.processed

InTime(s) == s.turn_count >= MaxTurns => s.status \in Closed

Fit(s) == Sound(s) /\ InTime(s)

\* The inductive invariant.
Kept ==
    /\ mem # NoSession => Fit(mem)
    /\ disk \notin {Absent, Corrupt} => Fit(disk)
    /\ crashes \in 0 .. MaxCrashes
IInv ==
    /\ graph \in Revision
    /\ heard \in Message \cup {NoMessage}
    /\ starts \in 0 .. MaxStarts
    /\ Kept
-----------------------------------------------------------------------------
USE PlanAssumption, ConfigAssumption, AbsentAssumption

\* The actions of a plan are actions.
LEMMA PlanActions ==
    ASSUME NEW v \in Variant, NEW i \in DOMAIN Plan[v]
    PROVE  Plan[v][i] \in Action /\ i \in Nat \ {0}
  OBVIOUS

\* Presenting an action that may be presented leaves a sound record.
LEMMA ShowSound ==
    ASSUME NEW s, Walking(s),
           NEW i \in DOMAIN Plan[s.variant],
           ConfirmRequired =>
               /\ s.confirmed \subseteq (s.presented \cup {Plan[s.variant][i]}) \cap Unsafe
               /\ Plan[s.variant][i] \in Unsafe => Plan[s.variant][i] \in s.confirmed
    PROVE  Sound(Show(s, i)) /\ Show(s, i).turn_count = s.turn_count
  <1> DEFINE t == Show(s, i)
             a == Plan[s.variant][i]
  <1>0. a \in Action /\ i \in Nat \ {0} /\ i - 1 \in Nat /\ (i - 1) + 1 = i
    BY PlanActions DEF Walking
  <1>1. t \in Session
    BY <1>0 DEF Show, Session, Walking, Status, Failure
  <1>2. /\ t.variant = s.variant /\ t.index = i - 1 /\ t.current = a
        /\ t.presented = s.presented \cup {a} /\ t.confirmed = s.confirmed
        /\ t.pending = NoAction /\ t.branching = NoAction /\ t.status = "step"
        /\ t.query = s.query /\ t.processed = s.processed
        /\ t.turn_count = s.turn_count
    BY DEF Show, Session, Walking
  <1>3. Positioned(t)
    BY <1>0, <1>2 DEF Positioned, Walking
  <1>4. Gated(t)
    BY <1>2 DEF Gated, Walking
  <1>5. Asking(t) /\ Standing(t) /\ Resolution(t)
    BY <1>0, <1>2 DEF Asking, Standing, Resolution
  <1> QED
    BY <1>1, <1>2, <1>3, <1>4, <1>5 DEF Sound, Walking

\* Asking for the confirmation of an action leaves a sound record.
LEMMA AskConfirmationSound ==
    ASSUME NEW s, Walking(s), Settled(s),
           NEW i \in DOMAIN Plan[s.variant],
           NeedsConfirmation(s, Plan[s.variant][i])
    PROVE  /\ Sound(AskConfirmation(s, i))
           /\ AskConfirmation(s, i).turn_count = s.turn_count
  <1> DEFINE t == AskConfirmation(s, i)
             a == Plan[s.variant][i]
  <1>0. a \in Action
    BY PlanActions DEF Walking
  <1>1. t \in Session
    BY <1>0 DEF AskConfirmation, Session, Walking, Status, Question
  <1>2. /\ t.variant = s.variant /\ t.index = s.index /\ t.current = a
        /\ t.presented = s.presented /\ t.confirmed = s.confirmed
        /\ t.pending = a /\ t.branching = NoAction /\ t.status = "ask_info"
        /\ t.query = s.query /\ t.processed = s.processed
        /\ t.turn_count = s.turn_count
    BY DEF AskConfirmation, Session, Walking
  <1>3. Positioned(t)
    BY <1>2 DEF Positioned, Walking
  <1>4. Gated(t)
    BY <1>2 DEF Gated, Walking, Settled
  <1>5. Asking(t) /\ Standing(t) /\ Resolution(t)
    BY <1>0, <1>2 DEF Asking, Standing, Resolution, NeedsConfirmation
  <1> QED
    BY <1>1, <1>2, <1>3, <1>4, <1>5 DEF Sound, Walking

\* _present_step: either way the safety gate holds.
LEMMA PresentSound ==
    ASSUME NEW s, Walking(s), Settled(s),
           NEW i \in DOMAIN Plan[s.variant]
    PROVE  Sound(Present(s, i)) /\ Present(s, i).turn_count = s.turn_count
  <1> DEFINE a == Plan[s.variant][i]
  <1>1. CASE NeedsConfirmation(s, a)
    BY <1>1, AskConfirmationSound DEF Present
  <1>2. CASE ~NeedsConfirmation(s, a)
    <2>1. ConfirmRequired =>
              /\ s.confirmed \subseteq (s.presented \cup {a}) \cap Unsafe
              /\ a \in Unsafe => a \in s.confirmed
      BY <1>2 DEF NeedsConfirmation, Settled
    <2>2. Sound(Show(s, i)) /\ Show(s, i).turn_count = s.turn_count
      BY <2>1, ShowSound
    <2> QED
      BY <1>2, <2>2 DEF Present
  <1> QED
    BY <1>1, <1>2

\* _escalate closes a record from which nothing is pending or resolved.
LEMMA EscalateSound ==
    ASSUME NEW s, s \in Session, Positioned(s), Gated(s), Asking(s),
           s.query \subseteq s.processed,
           NEW reason \in Failure
    PROVE  /\ Sound(Escalate(s, reason))
           /\ Escalate(s, reason).turn_count = s.turn_count
           /\ Escalate(s, reason).status = "escalate"
  <1> DEFINE t == Escalate(s, reason)
  <1>1. t \in Session
    BY DEF Escalate, Session, Status
  <1>2. /\ t.variant = s.variant /\ t.index = s.index /\ t.current = s.current
        /\ t.presented = s.presented /\ t.confirmed = s.confirmed
        /\ t.pending = s.pending /\ t.branching = s.branching /\ t.status = "escalate"
        /\ t.query = s.query /\ t.processed = s.processed
        /\ t.turn_count = s.turn_count
    BY DEF Escalate, Session
  <1>3. Positioned(t)
    BY <1>2 DEF Positioned
  <1>4. Gated(t)
    BY <1>2 DEF Gated
  <1>5. Asking(t)
    BY <1>2 DEF Asking
  <1>6. Standing(t) /\ Resolution(t)
    BY <1>2 DEF Standing, Resolution
  <1> QED
    BY <1>1, <1>2, <1>3, <1>4, <1>5, <1>6 DEF Sound

\* A walking record can be escalated.
LEMMA WalkingEscalates ==
    ASSUME NEW s, Walking(s), Settled(s), NEW reason \in Failure
    PROVE  Sound(Escalate(s, reason)) /\ Escalate(s, reason).turn_count = s.turn_count
  <1>1. Positioned(s) /\ Gated(s) /\ Asking(s)
    BY DEF Walking, Settled, Positioned, Gated, Asking
  <1> QED
    BY <1>1, EscalateSound DEF Walking

\* A jump to an action of the plan, or the escalation if there is none.
LEMMA PresentActionSound ==
    ASSUME NEW s, Walking(s), Settled(s), NEW a, NEW reason \in Failure,
           NEW t \in PresentAction(s, a, reason)
    PROVE  Sound(t) /\ t.turn_count = s.turn_count
  <1>1. CASE InPlan(s, a)
    <2>1. PICK i \in Positions(s, a) : t = Present(s, i)
      BY <1>1 DEF PresentAction
    <2> QED
      BY <2>1, PresentSound DEF Positions
  <1>2. CASE ~InPlan(s, a)
    BY <1>2, WalkingEscalates DEF PresentAction
  <1> QED
    BY <1>1, <1>2

\* _advance: the next action of the plan is presented, or the plan is exhausted.
LEMMA AdvanceSound ==
    ASSUME NEW s, Walking(s), Settled(s), s.current \in Action,
           NEW t \in Advance(s)
    PROVE  Sound(t) /\ t.turn_count = s.turn_count
  <1> DEFINE u == [s EXCEPT !.ruled_out = @ \cup {s.current}]
             later == {i \in DOMAIN Plan[s.variant] :
                           i > s.index + 1 /\ Plan[s.variant][i] \notin u.ruled_out}
  <1>1. u \in Session
    BY DEF Walking, Session
  <1>2. /\ u.variant = s.variant /\ u.index = s.index
        /\ u.presented = s.presented /\ u.confirmed = s.confirmed
        /\ u.pending = s.pending /\ u.branching = s.branching
        /\ u.query = s.query /\ u.processed = s.processed
        /\ u.turn_count = s.turn_count
    BY DEF Walking, Session
  <1>3. Walking(u) /\ Settled(u)
    BY <1>1, <1>2 DEF Walking, Settled
  <1>4. CASE later = {}
    <2>1. t = Escalate(u, "kg_v2_plan_exhausted")
      BY <1>4 DEF Advance
    <2>2. "kg_v2_plan_exhausted" \in Failure
      BY DEF Failure
    <2> QED
      BY <1>2, <1>3, <2>1, <2>2, WalkingEscalates
  <1>5. CASE later # {}
    <2>1. PICK i \in later : t = Present(u, i)
      BY <1>5 DEF Advance
    <2>2. i \in DOMAIN Plan[u.variant]
      BY <1>2, <2>1
    <2> QED
      BY <1>2, <1>3, <2>1, <2>2, PresentSound
  <1> QED
    BY <1>4, <1>5
-----------------------------------------------------------------------------
\* The record that create makes.
LEMMA FreshSound ==
    Sound(Fresh) /\ Fresh.turn_count = 0
  <1>1. Fresh \in Session
    BY DEF Fresh, Session, Status, Lock, Question, NoQuestion, Failure, Outcome, NoOutcome
  <1>2. Positioned(Fresh) /\ Gated(Fresh) /\ Asking(Fresh)
    BY DEF Fresh, Positioned, Gated, Asking
  <1>3. Standing(Fresh) /\ Resolution(Fresh)
    BY DEF Fresh, Standing, Resolution
  <1>4. Fresh.query \subseteq Fresh.processed /\ Fresh.turn_count = 0
    BY DEF Fresh
  <1> QED
    BY <1>1, <1>2, <1>3, <1>4 DEF Sound

\* A record whose diagnosis was reset, with the evidence and the turns of s.
Blank(u, s) ==
    /\ u \in Session
    /\ u.status = "step" /\ u.index = 0 /\ u.current = NoAction
    /\ u.pending = NoAction /\ u.branching = NoAction
    /\ u.presented = {} /\ u.confirmed = {}
    /\ u.query = s.query /\ u.processed = s.processed
    /\ u.turn_count = s.turn_count

\* _reset_diagnosis_state
LEMMA ResetBlank ==
    ASSUME graph \in Revision, NEW s, s \in Session
    PROVE  Blank(Reset(s), s) /\ Reset(s).variant = NoVariant
  <1>1. /\ Fresh.status = "step" /\ Fresh.index = 0 /\ Fresh.current = NoAction
        /\ Fresh.pending = NoAction /\ Fresh.branching = NoAction
        /\ Fresh.presented = {} /\ Fresh.confirmed = {}
        /\ Fresh.variant = NoVariant
    BY DEF Fresh
  <1>2. Fresh \in Session
    BY FreshSound DEF Sound
  <1>3. Reset(s) \in Session
    BY <1>2, ZenonT(60) DEF Reset, Session
  <1> QED
    BY <1>1, <1>2, <1>3 DEF Reset, Session, Blank

\* A question asked before any action is presented.
LEMMA AskSound ==
    ASSUME NEW s, s.query \subseteq s.processed, NEW u, Blank(u, s),
           u.variant = NoVariant \/ 1 \in DOMAIN Plan[u.variant],
           NEW question \in Question, NEW reason \in Failure
    PROVE  /\ Sound(Ask(u, question, reason))
           /\ Ask(u, question, reason).turn_count = s.turn_count
  <1> DEFINE w == Ask(u, question, reason)
  <1>1. w \in Session
    BY DEF Ask, Session, Status, Blank
  <1>2. /\ w.variant = u.variant /\ w.status = "ask_info"
        /\ w.presented = {} /\ w.confirmed = {}
        /\ w.pending = NoAction /\ w.branching = NoAction
        /\ w.current = NoAction /\ w.index = 0
        /\ w.query = s.query /\ w.processed = s.processed
        /\ w.turn_count = s.turn_count
    BY DEF Ask, Session, Blank
  <1>3. Positioned(w) /\ Gated(w) /\ Asking(w)
    BY <1>2 DEF Positioned, Gated, Asking
  <1>4. Standing(w) /\ Resolution(w)
    BY <1>2 DEF Standing, Resolution
  <1> QED
    BY <1>1, <1>2, <1>3, <1>4 DEF Sound

\* The lock and the variant of a record are replaced by others.
LEMMA LockSession ==
    ASSUME NEW u, u \in Session, NEW lock \in Lock
    PROVE  [u EXCEPT !.lock = lock] \in Session
  BY DEF Session

LEMMA BindSession ==
    ASSUME NEW u, u \in Session, NEW v \in Variant
    PROVE  Bind(u, v) \in Session
  <1>1. [u EXCEPT !.variant = v] \in Session
    BY DEF Session
  <1>2. [[u EXCEPT !.variant = v] EXCEPT !.lock = "kg_v2_locked"] \in Session
    BY <1>1, LockSession DEF Lock
  <1> QED
    BY <1>2 DEF Bind

\* _bind_candidate and _bind_plan: a variant has a first action.
LEMMA BindBlank ==
    ASSUME NEW s, NEW u, Blank(u, s), NEW v \in Variant
    PROVE  /\ Blank(Bind(u, v), s)
           /\ Bind(u, v).variant = v
           /\ 1 \in DOMAIN Plan[Bind(u, v).variant]
  <1>1. Bind(u, v) \in Session
    BY BindSession DEF Blank
  <1>2. Blank(Bind(u, v), s) /\ Bind(u, v).variant = v
    BY <1>1 DEF Bind, Session, Blank
  <1>3. Plan[v] \in Seq(Action) /\ Plan[v] # << >>
    OBVIOUS
  <1>4. 1 \in DOMAIN Plan[v]
    BY <1>3
  <1> QED
    BY <1>2, <1>4

\* _start_state leaves a sound record, whatever the record it starts from, if
\* its evidence is recorded.
LEMMA StartStateSound ==
    ASSUME graph \in Revision,
           NEW s, s \in Session, s.query \subseteq s.processed,
           NEW t \in StartState(s)
    PROVE  Sound(t) /\ t.turn_count = s.turn_count
  <1> DEFINE r == Reset(s)
             document == [r EXCEPT !.lock = "document_answer_only"]
  <1>1. Blank(r, s) /\ r.variant = NoVariant
    BY ResetBlank
  <1> HIDE DEF r
  <1>2. Blank(document, s) /\ document.variant = NoVariant
    <2>1. document \in Session
      BY <1>1, LockSession DEF Lock, Blank
    <2> QED
      BY <1>1, <2>1 DEF Session, Blank
  <1>3. Sound(document) /\ document.turn_count = s.turn_count
    <2> HIDE DEF document
    <2>1. Positioned(document) /\ Gated(document) /\ Asking(document)
      BY <1>2 DEF Positioned, Gated, Asking, Blank
    <2>2. Standing(document) /\ Resolution(document)
      BY <1>2 DEF Standing, Resolution, Blank
    <2> QED
      BY <1>2, <2>1, <2>2 DEF Sound, Blank
  <1>4. /\ {"document", "symptom", "branch_context"} \subseteq Question
        /\ {"document_answer_variant_unverified", "no_kg_v2_variant_match",
            "missing_branch_context"} \subseteq Failure
    BY DEF Question, Failure
  <1>5. CASE t = document
    BY <1>3, <1>5
  <1>6. CASE t = Ask(document, "document", "document_answer_variant_unverified")
    BY <1>2, <1>4, <1>6, AskSound
  <1>7. CASE t = Ask(r, "symptom", "no_kg_v2_variant_match")
    BY <1>1, <1>4, <1>7, AskSound
  <1>8. ASSUME NEW v \in Variant,
               t \in {Present(Bind(r, v), 1),
                      Ask(Bind(r, v), "branch_context", "missing_branch_context")}
        PROVE  Sound(t) /\ t.turn_count = s.turn_count
    <2> DEFINE b == Bind(r, v)
    <2>1. Blank(b, s) /\ b.variant = v /\ 1 \in DOMAIN Plan[b.variant]
      BY <1>1, BindBlank
    <2> HIDE DEF b
    <2>2. Walking(b) /\ Settled(b)
      BY <2>1 DEF Walking, Settled, Blank
    <2>3. CASE t = Present(b, 1)
      BY <2>1, <2>2, <2>3, PresentSound DEF Blank
    <2>4. CASE t = Ask(b, "branch_context", "missing_branch_context")
      <3>1. "branch_context" \in Question /\ "missing_branch_context" \in Failure
        BY <1>4
      <3>2. /\ Sound(Ask(b, "branch_context", "missing_branch_context"))
            /\ Ask(b, "branch_context", "missing_branch_context").turn_count
                   = s.turn_count
        BY <2>1, <3>1, AskSound
      <3> QED
        BY <2>4, <3>2
    <2> QED
      BY <1>8, <2>3, <2>4 DEF b
  <1> QED
    BY <1>5, <1>6, <1>7, <1>8 DEF StartState, r
-----------------------------------------------------------------------------
\* The fields that Sound reads are the same.
Alike(t, s) ==
    /\ t.status = s.status /\ t.variant = s.variant /\ t.index = s.index
    /\ t.current = s.current /\ t.presented = s.presented
    /\ t.confirmed = s.confirmed /\ t.pending = s.pending
    /\ t.branching = s.branching /\ t.resolved = s.resolved
    /\ t.answered = s.answered

LEMMA AlikeSound ==
    ASSUME NEW s, Sound(s), NEW t, t \in Session, Alike(t, s), t.query \subseteq t.processed
    PROVE  Sound(t)
  <1>1. Positioned(t)
    BY DEF Alike, Sound, Positioned
  <1>2. Gated(t) /\ Asking(t)
    BY DEF Alike, Sound, Gated, Asking
  <1>3. Standing(t) /\ Resolution(t)
    BY DEF Alike, Sound, Standing, Resolution
  <1> QED
    BY <1>1, <1>2, <1>3 DEF Sound

\* Recording fingerprints changes nothing else; with the evidence in the query
\* the diagnosis may start again.
LEMMA EvidenceSound ==
    ASSUME NEW s, Sound(s), NEW R \in SUBSET Resource
    PROVE  /\ Sound(Record(s, R)) /\ Alike(Record(s, R), s)
           /\ Record(s, R).turn_count = s.turn_count
           /\ WithEvidence(s, R) \in Session
           /\ WithEvidence(s, R).query \subseteq WithEvidence(s, R).processed
           /\ WithEvidence(s, R).turn_count = s.turn_count
  <1> DEFINE t == Record(s, R)
             u == WithEvidence(s, R)
  <1>0. s \in Session /\ s.query \subseteq s.processed
    BY DEF Sound
  <1>1. t \in Session
    BY <1>0 DEF Record, Session
  <1>2. /\ Alike(t, s) /\ t.turn_count = s.turn_count
        /\ t.query = s.query /\ t.processed = s.processed \cup R
    BY <1>0 DEF Record, Session, Alike
  <1>3. Sound(t)
    BY <1>0, <1>1, <1>2, AlikeSound
  <1>4. Useful(s, R) \subseteq R
    BY DEF Useful
  <1>5. u \in Session
    <2> HIDE DEF t
    <2>1. u = [t EXCEPT !.query = t.query \cup Useful(s, R)]
      BY DEF WithEvidence, t
    <2>2. t.query \cup Useful(s, R) \in SUBSET Resource
      BY <1>1, <1>4 DEF Session
    <2> QED
      BY <1>1, <2>1, <2>2 DEF Session
  <1>6. /\ u.query = t.query \cup Useful(s, R)
        /\ u.processed = t.processed /\ u.turn_count = t.turn_count
    <2> HIDE DEF t
    <2>1. u = [t EXCEPT !.query = t.query \cup Useful(s, R)]
      BY DEF WithEvidence, t
    <2> QED
      BY <1>1, <2>1 DEF Session
  <1> QED
    BY <1>0, <1>2, <1>3, <1>4, <1>5, <1>6

\* The action a session stands at was presented.
Stands(s) ==
    /\ s.current \in Action /\ s.current \in s.presented
    /\ s.current = Plan[s.variant][s.index + 1]

\* _pending_validation and _resolve
LEMMA PendingValidationSound ==
    ASSUME NEW s, Walking(s), Settled(s), Stands(s)
    PROVE  /\ Sound(PendingValidation(s))
           /\ PendingValidation(s).turn_count = s.turn_count
  <1> DEFINE t == PendingValidation(s)
  <1>1. t \in Session
    BY DEF PendingValidation, Walking, Session, Status, Failure
  <1>2. /\ t.status = "step" /\ t.variant = s.variant /\ t.index = s.index
        /\ t.current = s.current /\ t.presented = s.presented
        /\ t.confirmed = s.confirmed /\ t.pending = s.pending
        /\ t.branching = s.branching /\ t.turn_count = s.turn_count
        /\ t.query = s.query /\ t.processed = s.processed
    BY DEF PendingValidation, Walking, Session
  <1>3. Positioned(t) /\ Gated(t) /\ Asking(t)
    BY <1>2 DEF Positioned, Gated, Asking, Walking, Settled
  <1>4. Standing(t) /\ Resolution(t)
    BY <1>2 DEF Standing, Resolution, Stands
  <1> QED
    BY <1>1, <1>2, <1>3, <1>4 DEF Sound, Walking

LEMMA ResolveSound ==
    ASSUME NEW s, Walking(s), Settled(s), Stands(s),
           NEW a \in s.presented \cap s.answered \cap VerifiedFix
    PROVE  Sound(Resolve(s, a)) /\ Resolve(s, a).turn_count = s.turn_count
  <1> DEFINE t == Resolve(s, a)
  <1>0. a \in Action
    OBVIOUS
  <1>1. t \in Session
    BY <1>0 DEF Resolve, Walking, Session, Status
  <1>2. /\ t.status = "resolved" /\ t.variant = s.variant /\ t.index = s.index
        /\ t.current = s.current /\ t.presented = s.presented
        /\ t.confirmed = s.confirmed /\ t.pending = s.pending
        /\ t.branching = s.branching /\ t.turn_count = s.turn_count
        /\ t.query = s.query /\ t.processed = s.processed
        /\ t.resolved = a /\ t.answered = s.answered
    BY DEF Resolve, Walking, Session
  <1>3. Positioned(t) /\ Gated(t) /\ Asking(t)
    BY <1>2 DEF Positioned, Gated, Asking, Walking, Settled
  <1>4. Standing(t) /\ Resolution(t)
    BY <1>2 DEF Standing, Resolution, Stands
  <1> QED
    BY <1>1, <1>2, <1>3, <1>4 DEF Sound, Walking

\* _follow_branch, whatever the rule.
LEMMA FollowSound ==
    ASSUME NEW s, Walking(s), Settled(s), Stands(s),
           NEW a \in s.presented \cap s.answered, NEW o, NEW r, NEW m,
           NEW t \in Follow(s, a, o, r, m)
    PROVE  Sound(t) /\ t.turn_count = s.turn_count
  <1>0. {"branch_terminal", "branch_target_not_in_plan"} \subseteq Failure
    BY DEF Failure
  <1>1. CASE t = Resolve(s, a) /\ Verified(a, m)
    BY <1>1, ResolveSound DEF Verified
  <1>2. CASE t = PendingValidation(s)
    BY <1>2, PendingValidationSound
  <1>3. CASE t = Escalate(s, "branch_terminal")
    BY <1>0, <1>3, WalkingEscalates
  <1>4. CASE t \in PresentAction(s, r.to, "branch_target_not_in_plan")
    BY <1>0, <1>4, PresentActionSound
  <1> QED
    BY <1>1, <1>2, <1>3, <1>4 DEF Follow

\* A sound record that is not closed and whose turns are not used up.
Alive(s) == Sound(s) /\ s.turn_count < MaxTurns /\ s.status \notin Closed

LEMMA AliveFit ==
    ASSUME NEW s, Alive(s), NEW t, Sound(t), t.turn_count = s.turn_count
    PROVE  Fit(t)
  BY DEF Alive, Fit, InTime, Sound, Session

\* The record that step finds, with its turn counted.
LEMMA BeginSound ==
    ASSUME IInv, Known
    PROVE  /\ Fit(Stored) /\ Sound(Begin) /\ Begin.status = Stored.status
           /\ Begin.turn_count = Stored.turn_count + 1
  <1>1. Fit(Stored)
    BY DEF IInv, Kept, Known, Stored
  <1>2. Stored \in Session
    BY <1>1 DEF Fit, Sound
  <1> HIDE DEF Stored
  <1>3. Begin \in Session
    <2>1. Stored.turn_count + 1 \in Nat
      BY <1>2 DEF Session
    <2>2. \A n \in Nat : [Stored EXCEPT !.turn_count = n] \in Session
      BY <1>2 DEF Session
    <2> QED
      BY <2>1, <2>2 DEF Begin
  <1>4. /\ Alike(Begin, Stored) /\ Begin.turn_count = Stored.turn_count + 1
        /\ Begin.query = Stored.query /\ Begin.processed = Stored.processed
    BY <1>2 DEF Begin, Session, Alike
  <1>5. Sound(Begin)
    BY <1>1, <1>3, <1>4, AlikeSound DEF Fit, Sound
  <1> QED
    BY <1>1, <1>4, <1>5 DEF Alike

LEMMA BeginAlive ==
    ASSUME IInv, InTurns
    PROVE  Alive(Begin)
  BY BeginSound DEF InTurns, Alive

LEMMA LookedAlive ==
    ASSUME IInv, InTurns, NEW m \in Message
    PROVE  /\ m.resources \in SUBSET Resource
           /\ Alive(Looked(m))
  <1>1. m.resources \in SUBSET Resource
    BY InputAssumption DEF MessageType
  <1>2. Alive(Begin)
    BY BeginAlive
  <1>3. CASE Looked(m) = Begin
    BY <1>1, <1>2, <1>3
  <1>4. CASE Looked(m) = Record(Begin, m.resources)
    BY <1>1, <1>2, <1>4, EvidenceSound DEF Alive, Alike
  <1> QED
    BY <1>3, <1>4 DEF Looked

\* The plan of a living record is restored: with nothing pending it walks on.
LEMMA Walks ==
    ASSUME NEW s, Alive(s), Restorable(s), s.pending = NoAction, s.branching = NoAction
    PROVE  Walking(s) /\ Settled(s)
  <1>1. s \in Session /\ s.variant \in Variant
    BY DEF Alive, Sound, Restorable, Session
  <1> QED
    BY <1>1 DEF Alive, Sound, Positioned, Gated, Walking, Settled

\* ... and stands at an action that it presented, if it stands at one at all.
LEMMA WalksStanding ==
    ASSUME NEW s, Alive(s), Restorable(s), s.pending = NoAction,
           InPlan(s, s.current)
    PROVE  Stands(s)
  <1>1. s \in Session /\ s.variant \in Variant
    BY DEF Alive, Sound, Restorable, Session
  <1>2. s.current \in Action
    BY <1>1, PlanActions DEF InPlan, Positions
  <1> QED
    BY <1>2 DEF Alive, Sound, Standing, Stands, Closed

\* Changes to the fields that no gate reads.
LEMMA AnswerWalks ==
    ASSUME NEW s, Walking(s), Settled(s), Stands(s)
    PROVE  LET t == [s EXCEPT !.answered = @ \cup {s.current}]
           IN  /\ Walking(t) /\ Settled(t) /\ Stands(t)
               /\ t.current \in t.presented \cap t.answered
               /\ t.current = s.current /\ t.turn_count = s.turn_count
  <1> DEFINE t == [s EXCEPT !.answered = @ \cup {s.current}]
  <1>1. t \in Session
    BY DEF Walking, Session, Stands
  <1>2. /\ t.status = s.status /\ t.variant = s.variant /\ t.index = s.index
        /\ t.current = s.current /\ t.presented = s.presented
        /\ t.confirmed = s.confirmed /\ t.pending = s.pending
        /\ t.branching = s.branching /\ t.turn_count = s.turn_count
        /\ t.query = s.query /\ t.processed = s.processed
        /\ t.answered = s.answered \cup {s.current}
    BY DEF Walking, Session
  <1> HIDE DEF t
  <1>3. Walking(t) /\ Settled(t) /\ Stands(t)
    BY <1>1, <1>2 DEF Walking, Settled, Stands
  <1>4. t.current \in t.presented \cap t.answered
    BY <1>2 DEF Stands
  <1> QED
    BY <1>2, <1>3, <1>4 DEF t
-----------------------------------------------------------------------------
\* A handler that ends with a fit record, saved or lost, keeps the invariant.
LEMMA CommitKeeps ==
    ASSUME Kept, NEW t, Fit(t), Commit(t)
    PROVE  Kept'
  <1>1. CASE Respond(t)
    BY <1>1 DEF Respond, Kept
  <1>2. CASE Crash /\ disk' \in {t, Corrupt}
    BY <1>2 DEF Crash, Kept
  <1> QED
    BY <1>1, <1>2 DEF Commit

\* The conjuncts of the invariant that a call of step leaves alone.
LEMMA HearKeeps ==
    ASSUME IInv, NEW m \in Message, Hear(m), Kept'
    PROVE  IInv'
  BY DEF IInv, Hear

LEMMA UnreadKeeps ==
    ASSUME IInv, Unread, Kept'
    PROVE  IInv'
  BY DEF IInv, Unread

\* start, and its crashes.
LEMMA StartKeeps ==
    ASSUME IInv, NEW R \in SUBSET Resource, Start(R) \/ CrashInStart(R)
    PROVE  IInv'
  <1>0. graph \in Revision /\ Kept
    BY DEF IInv
  <1>1. Fresh \in Session /\ Fresh.query \subseteq Fresh.processed
        /\ Fresh.turn_count = 0
    BY FreshSound DEF Sound
  <1>2. ASSUME NEW t, Sound(t), t.turn_count = 0
        PROVE  Fit(t)
    BY <1>2 DEF Fit, InTime
  <1>3. ASSUME NEW t \in StartState(Fresh)
        PROVE  /\ Sound(t) /\ t.turn_count = 0
               /\ Sound(Record(t, R)) /\ Record(t, R).turn_count = 0
               /\ WithEvidence(t, R) \in Session
               /\ WithEvidence(t, R).query \subseteq WithEvidence(t, R).processed
               /\ WithEvidence(t, R).turn_count = 0
    <2>1. Sound(t) /\ t.turn_count = 0
      BY <1>0, <1>1, <1>3, StartStateSound
    <2> QED
      BY <2>1, EvidenceSound
  <1>4. starts' \in 0 .. MaxStarts /\ heard' = NoMessage /\ graph' = graph
    BY DEF IInv, Start, CrashInStart, Starting
  <1>5. CASE Start(R)
    <2>1. PICK t \in Started(R) : Commit(t)
      BY <1>5 DEF Start
    <2>2. PICK u \in StartState(Fresh) :
              t = u \/ t = Record(u, R) \/ t \in StartState(WithEvidence(u, R))
      <3>1. PICK u \in StartState(Fresh) :
                t \in IF ~GapApplies(u, R) THEN {u}
                      ELSE {w \in {u} : TRUE \in IncidentEnabled} \cup
                           IF ~Examines(u, R) THEN {}
                           ELSE IF Useful(u, R) = {} THEN {Record(u, R)}
                           ELSE StartState(WithEvidence(u, R))
        BY <2>1 DEF Started
      <3>2. t = u \/ t = Record(u, R) \/ t \in StartState(WithEvidence(u, R))
        <4>1. CASE ~GapApplies(u, R)
          BY <3>1, <4>1
        <4>2. CASE GapApplies(u, R) /\ ~Examines(u, R)
          BY <3>1, <4>2
        <4>3. CASE GapApplies(u, R) /\ Examines(u, R) /\ Useful(u, R) = {}
          BY <3>1, <4>3
        <4>4. CASE GapApplies(u, R) /\ Examines(u, R) /\ Useful(u, R) # {}
          BY <3>1, <4>4
        <4> QED
          BY <4>1, <4>2, <4>3, <4>4
      <3> QED
        BY <3>2
    <2>3. Sound(t) /\ t.turn_count = 0
      BY <1>0, <1>3, <2>2, StartStateSound
    <2>4. Kept'
      BY <1>0, <1>2, <2>1, <2>3, CommitKeeps
    <2> QED
      BY <1>4, <1>0, <2>4 DEF IInv
  <1>6. CASE CrashInStart(R)
    <2>1. /\ mem' = NoSession /\ crashes' \in 0 .. MaxCrashes
          /\ \/ disk' = Fresh
             \/ \E t \in StartState(Fresh) : disk' = t \/ disk' = Record(t, R)
      BY <1>0, <1>6 DEF CrashInStart, Crash, Kept
    <2>2. Fit(disk')
      BY <1>2, <1>3, <2>1, FreshSound
    <2>3. Kept'
      BY <2>1, <2>2 DEF Kept
    <2> QED
      BY <1>4, <1>0, <2>3 DEF IInv
  <1> QED
    BY <1>5, <1>6

\* The calls that do not look at their message.
LEMMA StepUnreadKeeps ==
    ASSUME IInv, StepUnread
    PROVE  IInv'
  <1>0. Kept
    BY DEF IInv
  <1>1. CASE StepUnknown
    <2>1. Kept'
      BY <1>0, <1>1 DEF StepUnknown, Kept
    <2> QED
      BY <1>1, <2>1, UnreadKeeps DEF StepUnknown
  <1>2. CASE StepClosed
    <2>1. Fit(Begin)
      BY <1>2, BeginSound DEF StepClosed, Fit, InTime
    <2>2. Kept'
      BY <1>0, <1>2, <2>1, CommitKeeps DEF StepClosed
    <2> QED
      BY <1>2, <2>2, UnreadKeeps DEF StepClosed
  <1>3. CASE StepMaxTurns
    <2>1. Sound(Begin)
      BY <1>3, BeginSound DEF StepMaxTurns
    <2>2. "max_turns_reached" \in Failure
      BY DEF Failure
    <2>3. /\ Sound(Escalate(Begin, "max_turns_reached"))
          /\ Escalate(Begin, "max_turns_reached").status = "escalate"
      BY <2>1, <2>2, EscalateSound DEF Sound
    <2>4. Fit(Escalate(Begin, "max_turns_reached"))
      BY <2>3 DEF Fit, InTime, Closed
    <2>5. Kept'
      BY <1>0, <1>3, <2>4, CommitKeeps DEF StepMaxTurns
    <2> QED
      BY <1>3, <2>5, UnreadKeeps DEF StepMaxTurns
  <1> QED
    BY <1>1, <1>2, <1>3 DEF StepUnread

\* A call of step that reads m and ends with a record made of Looked(m) or of
\* the record before the evidence was looked at.
LEMMA StepKeeps ==
    ASSUME IInv, NEW m \in Message, Hear(m) \/ Unread,
           NEW s, Alive(s), NEW t, Sound(t), t.turn_count = s.turn_count, Commit(t)
    PROVE  IInv'
  BY AliveFit, CommitKeeps, HearKeeps, UnreadKeeps DEF IInv

\* The evidence-gap block and what follows it up to the restored plan.
LEMMA StepEvidenceKeeps ==
    ASSUME IInv, NEW m \in Message,
           \/ StepIncident(m) \/ StepEvidence(m) \/ CrashInEvidence(m)
           \/ StepNothingFound(m) \/ StepDocument(m) \/ StepInvalid(m)
    PROVE  IInv'
  <1>0. InTurns
    BY DEF StepIncident, StepEvidence, CrashInEvidence, StepNothingFound,
           StepDocument, StepInvalid, PastGap
  <1>1. /\ m.resources \in SUBSET Resource
        /\ Alive(Begin) /\ Alive(Looked(m)) /\ graph \in Revision
    BY <1>0, BeginAlive, LookedAlive DEF IInv
  <1>2. CASE StepIncident(m)
    BY <1>1, <1>2, StepKeeps DEF StepIncident, Alive
  <1>3. CASE StepEvidence(m)
    <2> DEFINE w == WithEvidence(Begin, m.resources)
    <2>1. PICK t \in StartState(w) : Commit(t)
      BY <1>3 DEF StepEvidence
    <2>2. /\ w \in Session /\ w.query \subseteq w.processed
          /\ w.turn_count = Begin.turn_count
      BY <1>1, EvidenceSound DEF Alive
    <2> HIDE DEF w
    <2>3. Sound(t) /\ t.turn_count = Begin.turn_count
      BY <1>1, <2>1, <2>2, StartStateSound
    <2> QED
      BY <1>1, <1>3, <2>1, <2>3, StepKeeps DEF StepEvidence
  <1>4. CASE CrashInEvidence(m)
    <2>1. Fit(Record(Begin, m.resources))
      BY <1>1, EvidenceSound, AliveFit DEF Alive
    <2>2. Kept'
      BY <1>4, <2>1 DEF CrashInEvidence, Crash, IInv, Kept
    <2> QED
      BY <1>4, <2>2, HearKeeps DEF CrashInEvidence
  <1>5. CASE StepNothingFound(m)
    <2>1. /\ Sound(Record(Begin, m.resources))
          /\ Record(Begin, m.resources).turn_count = Begin.turn_count
      BY <1>1, EvidenceSound DEF Alive
    <2> QED
      BY <1>1, <1>5, <2>1, StepKeeps DEF StepNothingFound
  <1>6. CASE StepDocument(m)
    <2> DEFINE l == Looked(m)
               w == [l EXCEPT !.query = {}]
    <2>1. PICK t \in StartState(w) : Commit(t)
      BY <1>6 DEF StepDocument
    <2>2. l \in Session
      BY <1>1 DEF Alive, Sound
    <2> HIDE DEF l
    <2>3. w \in Session
      BY <2>2 DEF Session
    <2>4. w.query \subseteq w.processed /\ w.turn_count = l.turn_count
      BY <2>2 DEF Session
    <2> HIDE DEF w
    <2>5. Sound(t) /\ t.turn_count = l.turn_count
      BY <1>1, <2>1, <2>3, <2>4, StartStateSound
    <2> QED
      BY <1>1, <1>6, <2>1, <2>5, StepKeeps DEF StepDocument, l
  <1>7. CASE StepInvalid(m)
    <2> DEFINE l == Looked(m)
               w == [l EXCEPT !.status = "failed", !.failure = "invalid_kg_v2_session"]
    <2>1. l \in Session /\ Sound(l) /\ l.status \notin Closed
      BY <1>1 DEF Alive, Sound
    <2> HIDE DEF l
    <2>2. w \in Session
      BY <2>1 DEF Session, Status, Failure
    <2>3. /\ w.status = "failed" /\ w.variant = l.variant /\ w.index = l.index
          /\ w.current = l.current /\ w.presented = l.presented
          /\ w.confirmed = l.confirmed /\ w.pending = l.pending
          /\ w.branching = l.branching /\ w.turn_count = l.turn_count
          /\ w.query = l.query /\ w.processed = l.processed
      BY <2>1 DEF Session
    <2>4. Positioned(w) /\ Gated(w) /\ Asking(w)
      BY <2>1, <2>3 DEF Sound, Positioned, Gated, Asking
    <2>5. Standing(w) /\ Resolution(w)
      BY <2>1, <2>3 DEF Sound, Standing, Resolution, Closed
    <2>6. Sound(w) /\ w.turn_count = l.turn_count
      BY <2>1, <2>2, <2>3, <2>4, <2>5 DEF Sound
    <2> QED
      BY <1>1, <1>7, <2>6, StepKeeps DEF StepInvalid, l
  <1> QED
    BY <1>2, <1>3, <1>4, <1>5, <1>6, <1>7

\* The answer to a confirmation.
LEMMA StepConfirmationKeeps ==
    ASSUME IInv, NEW m \in Message,
           StepReject(m) \/ StepConfirm(m) \/ StepUnclear(m)
    PROVE  IInv'
  <1> DEFINE l == Looked(m)
  <1>0. /\ InTurns /\ Restorable(l) /\ l.pending # NoAction
    BY DEF StepReject, StepConfirm, StepUnclear, Confirming, Planned, PastGap
  <1>1. Alive(l)
    BY <1>0, LookedAlive
  <1> HIDE DEF l
  <1>2. l \in Session
    BY <1>1 DEF Alive, Sound
  <1>3. /\ l.variant \in Variant
        /\ l.pending \in Action /\ l.pending \in Unsafe /\ ConfirmRequired
        /\ l.branching = NoAction /\ l.current = l.pending
        /\ l.index + 1 \in DOMAIN Plan[l.variant]
        /\ l.presented \cap Unsafe \subseteq l.confirmed
        /\ l.confirmed \subseteq l.presented \cap Unsafe
        /\ l.query \subseteq l.processed
    BY <1>0, <1>1, <1>2 DEF Alive, Sound, Asking, Gated, Positioned, Restorable, Session
  <1>4. CASE StepReject(m)
    <2> DEFINE w == [l EXCEPT !.ruled_out = @ \cup {l.pending}, !.pending = NoAction]
    <2>1. PICK t \in Advance(w) : Commit(t)
      BY <1>4 DEF StepReject, l
    <2>2. w \in Session
      <3>1. l.ruled_out \cup {l.pending} \in SUBSET Action
        BY <1>2, <1>3 DEF Session
      <3> QED
        BY <1>2, <3>1 DEF Session
    <2>3. /\ w.variant = l.variant /\ w.index = l.index /\ w.current = l.current
          /\ w.presented = l.presented /\ w.confirmed = l.confirmed
          /\ w.pending = NoAction /\ w.branching = l.branching
          /\ w.query = l.query /\ w.processed = l.processed
          /\ w.turn_count = l.turn_count
      BY <1>2, <1>3 DEF Session
    <2> HIDE DEF w
    <2>4. Walking(w) /\ Settled(w) /\ w.current \in Action
      BY <1>3, <2>2, <2>3 DEF Walking, Settled
    <2>5. Sound(t) /\ t.turn_count = l.turn_count
      BY <2>1, <2>3, <2>4, AdvanceSound
    <2> QED
      BY <1>1, <1>4, <2>1, <2>5, StepKeeps DEF StepReject
  <1>5. CASE StepConfirm(m)
    <2> DEFINE a == l.pending
               s == [l EXCEPT !.pending = NoAction]
               w == [s EXCEPT !.confirmed = @ \cup {a}]
    <2>1. PICK i \in Positions(s, a) : Commit(Show(w, i))
      BY <1>5 DEF StepConfirm, l
    <2>2. s \in Session /\ s.variant = l.variant /\ s.confirmed = l.confirmed
      BY <1>2 DEF Session
    <2>3. w \in Session
      <3>1. s.confirmed \cup {a} \in SUBSET Action
        BY <1>3, <2>2 DEF Session
      <3> HIDE DEF s, a
      <3> QED
        BY <2>2, <3>1 DEF Session
    <2>4. /\ w.variant = l.variant /\ w.index = l.index
          /\ w.presented = l.presented /\ w.confirmed = l.confirmed \cup {a}
          /\ w.pending = NoAction /\ w.branching = l.branching
          /\ w.query = l.query /\ w.processed = l.processed
          /\ w.turn_count = l.turn_count
      BY <1>2, <1>3 DEF Session
    <2>5. i \in DOMAIN Plan[l.variant] /\ Plan[l.variant][i] = a
      BY <2>1, <2>2 DEF Positions
    <2> HIDE DEF s, w, a
    <2>6. Walking(w)
      BY <1>3, <2>3, <2>4 DEF Walking
    <2>7. /\ w.confirmed \subseteq (w.presented \cup {Plan[w.variant][i]}) \cap Unsafe
          /\ Plan[w.variant][i] \in w.confirmed
      BY <1>3, <2>4, <2>5 DEF a
    <2>8. Sound(Show(w, i)) /\ Show(w, i).turn_count = l.turn_count
      BY <2>4, <2>5, <2>6, <2>7, ShowSound
    <2> QED
      BY <1>1, <1>5, <2>1, <2>8, StepKeeps DEF StepConfirm
  <1>6. CASE StepUnclear(m)
    <2> DEFINE w == [l EXCEPT !.required = "confirm"]
    <2>1. w \in Session
      BY <1>2 DEF Session, Question
    <2>2. /\ Alike(w, l) /\ w.turn_count = l.turn_count
          /\ w.query = l.query /\ w.processed = l.processed
      BY <1>2 DEF Session, Alike
    <2> HIDE DEF w
    <2>3. Sound(w) /\ w.turn_count = l.turn_count
      BY <1>1, <1>3, <2>1, <2>2, AlikeSound DEF Alive
    <2> QED
      BY <1>1, <1>6, <2>3, StepKeeps DEF StepUnclear, l, w
  <1> QED
    BY <1>4, <1>5, <1>6

\* The answer to a branch condition.
LEMMA StepBranchingKeeps ==
    ASSUME IInv, NEW m \in Message, StepStillUnclear(m) \/ StepBranch(m)
    PROVE  IInv'
  <1> DEFINE l == Looked(m)
  <1>0. /\ InTurns /\ Restorable(l)
        /\ l.pending = NoAction /\ l.branching # NoAction
    BY DEF StepStillUnclear, StepBranch, Branching, Planned, PastGap
  <1>1. Alive(l)
    BY <1>0, LookedAlive
  <1> HIDE DEF l
  <1>2. l \in Session
    BY <1>1 DEF Alive, Sound
  <1>3. /\ l.variant \in Variant /\ l.branching \in Action
        /\ l.current = l.branching /\ l.branching \in l.presented
        /\ l.index + 1 \in DOMAIN Plan[l.variant]
        /\ l.current = Plan[l.variant][l.index + 1]
        /\ l.query \subseteq l.processed
    BY <1>0, <1>1, <1>2
       DEF Alive, Sound, Asking, Positioned, Standing, Closed, Restorable, Session
  <1>4. CASE StepStillUnclear(m)
    <2> DEFINE w == AskCondition(l, l.branching, l.branch_outcome)
    <2>1. w \in Session
      <3>1. "ask_info" \in Status /\ "branch_condition_required" \in Failure
            /\ "branch_condition" \in Question
        BY DEF Status, Failure, Question
      <3> QED
        BY <1>2, <3>1 DEF AskCondition, Session
    <2>2. /\ w.status = "ask_info" /\ w.variant = l.variant /\ w.index = l.index
          /\ w.current = l.current /\ w.presented = l.presented
          /\ w.confirmed = l.confirmed /\ w.pending = l.pending
          /\ w.branching = l.branching /\ w.turn_count = l.turn_count
          /\ w.query = l.query /\ w.processed = l.processed
      BY <1>2 DEF AskCondition, Session
    <2> HIDE DEF w
    <2>3. Positioned(w) /\ Gated(w) /\ Asking(w)
      BY <1>1, <2>2 DEF Alive, Sound, Positioned, Gated, Asking
    <2>4. Standing(w) /\ Resolution(w)
      BY <1>1, <2>2 DEF Alive, Sound, Standing, Resolution, Closed
    <2>5. Sound(w) /\ w.turn_count = l.turn_count
      BY <1>3, <2>1, <2>2, <2>3, <2>4 DEF Sound
    <2> QED
      BY <1>1, <1>4, <2>5, StepKeeps DEF StepStillUnclear, l, w
  <1>5. CASE StepBranch(m)
    <2> DEFINE b == [l EXCEPT !.branching = NoAction, !.branch_outcome = NoOutcome]
               w == [l EXCEPT !.branching = NoAction, !.branch_outcome = NoOutcome,
                              !.answered = @ \cup {l.branching}]
    <2>1. PICK r \in BranchOf(l, m) :
              \E t \in Follow(w, l.branching, l.branch_outcome, r, m) : Commit(t)
      BY <1>5 DEF StepBranch, l
    <2>2. PICK t \in Follow(w, l.branching, l.branch_outcome, r, m) : Commit(t)
      BY <2>1
    <2>3. b \in Session /\ b.answered = l.answered
      BY <1>2 DEF Session
    <2>4. w \in Session
      <3>1. b.answered \cup {l.branching} \in SUBSET Action
        BY <1>3, <2>3 DEF Session
      <3> HIDE DEF b
      <3>2. [b EXCEPT !.answered = b.answered \cup {l.branching}] \in Session
        BY <2>3, <3>1 DEF Session
      <3> QED
        BY <2>3, <3>2 DEF b
    <2>5. /\ w.variant = l.variant /\ w.index = l.index /\ w.current = l.current
          /\ w.presented = l.presented /\ w.confirmed = l.confirmed
          /\ w.pending = l.pending /\ w.branching = NoAction
          /\ w.query = l.query /\ w.processed = l.processed
          /\ w.answered = l.answered \cup {l.branching}
          /\ w.turn_count = l.turn_count
      BY <1>2 DEF Session
    <2> HIDE DEF w
    <2>6. Walking(w) /\ Settled(w)
      BY <1>0, <1>1, <1>3, <2>4, <2>5 DEF Alive, Sound, Gated, Walking, Settled
    <2>7. Stands(w) /\ l.branching \in w.presented \cap w.answered
      BY <1>3, <2>5 DEF Stands
    <2>8. Sound(t) /\ t.turn_count = l.turn_count
      BY <2>2, <2>5, <2>6, <2>7, FollowSound
    <2> QED
      BY <1>1, <1>5, <2>2, <2>8, StepKeeps DEF StepBranch
  <1> QED
    BY <1>4, <1>5

\* More information, or the outcome of the current action.
LEMMA StepReportKeeps ==
    ASSUME IInv, NEW m \in Message,
           \/ StepMoreInfo(m) \/ StepNoCurrent(m) \/ StepAskBranch(m)
           \/ StepFollow(m) \/ StepFixReported(m) \/ StepAdvance(m)
    PROVE  IInv'
  <1> DEFINE l == Looked(m)
             w == Reported(m)
  <1>0. /\ InTurns /\ Restorable(l)
        /\ l.pending = NoAction /\ l.branching = NoAction
    BY DEF StepMoreInfo, StepNoCurrent, StepAskBranch, StepFollow, StepFixReported,
           StepAdvance, Reporting, Plain, Planned, PastGap
  <1>1. Alive(l)
    BY <1>0, LookedAlive
  <1>2. w = [l EXCEPT !.answered = @ \cup {l.current}]
    BY DEF Reported
  <1> HIDE DEF l, w
  <1>3. /\ l \in Session /\ l.query \subseteq l.processed /\ graph \in Revision
        /\ Walking(l) /\ Settled(l)
    BY <1>0, <1>1, Walks DEF Alive, Sound, IInv
  <1>4. ASSUME InPlan(l, l.current)
        PROVE  /\ Walking(w) /\ Settled(w) /\ Stands(w)
               /\ w.current \in w.presented \cap w.answered
               /\ w.current = l.current /\ w.turn_count = l.turn_count
    BY <1>0, <1>1, <1>2, <1>3, <1>4, WalksStanding, AnswerWalks
  <1>5. CASE StepMoreInfo(m)
    BY <1>1, <1>3, <1>5, StartStateSound, StepKeeps DEF StepMoreInfo, l
  <1>6. CASE StepNoCurrent(m)
    <2>1. "current_action_not_in_plan" \in Failure
      BY DEF Failure
    <2>2. /\ Sound(Escalate(l, "current_action_not_in_plan"))
          /\ Escalate(l, "current_action_not_in_plan").turn_count = l.turn_count
      BY <1>3, <2>1, WalkingEscalates
    <2> QED
      BY <1>1, <1>6, <2>2, StepKeeps DEF StepNoCurrent, l
  <1>7. CASE StepAskBranch(m)
    <2> DEFINE o == Classify(m)
               t == AskCondition(w, l.current, o)
    <2>1. /\ Walking(w) /\ Settled(w) /\ Stands(w)
          /\ w.current = l.current /\ w.turn_count = l.turn_count
      BY <1>4, <1>7 DEF StepAskBranch, l
    <2>2. o \in Outcome
      BY DEF Classify, Outcome
    <2> HIDE DEF o
    <2>3. t \in Session
      <3>1. /\ "ask_info" \in Status /\ "branch_condition_required" \in Failure
            /\ "branch_condition" \in Question
        BY DEF Status, Failure, Question
      <3>2. w \in Session /\ l.current \in Action
        BY <2>1 DEF Walking, Stands
      <3> QED
        BY <2>2, <3>1, <3>2 DEF AskCondition, Session
    <2>4. /\ t.status = "ask_info" /\ t.variant = w.variant /\ t.index = w.index
          /\ t.current = w.current /\ t.presented = w.presented
          /\ t.confirmed = w.confirmed /\ t.pending = w.pending
          /\ t.branching = l.current /\ t.turn_count = w.turn_count
          /\ t.query = w.query /\ t.processed = w.processed
      BY <2>1 DEF AskCondition, Walking, Session
    <2> HIDE DEF t
    <2>5. Positioned(t) /\ Gated(t) /\ Asking(t)
      BY <2>1, <2>4 DEF Walking, Settled, Stands, Positioned, Gated, Asking
    <2>6. Standing(t) /\ Resolution(t)
      BY <2>1, <2>4 DEF Stands, Standing, Resolution
    <2>7. Sound(t) /\ t.turn_count = l.turn_count
      BY <2>1, <2>3, <2>4, <2>5, <2>6 DEF Sound, Walking
    <2> QED
      BY <1>1, <1>7, <2>7, StepKeeps DEF StepAskBranch, l, w, t, o
  <1>8. CASE StepFollow(m)
    <2>1. PICK r \in Rules(m) :
              \E t \in Follow(w, l.current, Classify(m), r, m) : Commit(t)
      BY <1>8 DEF StepFollow, l, w
    <2>2. PICK t \in Follow(w, l.current, Classify(m), r, m) : Commit(t)
      BY <2>1
    <2>3. InPlan(l, l.current)
      BY <1>8 DEF StepFollow, l
    <2>4. Sound(t) /\ t.turn_count = l.turn_count
      BY <1>4, <2>2, <2>3, FollowSound
    <2> QED
      BY <1>1, <1>8, <2>2, <2>4, StepKeeps DEF StepFollow
  <1>9. CASE StepFixReported(m)
    <2> DEFINE t == IF Verified(l.current, m) THEN Resolve(w, l.current)
                    ELSE PendingValidation(w)
    <2>1. Commit(t) /\ Hear(m) /\ InPlan(l, l.current)
      BY <1>9 DEF StepFixReported, l, w
    <2>2. CASE Verified(l.current, m)
      <3>1. l.current \in w.presented \cap w.answered \cap VerifiedFix
        BY <1>4, <2>1, <2>2 DEF Verified
      <3> QED
        BY <1>1, <1>4, <2>1, <2>2, <3>1, ResolveSound, StepKeeps
    <2>3. CASE ~Verified(l.current, m)
      BY <1>1, <1>4, <2>1, <2>3, PendingValidationSound, StepKeeps
    <2> QED
      BY <2>2, <2>3
  <1>10. CASE StepAdvance(m)
    <2>1. PICK t \in Advance(w) : Commit(t)
      BY <1>10 DEF StepAdvance, w
    <2>2. InPlan(l, l.current)
      BY <1>10 DEF StepAdvance, l
    <2>3. Sound(t) /\ t.turn_count = l.turn_count
      BY <1>4, <2>1, <2>2, AdvanceSound DEF Stands
    <2> QED
      BY <1>1, <1>10, <2>1, <2>3, StepKeeps DEF StepAdvance
  <1> QED
    BY <1>5, <1>6, <1>7, <1>8, <1>9, <1>10
-----------------------------------------------------------------------------
\* The invariant holds of an empty store,
LEMMA InitIInv == Init => IInv
  BY DEF Init, IInv, Kept

\* and every step of the specification keeps it.
LEMMA NextIInv ==
    ASSUME IInv, [Next]_vars
    PROVE  IInv'
  <1>1. ASSUME NEW R \in SUBSET Resource, Start(R) \/ CrashInStart(R)
        PROVE  IInv'
    BY <1>1, StartKeeps
  <1>2. CASE StepUnread
    BY <1>2, StepUnreadKeeps
  <1>3. ASSUME NEW m \in Message, Step(m) \/ CrashInEvidence(m)
        PROVE  IInv'
    BY <1>3, StepEvidenceKeeps, StepConfirmationKeeps, StepBranchingKeeps, StepReportKeeps
       DEF Step
  <1>4. CASE Restart
    BY <1>4 DEF Restart, Crash, IInv, Kept
  <1>5. CASE Publish
    BY <1>5 DEF Publish, IInv, Kept
  <1>6. CASE UNCHANGED vars
    BY <1>6 DEF vars, IInv, Kept
  <1> QED
    BY <1>1, <1>2, <1>3, <1>4, <1>5, <1>6 DEF Next

THEOREM Invariance == Spec => []IInv
  BY InitIInv, NextIInv, PTL DEF Spec

\* Every record of the session is sound.
LEMMA RecordsFit ==
    ASSUME IInv, NEW s \in Records
    PROVE  Fit(s)
  BY DEF IInv, Kept, Records

\* The variables keep their types and a position is one of the plan.
THEOREM TypeCorrect == Spec => []TypeOK
  <1>1. IInv => TypeOK
    <2> SUFFICES ASSUME IInv PROVE TypeOK
      OBVIOUS
    <2>1. mem \in Session \cup {NoSession} /\ disk \in Session \cup {Absent, Corrupt}
      BY DEF IInv, Kept, Fit, Sound
    <2>2. \A s \in Records : s.variant # NoVariant => s.index + 1 \in DOMAIN Plan[s.variant]
      BY RecordsFit DEF Fit, Sound, Positioned
    <2> QED
      BY <2>1, <2>2 DEF IInv, Kept, TypeOK
  <1> QED
    BY <1>1, Invariance, PTL

\* The safety gate: no unsafe action is presented without its confirmation.
THEOREM GateHolds == Spec => []UnsafeConfirmed
  <1>1. IInv => UnsafeConfirmed
    <2> SUFFICES ASSUME IInv, ConfirmRequired, NEW s \in Records
                 PROVE  /\ s.presented \cap Unsafe \subseteq s.confirmed
                        /\ s.confirmed \subseteq s.presented \cap Unsafe
                        /\ s.status \in {"step", "resolved"} /\ s.variant # NoVariant =>
                               /\ s.current \in s.presented
                               /\ s.current = Plan[s.variant][s.index + 1]
      BY DEF UnsafeConfirmed
    <2>1. Sound(s)
      BY RecordsFit DEF Fit
    <2>2. s.status \in {"step", "resolved"} => s.pending = NoAction
      BY <2>1 DEF Sound, Asking
    <2> QED
      BY <2>1, <2>2 DEF Sound, Gated, Standing
  <1> QED
    BY <1>1, Invariance, PTL

\* A session asks one thing at a time, about the action it stands at.
THEOREM OneAtATime == Spec => []OneQuestion
  <1>1. IInv => OneQuestion
    BY RecordsFit DEF OneQuestion, Fit, Sound, Asking
  <1> QED
    BY <1>1, Invariance, PTL

\* resolved is fail-closed.
THEOREM ResolvedIsSound == Spec => []ResolvedSound
  <1>1. IInv => ResolvedSound
    <2> SUFFICES ASSUME IInv, NEW s \in Records, s.status = "resolved"
                 PROVE  /\ s.resolved \in s.presented \cap s.answered \cap VerifiedFix
                        /\ ConfirmRequired /\ s.resolved \in Unsafe =>
                               s.resolved \in s.confirmed
      BY DEF ResolvedSound
    <2> QED
      BY RecordsFit DEF Fit, Sound, Resolution, Gated
  <1> QED
    BY <1>1, Invariance, PTL

\* A session whose turns are used up is closed.
THEOREM TurnsAreBounded == Spec => []TurnsBounded
  <1>1. IInv => TurnsBounded
    BY RecordsFit DEF TurnsBounded, Fit, InTime
  <1> QED
    BY <1>1, Invariance, PTL

\* Evidence in the query has been recorded as processed.
THEOREM EvidenceIsOnce == Spec => []EvidenceOnce
  <1>1. IInv => EvidenceOnce
    BY RecordsFit DEF EvidenceOnce, Fit, Sound
  <1> QED
    BY <1>1, Invariance, PTL
=============================================================================
