------------------- MODULE DiagnosticSessionSteps_proofs -------------------
(***************************************************************************)
(* The action properties of DiagnosticSession and its refinement of        *)
(* GuidedDiagnosis, for every plan, rule set, message set and bound.       *)
(*                                                                         *)
(* Every call ends in one of three ways (Moved): the record is carried     *)
(* over, the diagnosis is begun anew, or the plan is walked on a message.  *)
(* A crash loses the dictionary and not the record, because the file holds *)
(* what the dictionary held; a record with a plan is pinned to a revision. *)
(*                                                                         *)
(* At the end: what a session waits for can be answered by its plan, and   *)
(* every call counts a turn (Went), on which the end of a session rests.   *)
(***************************************************************************)
EXTENDS DiagnosticSession_proofs

Pinned(s) == s.variant # NoVariant => s.revision # NoRevision

\* The inductive invariant.
SInv ==
    /\ IInv
    /\ mem # NoSession => disk = mem
    /\ Known => Pinned(Stored)

Guarded == IF ConfirmRequired THEN Unsafe ELSE {}

\* The plan is the same and nothing is presented, asked, granted or resolved.
Carried(s, t) ==
    /\ t.confirmed = s.confirmed /\ t.presented = s.presented
    /\ t.ruled_out = s.ruled_out /\ t.resolved = s.resolved
    /\ t.revision = s.revision /\ t.variant = s.variant
    /\ t.pending = s.pending
    /\ t.status # s.status => s.status \notin Closed /\ t.status # "resolved"

\* The record of a diagnosis that has just begun, or of a session that has.
Anew(t) ==
    /\ t.confirmed = {} /\ t.status \notin Closed
    /\ t.revision = graph /\ t.resolved = NoAction
    /\ \/ t.presented = {} /\ t.pending \in Guarded \cup {NoAction}
       \/ t.pending = NoAction /\ \E a \in Action \ Guarded : t.presented = {a}
Begun(t) == t = Fresh \/ Anew(t)

\* The walk shows an action, asks about one, or ends without a resolution.
Shown(s, t) == /\ t.status = "step" /\ t.pending = NoAction
               /\ \E a \in Action \ (Guarded \ t.confirmed) : t.presented = s.presented \cup {a}
Asked(s, t) == /\ t.status = "ask_info" /\ t.presented = s.presented
               /\ t.pending \in Guarded \ t.confirmed
Ended(s, t) == /\ t.status = "escalate" /\ t.presented = s.presented
               /\ t.pending = NoAction
Onward(s, t) ==
    /\ t.revision = s.revision /\ t.variant = s.variant
    /\ t.confirmed = s.confirmed /\ t.resolved = s.resolved
    /\ Shown(s, t) \/ Asked(s, t) \/ Ended(s, t)

\* The action asked about is confirmed by m and shown.
Granted(s, t, m) ==
    /\ s.pending \in Action
    /\ t.confirmed = s.confirmed \cup {s.pending}
    /\ t.presented = s.presented \cup {s.pending}
    /\ t.pending = NoAction /\ t.status = "step" /\ t.resolved = s.resolved
    /\ "confirm" \in m.phrases /\ "reject" \notin m.phrases

\* The action the session stands at is reported by m to be the fix.
Fixed(s, t, m) ==
    /\ t.status = "resolved"
    /\ s.pending = NoAction /\ t.pending = NoAction
    /\ t.confirmed = s.confirmed /\ t.presented = s.presented
    /\ t.resolved = s.current
    /\ t.resolved \in s.presented
    /\ Verified(t.resolved, m)
    /\ \/ s.branching = t.resolved /\ s.branch_outcome = "verified_fix"
       \/ s.branching = NoAction /\ Classify(m) = "verified_fix"

\* The plan of s is walked to t on the message m.
Walked(s, t, m) ==
    /\ s.status \notin Closed
    /\ t.revision = graph /\ t.variant = s.variant
    /\ Onward(s, t) \/ Granted(s, t, m) \/ Fixed(s, t, m)

\* What a step leaves for the next call to read is t, if it can be read.
Written(t) ==
    /\ mem' # NoSession => disk' = mem'
    /\ Known' => Stored' = t

\* A call of step, or no call, makes t of what was stored; or start makes it.
Continued(t) ==
    /\ starts' = starts
    /\ \/ ~Known /\ ~Known'
       \/ Known /\ Carried(Stored, t)
       \/ Known /\ Stored.status \notin Closed /\ Begun(t)
       \/ Known /\ \E m \in Message : heard' = m /\ Walked(Stored, t, m)
Moved == \E t : /\ Written(t)
                /\ Continued(t) \/ (starts' = starts + 1 /\ Begun(t))
-----------------------------------------------------------------------------
\* A handler's last save, and the saves before it.
LEMMA CommitWrites ==
    ASSUME NEW t, Commit(t) \/ (Crash /\ disk' = t)
    PROVE  Written(t)
  <1>1. CASE Respond(t)
    BY <1>1 DEF Respond, Written, Known, Stored
  <1>2. CASE Crash /\ disk' \in {t, Corrupt}
    BY <1>2 DEF Crash, Written, Known, Stored
  <1> QED
    BY <1>1, <1>2 DEF Commit

\* The fields of the properties are those of the record that was read.
Read(s, t) ==
    /\ Carried(s, t) /\ t.status = s.status
    /\ t.current = s.current /\ t.pending = s.pending
    /\ t.branching = s.branching /\ t.branch_outcome = s.branch_outcome

LEMMA BeginReads ==
    ASSUME SInv, Known
    PROVE  Stored \in Session /\ Begin \in Session /\ Read(Stored, Begin)
  <1>1. Fit(Stored) /\ Sound(Begin)
    BY BeginSound DEF SInv
  <1>2. Stored \in Session /\ Begin \in Session
    BY <1>1 DEF Fit, Sound
  <1> HIDE DEF Stored
  <1>3. Read(Stored, Begin)
    BY <1>2 DEF Begin, Session, Read, Carried
  <1> QED
    BY <1>2, <1>3

LEMMA RecordReads ==
    ASSUME NEW s \in Session, NEW R
    PROVE  Read(s, Record(s, R))
  BY DEF Record, Session, Read, Carried

LEMMA LookedReads ==
    ASSUME SInv, InTurns, NEW m \in Message
    PROVE  /\ Read(Stored, Looked(m)) /\ Read(Stored, Begin)
           /\ Stored.status \notin Closed
           /\ Alive(Looked(m)) /\ Looked(m) \in Session
  <1>1. Read(Stored, Begin) /\ Begin \in Session /\ Begin.status \notin Closed
    BY BeginReads DEF InTurns
  <1>2. Alive(Looked(m)) /\ Looked(m) \in Session
    BY LookedAlive DEF SInv, Alive, Sound
  <1>3. Looked(m) = Begin \/ Looked(m) = Record(Begin, m.resources)
    BY DEF Looked
  <1>4. Read(Begin, Record(Begin, m.resources))
    BY <1>1, RecordReads
  <1>5. Read(Stored, Looked(m))
    BY <1>1, <1>3, <1>4 DEF Read, Carried
  <1> QED
    BY <1>1, <1>2, <1>5 DEF Read
-----------------------------------------------------------------------------
\* A record that stands in a plan and asks for nothing.
Placed(s) == s \in Session /\ s.variant \in Variant /\ s.pending = NoAction

LEMMA ShowOnward ==
    ASSUME NEW s, Placed(s), NEW i \in DOMAIN Plan[s.variant],
           Plan[s.variant][i] \notin Guarded \ s.confirmed
    PROVE  Onward(s, Show(s, i)) /\ Shown(s, Show(s, i))
  <1> DEFINE t == Show(s, i)
             a == Plan[s.variant][i]
  <1>1. a \in Action
    BY PlanActions DEF Placed
  <1>2. /\ t.revision = s.revision /\ t.variant = s.variant /\ t.confirmed = s.confirmed
        /\ t.resolved = s.resolved /\ t.presented = s.presented \cup {a}
        /\ t.status = "step" /\ t.pending = NoAction
    BY DEF Placed, Show, Session
  <1> HIDE DEF t, a
  <1>3. a \notin Guarded \ s.confirmed
    BY DEF a
  <1> QED
    BY <1>1, <1>2, <1>3 DEF Onward, Shown, t

\* _present_step: the gate decides whether to show or to ask.
LEMMA PresentOnward ==
    ASSUME NEW s, Placed(s), NEW i \in DOMAIN Plan[s.variant]
    PROVE  /\ Onward(s, Present(s, i))
           /\ Shown(s, Present(s, i)) \/ Asked(s, Present(s, i))
  <1> DEFINE t == AskConfirmation(s, i)
             a == Plan[s.variant][i]
  <1>1. CASE ~NeedsConfirmation(s, a)
    BY <1>1, ShowOnward DEF Present, NeedsConfirmation, Guarded
  <1>2. CASE NeedsConfirmation(s, a)
    <2>1. a \in Guarded \ s.confirmed
      BY <1>2 DEF NeedsConfirmation, Guarded
    <2>2. /\ t.revision = s.revision /\ t.variant = s.variant /\ t.confirmed = s.confirmed
          /\ t.resolved = s.resolved /\ t.presented = s.presented
          /\ t.status = "ask_info" /\ t.pending = a
      BY DEF Placed, AskConfirmation, Session
    <2>3. Onward(s, t) /\ Asked(s, t)
      BY <2>1, <2>2 DEF Onward, Asked
    <2> QED
      BY <1>2, <2>3 DEF Present
  <1> QED
    BY <1>1, <1>2

LEMMA EscalateOnward ==
    ASSUME NEW s, Placed(s), NEW reason
    PROVE  Onward(s, Escalate(s, reason))
  BY DEF Placed, Escalate, Session, Onward, Ended

\* What goes on from w goes on from a record with the same past.
LEMMA OnwardFrom ==
    ASSUME NEW s, NEW w, NEW t, Onward(w, t),
           w.revision = s.revision, w.variant = s.variant, w.confirmed = s.confirmed,
           w.resolved = s.resolved, w.presented = s.presented
    PROVE  Onward(s, t)
  BY DEF Onward, Shown, Asked, Ended

LEMMA AdvanceOnward ==
    ASSUME NEW s, Placed(s), s.current \in Action, NEW t \in Advance(s)
    PROVE  Onward(s, t)
  <1> DEFINE u == [s EXCEPT !.ruled_out = @ \cup {s.current}]
  <1>1. /\ Placed(u)
        /\ u.revision = s.revision /\ u.variant = s.variant /\ u.confirmed = s.confirmed
        /\ u.resolved = s.resolved /\ u.presented = s.presented
    BY DEF Placed, Session
  <1>2. \/ t = Escalate(u, "kg_v2_plan_exhausted")
        \/ \E i \in DOMAIN Plan[s.variant] : t = Present(u, i)
    BY DEF Advance
  <1> HIDE DEF u
  <1>3. Onward(u, t)
    BY <1>1, <1>2, PresentOnward, EscalateOnward
  <1> QED
    BY <1>1, <1>3, OnwardFrom

\* _follow_branch resolves what the rule was followed from, if its fix is
\* verified by the message and the outcome is one.
LEMMA FollowOnward ==
    ASSUME NEW s, Placed(s), NEW a \in Action, NEW o, NEW r, NEW m,
           NEW t \in Follow(s, a, o, r, m)
    PROVE  \/ Onward(s, t)
           \/ t = PendingValidation(s)
           \/ t = Resolve(s, a) /\ Verified(a, m) /\ o = "verified_fix"
  <1>1. \/ t = Resolve(s, a) /\ Verified(a, m) /\ o = "verified_fix"
        \/ t = PendingValidation(s)
        \/ \E reason : t = Escalate(s, reason)
        \/ \E i \in DOMAIN Plan[s.variant] : t = Present(s, i)
    BY DEF Follow, PresentAction, Positions
  <1> QED
    BY <1>1, PresentOnward, EscalateOnward

\* _start_state begins a diagnosis on the current revision.
LEMMA StartStateBegins ==
    ASSUME graph \in Revision, NEW s \in Session, NEW t \in StartState(s)
    PROVE  Anew(t)
  <1> DEFINE r == Reset(s)
             document == [r EXCEPT !.lock = "document_answer_only"]
             New(u) == /\ u \in Session /\ u.confirmed = {} /\ u.presented = {}
                       /\ u.pending = NoAction /\ u.resolved = NoAction
                       /\ u.status = "step" /\ u.revision = graph
  <1>1. r.revision = graph /\ r.resolved = NoAction
    BY FreshSound DEF Reset, Sound, Session, Fresh
  <1>2. New(r)
    BY <1>1, ResetBlank DEF Blank
  <1> HIDE DEF r
  <1>3. New(document)
    <2>1. document \in Session
      BY <1>2, LockSession DEF Lock
    <2> QED
      BY <1>2, <2>1 DEF Session
  <1>4. ASSUME NEW v \in Variant
        PROVE  /\ New(Bind(r, v)) /\ Bind(r, v).variant = v
               /\ 1 \in DOMAIN Plan[v]
    <2>1. Bind(r, v) \in Session
      BY <1>2, BindSession
    <2>2. Plan[v] \in Seq(Action) /\ Plan[v] # << >>
      BY PlanAssumption
    <2> QED
      BY <1>2, <2>1, <2>2 DEF Bind, Session
  <1>5. ASSUME NEW u, New(u), NEW question, NEW reason
        PROVE  Anew(Ask(u, question, reason))
    BY <1>5 DEF Ask, Session, Anew, Closed
  <1>6. ASSUME NEW u, New(u), u.variant \in Variant, 1 \in DOMAIN Plan[u.variant]
        PROVE  Anew(Present(u, 1))
    <2> DEFINE p == Present(u, 1)
    <2>1. Onward(u, p) /\ (Shown(u, p) \/ Asked(u, p))
      BY <1>6, PresentOnward DEF Placed
    <2> HIDE DEF p
    <2> QED
      BY <1>6, <2>1 DEF Onward, Shown, Asked, Anew, Closed, p
  <1>7. CASE t = document
    BY <1>3, <1>7 DEF Anew, Closed
  <1> HIDE DEF document, New
  <1>8. CASE t = Ask(document, "document", "document_answer_variant_unverified")
    BY <1>3, <1>5, <1>8
  <1>9. CASE t = Ask(r, "symptom", "no_kg_v2_variant_match")
    BY <1>2, <1>5, <1>9
  <1>10. ASSUME NEW v \in Variant,
                \/ t = Present(Bind(r, v), 1)
                \/ t = Ask(Bind(r, v), "branch_context", "missing_branch_context")
         PROVE  Anew(t)
    BY <1>4, <1>5, <1>6, <1>10
  <1> QED
    BY <1>7, <1>8, <1>9, <1>10 DEF StartState, r, document
-----------------------------------------------------------------------------
\* start, and its crashes.
LEMMA StartMoves ==
    ASSUME SInv, NEW R \in SUBSET Resource, Start(R) \/ CrashInStart(R)
    PROVE  Moved
  <1>0. graph \in Revision /\ Fresh \in Session /\ starts' = starts + 1
    BY FreshSound DEF SInv, IInv, Sound, Start, CrashInStart, Starting
  <1>1. ASSUME NEW u \in StartState(Fresh)
        PROVE  Begun(u) /\ Begun(Record(u, R)) /\ WithEvidence(u, R) \in Session
    <2>1. Anew(u) /\ Sound(u)
      BY <1>0, StartStateBegins, StartStateSound, FreshSound DEF Sound
    <2>2. Read(u, Record(u, R))
      BY <2>1, RecordReads DEF Sound
    <2> QED
      BY <2>1, <2>2, EvidenceSound DEF Begun, Anew, Read, Carried
  <1>2. ASSUME NEW t, Begun(t), Written(t)
        PROVE  Moved
    BY <1>0, <1>2 DEF Moved
  <1>3. CASE Start(R)
    <2>1. PICK t \in Started(R) : Commit(t)
      BY <1>3 DEF Start
    <2>2. PICK u \in StartState(Fresh) :
              t = u \/ t = Record(u, R) \/ t \in StartState(WithEvidence(u, R))
      BY <2>1 DEF Started
    <2>3. Begun(t)
      BY <1>0, <1>1, <2>2, StartStateBegins DEF Begun
    <2> QED
      BY <1>2, <2>1, <2>3, CommitWrites
  <1>4. CASE CrashInStart(R)
    <2>1. PICK t : /\ Crash /\ disk' = t
                   /\ t = Fresh \/ \E u \in StartState(Fresh) : t = u \/ t = Record(u, R)
      BY <1>4 DEF CrashInStart
    <2>2. Begun(t)
      BY <1>1, <2>1 DEF Begun
    <2> QED
      BY <1>2, <2>1, <2>2, CommitWrites
  <1> QED
    BY <1>3, <1>4

\* A record carried on from one that carries what was read.
LEMMA CarriedMoves ==
    ASSUME Known, starts' = starts,
           NEW l, Read(Stored, l), NEW t, Carried(l, t), Written(t)
    PROVE  Moved
  <1>1. Carried(Stored, t)
    BY DEF Read, Carried
  <1> QED
    BY <1>1 DEF Moved, Continued

\* The calls that do not look at their message.
LEMMA StepUnreadMoves ==
    ASSUME SInv, StepClosed \/ StepMaxTurns
    PROVE  Moved
  <1>1. Known /\ starts' = starts /\ Read(Stored, Begin) /\ Begin \in Session
    BY BeginReads DEF StepClosed, StepMaxTurns, Unread
  <1>2. CASE StepClosed
    <2>1. Written(Begin) /\ Carried(Begin, Begin)
      BY <1>2, CommitWrites DEF StepClosed, Carried
    <2> QED
      BY <1>1, <2>1, CarriedMoves
  <1>3. CASE StepMaxTurns
    <2> DEFINE t == Escalate(Begin, "max_turns_reached")
    <2>1. Written(t) /\ Begin.status \notin Closed
      BY <1>3, CommitWrites DEF StepMaxTurns
    <2>2. Carried(Begin, t)
      BY <1>1, <2>1 DEF Escalate, Session, Carried
    <2> QED
      BY <1>1, <2>1, <2>2, CarriedMoves
  <1> QED
    BY <1>2, <1>3

\* The evidence-gap block and what follows it up to the restored plan.
LEMMA StepEvidenceMoves ==
    ASSUME SInv, NEW m \in Message,
           \/ StepIncident(m) \/ StepEvidence(m) \/ CrashInEvidence(m)
           \/ StepNothingFound(m) \/ StepDocument(m) \/ StepInvalid(m)
    PROVE  Moved
  <1> DEFINE l == Looked(m)
             R == m.resources
  <1>0. InTurns /\ Known /\ starts' = starts
    BY DEF StepIncident, StepEvidence, CrashInEvidence, StepNothingFound,
           StepDocument, StepInvalid, PastGap, InTurns, Hear, Unread
  <1>1. /\ Read(Stored, l) /\ Read(Stored, Begin) /\ Stored.status \notin Closed
        /\ l \in Session /\ Begin \in Session /\ Sound(Begin)
        /\ R \in SUBSET Resource /\ graph \in Revision
    BY <1>0, LookedReads, LookedAlive, BeginReads, BeginSound DEF SInv, IInv
  <1> HIDE DEF l, R
  <1>2. ASSUME NEW s \in Session, NEW t \in StartState(s), Commit(t)
        PROVE  Moved
    <2>1. Begun(t) /\ Written(t)
      BY <1>1, <1>2, StartStateBegins, CommitWrites DEF Begun
    <2> QED
      BY <1>0, <1>1, <2>1 DEF Moved, Continued
  <1>3. CASE StepIncident(m)
    <2>1. Written(Begin) /\ Carried(Begin, Begin)
      BY <1>3, CommitWrites DEF StepIncident, Carried
    <2> QED
      BY <1>0, <1>1, <2>1, CarriedMoves
  <1>4. CASE StepEvidence(m)
    <2>1. WithEvidence(Begin, R) \in Session
      BY <1>1, EvidenceSound
    <2> QED
      BY <1>2, <1>4, <2>1 DEF StepEvidence, R
  <1>5. CASE CrashInEvidence(m) \/ StepNothingFound(m)
    <2>1. Written(Record(Begin, R))
      BY <1>5, CommitWrites DEF CrashInEvidence, StepNothingFound, R
    <2>2. Carried(Begin, Record(Begin, R))
      BY <1>1, RecordReads DEF Read
    <2> QED
      BY <1>0, <1>1, <2>1, <2>2, CarriedMoves
  <1>6. CASE StepDocument(m)
    <2>1. [l EXCEPT !.query = {}] \in Session
      BY <1>1 DEF Session
    <2> QED
      BY <1>2, <1>6, <2>1 DEF StepDocument, l
  <1>7. CASE StepInvalid(m)
    <2> DEFINE t == [l EXCEPT !.status = "failed", !.failure = "invalid_kg_v2_session"]
    <2>1. Written(t)
      BY <1>7, CommitWrites DEF StepInvalid, l
    <2>2. Carried(l, t)
      BY <1>1 DEF Session, Carried, Read
    <2> QED
      BY <1>0, <1>1, <2>1, <2>2, CarriedMoves
  <1> QED
    BY <1>3, <1>4, <1>5, <1>6, <1>7
-----------------------------------------------------------------------------
\* The plan is restored for the message m: it is the one of the current revision.
Heard(m) == /\ Known /\ Stored.status \notin Closed
            /\ starts' = starts /\ heard' = m

LEMMA PlannedReads ==
    ASSUME SInv, NEW m \in Message, Planned(m)
    PROVE  /\ Known /\ Stored.status \notin Closed /\ Read(Stored, Looked(m))
           /\ Alive(Looked(m)) /\ Looked(m) \in Session
           /\ Looked(m).revision = graph /\ Looked(m).variant \in Variant
           /\ Restorable(Looked(m))
  <1>1. InTurns /\ Known /\ Restorable(Looked(m))
    BY DEF Planned, PastGap, InTurns
  <1>2. /\ Read(Stored, Looked(m)) /\ Stored.status \notin Closed
        /\ Alive(Looked(m)) /\ Looked(m) \in Session
    BY <1>1, LookedReads
  <1>3. Looked(m).variant \in Variant
    BY <1>1, <1>2 DEF Session, Restorable
  <1>4. Looked(m).revision = graph
    BY <1>1, <1>2 DEF SInv, Pinned, Read, Carried, Restorable
  <1> QED
    BY <1>1, <1>2, <1>3, <1>4

LEMMA WalkedMoves ==
    ASSUME NEW m \in Message, Heard(m), NEW t, Walked(Stored, t, m), Written(t)
    PROVE  Moved
  BY DEF Heard, Moved, Continued

\* A walk that confirms and resolves nothing.
LEMMA OnwardMoves ==
    ASSUME NEW m \in Message, Heard(m),
           NEW l, Read(Stored, l), l.revision = graph,
           NEW t, Onward(l, t), Written(t)
    PROVE  Moved
  <1>1. Onward(Stored, t)
    BY OnwardFrom DEF Read, Carried
  <1>2. Walked(Stored, t, m)
    BY <1>1 DEF Onward, Read, Carried, Walked, Heard
  <1> QED
    BY <1>2, WalkedMoves

\* A walk that resolves what the session stands at.
LEMMA ResolveMoves ==
    ASSUME NEW m \in Message, Heard(m),
           NEW l, Read(Stored, l), l.revision = graph, l.pending = NoAction,
           l.current \in l.presented, Verified(l.current, m),
           \/ l.branching = l.current /\ l.branch_outcome = "verified_fix"
           \/ l.branching = NoAction /\ Classify(m) = "verified_fix",
           NEW w \in Session, Carried(l, w), Written(Resolve(w, l.current))
    PROVE  Moved
  <1> DEFINE t == Resolve(w, l.current)
  <1>1. /\ t.status = "resolved" /\ t.resolved = l.current
        /\ t.variant = l.variant /\ t.revision = l.revision
        /\ t.confirmed = l.confirmed /\ t.presented = l.presented
        /\ t.pending = NoAction
    BY DEF Resolve, Session, Carried
  <1> HIDE DEF t
  <1>2. Fixed(Stored, t, m)
    BY <1>1 DEF Fixed, Read, Carried
  <1>3. Walked(Stored, t, m)
    BY <1>1, <1>2 DEF Walked, Heard, Read, Carried
  <1> QED
    BY <1>3, WalkedMoves DEF t

\* The answer to a confirmation.
LEMMA StepConfirmationMoves ==
    ASSUME SInv, NEW m \in Message,
           StepReject(m) \/ StepConfirm(m) \/ StepUnclear(m)
    PROVE  Moved
  <1> DEFINE l == Looked(m)
  <1>0. Planned(m) /\ l.pending # NoAction /\ Heard(m)
    BY PlannedReads DEF StepReject, StepConfirm, StepUnclear, Confirming, Hear, Heard
  <1>1. /\ Known /\ Stored.status \notin Closed /\ Read(Stored, l) /\ starts' = starts
        /\ Alive(l) /\ l \in Session /\ l.revision = graph /\ l.variant \in Variant
    BY <1>0, PlannedReads DEF Heard
  <1> HIDE DEF l
  <1>2. l.pending \in Action /\ l.current = l.pending
    BY <1>0, <1>1 DEF Alive, Sound, Asking, Session
  <1>3. CASE StepReject(m)
    <2> DEFINE w == [l EXCEPT !.ruled_out = @ \cup {l.pending}, !.pending = NoAction]
    <2>1. PICK t \in Advance(w) : Commit(t)
      BY <1>3 DEF StepReject, l
    <2>2. w \in Session
      <3>1. l.ruled_out \cup {l.pending} \in SUBSET Action
        BY <1>1, <1>2 DEF Session
      <3> QED
        BY <1>1, <3>1 DEF Session
    <2>3. /\ w.current = l.current /\ w.confirmed = l.confirmed
          /\ w.revision = l.revision /\ w.variant = l.variant
          /\ w.resolved = l.resolved /\ w.presented = l.presented
          /\ w.pending = NoAction
      BY <1>1 DEF Session
    <2> HIDE DEF w
    <2>4. Onward(w, t)
      BY <1>1, <1>2, <2>1, <2>2, <2>3, AdvanceOnward DEF Placed
    <2>5. Onward(l, t)
      BY <2>3, <2>4, OnwardFrom
    <2> QED
      BY <1>0, <1>1, <2>1, <2>5, CommitWrites, OnwardMoves
  <1>4. CASE StepConfirm(m)
    <2> DEFINE w == [[l EXCEPT !.pending = NoAction] EXCEPT !.confirmed = @ \cup {l.pending}]
    <2>1. PICK i \in Positions([l EXCEPT !.pending = NoAction], l.pending) : Commit(Show(w, i))
      BY <1>4 DEF StepConfirm, l
    <2>2. w \in Session
      <3>1. l.confirmed \cup {l.pending} \in SUBSET Action
        BY <1>1, <1>2 DEF Session
      <3> QED
        BY <1>1, <3>1 DEF Session
    <2>3. /\ w.confirmed = l.confirmed \cup {l.pending} /\ w.presented = l.presented
          /\ w.revision = l.revision /\ w.variant = l.variant
          /\ w.resolved = l.resolved /\ w.pending = NoAction
      BY <1>1 DEF Session
    <2>4. Plan[l.variant][i] = l.pending
      BY <1>1, <2>1 DEF Positions, Session
    <2> HIDE DEF w
    <2> DEFINE t == Show(w, i)
    <2>5. /\ t.revision = graph /\ t.variant = l.variant
          /\ t.confirmed = l.confirmed \cup {l.pending}
          /\ t.resolved = l.resolved /\ t.presented = l.presented \cup {l.pending}
          /\ t.status = "step" /\ t.pending = NoAction
      BY <1>1, <2>2, <2>3, <2>4 DEF Show, Session
    <2> HIDE DEF t
    <2>6. "reject" \notin m.phrases /\ "confirm" \in m.phrases
      BY <1>4 DEF StepConfirm
    <2>7. Granted(Stored, t, m)
      BY <1>1, <1>2, <2>5, <2>6 DEF Read, Carried, Granted
    <2>8. Walked(Stored, t, m)
      BY <1>1, <2>5, <2>7 DEF Read, Carried, Walked
    <2> QED
      BY <1>0, <2>1, <2>8, CommitWrites, WalkedMoves DEF t
  <1>5. CASE StepUnclear(m)
    <2> DEFINE t == [l EXCEPT !.required = "confirm"]
    <2>1. Written(t)
      BY <1>5, CommitWrites DEF StepUnclear, l
    <2>2. Carried(l, t)
      BY <1>1 DEF Session, Carried
    <2> QED
      BY <1>1, <2>1, <2>2, CarriedMoves
  <1> QED
    BY <1>3, <1>4, <1>5

\* A branch that is followed from the action the session stands at.
LEMMA FollowMoves ==
    ASSUME NEW m \in Message, Heard(m),
           NEW l, Read(Stored, l), l.revision = graph, l.pending = NoAction,
           l.variant \in Variant, l.status \notin Closed,
           l.current \in l.presented, l.current \in Action,
           NEW w \in Session, Carried(l, w), w.status = l.status,
           NEW o, NEW r,
           \/ l.branching = l.current /\ o = l.branch_outcome
           \/ l.branching = NoAction /\ o = Classify(m),
           NEW t \in Follow(w, l.current, o, r, m), Written(t)
    PROVE  Moved
  <1>1. Placed(w)
    BY DEF Placed, Carried
  <1>2. CASE Onward(w, t)
    <2>1. Onward(l, t)
      BY <1>2, OnwardFrom DEF Carried
    <2> QED
      BY <2>1, OnwardMoves
  <1>3. CASE t = PendingValidation(w)
    <2>1. Carried(l, t)
      BY <1>3 DEF PendingValidation, Session, Carried
    <2> QED
      BY <2>1, CarriedMoves DEF Heard
  <1>4. CASE t = Resolve(w, l.current) /\ Verified(l.current, m) /\ o = "verified_fix"
    BY <1>4, ResolveMoves
  <1> QED
    BY <1>1, <1>2, <1>3, <1>4, FollowOnward

\* The answer to a branch condition.
LEMMA StepBranchingMoves ==
    ASSUME SInv, NEW m \in Message, StepStillUnclear(m) \/ StepBranch(m)
    PROVE  Moved
  <1> DEFINE l == Looked(m)
  <1>0. Planned(m) /\ l.pending = NoAction /\ l.branching # NoAction /\ Heard(m)
    BY PlannedReads DEF StepStillUnclear, StepBranch, Branching, Hear, Heard
  <1>1. /\ Known /\ Read(Stored, l) /\ starts' = starts /\ l.status \notin Closed
        /\ Alive(l) /\ l \in Session /\ l.revision = graph /\ l.variant \in Variant
    BY <1>0, PlannedReads DEF Heard, Alive
  <1> HIDE DEF l
  <1>2. l.current = l.branching /\ l.current \in l.presented /\ l.branching \in Action
    BY <1>0, <1>1 DEF Alive, Sound, Asking, Session
  <1>3. CASE StepStillUnclear(m)
    <2> DEFINE t == AskCondition(l, l.branching, l.branch_outcome)
    <2>1. Written(t)
      BY <1>3, CommitWrites DEF StepStillUnclear, l
    <2>2. Carried(l, t)
      BY <1>1 DEF AskCondition, Session, Carried
    <2> QED
      BY <1>1, <2>1, <2>2, CarriedMoves
  <1>4. CASE StepBranch(m)
    <2> DEFINE w == [l EXCEPT !.branching = NoAction, !.branch_outcome = NoOutcome,
                              !.answered = @ \cup {l.branching}]
    <2>0. PICK r \in BranchOf(l, m) :
              \E t \in Follow(w, l.branching, l.branch_outcome, r, m) : Commit(t)
      BY <1>4 DEF StepBranch, l
    <2>1. PICK t \in Follow(w, l.branching, l.branch_outcome, r, m) : Commit(t)
      BY <2>0
    <2>2. w \in Session
      <3>1. l.answered \cup {l.branching} \in SUBSET Action
        BY <1>1, <1>2 DEF Session
      <3> QED
        BY <1>1, <3>1 DEF Session
    <2>3. Carried(l, w) /\ w.status = l.status
      BY <1>1 DEF Session, Carried
    <2> HIDE DEF w
    <2>4. Written(t)
      BY <2>1, CommitWrites
    <2> QED
      BY <1>0, <1>1, <1>2, <2>1, <2>2, <2>3, <2>4, FollowMoves
  <1> QED
    BY <1>3, <1>4

\* More information, or the outcome of the current action.
LEMMA StepReportMoves ==
    ASSUME SInv, NEW m \in Message,
           \/ StepMoreInfo(m) \/ StepNoCurrent(m) \/ StepAskBranch(m)
           \/ StepFollow(m) \/ StepFixReported(m) \/ StepAdvance(m)
    PROVE  Moved
  <1> DEFINE l == Looked(m)
             w == Reported(m)
  <1>0. Planned(m) /\ l.pending = NoAction /\ l.branching = NoAction /\ Heard(m)
    BY PlannedReads
       DEF StepMoreInfo, StepNoCurrent, StepAskBranch, StepFollow, StepFixReported,
           StepAdvance, Reporting, Plain, Hear, Heard
  <1>1. /\ Known /\ Read(Stored, l) /\ starts' = starts /\ Stored.status \notin Closed
        /\ Alive(l) /\ l.status \notin Closed /\ Restorable(l) /\ graph \in Revision
        /\ l \in Session /\ l.revision = graph /\ l.variant \in Variant
    BY <1>0, PlannedReads DEF Heard, Alive, SInv, IInv
  <1>2. w = [l EXCEPT !.answered = @ \cup {l.current}]
    BY DEF Reported
  <1> HIDE DEF l, w
  <1>3. ASSUME InPlan(l, l.current)
        PROVE  /\ l.current \in Action /\ l.current \in l.presented
               /\ w \in Session /\ Carried(l, w) /\ w.current = l.current
               /\ w.status = l.status /\ Placed(w)
    <2>1. l.current \in Action /\ l.current \in l.presented
      BY <1>0, <1>1, <1>3, WalksStanding DEF Stands
    <2>2. l.answered \cup {l.current} \in SUBSET Action
      BY <1>1, <2>1 DEF Session
    <2>3. w \in Session /\ Carried(l, w) /\ w.current = l.current /\ w.status = l.status
      BY <1>1, <1>2, <2>2 DEF Session, Carried
    <2> QED
      BY <1>0, <1>1, <2>1, <2>3 DEF Placed, Carried
  <1>4. CASE StepMoreInfo(m)
    <2>1. PICK t \in StartState(l) : Commit(t)
      BY <1>4 DEF StepMoreInfo, l
    <2>2. Begun(t) /\ Written(t)
      BY <1>1, <2>1, StartStateBegins, CommitWrites DEF Begun
    <2> QED
      BY <1>1, <2>2 DEF Moved, Continued
  <1>5. CASE StepNoCurrent(m)
    <2>1. Written(Escalate(l, "current_action_not_in_plan"))
      BY <1>5, CommitWrites DEF StepNoCurrent, l
    <2>2. Placed(l)
      BY <1>0, <1>1 DEF Placed
    <2> QED
      BY <1>0, <1>1, <2>1, <2>2, EscalateOnward, OnwardMoves
  <1>6. CASE StepAskBranch(m)
    <2> DEFINE t == AskCondition(w, l.current, Classify(m))
    <2>1. Written(t) /\ InPlan(l, l.current)
      BY <1>6, CommitWrites DEF StepAskBranch, l, w
    <2>2. Carried(l, t)
      BY <1>1, <1>3, <2>1 DEF AskCondition, Session, Carried
    <2> QED
      BY <1>1, <2>1, <2>2, CarriedMoves
  <1>7. CASE StepFollow(m)
    <2>1. PICK r \in Rules(m) :
              \E t \in Follow(w, l.current, Classify(m), r, m) : Commit(t)
      BY <1>7 DEF StepFollow, l, w
    <2>2. PICK t \in Follow(w, l.current, Classify(m), r, m) : Commit(t)
      BY <2>1
    <2>3. InPlan(l, l.current) /\ Written(t)
      BY <1>7, <2>2, CommitWrites DEF StepFollow, l
    <2> QED
      BY <1>0, <1>1, <1>3, <2>2, <2>3, FollowMoves
  <1>8. CASE StepFixReported(m)
    <2>1. /\ Classify(m) = "verified_fix" /\ InPlan(l, l.current)
          /\ \/ Verified(l.current, m) /\ Written(Resolve(w, l.current))
             \/ Written(PendingValidation(w))
      BY <1>8, CommitWrites DEF StepFixReported, l, w
    <2>2. CASE Verified(l.current, m) /\ Written(Resolve(w, l.current))
      BY <1>0, <1>1, <1>3, <2>1, <2>2, ResolveMoves
    <2>3. CASE Written(PendingValidation(w))
      <3>1. Carried(l, PendingValidation(w))
        BY <1>1, <1>3, <2>1 DEF PendingValidation, Session, Carried
      <3> QED
        BY <1>1, <2>3, <3>1, CarriedMoves
    <2> QED
      BY <2>1, <2>2, <2>3
  <1>9. CASE StepAdvance(m)
    <2>1. PICK t \in Advance(w) : Commit(t)
      BY <1>9 DEF StepAdvance, w
    <2>2. InPlan(l, l.current) /\ Written(t)
      BY <1>9, <2>1, CommitWrites DEF StepAdvance, l
    <2>3. Onward(w, t)
      BY <1>3, <2>1, <2>2, AdvanceOnward
    <2>4. Onward(l, t)
      BY <1>3, <2>2, <2>3, OnwardFrom DEF Carried
    <2> QED
      BY <1>0, <1>1, <2>2, <2>4, OnwardMoves
  <1> QED
    BY <1>4, <1>5, <1>6, <1>7, <1>8, <1>9
-----------------------------------------------------------------------------
\* The record stays what it was, or stays unreadable.
LEMMA RestMoves ==
    ASSUME SInv, mem' \in {mem, NoSession}, disk' = disk, starts' = starts
    PROVE  Moved
  <1>1. CASE Known
    <2>1. Written(Stored) /\ Carried(Stored, Stored)
      BY <1>1 DEF SInv, Written, Known, Stored, Carried
    <2> QED
      BY <1>1, <2>1 DEF Moved, Continued
  <1>2. CASE ~Known
    <2>1. Written(Fresh) /\ ~Known'
      BY <1>2 DEF Written, Known
    <2> QED
      BY <1>2, <2>1 DEF Moved, Continued
  <1> QED
    BY <1>1, <1>2

LEMMA NextMoves ==
    ASSUME SInv, [Next]_vars
    PROVE  Moved
  <1>1. ASSUME NEW R \in SUBSET Resource, Start(R) \/ CrashInStart(R)
        PROVE  Moved
    BY <1>1, StartMoves
  <1>2. CASE StepClosed \/ StepMaxTurns
    BY <1>2, StepUnreadMoves
  <1>3. ASSUME NEW m \in Message, Step(m) \/ CrashInEvidence(m)
        PROVE  Moved
    BY <1>3, StepEvidenceMoves, StepConfirmationMoves, StepBranchingMoves, StepReportMoves
       DEF Step
  <1>4. CASE StepUnknown \/ Restart \/ Publish \/ UNCHANGED vars
    BY <1>4, RestMoves DEF StepUnknown, Unread, Restart, Crash, Publish, vars
  <1> QED
    BY <1>1, <1>2, <1>3, <1>4 DEF Next, StepUnread

\* The invariant is kept: a record that moved is pinned if the one it came
\* from was.
THEOREM StepInvariance == Spec => []SInv
  <1>1. Init => SInv
    BY InitIInv DEF Init, SInv, Known
  <1>2. ASSUME SInv, [Next]_vars
        PROVE  SInv'
    <2>1. IInv'
      BY <1>2, NextIInv DEF SInv
    <2>2. PICK t : Written(t) /\ (Continued(t) \/ (starts' = starts + 1 /\ Begun(t)))
      BY <1>2, NextMoves DEF Moved
    <2>3. graph \in Revision /\ (Known => Pinned(Stored))
      BY <1>2 DEF SInv, IInv
    <2>4. ASSUME Known' PROVE Pinned(t)
      <3>1. ASSUME Known, Carried(Stored, t) PROVE Pinned(t)
        BY <2>3, <3>1 DEF Carried, Pinned
      <3>2. ASSUME t = Fresh PROVE Pinned(t)
        BY <3>2 DEF Fresh, Pinned
      <3>3. ASSUME t.revision = graph PROVE Pinned(t)
        BY <2>3, <3>3, AbsentAssumption DEF Pinned
      <3> QED
        BY <2>2, <2>4, <3>1, <3>2, <3>3 DEF Continued, Begun, Anew, Walked
    <2>5. (mem # NoSession => disk = mem)' /\ (Known => Pinned(Stored))'
      BY <2>2, <2>4 DEF Written, Pinned
    <2> QED
      BY <2>1, <2>5 DEF SInv
  <1> QED
    BY <1>1, <1>2, PTL DEF Spec
-----------------------------------------------------------------------------
\* What the three ways mean for what the next call reads.
LEMMA CarriedKeeps ==
    ASSUME NEW s, NEW t, Carried(s, t) \/ t = Fresh
    PROVE  /\ t.presented \subseteq s.presented /\ t.confirmed \subseteq s.confirmed
           /\ t.ruled_out \subseteq s.ruled_out /\ t.resolved \in {s.resolved, NoAction}
           /\ t.status # "resolved" \/ t.status = s.status
  <1>1. CASE Carried(s, t)
    BY <1>1 DEF Carried
  <1>2. CASE t = Fresh
    BY <1>2 DEF Fresh
  <1> QED
    BY <1>1, <1>2

LEMMA ReadMoves ==
    ASSUME SInv, [Next]_vars, Known, Known'
    PROVE  \/ Carried(Stored, Stored') /\ starts' = starts
           \/ /\ Begun(Stored')
              /\ \/ starts' = starts /\ Stored.status \notin Closed
                 \/ starts' = starts + 1
           \/ heard' \in Message /\ Walked(Stored, Stored', heard') /\ starts' = starts
  <1>1. PICK t : Written(t) /\ (Continued(t) \/ (starts' = starts + 1 /\ Begun(t)))
    BY NextMoves DEF Moved
  <1>2. Stored' = t
    BY <1>1 DEF Written
  <1>3. \/ Carried(Stored, t) /\ starts' = starts
        \/ Begun(t) /\ starts' = starts /\ Stored.status \notin Closed
        \/ Begun(t) /\ starts' = starts + 1
        \/ heard' \in Message /\ Walked(Stored, t, heard') /\ starts' = starts
    BY <1>1 DEF Continued
  <1> QED
    BY <1>2, <1>3

LEMMA BegunBlank ==
    ASSUME NEW t, Begun(t)
    PROVE  /\ t.confirmed = {} /\ t.resolved = NoAction /\ t.status \notin Closed
           /\ \/ t.presented = {} /\ t.pending \in Guarded \cup {NoAction}
              \/ t.pending = NoAction /\ \E a \in Action \ Guarded : t.presented = {a}
  <1>1. CASE t = Fresh
    BY <1>1 DEF Fresh, Closed
  <1>2. CASE Anew(t)
    BY <1>2 DEF Anew
  <1> QED
    BY <1>1, <1>2 DEF Begun

\* resolved and escalate are final: until start is called again the session
\* keeps its status and its resolution, through restarts and crashes too.
THEOREM ClosedIsFinal == Spec => ClosedStays
  <1>1. ASSUME SInv, [Next]_vars, Known, Stored.status \in Closed, starts' = starts, Known'
        PROVE  Stored'.status = Stored.status /\ Stored'.resolved = Stored.resolved
    <2>1. starts \in Nat
      BY <1>1 DEF SInv, IInv
    <2> QED
      BY <1>1, <2>1, ReadMoves DEF Carried, Walked
  <1>2. ASSUME SInv, [Next]_vars
        PROVE  [Known /\ Stored.status \in Closed /\ starts' = starts /\ Known' =>
                 Stored'.status = Stored.status /\ Stored'.resolved = Stored.resolved]_vars
    BY <1>1, <1>2
  <1> QED
    BY <1>2, StepInvariance, PTL DEF Spec, ClosedStays

\* An action becomes confirmed only by the answer to the question about it.
THEOREM ConfirmationIsAnswered == Spec => ConfirmedByAnswer
  <1>1. ASSUME SInv, [Next]_vars, Known, Known', NEW a \in Stored'.confirmed \ Stored.confirmed
        PROVE  a = Stored.pending /\ "confirm" \in heard'.phrases
                                  /\ "reject" \notin heard'.phrases
    <2>1. ~Carried(Stored, Stored') /\ ~Begun(Stored')
      BY <1>1, CarriedKeeps, BegunBlank
    <2> QED
      BY <1>1, <2>1, ReadMoves DEF Walked, Onward, Granted, Fixed
  <1>2. ASSUME SInv, [Next]_vars
        PROVE  [Known /\ Known' =>
                 \A a \in Stored'.confirmed \ Stored.confirmed :
                     /\ a = Stored.pending
                     /\ "confirm" \in heard'.phrases
                     /\ "reject" \notin heard'.phrases]_vars
    BY <1>1, <1>2
  <1> QED
    BY <1>2, StepInvariance, PTL DEF Spec, ConfirmedByAnswer

\* What Classify must have seen.
LEMMA ClassifiedFix ==
    ASSUME NEW m, Classify(m) = "verified_fix"
    PROVE  "solved" \in m.phrases /\ m.phrases \cap Doubt = {}
  BY DEF Classify, Doubt

\* resolved is entered only on a report that reads as a verified fix of the
\* action the session stands at.
THEOREM ResolutionIsReported == Spec => ResolvedByReport
  <1>1. ASSUME SInv, [Next]_vars, Known, Known',
               Stored'.status = "resolved", Stored.status # "resolved"
        PROVE  LET a == Stored'.resolved
               IN  /\ a = Stored.current
                   /\ a \in Stored.presented
                   /\ \A g \in Activation[a] : g \cap heard'.signals # {}
                   /\ \/ Stored.branching = a /\ Stored.branch_outcome = "verified_fix"
                      \/ /\ Stored.branching = NoAction
                         /\ "solved" \in heard'.phrases
                         /\ heard'.phrases \cap Doubt = {}
    <2>1. ~Carried(Stored, Stored') /\ ~Begun(Stored')
      BY <1>1, CarriedKeeps, BegunBlank DEF Closed
    <2>2. Fixed(Stored, Stored', heard')
      BY <1>1, <2>1, ReadMoves DEF Walked, Onward, Shown, Asked, Ended, Granted
    <2> QED
      BY <2>2, ClassifiedFix DEF Fixed, Verified
  <1>2. ASSUME SInv, [Next]_vars
        PROVE  [Known /\ Known' /\ Stored'.status = "resolved" /\ Stored.status # "resolved" =>
                 LET a == Stored'.resolved
                 IN  /\ a = Stored.current
                     /\ a \in Stored.presented
                     /\ \A g \in Activation[a] : g \cap heard'.signals # {}
                     /\ \/ Stored.branching = a /\ Stored.branch_outcome = "verified_fix"
                        \/ /\ Stored.branching = NoAction
                           /\ "solved" \in heard'.phrases
                           /\ heard'.phrases \cap Doubt = {}]_vars
    BY <1>1, <1>2
  <1> QED
    BY <1>2, StepInvariance, PTL DEF Spec, ResolvedByReport

\* A plan is walked only on the graph revision it was compiled from.
THEOREM StalePlansStop == Spec => StalePlanStops
  <1>1. ASSUME SInv, [Next]_vars, Known, Known'
        PROVE  \/ Stored'.revision = graph
               \/ /\ Stored'.presented \subseteq Stored.presented
                  /\ Stored'.confirmed \subseteq Stored.confirmed
                  /\ Stored'.ruled_out \subseteq Stored.ruled_out
                  /\ Stored'.resolved \in {Stored.resolved, NoAction}
    <2>1. CASE Carried(Stored, Stored') \/ Stored' = Fresh
      BY <2>1, CarriedKeeps
    <2>2. CASE Anew(Stored') \/ Walked(Stored, Stored', heard')
      BY <2>2 DEF Anew, Walked
    <2> QED
      BY <1>1, <2>1, <2>2, ReadMoves DEF Begun
  <1>2. ASSUME SInv, [Next]_vars
        PROVE  [Known /\ Known' =>
                 \/ Stored'.revision = graph
                 \/ /\ Stored'.presented \subseteq Stored.presented
                    /\ Stored'.confirmed \subseteq Stored.confirmed
                    /\ Stored'.ruled_out \subseteq Stored.ruled_out
                    /\ Stored'.resolved \in {Stored.resolved, NoAction}]_vars
    BY <1>1, <1>2
  <1> QED
    BY <1>2, StepInvariance, PTL DEF Spec, StalePlanStops
-----------------------------------------------------------------------------
\* What the caller knows of the session, before a step and after it.
LEMMA SeenIs ==
    /\ Known => /\ Seen = Stored
                /\ Phase = IF Stored.status \in Closed THEN Stored.status ELSE "open"
    /\ ~Known => /\ Phase = "none"
                 /\ Seen.presented = {} /\ Seen.confirmed = {}
                 /\ Seen.pending = NoAction /\ Seen.resolved = NoAction
  BY DEF Seen, Phase, Fresh

LEMMA SeenIsNext ==
    /\ Known' => /\ Seen' = Stored'
                 /\ Phase' = IF Stored'.status \in Closed THEN Stored'.status ELSE "open"
    /\ ~Known' => /\ Phase' = "none"
                  /\ Seen'.presented = {} /\ Seen'.confirmed = {}
                  /\ Seen'.pending = NoAction /\ Seen'.resolved = NoAction
  BY DEF Seen, Phase, Fresh

DialogueStep == [Dialogue!Next]_<<Phase, Seen.presented, Seen.confirmed,
                                  Seen.pending, Seen.resolved, starts>>

\* A diagnosis that begins, and a session that is lost, in the dialogue.
LEMMA BegunIsGuided ==
    ASSUME Known', Begun(Stored')
    PROVE  Dialogue!Begun
  <1> DEFINE t == Stored'
  <1>1. /\ Seen' = t /\ Phase' = "open"
        /\ t.confirmed = {} /\ t.resolved = NoAction
    BY SeenIsNext, BegunBlank
  <1>2. \/ t.presented = {} /\ t.pending \in Guarded \cup {NoAction}
        \/ t.pending = NoAction /\ \E a \in Action \ Guarded : t.presented = {a}
    BY BegunBlank
  <1> HIDE DEF t
  <1> QED
    BY <1>1, <1>2 DEF Dialogue!Begun, Guarded

LEMMA LostIsGuided ==
    ASSUME ~Known'
    PROVE  Dialogue!Lost
  BY SeenIsNext DEF Dialogue!Lost

\* A record carried on is the same to the caller, or given up.
LEMMA CarriedIsGuided ==
    ASSUME Known, Known', Carried(Stored, Stored'), starts' = starts
    PROVE  DialogueStep
  <1> DEFINE s == Stored
             t == Stored'
  <1>1. /\ Seen = s /\ Phase = IF s.status \in Closed THEN s.status ELSE "open"
        /\ Seen' = t /\ Phase' = IF t.status \in Closed THEN t.status ELSE "open"
    BY SeenIs, SeenIsNext
  <1>2. /\ t.presented = s.presented /\ t.confirmed = s.confirmed
        /\ t.pending = s.pending /\ t.resolved = s.resolved
        /\ t.status # s.status => s.status \notin Closed /\ t.status # "resolved"
    BY DEF Carried
  <1> HIDE DEF s, t
  <1>3. CASE Phase' = Phase
    BY <1>1, <1>2, <1>3 DEF DialogueStep
  <1>4. CASE Phase' # Phase
    <2>1. Phase = "open" /\ Phase' = "escalate"
      BY <1>1, <1>2, <1>4 DEF Closed
    <2>2. Dialogue!GiveUp
      BY <1>1, <1>2, <2>1 DEF Dialogue!GiveUp
    <2> QED
      BY <2>2 DEF DialogueStep, Dialogue!Next
  <1> QED
    BY <1>3, <1>4

\* A plan that is walked shows, asks, resolves or gives up.
LEMMA WalkedIsGuided ==
    ASSUME Known, Known', NEW m, Walked(Stored, Stored', m), starts' = starts
    PROVE  DialogueStep
  <1> DEFINE s == Stored
             t == Stored'
  <1>1. /\ Seen = s /\ Phase = "open"
        /\ Seen' = t /\ Phase' = IF t.status \in Closed THEN t.status ELSE "open"
    BY SeenIs, SeenIsNext DEF Walked
  <1>2. Onward(s, t) \/ Granted(s, t, m) \/ Fixed(s, t, m)
    BY DEF Walked
  <1> HIDE DEF s, t
  <1>3. ASSUME Onward(s, t), Shown(s, t)
        PROVE  \E a \in Action : Dialogue!Show(a)
    <2>1. PICK a \in Action \ (Guarded \ t.confirmed) : t.presented = s.presented \cup {a}
      BY <1>3 DEF Shown
    <2>2. Dialogue!Show(a)
      BY <1>1, <1>3, <2>1 DEF Onward, Shown, Dialogue!Show, Guarded, Closed
    <2> QED
      BY <2>1, <2>2
  <1>4. ASSUME Onward(s, t), Asked(s, t)
        PROVE  \E a \in Action : Dialogue!Ask(a)
    <2>1. t.pending \in Action
      BY <1>4, PlanAssumption DEF Asked, Guarded
    <2>2. Dialogue!Ask(t.pending)
      BY <1>1, <1>4 DEF Onward, Asked, Dialogue!Ask, Guarded, Closed
    <2> QED
      BY <2>1, <2>2
  <1>5. ASSUME Onward(s, t), Ended(s, t)
        PROVE  Dialogue!GiveUp
    BY <1>1, <1>5 DEF Onward, Ended, Dialogue!GiveUp, Closed
  <1>6. ASSUME Granted(s, t, m)
        PROVE  \E a \in Action : Dialogue!Show(a)
    <2>1. s.pending \in Action
      BY <1>6 DEF Granted
    <2>2. Dialogue!Show(s.pending)
      BY <1>1, <1>6 DEF Granted, Dialogue!Show, Closed
    <2> QED
      BY <2>1, <2>2
  <1>7. ASSUME Fixed(s, t, m)
        PROVE  \E a \in Action : Dialogue!Resolve(a)
    <2>1. t.resolved \in Action /\ t.resolved \in VerifiedFix
      BY <1>7, PlanAssumption DEF Fixed, Verified
    <2>2. Dialogue!Resolve(t.resolved)
      BY <1>1, <1>7, <2>1 DEF Fixed, Dialogue!Resolve, Closed
    <2> QED
      BY <2>1, <2>2
  <1> QED
    BY <1>2, <1>3, <1>4, <1>5, <1>6, <1>7 DEF Onward, DialogueStep, Dialogue!Next

\* The read side implements the abstract dialogue: whatever plans, rules,
\* evidence, restarts and crashes do, a guarded action is shown only when it
\* was asked about and granted in this diagnosis, a fix is named only if it was
\* shown, and only start takes up a diagnosis that ended.
THEOREM ImplementsTheDialogue == Spec => DialogueIsGuided
  <1>1. Init => Dialogue!Init
    <2>1. Init => ~Known /\ starts = 0
      BY DEF Init, Known
    <2> QED
      BY <2>1, SeenIs DEF Dialogue!Init
  <1>2. ASSUME SInv, [Next]_vars
        PROVE  [Dialogue!Next]_<<Phase, Seen.presented, Seen.confirmed,
                                 Seen.pending, Seen.resolved, starts>>
    <2>1. CASE ~Known'
      <3>1. starts' = starts \/ starts' = starts + 1
        BY <1>2, NextMoves DEF Moved, Continued
      <3>2. Dialogue!Start \/ Dialogue!Lose
        BY <2>1, <3>1, LostIsGuided DEF Dialogue!Start, Dialogue!Lose
      <3> QED
        BY <3>2 DEF Dialogue!Next
    <2>2. CASE ~Known /\ Known'
      <3>1. Begun(Stored') /\ starts' = starts + 1
        BY <1>2, <2>2, NextMoves DEF Moved, Continued, Written
      <3>2. Dialogue!Start
        BY <2>2, <3>1, BegunIsGuided DEF Dialogue!Start
      <3> QED
        BY <3>2 DEF Dialogue!Next
    <2>3. CASE Known /\ Known'
      <3>1. CASE Carried(Stored, Stored') /\ starts' = starts
        BY <2>3, <3>1, CarriedIsGuided DEF DialogueStep
      <3>2. CASE Begun(Stored') /\ starts' = starts + 1
        <4>1. Dialogue!Start
          BY <2>3, <3>2, BegunIsGuided DEF Dialogue!Start
        <4> QED
          BY <4>1 DEF Dialogue!Next
      <3>3. CASE Begun(Stored') /\ starts' = starts /\ Stored.status \notin Closed
        <4>1. Dialogue!Rediagnose
          BY <2>3, <3>3, BegunIsGuided, SeenIs DEF Dialogue!Rediagnose
        <4> QED
          BY <4>1 DEF Dialogue!Next
      <3>4. CASE Walked(Stored, Stored', heard') /\ starts' = starts
        BY <2>3, <3>4, WalkedIsGuided DEF DialogueStep
      <3> QED
        BY <1>2, <2>3, <3>1, <3>2, <3>3, <3>4, ReadMoves
    <2> QED
      BY <2>1, <2>2, <2>3
  <1> QED
    BY <1>1, <1>2, StepInvariance, PTL DEF Spec, DialogueIsGuided, Dialogue!Spec
-----------------------------------------------------------------------------
(***************************************************************************)
(* What SessionEnds rests on, and why two answers of the code are not in   *)
(* the model: every call of step counts a turn, and what a session asks    *)
(* can be answered with the plan it asks from.                             *)
(***************************************************************************)

\* The action a question is about is in the plan; a branch condition is asked
\* for because a rule of that action is configured with one.
Answerable(s) ==
    /\ s.pending # NoAction => InPlan(s, s.pending)
    /\ s.branching # NoAction =>
           /\ InPlan(s, s.branching)
           /\ \E r \in Triggered(s.variant, s.branching, s.branch_outcome) : Configured(r)

\* t goes on from s within the same call.
Went(s, t) == Answerable(t) /\ t.turn_count = s.turn_count

\* A record that stands in a plan and asks nothing at all.
Idle(s) == Placed(s) /\ s.branching = NoAction

LEMMA PresentWent ==
    ASSUME NEW s, Idle(s), NEW i \in DOMAIN Plan[s.variant]
    PROVE  Went(s, Show(s, i)) /\ Went(s, Present(s, i))
  <1> DEFINE t == AskConfirmation(s, i)
             u == Show(s, i)
  <1>1. Went(s, u)
    <2>1. u.pending = NoAction /\ u.branching = NoAction /\ u.turn_count = s.turn_count
      BY DEF Idle, Placed, Show, Session
    <2> QED
      BY <2>1 DEF Went, Answerable
  <1>2. Went(s, t)
    <2>1. /\ t.pending = Plan[s.variant][i] /\ t.branching = NoAction
          /\ t.turn_count = s.turn_count /\ t.variant = s.variant
      BY DEF Idle, Placed, AskConfirmation, Session
    <2> HIDE DEF t
    <2>2. i \in Positions(t, t.pending)
      BY <2>1 DEF Positions
    <2>3. InPlan(t, t.pending)
      BY <2>2 DEF InPlan
    <2> QED
      BY <2>1, <2>3 DEF Went, Answerable
  <1> QED
    BY <1>1, <1>2 DEF Present

LEMMA IdleWent ==
    ASSUME NEW s, Idle(s), NEW a
    PROVE  /\ \A reason : Went(s, Escalate(s, reason))
           /\ Went(s, PendingValidation(s)) /\ Went(s, Resolve(s, a))
  BY DEF Idle, Placed, Session, Escalate, PendingValidation, Resolve, Went, Answerable

LEMMA AdvanceWent ==
    ASSUME NEW s, Idle(s), s.current \in Action, NEW t \in Advance(s)
    PROVE  Went(s, t)
  <1> DEFINE u == [s EXCEPT !.ruled_out = @ \cup {s.current}]
  <1>1. Idle(u) /\ u.turn_count = s.turn_count /\ u.variant = s.variant
    BY DEF Idle, Placed, Session
  <1>2. \/ t = Escalate(u, "kg_v2_plan_exhausted")
        \/ \E i \in DOMAIN Plan[s.variant] : t = Present(u, i)
    BY DEF Advance
  <1> HIDE DEF u
  <1>3. Went(u, t)
    BY <1>1, <1>2, PresentWent, IdleWent
  <1> QED
    BY <1>1, <1>3 DEF Went

LEMMA FollowWent ==
    ASSUME NEW s, Idle(s), NEW a, NEW o, NEW r, NEW m, NEW t \in Follow(s, a, o, r, m)
    PROVE  Went(s, t)
  <1>1. \/ t = Resolve(s, a) \/ t = PendingValidation(s)
        \/ \E reason : t = Escalate(s, reason)
        \/ \E i \in DOMAIN Plan[s.variant] : t = Present(s, i)
    BY DEF Follow, PresentAction, Positions
  <1> QED
    BY <1>1, PresentWent, IdleWent

LEMMA StartStateWent ==
    ASSUME graph \in Revision, NEW s \in Session, s.query \subseteq s.processed,
           NEW t \in StartState(s)
    PROVE  Went(s, t)
  <1> DEFINE r == Reset(s)
             document == [r EXCEPT !.lock = "document_answer_only"]
             Quiet(u) == u \in Session /\ u.pending = NoAction /\ u.branching = NoAction
  <1>1. Quiet(r)
    BY ResetBlank DEF Blank
  <1> HIDE DEF r
  <1>2. Quiet(document)
    <2>1. document \in Session
      BY <1>1, LockSession DEF Lock
    <2> QED
      BY <1>1, <2>1 DEF Session
  <1>3. ASSUME NEW v \in Variant
        PROVE  Idle(Bind(r, v)) /\ Quiet(Bind(r, v)) /\ 1 \in DOMAIN Plan[Bind(r, v).variant]
    <2>1. Bind(r, v) \in Session
      BY <1>1, BindSession
    <2>2. /\ Bind(r, v).variant = v /\ Bind(r, v).pending = NoAction
          /\ Bind(r, v).branching = NoAction
      BY <1>1 DEF Bind, Session
    <2>3. Plan[v] \in Seq(Action) /\ Plan[v] # << >>
      BY PlanAssumption
    <2> QED
      BY <2>1, <2>2, <2>3 DEF Idle, Placed
  <1>4. ASSUME NEW u, Quiet(u), NEW question, NEW reason
        PROVE  Answerable(u) /\ Answerable(Ask(u, question, reason))
    BY <1>4 DEF Ask, Session, Answerable
  <1> HIDE DEF document, Quiet
  <1>5. ASSUME \/ t = document
               \/ t = Ask(document, "document", "document_answer_variant_unverified")
               \/ t = Ask(r, "symptom", "no_kg_v2_variant_match")
        PROVE  Answerable(t)
    BY <1>1, <1>2, <1>4, <1>5
  <1>6. ASSUME NEW v \in Variant,
               \/ t = Present(Bind(r, v), 1)
               \/ t = Ask(Bind(r, v), "branch_context", "missing_branch_context")
        PROVE  Answerable(t)
    BY <1>3, <1>4, <1>6, PresentWent DEF Went
  <1>7. Answerable(t)
    BY <1>5, <1>6 DEF StartState, r, document
  <1> QED
    BY <1>7, StartStateSound DEF Went
-----------------------------------------------------------------------------
\* What a call of step leaves.
Counted(t) == Answerable(t) /\ t.turn_count = Stored.turn_count + 1
Called     == \E t : Written(t) /\ Counted(t)

\* The evidence recorded for a record changes no question of it.
LEMMA LookedCounted ==
    ASSUME SInv, Known, Answerable(Stored), NEW m
    PROVE  /\ Counted(Begin) /\ Counted(Record(Begin, m.resources)) /\ Counted(Looked(m))
           /\ Counted(Escalate(Begin, "max_turns_reached"))
  <1> DEFINE Same(u, w) == /\ w.pending = u.pending /\ w.branching = u.branching
                           /\ w.branch_outcome = u.branch_outcome /\ w.variant = u.variant
  <1>1. Stored \in Session /\ Begin \in Session /\ Begin.turn_count = Stored.turn_count + 1
    BY BeginReads, BeginSound DEF SInv
  <1>2. Same(Stored, Begin)
    <2> HIDE DEF Stored
    <2> QED
      BY <1>1 DEF Begin, Session
  <1>3. /\ Same(Begin, Record(Begin, m.resources))
        /\ Record(Begin, m.resources).turn_count = Begin.turn_count
        /\ Same(Begin, Escalate(Begin, "max_turns_reached"))
        /\ Escalate(Begin, "max_turns_reached").turn_count = Begin.turn_count
    <2> HIDE DEF Begin
    <2> QED
      BY <1>1 DEF Record, Escalate, Session
  <1>4. ASSUME NEW u, NEW w, Same(u, w), Answerable(u)
        PROVE  Answerable(w)
    BY <1>4 DEF Answerable, InPlan, Positions
  <1> HIDE DEF Same
  <1> QED
    BY <1>1, <1>2, <1>3, <1>4 DEF Counted, Looked

\* A handler ends with a record that goes on from the one it looked at.
LEMMA WentCalled ==
    ASSUME NEW s, s.turn_count = Stored.turn_count + 1, NEW t, Went(s, t), Commit(t)
    PROVE  Called
  BY CommitWrites DEF Went, Called, Counted

LEMMA CountedCalled ==
    ASSUME NEW t, Counted(t), Commit(t) \/ (Crash /\ disk' = t)
    PROVE  Called
  BY CommitWrites DEF Called

LEMMA StepEvidenceCalled ==
    ASSUME SInv, Answerable(Stored), NEW m \in Message,
           \/ StepIncident(m) \/ StepEvidence(m) \/ CrashInEvidence(m)
           \/ StepNothingFound(m) \/ StepDocument(m) \/ StepInvalid(m)
    PROVE  Called
  <1> DEFINE l == Looked(m)
             R == m.resources
  <1>0. InTurns /\ Known
    BY DEF StepIncident, StepEvidence, CrashInEvidence, StepNothingFound,
           StepDocument, StepInvalid, PastGap, InTurns
  <1>1. /\ Counted(Begin) /\ Counted(Record(Begin, R)) /\ Counted(l)
        /\ Sound(Begin) /\ Sound(l) /\ l \in Session
        /\ R \in SUBSET Resource /\ graph \in Revision
    BY <1>0, LookedCounted, LookedAlive, BeginSound DEF SInv, IInv, Alive, Sound
  <1> HIDE DEF l, R
  <1>2. CASE StepIncident(m)
    BY <1>1, <1>2, CountedCalled DEF StepIncident
  <1>3. CASE CrashInEvidence(m) \/ StepNothingFound(m)
    BY <1>1, <1>3, CountedCalled DEF CrashInEvidence, StepNothingFound, R
  <1>4. CASE StepEvidence(m)
    <2> DEFINE w == WithEvidence(Begin, R)
    <2>1. PICK t \in StartState(w) : Commit(t)
      BY <1>4 DEF StepEvidence, R
    <2>2. w \in Session /\ w.query \subseteq w.processed /\ w.turn_count = Begin.turn_count
      BY <1>1, EvidenceSound
    <2> HIDE DEF w
    <2>3. Went(w, t)
      BY <1>1, <2>1, <2>2, StartStateWent
    <2> QED
      BY <1>1, <2>1, <2>2, <2>3, WentCalled DEF Counted
  <1>5. CASE StepDocument(m)
    <2> DEFINE w == [l EXCEPT !.query = {}]
    <2>1. PICK t \in StartState(w) : Commit(t)
      BY <1>5 DEF StepDocument, l
    <2>2. w \in Session /\ w.query \subseteq w.processed /\ w.turn_count = l.turn_count
      BY <1>1 DEF Session
    <2> HIDE DEF w
    <2>3. Went(w, t)
      BY <1>1, <2>1, <2>2, StartStateWent
    <2> QED
      BY <1>1, <2>1, <2>2, <2>3, WentCalled DEF Counted
  <1>6. CASE StepInvalid(m)
    <2> DEFINE t == [l EXCEPT !.status = "failed", !.failure = "invalid_kg_v2_session"]
    <2>1. /\ t.pending = l.pending /\ t.branching = l.branching /\ t.variant = l.variant
          /\ t.branch_outcome = l.branch_outcome /\ t.turn_count = l.turn_count
      BY <1>1 DEF Session
    <2>2. Commit(t)
      BY <1>6 DEF StepInvalid, l
    <2> HIDE DEF t
    <2>3. Counted(t)
      BY <1>1, <2>1 DEF Counted, Answerable, InPlan, Positions
    <2> QED
      BY <2>2, <2>3, CountedCalled
  <1> QED
    BY <1>2, <1>3, <1>4, <1>5, <1>6

\* The answers to a confirmation and to a branch condition.
LEMMA StepAnswerCalled ==
    ASSUME SInv, Answerable(Stored), NEW m \in Message,
           \/ StepReject(m) \/ StepConfirm(m) \/ StepUnclear(m)
           \/ StepStillUnclear(m) \/ StepBranch(m)
    PROVE  Called
  <1> DEFINE l == Looked(m)
  <1>0. Planned(m) /\ (l.pending # NoAction \/ l.branching # NoAction)
    BY DEF StepReject, StepConfirm, StepUnclear, Confirming,
           StepStillUnclear, StepBranch, Branching
  <1>1. /\ Alive(l) /\ l \in Session /\ l.variant \in Variant
        /\ Counted(l)
    BY <1>0, PlannedReads, LookedCounted
  <1> HIDE DEF l
  <1>2. CASE StepReject(m)
    <2> DEFINE w == [l EXCEPT !.ruled_out = @ \cup {l.pending}, !.pending = NoAction]
    <2>0. /\ l.pending # NoAction /\ l.pending \in Action
          /\ l.branching = NoAction /\ l.current = l.pending
      BY <1>1, <1>2 DEF StepReject, Confirming, Alive, Sound, Asking, Session, l
    <2>1. PICK t \in Advance(w) : Commit(t)
      BY <1>2 DEF StepReject, l
    <2>2. w \in Session
      <3>1. l.ruled_out \cup {l.pending} \in SUBSET Action
        BY <1>1, <2>0 DEF Session
      <3> QED
        BY <1>1, <3>1 DEF Session
    <2>3. /\ w.pending = NoAction /\ w.branching = NoAction /\ w.variant = l.variant
          /\ w.current = l.current /\ w.turn_count = l.turn_count
      BY <1>1, <2>0 DEF Session
    <2> HIDE DEF w
    <2>4. Went(w, t)
      BY <1>1, <2>0, <2>1, <2>2, <2>3, AdvanceWent DEF Idle, Placed
    <2> QED
      BY <1>1, <2>1, <2>3, <2>4, WentCalled DEF Counted
  <1>3. CASE StepConfirm(m)
    <2> DEFINE w == [[l EXCEPT !.pending = NoAction] EXCEPT !.confirmed = @ \cup {l.pending}]
    <2>0. /\ l.pending # NoAction /\ l.pending \in Action /\ l.branching = NoAction
      BY <1>1, <1>3 DEF StepConfirm, Confirming, Alive, Sound, Asking, Session, l
    <2>1. PICK i \in Positions([l EXCEPT !.pending = NoAction], l.pending) : Commit(Show(w, i))
      BY <1>3 DEF StepConfirm, l
    <2>2. w \in Session
      <3>1. l.confirmed \cup {l.pending} \in SUBSET Action
        BY <1>1, <2>0 DEF Session
      <3> QED
        BY <1>1, <3>1 DEF Session
    <2>3. /\ w.pending = NoAction /\ w.branching = NoAction /\ w.variant = l.variant
          /\ w.turn_count = l.turn_count
      BY <1>1, <2>0 DEF Session
    <2>4. i \in DOMAIN Plan[l.variant]
      BY <1>1, <2>1 DEF Positions, Session
    <2> HIDE DEF w
    <2>5. Went(w, Show(w, i))
      BY <1>1, <2>2, <2>3, <2>4, PresentWent DEF Idle, Placed
    <2> QED
      BY <1>1, <2>1, <2>3, <2>5, WentCalled DEF Counted
  <1>4. CASE StepUnclear(m)
    <2> DEFINE t == [l EXCEPT !.required = "confirm"]
    <2>1. /\ t.pending = l.pending /\ t.branching = l.branching /\ t.variant = l.variant
          /\ t.branch_outcome = l.branch_outcome /\ t.turn_count = l.turn_count
      BY <1>1 DEF Session
    <2>2. Commit(t)
      BY <1>4 DEF StepUnclear, l
    <2> HIDE DEF t
    <2>3. Counted(t)
      BY <1>1, <2>1 DEF Counted, Answerable, InPlan, Positions
    <2> QED
      BY <2>2, <2>3, CountedCalled
  <1>5. CASE StepStillUnclear(m)
    <2> DEFINE t == AskCondition(l, l.branching, l.branch_outcome)
    <2>1. /\ t.pending = l.pending /\ t.branching = l.branching /\ t.variant = l.variant
          /\ t.branch_outcome = l.branch_outcome /\ t.turn_count = l.turn_count
      BY <1>1 DEF AskCondition, Session
    <2>2. Commit(t)
      BY <1>5 DEF StepStillUnclear, l
    <2> HIDE DEF t
    <2>3. Counted(t)
      BY <1>1, <2>1 DEF Counted, Answerable, InPlan, Positions
    <2> QED
      BY <2>2, <2>3, CountedCalled
  <1>6. CASE StepBranch(m)
    <2> DEFINE w == [l EXCEPT !.branching = NoAction, !.branch_outcome = NoOutcome,
                              !.answered = @ \cup {l.branching}]
    <2>0. l.pending = NoAction /\ l.branching \in Action
      BY <1>1, <1>6 DEF StepBranch, Branching, Session, l
    <2>1. PICK r \in BranchOf(l, m) :
              \E t \in Follow(w, l.branching, l.branch_outcome, r, m) : Commit(t)
      BY <1>6 DEF StepBranch, l
    <2>2. PICK t \in Follow(w, l.branching, l.branch_outcome, r, m) : Commit(t)
      BY <2>1
    <2>3. w \in Session
      <3>1. l.answered \cup {l.branching} \in SUBSET Action
        BY <1>1, <2>0 DEF Session
      <3> QED
        BY <1>1, <3>1 DEF Session
    <2>4. /\ w.pending = NoAction /\ w.branching = NoAction /\ w.variant = l.variant
          /\ w.turn_count = l.turn_count
      BY <1>1, <2>0 DEF Session
    <2> HIDE DEF w
    <2>5. Went(w, t)
      BY <1>1, <2>2, <2>3, <2>4, FollowWent DEF Idle, Placed
    <2> QED
      BY <1>1, <2>2, <2>4, <2>5, WentCalled DEF Counted
  <1> QED
    BY <1>2, <1>3, <1>4, <1>5, <1>6

\* More information, or the outcome of the current action.
LEMMA StepReportCalled ==
    ASSUME SInv, Answerable(Stored), NEW m \in Message,
           \/ StepMoreInfo(m) \/ StepNoCurrent(m) \/ StepAskBranch(m)
           \/ StepFollow(m) \/ StepFixReported(m) \/ StepAdvance(m)
    PROVE  Called
  <1> DEFINE l == Looked(m)
             w == Reported(m)
  <1>0. Planned(m) /\ l.pending = NoAction /\ l.branching = NoAction
    BY DEF StepMoreInfo, StepNoCurrent, StepAskBranch, StepFollow, StepFixReported,
           StepAdvance, Reporting, Plain
  <1>1. /\ Alive(l) /\ l \in Session /\ l.variant \in Variant /\ Idle(l)
        /\ Counted(l) /\ Sound(l) /\ graph \in Revision
    BY <1>0, PlannedReads, LookedCounted DEF SInv, IInv, Alive, Idle, Placed
  <1>2. w = [l EXCEPT !.answered = @ \cup {l.current}]
    BY DEF Reported
  <1> HIDE DEF l, w
  <1>3. ASSUME InPlan(l, l.current)
        PROVE  /\ l.current \in Action /\ w \in Session
               /\ Idle(w) /\ w.current = l.current
               /\ w.variant = l.variant /\ w.turn_count = l.turn_count
    <2>1. l.current \in Action
      BY <1>1, <1>3, PlanActions DEF InPlan, Positions
    <2>2. l.answered \cup {l.current} \in SUBSET Action
      BY <1>1, <2>1 DEF Session
    <2>3. w \in Session
      BY <1>1, <1>2, <2>2 DEF Session
    <2>4. /\ w.current = l.current /\ w.variant = l.variant /\ w.pending = NoAction
          /\ w.branching = NoAction /\ w.turn_count = l.turn_count
      BY <1>0, <1>1, <1>2 DEF Session
    <2> QED
      BY <1>1, <2>1, <2>3, <2>4 DEF Idle, Placed
  <1>4. CASE StepMoreInfo(m)
    <2>1. PICK t \in StartState(l) : Commit(t)
      BY <1>4 DEF StepMoreInfo, l
    <2>2. Went(l, t)
      BY <1>1, <2>1, StartStateWent DEF Sound
    <2> QED
      BY <1>1, <2>1, <2>2, WentCalled DEF Counted
  <1>5. CASE StepNoCurrent(m)
    <2>1. Commit(Escalate(l, "current_action_not_in_plan"))
      BY <1>5 DEF StepNoCurrent, l
    <2>2. Went(l, Escalate(l, "current_action_not_in_plan"))
      BY <1>1, IdleWent
    <2> QED
      BY <1>1, <2>1, <2>2, WentCalled DEF Counted
  <1>6. CASE StepAskBranch(m)
    <2> DEFINE t == AskCondition(w, l.current, Classify(m))
    <2>1. /\ Commit(t) /\ InPlan(l, l.current)
          /\ \E r \in Triggered(l.variant, l.current, Classify(m)) : Configured(r)
      BY <1>6 DEF StepAskBranch, NeedsCondition, l, w
    <2>2. /\ t.pending = NoAction /\ t.branching = l.current /\ t.variant = l.variant
          /\ t.branch_outcome = Classify(m) /\ t.turn_count = l.turn_count
      BY <1>3, <2>1 DEF AskCondition, Session, Idle, Placed
    <2> HIDE DEF t
    <2>3. Counted(t)
      BY <1>1, <2>1, <2>2 DEF Counted, Answerable, InPlan, Positions
    <2> QED
      BY <2>1, <2>3, CountedCalled
  <1>7. CASE StepFollow(m)
    <2>1. PICK r \in Rules(m) :
              \E t \in Follow(w, l.current, Classify(m), r, m) : Commit(t)
      BY <1>7 DEF StepFollow, l, w
    <2>2. PICK t \in Follow(w, l.current, Classify(m), r, m) : Commit(t)
      BY <2>1
    <2>3. InPlan(l, l.current)
      BY <1>7 DEF StepFollow, l
    <2>4. Went(w, t)
      BY <1>3, <2>2, <2>3, FollowWent
    <2> QED
      BY <1>1, <1>3, <2>2, <2>3, <2>4, WentCalled DEF Counted
  <1>8. CASE StepFixReported(m)
    <2>1. PICK t \in {Resolve(w, l.current), PendingValidation(w)} : Commit(t)
      BY <1>8 DEF StepFixReported, l, w
    <2>2. InPlan(l, l.current)
      BY <1>8 DEF StepFixReported, l
    <2>3. Went(w, t)
      BY <1>3, <2>1, <2>2, IdleWent
    <2> QED
      BY <1>1, <1>3, <2>1, <2>2, <2>3, WentCalled DEF Counted
  <1>9. CASE StepAdvance(m)
    <2>1. PICK t \in Advance(w) : Commit(t)
      BY <1>9 DEF StepAdvance, w
    <2>2. InPlan(l, l.current)
      BY <1>9 DEF StepAdvance, l
    <2>3. Went(w, t)
      BY <1>3, <2>1, <2>2, AdvanceWent
    <2> QED
      BY <1>1, <1>3, <2>1, <2>2, <2>3, WentCalled DEF Counted
  <1> QED
    BY <1>4, <1>5, <1>6, <1>7, <1>8, <1>9
-----------------------------------------------------------------------------
\* start leaves a question that can be answered, or none.
LEMMA StartAnswerable ==
    ASSUME SInv, NEW R \in SUBSET Resource, Start(R) \/ CrashInStart(R)
    PROVE  \E t : Written(t) /\ Answerable(t)
  <1>0. /\ graph \in Revision /\ Fresh \in Session /\ Fresh.query \subseteq Fresh.processed
        /\ Answerable(Fresh)
    BY FreshSound DEF SInv, IInv, Sound, Fresh, Answerable
  <1>1. ASSUME NEW u \in StartState(Fresh)
        PROVE  /\ Answerable(u) /\ Answerable(Record(u, R))
               /\ WithEvidence(u, R) \in Session
               /\ WithEvidence(u, R).query \subseteq WithEvidence(u, R).processed
    <2>1. Answerable(u) /\ Sound(u)
      BY <1>0, StartStateWent, StartStateSound DEF Went
    <2>2. /\ Record(u, R).pending = u.pending /\ Record(u, R).branching = u.branching
          /\ Record(u, R).branch_outcome = u.branch_outcome
          /\ Record(u, R).variant = u.variant
      BY <2>1 DEF Sound, Session, Record
    <2> QED
      BY <2>1, <2>2, EvidenceSound DEF Answerable, InPlan, Positions
  <1>2. CASE Start(R)
    <2>1. PICK t \in Started(R) : Commit(t)
      BY <1>2 DEF Start
    <2>2. PICK u \in StartState(Fresh) :
              t = u \/ t = Record(u, R) \/ t \in StartState(WithEvidence(u, R))
      BY <2>1 DEF Started
    <2>3. Answerable(t)
      BY <1>0, <1>1, <2>2, StartStateWent DEF Went
    <2> QED
      BY <2>1, <2>3, CommitWrites
  <1>3. CASE CrashInStart(R)
    <2>1. PICK t : /\ Crash /\ disk' = t
                   /\ t = Fresh \/ \E u \in StartState(Fresh) : t = u \/ t = Record(u, R)
      BY <1>3 DEF CrashInStart
    <2>2. Answerable(t)
      BY <1>0, <1>1, <2>1
    <2> QED
      BY <2>1, <2>2, CommitWrites
  <1> QED
    BY <1>2, <1>3

\* Only start, a call that counts its turn, and nothing change what is read.
LEMMA NextCounts ==
    ASSUME SInv, Known => Answerable(Stored), [Next]_vars
    PROVE  \/ Known' => Known /\ Stored' = Stored
           \/ starts' = starts + 1 /\ (\E t : Written(t) /\ Answerable(t))
           \/ Known /\ Called
  <1>1. ASSUME NEW R \in SUBSET Resource, Start(R) \/ CrashInStart(R)
        PROVE  starts' = starts + 1 /\ (\E t : Written(t) /\ Answerable(t))
    BY <1>1, StartAnswerable DEF Start, CrashInStart, Starting
  <1>2. CASE StepClosed \/ StepMaxTurns
    <2>1. Known
      BY <1>2 DEF StepClosed, StepMaxTurns
    <2>2. Counted(Begin) /\ Counted(Escalate(Begin, "max_turns_reached"))
      BY <2>1, LookedCounted
    <2> QED
      BY <1>2, <2>1, <2>2, CountedCalled DEF StepClosed, StepMaxTurns
  <1>3. ASSUME NEW m \in Message, Step(m) \/ CrashInEvidence(m)
        PROVE  Known /\ Called
    <2>1. Known
      BY <1>3 DEF Step, StepIncident, StepEvidence, CrashInEvidence, StepNothingFound,
                  StepDocument, StepInvalid, StepReject, StepConfirm, StepUnclear,
                  StepStillUnclear, StepBranch, StepMoreInfo, StepNoCurrent,
                  StepAskBranch, StepFollow, StepFixReported, StepAdvance,
                  Reporting, Plain, Branching, Confirming, Planned, PastGap, InTurns
    <2> QED
      BY <1>3, <2>1, StepEvidenceCalled, StepAnswerCalled, StepReportCalled DEF Step
  <1>4. CASE StepUnknown \/ Restart \/ Publish \/ UNCHANGED vars
    <2>1. mem' \in {mem, NoSession} /\ disk' = disk
      BY <1>4 DEF StepUnknown, Restart, Crash, Publish, vars
    <2> QED
      BY <2>1 DEF SInv, Known, Stored
  <1> QED
    BY <1>1, <1>2, <1>3, <1>4 DEF Next, StepUnread

\* Whatever a session asks can be answered from its plan, in every state.
LEMMA AnswerableInvariance == Spec => [](Known => Answerable(Stored))
  <1>1. Init => (Known => Answerable(Stored))
    BY DEF Init, Known
  <1>2. ASSUME SInv, Known => Answerable(Stored), [Next]_vars
        PROVE  (Known => Answerable(Stored))'
    <2>1. CASE Known' => Known /\ Stored' = Stored
      BY <1>2, <2>1 DEF Answerable, InPlan, Positions
    <2>2. ASSUME NEW t, Written(t), Answerable(t)
          PROVE  (Known => Answerable(Stored))'
      BY <2>2 DEF Written, Answerable, InPlan, Positions
    <2> QED
      BY <1>2, <2>1, <2>2, NextCounts DEF Called, Counted
  <1> QED
    BY <1>1, <1>2, StepInvariance, PTL DEF Spec

\* The answer to a question finds what it is about: a confirmed action is in
\* the plan, and so is the action whose branch condition was asked for; when
\* no rule of that action takes the answer, the condition is asked for again.
QuestionsHaveAnswers ==
    \A m \in Message :
        LET l == Looked(m)
        IN  /\ Confirming(m) => InPlan(l, l.pending)
            /\ Branching(m) =>
                   /\ InPlan(l, l.branching)
                   /\ \/ NeedsCondition(l.variant, l.branching, l.branch_outcome, m)
                      \/ \E r \in Triggered(l.variant, l.branching, l.branch_outcome) :
                             Matches(r, m)

\* confirmed_action_not_in_plan and the missing action of a pending branch,
\* which the code tests for, are met in no reachable state.
THEOREM QuestionsAreAnswerable == Spec => []QuestionsHaveAnswers
  <1>1. SInv /\ (Known => Answerable(Stored)) => QuestionsHaveAnswers
    <2> SUFFICES ASSUME SInv, Known => Answerable(Stored), NEW m \in Message,
                        Confirming(m) \/ Branching(m)
                 PROVE  Answerable(Looked(m))
      BY DEF QuestionsHaveAnswers, Answerable, NeedsCondition, Confirming, Branching
    <2>1. Known
      BY DEF Confirming, Branching, Planned, PastGap, InTurns
    <2> QED
      BY <2>1, LookedCounted DEF Counted
  <1> QED
    BY <1>1, StepInvariance, AnswerableInvariance, PTL

\* Between two calls of start, what is read changes only with a turn counted:
\* also repeated questions, restarts of the diagnosis and steps that died.
THEOREM EveryCallCountsATurn ==
    Spec => [][Known /\ Known' /\ starts' = starts =>
                  \/ Stored' = Stored
                  \/ Stored'.turn_count = Stored.turn_count + 1]_vars
  <1>1. ASSUME SInv, Known => Answerable(Stored), [Next]_vars, Known, Known', starts' = starts
        PROVE  Stored' = Stored \/ Stored'.turn_count = Stored.turn_count + 1
    <2>1. starts \in Nat
      BY <1>1 DEF SInv, IInv
    <2> QED
      BY <1>1, <2>1, NextCounts DEF Called, Counted, Written
  <1>2. ASSUME SInv, Known => Answerable(Stored), [Next]_vars
        PROVE  [Known /\ Known' /\ starts' = starts =>
                  \/ Stored' = Stored
                  \/ Stored'.turn_count = Stored.turn_count + 1]_vars
    BY <1>1, <1>2
  <1> QED
    BY <1>2, StepInvariance, AnswerableInvariance, PTL DEF Spec
=============================================================================
