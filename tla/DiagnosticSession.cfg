SPECIFICATION FairSpec
VIEW MCView
CONSTANTS
    Action <- MCAction
    Variant <- MCVariant
    Plan <- MCPlan
    Unsafe <- MCUnsafe
    VerifiedFix <- MCVerifiedFix
    Activation <- MCActivation
    Rule <- MCRule
    Signal <- MCSignal
    Routing <- MCRouting
    Message <- MCMessage
    Resource <- MCResource
    Answers <- MCAnswers
    Revision = {g1, g2}
    MaxTurns = 5
    ConfirmRequired = TRUE
    GapEnabled = TRUE
    IncidentEnabled = {TRUE, FALSE}
    MaxStarts = 1
    MaxCrashes = 1
    NoAction = NoAction
    NoVariant = NoVariant
    NoRevision = NoRevision
    NoMessage = NoMessage
    NoSession = NoSession
    Absent = Absent
    Corrupt = Corrupt
INVARIANTS
    TypeOK
    UnsafeConfirmed
    OneQuestion
    ResolvedSound
    TurnsBounded
    EvidenceOnce
PROPERTIES
    SessionEnds
    ClosedStays
    ConfirmedByAnswer
    ResolvedByReport
    StalePlanStops
    DialogueIsGuided
