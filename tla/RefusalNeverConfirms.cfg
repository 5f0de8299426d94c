SPECIFICATION Spec
VIEW MCView
CONSTANTS
    Action <- MCAction
    Variant <- MCVariant
    Plan <- MCPlan
    Unsafe <- MCUnsafe
    VerifiedFix <- MCVerifiedFix
    Activation <- MCActivation
    Rule <- MCRule
    Signal <- MCSignal
    Routing <- MCRouting
    Message <- MCHardMessage
    Resource <- MCResource
    Answers <- MCAnswers
    Revision = {g1, g2}
    MaxTurns = 4
    ConfirmRequired = TRUE
    GapEnabled = TRUE
    IncidentEnabled = {FALSE}
    MaxStarts = 1
    MaxCrashes = 0
    NoAction = NoAction
    NoVariant = NoVariant
    NoRevision = NoRevision
    NoMessage = NoMessage
    NoSession = NoSession
    Absent = Absent
    Corrupt = Corrupt
PROPERTIES
    RefusalNeverConfirms
