\* A trace item and a document, two processes of commands beside W5.
CONSTANTS
    t = t  d = d  x1 = x1  x2 = x2  y1 = y1  y2 = y2  b1 = b1  b2 = b2
    v = v  o1 = o1  o2 = o2  q1 = q1  q2 = q2  c1 = c1  c2 = c2
    W5 = W5  None = None
    Item <- MCItem
    TraceItem = {t}
    Document = {d}
    Extraction <- MCExtraction
    Yields <- RaceYields
    Verdicts <- RaceVerdicts
    Bundle <- MCBundle
    Objects <- MCObjects
    Object = {v, o1, o2, q1, q2}
    Clerk = {c1, c2}
    MaxEvents = 0
    MaxDecisions = 2
    MaxIngests = 2
    MaxEdits = 1
    MaxRuns = 2
SPECIFICATION Spec
SYMMETRY ClerkSymmetry
INVARIANTS
    GraphWasApproved
    VersionsNeverMix
PROPERTIES
    KnowledgeIsApproved
