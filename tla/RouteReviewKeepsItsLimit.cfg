\* One process of commands beside W5, a trace item: RouteReviewKeepsItsLimit is refuted.
CONSTANTS
    t = t  d = d  x1 = x1  x2 = x2  y1 = y1  y2 = y2  b1 = b1  b2 = b2
    v = v  o1 = o1  o2 = o2  q1 = q1  q2 = q2  c1 = c1  c2 = c2
    W5 = W5  None = None
    Item = {t}
    TraceItem = {t}
    Document = {}
    Extraction <- MCExtraction
    Yields <- MCYields
    Verdicts <- MCVerdicts
    Bundle <- MCBundle
    Objects <- MCObjects
    Object = {v, o1, o2, q1, q2}
    Clerk = {c1}
    MaxEvents = 0
    MaxDecisions = 1
    MaxIngests = 1
    MaxEdits = 0
    MaxRuns = 1
SPECIFICATION Spec
PROPERTIES
    RouteReviewKeepsItsLimit
