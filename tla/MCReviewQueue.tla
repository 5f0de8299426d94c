--------------------------- MODULE MCReviewQueue ---------------------------
(***************************************************************************)
(* A small instance of ReviewQueue: a trace item t whose extractions x1    *)
(* and x2 share the trace bundle b1 and, like all of them, the object v (a *)
(* FaultVariant), but no other object; a document d, versions y1 and y2.   *)
(***************************************************************************)
EXTENDS ReviewQueue, TLC

CONSTANTS t, d, x1, x2, y1, y2, b1, b2, v, o1, o2, q1, q2, c1, c2

MCItem       == {t, d}
MCExtraction == {x1, x2, y1, y2}
MCYields     == [i \in Item |-> IF i = t THEN {x1, x2} ELSE {y1, y2}]
MCVerdicts   == (x1 :> {"admit"}) @@ (x2 :> {"route_review", "reject"})
                    @@ (y1 :> {"route_review"}) @@ (y2 :> {"route_review"})
MCBundle     == (x1 :> b1) @@ (x2 :> b1) @@ (y1 :> b2) @@ (y2 :> b2)
MCObjects    == (x1 :> {v, o1}) @@ (x2 :> {v, o2}) @@ (y1 :> {q1}) @@ (y2 :> {q2})

\* Of the trace item one extraction only, when the document is what matters:
\* one that W4 routes to review.
RaceYields   == [i \in Item |-> IF i = t THEN {x2} ELSE {y1, y2}]
RaceVerdicts == (x2 :> {"route_review"}) @@ MCVerdicts

\* Processes differ in nothing but their names.
ClerkSymmetry == Permutations(Clerk)
=============================================================================
