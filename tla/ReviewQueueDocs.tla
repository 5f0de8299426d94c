-------------------------- MODULE ReviewQueueDocs --------------------------
(***************************************************************************)
(* What the docs and comments say of the review queue and the code does    *)
(* not do.                                                                 *)
(***************************************************************************)
EXTENDS MCReviewQueue

\* A structural correction whose W2 re-extraction has come back can be merged
\* once a human has approved it and W4 admits it: the plan says that split and
\* merge fail closed "before" the re-extraction.
FulfilledIsApplicable ==
    \A i \in Item :
        /\ Approved(queue[i])
        /\ queue[i].request # None
        /\ queue[i].request.fulfilled
        /\ queue[i].request.events = queue[i].subject.events
        /\ queue[i].gate # "reject"
        => Admissible(i, queue[i])

\* Correction events are immutable: a command that keeps the item on the same
\* trace bundle may add to the chain and never drops what is in it.
EventsAreKept ==
    [][\A i \in Item :
        /\ queue[i] # None
        /\ queue'[i] # None
        /\ queue'[i].subject.base = queue[i].subject.base
        => \A n \in DOMAIN queue[i].subject.events :
               /\ n \in DOMAIN queue'[i].subject.events
               /\ queue'[i].subject.events[n] = queue[i].subject.events[n]]_vars

\* What W4 routed to review keeps its limit: approved, it is merged, but it does
\* not change what may be executed until it is corrected and gated again.
RouteReviewKeepsItsLimit ==
    [][\A i \in Item :
        /\ job.unaudited = None /\ job'.unaudited = i
        /\ job.taken[i].gate = "route_review"
        => \A o \in Object : graph'[o] # None /\ graph'[o].execute => graph'[o] = graph[o]]_vars
=============================================================================
