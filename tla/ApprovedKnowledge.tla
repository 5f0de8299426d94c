-------------------------- MODULE ApprovedKnowledge --------------------------
(***************************************************************************)
(* What the write side promises of the knowledge graph, without queues,    *)
(* snapshots, corrections or crashes: a human approves subjects of items,  *)
(* and knowledge changes only by the release of an approved subject.  What *)
(* is released for execution is not taken back by what is not.             *)
(* ReviewQueue is shown to implement this.                                 *)
(***************************************************************************)
CONSTANTS
    Object,        \* what knowledge consists of
    Explicit,      \* the kinds of approval that allow execution of anything
    Plain,         \* the kinds that allow it of admitted subjects
    Admitted,      \* subjects that need no explicit release
    Revisable,     \* items a new version of which replaces the old one
    None

VARIABLES
    approvals,     \* what humans approved: records with item, subject, action
    content        \* who wrote each object, None if nobody has

Nothing == [o \in Object |-> None]

Init == approvals = {} /\ content = Nothing

\* Humans approve; nobody takes an approval back.
Approve ==
    /\ approvals \subseteq approvals'
    /\ UNCHANGED content

\* May the object o become n, when the item i writes n?
Kept(o)         == content'[o] = content[o]
Written(o, n)   == /\ content'[o] = n
                   /\ content[o] # None /\ content[o].execute => n.execute
Withdrawn(o, i) == /\ content'[o] = None
                   /\ i \in Revisable
                   /\ content[o] # None
                   /\ content[o].item = i
                   /\ ~content[o].execute

\* One approved subject is merged: each object is as before, or of that
\* subject, or of the version of the item that it replaces.
Release(a, execute) ==
    /\ execute => \/ a.action \in Explicit
                  \/ a.action \in Plain /\ a.subject \in Admitted
    /\ content' \in [Object -> {content'[o] : o \in Object}]
    /\ \A o \in Object :
          \/ Kept(o)
          \/ Written(o, [item |-> a.item, subject |-> a.subject, execute |-> execute])
          \/ Withdrawn(o, a.item)
    /\ UNCHANGED approvals

Next == Approve \/ \E a \in approvals, execute \in BOOLEAN : Release(a, execute)

Spec == Init /\ [][Next]_<<approvals, content>>
=============================================================================
