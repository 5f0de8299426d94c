--------------------------- MODULE GuidedDiagnosis ---------------------------
(***************************************************************************)
(* What the read side promises of a session, without plans, rules, texts,  *)
(* turns, evidence, files or crashes: within a diagnosis a guarded action  *)
(* is shown only when it was asked about and granted, a fix is named only  *)
(* if it was shown and nothing is being asked, and a diagnosis that ended  *)
(* is not taken up again unless the session is started anew.               *)
(* DiagnosticSession is shown to implement this.                           *)
(***************************************************************************)
EXTENDS Naturals

CONSTANTS
    Action,        \* what a diagnosis may tell the user to do
    Guarded,       \* actions that need to be granted
    Fix,           \* actions that may be what resolves a diagnosis
    None

VARIABLES
    phase,         \* "none": there is no session, or it is lost
    shown,         \* actions the user was told to do
    granted,       \* guarded actions the user agreed to
    asked,         \* the guarded action the user is asked about, or None
    fix,           \* what resolved the diagnosis
    calls          \* how often the session was started

Init == /\ phase = "none"
        /\ shown = {} /\ granted = {} /\ asked = None /\ fix = None
        /\ calls = 0

\* The session cannot be read any more.
Lost == /\ phase' = "none"
        /\ shown' = {} /\ granted' = {} /\ asked' = None /\ fix' = None

\* A diagnosis begins: of an earlier one nothing is left, above all no grant.
Begun == /\ phase' = "open"
         /\ granted' = {} /\ fix' = None
         /\ \/ shown' = {} /\ asked' \in Guarded \cup {None}
            \/ \E a \in Action \ Guarded : shown' = {a} /\ asked' = None

Start == calls' = calls + 1 /\ (Begun \/ Lost)

\* New information begins the diagnosis again, while it is open.
Rediagnose == phase = "open" /\ Begun /\ UNCHANGED calls

\* What was asked about is granted only with this step, by the answer.
Show(a) == /\ phase = "open"
           /\ granted' \in {granted, granted \cup ({asked} \cap {a})}
           /\ a \notin Guarded \ granted'
           /\ shown' = shown \cup {a}
           /\ asked' = None
           /\ UNCHANGED <<phase, fix, calls>>

Ask(a) == /\ phase = "open"
          /\ a \in Guarded \ granted
          /\ asked' = a
          /\ UNCHANGED <<phase, shown, granted, fix, calls>>

Resolve(a) == /\ phase = "open"
              /\ asked = None
              /\ a \in shown \cap Fix
              /\ phase' = "resolved"
              /\ fix' = a
              /\ UNCHANGED <<shown, granted, asked, calls>>

GiveUp == /\ phase = "open"
          /\ phase' = "escalate"
          /\ asked' \in {asked, None}
          /\ UNCHANGED <<shown, granted, fix, calls>>

Lose == Lost /\ UNCHANGED calls

Next == \/ Start \/ Rediagnose \/ GiveUp \/ Lose
        \/ \E a \in Action : Show(a) \/ Ask(a) \/ Resolve(a)

Spec == Init /\ [][Next]_<<phase, shown, granted, asked, fix, calls>>
=============================================================================
