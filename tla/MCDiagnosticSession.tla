------------------------ MODULE MCDiagnosticSession ------------------------
(***************************************************************************)
(* A small instance of DiagnosticSession for TLC: two variants that share  *)
(* an unsafe action, a rule for every way a branch can end, and one        *)
(* message for each way a text is read.                                    *)
(***************************************************************************)
EXTENDS DiagnosticSession, TLC

\* v1 looks, cuts the power and fixes; v2 begins with the unsafe action.
MCAction  == {"look", "cut", "fix"}
MCVariant == {"v1", "v2"}
MCPlan    == ("v1" :> <<"look", "cut", "fix">>) @@ ("v2" :> <<"cut", "look">>)
MCUnsafe  == {"cut"}

\* Cutting the power fixes only what a human confirms at the lamp.
MCVerifiedFix == {"cut", "fix"}
MCActivation  == [a \in MCAction |-> IF a = "cut" THEN {{"lamp"}} ELSE {}]

MCSignal   == {"lamp", "site"}
MCRouting  == {"site"}
MCResource == {"log", "trace"}
MCAnswers  == [q \in Question |-> IF q = "symptom" THEN {"log"}
                                  ELSE IF q = "branch_context" THEN {"trace"}
                                  ELSE {}]

\* A rule without conditions, from an action on an outcome to an action.
Edge(v, a, o, b) ==
    [variant |-> v, from |-> a, on |-> {o}, all |-> {}, any |-> {}, exclude |-> {},
     groups |-> {}, code |-> {}, priority |-> 1, to |-> b, terminal |-> "continue"]
End(v, a, o, status) == [Edge(v, a, o, NoAction) EXCEPT !.terminal = status]

MCRule ==
    {\* forwards over an action, if the lamp is named; else ask
     [Edge("v1", "look", "diagnostic_method", "fix") EXCEPT !.any = {"lamp"}],
     \* into the unsafe action: of two rules the better one at this site
     [Edge("v1", "look", "recurred", "cut") EXCEPT !.any = {"site"}, !.priority = 2],
     [Edge("v1", "look", "recurred", "fix") EXCEPT !.any = {"lamp"}],
     \* a target that the plan does not have
     Edge("v1", "cut", "ineffective", NoAction),
     \* backwards
     Edge("v1", "fix", "recurred", "look"),
     End("v1", "fix", "ineffective", "unresolved"),
     \* the fix is confirmed by the lamp, else ask
     [End("v1", "fix", "verified_fix", "resolved") EXCEPT
         !.all = {"lamp"}, !.on = {"verified_fix", "partial_temporary"}],
     \* resolved by a rule, but no outcome of the action supports it
     End("v2", "look", "verified_fix", "resolved")}

Says(phrases, signals, meaning) ==
    [phrases |-> phrases, signals |-> signals, resources |-> {}, blank |-> FALSE,
     meaning |-> meaning]
Attaches(resources, blank) ==
    [Says({}, {}, "other") EXCEPT !.resources = resources, !.blank = blank]

MCMessage ==
    {Says({"confirm"}, {}, "approve"),             \* "同意"
     Says({"reject"}, {}, "refuse"),               \* "取消"
     Says({"confirm", "reject"}, {}, "refuse"),    \* "确认取消"
     Says({"solved"}, {}, "other"),                \* "已解决"
     Says({"solved"}, {"lamp"}, "other"),          \* "灯亮，恢复正常"
     Says({"temporary"}, {"lamp"}, "other"),       \* "灯亮，短暂恢复"
     Says({"negative", "solved"}, {}, "other"),    \* "修复失败"
     Says({"recurred_again"}, {}, "other"),        \* "再次复现"
     Says({}, {}, "other"),                        \* "不知道"
     Attaches({"log"}, TRUE),                      \* a log without a text
     Attaches({"log", "trace"}, FALSE)}            \* two files with a text

\* Messages whose meaning is not the one the phrases suggest.
MCHardMessage ==
    {Says({"confirm"}, {}, "refuse"),                    \* "不同意"
     Says({"solved"}, {}, "other"),                      \* "已解决"
     Says({"temporary", "pending"}, {"lamp"}, "other")}  \* "灯亮，暂时恢复"

\* No action reads heard, so states that differ in it alone are one.
MCView == <<graph, mem, disk, starts, crashes>>
=============================================================================
