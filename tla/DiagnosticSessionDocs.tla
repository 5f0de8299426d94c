----------------------- MODULE DiagnosticSessionDocs -----------------------
(***************************************************************************)
(* What the repository's documents say of a diagnostic session and the     *)
(* code does not keep.                                                     *)
(***************************************************************************)
EXTENDS MCDiagnosticSession

\* "高成本或破坏性 Action 在人工明确确认前保持 ask_info": a refusal confirms no
\* action. (_REJECT does not list the word 不同意, and _CONFIRM lists 同意.)
RefusalNeverConfirms ==
    [][Known /\ Known' /\ heard' # NoMessage /\ heard'.meaning = "refuse" =>
         Stored'.confirmed \subseteq Stored.confirmed]_vars

\* "临时恢复、待观察和无证据口头反馈不能进入 resolved": a text that speaks of a
\* temporary recovery or of waiting resolves no session.  (The answer to a branch
\* question is looked through for signals and keeps the outcome of the text
\* before it.)
TemporaryNeverResolves ==
    [][Known /\ Known' /\ Stored'.status = "resolved" /\ Stored.status # "resolved" =>
         heard'.phrases \cap {"temporary", "pending"} = {}]_vars
=============================================================================
