---------------------------- MODULE WorkflowRuns ----------------------------
(***************************************************************************)
(* `gh run watch` until the run has completed (RunWatch), and then its log *)
(* in one or more terminals (RunLogs), while it is run again, cancelled    *)
(* and deleted.                                                            *)
(***************************************************************************)
EXTENDS RunLogs

CONSTANTS NJobs, MaxNotes   \* of RunWatch

VARIABLES
    stage,                                      \* "watch" or "logs"
    job, ann, runStatus, mayRead, pc, res,      \* of RunWatch
    status, todo, listed, annotations, missing, cache, overwritten, screen

Watch == INSTANCE RunWatch

ASSUME WatchAssumption == Watch!WatchBounds

service == <<job, ann, runStatus, mayRead>>
watcher == <<pc, res, status, todo, listed, annotations, missing, cache, overwritten, screen>>
logs == <<attempt, run, entry, view, mixed, views>>
allVars == <<stage, service, watcher, vars>>

Watching(A) == stage = "watch" /\ A /\ UNCHANGED <<stage, logs>>

\* A watch that has come to its end leaves a completed run; what it has shown
\* does not matter any more.
ThenLogs ==
    /\ stage = "watch" /\ res \in {"ok", "already"} /\ stage' = "logs"
    /\ job' = [j \in Watch!Jobs |-> "completed"] /\ ann' = [j \in Watch!Jobs |-> 0] /\ mayRead' = TRUE
    /\ todo' = {} /\ listed' = {} /\ annotations' = Watch!Nil /\ missing' = FALSE /\ cache' = <<>> /\ overwritten' = FALSE
    /\ screen' = [notes |-> <<>>, jobs |-> {}] /\ res' = "none"
    /\ UNCHANGED <<runStatus, pc, status, vars>>

ShowingLogs(A) == stage = "logs" /\ A /\ UNCHANGED <<stage, service, watcher>>

WorkflowInit == stage = "watch" /\ Watch!Init /\ Init
WorkflowNext == Watching(Watch!Next) \/ ThenLogs \/ ShowingLogs(Next)
WorkflowSpec == WorkflowInit /\ [][WorkflowNext]_allVars

-----------------------------------------------------------------------------
\* Property, with LogRight of RunLogs.

\* Every rendering of the watch is right, as RunWatch has it.
ScreenRight == [][stage' = "watch" /\ Watch!Rendered => Watch!ShownRight]_allVars
=============================================================================
