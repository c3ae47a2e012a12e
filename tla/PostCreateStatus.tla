-------------------------- MODULE PostCreateStatus --------------------------
(***************************************************************************)
(* `gh codespace create --status`: showStatus in                           *)
(* pkg/cmd/codespace/create.go follows the steps that a new codespace goes *)
(* through, from the batches that PollPostCreateStates in                  *)
(* internal/codespaces/states.go reads every second through a tunnel.      *)
(***************************************************************************)
EXTENDS Naturals, FiniteSetsExt

CONSTANTS Steps,     \* how many steps the codespace may have
          MaxFaults  \* bound on failures

VARIABLES
    shown,     \* the codespace lists the steps 1..shown
    running,   \* the steps of them that run
    tunnel,    \* the forwarder of the ssh port, "closed" once its result is in tunnelClosed
    pc, res,   \* PollPostCreateStates, and what showStatus returns
    finishedStates, lastState, breakNextState,  \* of showStatus; lastState 0 is the zero value
    cancelled, \* stopPolling was called
    polled,    \* history: how many steps the last poll listed
    faults

vars == <<shown, running, tunnel, pc, res, finishedStates, lastState, breakNextState,
          cancelled, polled, faults>>
codespace == <<shown, running>>
poller == <<finishedStates, lastState, breakNextState, cancelled, polled>>

TypeOK ==
    /\ shown \in 0..Steps /\ running \subseteq 1..shown
    /\ tunnel \in {"open", "closed"}
    /\ pc \in {"setup", "select", "done"} /\ res \in {"none", "ok", "error"}
    /\ finishedStates \subseteq 1..shown /\ lastState \in (0..shown) \ finishedStates
    /\ breakNextState \in BOOLEAN /\ cancelled \in BOOLEAN
    /\ polled \in 0..shown /\ faults \in 0..MaxFaults

Fault == faults < MaxFaults /\ faults' = faults + 1

-----------------------------------------------------------------------------
\* The codespace: steps appear in order, run and finish.
StepAppears ==
    /\ shown < Steps
    /\ shown' = shown + 1 /\ running' = running \cup {shown'}
    /\ UNCHANGED <<tunnel, pc, res, poller, faults>>

StepFinishes ==
    /\ \E i \in running : running' = running \ {i}
    /\ UNCHANGED <<shown, tunnel, pc, res, poller, faults>>

-----------------------------------------------------------------------------
\* PollPostCreateStates.  Its result reaches showStatus, which takes a
\* cancelled context for success once breakNextState is set.
Return(err) ==
    /\ pc' = "done"
    /\ res' = IF err = "canceled" /\ breakNextState THEN "ok" ELSE "error"

\* Up to the loop.
Setup ==
    /\ pc = "setup"
    /\ \/ pc' = "select" /\ UNCHANGED <<res, faults>>
       \/ Fault /\ Return("error")
    /\ UNCHANGED <<codespace, tunnel, poller>>

\* The forwarder ends with an error, or because the context is done.
TunnelEnds ==
    /\ pc = "select" /\ tunnel = "open"
    /\ (cancelled /\ UNCHANGED faults) \/ Fault
    /\ tunnel' = "closed"
    /\ UNCHANGED <<codespace, pc, res, poller>>

\* The three ways out of the select.
ContextDone ==
    /\ pc = "select" /\ cancelled
    /\ Return("canceled")
    /\ UNCHANGED <<codespace, tunnel, poller, faults>>

TunnelClosed ==
    /\ pc = "select" /\ tunnel = "closed"
    /\ Return("error")
    /\ UNCHANGED <<codespace, tunnel, poller, faults>>

PollFails ==
    /\ pc = "select"
    /\ \/ cancelled /\ Return("canceled") /\ UNCHANGED faults
       \/ Fault /\ Return("error")
    /\ UNCHANGED <<codespace, tunnel, poller>>

\* The poller of showStatus, called with the steps that the codespace lists.
\* It goes through those it has not seen finished, up to the first that runs:
\* that one it shows, unless it does already, and those before it are done with.
Unfinished == (1..shown) \ finishedStates
AnyRuns == Unfinished \cap running # {}
Current == Min(Unfinished \cap running)
DoneWith == {i \in Unfinished : \A j \in Unfinished \cap running : i < j}

ResetLast == IF lastState \in DoneWith THEN 0 ELSE lastState
StopAnyway == breakNextState
StopNow == ~AnyRuns /\ breakNextState
BreakNext == breakNextState' = (breakNextState \/ ~AnyRuns)
Poller ==
    /\ finishedStates' = finishedStates \cup DoneWith
    /\ lastState' = IF AnyRuns THEN Current ELSE ResetLast
    /\ cancelled' = (cancelled \/ StopNow)
    /\ BreakNext
    /\ polled' = shown

Poll ==
    /\ pc = "select" /\ ~cancelled
    /\ Poller
    /\ UNCHANGED <<codespace, tunnel, pc, res, faults>>

-----------------------------------------------------------------------------
Init ==
    /\ shown = 0 /\ running = {}
    /\ tunnel = "open"
    /\ pc = "setup" /\ res = "none"
    /\ finishedStates = {} /\ lastState = 0
    /\ breakNextState = FALSE /\ cancelled = FALSE
    /\ polled = 0 /\ faults = 0

Select == ContextDone \/ TunnelClosed \/ PollFails \/ Poll
Next == StepAppears \/ StepFinishes \/ Setup \/ TunnelEnds \/ Select

-----------------------------------------------------------------------------
\* The command ends well only when every step that its last poll listed has finished and
\* was seen to, one that appeared after a quiet poll too: a poll without a running step
\* does not end it yet, and a step that runs keeps it going (showStatus).
StepsWaitedFor == res = "ok" => finishedStates = 1..polled /\ running \cap 1..polled = {}
=============================================================================
