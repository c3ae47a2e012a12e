--------------------------- MODULE CodespaceStart ---------------------------
(***************************************************************************)
(* Waiting for a codespace: waitUntilCodespaceConnectionReady in           *)
(* internal/codespaces/codespaces.go, with StartCodespace of its API       *)
(* client (internal/codespaces/api/api.go), while the codespace goes its   *)
(* own way: it takes its time to start, its users stop and rebuild it, and *)
(* other clients start it.                                                 *)
(***************************************************************************)
EXTENDS Naturals

CONSTANTS MaxChanges, \* bound on the changes that others make
          MaxFaults   \* bound on failures

ASSUME StartAssumption == MaxChanges \in Nat /\ MaxFaults \in Nat

State == {"Available", "Shutdown", "ShuttingDown", "Starting", "Rebuilding"}

VARIABLES
    state,     \* the state of the codespace
    details,   \* whether its connection details are complete
    accepted,  \* a start request was accepted and has not shown yet
    pc, res,   \* the waiter, and what it returns
    seen,      \* the codespace as the waiter last saw it
    lastState,
    tries,     \* the attempts withRetry has made at the current request
    started,   \* history: the waiter has asked for a start since it last saw another state than Shutdown
    prompt,    \* the schedule: whether the waiter polls between any two changes of the codespace
    changes, faults

vars   == <<state, details, accepted, pc, res, seen, lastState, tries, started, prompt, changes, faults>>
server == <<state, details, accepted, prompt, changes>>
waiter == <<pc, res, seen, lastState, tries, started>>

Codespace == [state : State, details : BOOLEAN]
TypeOK ==
    /\ state \in State /\ details \in BOOLEAN /\ accepted \in BOOLEAN
    /\ pc \in {"called", "check", "start", "sleep", "done"}
    /\ res \in {"none", "ready", "error", "timeout"}
    /\ seen \in Codespace
    /\ lastState \in State \cup {""}
    /\ tries \in 0..3
    /\ started \in BOOLEAN /\ prompt \in BOOLEAN
    /\ changes \in 0..MaxChanges /\ faults \in 0..MaxFaults

Actual == [state |-> state, details |-> details]
Ready(c) == c.state = "Available" /\ c.details
Fault == faults < MaxFaults /\ faults' = faults + 1

-----------------------------------------------------------------------------
\* The codespace.  A start that was accepted takes effect later; connection
\* details appear some time after it is available.
Becomes(s, d) == state' = s /\ details' = d
CanChange == prompt => seen = Actual
Proceed ==
    /\ CanChange
    /\ \/ state = "Shutdown" /\ accepted /\ Becomes("Starting", FALSE) /\ accepted' = FALSE
       \/ state \in {"Starting", "Rebuilding"} /\ Becomes("Available", FALSE) /\ UNCHANGED accepted
       \/ state = "Available" /\ ~details /\ Becomes("Available", TRUE) /\ UNCHANGED accepted
       \/ state = "ShuttingDown" /\ Becomes("Shutdown", FALSE) /\ UNCHANGED accepted
    /\ UNCHANGED <<waiter, prompt, changes, faults>>

Others ==
    /\ CanChange /\ changes < MaxChanges /\ changes' = changes + 1
    /\ \/ state = "Available" /\ Becomes("ShuttingDown", FALSE) /\ UNCHANGED accepted
       \/ state = "Available" /\ Becomes("Rebuilding", FALSE) /\ UNCHANGED accepted
       \/ state = "Shutdown" /\ ~accepted /\ accepted' = TRUE /\ UNCHANGED <<state, details>>
    /\ UNCHANGED <<waiter, prompt, faults>>

-----------------------------------------------------------------------------
\* waitUntilCodespaceConnectionReady.
Return(r) == pc' = "done" /\ res' = r

Call ==
    /\ pc = "called"
    /\ IF Ready(seen) THEN Return("ready") ELSE pc' = "check" /\ UNCHANGED res
    /\ UNCHANGED <<server, seen, lastState, tries, started, faults>>

\* One round of the retried function, from the codespace at hand: the
\* caller's in the first round, and the one just polled in the others.
ForgetState == UNCHANGED lastState
KeepShutdown == lastState' = IF seen.state = "Shutdown" THEN seen.state ELSE lastState
KeepState == lastState' = seen.state
Check ==
    /\ pc = "check"
    /\ started' = (started /\ seen.state = "Shutdown")
    /\ \/ Ready(seen) /\ Return("ready") /\ UNCHANGED lastState
       \/ /\ ~Ready(seen)
          /\ pc' = IF seen.state # lastState /\ seen.state = "Shutdown" THEN "start" ELSE "sleep"
          /\ KeepState
          /\ UNCHANGED res
    /\ UNCHANGED <<server, seen, tries, faults>>

\* StartCodespace: a codespace that is not shut down answers 409, which is
\* ignored; a failing server is asked again up to three times, and may have
\* started the codespace all the same.
StartAccepted == accepted' = (accepted \/ state = "Shutdown") /\ UNCHANGED <<state, details, prompt, changes>>
StartAnswered == pc' = "sleep" /\ UNCHANGED res
MaxRetries == 3
Start ==
    /\ pc = "start"
    /\ started' = TRUE
    /\ \/ StartAccepted /\ StartAnswered /\ tries' = 0 /\ UNCHANGED faults
       \/ /\ Fault /\ (StartAccepted \/ UNCHANGED server)
          /\ \/ tries < MaxRetries /\ tries' = tries + 1 /\ UNCHANGED <<pc, res>>
             \/ Return("error") /\ UNCHANGED tries
    /\ UNCHANGED <<seen, lastState>>

Poll ==
    /\ pc = "sleep"
    /\ \/ seen' = Actual /\ pc' = "check" /\ UNCHANGED <<res, faults>>
       \/ Fault /\ Return("error") /\ UNCHANGED seen
    /\ UNCHANGED <<server, lastState, tries, started>>

\* Five minutes have passed.
Timeout ==
    /\ pc = "sleep"
    /\ Return("timeout")
    /\ UNCHANGED <<server, seen, lastState, tries, started, faults>>

-----------------------------------------------------------------------------
Init ==
    /\ state \in State /\ details \in {FALSE, state = "Available"}
    /\ accepted = FALSE
    /\ seen = [state |-> state, details |-> details]
    /\ pc = "called" /\ res = "none"
    /\ lastState = "" /\ tries = 0
    /\ started = FALSE
    /\ prompt \in BOOLEAN /\ changes = 0 /\ faults = 0

Wait == Call \/ Check \/ Start \/ Poll
Next == Wait \/ Timeout \/ Proceed \/ Others

Spec == Init /\ [][Next]_vars

-----------------------------------------------------------------------------
\* Properties.

\* "So that we don't try to start the codespace twice": once it has asked for
\* a start, the waiter does not ask again before it has seen the codespace in
\* another state, however long the start takes to show (codespaces.go).
NoSecondStart == pc = "start" /\ tries = 0 => ~started

\* A client that polls between any two changes of the codespace gets there:
\* the codespace is started as often as it is stopped, and the wait ends with
\* a codespace to connect to, unless a request fails or the time is up.
GetsReady == prompt /\ pc = "called" ~> pc = "done"
=============================================================================
