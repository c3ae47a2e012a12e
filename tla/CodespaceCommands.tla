-------------------------- MODULE CodespaceCommands --------------------------
(***************************************************************************)
(* `gh codespace` from one end to the other: codespaces are created,       *)
(* stopped and deleted (CodespaceLifecycle).  A command that connects to   *)
(* one waits until it can (CodespaceStart); then `create --status` follows *)
(* the steps of the creation (PostCreateStatus), `ssh` and `cp` hold a     *)
(* session (CodespaceSession), and `ports visibility` changes a port       *)
(* (PortVisibility).                                                       *)
(***************************************************************************)
EXTENDS CodespaceStart

CONSTANTS
    Codespaces, MaxManaged,  \* those that are created and deleted, and how often others change them
    Steps,                   \* how many steps the creation of a codespace may have
    Visibilities, Protocols, \* of ports, see PortVisibility
    Default, HTTP, Forwards

ASSUME StepsAssumption == Steps \in Nat

VARIABLES
    stage,      \* "manage", or "wait", then "create", "ssh" or "ports"; "failed" if the wait did
    life, unsaved, idle, consent, op, at, out, again, checker, done, mine, made,  \* of CodespaceLifecycle
    listed, todo, agreed, codespacesToDelete, asked, failures, deletedCodespaces, managed,
    shown, running, tunnel, spc, sres, finishedStates, lastStep, breakNextState,  \* of PostCreateStatus
    cancelled, polled,
    main, result, command, pf, sshTunnel, dialed, shell, hb, ch, pfctx, ctx,      \* of CodespaceSession
    mutex, connected, links, reason, override, owed,
    port, want, allowed, expired, portPc, portRes, old, go, outcome, tunnelled,   \* of PortVisibility
    proto, other, first, missed, meddled

Lifecycle == INSTANCE CodespaceLifecycle WITH changes <- managed, MaxChanges <- MaxManaged
Status == INSTANCE PostCreateStatus WITH pc <- spc, res <- sres, lastState <- lastStep
Session == INSTANCE CodespaceSession WITH res <- result, tunnel <- sshTunnel
Ports == INSTANCE PortVisibility WITH pc <- portPc, res <- portRes, connected <- tunnelled, Others <- Forwards

ASSUME LifecycleAssumption == Lifecycle!LifecycleBounds
ASSUME PortsAssumption == Ports!VisibilityBounds

lifecycle == <<life, unsaved, idle, consent, op, at, out, again, checker, done, mine, made,
               listed, todo, agreed, codespacesToDelete, asked, failures, deletedCodespaces, managed>>
wait    == <<state, details, accepted, pc, res, seen, lastState, tries, started, prompt, changes>>
status  == <<shown, running, tunnel, spc, sres, finishedStates, lastStep, breakNextState, cancelled, polled>>
session == <<main, result, command, pf, sshTunnel, dialed, shell, hb, ch, pfctx, ctx, mutex,
             connected, links, reason, override, owed>>
ports   == <<port, want, allowed, expired, portPc, portRes, old, go, outcome, tunnelled,
             proto, other, first, missed, meddled>>
allVars == <<stage, lifecycle, wait, status, session, ports, faults>>

\* A codespace that has been created is not shut down, and may not be ready; a
\* command that only creates, stops or deletes ends where it is.
Managing(A) == stage = "manage" /\ A /\ UNCHANGED <<stage, wait, status, session, ports>>

\* Nothing of it matters afterwards.
Forgotten ==
    /\ out = "none" /\ again = FALSE /\ checker = "off" /\ done = "none" /\ mine = {} /\ made = {}
    /\ listed = <<>> /\ todo = {} /\ agreed = {} /\ codespacesToDelete = {} /\ asked = {}
    /\ failures = {} /\ deletedCodespaces = 0 /\ managed = 0
    /\ life = [c \in Codespaces |-> "unused"] /\ unsaved = {} /\ idle = {} /\ consent = "not_needed"
    /\ op = [name |-> "stop"] /\ at = "done"

Forget ==
    /\ out' = "none" /\ again' = FALSE /\ checker' = "off" /\ done' = "none" /\ mine' = {} /\ made' = {}
    /\ listed' = <<>> /\ todo' = {} /\ agreed' = {} /\ codespacesToDelete' = {} /\ asked' = {}
    /\ failures' = {} /\ deletedCodespaces' = 0 /\ managed' = 0
    /\ life' = [c \in Codespaces |-> "unused"] /\ unsaved' = {} /\ idle' = {} /\ consent' = "not_needed"
    /\ op' = [name |-> "stop"] /\ at' = "done"

CreatedWithStatus ==
    /\ stage = "manage" /\ op.name = "create" /\ out = "ok" /\ stage' = "wait"
    /\ \E ready \in BOOLEAN : Becomes("Available", ready)
    /\ seen' = Actual' /\ prompt' \in BOOLEAN
    /\ Forget
    /\ UNCHANGED <<accepted, pc, res, lastState, tries, started, changes, status, session, ports, faults>>

\* The wait, and then the command.  What happens to the codespace later reaches
\* the command as a failure of the tunnel, so that the variables of the wait
\* are forgotten, and which command it is matters only from then on.
Waiting(A) == stage = "wait" /\ pc # "done" /\ A /\ UNCHANGED <<stage, lifecycle, status, session, ports>>

BeginUpdate ==
    /\ port' \in Ports!PortStates /\ first' = port' /\ want' \in Visibilities /\ allowed' \in SUBSET Visibilities
    /\ UNCHANGED <<expired, portPc, portRes, old, go, outcome, tunnelled, proto, other, missed, meddled>>

WaitOver ==
    /\ stage = "wait" /\ pc = "done"
    /\ \/ stage' \in (IF res = "ready" THEN {"create", "ssh"} ELSE {"failed"}) /\ UNCHANGED ports
       \/ res = "ready" /\ stage' = "ports" /\ BeginUpdate
    /\ Becomes("Available", TRUE) /\ accepted' = FALSE /\ seen' = Actual'
    /\ lastState' = "" /\ tries' = 0 /\ started' = FALSE /\ prompt' = FALSE /\ changes' = 0
    /\ UNCHANGED <<lifecycle, pc, res, status, session, faults>>

Creating(A) == stage = "create" /\ A /\ UNCHANGED <<stage, lifecycle, wait, session, ports>>
InSession(A) == stage = "ssh" /\ A /\ UNCHANGED <<stage, lifecycle, wait, status, ports>>
Changing(A) == stage = "ports" /\ A /\ UNCHANGED <<stage, lifecycle, wait, status, session>>

CommandsInit ==
    /\ Status!Init /\ Session!Init
    /\ Ports!Init /\ port = Ports!NoPort /\ want = Default /\ allowed = {}
    /\ \/ /\ stage = "wait" /\ Init /\ Forgotten
       \/ /\ stage = "manage" /\ Lifecycle!Init
          /\ Init /\ state = "Available" /\ details /\ ~prompt
CommandsNext ==
    \/ Managing(Lifecycle!Next) \/ CreatedWithStatus
    \/ Waiting(Next) \/ WaitOver
    \/ Creating(Status!Next)
    \/ InSession(Session!Next)
    \/ Changing(Ports!Next)

\* gh runs on and requests end, within their time limits; the waiter runs on and a codespace proceeds on its own; the
\* ticker ticks, the loops and goroutines run on, every step finishes at last and
\* a tunnel connection is made or refused.  A forwarder need not end before
\* its context or its link.  Others may do nothing, nothing has to fail, the five
\* minutes are left open, no shell has to end and no traffic has to come.
CommandsFairness ==
    /\ WF_allVars(Managing(Lifecycle!Gh /\ faults' = faults))
    /\ WF_allVars(Waiting(Wait)) /\ WF_allVars(Waiting(Proceed)) /\ WF_allVars(WaitOver)
    /\ WF_allVars(Creating(Status!Setup)) /\ WF_allVars(Creating(Status!Poll))
    /\ WF_allVars(Creating(Status!ContextDone)) /\ WF_allVars(Creating(Status!StepFinishes))
    /\ WF_allVars(InSession(Session!SSH)) /\ WF_allVars(InSession(Session!Dial))
    /\ WF_allVars(InSession(Session!Heartbeat)) /\ WF_allVars(InSession(Session!Tick))
    /\ WF_allVars(InSession(Session!Shell))
    /\ WF_allVars(InSession(pf # "listen" /\ Session!ForwardRPC))
    /\ WF_allVars(InSession(sshTunnel # "listen" /\ Session!ForwardSSH))
    /\ WF_allVars(InSession((ctx \/ main \in {"close_fwd", "returned"}) /\ Session!ForwardSSH))
CommandsSpec == CommandsInit /\ [][CommandsNext]_allVars /\ CommandsFairness

-----------------------------------------------------------------------------
\* Properties, with those of CodespaceStart.

\* The commands come to an end.  Create, once its request is under way, ends or asks, whatever
\* becomes of the codespace, of the permissions and of the goroutine that looks for them.  With
\* --status it returns once the wait is over: no order of batches makes the poller wait for a
\* step that it has passed over, and a wait that failed is not followed by polling.  A session
\* ends with its shell or its tunnel, as stated in CodespaceSession.
CommandsEnd ==
    /\ stage = "manage" /\ at \notin {"ask", "done"} ~> at \in {"ask", "done"}
    /\ stage = "wait" /\ pc = "done" ~> stage \in {"failed", "ssh", "ports"} \/ spc = "done"
    /\ Session!SessionEnds

\* That of PostCreateStatus: the steps of the creation that were listed have finished.
StepsWaitedFor == Status!StepsWaitedFor

\* Those of CodespaceLifecycle: one command creates one codespace; what is to be deleted
\* is gone or reported; and nothing else is deleted.
AllAccounted == Lifecycle!AllAccounted
AgreedOnly == Lifecycle!AgreedOnly

\* The session's two, stated in CodespaceSession: one connection of the shared
\* tunnel client; a codespace in use is kept alive.
OneConnection == Session!OneConnection
KeptAlive == Session!KeptAlive

\* That of PortVisibility: what an update of a port leaves behind.
UpdateHonest == Ports!UpdateHonest
=============================================================================
