------------------------- MODULE CodespaceLifecycle -------------------------
(***************************************************************************)
(* `gh codespace create`, `delete` and `stop` in pkg/cmd/codespace, with   *)
(* the requests of internal/codespaces/api/api.go, up to the moment when   *)
(* a new codespace exists, while it is provisioned, other clients manage   *)
(* the same codespaces, and the user works in them.                        *)
(***************************************************************************)
EXTENDS Naturals, FiniteSets, Functions

CONSTANTS Codespaces,  \* names of codespaces, given out once
          MaxChanges,  \* bound on the changes that others make
          MaxFaults    \* bound on failing requests

LifecycleBounds == IsFiniteSet(Codespaces) /\ MaxChanges \in Nat /\ MaxFaults \in Nat

VARIABLES
    life,       \* each codespace, as the service has it
    unsaved,    \* those with changes that are nowhere else
    idle,       \* those not used for the number of days of --days
    consent,    \* the additional permissions that the repository asks for
    op,         \* the command and its flags
    at, out,    \* where it is, and what it returned
    again,      \* handleAdditionalPermissions asks for the codespace again
    checker, done, \* the goroutine of pollForPermissions, and the place in its channel
    mine, made, \* the codespace that the service has named; history: those that create has brought about
    listed,     \* the codespaces that delete or stop has fetched, as they were
    todo,       \* of those, the ones that delete has not gone through yet
    agreed,     \* those whose deletion the user has confirmed
    codespacesToDelete, asked, failures, deletedCodespaces,
    changes, faults

service == <<life, unsaved, idle, consent, changes>>
creation == <<again, checker, done, mine, made>>
deletion == <<listed, todo, agreed, codespacesToDelete, asked, failures, deletedCodespaces>>
vars == <<service, op, at, out, creation, deletion, faults>>

Life == {"unused", "provisioning", "available", "shutdown", "gone"}
Exists(c) == life[c] \notin {"unused", "gone"}
Existing == {c \in Codespaces : Exists(c)}

Op == [name : {"create", "delete", "stop"}, all : BOOLEAN, days : BOOLEAN, skipConfirm : BOOLEAN,
       optOut : BOOLEAN, tty : BOOLEAN]

TypeOK ==
    /\ life \in [Codespaces -> Life] /\ unsaved \subseteq Codespaces /\ idle \subseteq Codespaces
    /\ consent \in {"not_needed", "needed", "given"}
    /\ op \in Op
    /\ at \in {"prepare", "create", "poll", "ask", "perms", "list", "confirm", "deleting", "stop", "done"}
    /\ out \in {"none", "ok", "error"} /\ again \in BOOLEAN
    /\ checker \in {"off", "polling", "ended"} /\ done \in {"none", "accepted", "error"}
    /\ mine \subseteq Codespaces /\ made \subseteq Codespaces
    /\ DOMAIN listed \subseteq Codespaces /\ todo \subseteq DOMAIN listed
    /\ agreed \subseteq DOMAIN listed /\ codespacesToDelete \subseteq DOMAIN listed
    /\ asked \subseteq codespacesToDelete /\ failures \subseteq codespacesToDelete
    /\ deletedCodespaces \in 0..Cardinality(Codespaces)
    /\ changes \in 0..MaxChanges /\ faults \in 0..MaxFaults

Fault == faults < MaxFaults /\ faults' = faults + 1
NoFault == UNCHANGED faults
End(r) == at' = "done" /\ out' = r
Goto(l) == at' = l /\ UNCHANGED out
SetLife(c, l) == life' = [life EXCEPT ![c] = l] /\ UNCHANGED <<unsaved, idle, consent, changes>>

-----------------------------------------------------------------------------
\* The service finishes what it has begun; others create, stop and delete, the user
\* works in a codespace, and gives the permissions in the browser.
Provisioned ==
    /\ \E c \in Codespaces : life[c] = "provisioning" /\ SetLife(c, "available")
    /\ UNCHANGED <<op, at, out, creation, deletion, faults>>

Others ==
    /\ changes < MaxChanges /\ changes' = changes + 1
    /\ \/ \E c \in Existing :
            /\ \E l \in {"available", "shutdown", "gone"} \ {life[c]} : life' = [life EXCEPT ![c] = l]
            /\ UNCHANGED <<unsaved, idle, consent>>
       \/ \E c \in Existing :
            /\ life[c] = "available" /\ unsaved' = unsaved \cup {c} /\ idle' = idle \ {c}
            /\ UNCHANGED <<life, consent>>
       \/ consent = "needed" /\ consent' = "given" /\ UNCHANGED <<life, unsaved, idle>>
    /\ UNCHANGED <<op, at, out, creation, deletion, faults>>

-----------------------------------------------------------------------------
\* `gh codespace create`.

\* The repository, its owner, the devcontainer and the machine are looked up and
\* chosen; nothing changes, and any request or prompt may fail.
Prepare ==
    /\ at = "prepare"
    /\ (Goto("create") /\ NoFault) \/ (Fault /\ End("error"))
    /\ UNCHANGED <<service, op, creation, deletion>>

\* startCreate.  A request without the permissions is refused; the answer to one
\* with them, or after opting out, is the codespace, or that it will take longer; either
\* may be lost.
Refused == consent = "needed" /\ ~op.optOut
AfterRefusal == IF op.tty /\ ~again THEN Goto("ask") ELSE End("error")
LostCreate == End("error") /\ UNCHANGED mine
StartCreate ==
    /\ at = "create"
    /\ \/ Refused /\ AfterRefusal /\ NoFault /\ UNCHANGED <<service, mine, made>>
       \/ Fault /\ End("error") /\ UNCHANGED <<service, mine, made>>
       \/ /\ ~Refused
          /\ \E c \in Codespaces :
               /\ life[c] = "unused" /\ made' = made \cup {c}
               /\ \/ SetLife(c, "available") /\ End("ok") /\ mine' = {c} /\ NoFault
                  \/ SetLife(c, "provisioning") /\ Goto("poll") /\ mine' = {c} /\ NoFault
                  \/ SetLife(c, "provisioning") /\ Fault /\ LostCreate
    /\ UNCHANGED <<op, again, checker, done, deletion>>

\* CreateCodespace goes on until the codespace is available, for two minutes.
PollCodespace ==
    /\ at = "poll"
    /\ \/ \E c \in mine : life[c] = "available" /\ End("ok") /\ NoFault
       \/ \E c \in mine : life[c] = "gone" /\ End("error") /\ NoFault
       \/ Fault /\ End("error")
    /\ UNCHANGED <<service, op, creation, deletion>>

\* handleAdditionalPermissions: in the browser, or without them.
Ask ==
    /\ at = "ask" /\ again' = TRUE
    /\ \/ Goto("perms") /\ checker' = "polling" /\ NoFault /\ UNCHANGED op
       \/ Goto("create") /\ op' = [op EXCEPT !.optOut = TRUE] /\ NoFault /\ UNCHANGED checker
       \/ Fault /\ End("error") /\ UNCHANGED <<op, checker>>
    /\ UNCHANGED <<service, done, mine, made, deletion>>

\* The goroutine of pollForPermissions; a request fails too when the wait is over
\* and its context cancelled.
Accepted == consent # "needed"
CheckPermissions ==
    /\ checker = "polling"
    /\ \/ Accepted /\ done' = "accepted" /\ checker' = "ended" /\ NoFault
       \/ (Fault \/ (at # "perms" /\ NoFault)) /\ done' = "error" /\ checker' = "ended"
    /\ UNCHANGED <<service, op, at, out, again, mine, made, deletion>>

ReceiveDone ==
    /\ at = "perms" /\ done # "none"
    /\ IF done = "accepted" THEN Goto("create") ELSE End("error")
    /\ UNCHANGED <<service, op, creation, deletion, faults>>

\* The time limits of CreateCodespace and of pollForPermissions.
HasDeadline == at \in {"poll", "perms"}
Deadline ==
    /\ HasDeadline /\ End("error")
    /\ UNCHANGED <<service, op, creation, deletion, faults>>

-----------------------------------------------------------------------------
\* `gh codespace delete` and `stop`.

\* The codespaces are fetched, all of them, or one that the user names; without --all
\* or a name the user chooses one, and stop offers those that run.  Naming one that does
\* not exist, or does not run, is an error, and so is having none to choose.
Seen(cs) == [c \in cs |-> [unsaved |-> c \in unsaved, idle |-> c \in idle]]
ListCodespaces == Existing
Running == {c \in ListCodespaces : life[c] = "available"}
Choices == {{c} : c \in IF op.name = "stop" THEN Running ELSE ListCodespaces}
List ==
    /\ at = "list"
    /\ \/ /\ \E cs \in IF op.all THEN {ListCodespaces} ELSE Choices : listed' = Seen(cs) /\ todo' = cs
          /\ Goto(IF op.name = "stop" THEN "stop" ELSE "confirm") /\ NoFault
       \/ ~op.all /\ End("error") /\ NoFault /\ UNCHANGED <<listed, todo>>
       \/ Fault /\ End("error") /\ UNCHANGED <<listed, todo>>
    /\ UNCHANGED <<service, op, creation, agreed, codespacesToDelete, asked, failures, deletedCodespaces>>

\* One codespace after the other: too recent, without unsaved changes, or to be
\* confirmed, which needs a terminal.
Skipped(c) == op.days /\ ~listed[c].idle
NeedsTerminal(c) == op.skipConfirm \/ ~op.tty \/ ~listed[c].unsaved
NeedsNoPrompt(c) == op.skipConfirm \/ ~listed[c].unsaved
OnlyTaken(c) == todo' = todo \ {c} /\ Goto("confirm") /\ NoFault
Confirm ==
    /\ at = "confirm"
    /\ \E c \in todo :
         \/ Skipped(c) /\ OnlyTaken(c) /\ UNCHANGED <<agreed, codespacesToDelete>>
         \/ /\ ~Skipped(c) /\ NeedsNoPrompt(c) /\ OnlyTaken(c)
            /\ codespacesToDelete' = codespacesToDelete \cup {c} /\ UNCHANGED agreed
         \/ /\ ~Skipped(c) /\ ~NeedsNoPrompt(c) /\ op.tty
            /\ \/ /\ OnlyTaken(c) /\ agreed' = agreed \cup {c}
                  /\ codespacesToDelete' = codespacesToDelete \cup {c}
               \/ OnlyTaken(c) /\ UNCHANGED <<agreed, codespacesToDelete>>
               \/ Fault /\ End("error") /\ UNCHANGED <<todo, agreed, codespacesToDelete>>
         \/ /\ ~Skipped(c) /\ ~NeedsNoPrompt(c) /\ ~op.tty
            /\ End("error") /\ NoFault /\ UNCHANGED <<todo, agreed, codespacesToDelete>>
    /\ UNCHANGED <<service, op, creation, listed, asked, failures, deletedCodespaces>>

StartDeleting ==
    /\ at = "confirm" /\ todo = {}
    /\ IF codespacesToDelete = {} THEN End("error") ELSE Goto("deleting")
    /\ asked' = codespacesToDelete
    /\ UNCHANGED <<service, op, creation, listed, todo, agreed, codespacesToDelete, failures, deletedCodespaces, faults>>

\* A goroutine of the error group, which has no context: none ends another.
Deletes(c) == SetLife(c, "gone")
DeletedOne == deletedCodespaces' = deletedCodespaces + 1 /\ UNCHANGED failures
FailedOne(c) == failures' = failures \cup {c} /\ UNCHANGED deletedCodespaces
OthersUntilFailure(c) == IF failures' = {} THEN asked \ {c} ELSE {}
OthersOf(c) == asked \ {c}
DeleteCodespace(c) ==
    /\ at = "deleting" /\ c \in asked
    /\ \/ Exists(c) /\ Deletes(c) /\ DeletedOne /\ NoFault
       \/ ~Exists(c) /\ FailedOne(c) /\ NoFault /\ UNCHANGED service
       \/ Fault /\ FailedOne(c) /\ (UNCHANGED service \/ (Exists(c) /\ Deletes(c)))
    /\ asked' = OthersOf(c)
    /\ UNCHANGED <<op, at, out, creation, listed, todo, agreed, codespacesToDelete>>

GroupWait ==
    /\ at = "deleting" /\ asked = {}
    /\ End(IF failures = {} THEN "ok" ELSE "error")
    /\ UNCHANGED <<service, op, creation, deletion, faults>>

\* A codespace that does not run any more may be stopped with or without an error.
Stops(c) == life[c] = "available" /\ SetLife(c, "shutdown")
StopCodespace ==
    /\ at = "stop"
    /\ \E c \in DOMAIN listed :
         \/ Stops(c) /\ End("ok") /\ NoFault
         \/ Stops(c) /\ Fault /\ End("error")
         \/ life[c] \in {"provisioning", "shutdown"} /\ End("ok") /\ NoFault /\ UNCHANGED service
         \/ life[c] # "available" /\ End("error") /\ NoFault /\ UNCHANGED service
         \/ Fault /\ End("error") /\ UNCHANGED service
    /\ UNCHANGED <<op, creation, deletion>>

-----------------------------------------------------------------------------
Fresh ==
    /\ out = "none" /\ again = FALSE /\ checker = "off" /\ done = "none" /\ mine = {} /\ made = {}
    /\ listed = <<>> /\ todo = {} /\ agreed = {} /\ codespacesToDelete = {} /\ asked = {}
    /\ failures = {} /\ deletedCodespaces = 0 /\ changes = 0

\* At first a codespace does not exist or is available; what a flag of another command
\* would be makes no difference.
Init ==
    /\ life \in [Codespaces -> {"unused", "available"}]
    /\ unsaved \in SUBSET Existing /\ idle \in SUBSET Existing
    /\ consent \in {"not_needed", "needed"}
    /\ op \in Op
    /\ op.name = "delete" \/ (~op.all /\ ~op.days /\ ~op.skipConfirm /\ unsaved = {} /\ idle = {})
    /\ op.name = "create" \/ (~op.optOut /\ consent = "not_needed")
    /\ op.name = "stop" \/ op.skipConfirm => op.tty
    /\ ~op.days => idle = {}
    /\ op.name = "create" => Existing = {}
    /\ at = IF op.name = "create" THEN "prepare" ELSE "list"
    /\ Fresh /\ faults = 0

CreateSteps == Prepare \/ StartCreate \/ PollCodespace \/ CheckPermissions \/ ReceiveDone \/ Deadline
DeleteSteps == List \/ Confirm \/ StartDeleting \/ GroupWait \/ \E c \in Codespaces : DeleteCodespace(c)
Gh == CreateSteps \/ DeleteSteps \/ StopCodespace
Next == Provisioned \/ Others \/ Ask \/ Gh
Spec == Init /\ [][Next]_vars

-----------------------------------------------------------------------------
\* Properties.

\* One command creates at most one codespace, although an answer may be lost, creation
\* go on asynchronously and the permissions make gh ask twice; and
\* one that it reports is that one (nobody wants to pay for a second).
OneCreated ==
    /\ Cardinality(made) <= 1
    /\ op.name = "create" /\ out = "ok" => made = mine /\ made # {}

\* When delete is done, every codespace that was to be deleted is gone or reported
\* by name to have failed, whatever happened to the others; success is for all
\* of them, and the two numbers that are reported are right (delete.go).
EachAccounted ==
    op.name = "delete" /\ at = "done" /\ asked = {} /\ todo = {} =>
      /\ \A c \in codespacesToDelete \ failures : life[c] = "gone"
      /\ out = "ok" => failures = {} /\ codespacesToDelete # {}
      /\ deletedCodespaces = Cardinality(codespacesToDelete \ failures)

\* What the two commands report is what has happened.
AllAccounted == OneCreated /\ EachAccounted

\* delete takes away only what it has looked at, what is old enough and what had, when it
\* was looked at, no unsaved changes, unless the user agreed; and nothing at
\* all before every question has been answered.  Unsaved changes made since are lost.
AgreedOnly == [][
    \A c \in Codespaces : Exists(c) /\ life'[c] = "gone" /\ changes' = changes =>
      /\ c \in DOMAIN listed /\ todo = {}
      /\ op.days => listed[c].idle
      /\ op.skipConfirm \/ ~listed[c].unsaved \/ c \in agreed
    ]_vars
=============================================================================
