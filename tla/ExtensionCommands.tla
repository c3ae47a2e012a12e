-------------------------- MODULE ExtensionCommands --------------------------
(***************************************************************************)
(* An extension is installed, upgraded and removed (ExtensionManager), and *)
(* run: `gh` and the extension's command look for new releases meanwhile   *)
(* (UpdateNotifier).                                                       *)
(***************************************************************************)
EXTENDS ExtensionManager

CONSTANTS Processes, MaxDays   \* of UpdateNotifier

VARIABLES
    stage,   \* "manage" or "run"
    day, stamp, main, chk, told, again, overlap   \* of UpdateNotifier

Notifier == INSTANCE UpdateNotifier

ASSUME NotifierAssumption == Notifier!NotifierBounds

notifier == <<day, stamp, main, chk, told, again, overlap>>
allVars == <<stage, vars, notifier>>

Managing(A) == stage = "manage" /\ A /\ UNCHANGED <<stage, notifier>>

\* An extension that is on disk is run; which version it is does not matter here.
ThenRun ==
    /\ stage = "manage" /\ pc = "idle" /\ OnDisk # 0 /\ stage' = "run"
    /\ latest' = 1 /\ binary' = TRUE
    /\ dir' = TRUE /\ manifest' = [tag |-> 1, pinned |-> FALSE] /\ exe' = 1 /\ clone' = NoFile /\ pins' = {}
    /\ res' = "none" /\ op' = [name |-> "install", force |-> FALSE, all |-> FALSE, pin |-> 0]
    /\ kind' = "binary" /\ seen' = 0 /\ tag' = 1 /\ since' = 0 /\ wanted' = 0 /\ torn' = FALSE /\ ops' = 0
    /\ faults' = MaxFaults - 1
    /\ stamp' \in {[k \in Notifier!Kinds |-> t] : t \in {0, Notifier!NoStamp}}
    /\ UNCHANGED <<pc, day, main, chk, told, again, overlap>>

Running(A) == stage = "run" /\ A /\ UNCHANGED <<stage, service, disk, command, history, ops>>

\* The state files are as earlier commands have left them.
NothingYet == stamp = [k \in Notifier!Kinds |-> Notifier!NoStamp]
CommandsInit == stage = "manage" /\ Init /\ Notifier!Init /\ NothingYet
CommandsNext == Managing(Next) \/ ThenRun \/ Running(Notifier!Next)

\* Main and the goroutines run on, and a request ends when it is aborted.  A command need not
\* end, and a request need not be answered.
CommandsFairness ==
    \A p \in Processes : /\ WF_allVars(Running(Notifier!Main(p)))
                          /\ WF_allVars(Running(Notifier!Checks(p, "gh")))
CommandsSpec == CommandsInit /\ [][CommandsNext]_allVars /\ CommandsFairness

-----------------------------------------------------------------------------
\* Properties, with those of ExtensionManager: the user is told once, and Main comes to
\* its end, as UpdateNotifier has it.
TellOnce == Notifier!TellOnce
MainEnds == Notifier!MainEnds
=============================================================================
