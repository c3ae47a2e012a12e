---------------------------- MODULE NewRepository ----------------------------
(***************************************************************************)
(* From `gh repo create` to the first labels: the repository and its clone *)
(* are set up (RepoSetup), and `gh label clone`, run in the clone, fills   *)
(* the repository with the labels of another one (LabelClone).  The new    *)
(* repository may have labels from the start, and is open to others.       *)
(***************************************************************************)
EXTENDS RepoSetup

CONSTANTS MaxLabels, PageSize, Workers, MaxOthers   \* of LabelClone

VARIABLES
    stage,        \* "setup" or "labels"
    source, created, cursor, labels, throughout, dest, force,  \* of LabelClone
    lpc, lres, toCreate, worker, failed, successCount, wrote, kept, others

Labels == INSTANCE LabelClone WITH pc <- lpc, res <- lres

ASSUME LabelAssumption == Labels!LabelBounds

cloning == <<source, created, cursor, labels, throughout, dest, force, lpc, lres, toCreate, worker,
             failed, successCount, wrote, kept, others>>
allVars == <<stage, vars, cloning>>

SettingUp(A) == stage = "setup" /\ A /\ UNCHANGED <<stage, cloning>>

\* The clone tells `gh label clone` its repository; how it was made does not matter any more.
Cloning == stage = "setup" /\ res = "ok" /\ op.name \in {"scratch", "template", "local"} /\ (op.name = "local" \/ op.flag)
Forget ==
    /\ server' = {"new"} /\ ready' = {"new"} /\ dir' = "clone" /\ tries' = 0
    /\ remotes' = [origin |-> "new", upstream |-> "none"] /\ resolution' = "none"
    /\ pushed' = FALSE /\ before' = {} /\ clean' = TRUE /\ runs' = 1 /\ meddled' = FALSE
    /\ op' = [name |-> "scratch", flag |-> TRUE, commits |-> FALSE, rename |-> FALSE]
LabelsNext ==
    /\ Cloning /\ stage' = "labels"
    /\ Forget
    /\ UNCHANGED <<pc, res, faults, cloning>>

InLabels(A) ==
    /\ stage = "labels" /\ A
    /\ UNCHANGED <<stage, server, ready, disk, pushed, op, pc, res, tries, history, clean, meddled>>

NewInit == stage = "setup" /\ Init /\ Labels!Init
NewNext == SettingUp(Next) \/ LabelsNext \/ InLabels(Labels!Next)

\* gh and git run on and requests are answered; in the pool of workers, too, where the
\* channel hands over a label when both sides are there.  Nothing has to be run again, and
\* neither the service nor anybody else has to do anything.
NewFairness ==
    /\ WF_allVars(SettingUp(Setup)) /\ WF_allVars(LabelsNext)
    /\ WF_allVars(InLabels(Labels!ListPage))
    /\ WF_allVars(InLabels(Labels!CloseChannel \/ Labels!Return))
    /\ \A w \in Workers : WF_allVars(InLabels(Labels!Worker(w)))
    /\ WF_allVars(InLabels(\E w \in Workers : Labels!Send(w)))
NewSpec == NewInit /\ [][NewNext]_allVars /\ NewFairness

-----------------------------------------------------------------------------
\* Properties, with SetUpRight of RepoSetup.

\* That of LabelClone: success of `gh label clone` means what it says.
SuccessHonest == Labels!SuccessHonest

\* create, fork and clone return although the fork or the copy of the template is
\* never ready; and so does the label command that follows, unless a request of
\* it has failed (LabelClone says why).
CommandsReturn ==
    /\ stage = "setup" ~> pc = "done"
    /\ Cloning ~> lpc = "done" \/ failed
=============================================================================
