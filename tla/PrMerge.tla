------------------------------ MODULE PrMerge ------------------------------
(***************************************************************************)
(* `gh pr merge`: merge, queue or arm a pull request as it was found, then *)
(* delete its branch here, leaving it first if it is checked out, and on   *)
(* the server.                                                             *)
(***************************************************************************)
EXTENDS GitRepository

PrMerge == \E d \in {"no", "flag", "prompt"}, a \in {"no", "enable", "disable"}, m \in BOOLEAN :
    /\ m => a = "no"
    /\ Begin([NoOp EXCEPT !.name = "merge", !.delete = d, !.auto = a, !.admin = m], "find")

\* NewMergeContext: the pull request and whether its branch exists here.
NewMergeContext ==
    /\ pc = "find" /\ OnlyFound /\ UNCHANGED <<useForce, wanted, cmds, deleteBranch, dest, push, tries>>
    /\ \/ /\ pr.state # "none" /\ seen' = pr /\ has' = (branch["feat"] # {})
          /\ Goto("can_merge") /\ NoFault
       \/ pr.state = "none" /\ Return("error") /\ NoFault /\ UNCHANGED <<seen, has>>
       \/ Failed /\ UNCHANGED <<seen, has>>

Merged == seen.state = "merged"
AutoMerge == op.auto = "enable" /\ seen.status # "clean"
CrossRepo == seen.repo = "fork"
ShouldAddToMergeQueue == seen.queue /\ ~op.admin
Blocked == seen.status = "conflict" \/ (seen.status = "blocked" /\ ~op.admin)
CanMerge == IF seen.queue THEN op.delete # "flag" ELSE ~Blocked \/ AutoMerge \/ Merged

\* inMergeQueue, --disable-auto and canMerge
CheckMerge ==
    /\ pc = "can_merge" /\ OnlyServer /\ UNCHANGED server /\ NoFault
    /\ IF seen.queued THEN Return("ok")
       ELSE IF op.auto = "disable" THEN Goto("disable")
       ELSE IF ~CanMerge THEN Return("error")
       ELSE IF Merged /\ AutoMerge THEN Return("ok")
       ELSE Goto(IF Merged THEN "ask" ELSE IF ShouldAddToMergeQueue THEN "merge" ELSE "survey")

DisableAutoMerge ==
    /\ pc = "disable" /\ OnlyServer /\ UNCHANGED remote
    /\ \/ pr' = [pr EXCEPT !.auto = FALSE] /\ Answered
       \/ Failed /\ UNCHANGED pr

\* deleteBranchSurvey, before the merge; Confirm, when it was merged already.
\* Without a flag or a prompt nothing is deleted.
Ask(l, next) ==
    /\ pc = l /\ OnlyFound /\ UNCHANGED <<has, useForce, wanted, cmds, seen, dest, push, tries>>
    /\ IF op.delete = "prompt" THEN deleteBranch' \in BOOLEAN ELSE UNCHANGED deleteBranch
    /\ Goto(next) /\ NoFault
Survey == Ask("survey", "merge")
AskAgain == Ask("ask", "local")

\* mergePullRequest (NextAfterAnyMerge is a mutant).  The server arms or queues what it cannot merge yet, and
\* merges what it can, past its rules for an administrator.
Arms == ShouldAddToMergeQueue \/ AutoMerge
Mergeable == pr.status = "clean" \/ (op.admin /\ pr.status = "blocked")
ServerAccepts == pr.state = "open" /\ (Arms \/ Mergeable)
ServerDoes ==
    \/ Arms /\ pr' = [pr EXCEPT !.auto = ~pr.queue, !.queued = pr.queue] /\ UNCHANGED remote
    \/ ~Arms /\ Merge
NextAfterAnyMerge == Goto("local")
NextAfterMerge == IF AutoMerge THEN Return("ok") ELSE Goto("local")
MergePullRequest ==
    /\ pc = "merge" /\ OnlyServer
    /\ \/ ServerAccepts /\ ServerDoes /\ ((NextAfterMerge /\ NoFault) \/ Failed)
       \/ ~ServerAccepts /\ Return("error") /\ NoFault /\ UNCHANGED server
       \/ Failed /\ UNCHANGED server

\* deleteLocalBranch: look where we are, leave the branch, catch up, delete.
WantsLocalDeleted == deleteBranch /\ has
LookWhere ==
    /\ pc = "local" /\ OnlyTree /\ UNCHANGED tree
    /\ \/ /\ NoFault
          /\ IF ~WantsLocalDeleted THEN Goto("remote")
             ELSE IF head = "detached" THEN Return("error")
             ELSE Goto(IF head = "feat" THEN "leave" ELSE "delete")
       \/ Failed
Leave ==
    /\ pc = "leave" /\ OnlyTree
    /\ \/ (CheckoutBranch("main") \/ CheckoutNewBranch("base", "main")) /\ Goto("pull") /\ NoFault
       \/ dirty /\ Return("error") /\ NoFault /\ UNCHANGED tree
       \/ Failed /\ UNCHANGED tree
\* A pull that fails, before or after its fetch, is only warned of.
Pull ==
    /\ pc = "pull" /\ OnlyTree /\ Goto("delete")
    /\ LET c == remote["base"]["main"] IN
       \/ /\ tracking' = [tracking EXCEPT !["base"]["main"] = c] /\ fetchHead' = c
          /\ IF Tip \subseteq c THEN SetTip(c) \/ UNCHANGED refs ELSE UNCHANGED refs
          /\ UNCHANGED dirty /\ NoFault
       \/ Fault /\ UNCHANGED tree
DeleteLocal ==
    /\ pc = "delete" /\ OnlyTree
    /\ \/ DeleteLocalBranch("feat") /\ Goto("remote") /\ NoFault
       \/ (head = "feat" \/ branch["feat"] = {}) /\ Return("error") /\ NoFault /\ UNCHANGED tree
       \/ Failed /\ UNCHANGED tree

\* deleteRemoteBranch: not of a pull request that was found merged.  A branch that is gone
\* is no error, and neither is a refusal that comes with the same status, 422 or 404.
WantsRemoteDeleted == deleteBranch /\ ~CrossRepo
DeleteRemote ==
    /\ pc = "remote" /\ OnlyServer
    /\ \/ WantsRemoteDeleted /\ ~Merged /\ Update("base", "feat", {}) /\ Answered
       \/ WantsRemoteDeleted /\ ~Merged /\ Fault /\ Return("ok") /\ UNCHANGED server
       \/ WantsRemoteDeleted /\ ~Merged /\ Failed /\ UNCHANGED server
       \/ (Merged \/ ~WantsRemoteDeleted) /\ Return("ok") /\ NoFault /\ UNCHANGED server

PrMergeNext ==
    \/ PrMerge \/ NewMergeContext \/ CheckMerge \/ DisableAutoMerge \/ Survey \/ AskAgain
    \/ MergePullRequest \/ LookWhere \/ Leave \/ Pull \/ DeleteLocal \/ DeleteRemote
=============================================================================
