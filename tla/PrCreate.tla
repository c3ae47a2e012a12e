------------------------------ MODULE PrCreate ------------------------------
(***************************************************************************)
(* `gh pr create` for the branch `feat`: find out whether it has been      *)
(* pushed somewhere, ask where to push it if not, fork the repository,     *)
(* rearrange the git remotes, push, and create the pull request and its    *)
(* metadata.  Every one of these outlives a command that fails later.      *)
(***************************************************************************)
EXTENDS GitRepository

Create == Begin([NoOp EXCEPT !.name = "create", !.branch = "feat"], "context")

\* NewCreateContext.  A repository counts as pushed to when what tracks the branch
\* there is where HEAD is.  Of several remotes not all are looked at (ShowRefs
\* stops at the first one without the branch), so that gh may ask all the same.
\* (MatchIfPushedOnce is a mutant.)
\* That these are several git commands matters only to a user who runs git meanwhile.
MatchIfPushedOnce(r) == tracking[r]["feat"] # {}
Match(r) == tracking[r]["feat"] = Tip
Pushed(r) == HasRemote(r) /\ Match(r)
Choose(d, p) == dest' = d /\ push' = p /\ Goto("existing") /\ NoFault
NewCreateContext ==
    /\ pc = "context" /\ OnlyFound /\ UNCHANGED <<has, useForce, wanted, cmds, seen, deleteBranch, tries>>
    /\ \/ head = "feat" /\ \E r \in Repos : Pushed(r) /\ Choose(r, "skip")
       \/ head = "feat" /\ \/ \E r \in Repos : remote[r]["main"] # {} /\ Choose(r, "push")
                           \/ ~HasRemote("fork") /\ Choose("fork", "fork")
                           \/ Choose("base", "asked_to_skip")
       \/ head # "feat" /\ Return("error") /\ NoFault /\ UNCHANGED <<dest, push>>
       \/ Failed /\ UNCHANGED <<dest, push>>

\* The open pull request for the same head, if there is one, is an error.
FindExisting ==
    /\ pc = "existing" /\ OnlyServer /\ UNCHANGED server
    /\ \/ /\ NoFault
          /\ IF pr.state = "open" /\ pr.repo = dest THEN Return("error")
             ELSE Goto(CASE push = "fork" -> "fork" [] push = "push" -> "add_remote" [] OTHER -> "submit")
       \/ Failed

\* ForkRepo: an existing fork is returned as it is.  The answer may get lost.
ForkRepo ==
    /\ pc = "fork" /\ OnlyServer /\ UNCHANGED pr
    /\ \/ /\ remote' = IF remote["fork"]["main"] # {} THEN remote
                       ELSE [remote EXCEPT !["fork"] = remote["base"]]
          /\ (Goto("add_remote") /\ NoFault) \/ Failed
       \/ Failed /\ UNCHANGED remote

\* handlePush gives the head repository a remote: `origin` or, if that is taken,
\* `fork`; an `origin` of the base repository is renamed first.
Renames == remotes["origin"] = "base" /\ remotes["upstream"] = "none"
RemoteName == IF remotes["origin"] = "none" \/ Renames THEN "origin" ELSE "fork"
OnlyConfig == UNCHANGED <<server, refs, fetchHead, dirty, has, useForce, wanted, cmds, seen, deleteBranch, dest, push>> /\ Frame
AddRemote ==
    /\ pc = "add_remote" /\ OnlyConfig /\ UNCHANGED <<tracking, tries, marked>>
    /\ \/ HasRemote(dest) /\ Goto("push") /\ NoFault /\ UNCHANGED remotes
       \/ /\ ~HasRemote(dest) /\ Renames /\ Goto("add_renamed") /\ NoFault
          /\ remotes' = [remotes EXCEPT !["upstream"] = "base", !["origin"] = "none"]
       \/ /\ ~HasRemote(dest) /\ ~Renames /\ remotes[RemoteName] = "none"
          /\ remotes' = [remotes EXCEPT ![RemoteName] = dest]
          /\ Goto(IF push = "fork" THEN "mark" ELSE "push") /\ NoFault
       \/ ~HasRemote(dest) /\ Failed /\ UNCHANGED remotes
AddRenamed ==
    /\ pc = "add_renamed" /\ OnlyConfig /\ UNCHANGED <<tracking, tries, marked>>
    /\ \/ /\ remotes' = [remotes EXCEPT !["origin"] = dest] /\ NoFault
          /\ Goto(IF push = "fork" THEN "mark" ELSE "push")
       \/ Failed /\ UNCHANGED remotes
SetRemoteResolution ==
    /\ pc = "mark" /\ OnlyConfig /\ UNCHANGED <<tracking, tries, remotes>>
    /\ \/ marked' = TRUE /\ Goto("push") /\ NoFault
       \/ Failed /\ UNCHANGED marked

\* pushBranch: HEAD, whatever that is by now.  A push to a new fork is tried again,
\* for the fork may not be ready yet.
Retry ==
    IF push = "fork" /\ tries + 1 < MaxTries THEN tries' = tries + 1 /\ pc' = pc /\ UNCHANGED res
    ELSE Return("error") /\ UNCHANGED tries
PushBranch ==
    /\ pc = "push" /\ Frame
    /\ UNCHANGED <<refs, fetchHead, dirty, config, has, useForce, wanted, cmds, seen, deleteBranch, dest, push>>
    /\ \/ /\ remote[dest]["feat"] \subseteq Tip /\ Update(dest, "feat", Tip)
          /\ tracking' = [tracking EXCEPT ![dest]["feat"] = Tip]
          /\ Goto("submit") /\ NoFault /\ UNCHANGED tries
       \/ ~(remote[dest]["feat"] \subseteq Tip) /\ Retry /\ NoFault /\ UNCHANGED <<server, tracking>>
       \/ Fault /\ Retry /\ UNCHANGED <<server, tracking>>

\* CreatePullRequest: the server refuses a second one, or one without commits; the
\* metadata follow in requests of their own, which may fail when it is there.
Creatable == pr.state # "open" /\ ~(remote[dest]["feat"] \subseteq remote["base"]["main"])
CreatePullRequest ==
    /\ pc = "submit" /\ OnlyServer /\ UNCHANGED remote
    /\ \/ /\ Creatable /\ Answered
          /\ pr' = [NoPR EXCEPT !.state = "open", !.repo = dest, !.head = remote[dest]["feat"]]
       \/ ~Creatable /\ Return("error") /\ NoFault /\ UNCHANGED pr
       \/ Failed /\ UNCHANGED pr

PrCreateNext ==
    \/ Create \/ NewCreateContext \/ FindExisting \/ ForkRepo \/ AddRemote \/ AddRenamed
    \/ SetRemoteResolution \/ PushBranch \/ CreatePullRequest
=============================================================================
