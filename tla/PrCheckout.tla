----------------------------- MODULE PrCheckout -----------------------------
(***************************************************************************)
(* `gh pr checkout`: the git commands to run are drawn up first, from what *)
(* the clone looks like at that moment, and then run one after the other   *)
(* until one of them fails.  The local branch is called `feat`, as the     *)
(* head branch.                                                            *)
(***************************************************************************)
EXTENDS GitRepository

Checkout == \E f, d \in BOOLEAN :
    Begin([NoOp EXCEPT !.name = "checkout", !.branch = "feat", !.force = f, !.detach = d], "resolve")

\* With a git remote for the repository of the head.  (StrictNever is a mutant.)
StrictNever(verb) == verb
Strict(verb) == IF op.force THEN "reset" ELSE verb
CmdsForExistingRemote ==
    CASE op.detach -> <<"fetch", "detach">>
      [] ~op.detach /\ branch["feat"] # {} -> <<"fetch", "checkout", Strict("ff")>>
      [] OTHER -> <<"fetch", "checkout_new">>

\* Without one the pull request's own ref is fetched, into the branch unless it
\* is the current one.
CmdsForMissingRemote ==
    CASE op.detach -> <<"fetch_pull", "detach">>
      [] ~op.detach /\ head = "feat" -> <<"fetch_pull", Strict("ff")>>
      [] OTHER -> <<"fetch_into", "checkout">>

\* The pull request is looked up and the list made; the settings of the branch
\* that some lists end with matter only to later pulls and pushes.
Resolve ==
    /\ pc = "resolve" /\ OnlyFound /\ UNCHANGED <<has, useForce, wanted, deleteBranch, dest, push, tries>>
    /\ \/ /\ pr.state # "none" /\ seen' = pr /\ Goto("run") /\ NoFault
          /\ cmds' = IF HasRemote(pr.repo) THEN CmdsForExistingRemote ELSE CmdsForMissingRemote
       \/ pr.state = "none" /\ Return("error") /\ NoFault /\ UNCHANGED <<cmds, seen>>
       \/ Failed /\ UNCHANGED <<cmds, seen>>

\* What each command does when it succeeds, and when it must refuse.  `reset` and
\* `ff` take the tracking branch if there is one, FETCH_HEAD otherwise; `fetch`
\* into a branch refuses the one that is checked out.
Source == IF HasRemote(seen.repo) THEN tracking[seen.repo]["feat"] ELSE fetchHead
FetchTo(c) == fetchHead' = c /\ wanted' = c /\ UNCHANGED <<refs, tracking, dirty>>
MayFetchInto(c) == head # "feat" /\ (op.force \/ branch["feat"] \subseteq c)
Effect(cmd) ==
    \/ cmd = "fetch" /\ Fetch(seen.repo, "feat") /\ wanted' = fetchHead'
    \/ cmd = "fetch_pull" /\ FetchTo(pr.head)
    \/ /\ cmd = "fetch_into" /\ MayFetchInto(pr.head) /\ wanted' = pr.head /\ fetchHead' = pr.head
       /\ branch' = [branch EXCEPT !["feat"] = pr.head]
       /\ UNCHANGED <<head, detached, tracking, dirty>>
    \/ cmd = "detach" /\ CheckoutDetached(fetchHead) /\ UNCHANGED wanted
    \/ cmd = "checkout" /\ CheckoutBranch("feat") /\ UNCHANGED wanted
    \/ cmd = "checkout_new" /\ CheckoutNewBranch(seen.repo, "feat") /\ UNCHANGED wanted
    \/ cmd = "reset" /\ ResetHard(Source) /\ UNCHANGED wanted
    \/ cmd = "ff" /\ MergeFastForward(Source) /\ UNCHANGED wanted
Refuses(cmd) ==
    \/ cmd = "fetch" /\ remote[seen.repo]["feat"] = {}
    \/ cmd = "fetch_into" /\ ~MayFetchInto(pr.head)
    \/ cmd \in {"detach", "checkout", "checkout_new"} /\ dirty
    \/ cmd = "checkout" /\ branch["feat"] = {}
    \/ cmd = "checkout_new" /\ (branch["feat"] # {} \/ tracking[seen.repo]["feat"] = {})
    \/ cmd = "ff" /\ CannotFastForward(Source)

\* executeCmds
ExecuteCmd ==
    /\ pc = "run" /\ UNCHANGED <<server, config, has, useForce, seen, deleteBranch, dest, push, tries>> /\ Frame
    /\ \/ /\ Effect(Head(cmds)) /\ cmds' = Tail(cmds) /\ NoFault
          /\ IF cmds' = <<>> THEN Return("ok") ELSE Goto("run")
       \/ Refuses(Head(cmds)) /\ Return("error") /\ NoFault /\ UNCHANGED <<tree, cmds, wanted>>
       \/ Failed /\ UNCHANGED <<tree, cmds, wanted>>

PrCheckoutNext == Checkout \/ Resolve \/ ExecuteCmd
=============================================================================
