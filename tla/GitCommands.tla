---------------------------- MODULE GitCommands ----------------------------
(***************************************************************************)
(* gh commands on one clone, one after the other, with the user and others *)
(* at work on the same branches meanwhile.                                 *)
(***************************************************************************)
EXTENDS RepoSync, PrCheckout, PrMerge, PrCreate

Next == RepoSyncNext \/ PrCheckoutNext \/ PrMergeNext \/ PrCreateNext \/ Everyone
Spec == Init /\ [][Next]_vars

-----------------------------------------------------------------------------
\* Steps of the command, as opposed to those of everyone else.
GhSteps == moves' = moves
Succeeds(name) == op.name = name /\ pc # "idle" /\ res' = "ok"

\* No commit of the user goes away: no gh command moves a branch off a commit that
\* the user made on it (sync, checkout, merge, the pull after it), but with --force,
\* and then only the branch it names, or when merge deletes the branch of a pull request
\* that is merged.  A sync during which the user runs git in the same clone is
\* excepted: update-ref and reset believe in what was looked up before.  Nor
\* does a fork lose a commit without --force.
KeepsCommits ==
    GhSteps /\ (meddled => op.name # "sync" /\ ~op.force) =>
      /\ \A b \in Branches :
           \/ own \cap branch[b] \subseteq branch'[b]
           \/ op.force /\ b = op.branch
           \/ op.name = "merge" /\ b = "feat" /\ pr.state = "merged"
      /\ op.force \/ remote["fork"]["main"] \subseteq remote'["fork"]["main"]
CommitsKept == [][KeepsCommits]_vars

\* No uncommitted change goes away: gh discards changes only in a forced checkout,
\* which says so, and in a forced sync when they were made after its look at
\* the working tree (executeLocalRepoSync).
KeepsEdits ==
    GhSteps /\ dirty /\ ~dirty' => op.force /\ (op.name = "checkout" \/ edited)
EditsKept == [][KeepsEdits]_vars

\* A sync or checkout that succeeds has brought what it fetched: the branch, or HEAD,
\* contains it, and is equal to it after a sync that has seen the branch and after
\* a forced checkout; unless the user ran git in the clone meanwhile.
Brings ==
    ~meddled =>
      /\ Succeeds("sync") =>
           /\ wanted \subseteq branch'[op.branch] /\ head' = head
           /\ has => branch'[op.branch] = wanted
      /\ Succeeds("checkout") =>
           /\ head' = IF op.detach THEN "detached" ELSE "feat"
           /\ IF op.force \/ op.detach THEN Tip' = wanted' ELSE wanted' \subseteq Tip'
Brought == [][Brings]_vars

\* gh deletes the branch of a pull request, here or on the server, only when the
\* pull request has been merged, not when it was armed or queued (PrMerge).
DeletesMerged ==
    GhSteps =>
      \/ pr.state = "merged"
      \/ /\ branch["feat"] # {} => branch'["feat"] # {}
         /\ \A r \in Repos : remote[r]["feat"] # {} => remote'[r]["feat"] # {}
DeletedOnlyWhenMerged == [][DeletesMerged]_vars

\* A pull request that create reports has the commits of the branch, and
\* no others, when what tracks its head is up to date: gh does not skip a push
\* that is needed, and pushes what it has looked at (unless it was told to skip
\* the push, or the user ran git meanwhile).
Shows ==
    Succeeds("create") /\ ~meddled /\ push # "asked_to_skip"
      /\ tracking[dest]["feat"] = remote[dest]["feat"]
    => pr'.head = branch["feat"]
ShowsTheBranch == [][Shows]_vars

\* gh pr merge says "Deleted remote branch" when it has come to the end with a branch
\* to delete.  Then the branch is gone.
SaysDeleted == op.name = "merge" /\ pc = "remote" /\ WantsRemoteDeleted /\ res' = "ok"
DeletedAsSaid == [][ SaysDeleted => remote'["base"]["feat"] = {} ]_vars
=============================================================================
