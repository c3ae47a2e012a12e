--------------------------- MODULE GitRepository ---------------------------
(***************************************************************************)
(* A local clone, the repository it was cloned from and a fork of it, and  *)
(* what others do to them while a gh command runs git and sends requests:  *)
(* git commands as git/client.go and the commands call them, the user's    *)
(* editor and other shell, and people who push.  RepoSync, PrCheckout,     *)
(* PrMerge and PrCreate are the commands, GitCommands composes them.       *)
(*                                                                         *)
(* A commit is a number, and a branch the set of the commits on it, so     *)
(* that "is an ancestor" is set inclusion; {} is a branch that does not    *)
(* exist.  At most one pull request wants to merge `feat`, of the          *)
(* repository itself or of the fork, into `main`.                          *)
(***************************************************************************)
EXTENDS Naturals, Sequences

CONSTANTS MaxCommits, \* bound on the number of commits
          MaxMoves,   \* bound on what the user and others do besides
          MaxFaults,  \* bound on failing git commands and requests
          MaxRuns,    \* bound on the gh commands
          MaxTries    \* attempts to push to a new fork (4 in pr/create/create.go)

ASSUME GitAssumption ==
    MaxCommits \in Nat \ {0, 1, 2} /\ MaxMoves \in Nat /\ MaxFaults \in Nat /\ MaxRuns \in Nat
    /\ MaxTries \in Nat \ {0}

VARIABLES
    remote, pr,     \* the branches of both repositories; the pull request
    branch,         \* the local branches
    head, detached, \* the branch that is checked out, or "detached" and the commits
    tracking,       \* refs/remotes, by repository
    fetchHead,      \* FETCH_HEAD
    dirty,          \* there are uncommitted changes
    remotes, marked,\* the git remotes; `upstream` is marked as the one gh resolves to
    made, own,      \* history: the number of commits so far; those of this user
    pc, res, op,    \* the gh command, how it ended, and its name and flags
    has, useForce,  \* what it has found out: the branch exists; sync's useForce
    wanted,         \* the commits that it is to bring: what was fetched, or asked for
    cmds,           \* pr checkout: the git commands yet to run
    seen,           \* pr merge: the pull request as it was found
    deleteBranch,   \* pr merge: whether to delete the branch
    dest, push, tries, \* pr create: the repository of the head; whether to push or fork; attempts left
    meddled,        \* history: the user has run git during this command
    edited,         \* history: the user has edited files during this command
    moves, faults, runs

server  == <<remote, pr>>
refs    == <<branch, head, detached>>
tree    == <<refs, tracking, fetchHead, dirty>>
config  == <<remotes, marked>>
found   == <<has, useForce, wanted, cmds, seen, deleteBranch, dest, push, tries>>
history == <<made, own, meddled, edited>>
bounds  == <<moves, faults, runs>>
vars == <<server, tree, config, pc, res, op, found, history, bounds>>

Repos == {"base", "fork"}
Branches == {"main", "feat"}
Names == {"origin", "upstream", "fork"}
Tips == SUBSET (0..MaxCommits)
Status == {"clean", "blocked", "conflict"}
PR == [state: {"none", "open", "merged"}, repo: Repos, head: Tips, status: Status,
       queue: BOOLEAN, queued: BOOLEAN, auto: BOOLEAN]
Ops == [name: {"none", "sync", "sync_fork", "checkout", "merge", "create"}, branch: Branches,
        force: BOOLEAN, detach: BOOLEAN, delete: {"no", "flag", "prompt"},
        auto: {"no", "enable", "disable"}, admin: BOOLEAN]
NoOp == [name |-> "none", branch |-> "main", force |-> FALSE, detach |-> FALSE,
         delete |-> "no", auto |-> "no", admin |-> FALSE]

ServerTyped == remote \in [Repos -> [Branches -> Tips]] /\ pr \in PR
TreeTyped ==
    /\ branch \in [Branches -> Tips] /\ head \in Branches \cup {"detached"} /\ detached \in Tips
    /\ tracking \in [Repos -> [Branches -> Tips]] /\ fetchHead \in Tips /\ dirty \in BOOLEAN
ConfigTyped == remotes \in [Names -> Repos \cup {"none"}] /\ marked \in BOOLEAN
FoundTyped ==
    /\ has \in BOOLEAN /\ useForce \in BOOLEAN /\ wanted \in Tips /\ seen \in PR
    /\ deleteBranch \in BOOLEAN
    /\ dest \in Repos /\ push \in {"skip", "asked_to_skip", "push", "fork"} /\ tries \in 0..MaxTries
RestTyped ==
    /\ made \in 0..MaxCommits /\ own \subseteq 1..MaxCommits
    /\ res \in {"none", "ok", "error"} /\ op \in Ops
    /\ meddled \in BOOLEAN /\ edited \in BOOLEAN
    /\ moves \in 0..MaxMoves /\ faults \in 0..MaxFaults /\ runs \in 0..MaxRuns
TypeOK == ServerTyped /\ TreeTyped /\ ConfigTyped /\ FoundTyped /\ RestTyped

HasRemote(r) == \E n \in Names : remotes[n] = r

\* Commit 1 is on `feat` at the server, 2 is the user's, and 3 has been pushed to
\* `main` since the user fetched.  The clone is of the repository or of a fork.
NoPR == [state |-> "none", repo |-> "base", head |-> {}, status |-> "clean",
         queue |-> FALSE, queued |-> FALSE, auto |-> FALSE]
Absent == [b \in Branches |-> {}]
InitServer ==
    /\ \E m \in {{0}, {0, 3}}, f \in {{}, {0, 1}}, g \in {Absent, [main |-> {0}, feat |-> {0, 1}]} :
         remote = [base |-> [main |-> m, feat |-> f], fork |-> g]
    /\ \/ pr = NoPR
       \/ \E r \in Repos, s \in {"clean", "blocked"}, q \in BOOLEAN :
            /\ remote[r]["feat"] # {} /\ q => s = "blocked"
            /\ pr = [NoPR EXCEPT !.state = "open", !.repo = r, !.head = {0, 1}, !.status = s, !.queue = q]
       \/ \E r \in Repos : pr = [NoPR EXCEPT !.state = "merged", !.repo = r, !.head = {0, 1}]
InitClone ==
    /\ remotes \in {[origin |-> "base", upstream |-> "none", fork |-> "none"],
                    [origin |-> "fork", upstream |-> "base", fork |-> "none"],
                    [origin |-> "none", upstream |-> "base", fork |-> "none"]}
    /\ remotes["origin"] = "none" => pr = NoPR
    /\ HasRemote("fork") => remote["fork"] # Absent
    /\ dirty \in BOOLEAN /\ branch \in [main : {{}, {0}, {0, 2}}, feat : {{}, {0, 1}, {0, 1, 2}}]
    /\ head \in {b \in Branches : branch[b] # {}} /\ detached = {} /\ fetchHead = {}
    /\ branch["main"] = {0, 2} => branch["feat"] = {} /\ ~dirty
    /\ tracking = [r \in Repos |-> IF ~HasRemote(r) THEN Absent
                                   ELSE [b \in Branches |-> remote[r][b] \ {3}]]
    /\ marked = FALSE
    /\ made = 3 /\ own = (UNION {branch[b] : b \in Branches}) \cap {2}
Init ==
    /\ InitServer /\ InitClone
    /\ pc = "idle" /\ res = "none" /\ op = NoOp
    /\ has = FALSE /\ useForce = FALSE /\ wanted = {} /\ cmds = <<>> /\ seen = NoPR
    /\ deleteBranch = FALSE /\ dest = "base" /\ push = "skip" /\ tries = 0
    /\ meddled = FALSE /\ edited = FALSE /\ moves = 0 /\ faults = 0 /\ runs = 0

-----------------------------------------------------------------------------
\* The gh command.
Fault == faults < MaxFaults /\ faults' = faults + 1
NoFault == UNCHANGED faults
Goto(l) == pc' = l /\ UNCHANGED res
Return(r) == pc' = "idle" /\ res' = r
Failed == Fault /\ Return("error")
\* What the last request did is reported, or its answer gets lost.
Answered == (Return("ok") /\ NoFault) \/ Failed

Begin(o, l) ==
    /\ pc = "idle" /\ runs < MaxRuns /\ runs' = runs + 1
    /\ op' = o /\ pc' = l /\ res' = "none"
    /\ has' = FALSE /\ useForce' = o.force /\ wanted' = {} /\ cmds' = <<>> /\ seen' = NoPR
    /\ deleteBranch' = (o.delete = "flag") /\ dest' = "base" /\ push' = "skip" /\ tries' = 0
    /\ meddled' = FALSE /\ edited' = FALSE
    /\ UNCHANGED <<server, tree, config, made, own, moves, faults>>

\* What a step leaves alone: everything but what the command has found out; but
\* the clone; but the server.
Frame == UNCHANGED <<op, made, own, meddled, edited, moves, runs>>
OnlyFound == UNCHANGED <<server, tree, config>> /\ Frame
OnlyTree == UNCHANGED <<server, config, found>> /\ Frame
OnlyServer == UNCHANGED <<tree, config, found>> /\ Frame

\* git commands.  One that changes files may refuse when there are uncommitted
\* changes, and keeps them otherwise.
Tip == IF head = "detached" THEN detached ELSE branch[head]
SetTip(c) ==
    IF head = "detached" THEN detached' = c /\ UNCHANGED <<branch, head>>
    ELSE branch' = [branch EXCEPT ![head] = c] /\ UNCHANGED <<head, detached>>

MergeFastForward(c) ==
    /\ c # {} /\ (Tip \subseteq c \/ c \subseteq Tip)
    /\ SetTip(Tip \cup c)
    /\ UNCHANGED <<tracking, fetchHead, dirty>>
CannotFastForward(c) == c = {} \/ ~(Tip \subseteq c \/ c \subseteq Tip) \/ dirty

ResetHard(c) == c # {} /\ SetTip(c) /\ dirty' = FALSE /\ UNCHANGED <<tracking, fetchHead>>

CheckoutBranch(b) ==
    /\ branch[b] # {} /\ head' = b
    /\ UNCHANGED <<branch, detached, tracking, fetchHead, dirty>>
CheckoutDetached(c) ==
    /\ head' = "detached" /\ detached' = c
    /\ UNCHANGED <<branch, tracking, fetchHead, dirty>>
CheckoutNewBranch(r, b) ==
    /\ branch[b] = {} /\ tracking[r][b] # {}
    /\ branch' = [branch EXCEPT ![b] = tracking[r][b]] /\ head' = b
    /\ UNCHANGED <<detached, tracking, fetchHead, dirty>>

\* `git fetch <remote> <branch>` also updates what tracks the branch.
Fetch(r, b) ==
    /\ remote[r][b] # {} /\ fetchHead' = remote[r][b]
    /\ tracking' = [tracking EXCEPT ![r][b] = remote[r][b]]
    /\ UNCHANGED <<refs, dirty>>

DeleteLocalBranch(b) ==
    /\ head # b /\ branch[b] # {} /\ branch' = [branch EXCEPT ![b] = {}]
    /\ UNCHANGED <<head, detached, tracking, fetchHead, dirty>>

-----------------------------------------------------------------------------
\* Everyone else, while a command is under way; what they did before is in Init.
Move == moves < MaxMoves /\ moves' = moves + 1 /\ pc # "idle"
NewCommit == made < MaxCommits /\ made' = made + 1
Others == UNCHANGED <<config, pc, res, op, found, faults, runs>>

\* The user, in an editor and in another shell.
Edit ==
    /\ Move /\ ~dirty /\ dirty' = TRUE /\ edited' = TRUE
    /\ UNCHANGED <<server, refs, tracking, fetchHead, made, own, meddled>> /\ Others
RunsGit == Move /\ meddled' = TRUE /\ UNCHANGED <<server, edited>> /\ Others
Commit ==
    /\ RunsGit /\ NewCommit /\ head # "detached"
    /\ branch' = [branch EXCEPT ![head] = @ \cup {made'}] /\ own' = own \cup {made'}
    /\ dirty' = FALSE
    /\ UNCHANGED <<head, detached, tracking, fetchHead>>
Switch ==
    /\ RunsGit /\ \E b \in Branches \ {head} : CheckoutBranch(b)
    /\ UNCHANGED <<made, own>>
FetchElsewhere ==
    /\ RunsGit /\ \E r \in Repos, b \in Branches : HasRemote(r) /\ Fetch(r, b)
    /\ UNCHANGED <<made, own>>

\* People who push to a branch or rewrite `feat`, and who delete it after the
\* merge; the checks; the server, which merges by itself what it was told to.
Elsewhere == Move /\ UNCHANGED <<tree, own, meddled, edited>> /\ Others
Update(r, b, c) ==
    /\ remote' = [remote EXCEPT ![r][b] = c]
    /\ pr' = IF b = "feat" /\ pr.state = "open" /\ pr.repo = r /\ c # {}
             THEN [pr EXCEPT !.head = c] ELSE pr
Push ==
    /\ Elsewhere /\ NewCommit
    /\ \E r \in Repos, b \in Branches :
         /\ remote[r][b] # {}
         /\ \/ Update(r, b, remote[r][b] \cup {made'})
            \/ b = "feat" /\ Update(r, b, {0, made'})
RemoveHead ==
    /\ Elsewhere /\ pr.state = "merged" /\ remote[pr.repo]["feat"] # {}
    /\ Update(pr.repo, "feat", {}) /\ UNCHANGED made
StatusChanges ==
    /\ Elsewhere /\ pr.state = "open" /\ \E s \in Status \ {pr.status} : pr' = [pr EXCEPT !.status = s]
    /\ UNCHANGED <<remote, made>>
Merge ==
    /\ pr' = [pr EXCEPT !.state = "merged", !.auto = FALSE, !.queued = FALSE]
    /\ remote' = [remote EXCEPT !["base"]["main"] = @ \cup pr.head]
ServerMerges ==
    /\ Elsewhere /\ pr.state = "open" /\ pr.status = "clean" /\ (pr.auto \/ pr.queued)
    /\ Merge /\ UNCHANGED made

Everyone ==
    Edit \/ Commit \/ Switch \/ FetchElsewhere \/ Push \/ RemoveHead \/ StatusChanges \/ ServerMerges
=============================================================================
