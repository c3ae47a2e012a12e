------------------------- MODULE GitCommandsProofs -------------------------
(***************************************************************************)
(* For any number of commits, of gh commands, of failing steps and of      *)
(* moves of the user and of others: gh loses no commit and no edit, brings *)
(* what it says, and deletes branches only of what is merged.              *)
(*                                                                         *)
(* The invariant says of each command what it knows at each of its steps,  *)
(* and which of that the user can spoil by running git meanwhile: nothing  *)
(* that the safety of edits and the deletion of branches rests on.         *)
(***************************************************************************)
EXTENDS GitCommands, TLAPS

SyncSteps == {"sync_fetch", "sync_has", "sync_compare", "sync_current", "sync_dirty", "sync_tree", "sync_ref"}
ForkSteps == {"merge_upstream", "latest", "sync_fork"}
CheckoutSteps == {"resolve", "run"}
MergeSteps == {"find", "can_merge", "disable", "survey", "ask", "merge", "local", "leave", "pull", "delete", "remote"}
CreateSteps == {"context", "existing", "fork", "add_remote", "add_renamed", "mark", "push", "submit"}
Steps == {"idle"} \cup SyncSteps \cup ForkSteps \cup CheckoutSteps \cup MergeSteps \cup CreateSteps

PcInv == pc \in Steps /\ (pc # "idle" => res = "none")

\* No branch that a command reads is missing: the default branches are there,
\* and a pull request has commits.
ServerInv ==
    /\ remote["base"]["main"] # {}
    /\ remote["fork"]["main"] = {} => remote["fork"]["feat"] = {}
    /\ pr.state # "none" => pr.head # {}

\* sync: what the look at the clone has shown.
Decided == {"sync_current", "sync_dirty", "sync_tree", "sync_ref"}
SyncInv ==
    /\ pc \in SyncSteps => op.name = "sync" /\ (useForce => op.force)
    /\ pc \in SyncSteps \ {"sync_fetch"} => fetchHead # {} /\ (~meddled => fetchHead = wanted)
    /\ pc \in Decided /\ ~meddled /\ has /\ ~useForce => branch[op.branch] \subseteq fetchHead
    /\ pc \in {"sync_dirty", "sync_tree"} /\ ~meddled => head = op.branch
    /\ pc = "sync_tree" /\ dirty => edited
ForkInv ==
    /\ pc \in ForkSteps => op.name = "sync_fork"
    /\ pc = "sync_fork" => wanted # {}

\* checkout: what remains of the list, and what has come of it so far.
List == <<"fetch", "checkout", Strict("ff")>>
Rest(n) == IF n = 1 THEN <<"checkout", Strict("ff")>> ELSE <<Strict("ff")>>
RunInv ==
    \/ op.detach /\ cmds \in {<<"fetch", "detach">>, <<"fetch_pull", "detach">>}
    \/ op.detach /\ cmds = <<"detach">> /\ (~meddled => fetchHead = wanted)
    \/ ~op.detach /\ cmds = List /\ HasRemote(seen.repo)
    \/ ~op.detach /\ cmds = Rest(1) /\ (~meddled => Source = wanted)
    \/ ~op.detach /\ cmds = Rest(2) /\ (~meddled => Source = wanted /\ head = "feat")
    \/ ~op.detach /\ cmds = <<"fetch", "checkout_new">>
    \/ ~op.detach /\ cmds = <<"checkout_new">> /\ (~meddled => tracking[seen.repo]["feat"] = wanted)
    \/ ~op.detach /\ cmds = <<"fetch_pull", Strict("ff")>> /\ ~HasRemote(seen.repo) /\ (~meddled => head = "feat")
    \/ ~op.detach /\ cmds = <<"fetch_into", "checkout">>
    \/ ~op.detach /\ cmds = <<"checkout">> /\ (~meddled => branch["feat"] = wanted)
CheckoutInv ==
    /\ pc \in CheckoutSteps => op.name = "checkout" /\ op.branch = "feat"
    /\ pc = "run" => pr.state # "none" /\ RunInv

\* merge: a branch that is to be deleted is one of a merged pull request.
Deleting == {"leave", "pull", "delete"}
MergeInv ==
    /\ pc \in MergeSteps => op.name = "merge"
    /\ pc \in MergeSteps \ {"find"} => (Merged => pr.state = "merged")
    /\ pc = "ask" => pr.state = "merged"
    /\ pc \in {"find", "can_merge"} => (deleteBranch => op.delete = "flag")
    /\ pc = "survey" => ~ShouldAddToMergeQueue
    /\ pc = "merge" /\ ShouldAddToMergeQueue => ~deleteBranch
    /\ pc \in {"local", "remote"} /\ deleteBranch => pr.state = "merged"
    /\ pc \in Deleting => deleteBranch /\ pr.state = "merged"

\* create: the branch is the one that was looked at, and it has been pushed.
CreateInv ==
    /\ pc \in CreateSteps => op.name = "create"
    /\ pc \in CreateSteps \ {"context"} /\ ~meddled => head = "feat"
    /\ pc \in {"existing", "submit"} /\ ~meddled /\ push = "skip" => tracking[dest]["feat"] = branch["feat"]
    /\ pc = "submit" /\ ~meddled /\ push # "asked_to_skip" => tracking[dest]["feat"] = branch["feat"]
    /\ pc = "existing" /\ push = "push" => remote[dest]["main"] # {}
    /\ pc \in {"existing", "fork"} /\ push = "fork" => dest = "fork"
    /\ pc = "fork" => push = "fork"
    /\ pc \in {"add_remote", "add_renamed", "mark", "push"} => remote[dest]["main"] # {} /\ push \in {"push", "fork"}

IInv == TypeOK /\ PcInv /\ ServerInv /\ SyncInv /\ ForkInv /\ CheckoutInv /\ MergeInv /\ CreateInv
\* What every step of a command preserves, apart from the invariant.
FaultOrNot == NoFault \/ Fault
StepRight == KeepsCommits /\ KeepsEdits /\ Brings /\ DeletesMerged /\ Shows

-----------------------------------------------------------------------------
LEMMA Numbers ==
  /\ MaxCommits \in Nat /\ MaxCommits >= 3 /\ MaxMoves \in Nat /\ MaxFaults \in Nat /\ MaxRuns \in Nat
  /\ MaxTries \in Nat /\ MaxTries >= 1
BY GitAssumption

\* Sets of commits.
LEMMA Commits ==
  /\ {} \in Tips /\ {0} \in Tips /\ {0, 1} \in Tips /\ {0, 2} \in Tips /\ {0, 3} \in Tips /\ {0, 1, 2} \in Tips
  /\ \A a, b \in Tips : a \cup b \in Tips
  /\ \A a \in Tips, n \in 0..MaxCommits : a \cup {n} \in Tips /\ {0, n} \in Tips
  /\ \A a, b : a \in Tips /\ b \subseteq a => b \in Tips
BY Numbers DEF Tips

\* What the three kinds of steps leave alone.
LEMMA FoundFrame ==
  ASSUME OnlyFound
  PROVE  /\ UNCHANGED <<remote, pr, branch, head, detached, tracking, fetchHead, dirty, remotes, marked>>
         /\ UNCHANGED <<op, made, own, meddled, edited, moves, runs>>
BY DEF OnlyFound, Frame, server, tree, refs, config

LEMMA TreeFrame ==
  ASSUME OnlyTree
  PROVE  /\ UNCHANGED <<remote, pr, remotes, marked>>
         /\ UNCHANGED <<has, useForce, wanted, cmds, seen, deleteBranch, dest, push, tries>>
         /\ UNCHANGED <<op, made, own, meddled, edited, moves, runs>>
BY DEF OnlyTree, Frame, server, config, found

LEMMA ServerFrame ==
  ASSUME OnlyServer
  PROVE  /\ UNCHANGED <<branch, head, detached, tracking, fetchHead, dirty, remotes, marked>>
         /\ UNCHANGED <<has, useForce, wanted, cmds, seen, deleteBranch, dest, push, tries>>
         /\ UNCHANGED <<op, made, own, meddled, edited, moves, runs>>
BY DEF OnlyServer, Frame, tree, refs, config, found

\* Typing, part by part.
LEMMA ServerStays == ServerTyped /\ UNCHANGED <<remote, pr>> => ServerTyped'
BY DEF ServerTyped
LEMMA TreeStays == TreeTyped /\ UNCHANGED <<branch, head, detached, tracking, fetchHead, dirty>> => TreeTyped'
BY DEF TreeTyped
LEMMA ConfigStays == ConfigTyped /\ UNCHANGED <<remotes, marked>> => ConfigTyped'
BY DEF ConfigTyped
LEMMA FoundStays ==
  FoundTyped /\ UNCHANGED <<has, useForce, wanted, seen, deleteBranch, dest, push, tries>> => FoundTyped'
BY DEF FoundTyped
LEMMA RestStays ==
  ASSUME RestTyped, UNCHANGED <<op, made, own, meddled, edited, moves, runs>>, NoFault \/ Fault,
         res' \in {"none", "ok", "error"}
  PROVE  RestTyped'
BY Numbers DEF RestTyped, NoFault, Fault

\* A command is at its own steps only.
LEMMA AtSync == pc' \in SyncSteps \cup {"idle"} => ForkInv' /\ CheckoutInv' /\ MergeInv' /\ CreateInv'
BY DEF SyncSteps, ForkInv, ForkSteps, CheckoutInv, CheckoutSteps, MergeInv, MergeSteps, Deleting, CreateInv, CreateSteps
LEMMA AtFork == pc' \in ForkSteps \cup {"idle"} => SyncInv' /\ CheckoutInv' /\ MergeInv' /\ CreateInv'
BY DEF SyncInv, SyncSteps, Decided, ForkSteps, CheckoutInv, CheckoutSteps, MergeInv, MergeSteps, Deleting, CreateInv, CreateSteps
LEMMA AtCheckout == pc' \in CheckoutSteps \cup {"idle"} => SyncInv' /\ ForkInv' /\ MergeInv' /\ CreateInv'
BY DEF SyncInv, SyncSteps, Decided, ForkInv, ForkSteps, CheckoutSteps, MergeInv, MergeSteps, Deleting, CreateInv, CreateSteps
LEMMA AtMerge == pc' \in MergeSteps \cup {"idle"} => SyncInv' /\ ForkInv' /\ CheckoutInv' /\ CreateInv'
BY DEF SyncInv, SyncSteps, Decided, ForkInv, ForkSteps, CheckoutInv, CheckoutSteps, MergeSteps, CreateInv, CreateSteps
LEMMA AtCreate == pc' \in CreateSteps \cup {"idle"} => SyncInv' /\ ForkInv' /\ CheckoutInv' /\ MergeInv'
BY DEF SyncInv, SyncSteps, Decided, ForkInv, ForkSteps, CheckoutInv, CheckoutSteps, MergeInv, MergeSteps, Deleting, CreateSteps

LEMMA AtIdle == pc' = "idle" => PcInv' /\ SyncInv' /\ ForkInv' /\ CheckoutInv' /\ MergeInv' /\ CreateInv'
BY AtSync, AtFork DEF PcInv, Steps

LEMMA PcStays == pc' \in Steps /\ (pc' # "idle" => UNCHANGED res) /\ pc # "idle" /\ PcInv => PcInv'
BY DEF PcInv

\* A step that touches no branch and does not succeed, or not visibly.
LEMMA Quiet ==
  ASSUME UNCHANGED <<branch, remote, dirty>>,
         res' = "ok" => op.name \notin {"sync", "checkout", "create"}
  PROVE  StepRight
<1>1. KeepsCommits /\ KeepsEdits /\ DeletesMerged
  BY DEF KeepsCommits, KeepsEdits, DeletesMerged
<1>2. ~Succeeds("sync") /\ ~Succeeds("checkout") /\ ~Succeeds("create")
  BY DEF Succeeds
<1> QED BY <1>1, <1>2 DEF StepRight, Brings, Shows
-----------------------------------------------------------------------------
LEMMA InitIInv == Init => IInv
<1> SUFFICES ASSUME Init PROVE IInv
  OBVIOUS
<1>1. ServerTyped
  <2>1. remote \in [Repos -> [Branches -> Tips]]
    <3>1. \A a, b, c, d \in Tips :
            [base |-> [main |-> a, feat |-> b], fork |-> [main |-> c, feat |-> d]] \in [Repos -> [Branches -> Tips]]
      BY DEF Repos, Branches
    <3>2. Absent = [main |-> {}, feat |-> {}]
      BY DEF Absent, Branches
    <3>3. PICK m \in {{0}, {0, 3}}, f \in {{}, {0, 1}}, g \in {Absent, [main |-> {0}, feat |-> {0, 1}]} :
            remote = [base |-> [main |-> m, feat |-> f], fork |-> g]
      BY DEF Init, InitServer
    <3>4. m \in Tips /\ f \in Tips
      BY Commits
    <3>5. PICK c \in Tips, d \in Tips : g = [main |-> c, feat |-> d]
      BY <3>2, Commits
    <3> QED BY <3>1, <3>3, <3>4, <3>5
  <2>2. NoPR \in PR
    BY Commits DEF NoPR, PR, Repos, Status
  <2>3. pr \in PR
    BY <2>2, Commits DEF Init, InitServer, PR, Repos, Status, NoPR
  <2> QED BY <2>1, <2>3 DEF ServerTyped
<1>2. TreeTyped
  <2>1. branch \in [Branches -> Tips]
    BY Commits DEF Init, InitClone, Branches
  <2>2. tracking \in [Repos -> [Branches -> Tips]]
    <3>1. Absent \in [Branches -> Tips]
      BY Commits DEF Absent
    <3>2. \A r \in Repos, b \in Branches : remote[r][b] \ {3} \in Tips
      BY <1>1, Commits DEF ServerTyped
    <3> QED BY <3>1, <3>2 DEF Init, InitClone
  <2> QED BY <2>1, <2>2, Commits DEF Init, InitClone, TreeTyped
<1>3. ConfigTyped
  <2>1. marked = FALSE
    BY DEF Init, InitClone
  <2>2. remotes \in {[origin |-> "base", upstream |-> "none", fork |-> "none"],
                    [origin |-> "fork", upstream |-> "base", fork |-> "none"],
                    [origin |-> "none", upstream |-> "base", fork |-> "none"]}
    BY DEF Init, InitClone
  <2>3. \A a, b, c \in Repos \cup {"none"} :
          [origin |-> a, upstream |-> b, fork |-> c] \in [Names -> Repos \cup {"none"}]
    BY DEF Names
  <2>4. remotes \in [Names -> Repos \cup {"none"}]
    <3>1. "base" \in Repos /\ "fork" \in Repos
      BY DEF Repos
    <3>2. \E a, b, c \in Repos \cup {"none"} : remotes = [origin |-> a, upstream |-> b, fork |-> c]
      BY <2>2, <3>1
    <3> QED BY <2>3, <3>2
  <2> QED BY <2>1, <2>4 DEF ConfigTyped
<1>4. FoundTyped
  <2>1. NoPR \in PR
    BY Commits DEF NoPR, PR, Repos, Status
  <2>2. wanted = {} /\ seen = NoPR /\ dest = "base" /\ push = "skip" /\ tries = 0
    BY DEF Init
  <2>3. has \in BOOLEAN /\ useForce \in BOOLEAN /\ deleteBranch \in BOOLEAN
    BY DEF Init
  <2>4. dest \in Repos /\ tries \in 0..MaxTries
    BY <2>2, Numbers DEF Repos
  <2> QED BY <2>1, <2>2, <2>3, <2>4, Commits DEF FoundTyped
<1>5. RestTyped
  <2>1. op \in Ops
    BY DEF Init, NoOp, Ops, Branches
  <2>2. own \subseteq 1..MaxCommits
    <3>1. own = (UNION {branch[b] : b \in Branches}) \cap {2}
      BY DEF Init, InitClone
    <3>2. 2 \in 1..MaxCommits
      BY Numbers
    <3> QED BY <3>1, <3>2
  <2>3. made = 3 /\ res = "none" /\ moves = 0 /\ faults = 0 /\ runs = 0
    BY DEF Init, InitClone
  <2>4. meddled \in BOOLEAN /\ edited \in BOOLEAN
    BY DEF Init
  <2>5. made \in 0..MaxCommits /\ moves \in 0..MaxMoves /\ faults \in 0..MaxFaults /\ runs \in 0..MaxRuns
    BY <2>3, Numbers
  <2> QED BY <2>1, <2>2, <2>3, <2>4, <2>5 DEF RestTyped
<1>6. pc = "idle"
  BY DEF Init
<1>7. PcInv /\ SyncInv /\ ForkInv /\ CheckoutInv /\ MergeInv /\ CreateInv
  BY <1>6 DEF PcInv, Steps, SyncInv, SyncSteps, Decided, ForkInv, ForkSteps, CheckoutInv, CheckoutSteps,
              MergeInv, MergeSteps, Deleting, CreateInv, CreateSteps
<1>8. ServerInv
  <2>1. PICK m \in {{0}, {0, 3}}, f \in {{}, {0, 1}}, g \in {Absent, [main |-> {0}, feat |-> {0, 1}]} :
          remote = [base |-> [main |-> m, feat |-> f], fork |-> g]
    BY DEF Init, InitServer
  <2>2. remote["base"]["main"] # {}
    BY <2>1
  <2>3. remote["fork"]["main"] = {} => remote["fork"]["feat"] = {}
    <3>1. Absent["feat"] = {}
      BY DEF Absent, Branches
    <3> QED BY <2>1, <3>1
  <2>4. pr.state # "none" => pr.head # {}
    <3>1. NoPR.state = "none"
      BY DEF NoPR
    <3>2. pr # NoPR => \E r \in Repos, s \in {"clean", "blocked"}, q \in BOOLEAN :
              \/ pr = [NoPR EXCEPT !.state = "open", !.repo = r, !.head = {0, 1}, !.status = s, !.queue = q]
              \/ pr = [NoPR EXCEPT !.state = "merged", !.repo = r, !.head = {0, 1}]
      BY DEF Init, InitServer
    <3>3. pr # NoPR => pr.head = {0, 1}
      BY <3>2 DEF NoPR
    <3> QED BY <3>1, <3>3
  <2> QED BY <2>2, <2>3, <2>4 DEF ServerInv
<1> QED BY <1>1, <1>2, <1>3, <1>4, <1>5, <1>7, <1>8 DEF IInv, TypeOK

-----------------------------------------------------------------------------
\* HEAD moves, and the branch that is checked out with it.
LEMMA TipMoves ==
  ASSUME TreeTyped, NEW c \in Tips, SetTip(c)
  PROVE  /\ branch' \in [Branches -> Tips] /\ detached' \in Tips /\ head' = head
         /\ \A b \in Branches : branch'[b] = IF b = head THEN c ELSE branch[b]
         /\ Tip' = c
<1>1. "detached" \notin Branches
  BY DEF Branches
<1>2. CASE head = "detached"
  BY <1>1, <1>2 DEF TreeTyped, SetTip, Tip
<1>3. CASE head # "detached"
  BY <1>1, <1>3 DEF TreeTyped, SetTip, Tip
<1> QED BY <1>2, <1>3

LEMMA TipTyped == TreeTyped => Tip \in Tips /\ \A b \in Branches : b = head => Tip = branch[b]
BY DEF TreeTyped, Tip, Branches

-----------------------------------------------------------------------------
\* Everyone else.  Their steps are not those of a command.
LEMMA NotGh == TypeOK /\ Everyone => ~GhSteps /\ pc # "idle" /\ UNCHANGED <<pc, res, op>>
<1> SUFFICES ASSUME TypeOK, Everyone PROVE moves' # moves /\ pc # "idle" /\ UNCHANGED <<pc, res, op>>
  BY DEF GhSteps
<1>1. moves' = moves + 1 /\ pc # "idle" /\ UNCHANGED <<pc, res, op>>
  BY DEF Everyone, Edit, Commit, Switch, FetchElsewhere, Push, RemoveHead, StatusChanges, ServerMerges,
         Elsewhere, RunsGit, Move, Others
<1> QED BY <1>1, Numbers DEF TypeOK, RestTyped

LEMMA OthersFrame ==
  ASSUME Others
  PROVE  /\ UNCHANGED <<remotes, marked, pc, res, op, faults, runs>>
         /\ UNCHANGED <<has, useForce, wanted, cmds, seen, deleteBranch, dest, push, tries>>
BY DEF Others, config, found

LEMMA RestMoves ==
  ASSUME RestTyped, UNCHANGED <<res, op, faults, runs>>, Move, made' \in 0..MaxCommits,
         own' \subseteq 1..MaxCommits, meddled' \in BOOLEAN, edited' \in BOOLEAN
  PROVE  RestTyped'
<1>1. moves' \in 0..MaxMoves
  BY Numbers DEF RestTyped, Move
<1> QED BY <1>1 DEF RestTyped

\* The user changes the clone, but not by git.
LEMMA EditPreserves == IInv /\ Edit => IInv'
<1> SUFFICES ASSUME IInv, Edit PROVE IInv'
  OBVIOUS
<1>1. /\ UNCHANGED <<remotes, marked, pc, res, op, faults, runs>>
      /\ UNCHANGED <<has, useForce, wanted, cmds, seen, deleteBranch, dest, push, tries>>
      /\ UNCHANGED <<remote, pr, branch, head, detached, tracking, fetchHead, made, own, meddled>>
      /\ edited' = TRUE /\ dirty' = TRUE /\ Move
  BY OthersFrame DEF Edit, server, refs
<1>2. TypeOK'
  <2>1. TreeTyped'
    BY <1>1 DEF IInv, TypeOK, TreeTyped
  <2>2. RestTyped'
    <3>1. made' \in 0..MaxCommits /\ own' \subseteq 1..MaxCommits /\ meddled' \in BOOLEAN /\ edited' \in BOOLEAN
      BY <1>1 DEF IInv, TypeOK, RestTyped
    <3> QED BY <1>1, <3>1, RestMoves DEF IInv, TypeOK
  <2> QED BY <1>1, <2>1, <2>2, ServerStays, ConfigStays, FoundStays DEF IInv, TypeOK
<1>3. PcInv' /\ ServerInv' /\ ForkInv'
  BY <1>1 DEF IInv, PcInv, ServerInv, ForkInv
<1>4. SyncInv'
  BY <1>1 DEF IInv, SyncInv
<1>5. CheckoutInv'
  <2>1. RunInv <=> RunInv'
    BY <1>1 DEF RunInv, List, Rest, Strict, Source, HasRemote
  <2> QED BY <1>1, <2>1 DEF IInv, CheckoutInv
<1>6. MergeInv' /\ CreateInv'
  BY <1>1 DEF IInv, MergeInv, CreateInv, Merged, ShouldAddToMergeQueue
<1> QED BY <1>2, <1>3, <1>4, <1>5, <1>6 DEF IInv

\* The user runs git: what a command knows is void where it says `~meddled`.
LEMMA MeddlePreserves ==
  ASSUME IInv, RunsGit, TreeTyped', made' \in 0..MaxCommits, own' \subseteq 1..MaxCommits,
         dirty' => dirty, fetchHead # {} => fetchHead' # {}
  PROVE  IInv'
<1>1. /\ UNCHANGED <<remotes, marked, pc, res, op, faults, runs>>
      /\ UNCHANGED <<has, useForce, wanted, cmds, seen, deleteBranch, dest, push, tries>>
      /\ UNCHANGED <<remote, pr, edited>> /\ meddled' = TRUE /\ Move
  BY OthersFrame DEF RunsGit, server
<1>2. TypeOK'
  <2>1. RestTyped'
    BY <1>1, RestMoves DEF IInv, TypeOK, RestTyped
  <2> QED BY <1>1, <2>1, ServerStays, ConfigStays, FoundStays DEF IInv, TypeOK
<1>3. PcInv' /\ ServerInv' /\ ForkInv'
  BY <1>1 DEF IInv, PcInv, ServerInv, ForkInv
<1>4. SyncInv'
  BY <1>1 DEF IInv, SyncInv, SyncSteps
<1>5. CheckoutInv'
  <2>1. RunInv => RunInv'
    BY <1>1 DEF RunInv, List, Rest, Strict, HasRemote
  <2> QED BY <1>1, <2>1 DEF IInv, CheckoutInv
<1>6. MergeInv' /\ CreateInv'
  BY <1>1 DEF IInv, MergeInv, CreateInv, Merged, ShouldAddToMergeQueue
<1> QED BY <1>2, <1>3, <1>4, <1>5, <1>6 DEF IInv

LEMMA UserPreserves == IInv /\ (Commit \/ Switch \/ FetchElsewhere) => IInv'
<1> SUFFICES ASSUME IInv, Commit \/ Switch \/ FetchElsewhere PROVE IInv'
  OBVIOUS
<1>1. CASE Commit
  <2>1. /\ RunsGit /\ UNCHANGED <<head, detached, tracking, fetchHead>> /\ dirty' = FALSE /\ head \in Branches
        /\ made < MaxCommits /\ made' = made + 1
        /\ branch' = [branch EXCEPT ![head] = @ \cup {made'}] /\ own' = own \cup {made'}
    BY <1>1 DEF Commit, NewCommit, IInv, TypeOK, TreeTyped
  <2>2. made' \in 0..MaxCommits /\ own' \subseteq 1..MaxCommits
    BY <2>1, Numbers DEF IInv, TypeOK, RestTyped
  <2>3. branch[head] \cup {made'} \in Tips
    BY <2>1, <2>2, Commits DEF IInv, TypeOK, TreeTyped
  <2>4. TreeTyped'
    BY <2>1, <2>3 DEF IInv, TypeOK, TreeTyped
  <2> QED BY <2>1, <2>2, <2>4, MeddlePreserves
<1>2. CASE Switch
  <2>1. /\ RunsGit /\ UNCHANGED <<branch, detached, tracking, fetchHead, dirty, made, own>>
        /\ head' \in Branches
    BY <1>2 DEF Switch, CheckoutBranch
  <2>2. TreeTyped' /\ made' \in 0..MaxCommits /\ own' \subseteq 1..MaxCommits
    BY <2>1 DEF IInv, TypeOK, TreeTyped, RestTyped
  <2> QED BY <2>1, <2>2, MeddlePreserves
<1>3. CASE FetchElsewhere
  <2>1. PICK r \in Repos, b \in Branches :
          /\ RunsGit /\ UNCHANGED <<branch, head, detached, dirty, made, own>>
          /\ remote[r][b] # {} /\ fetchHead' = remote[r][b]
          /\ tracking' = [tracking EXCEPT ![r][b] = remote[r][b]]
    BY <1>3 DEF FetchElsewhere, Fetch, refs
  <2>2. remote[r][b] \in Tips
    BY DEF IInv, TypeOK, ServerTyped
  <2>3. tracking' \in [Repos -> [Branches -> Tips]]
    BY <2>1, <2>2 DEF IInv, TypeOK, TreeTyped
  <2>4. TreeTyped' /\ made' \in 0..MaxCommits /\ own' \subseteq 1..MaxCommits
    BY <2>1, <2>2, <2>3 DEF IInv, TypeOK, TreeTyped, RestTyped
  <2> QED BY <2>1, <2>4, MeddlePreserves
<1> QED BY <1>1, <1>2, <1>3

\* People who push, the checks, and the server.
LEMMA RequestHead ==
  ASSUME NEW p \in PR, NEW c \in Tips, NEW q, q = [p EXCEPT !.head = c]
  PROVE  q \in PR /\ q.head = c /\ q.state = p.state
BY DEF PR
LEMMA RequestStatus ==
  ASSUME NEW p \in PR, NEW t \in Status, NEW q, q = [p EXCEPT !.status = t]
  PROVE  q \in PR /\ q.head = p.head /\ q.state = p.state
BY DEF PR
LEMMA RequestArmed ==
  ASSUME NEW p \in PR, NEW x \in BOOLEAN, NEW y \in BOOLEAN, NEW q,
         q = [p EXCEPT !.auto = x] \/ q = [p EXCEPT !.auto = x, !.queued = y]
  PROVE  q \in PR /\ q.head = p.head /\ q.state = p.state
BY DEF PR
LEMMA RequestMerged ==
  ASSUME NEW p \in PR, NEW q, q = [p EXCEPT !.state = "merged", !.auto = FALSE, !.queued = FALSE]
  PROVE  q \in PR /\ q.head = p.head /\ q.state = "merged"
BY DEF PR

\* A branch at the server is set.
LEMMA UpdateRight ==
  ASSUME ServerTyped, ServerInv, NEW r \in Repos, NEW b \in Branches, NEW c \in Tips, Update(r, b, c),
         b = "main" => c # {},
         c # {} => remote[r]["main"] # {}
  PROVE  /\ ServerTyped' /\ ServerInv' /\ pr'.state = pr.state
         /\ \A q \in Repos : remote[q]["main"] # {} => remote'[q]["main"] # {}
         /\ \A q \in Repos, d \in Branches : remote'[q][d] = IF q = r /\ d = b THEN c ELSE remote[q][d]
<1>1. /\ remote' = [remote EXCEPT ![r][b] = c]
      /\ pr' = pr \/ (pr' = [pr EXCEPT !.head = c] /\ c # {})
  BY DEF Update
<1>2. pr' \in PR /\ pr'.state = pr.state /\ (pr'.head = pr.head \/ pr'.head # {})
  BY <1>1, RequestHead DEF ServerTyped
<1>3. remote' \in [Repos -> [Branches -> Tips]]
  BY <1>1 DEF ServerTyped
<1>4. \A q \in Repos, d \in Branches : remote'[q][d] = IF q = r /\ d = b THEN c ELSE remote[q][d]
  BY <1>1 DEF ServerTyped
<1>5. "main" \in Branches /\ "feat" \in Branches /\ "base" \in Repos /\ "fork" \in Repos
  BY DEF Branches, Repos
<1>6. ServerInv'
  BY <1>2, <1>4, <1>5 DEF ServerInv, Repos, Branches
<1>7. \A q \in Repos : remote[q]["main"] # {} => remote'[q]["main"] # {}
  BY <1>4, <1>5
<1> QED BY <1>2, <1>3, <1>4, <1>6, <1>7 DEF ServerTyped

LEMMA MergeRight ==
  ASSUME ServerTyped, ServerInv, Merge, pr.state = "open"
  PROVE  /\ ServerTyped' /\ ServerInv' /\ pr'.state = "merged"
         /\ \A q \in Repos, d \in Branches : remote[q][d] \subseteq remote'[q][d]
         /\ \A q \in Repos : remote'[q]["feat"] = remote[q]["feat"]
         /\ remote'["fork"] = remote["fork"]
<1>1. /\ pr' = [pr EXCEPT !.state = "merged", !.auto = FALSE, !.queued = FALSE]
      /\ remote' = [remote EXCEPT !["base"]["main"] = @ \cup pr.head]
  BY DEF Merge
<1>2. pr' \in PR /\ pr'.state = "merged" /\ pr'.head = pr.head /\ pr.head \in Tips /\ pr.state \in {"none", "open", "merged"}
  <2>1. pr \in PR
    BY DEF ServerTyped
  <2> QED BY <1>1, <2>1, RequestMerged DEF PR
<1>3. "main" \in Branches /\ "feat" \in Branches /\ "base" \in Repos /\ "fork" \in Repos
  BY DEF Branches, Repos
<1>4. remote["base"]["main"] \cup pr.head \in Tips
  <2>1. remote["base"]["main"] \in Tips
    BY <1>3 DEF ServerTyped
  <2> QED BY <1>2, <2>1, Commits
<1>5. remote' \in [Repos -> [Branches -> Tips]]
  BY <1>1, <1>4 DEF ServerTyped
<1>6. \A q \in Repos, d \in Branches :
        remote'[q][d] = IF q = "base" /\ d = "main" THEN remote[q][d] \cup pr.head ELSE remote[q][d]
  BY <1>1, <1>3 DEF ServerTyped
<1>7. remote'["fork"] = remote["fork"]
  BY <1>1, <1>3 DEF ServerTyped
<1>8. ServerInv'
  BY <1>2, <1>3, <1>6, <1>7 DEF ServerInv
<1>9. \A q \in Repos, d \in Branches : remote[q][d] \subseteq remote'[q][d]
  BY <1>6
<1>10. \A q \in Repos : remote'[q]["feat"] = remote[q]["feat"]
  BY <1>3, <1>6
<1> QED BY <1>2, <1>5, <1>7, <1>8, <1>9, <1>10 DEF ServerTyped

LEMMA ElsewherePreserves ==
  ASSUME IInv, Elsewhere, ServerTyped', ServerInv', made' \in 0..MaxCommits,
         pr.state = "merged" => pr'.state = "merged", pr.state # "none" => pr'.state # "none",
         \A q \in Repos : remote[q]["main"] # {} => remote'[q]["main"] # {}
  PROVE  IInv'
<1>1. /\ UNCHANGED <<remotes, marked, pc, res, op, faults, runs>>
      /\ UNCHANGED <<has, useForce, wanted, cmds, seen, deleteBranch, dest, push, tries>>
      /\ UNCHANGED <<branch, head, detached, tracking, fetchHead, dirty, own, meddled, edited>> /\ Move
  BY OthersFrame DEF Elsewhere, tree, refs
<1>2. TypeOK'
  <2>1. own' \subseteq 1..MaxCommits /\ meddled' \in BOOLEAN /\ edited' \in BOOLEAN
    BY <1>1 DEF IInv, TypeOK, RestTyped
  <2>2. RestTyped'
    BY <1>1, <2>1, RestMoves DEF IInv, TypeOK
  <2> QED BY <1>1, <2>2, TreeStays, ConfigStays, FoundStays DEF IInv, TypeOK
<1>3. PcInv' /\ SyncInv' /\ ForkInv'
  BY <1>1 DEF IInv, PcInv, SyncInv, ForkInv
<1>4. CheckoutInv'
  <2>1. RunInv <=> RunInv'
    BY <1>1 DEF RunInv, List, Rest, Strict, Source, HasRemote
  <2> QED BY <1>1, <2>1 DEF IInv, CheckoutInv
<1>5. MergeInv'
  BY <1>1 DEF IInv, MergeInv, Merged, ShouldAddToMergeQueue
<1>6. CreateInv'
  <2>1. dest \in Repos
    BY DEF IInv, TypeOK, FoundTyped
  <2> QED BY <1>1, <2>1 DEF IInv, CreateInv
<1> QED BY <1>2, <1>3, <1>4, <1>5, <1>6 DEF IInv

LEMMA ServerPreserves == IInv /\ (Push \/ RemoveHead \/ StatusChanges \/ ServerMerges) => IInv'
<1> SUFFICES ASSUME IInv, Push \/ RemoveHead \/ StatusChanges \/ ServerMerges PROVE IInv'
  OBVIOUS
<1>0. /\ ServerTyped /\ ServerInv /\ made \in 0..MaxCommits /\ pr \in PR
      /\ \A r \in Repos, b \in Branches : remote[r][b] \in Tips
  BY DEF IInv, TypeOK, RestTyped, ServerTyped
<1>9. "main" \in Branches /\ "feat" \in Branches /\ "base" \in Repos /\ "fork" \in Repos
  BY DEF Branches, Repos
<1>1. CASE Push
  <2>1. PICK r \in Repos, b \in Branches :
          /\ remote[r][b] # {}
          /\ \/ Update(r, b, remote[r][b] \cup {made'})
             \/ b = "feat" /\ Update(r, b, {0, made'})
    BY <1>1 DEF Push
  <2>2. Elsewhere /\ made' \in 0..MaxCommits
    BY <1>0, <1>1, Numbers DEF Push, NewCommit
  <2>3. remote[r]["main"] # {}
    <3>1. b = "main" \/ b = "feat"
      BY DEF Branches
    <3>2. r = "base" \/ r = "fork"
      BY DEF Repos
    <3> QED BY <1>0, <2>1, <3>1, <3>2 DEF ServerInv
  <2>4. PICK c \in Tips : Update(r, b, c) /\ c # {}
    BY <1>0, <2>1, <2>2, Commits
  <2> QED BY <1>0, <2>2, <2>3, <2>4, UpdateRight, ElsewherePreserves
<1>2. CASE RemoveHead
  <2>1. Elsewhere /\ Update(pr.repo, "feat", {}) /\ made' = made
    BY <1>2 DEF RemoveHead
  <2>2. pr.repo \in Repos /\ {} \in Tips
    BY <1>0, Commits DEF PR
  <2> QED BY <1>0, <1>9, <2>1, <2>2, UpdateRight, ElsewherePreserves
<1>3. CASE StatusChanges
  <2>1. PICK t \in Status : pr' = [pr EXCEPT !.status = t]
    BY <1>3 DEF StatusChanges
  <2>2. Elsewhere /\ UNCHANGED <<remote, made>>
    BY <1>3 DEF StatusChanges
  <2>3. pr' \in PR /\ pr'.state = pr.state /\ pr'.head = pr.head
    BY <1>0, <2>1, RequestStatus
  <2>4. ServerTyped' /\ ServerInv'
    BY <1>0, <2>2, <2>3 DEF ServerTyped, ServerInv
  <2> QED BY <1>0, <2>2, <2>3, <2>4, ElsewherePreserves
<1>4. CASE ServerMerges
  <2>1. Elsewhere /\ pr.state = "open" /\ Merge /\ made' = made
    BY <1>4 DEF ServerMerges
  <2>2. ServerTyped' /\ ServerInv' /\ pr'.state = "merged"
        /\ \A q \in Repos : remote[q]["main"] \subseteq remote'[q]["main"]
    BY <1>0, <1>9, <2>1, MergeRight
  <2> QED BY <1>0, <2>1, <2>2, ElsewherePreserves
<1> QED BY <1>1, <1>2, <1>3, <1>4

LEMMA EveryonePreserves == IInv /\ Everyone => IInv' /\ StepRight
<1> SUFFICES ASSUME IInv, Everyone PROVE IInv' /\ StepRight
  OBVIOUS
<1>1. IInv'
  BY EditPreserves, UserPreserves, ServerPreserves DEF Everyone
<1>2. ~GhSteps /\ pc # "idle" /\ res' = res
  BY NotGh DEF IInv
<1>3. res' # "ok"
  BY <1>2 DEF IInv, PcInv
<1>4. StepRight
  BY <1>2, <1>3 DEF StepRight, KeepsCommits, KeepsEdits, Brings, DeletesMerged, Shows, Succeeds
<1> QED BY <1>1, <1>4

-----------------------------------------------------------------------------
\* A command begins.
LEMMA BeginRight ==
  ASSUME IInv, NEW o \in Ops, NEW l \in Steps \ {"idle"}, Begin(o, l)
  PROVE  TypeOK' /\ PcInv' /\ ServerInv' /\ StepRight /\ pc' = l /\ op' = o /\ useForce' = o.force
         /\ (deleteBranch' => o.delete = "flag")
<1>1. /\ UNCHANGED <<remote, pr, branch, head, detached, tracking, fetchHead, dirty, remotes, marked>>
      /\ UNCHANGED <<made, own, moves, faults>>
  BY DEF Begin, server, tree, refs, config
<1>2. /\ pc = "idle" /\ runs < MaxRuns /\ runs' = runs + 1 /\ op' = o /\ pc' = l /\ res' = "none"
      /\ useForce' = o.force /\ wanted' = {} /\ seen' = NoPR
      /\ dest' = "base" /\ push' = "skip" /\ tries' = 0
  BY DEF Begin
<1>3. /\ has' \in BOOLEAN /\ useForce' \in BOOLEAN /\ deleteBranch' \in BOOLEAN
      /\ meddled' \in BOOLEAN /\ edited' \in BOOLEAN
      /\ (deleteBranch' => o.delete = "flag")
  BY DEF Begin, Ops
<1>4. FoundTyped'
  <2>1. NoPR \in PR
    BY Commits DEF NoPR, PR, Repos, Status
  <2>2. 0 \in 0..MaxTries /\ "base" \in Repos
    BY Numbers DEF Repos
  <2> QED BY <1>2, <1>3, <2>1, <2>2, Commits DEF FoundTyped
<1>5. RestTyped'
  <2>1. runs' \in 0..MaxRuns
    BY <1>2, Numbers DEF IInv, TypeOK, RestTyped
  <2> QED BY <1>1, <1>2, <1>3, <2>1 DEF IInv, TypeOK, RestTyped
<1>6. TypeOK'
  BY <1>1, <1>4, <1>5, ServerStays, TreeStays, ConfigStays DEF IInv, TypeOK
<1>7. PcInv' /\ ServerInv'
  BY <1>1, <1>2 DEF IInv, PcInv, ServerInv
<1>8. StepRight
  BY <1>1, <1>2, Quiet
<1> QED BY <1>2, <1>3, <1>6, <1>7, <1>8

-----------------------------------------------------------------------------
\* repo sync.
LEMMA SyncBegins == IInv /\ (SyncLocal \/ SyncFork) => IInv' /\ StepRight
<1> SUFFICES ASSUME IInv, SyncLocal \/ SyncFork PROVE IInv' /\ StepRight
  OBVIOUS
<1>1. CASE SyncLocal
  <2>1. PICK b \in Branches, f \in BOOLEAN :
          Begin([NoOp EXCEPT !.name = "sync", !.branch = b, !.force = f], "sync_fetch")
    BY <1>1 DEF SyncLocal
  <2> DEFINE o == [NoOp EXCEPT !.name = "sync", !.branch = b, !.force = f]
  <2>2. o \in Ops /\ o.name = "sync"
    BY DEF NoOp, Ops, Branches
  <2> HIDE DEF o
  <2>3. TypeOK' /\ PcInv' /\ ServerInv' /\ StepRight /\ pc' = "sync_fetch" /\ op' = o /\ useForce' = o.force
    BY <2>1, <2>2, BeginRight DEF o, Steps, SyncSteps
  <2>4. SyncInv'
    BY <2>2, <2>3 DEF SyncInv, Decided
  <2> QED BY <2>3, <2>4, AtSync DEF IInv, SyncSteps
<1>2. CASE SyncFork
  <2>1. PICK f \in BOOLEAN : Begin([NoOp EXCEPT !.name = "sync_fork", !.force = f], "merge_upstream")
    BY <1>2 DEF SyncFork
  <2> DEFINE o == [NoOp EXCEPT !.name = "sync_fork", !.force = f]
  <2>2. o \in Ops /\ o.name = "sync_fork"
    BY DEF NoOp, Ops, Branches
  <2> HIDE DEF o
  <2>3. TypeOK' /\ PcInv' /\ ServerInv' /\ StepRight /\ pc' = "merge_upstream" /\ op' = o
    BY <2>1, <2>2, BeginRight DEF o, Steps, ForkSteps
  <2>4. ForkInv'
    BY <2>2, <2>3 DEF ForkInv
  <2> QED BY <2>3, <2>4, AtFork DEF IInv, ForkSteps
<1> QED BY <1>1, <1>2

LEMMA SyncFetchPreserves == IInv /\ SyncFetch => IInv' /\ StepRight
<1> SUFFICES ASSUME IInv, SyncFetch PROVE IInv' /\ StepRight
  OBVIOUS
<1>1. /\ UNCHANGED <<remote, pr, remotes, marked, has, useForce, cmds, seen, deleteBranch, dest, push, tries>>
      /\ UNCHANGED <<op, made, own, meddled, edited, moves, runs>> /\ pc = "sync_fetch" /\ FaultOrNot
      /\ UNCHANGED <<branch, head, detached, dirty>>
      /\ \/ /\ remote["base"][op.branch] # {} /\ fetchHead' = remote["base"][op.branch]
            /\ tracking' = [tracking EXCEPT !["base"][op.branch] = remote["base"][op.branch]]
            /\ wanted' = fetchHead' /\ pc' = "sync_has" /\ res' = res
         \/ pc' = "idle" /\ res' = "error" /\ UNCHANGED <<fetchHead, tracking, wanted>>
  BY DEF SyncFetch, Frame, server, config, Fetch, refs, tree, Goto, Return, Failed, FaultOrNot
<1>2. op.branch \in Branches /\ "base" \in Repos
  BY DEF IInv, TypeOK, RestTyped, Ops, Repos
<1>3. remote["base"][op.branch] \in Tips
  BY <1>2 DEF IInv, TypeOK, ServerTyped
<1>4. TypeOK'
  <2>1. TreeTyped' /\ wanted' \in Tips
    <3>1. tracking' \in [Repos -> [Branches -> Tips]]
      BY <1>1, <1>2, <1>3 DEF IInv, TypeOK, TreeTyped
    <3> QED BY <1>1, <1>3, <3>1 DEF IInv, TypeOK, TreeTyped, FoundTyped
  <2>2. FoundTyped'
    BY <1>1, <2>1 DEF IInv, TypeOK, FoundTyped
  <2>3. RestTyped'
    BY <1>1, RestStays DEF IInv, TypeOK, RestTyped, FaultOrNot
  <2> QED BY <1>1, <2>1, <2>2, <2>3, ServerStays, ConfigStays DEF IInv, TypeOK
<1>5. PcInv' /\ ServerInv'
  BY <1>1 DEF IInv, PcInv, ServerInv, Steps, SyncSteps
<1>6. SyncInv'
  BY <1>1 DEF IInv, SyncInv, SyncSteps, Decided
<1>7. StepRight
  BY <1>1, Quiet DEF IInv, PcInv
<1> QED BY <1>1, <1>4, <1>5, <1>6, <1>7, AtSync DEF IInv, SyncSteps

LEMMA SyncLooksPreserves == IInv /\ (HasLocalBranch \/ CompareBranch \/ CurrentBranch \/ IsDirty) => IInv' /\ StepRight
<1> SUFFICES ASSUME IInv, HasLocalBranch \/ CompareBranch \/ CurrentBranch \/ IsDirty PROVE IInv' /\ StepRight
  OBVIOUS
<1>1. /\ UNCHANGED <<remote, pr, remotes, marked, wanted, cmds, seen, deleteBranch, dest, push, tries>>
      /\ UNCHANGED <<op, made, own, meddled, edited, moves, runs>> /\ FaultOrNot
      /\ UNCHANGED <<branch, head, detached, tracking, fetchHead, dirty>>
  BY FoundFrame, TreeFrame DEF HasLocalBranch, CompareBranch, CurrentBranch, IsDirty, Goto, Return, Failed, FaultOrNot, tree, refs
<1>2. /\ pc \in SyncSteps \ {"sync_fetch"} /\ pc' \in SyncSteps \cup {"idle"}
      /\ (pc' # "idle" => res' = res /\ pc' # "sync_fetch") /\ (pc' = "idle" => res' = "error")
      /\ has' \in BOOLEAN /\ useForce' \in BOOLEAN /\ (useForce' => useForce)
  <2>1. has \in BOOLEAN /\ useForce \in BOOLEAN
    BY DEF IInv, TypeOK, FoundTyped
  <2>2. CASE HasLocalBranch
    BY <2>1, <2>2 DEF HasLocalBranch, Goto, SyncSteps
  <2>3. CASE CompareBranch
    BY <2>1, <2>3 DEF CompareBranch, Compare, Goto, Return, SyncSteps
  <2>4. CASE CurrentBranch \/ IsDirty
    BY <2>1, <2>4, TreeFrame DEF CurrentBranch, IsDirty, Look, Goto, Return, Failed, SyncSteps
  <2> QED BY <2>2, <2>3, <2>4
<1>3. SyncInv'
  <2>1. CASE HasLocalBranch
    <3>1. /\ useForce' = useForce /\ pc' \in {"sync_compare", "sync_current"} /\ (pc' = "sync_current" => ~has')
      BY <2>1 DEF HasLocalBranch, Goto
    <3> QED BY <1>1, <1>2, <3>1 DEF IInv, SyncInv, SyncSteps, Decided
  <2>2. CASE CompareBranch
    <3>1. /\ has' = has /\ pc' \in {"sync_current", "idle"}
          /\ pc' = "sync_current" /\ ~useForce' => branch[op.branch] \subseteq fetchHead
      BY <2>2 DEF CompareBranch, Compare, IsAncestor, Goto, Return
    <3> QED BY <1>1, <1>2, <3>1 DEF IInv, SyncInv, SyncSteps, Decided
  <2>3. CASE CurrentBranch
    <3>1. /\ UNCHANGED <<has, useForce>> /\ pc = "sync_current" /\ pc' \in {"sync_dirty", "sync_ref", "idle"}
          /\ pc' = "sync_dirty" => head = op.branch
      BY <2>3, TreeFrame DEF CurrentBranch, Goto, Return, Failed
    <3> QED BY <1>1, <1>2, <3>1 DEF IInv, SyncInv, SyncSteps, Decided
  <2>4. CASE IsDirty
    <3>1. /\ UNCHANGED <<has, useForce>> /\ pc = "sync_dirty" /\ pc' \in {"sync_tree", "idle"}
          /\ pc' = "sync_tree" => ~dirty
      BY <2>4, TreeFrame DEF IsDirty, Look, Goto, Return, Failed
    <3> QED BY <1>1, <1>2, <3>1 DEF IInv, SyncInv, SyncSteps, Decided
  <2> QED BY <2>1, <2>2, <2>3, <2>4
<1>4. TypeOK'
  <2>1. FoundTyped'
    BY <1>1, <1>2 DEF IInv, TypeOK, FoundTyped
  <2>2. RestTyped'
    BY <1>1, <1>2, RestStays DEF IInv, TypeOK, RestTyped, FaultOrNot
  <2> QED BY <1>1, <2>1, <2>2, ServerStays, ConfigStays, TreeStays DEF IInv, TypeOK
<1>5. PcInv' /\ ServerInv'
  BY <1>1, <1>2 DEF IInv, PcInv, ServerInv, Steps, SyncSteps
<1>6. res' # "ok"
  BY <1>2 DEF IInv, PcInv, SyncSteps
<1> QED BY <1>1, <1>2, <1>3, <1>4, <1>5, <1>6, AtSync, Quiet DEF IInv

LEMMA MoveTreePreserves == IInv /\ MoveTree => IInv' /\ StepRight
<1> SUFFICES ASSUME IInv, MoveTree PROVE IInv' /\ StepRight
  OBVIOUS
<1>1. /\ UNCHANGED <<remote, pr, remotes, marked, has, useForce, wanted, cmds, seen, deleteBranch, dest, push, tries>>
      /\ UNCHANGED <<op, made, own, meddled, edited, moves, runs>> /\ FaultOrNot /\ pc = "sync_tree"
      /\ pc' = "idle" /\ res' \in {"none", "ok", "error"}
  BY TreeFrame DEF MoveTree, Return, Failed, FaultOrNot
<1>2. /\ op.name = "sync" /\ (useForce => op.force) /\ fetchHead # {} /\ (~meddled => fetchHead = wanted)
      /\ (~meddled /\ has /\ ~useForce => branch[op.branch] \subseteq fetchHead)
      /\ (~meddled => head = op.branch) /\ (dirty => edited)
      /\ op.branch \in Branches
  BY <1>1 DEF IInv, SyncInv, SyncSteps, Decided, TypeOK, RestTyped, Ops
<1>3. fetchHead \in Tips /\ TreeTyped /\ Tip \in Tips
  BY TipTyped DEF IInv, TypeOK, TreeTyped
<1>5. TreeTyped' /\ StepRight
  <2>1. CASE useForce /\ ResetHard(fetchHead)
    <3>1. SetTip(fetchHead) /\ dirty' = FALSE /\ UNCHANGED <<tracking, fetchHead>>
      BY <2>1 DEF ResetHard
    <3>2. /\ branch' \in [Branches -> Tips] /\ detached' \in Tips /\ head' = head
          /\ \A b \in Branches : branch'[b] = IF b = head THEN fetchHead ELSE branch[b]
      BY <1>3, <3>1, TipMoves
    <3>3. TreeTyped'
      BY <1>3, <3>1, <3>2 DEF TreeTyped
    <3>4. KeepsCommits /\ KeepsEdits /\ DeletesMerged
      <4>1. "feat" \in Branches
        BY DEF Branches
      <4> QED BY <1>1, <1>2, <2>1, <3>2, <4>1 DEF KeepsCommits, KeepsEdits, DeletesMerged
    <3>5. Brings /\ Shows
      BY <1>1, <1>2, <3>2 DEF Brings, Shows, Succeeds
    <3> QED BY <3>3, <3>4, <3>5 DEF StepRight
  <2>2. CASE ~useForce /\ MergeFastForward(fetchHead)
    <3>1. SetTip(Tip \cup fetchHead) /\ UNCHANGED <<tracking, fetchHead, dirty>>
      BY <2>2 DEF MergeFastForward
    <3>2. Tip \cup fetchHead \in Tips /\ \A b \in Branches : b = head => Tip = branch[b]
      BY <1>3, Commits, TipTyped
    <3>3. /\ branch' \in [Branches -> Tips] /\ detached' \in Tips /\ head' = head
          /\ \A b \in Branches : branch'[b] = IF b = head THEN branch[b] \cup fetchHead ELSE branch[b]
      BY <1>3, <3>1, <3>2, TipMoves
    <3>4. TreeTyped'
      BY <1>3, <3>1, <3>3 DEF TreeTyped
    <3>5. KeepsCommits /\ KeepsEdits /\ DeletesMerged
      <4>1. "feat" \in Branches
        BY DEF Branches
      <4> QED BY <1>1, <3>1, <3>3, <4>1 DEF KeepsCommits, KeepsEdits, DeletesMerged
    <3>6. Brings /\ Shows
      BY <1>1, <1>2, <2>2, <3>3 DEF Brings, Shows, Succeeds
    <3> QED BY <3>4, <3>5, <3>6 DEF StepRight
  <2>3. CASE res' = "error" /\ UNCHANGED <<branch, head, detached, tracking, fetchHead, dirty>>
    BY <1>1, <1>3, <2>3, TreeStays, Quiet
  <2> QED BY <2>1, <2>2, <2>3 DEF MoveTree, Return, Failed, tree, refs
<1>6. FoundTyped' /\ RestTyped' /\ ServerTyped' /\ ConfigTyped' /\ ServerInv'
  BY <1>1, FoundStays, RestStays, ServerStays, ConfigStays DEF IInv, TypeOK, FaultOrNot, ServerInv
<1> QED BY <1>1, <1>5, <1>6, AtIdle DEF IInv, TypeOK

LEMMA MoveRefPreserves == IInv /\ MoveRef => IInv' /\ StepRight
<1> SUFFICES ASSUME IInv, MoveRef PROVE IInv' /\ StepRight
  OBVIOUS
<1>1. /\ UNCHANGED <<remote, pr, remotes, marked, has, useForce, wanted, cmds, seen, deleteBranch, dest, push, tries>>
      /\ UNCHANGED <<op, made, own, meddled, edited, moves, runs>> /\ FaultOrNot /\ pc = "sync_ref"
      /\ pc' = "idle" /\ res' \in {"none", "ok", "error"}
  BY TreeFrame DEF MoveRef, Return, Failed, FaultOrNot
<1>2. /\ op.name = "sync" /\ (useForce => op.force) /\ fetchHead # {} /\ (~meddled => fetchHead = wanted)
      /\ (~meddled /\ has /\ ~useForce => branch[op.branch] \subseteq fetchHead)
      /\ op.branch \in Branches
  BY <1>1 DEF IInv, SyncInv, SyncSteps, Decided, TypeOK, RestTyped, Ops
<1>3. fetchHead \in Tips /\ TreeTyped /\ dirty \in BOOLEAN
  BY DEF IInv, TypeOK, TreeTyped
<1>4. TreeTyped' /\ StepRight
  <2>1. CASE (has \/ branch[op.branch] = {}) /\ SetBranch(op.branch, fetchHead)
    <3>1. /\ branch' = [branch EXCEPT ![op.branch] = fetchHead] /\ UNCHANGED <<head, detached, tracking, fetchHead>>
          /\ dirty' \in BOOLEAN /\ (dirty => dirty')
      BY <1>3, <2>1 DEF SetBranch
    <3>2. /\ branch' \in [Branches -> Tips]
          /\ \A b \in Branches : branch'[b] = IF b = op.branch THEN fetchHead ELSE branch[b]
      BY <1>2, <1>3, <3>1 DEF TreeTyped
    <3>3. TreeTyped'
      BY <1>3, <3>1, <3>2 DEF TreeTyped
    <3>4. KeepsCommits /\ KeepsEdits /\ DeletesMerged
      <4>1. "feat" \in Branches
        BY DEF Branches
      <4> QED BY <1>1, <1>2, <2>1, <3>1, <3>2, <4>1 DEF KeepsCommits, KeepsEdits, DeletesMerged
    <3>5. Brings /\ Shows
      BY <1>1, <1>2, <3>1, <3>2 DEF Brings, Shows, Succeeds
    <3> QED BY <3>3, <3>4, <3>5 DEF StepRight
  <2>2. CASE res' = "error" /\ UNCHANGED <<branch, head, detached, tracking, fetchHead, dirty>>
    BY <1>1, <1>3, <2>2, TreeStays, Quiet
  <2> QED BY <2>1, <2>2 DEF MoveRef, Return, Failed, tree, refs
<1>7. FoundTyped' /\ RestTyped' /\ ServerTyped' /\ ConfigTyped' /\ ServerInv'
  BY <1>1, FoundStays, RestStays, ServerStays, ConfigStays DEF IInv, TypeOK, FaultOrNot, ServerInv
<1> QED BY <1>1, <1>4, <1>7, AtIdle DEF IInv, TypeOK

\* The default branch of the fork is set.
LEMMA ForkMoves ==
  ASSUME ServerTyped, ServerInv, NEW c \in Tips, c # {}, remote' = [remote EXCEPT !["fork"]["main"] = c], pr' = pr
  PROVE  /\ ServerTyped' /\ ServerInv' /\ remote'["fork"]["main"] = c
         /\ \A r \in Repos : remote'[r]["feat"] = remote[r]["feat"]
<1>1. "main" \in Branches /\ "feat" \in Branches /\ "base" \in Repos /\ "fork" \in Repos
  BY DEF Branches, Repos
<1>2. remote' \in [Repos -> [Branches -> Tips]]
  BY <1>1 DEF ServerTyped
<1>3. /\ remote'["fork"]["main"] = c /\ remote'["base"] = remote["base"]
      /\ \A r \in Repos : remote'[r]["feat"] = remote[r]["feat"]
  BY <1>1 DEF ServerTyped
<1> QED BY <1>2, <1>3 DEF ServerTyped, ServerInv

LEMMA ForkPreserves == IInv /\ (MergeUpstream \/ LatestCommit \/ UpdateFork) => IInv' /\ StepRight
<1> SUFFICES ASSUME IInv, MergeUpstream \/ LatestCommit \/ UpdateFork PROVE IInv' /\ StepRight
  OBVIOUS
<1>1. /\ UNCHANGED <<remotes, marked, has, useForce, cmds, seen, deleteBranch, dest, push, tries>>
      /\ UNCHANGED <<branch, head, detached, tracking, fetchHead, dirty>>
      /\ UNCHANGED <<pr, op, made, own, meddled, edited, moves, runs>> /\ FaultOrNot /\ pc \in ForkSteps
      /\ pc' \in ForkSteps \cup {"idle"} /\ (pc' # "idle" => res' = res) /\ res' \in {"none", "ok", "error"}
  <2>1. res \in {"none", "ok", "error"}
    BY DEF IInv, TypeOK, RestTyped
  <2>2. CASE MergeUpstream
    BY <2>1, <2>2, ServerFrame DEF MergeUpstream, Answered, Goto, Return, Failed, FaultOrNot, ForkSteps
  <2>3. CASE LatestCommit
    BY <2>1, <2>3, FoundFrame DEF LatestCommit, Goto, Return, Failed, FaultOrNot, ForkSteps
  <2>4. CASE UpdateFork
    BY <2>1, <2>4, ServerFrame DEF UpdateFork, Answered, Return, Failed, FaultOrNot, ForkSteps
  <2> QED BY <2>2, <2>3, <2>4
<1>2. /\ op.name = "sync_fork" /\ ServerTyped /\ ServerInv /\ wanted \in Tips
      /\ \A r \in Repos, b \in Branches : remote[r][b] \in Tips
  BY <1>1 DEF IInv, ForkInv, TypeOK, ServerTyped, FoundTyped
<1>3. "main" \in Branches /\ "feat" \in Branches /\ "base" \in Repos /\ "fork" \in Repos
  BY DEF Branches, Repos
<1>4. /\ ServerTyped' /\ ServerInv' /\ (op.force \/ remote["fork"]["main"] \subseteq remote'["fork"]["main"])
      /\ \A r \in Repos : remote'[r]["feat"] = remote[r]["feat"]
  <2>1. CASE UNCHANGED <<remote, pr>>
    BY <1>2, <2>1, ServerStays DEF ServerInv
  <2>2. ASSUME NEW c \in Tips, c # {}, remote' = [remote EXCEPT !["fork"]["main"] = c],
               op.force \/ remote["fork"]["main"] \subseteq c
        PROVE  /\ ServerTyped' /\ ServerInv' /\ (op.force \/ remote["fork"]["main"] \subseteq remote'["fork"]["main"])
               /\ \A r \in Repos : remote'[r]["feat"] = remote[r]["feat"]
    BY <1>1, <1>2, <2>2, ForkMoves
  <2>3. CASE MergeUpstream
    <3>1. \/ remote' = [remote EXCEPT !["fork"]["main"] = remote["fork"]["main"] \cup remote["base"]["main"]]
          \/ remote' = remote
      BY <1>2, <1>3, <2>3 DEF MergeUpstream, ServerTyped
    <3>2. remote["fork"]["main"] \cup remote["base"]["main"] \in Tips
      BY <1>2, <1>3, Commits
    <3>3. remote["fork"]["main"] \cup remote["base"]["main"] # {}
      BY <1>2 DEF ServerInv
    <3> QED BY <1>1, <2>1, <2>2, <3>1, <3>2, <3>3
  <2>4. CASE UpdateFork
    <3>1. pc = "sync_fork"
      BY <2>4 DEF UpdateFork
    <3>2. wanted # {}
      BY <3>1 DEF IInv, ForkInv
    <3>3. \/ Accepts(wanted) /\ remote' = [remote EXCEPT !["fork"]["main"] = wanted]
          \/ remote' = remote
      BY <2>4 DEF UpdateFork
    <3> QED BY <1>1, <1>2, <2>1, <2>2, <3>2, <3>3 DEF Accepts
  <2>5. CASE LatestCommit
    BY <1>1, <2>1, <2>5, FoundFrame DEF LatestCommit
  <2> QED BY <2>3, <2>4, <2>5
<1>5. wanted' \in Tips /\ (pc' = "sync_fork" => wanted' # {})
  <2>1. CASE LatestCommit
    <3>1. \/ wanted' = remote["base"]["main"]
          \/ wanted' = wanted /\ pc' = "idle"
      BY <2>1 DEF LatestCommit, Failed, Return, Goto
    <3> QED BY <1>2, <1>3, <3>1 DEF ServerInv
  <2>2. CASE MergeUpstream \/ UpdateFork
    <3>1. wanted' = wanted /\ pc' \in {"idle", "latest"}
      BY <2>2, ServerFrame DEF MergeUpstream, UpdateFork, Answered, Goto, Return, Failed
    <3> QED BY <1>2, <3>1
  <2> QED BY <2>1, <2>2
<1>6. TypeOK'
  <2>1. FoundTyped'
    BY <1>1, <1>5 DEF IInv, TypeOK, FoundTyped
  <2> QED BY <1>1, <1>4, <2>1, TreeStays, ConfigStays, RestStays DEF IInv, TypeOK, FaultOrNot
<1>7. PcInv' /\ ForkInv'
  BY <1>1, <1>2, <1>5 DEF IInv, PcInv, ForkInv, Steps, ForkSteps
<1>8. StepRight
  <2>1. KeepsCommits /\ KeepsEdits /\ DeletesMerged
    BY <1>1, <1>4 DEF KeepsCommits, KeepsEdits, DeletesMerged
  <2>2. Brings /\ Shows
    BY <1>2 DEF Brings, Shows, Succeeds
  <2> QED BY <2>1, <2>2 DEF StepRight
<1> QED BY <1>1, <1>4, <1>6, <1>7, <1>8, AtFork DEF IInv

LEMMA RepoSyncPreserves == IInv /\ RepoSyncNext => IInv' /\ StepRight
BY SyncBegins, SyncFetchPreserves, SyncLooksPreserves, MoveTreePreserves, MoveRefPreserves, ForkPreserves
   DEF RepoSyncNext

-----------------------------------------------------------------------------
\* pr merge.
LEMMA MergeBegins == IInv /\ PrMerge => IInv' /\ StepRight
<1> SUFFICES ASSUME IInv, PrMerge PROVE IInv' /\ StepRight
  OBVIOUS
<1>1. PICK d \in {"no", "flag", "prompt"}, a \in {"no", "enable", "disable"}, m \in BOOLEAN :
        Begin([NoOp EXCEPT !.name = "merge", !.delete = d, !.auto = a, !.admin = m], "find")
  BY DEF PrMerge
<1> DEFINE o == [NoOp EXCEPT !.name = "merge", !.delete = d, !.auto = a, !.admin = m]
<1>2. o \in Ops /\ o.name = "merge"
  BY DEF NoOp, Ops, Branches
<1> HIDE DEF o
<1>3. TypeOK' /\ PcInv' /\ ServerInv' /\ StepRight /\ pc' = "find" /\ op' = o
      /\ (deleteBranch' => o.delete = "flag")
  BY <1>1, <1>2, BeginRight DEF o, Steps, MergeSteps
<1>4. MergeInv'
  BY <1>2, <1>3 DEF MergeInv, Deleting
<1> QED BY <1>3, <1>4, AtMerge DEF IInv, MergeSteps

LEMMA MergeLooksPreserves ==
  IInv /\ (NewMergeContext \/ CheckMerge \/ Survey \/ AskAgain \/ LookWhere) => IInv' /\ StepRight
<1> SUFFICES ASSUME IInv, NewMergeContext \/ CheckMerge \/ Survey \/ AskAgain \/ LookWhere PROVE IInv' /\ StepRight
  OBVIOUS
<1>1. /\ UNCHANGED <<remote, pr, remotes, marked, useForce, wanted, cmds, dest, push, tries>>
      /\ UNCHANGED <<op, made, own, meddled, edited, moves, runs>> /\ FaultOrNot
      /\ UNCHANGED <<branch, head, detached, tracking, fetchHead, dirty>>
  <2>1. CASE NewMergeContext
    BY <2>1, FoundFrame DEF NewMergeContext, Failed, FaultOrNot
  <2>2. CASE CheckMerge
    BY <2>2, ServerFrame DEF CheckMerge, FaultOrNot, server
  <2>3. CASE Survey \/ AskAgain
    BY <2>3, FoundFrame DEF Survey, AskAgain, Ask, FaultOrNot
  <2>4. CASE LookWhere
    BY <2>4, TreeFrame DEF LookWhere, Failed, FaultOrNot, tree, refs
  <2> QED BY <2>1, <2>2, <2>3, <2>4
<1>2. has \in BOOLEAN /\ deleteBranch \in BOOLEAN /\ pr \in PR /\ seen \in PR /\ pc \in Steps
      /\ res \in {"none", "ok", "error"}
  BY DEF IInv, TypeOK, FoundTyped, ServerTyped, PcInv, RestTyped
<1>3. /\ pc \in MergeSteps /\ pc' \in MergeSteps \cup {"idle"} /\ (pc' # "idle" => res' = res)
      /\ res' \in {"none", "ok", "error"} /\ has' \in BOOLEAN /\ deleteBranch' \in BOOLEAN /\ seen' \in PR
      /\ pc' # "find"
  <2>1. CASE NewMergeContext
    BY <1>2, <2>1 DEF NewMergeContext, Goto, Return, Failed, MergeSteps
  <2>2. CASE CheckMerge
    BY <1>2, <2>2, ServerFrame DEF CheckMerge, Goto, Return, MergeSteps
  <2>3. CASE Survey \/ AskAgain
    BY <1>2, <2>3 DEF Survey, AskAgain, Ask, Goto, MergeSteps
  <2>4. CASE LookWhere
    BY <1>2, <2>4, TreeFrame DEF LookWhere, Goto, Return, Failed, MergeSteps
  <2> QED BY <2>1, <2>2, <2>3, <2>4
<1>4. MergeInv'
  <2>1. CASE NewMergeContext
    <3>1. /\ pc = "find" /\ deleteBranch' = deleteBranch
          /\ (pc' = "can_merge" /\ seen' = pr) \/ pc' = "idle"
      BY <2>1 DEF NewMergeContext, Goto, Return, Failed
    <3> QED BY <1>1, <1>3, <3>1 DEF IInv, MergeInv, Merged, ShouldAddToMergeQueue, MergeSteps, Deleting
  <2>2. CASE CheckMerge
    <3>1. pc = "can_merge" /\ UNCHANGED <<has, deleteBranch, seen>>
      BY <2>2, ServerFrame DEF CheckMerge
    <3>2. pc' \in {"idle", "disable", "ask", "merge", "survey"}
      BY <2>2 DEF CheckMerge, Goto, Return
    <3>3. pc' = "ask" => Merged
      BY <2>2 DEF CheckMerge, Goto, Return
    <3>4. pc' = "merge" => CanMerge /\ ShouldAddToMergeQueue
      BY <2>2 DEF CheckMerge, Goto, Return
    <3>5. pc' = "survey" => ~ShouldAddToMergeQueue
      BY <2>2 DEF CheckMerge, Goto, Return
    <3> QED BY <1>1, <1>3, <3>1, <3>2, <3>3, <3>4, <3>5
        DEF IInv, MergeInv, Merged, ShouldAddToMergeQueue, CanMerge, MergeSteps, Deleting
  <2>3. CASE Survey
    <3>1. pc = "survey" /\ pc' = "merge" /\ seen' = seen
      BY <2>3 DEF Survey, Ask, Goto
    <3> QED BY <1>1, <1>3, <3>1 DEF IInv, MergeInv, Merged, ShouldAddToMergeQueue, MergeSteps, Deleting
  <2>4. CASE AskAgain
    <3>1. pc = "ask" /\ pc' = "local" /\ seen' = seen
      BY <2>4 DEF AskAgain, Ask, Goto
    <3> QED BY <1>1, <1>3, <3>1 DEF IInv, MergeInv, Merged, ShouldAddToMergeQueue, MergeSteps, Deleting
  <2>5. CASE LookWhere
    <3>1. pc = "local" /\ UNCHANGED <<has, deleteBranch, seen>>
      BY <2>5, TreeFrame DEF LookWhere
    <3>2. pc' \in {"remote", "leave", "delete", "idle"} /\ (pc' \in {"leave", "delete"} => deleteBranch)
      BY <2>5 DEF LookWhere, WantsLocalDeleted, Goto, Return, Failed
    <3> QED BY <1>1, <1>3, <3>1, <3>2 DEF IInv, MergeInv, Merged, ShouldAddToMergeQueue, MergeSteps, Deleting
  <2> QED BY <2>1, <2>2, <2>3, <2>4, <2>5
<1>5. TypeOK'
  <2>1. FoundTyped'
    BY <1>1, <1>3 DEF IInv, TypeOK, FoundTyped
  <2> QED BY <1>1, <1>3, <2>1, ServerStays, TreeStays, ConfigStays, RestStays DEF IInv, TypeOK, FaultOrNot
<1>6. PcInv' /\ ServerInv'
  BY <1>1, <1>3 DEF IInv, PcInv, ServerInv, Steps, MergeSteps
<1>7. StepRight
  <2>1. op.name = "merge"
    BY <1>3 DEF IInv, MergeInv
  <2> QED BY <1>1, <2>1, Quiet
<1> QED BY <1>3, <1>4, <1>5, <1>6, <1>7, AtMerge DEF IInv

\* The steps that change the pull request or a branch at the server.
LEMMA MergeRequestsPreserves == IInv /\ (DisableAutoMerge \/ MergePullRequest \/ DeleteRemote) => IInv' /\ StepRight
<1> SUFFICES ASSUME IInv, DisableAutoMerge \/ MergePullRequest \/ DeleteRemote PROVE IInv' /\ StepRight
  OBVIOUS
<1>1. /\ UNCHANGED <<branch, head, detached, tracking, fetchHead, dirty, remotes, marked>>
      /\ UNCHANGED <<has, useForce, wanted, cmds, seen, deleteBranch, dest, push, tries>>
      /\ UNCHANGED <<op, made, own, meddled, edited, moves, runs>>
  BY ServerFrame DEF DisableAutoMerge, MergePullRequest, DeleteRemote
<1>2. /\ FaultOrNot /\ pc \in {"disable", "merge", "remote"} /\ pc' \in {"local", "idle"}
      /\ (pc' = "local" => pc = "merge" /\ res' = res) /\ res' \in {"none", "ok", "error"}
  <2>1. res \in {"none", "ok", "error"}
    BY DEF IInv, TypeOK, RestTyped
  <2>2. CASE DisableAutoMerge
    BY <2>1, <2>2 DEF DisableAutoMerge, Answered, Return, Failed, FaultOrNot
  <2>3. CASE MergePullRequest
    BY <2>1, <2>3 DEF MergePullRequest, NextAfterMerge, Goto, Return, Failed, FaultOrNot
  <2>4. CASE DeleteRemote
    BY <2>1, <2>4 DEF DeleteRemote, Answered, Return, Failed, FaultOrNot
  <2> QED BY <2>2, <2>3, <2>4
<1>3. /\ op.name = "merge" /\ ServerTyped /\ ServerInv /\ pr \in PR
      /\ (Merged => pr.state = "merged")
      /\ (pc = "merge" /\ ShouldAddToMergeQueue => ~deleteBranch)
      /\ (pc = "remote" /\ deleteBranch => pr.state = "merged")
  BY <1>2 DEF IInv, TypeOK, ServerTyped, MergeInv, MergeSteps
<1>4. "main" \in Branches /\ "feat" \in Branches /\ "base" \in Repos /\ "fork" \in Repos /\ {} \in Tips
  BY Commits DEF Branches, Repos
<1>5. /\ ServerTyped' /\ ServerInv' /\ (pr.state = "merged" => pr'.state = "merged")
      /\ remote["fork"]["main"] \subseteq remote'["fork"]["main"]
      /\ (pc = "remote" /\ deleteBranch) \/ \A r \in Repos : remote'[r]["feat"] = remote[r]["feat"]
      /\ (pc' = "local" /\ deleteBranch => pr'.state = "merged")
  <2>1. CASE DisableAutoMerge
    <3>1. remote' = remote /\ (pr' = [pr EXCEPT !.auto = FALSE] \/ pr' = pr) /\ pc = "disable"
      BY <2>1 DEF DisableAutoMerge
    <3>2. pr' \in PR /\ pr'.state = pr.state /\ pr'.head = pr.head
      BY <1>3, <3>1, RequestArmed
    <3> QED BY <1>2, <1>3, <3>1, <3>2 DEF ServerTyped, ServerInv
  <2>2. CASE MergePullRequest
    <3>1. pc = "merge"
      BY <2>2 DEF MergePullRequest
    <3>2. CASE UNCHANGED <<remote, pr>> /\ pc' = "idle"
      BY <1>3, <3>1, <3>2 DEF ServerTyped, ServerInv
    <3>3. CASE Arms /\ pr' = [pr EXCEPT !.auto = ~pr.queue, !.queued = pr.queue] /\ remote' = remote /\ (NextAfterMerge \/ pc' = "idle")
      <4>1. pr.queue \in BOOLEAN /\ (~pr.queue) \in BOOLEAN
        BY <1>3 DEF PR
      <4>2. pr' \in PR /\ pr'.state = pr.state /\ pr'.head = pr.head
        BY <1>3, <3>3, <4>1, RequestArmed
      <4>3. pc' = "local" => ~deleteBranch
        BY <1>3, <3>1, <3>3 DEF Arms, NextAfterMerge, Return
      <4> QED BY <1>3, <3>1, <3>3, <4>2, <4>3 DEF ServerTyped, ServerInv
    <3>4. CASE Merge /\ pr.state = "open"
      BY <1>3, <1>4, <3>1, <3>4, MergeRight
    <3> QED BY <2>2, <3>2, <3>3, <3>4 DEF MergePullRequest, ServerDoes, ServerAccepts, Failed, Return, server
  <2>3. CASE DeleteRemote
    <3>1. pc = "remote"
      BY <2>3 DEF DeleteRemote
    <3>2. CASE UNCHANGED <<remote, pr>>
      BY <1>2, <1>3, <3>1, <3>2 DEF ServerTyped, ServerInv
    <3>3. CASE WantsRemoteDeleted /\ Update("base", "feat", {})
      <4>1. /\ ServerTyped' /\ ServerInv' /\ pr'.state = pr.state
            /\ \A q \in Repos, d \in Branches : remote'[q][d] = IF q = "base" /\ d = "feat" THEN {} ELSE remote[q][d]
        BY <1>3, <1>4, <3>3, UpdateRight
      <4> QED BY <1>2, <1>4, <3>1, <3>3, <4>1 DEF WantsRemoteDeleted
    <3> QED BY <2>3, <3>2, <3>3 DEF DeleteRemote, server
  <2> QED BY <2>1, <2>2, <2>3
<1>6. MergeInv'
  BY <1>1, <1>2, <1>3, <1>5 DEF IInv, MergeInv, Merged, ShouldAddToMergeQueue, MergeSteps, Deleting
<1>7. TypeOK' /\ PcInv'
  <2>1. PcInv'
    BY <1>2 DEF IInv, PcInv, Steps, MergeSteps
  <2> QED BY <1>1, <1>2, <1>5, <2>1, TreeStays, ConfigStays, FoundStays, RestStays DEF IInv, TypeOK, FaultOrNot
<1>8. StepRight
  <2>1. KeepsCommits /\ KeepsEdits
    BY <1>1, <1>5 DEF KeepsCommits, KeepsEdits
  <2>2. DeletesMerged
    BY <1>1, <1>3, <1>5 DEF DeletesMerged
  <2>3. Brings /\ Shows
    BY <1>3 DEF Brings, Shows, Succeeds
  <2> QED BY <2>1, <2>2, <2>3 DEF StepRight
<1> QED BY <1>2, <1>5, <1>6, <1>7, <1>8, AtMerge DEF IInv, MergeSteps

\* Catching up, which moves the branch that is checked out forwards.
LEMMA PullRight ==
  ASSUME TypeOK, Pull
  PROVE  /\ TreeTyped' /\ dirty' = dirty
         /\ \A b \in Branches : branch[b] \subseteq branch'[b]
<1>1. TreeTyped /\ remote["base"]["main"] \in Tips /\ (\A b \in Branches : b = head => Tip = branch[b])
  BY TipTyped DEF TypeOK, ServerTyped, Repos, Branches
<1> DEFINE c == remote["base"]["main"]
<1>2. \/ /\ tracking' = [tracking EXCEPT !["base"]["main"] = c] /\ fetchHead' = c /\ dirty' = dirty
         /\ (Tip \subseteq c /\ SetTip(c)) \/ UNCHANGED <<branch, head, detached>>
      \/ UNCHANGED <<branch, head, detached, tracking, fetchHead, dirty>>
  BY DEF Pull, tree, refs
<1>3. CASE UNCHANGED <<branch, head, detached, tracking, fetchHead, dirty>>
  BY <1>1, <1>3, TreeStays
<1>4. CASE /\ tracking' = [tracking EXCEPT !["base"]["main"] = c] /\ fetchHead' = c /\ dirty' = dirty
           /\ (Tip \subseteq c /\ SetTip(c)) \/ UNCHANGED <<branch, head, detached>>
  <2> HIDE DEF c
  <2>0. c \in Tips
    BY <1>1 DEF c
  <2>1. tracking' \in [Repos -> [Branches -> Tips]]
    BY <1>1, <1>4, <2>0 DEF TreeTyped, Repos, Branches
  <2>2. /\ branch' \in [Branches -> Tips] /\ detached' \in Tips /\ head' = head
        /\ \A b \in Branches : branch[b] \subseteq branch'[b]
    <3>1. CASE UNCHANGED <<branch, head, detached>>
      BY <1>1, <3>1 DEF TreeTyped
    <3>2. CASE Tip \subseteq c /\ SetTip(c)
      <4>1. /\ branch' \in [Branches -> Tips] /\ detached' \in Tips /\ head' = head
            /\ \A b \in Branches : branch'[b] = IF b = head THEN c ELSE branch[b]
        BY <1>1, <2>0, <3>2, TipMoves
      <4> QED BY <1>1, <3>2, <4>1
    <3> QED BY <1>4, <3>1, <3>2
  <2> QED BY <1>1, <1>4, <2>0, <2>1, <2>2 DEF TreeTyped
<1> QED BY <1>2, <1>3, <1>4

\* The steps that leave the branch and delete it.
LEMMA LeavingPreserves == IInv /\ (Leave \/ Pull \/ DeleteLocal) => IInv' /\ StepRight
<1> SUFFICES ASSUME IInv, Leave \/ Pull \/ DeleteLocal PROVE IInv' /\ StepRight
  OBVIOUS
<1>1. /\ UNCHANGED <<remote, pr, remotes, marked>>
      /\ UNCHANGED <<has, useForce, wanted, cmds, seen, deleteBranch, dest, push, tries>>
      /\ UNCHANGED <<op, made, own, meddled, edited, moves, runs>>
  BY TreeFrame DEF Leave, Pull, DeleteLocal
<1>2. /\ FaultOrNot /\ pc \in Deleting /\ pc' \in {"pull", "delete", "remote", "idle"}
      /\ (pc' # "idle" => res' = res) /\ res' \in {"none", "ok", "error"}
  <2>1. res \in {"none", "ok", "error"}
    BY DEF IInv, TypeOK, RestTyped
  <2>2. CASE Leave
    BY <2>1, <2>2 DEF Leave, Goto, Return, Failed, FaultOrNot, Deleting
  <2>3. CASE Pull
    BY <2>1, <2>3 DEF Pull, Goto, FaultOrNot, Deleting
  <2>4. CASE DeleteLocal
    BY <2>1, <2>4 DEF DeleteLocal, Goto, Return, Failed, FaultOrNot, Deleting
  <2> QED BY <2>2, <2>3, <2>4
<1>3. op.name = "merge" /\ pr.state = "merged" /\ deleteBranch /\ TreeTyped
  BY <1>2 DEF IInv, MergeInv, MergeSteps, Deleting, TypeOK
<1>4. /\ TreeTyped' /\ dirty' = dirty
      /\ \A b \in Branches : branch[b] \subseteq branch'[b] \/ b = "feat"
  <2>1. CASE Leave
    <3>1. CASE CheckoutBranch("main")
      BY <1>3, <3>1 DEF CheckoutBranch, TreeTyped, Branches
    <3>2. CASE CheckoutNewBranch("base", "main")
      <4>1. tracking["base"]["main"] \in Tips
        BY <1>3 DEF TreeTyped, Repos, Branches
      <4> QED BY <1>3, <3>2, <4>1 DEF CheckoutNewBranch, TreeTyped, Branches
    <3>3. CASE UNCHANGED <<branch, head, detached, tracking, fetchHead, dirty>>
      BY <1>3, <3>3, TreeStays
    <3> QED BY <2>1, <3>1, <3>2, <3>3 DEF Leave, tree, refs
  <2>2. CASE Pull
    BY <2>2, PullRight DEF IInv
  <2>3. CASE DeleteLocal
    <3>1. CASE DeleteLocalBranch("feat")
      BY <1>3, <3>1, Commits DEF DeleteLocalBranch, TreeTyped, Branches
    <3>2. CASE UNCHANGED <<branch, head, detached, tracking, fetchHead, dirty>>
      BY <1>3, <3>2, TreeStays
    <3> QED BY <2>3, <3>1, <3>2 DEF DeleteLocal, tree, refs
  <2> QED BY <2>1, <2>2, <2>3
<1>5. MergeInv'
  BY <1>1, <1>2, <1>3 DEF IInv, MergeInv, Merged, ShouldAddToMergeQueue, MergeSteps, Deleting
<1>6. TypeOK' /\ PcInv' /\ ServerInv'
  <2>1. PcInv' /\ ServerInv'
    BY <1>1, <1>2 DEF IInv, PcInv, ServerInv, Steps, MergeSteps, Deleting
  <2> QED BY <1>1, <1>2, <1>4, <2>1, ServerStays, ConfigStays, FoundStays, RestStays DEF IInv, TypeOK, FaultOrNot
<1>7. StepRight
  <2>1. KeepsCommits /\ KeepsEdits
    BY <1>1, <1>3, <1>4 DEF KeepsCommits, KeepsEdits
  <2>2. DeletesMerged /\ Brings /\ Shows
    BY <1>3 DEF DeletesMerged, Brings, Shows, Succeeds
  <2> QED BY <2>1, <2>2 DEF StepRight
<1> QED BY <1>2, <1>5, <1>6, <1>7, AtMerge DEF IInv, MergeSteps

LEMMA PrMergePreserves == IInv /\ PrMergeNext => IInv' /\ StepRight
BY MergeBegins, MergeLooksPreserves, MergeRequestsPreserves, LeavingPreserves DEF PrMergeNext

-----------------------------------------------------------------------------
\* pr checkout.
LEMMA CheckoutBegins == IInv /\ Checkout => IInv' /\ StepRight
<1> SUFFICES ASSUME IInv, Checkout PROVE IInv' /\ StepRight
  OBVIOUS
<1>1. PICK f \in BOOLEAN, d \in BOOLEAN :
        Begin([NoOp EXCEPT !.name = "checkout", !.branch = "feat", !.force = f, !.detach = d], "resolve")
  BY DEF Checkout
<1> DEFINE o == [NoOp EXCEPT !.name = "checkout", !.branch = "feat", !.force = f, !.detach = d]
<1>2. o \in Ops /\ o.name = "checkout" /\ o.branch = "feat"
  BY DEF NoOp, Ops, Branches
<1> HIDE DEF o
<1>3. TypeOK' /\ PcInv' /\ ServerInv' /\ StepRight /\ pc' = "resolve" /\ op' = o
  BY <1>1, <1>2, BeginRight DEF o, Steps, CheckoutSteps
<1>4. CheckoutInv'
  BY <1>2, <1>3 DEF CheckoutInv
<1> QED BY <1>3, <1>4, AtCheckout DEF IInv, CheckoutSteps

LEMMA ResolvePreserves == IInv /\ Resolve => IInv' /\ StepRight
<1> SUFFICES ASSUME IInv, Resolve PROVE IInv' /\ StepRight
  OBVIOUS
<1>1. /\ UNCHANGED <<remote, pr, branch, head, detached, tracking, fetchHead, dirty, remotes, marked>>
      /\ UNCHANGED <<op, made, own, meddled, edited, moves, runs>>
      /\ UNCHANGED <<has, useForce, wanted, deleteBranch, dest, push, tries>> /\ pc = "resolve"
  BY FoundFrame DEF Resolve
<1>2. /\ FaultOrNot
      /\ \/ /\ pr.state # "none" /\ seen' = pr /\ pc' = "run" /\ res' = res
            /\ cmds' = IF HasRemote(pr.repo) THEN CmdsForExistingRemote ELSE CmdsForMissingRemote
         \/ pc' = "idle" /\ res' = "error" /\ seen' = seen
  BY DEF Resolve, Goto, Return, Failed, FaultOrNot
<1>3. op.name = "checkout" /\ op.branch = "feat" /\ pr \in PR /\ seen \in PR /\ res \in {"none", "ok", "error"}
  BY <1>1 DEF IInv, CheckoutInv, CheckoutSteps, TypeOK, ServerTyped, FoundTyped, RestTyped
<1>4. CheckoutInv'
  <2>1. ASSUME pc' = "run" PROVE RunInv'
    <3>1. seen' = pr /\ cmds' = IF HasRemote(pr.repo) THEN CmdsForExistingRemote ELSE CmdsForMissingRemote
      BY <1>2, <2>1
    <3>2. HasRemote(seen.repo)' <=> HasRemote(pr.repo)
      BY <1>1, <3>1 DEF HasRemote
    <3>3. List' = List /\ Strict("ff")' = Strict("ff")
      BY <1>1 DEF List, Strict
    <3>4. CASE op.detach
      <4>1. cmds' \in {<<"fetch", "detach">>, <<"fetch_pull", "detach">>}
        BY <3>1, <3>4 DEF CmdsForExistingRemote, CmdsForMissingRemote
      <4> QED BY <1>1, <3>4, <4>1 DEF RunInv
    <3>5. CASE ~op.detach /\ HasRemote(pr.repo) /\ branch["feat"] # {}
      <4>1. cmds' = List
        BY <3>1, <3>5 DEF CmdsForExistingRemote, List
      <4> QED BY <1>1, <3>2, <3>3, <3>5, <4>1 DEF RunInv
    <3>6. CASE ~op.detach /\ HasRemote(pr.repo) /\ branch["feat"] = {}
      <4>1. cmds' = <<"fetch", "checkout_new">>
        BY <3>1, <3>6 DEF CmdsForExistingRemote
      <4> QED BY <1>1, <3>6, <4>1 DEF RunInv
    <3>7. CASE ~op.detach /\ ~HasRemote(pr.repo) /\ head = "feat"
      <4>1. cmds' = <<"fetch_pull", Strict("ff")>>
        BY <3>1, <3>7 DEF CmdsForMissingRemote
      <4> QED BY <1>1, <3>2, <3>3, <3>7, <4>1 DEF RunInv
    <3>8. CASE ~op.detach /\ ~HasRemote(pr.repo) /\ head # "feat"
      <4>1. cmds' = <<"fetch_into", "checkout">>
        BY <3>1, <3>8 DEF CmdsForMissingRemote
      <4> QED BY <1>1, <3>8, <4>1 DEF RunInv
    <3> QED BY <3>4, <3>5, <3>6, <3>7, <3>8
  <2> QED BY <1>1, <1>2, <1>3, <2>1 DEF CheckoutInv
<1>5. TypeOK'
  <2>1. FoundTyped'
    BY <1>1, <1>2, <1>3 DEF IInv, TypeOK, FoundTyped
  <2> QED BY <1>1, <1>2, <1>3, <2>1, ServerStays, TreeStays, ConfigStays, RestStays DEF IInv, TypeOK, FaultOrNot
<1>6. PcInv' /\ ServerInv' /\ pc' \in CheckoutSteps \cup {"idle"}
  BY <1>1, <1>2 DEF IInv, PcInv, ServerInv, Steps, CheckoutSteps
<1>7. StepRight
  BY <1>1, <1>2, Quiet DEF IInv, PcInv
<1> QED BY <1>4, <1>5, <1>6, <1>7, AtCheckout DEF IInv

\* What the commands of a list do, one by one.
LEMMA EffectTyped ==
  ASSUME TypeOK, NEW cmd, Effect(cmd)
  PROVE  TreeTyped' /\ wanted' \in Tips
<1>1. /\ TreeTyped /\ seen.repo \in Repos /\ pr.head \in Tips /\ wanted \in Tips /\ fetchHead \in Tips
      /\ \A r \in Repos, b \in Branches : remote[r][b] \in Tips /\ tracking[r][b] \in Tips
      /\ "feat" \in Branches /\ Tip \in Tips
  BY TipTyped DEF TypeOK, TreeTyped, FoundTyped, ServerTyped, PR, Branches
<1>2. Source \in Tips
  BY <1>1 DEF Source
<1>3. CASE Fetch(seen.repo, "feat") /\ wanted' = fetchHead'
  BY <1>1, <1>3 DEF Fetch, TreeTyped, refs
<1>4. CASE FetchTo(pr.head)
  BY <1>1, <1>4 DEF FetchTo, TreeTyped, refs
<1>5. CASE /\ wanted' = pr.head /\ fetchHead' = pr.head /\ branch' = [branch EXCEPT !["feat"] = pr.head]
           /\ UNCHANGED <<head, detached, tracking, dirty>>
  BY <1>1, <1>5 DEF TreeTyped
<1>6. CASE CheckoutDetached(fetchHead) /\ wanted' = wanted
  BY <1>1, <1>6 DEF CheckoutDetached, TreeTyped
<1>7. CASE CheckoutBranch("feat") /\ wanted' = wanted
  BY <1>1, <1>7 DEF CheckoutBranch, TreeTyped
<1>8. CASE CheckoutNewBranch(seen.repo, "feat") /\ wanted' = wanted
  BY <1>1, <1>8 DEF CheckoutNewBranch, TreeTyped
<1>9. CASE ResetHard(Source) /\ wanted' = wanted
  <2>1. SetTip(Source) /\ dirty' = FALSE /\ UNCHANGED <<tracking, fetchHead>>
    BY <1>9 DEF ResetHard
  <2>2. branch' \in [Branches -> Tips] /\ detached' \in Tips /\ head' = head
    BY <1>1, <1>2, <2>1, TipMoves
  <2> QED BY <1>1, <1>9, <2>1, <2>2 DEF TreeTyped
<1>10. CASE MergeFastForward(Source) /\ wanted' = wanted
  <2>1. SetTip(Tip \cup Source) /\ UNCHANGED <<tracking, fetchHead, dirty>>
    BY <1>10 DEF MergeFastForward
  <2>2. branch' \in [Branches -> Tips] /\ detached' \in Tips /\ head' = head
    BY <1>1, <1>2, <2>1, TipMoves, Commits
  <2> QED BY <1>1, <1>10, <2>1, <2>2 DEF TreeTyped
<1> QED BY <1>3, <1>4, <1>5, <1>6, <1>7, <1>8, <1>9, <1>10 DEF Effect

LEMMA EffectKeeps ==
  ASSUME IInv, NEW cmd, Effect(cmd), UNCHANGED <<remote, op, moves>>,
         op.name = "checkout", op.branch = "feat", pr.state # "none",
         cmd = "reset" => op.force /\ (~meddled => head = "feat")
  PROVE  KeepsCommits /\ KeepsEdits /\ DeletesMerged
<1>1. /\ TreeTyped /\ seen.repo \in Repos /\ pr.head \in Tips /\ pr.head # {}
      /\ \A r \in Repos, b \in Branches : tracking[r][b] \in Tips
      /\ "feat" \in Branches /\ (\A b \in Branches : b = head => Tip = branch[b]) /\ Tip \in Tips
  BY TipTyped DEF IInv, TypeOK, TreeTyped, FoundTyped, ServerTyped, ServerInv, PR, Branches
<1>2. Source \in Tips
  <2>1. fetchHead \in Tips
    BY <1>1 DEF TreeTyped
  <2> QED BY <1>1, <2>1 DEF Source
<1>3. ASSUME dirty' = dirty, \A b \in Branches : branch[b] \subseteq branch'[b]
      PROVE  KeepsCommits /\ KeepsEdits /\ DeletesMerged
  <2>1. KeepsCommits /\ KeepsEdits
    BY <1>3 DEF KeepsCommits, KeepsEdits
  <2>2. branch["feat"] # {} => branch'["feat"] # {}
    BY <1>1, <1>3
  <2>3. DeletesMerged
    BY <2>2 DEF DeletesMerged
  <2> QED BY <2>1, <2>3
<1>4. CASE cmd = "fetch" \/ cmd = "fetch_pull" \/ cmd = "detach" \/ cmd = "checkout"
  <2>1. UNCHANGED <<branch, dirty>>
    BY <1>4 DEF Effect, Fetch, FetchTo, CheckoutDetached, CheckoutBranch, refs
  <2> QED BY <1>3, <2>1
<1>5. CASE cmd = "checkout_new"
  <2>1. branch["feat"] = {} /\ branch' = [branch EXCEPT !["feat"] = tracking[seen.repo]["feat"]] /\ dirty' = dirty
    BY <1>5 DEF Effect, CheckoutNewBranch
  <2>2. \A b \in Branches : branch[b] \subseteq branch'[b]
    BY <1>1, <2>1 DEF TreeTyped
  <2> QED BY <1>3, <2>1, <2>2
<1>6. CASE cmd = "ff"
  <2>1. SetTip(Tip \cup Source) /\ dirty' = dirty
    BY <1>6 DEF Effect, MergeFastForward
  <2>2. Tip \cup Source \in Tips
    BY <1>1, <1>2, Commits
  <2>3. \A b \in Branches : branch'[b] = IF b = head THEN Tip \cup Source ELSE branch[b]
    BY <1>1, <2>1, <2>2, TipMoves
  <2>4. \A b \in Branches : branch[b] \subseteq branch'[b]
    BY <1>1, <2>3
  <2> QED BY <1>3, <2>1, <2>4
<1>7. CASE cmd = "fetch_into"
  <2>1. /\ MayFetchInto(pr.head) /\ branch' = [branch EXCEPT !["feat"] = pr.head] /\ dirty' = dirty
    BY <1>7 DEF Effect
  <2>2. \A b \in Branches : branch'[b] = IF b = "feat" THEN pr.head ELSE branch[b]
    BY <1>1, <2>1 DEF TreeTyped
  <2>3. op.force \/ branch["feat"] \subseteq pr.head
    BY <2>1 DEF MayFetchInto
  <2>4. branch'["feat"] # {}
    BY <1>1, <2>2
  <2>5. KeepsCommits
    BY <2>2, <2>3 DEF KeepsCommits
  <2>6. KeepsEdits /\ DeletesMerged
    BY <2>1, <2>4 DEF KeepsEdits, DeletesMerged
  <2> QED BY <2>5, <2>6
<1>8. CASE cmd = "reset"
  <2>1. SetTip(Source) /\ Source # {}
    BY <1>8 DEF Effect, ResetHard
  <2>2. \A b \in Branches : branch'[b] = IF b = head THEN Source ELSE branch[b]
    BY <1>1, <1>2, <2>1, TipMoves
  <2>3. KeepsCommits
    BY <1>8, <2>2 DEF KeepsCommits
  <2>4. branch["feat"] # {} => branch'["feat"] # {}
    BY <1>1, <2>1, <2>2
  <2>5. KeepsEdits /\ DeletesMerged
    BY <1>8, <2>4 DEF KeepsEdits, DeletesMerged
  <2> QED BY <2>3, <2>5
<1> QED BY <1>4, <1>5, <1>6, <1>7, <1>8 DEF Effect

LEMMA Lists ==
  /\ \A a : Head(<<a>>) = a /\ Tail(<<a>>) = <<>>
  /\ \A a, b : Head(<<a, b>>) = a /\ Tail(<<a, b>>) = <<b>> /\ <<b>> # <<>>
  /\ \A a, b, c : Head(<<a, b, c>>) = a /\ Tail(<<a, b, c>>) = <<b, c>> /\ <<b, c>> # <<>>
OBVIOUS

\* The next command of the list, and what it leaves to do.
LEMMA RunProceeds ==
  ASSUME IInv, RunInv, Effect(Head(cmds)), cmds' = Tail(cmds),
         UNCHANGED <<remotes, marked, seen, op, meddled>>
  PROVE  /\ Head(cmds) = "reset" => op.force /\ (~meddled => head = "feat")
         /\ cmds' # <<>> => RunInv'
         /\ cmds' = <<>> /\ ~meddled =>
              /\ head' = IF op.detach THEN "detached" ELSE "feat"
              /\ IF op.force \/ op.detach THEN Tip' = wanted' ELSE wanted' \subseteq Tip'
<1>1. /\ TreeTyped /\ seen.repo \in Repos /\ "feat" \in Branches /\ (\A b \in Branches : b = head => Tip = branch[b])
      /\ Tip \in Tips /\ fetchHead \in Tips
      /\ \A r \in Repos, b \in Branches : remote[r][b] \in Tips /\ tracking[r][b] \in Tips
  BY TipTyped DEF IInv, TypeOK, TreeTyped, FoundTyped, ServerTyped, PR, Branches
<1>2. /\ Source \in Tips /\ (HasRemote(seen.repo)' <=> HasRemote(seen.repo))
      /\ Source' = IF HasRemote(seen.repo) THEN tracking'[seen.repo]["feat"] ELSE fetchHead'
      /\ List' = List /\ Strict("ff")' = Strict("ff") /\ Rest(1)' = Rest(1) /\ Rest(2)' = Rest(2)
  BY <1>1 DEF Source, HasRemote, List, Rest, Strict
<1>3. /\ Strict("ff") \in {"ff", "reset"} /\ (Strict("ff") = "reset" <=> op.force)
      /\ Rest(1) = <<"checkout", Strict("ff")>> /\ Rest(2) = <<Strict("ff")>>
  BY DEF Strict, Rest
<1>4. op.detach \in BOOLEAN /\ op.force \in BOOLEAN /\ meddled \in BOOLEAN
  BY DEF IInv, TypeOK, RestTyped, Ops
<1>5. CASE op.detach /\ cmds \in {<<"fetch", "detach">>, <<"fetch_pull", "detach">>}
  <2>1. Head(cmds) \in {"fetch", "fetch_pull"} /\ cmds' = <<"detach">>
    <3>1. CASE cmds = <<"fetch", "detach">>
      BY <3>1, Lists
    <3>2. CASE cmds = <<"fetch_pull", "detach">>
      BY <3>2, Lists
    <3> QED BY <1>5, <3>1, <3>2
  <2>2. fetchHead' = wanted'
    BY <2>1 DEF Effect, Fetch, FetchTo
  <2> QED BY <1>5, <2>1, <2>2, Lists DEF RunInv
<1>6. CASE op.detach /\ cmds = <<"detach">> /\ (~meddled => fetchHead = wanted)
  <2>1. Head(cmds) = "detach" /\ cmds' = <<>>
    BY <1>6, Lists
  <2>2. head' = "detached" /\ detached' = fetchHead /\ wanted' = wanted
    BY <2>1 DEF Effect, CheckoutDetached
  <2> QED BY <1>6, <2>1, <2>2 DEF Tip
<1>7. CASE ~op.detach /\ cmds = List /\ HasRemote(seen.repo)
  <2>1. Head(cmds) = "fetch" /\ cmds' = Rest(1) /\ cmds' # <<>>
    BY <1>3, <1>7, Lists DEF List
  <2>2. tracking'[seen.repo]["feat"] = wanted'
    BY <1>1, <2>1 DEF Effect, Fetch, TreeTyped
  <2> QED BY <1>2, <1>7, <2>1, <2>2 DEF RunInv
<1>8. CASE ~op.detach /\ cmds = Rest(1) /\ (~meddled => Source = wanted)
  <2>1. Head(cmds) = "checkout" /\ cmds' = Rest(2) /\ cmds' # <<>>
    BY <1>3, <1>8, Lists
  <2>2. head' = "feat" /\ UNCHANGED <<tracking, fetchHead, wanted>>
    BY <2>1 DEF Effect, CheckoutBranch
  <2>3. Source' = Source
    BY <1>2, <2>2 DEF Source
  <2> QED BY <1>2, <1>8, <2>1, <2>2, <2>3 DEF RunInv
<1>9. CASE ~op.detach /\ cmds = Rest(2) /\ (~meddled => Source = wanted /\ head = "feat")
  <2>1. Head(cmds) = Strict("ff") /\ cmds' = <<>>
    BY <1>3, <1>9, Lists
  <2>2. wanted' = wanted
    BY <1>3, <2>1 DEF Effect
  <2>3. CASE op.force
    <3>1. SetTip(Source)
      BY <1>3, <2>1, <2>3 DEF Effect, ResetHard
    <3>2. head' = head /\ Tip' = Source
      BY <1>1, <1>2, <3>1, TipMoves
    <3> QED BY <1>9, <2>1, <2>2, <2>3, <3>2
  <2>4. CASE ~op.force
    <3>1. SetTip(Tip \cup Source) /\ Head(cmds) # "reset"
      BY <1>3, <2>1, <2>4 DEF Effect, MergeFastForward
    <3>2. head' = head /\ Tip' = Tip \cup Source
      BY <1>1, <1>2, <3>1, TipMoves, Commits
    <3> QED BY <1>9, <2>1, <2>2, <2>4, <3>1, <3>2
  <2> QED BY <2>3, <2>4
<1>10. CASE ~op.detach /\ cmds = <<"fetch", "checkout_new">>
  <2>1. Head(cmds) = "fetch" /\ cmds' = <<"checkout_new">>
    BY <1>10, Lists
  <2>2. tracking'[seen.repo]["feat"] = wanted'
    BY <1>1, <2>1 DEF Effect, Fetch, TreeTyped
  <2> QED BY <1>10, <2>1, <2>2, Lists DEF RunInv
<1>11. CASE ~op.detach /\ cmds = <<"checkout_new">> /\ (~meddled => tracking[seen.repo]["feat"] = wanted)
  <2>1. Head(cmds) = "checkout_new" /\ cmds' = <<>>
    BY <1>11, Lists
  <2>2. head' = "feat" /\ branch' = [branch EXCEPT !["feat"] = tracking[seen.repo]["feat"]] /\ wanted' = wanted
    BY <2>1 DEF Effect, CheckoutNewBranch
  <2>3. Tip' = tracking[seen.repo]["feat"]
    BY <1>1, <2>2 DEF Tip, TreeTyped
  <2> QED BY <1>11, <2>1, <2>2, <2>3
<1>12. CASE ~op.detach /\ cmds = <<"fetch_pull", Strict("ff")>> /\ ~HasRemote(seen.repo) /\ (~meddled => head = "feat")
  <2>1. Head(cmds) = "fetch_pull" /\ cmds' = Rest(2) /\ cmds' # <<>>
    BY <1>3, <1>12, Lists
  <2>2. fetchHead' = wanted' /\ head' = head
    BY <2>1 DEF Effect, FetchTo, refs
  <2> QED BY <1>2, <1>12, <2>1, <2>2 DEF RunInv
<1>13. CASE ~op.detach /\ cmds = <<"fetch_into", "checkout">>
  <2>1. Head(cmds) = "fetch_into" /\ cmds' = <<"checkout">>
    BY <1>13, Lists
  <2>2. branch'["feat"] = wanted'
    BY <1>1, <2>1 DEF Effect, TreeTyped
  <2> QED BY <1>13, <2>1, <2>2, Lists DEF RunInv
<1>14. CASE ~op.detach /\ cmds = <<"checkout">> /\ (~meddled => branch["feat"] = wanted)
  <2>1. Head(cmds) = "checkout" /\ cmds' = <<>>
    BY <1>14, Lists
  <2>2. head' = "feat" /\ UNCHANGED <<branch, wanted>>
    BY <2>1 DEF Effect, CheckoutBranch
  <2> QED BY <1>14, <2>1, <2>2 DEF Tip
<1> QED BY <1>5, <1>6, <1>7, <1>8, <1>9, <1>10, <1>11, <1>12, <1>13, <1>14 DEF RunInv

LEMMA ExecuteCmdPreserves == IInv /\ ExecuteCmd => IInv' /\ StepRight
<1> SUFFICES ASSUME IInv, ExecuteCmd PROVE IInv' /\ StepRight
  OBVIOUS
<1>1. /\ UNCHANGED <<remote, pr, remotes, marked, has, useForce, seen, deleteBranch, dest, push, tries>>
      /\ UNCHANGED <<op, made, own, meddled, edited, moves, runs>> /\ pc = "run"
  BY DEF ExecuteCmd, Frame, server, config
<1>2. /\ FaultOrNot
      /\ \/ /\ Effect(Head(cmds)) /\ cmds' = Tail(cmds)
            /\ IF cmds' = <<>> THEN pc' = "idle" /\ res' = "ok" ELSE pc' = "run" /\ res' = res
         \/ /\ pc' = "idle" /\ res' = "error"
            /\ UNCHANGED <<branch, head, detached, tracking, fetchHead, dirty, wanted>>
  BY DEF ExecuteCmd, Goto, Return, Failed, FaultOrNot, tree, refs
<1>3. /\ op.name = "checkout" /\ op.branch = "feat" /\ pr.state # "none" /\ RunInv
      /\ res \in {"none", "ok", "error"} /\ res = "none" /\ TypeOK
  BY <1>1 DEF IInv, CheckoutInv, CheckoutSteps, TypeOK, RestTyped, PcInv
<1>4. /\ TreeTyped' /\ wanted' \in Tips /\ StepRight
      /\ pc' = "run" => RunInv'
  <2>1. CASE /\ pc' = "idle" /\ res' = "error"
             /\ UNCHANGED <<branch, head, detached, tracking, fetchHead, dirty, wanted>>
    <3>1. TreeTyped' /\ wanted' \in Tips
      BY <1>3, <2>1, TreeStays DEF TypeOK, FoundTyped
    <3> QED BY <1>1, <2>1, <3>1, Quiet
  <2>2. CASE /\ Effect(Head(cmds)) /\ cmds' = Tail(cmds)
             /\ IF cmds' = <<>> THEN pc' = "idle" /\ res' = "ok" ELSE pc' = "run" /\ res' = res
    <3>1. TreeTyped' /\ wanted' \in Tips
      BY <1>3, <2>2, EffectTyped
    <3>2. /\ Head(cmds) = "reset" => op.force /\ (~meddled => head = "feat")
          /\ cmds' # <<>> => RunInv'
          /\ cmds' = <<>> /\ ~meddled =>
              /\ head' = IF op.detach THEN "detached" ELSE "feat"
              /\ IF op.force \/ op.detach THEN Tip' = wanted' ELSE wanted' \subseteq Tip'
      BY <1>1, <1>3, <2>2, RunProceeds
    <3>3. KeepsCommits /\ KeepsEdits /\ DeletesMerged
      BY <1>1, <1>3, <2>2, <3>2, EffectKeeps
    <3>4. Brings /\ Shows
      BY <1>3, <2>2, <3>2 DEF Brings, Shows, Succeeds
    <3> QED BY <2>2, <3>1, <3>2, <3>3, <3>4 DEF StepRight
  <2> QED BY <1>2, <2>1, <2>2
<1>5. TypeOK'
  <2>1. FoundTyped'
    BY <1>1, <1>4 DEF IInv, TypeOK, FoundTyped
  <2>2. res' \in {"none", "ok", "error"}
    BY <1>2, <1>3
  <2> QED BY <1>1, <1>2, <1>4, <2>1, <2>2, ServerStays, ConfigStays, RestStays DEF IInv, TypeOK, FaultOrNot
<1>6. PcInv' /\ ServerInv' /\ pc' \in CheckoutSteps \cup {"idle"}
  BY <1>1, <1>2 DEF IInv, PcInv, ServerInv, Steps, CheckoutSteps
<1>7. CheckoutInv'
  BY <1>1, <1>3, <1>4 DEF CheckoutInv
<1> QED BY <1>4, <1>5, <1>6, <1>7, AtCheckout DEF IInv

LEMMA PrCheckoutPreserves == IInv /\ PrCheckoutNext => IInv' /\ StepRight
BY CheckoutBegins, ResolvePreserves, ExecuteCmdPreserves DEF PrCheckoutNext

-----------------------------------------------------------------------------
\* pr create.
LEMMA CreateBegins == IInv /\ Create => IInv' /\ StepRight
<1> SUFFICES ASSUME IInv, Create PROVE IInv' /\ StepRight
  OBVIOUS
<1> DEFINE o == [NoOp EXCEPT !.name = "create", !.branch = "feat"]
<1>1. Begin(o, "context")
  BY DEF Create
<1>2. o \in Ops /\ o.name = "create"
  BY DEF NoOp, Ops, Branches
<1> HIDE DEF o
<1>3. TypeOK' /\ PcInv' /\ ServerInv' /\ StepRight /\ pc' = "context" /\ op' = o
  BY <1>1, <1>2, BeginRight DEF Steps, CreateSteps
<1>4. CreateInv'
  BY <1>2, <1>3 DEF CreateInv
<1> QED BY <1>3, <1>4, AtCreate DEF IInv, CreateSteps

LEMMA CreateLooksPreserves == IInv /\ (NewCreateContext \/ FindExisting) => IInv' /\ StepRight
<1> SUFFICES ASSUME IInv, NewCreateContext \/ FindExisting PROVE IInv' /\ StepRight
  OBVIOUS
<1>1. /\ UNCHANGED <<remote, pr, branch, head, detached, tracking, fetchHead, dirty, remotes, marked>>
      /\ UNCHANGED <<op, made, own, meddled, edited, moves, runs>>
      /\ UNCHANGED <<has, useForce, wanted, cmds, seen, deleteBranch, tries>>
  BY FoundFrame, ServerFrame DEF NewCreateContext, FindExisting, server
<1>2. /\ FaultOrNot /\ pc \in {"context", "existing"} /\ pc' \in CreateSteps \cup {"idle"} /\ pc' # "context"
      /\ (pc' # "idle" => res' = res) /\ (pc' = "idle" => res' = "error")
  BY DEF NewCreateContext, FindExisting, Choose, Goto, Return, Failed, FaultOrNot, CreateSteps
<1>3. op.name = "create" /\ res \in {"none", "ok", "error"} /\ dest \in Repos /\ push \in {"skip", "asked_to_skip", "push", "fork"}
  BY <1>2 DEF IInv, CreateInv, CreateSteps, TypeOK, RestTyped, FoundTyped
<1>4. CreateInv' /\ dest' \in Repos /\ push' \in {"skip", "asked_to_skip", "push", "fork"}
  <2>1. CASE NewCreateContext /\ pc' = "idle"
    <3>1. dest' = dest /\ push' = push
      BY <2>1 DEF NewCreateContext, Choose, Goto
    <3> QED BY <1>3, <2>1, <3>1 DEF CreateInv, CreateSteps
  <2>2. CASE NewCreateContext /\ pc' # "idle"
    <3>1. /\ pc' = "existing" /\ head = "feat" /\ dest' \in Repos /\ push' \in {"skip", "asked_to_skip", "push", "fork"}
          /\ (push' = "skip" => tracking[dest']["feat"] = Tip)
          /\ (push' = "push" => remote[dest']["main"] # {})
          /\ (push' = "fork" => dest' = "fork")
      BY <2>2 DEF NewCreateContext, Choose, Pushed, Match, Goto, Return, Failed, Repos
    <3>2. Tip = branch["feat"]
      BY <3>1 DEF Tip
    <3> QED BY <1>1, <1>3, <3>1, <3>2 DEF CreateInv, CreateSteps
  <2>3. CASE FindExisting
    <3>1. pc = "existing" /\ dest' = dest /\ push' = push
      BY <2>3, ServerFrame DEF FindExisting
    <3>2. /\ pc' = "fork" => push = "fork"
          /\ pc' = "add_remote" => push = "push"
          /\ pc' = "submit" => push \in {"skip", "asked_to_skip"}
          /\ pc' \in {"idle", "fork", "add_remote", "submit"}
      BY <1>3, <2>3 DEF FindExisting, Goto, Return, Failed
    <3> QED BY <1>1, <1>3, <3>1, <3>2 DEF IInv, CreateInv, CreateSteps
  <2> QED BY <2>1, <2>2, <2>3
<1>5. TypeOK'
  <2>1. FoundTyped'
    BY <1>1, <1>4 DEF IInv, TypeOK, FoundTyped
  <2>2. res' \in {"none", "ok", "error"}
    BY <1>2, <1>3
  <2> QED BY <1>1, <1>2, <2>1, <2>2, ServerStays, TreeStays, ConfigStays, RestStays DEF IInv, TypeOK, FaultOrNot
<1>6. PcInv' /\ ServerInv'
  BY <1>1, <1>2 DEF IInv, PcInv, ServerInv, Steps, CreateSteps
<1>7. StepRight
  BY <1>1, <1>2, Quiet DEF IInv, PcInv
<1> QED BY <1>2, <1>4, <1>5, <1>6, <1>7, AtCreate DEF IInv

LEMMA ForkRepoPreserves == IInv /\ ForkRepo => IInv' /\ StepRight
<1> SUFFICES ASSUME IInv, ForkRepo PROVE IInv' /\ StepRight
  OBVIOUS
<1>1. /\ UNCHANGED <<branch, head, detached, tracking, fetchHead, dirty, remotes, marked, pr>>
      /\ UNCHANGED <<has, useForce, wanted, cmds, seen, deleteBranch, dest, push, tries>>
      /\ UNCHANGED <<op, made, own, meddled, edited, moves, runs>>
  BY ServerFrame DEF ForkRepo
<1>2. /\ FaultOrNot /\ pc = "fork" /\ pc' \in {"add_remote", "idle"}
      /\ (pc' # "idle" => res' = res) /\ (pc' = "idle" => res' = "error")
      /\ \/ remote' = IF remote["fork"]["main"] # {} THEN remote ELSE [remote EXCEPT !["fork"] = remote["base"]]
         \/ remote' = remote /\ pc' = "idle"
  BY DEF ForkRepo, Goto, Return, Failed, FaultOrNot
<1>3. /\ op.name = "create" /\ push = "fork" /\ dest = "fork" /\ ServerTyped /\ ServerInv
      /\ (~meddled => head = "feat") /\ res \in {"none", "ok", "error"}
  BY <1>2 DEF IInv, CreateInv, CreateSteps, TypeOK, RestTyped
<1>4. /\ ServerTyped' /\ ServerInv'
      /\ \A r \in Repos, b \in Branches : remote[r][b] \subseteq remote'[r][b]
      /\ pc' = "add_remote" => remote'["fork"]["main"] # {}
  <2>1. CASE remote' = remote /\ (remote["fork"]["main"] # {} \/ pc' = "idle")
    BY <1>1, <1>3, <2>1 DEF ServerTyped, ServerInv
  <2>2. CASE remote["fork"]["main"] = {} /\ remote' = [remote EXCEPT !["fork"] = remote["base"]]
    <3>1. remote' \in [Repos -> [Branches -> Tips]] /\ remote'["fork"] = remote["base"] /\ remote'["base"] = remote["base"]
      BY <1>3, <2>2 DEF ServerTyped, Repos
    <3>2. \A r \in Repos, b \in Branches : remote[r][b] \subseteq remote'[r][b]
      BY <1>3, <2>2, <3>1 DEF ServerInv, Repos, Branches
    <3> QED BY <1>1, <1>3, <3>1, <3>2 DEF ServerTyped, ServerInv
  <2> QED BY <1>2, <2>1, <2>2
<1>5. CreateInv'
  BY <1>1, <1>2, <1>3, <1>4 DEF CreateInv, CreateSteps
<1>6. TypeOK' /\ PcInv'
  <2>1. PcInv'
    BY <1>2 DEF IInv, PcInv, Steps, CreateSteps
  <2> QED BY <1>1, <1>2, <1>3, <1>4, <2>1, TreeStays, ConfigStays, FoundStays, RestStays DEF IInv, TypeOK, FaultOrNot
<1>7. StepRight
  <2>1. "main" \in Branches /\ "feat" \in Branches /\ "fork" \in Repos
    BY DEF Branches, Repos
  <2>2. KeepsCommits /\ KeepsEdits /\ DeletesMerged
    BY <1>1, <1>4, <2>1 DEF KeepsCommits, KeepsEdits, DeletesMerged
  <2>3. Brings /\ Shows
    BY <1>2, <1>3 DEF Brings, Shows, Succeeds, IInv, PcInv
  <2> QED BY <2>2, <2>3 DEF StepRight
<1> QED BY <1>2, <1>4, <1>5, <1>6, <1>7, AtCreate DEF IInv, CreateSteps

LEMMA RemotesPreserve == IInv /\ (AddRemote \/ AddRenamed \/ SetRemoteResolution) => IInv' /\ StepRight
<1> SUFFICES ASSUME IInv, AddRemote \/ AddRenamed \/ SetRemoteResolution PROVE IInv' /\ StepRight
  OBVIOUS
<1>1. /\ UNCHANGED <<remote, pr, branch, head, detached, fetchHead, dirty, tracking>>
      /\ UNCHANGED <<has, useForce, wanted, cmds, seen, deleteBranch, dest, push, tries>>
      /\ UNCHANGED <<op, made, own, meddled, edited, moves, runs>>
  BY DEF AddRemote, AddRenamed, SetRemoteResolution, OnlyConfig, Frame, server, refs
<1>2. /\ FaultOrNot /\ pc \in {"add_remote", "add_renamed", "mark"} /\ pc' \in {"add_renamed", "mark", "push", "idle"}
      /\ (pc' # "idle" => res' = res) /\ (pc' = "idle" => res' = "error")
  <2>1. CASE AddRemote
    BY <2>1 DEF AddRemote, Goto, Return, Failed, FaultOrNot
  <2>2. CASE AddRenamed
    BY <2>2 DEF AddRenamed, Goto, Return, Failed, FaultOrNot
  <2>3. CASE SetRemoteResolution
    BY <2>3 DEF SetRemoteResolution, Goto, Return, Failed, FaultOrNot
  <2> QED BY <2>1, <2>2, <2>3
<1>3. /\ op.name = "create" /\ dest \in Repos /\ remotes \in [Names -> Repos \cup {"none"}] /\ marked \in BOOLEAN
      /\ res \in {"none", "ok", "error"}
  BY <1>2 DEF IInv, CreateInv, CreateSteps, TypeOK, RestTyped, FoundTyped, ConfigTyped
<1>4. ConfigTyped'
  <2>1. CASE AddRemote
    <3>1. /\ marked' = marked
          /\ \/ remotes' = remotes
             \/ remotes' = [remotes EXCEPT !["upstream"] = "base", !["origin"] = "none"]
             \/ remotes' = [remotes EXCEPT ![RemoteName] = dest]
      BY <2>1 DEF AddRemote
    <3> QED BY <1>3, <3>1 DEF ConfigTyped, Repos
  <2>2. CASE AddRenamed
    <3>1. marked' = marked /\ (remotes' = remotes \/ remotes' = [remotes EXCEPT !["origin"] = dest])
      BY <2>2 DEF AddRenamed
    <3> QED BY <1>3, <3>1 DEF ConfigTyped
  <2>3. CASE SetRemoteResolution
    <3>1. remotes' = remotes /\ (marked' = TRUE \/ marked' = marked)
      BY <2>3 DEF SetRemoteResolution
    <3> QED BY <1>3, <3>1 DEF ConfigTyped
  <2> QED BY <2>1, <2>2, <2>3
<1>5. CreateInv'
  BY <1>1, <1>2 DEF IInv, CreateInv, CreateSteps
<1>6. TypeOK' /\ PcInv' /\ ServerInv'
  <2>1. PcInv' /\ ServerInv'
    BY <1>1, <1>2 DEF IInv, PcInv, ServerInv, Steps, CreateSteps
  <2> QED BY <1>1, <1>2, <1>3, <1>4, <2>1, ServerStays, TreeStays, FoundStays, RestStays DEF IInv, TypeOK, FaultOrNot
<1>7. StepRight
  BY <1>1, <1>2, Quiet DEF IInv, PcInv
<1> QED BY <1>2, <1>5, <1>6, <1>7, AtCreate DEF IInv, CreateSteps

LEMMA PushPreserves == IInv /\ PushBranch => IInv' /\ StepRight
<1> SUFFICES ASSUME IInv, PushBranch PROVE IInv' /\ StepRight
  OBVIOUS
<1>1. /\ UNCHANGED <<branch, head, detached, fetchHead, dirty, remotes, marked>>
      /\ UNCHANGED <<has, useForce, wanted, cmds, seen, deleteBranch, dest, push>>
      /\ UNCHANGED <<op, made, own, meddled, edited, moves, runs>> /\ pc = "push" /\ FaultOrNot
  BY DEF PushBranch, Frame, refs, config, FaultOrNot
<1>2. \/ /\ remote[dest]["feat"] \subseteq Tip /\ Update(dest, "feat", Tip)
         /\ tracking' = [tracking EXCEPT ![dest]["feat"] = Tip] /\ pc' = "submit" /\ res' = res /\ tries' = tries
      \/ /\ UNCHANGED <<remote, pr, tracking>>
         /\ \/ pc' = "push" /\ res' = res /\ tries + 1 < MaxTries /\ tries' = tries + 1
            \/ pc' = "idle" /\ res' = "error" /\ tries' = tries
  BY <1>1 DEF PushBranch, Retry, Goto, Return, server
<1>3. /\ op.name = "create" /\ (~meddled => head = "feat") /\ remote[dest]["main"] # {} /\ push \in {"push", "fork"}
      /\ ServerTyped /\ ServerInv /\ TreeTyped /\ FoundTyped /\ dest \in Repos /\ tries \in 0..MaxTries
      /\ res \in {"none", "ok", "error"} /\ "feat" \in Branches /\ Tip \in Tips
  BY <1>1, TipTyped DEF IInv, CreateInv, CreateSteps, TypeOK, RestTyped, FoundTyped, Branches
<1>4. CASE /\ remote[dest]["feat"] \subseteq Tip /\ Update(dest, "feat", Tip)
           /\ tracking' = [tracking EXCEPT ![dest]["feat"] = Tip] /\ pc' = "submit" /\ res' = res /\ tries' = tries
  <2>1. /\ ServerTyped' /\ ServerInv'
        /\ \A q \in Repos, d \in Branches : remote'[q][d] = IF q = dest /\ d = "feat" THEN Tip ELSE remote[q][d]
    BY <1>3, <1>4, UpdateRight
  <2>2. tracking' \in [Repos -> [Branches -> Tips]] /\ tracking'[dest]["feat"] = Tip
    BY <1>3, <1>4 DEF TreeTyped
  <2>3. TreeTyped'
    BY <1>1, <1>3, <2>2 DEF TreeTyped
  <2>4. FoundTyped'
    BY <1>1, <1>3, <1>4, FoundStays
  <2>5. TypeOK'
    BY <1>1, <1>3, <1>4, <2>1, <2>3, <2>4, ConfigStays, RestStays DEF IInv, TypeOK, FaultOrNot
  <2>6. CreateInv'
    <3>1. head = "feat" => Tip = branch["feat"]
      BY DEF Tip
    <3> QED BY <1>1, <1>3, <1>4, <2>2, <3>1 DEF CreateInv, CreateSteps
  <2>7. PcInv'
    BY <1>1, <1>4 DEF IInv, PcInv, Steps, CreateSteps
  <2>8. StepRight
    <3>1. "main" \in Branches /\ "fork" \in Repos
      BY DEF Branches, Repos
    <3>2. KeepsCommits /\ KeepsEdits
      BY <1>1, <2>1, <3>1 DEF KeepsCommits, KeepsEdits
    <3>3. DeletesMerged
      BY <1>1, <1>3, <1>4, <2>1 DEF DeletesMerged
    <3>4. Brings /\ Shows
      BY <1>1, <1>4 DEF Brings, Shows, Succeeds, IInv, PcInv
    <3> QED BY <3>2, <3>3, <3>4 DEF StepRight
  <2> QED BY <1>4, <2>1, <2>5, <2>6, <2>7, <2>8, AtCreate DEF IInv, CreateSteps
<1>5. CASE /\ UNCHANGED <<remote, pr, tracking>>
           /\ \/ pc' = "push" /\ res' = res /\ tries + 1 < MaxTries /\ tries' = tries + 1
              \/ pc' = "idle" /\ res' = "error" /\ tries' = tries
  <2>1. tries' \in 0..MaxTries
    BY <1>3, <1>5, Numbers
  <2>2. FoundTyped'
    BY <1>1, <1>3, <2>1 DEF FoundTyped
  <2>3. TypeOK'
    BY <1>1, <1>3, <1>5, <2>2, ServerStays, TreeStays, ConfigStays, RestStays DEF IInv, TypeOK, FaultOrNot
  <2>4. CreateInv'
    BY <1>1, <1>3, <1>5 DEF CreateInv, CreateSteps
  <2>5. PcInv' /\ ServerInv'
    BY <1>1, <1>5 DEF IInv, PcInv, ServerInv, Steps, CreateSteps
  <2>6. StepRight
    BY <1>1, <1>5, Quiet DEF IInv, PcInv
  <2> QED BY <1>5, <2>3, <2>4, <2>5, <2>6, AtCreate DEF IInv, CreateSteps
<1> QED BY <1>2, <1>4, <1>5

LEMMA CreatePullRequestPreserves == IInv /\ CreatePullRequest => IInv' /\ StepRight
<1> SUFFICES ASSUME IInv, CreatePullRequest PROVE IInv' /\ StepRight
  OBVIOUS
<1>1. /\ UNCHANGED <<branch, head, detached, tracking, fetchHead, dirty, remotes, marked, remote>>
      /\ UNCHANGED <<has, useForce, wanted, cmds, seen, deleteBranch, dest, push, tries>>
      /\ UNCHANGED <<op, made, own, meddled, edited, moves, runs>>
  BY ServerFrame DEF CreatePullRequest
<1>2. /\ FaultOrNot /\ pc = "submit" /\ pc' = "idle" /\ res' \in {"none", "ok", "error"}
      /\ \/ Creatable /\ pr' = [NoPR EXCEPT !.state = "open", !.repo = dest, !.head = remote[dest]["feat"]]
         \/ pr' = pr /\ res' = "error"
  BY DEF CreatePullRequest, Answered, Return, Failed, FaultOrNot
<1>3. /\ op.name = "create" /\ ServerTyped /\ ServerInv /\ dest \in Repos /\ "feat" \in Branches
      /\ (~meddled /\ push # "asked_to_skip" => tracking[dest]["feat"] = branch["feat"])
  BY <1>2 DEF IInv, CreateInv, CreateSteps, TypeOK, FoundTyped, Branches
<1>4. /\ ServerTyped' /\ ServerInv'
      /\ (pr' = pr /\ res' = "error") \/ pr'.head = remote[dest]["feat"]
  <2>1. CASE pr' = pr /\ res' = "error"
    BY <1>1, <1>3, <2>1 DEF ServerTyped, ServerInv
  <2>2. CASE Creatable /\ pr' = [NoPR EXCEPT !.state = "open", !.repo = dest, !.head = remote[dest]["feat"]]
    <3>1. remote[dest]["feat"] \in Tips /\ remote[dest]["feat"] # {}
      BY <1>3, <2>2 DEF ServerTyped, Creatable
    <3>2. pr' \in PR /\ pr'.head = remote[dest]["feat"]
      BY <1>3, <2>2, <3>1 DEF NoPR, PR, Status
    <3> QED BY <1>1, <1>3, <3>1, <3>2 DEF ServerTyped, ServerInv
  <2> QED BY <1>2, <2>1, <2>2
<1>5. TypeOK'
  BY <1>1, <1>2, <1>4, TreeStays, ConfigStays, FoundStays, RestStays DEF IInv, TypeOK, FaultOrNot
<1>6. StepRight
  <2>1. KeepsCommits /\ KeepsEdits /\ DeletesMerged
    BY <1>1 DEF KeepsCommits, KeepsEdits, DeletesMerged
  <2>2. Brings
    BY <1>3 DEF Brings, Succeeds
  <2>3. Shows
    BY <1>1, <1>3, <1>4 DEF Shows, Succeeds
  <2> QED BY <2>1, <2>2, <2>3 DEF StepRight
<1> QED BY <1>2, <1>4, <1>5, <1>6, AtIdle DEF IInv

LEMMA PrCreatePreserves == IInv /\ PrCreateNext => IInv' /\ StepRight
BY CreateBegins, CreateLooksPreserves, ForkRepoPreserves, RemotesPreserve, PushPreserves, CreatePullRequestPreserves
   DEF PrCreateNext

-----------------------------------------------------------------------------
LEMMA NextPreserves == IInv /\ [Next]_vars => IInv' /\ [StepRight]_vars
<1>1. IInv /\ Next => IInv' /\ StepRight
  BY RepoSyncPreserves, PrCheckoutPreserves, PrMergePreserves, PrCreatePreserves, EveryonePreserves DEF Next
<1>2. ASSUME IInv, UNCHANGED vars PROVE IInv'
  <2>1. /\ UNCHANGED <<remote, pr, branch, head, detached, tracking, fetchHead, dirty, remotes, marked>>
        /\ UNCHANGED <<has, useForce, wanted, cmds, seen, deleteBranch, dest, push, tries>>
        /\ UNCHANGED <<made, own, meddled, edited, moves, faults, runs, pc, res, op>>
    BY <1>2 DEF vars, server, tree, refs, config, found, history, bounds
  <2>2. RestTyped'
    BY <1>2, <2>1 DEF IInv, TypeOK, RestTyped
  <2>3. TypeOK'
    BY <1>2, <2>1, <2>2, ServerStays, TreeStays, ConfigStays, FoundStays DEF IInv, TypeOK
  <2>4. PcInv' /\ ServerInv' /\ SyncInv' /\ ForkInv' /\ CreateInv'
    BY <1>2, <2>1 DEF IInv, PcInv, ServerInv, SyncInv, ForkInv, CreateInv
  <2>5. CheckoutInv'
    <3>1. RunInv <=> RunInv'
      BY <2>1 DEF RunInv, List, Rest, Strict, Source, HasRemote
    <3> QED BY <1>2, <2>1, <3>1 DEF IInv, CheckoutInv
  <2>6. MergeInv'
    BY <1>2, <2>1 DEF IInv, MergeInv, Merged, ShouldAddToMergeQueue
  <2> QED BY <2>3, <2>4, <2>5, <2>6 DEF IInv
<1> QED BY <1>1, <1>2

\* What each command knows at each of its steps holds in every reachable state.
THEOREM GitInvariance == Spec => []IInv
BY InitIInv, NextPreserves, PTL DEF Spec

\* Every step of every command keeps what it must.
LEMMA EveryStep == Spec => [][StepRight]_vars
BY GitInvariance, NextPreserves, PTL DEF Spec

\* No gh command moves a branch off a commit of the user without --force (sync,
\* checkout, merge, the pull after it), but to delete a branch that is merged.
THEOREM GitKeepsCommits == Spec => CommitsKept
<1>1. [StepRight]_vars => [KeepsCommits]_vars
  BY DEF StepRight
<1> QED BY <1>1, EveryStep, PTL DEF CommitsKept

\* Uncommitted changes are discarded by force only, and by sync only if they are
\* newer than its look at the working tree.
THEOREM GitKeepsEdits == Spec => EditsKept
<1>1. [StepRight]_vars => [KeepsEdits]_vars
  BY DEF StepRight
<1> QED BY <1>1, EveryStep, PTL DEF EditsKept

\* A sync or checkout that succeeds has brought the commits that it fetched.
THEOREM GitBrings == Spec => Brought
<1>1. [StepRight]_vars => [Brings]_vars
  BY DEF StepRight
<1> QED BY <1>1, EveryStep, PTL DEF Brought

\* Branches go only when their pull request has been merged.
THEOREM GitDeletesMerged == Spec => DeletedOnlyWhenMerged
<1>1. [StepRight]_vars => [DeletesMerged]_vars
  BY DEF StepRight
<1> QED BY <1>1, EveryStep, PTL DEF DeletedOnlyWhenMerged

\* A pull request that create reports shows the commits of the branch.
THEOREM GitShows == Spec => ShowsTheBranch
<1>1. [StepRight]_vars => [Shows]_vars
  BY DEF StepRight
<1> QED BY <1>1, EveryStep, PTL DEF ShowsTheBranch
=============================================================================
