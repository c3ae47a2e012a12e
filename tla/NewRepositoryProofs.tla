------------------------- MODULE NewRepositoryProofs -------------------------
(***************************************************************************)
(* Proofs about NewRepository: whatever fails and whoever interferes, a    *)
(* success of `gh repo create`, `fork`, `clone` and of `gh label clone`    *)
(* keeps its promise, for any number of runs, failures, labels, pages and  *)
(* workers.                                                                *)
(*                                                                         *)
(* The invariant has two halves.  For the chains of requests and git       *)
(* commands it says what each step can rely on because the steps before it *)
(* succeeded; for the label clone, that every label found is in one place  *)
(* only: not handed out, with a worker, written or skipped.                *)
(***************************************************************************)
EXTENDS NewRepository, FiniteSetTheorems, TLAPS

-----------------------------------------------------------------------------
\* The inductive invariant of the set-up.

InCreate == op.name \in {"scratch", "template", "local"}
InFork == op.name \in {"fork_here", "fork_clone"}
ClonesFork == op.flag /\ op.name \in {"fork_clone", "clone"}

\* Which command takes which step.
StepsInv ==
    /\ pc = "done" <=> res # "none"
    /\ pc = "check" => op.name = "local"
    /\ pc = "create" => InCreate
    /\ pc = "update" => op.name = "template"
    /\ pc = "init" => op.name = "scratch" /\ op.flag
    /\ pc = "add" => op.name = "local" \/ (op.flag /\ op.name \in {"scratch", "fork_here"})
    /\ pc = "push" => op.name = "local" /\ op.flag
    /\ pc \in {"fork", "rename_fork"} => InFork
    /\ pc \in {"find", "rename"} => op.name = "fork_here" /\ op.flag
    /\ pc = "clone" => ClonesFork \/ (op.name = "template" /\ op.flag)
    /\ pc \in {"add_upstream", "fetch", "resolve"} => ClonesFork
    /\ op.name = "clone" => op.flag

\* A repository that had a remote has one; there are none where a clone is made.
BeforeInv ==
    /\ \A r \in before : Has(r)
    /\ op.name \notin {"local", "fork_here"} => before = {}

\* What has been done when create is at a step.
CreateInv ==
    /\ op.name = "local" /\ op.flag /\ ~op.commits => "new" \notin server /\ pc \in {"check", "done"} /\ res # "ok"
    /\ op.name \in {"scratch", "template"} /\ pc \in {"update", "init", "add", "clone"} => "new" \in server
    /\ op.name = "scratch" /\ pc = "add" => dir # "absent"
    /\ pc = "push" => remotes["origin"] = "new"

\* fork --remote is stopped by nothing that it has made sure of, unless others interfere.
ForkInv ==
    op.name = "fork_here" =>
      /\ pc = "add" /\ clean => remotes["origin"] = "none"
      /\ pc = "rename" => op.rename
      /\ pc = "rename" /\ clean => ~Has("fork") /\ remotes["origin"] # "none"
      /\ res = "error" /\ clean =>
           ~Has("fork") /\ remotes["origin"] # "none" /\ (op.rename => remotes["upstream"] # "none")

\* The remotes of the clone of a fork, step by step.
CloneInv ==
    ClonesFork =>
      /\ pc \in {"add_upstream", "fetch", "resolve"} => remotes["origin"] = "fork"
      /\ pc \in {"fetch", "resolve"} => remotes["upstream"] = "parent"
      /\ pc = "fetch" /\ op.name = "fork_clone" => resolution = "upstream"

SetupInv == TypeOK /\ StepsInv /\ BeforeInv /\ CreateInv /\ ForkInv /\ CloneInv /\ (res = "ok" => Promised)

-----------------------------------------------------------------------------
\* The inductive invariant of the label clone.

Finished == lpc = "done" /\ lres = "ok"
HandingOut == lpc \in {"send", "wait"} \/ Finished
Held(w) == worker[w].at \in {"post", "patch"}
InHand == {l \in Labels!Labels : \E w \in Workers : Held(w) /\ worker[w].label = l}
OneEach == \A v, w \in Workers : Held(v) /\ Held(w) /\ worker[v].label = worker[w].label => v = w
WorkerTyped == worker \in [Workers -> Labels!Busy \cup {Labels!Idle, Labels!Exited}]

\* Nothing is handed out before the last page is read.
ListInv ==
    /\ lpc = "list" => /\ \A l \in throughout : l <= cursor => l \in labels
                       /\ toCreate = {} /\ wrote = {} /\ kept = {} /\ InHand = {} /\ ~failed
    /\ HandingOut => throughout \subseteq labels
    /\ lpc \in {"wait", "done"} /\ lres # "error" => toCreate = {}
    /\ lpc = "done" <=> lres # "none"
    /\ Finished => ~failed /\ InHand = {}

\* A label is in one place, and in some place unless a request has failed.
PlacesInv ==
    /\ toCreate \cap (wrote \cup kept) = {}
    /\ InHand \cap (toCreate \cup wrote \cup kept) = {}
    /\ OneEach
    /\ HandingOut /\ ~failed => wrote \cup kept \cup toCreate \cup InHand = labels

CountInv ==
    /\ successCount \in Nat /\ successCount <= Cardinality(wrote)
    /\ ~failed => successCount = Cardinality(wrote)
    /\ force => kept = {}

CloningInv == Labels!TypeOK /\ ListInv /\ PlacesInv /\ CountInv

NewInv == stage \in {"setup", "labels"} /\ SetupInv /\ CloningInv

-----------------------------------------------------------------------------
\* Create, fork and clone.

\* Types are kept by every step; the values come from the definitions of the steps.
LEMMA TypePreserved == TypeOK /\ Next => TypeOK'
<1>. SUFFICES ASSUME TypeOK, Next PROVE TypeOK'
  OBVIOUS
<1>. USE SetupAssumption
     DEF Next, Setup, Check, RepoCreate, AfterCreate, AfterUpdate, Creates, UpdateRepository, LocalInit, AddOrigin, Wanted,
         Push, ForkRepo, AfterFork, RenameFork, FindRemote, RenameRemote, Clone, Cloned, MaxRetries, Source, AddUpstream,
         ThenFetch, Fetch, SetRemoteResolution, SetResolution, Copied, Others, Again, FirstStep,
         Goto, Return, Failed, Done, Fault, NoFault, OnlyServer, OnlyDisk, Frame, disk, history
<1>1. (server \subseteq Repos /\ ready \subseteq server /\ before \subseteq Repos /\ op \in Op)'
  BY DEF TypeOK, Repos
<1>2. (remotes \in [Remotes -> Repos \cup {"none"}])'
  BY DEF TypeOK, Repos, Remotes
<1>3. (dir \in {"absent", "empty", "clone"} /\ resolution \in Remotes \cup {"none"})'
  BY DEF TypeOK, Remotes
<1>4. (pushed \in BOOLEAN /\ clean \in BOOLEAN /\ meddled \in BOOLEAN)'
  BY DEF TypeOK
<1>5. (res \in {"none", "ok", "error"} /\ tries \in 0..3 /\ runs \in 1..MaxRuns /\ faults \in 0..MaxFaults)'
  BY DEF TypeOK
<1>6. (pc \in {"check", "create", "update", "init", "add", "push", "fork", "rename_fork", "find", "rename", "clone",
               "add_upstream", "fetch", "resolve", "done"})'
  BY DEF TypeOK
<1>. QED
  BY <1>1, <1>2, <1>3, <1>4, <1>5, <1>6 DEF TypeOK

LEMMA CheckPreserves == SetupInv /\ Check => SetupInv'
<1>. SUFFICES ASSUME SetupInv, Check PROVE SetupInv'
  OBVIOUS
<1>. USE DEF SetupInv, Check, Pushable, Goto, Return, Failed, Done, Fault, NoFault, OnlyServer, OnlyDisk,
             Frame, disk, history
<1>1. TypeOK'
  BY TypePreserved DEF Next, Setup
<1>2. StepsInv'
  BY DEF TypeOK, StepsInv, InCreate, InFork, ClonesFork, Op
<1>3. BeforeInv'
  BY DEF TypeOK, StepsInv, BeforeInv, ClonesFork, Has, Op, Repos, Remotes
<1>4. CreateInv'
  BY DEF TypeOK, StepsInv, CreateInv, Op, Repos, Remotes
<1>5. ForkInv'
  BY DEF TypeOK, StepsInv, ForkInv, InCreate, ClonesFork, Has, Op, Repos, Remotes
<1>6. CloneInv'
  BY DEF TypeOK, StepsInv, CloneInv, ClonesFork, Op, Repos, Remotes
<1>7. (res = "ok" => Promised)'
  BY DEF TypeOK, StepsInv, CreateInv, ForkInv, CloneInv, InCreate, InFork, ClonesFork, Promised, Has, Op, Repos, Remotes
<1>. QED
  BY <1>1, <1>2, <1>3, <1>4, <1>5, <1>6, <1>7

LEMMA RepoCreatePreserves == SetupInv /\ RepoCreate => SetupInv'
<1>. SUFFICES ASSUME SetupInv, RepoCreate PROVE SetupInv'
  OBVIOUS
<1>. USE DEF SetupInv, RepoCreate, AfterCreate, AfterUpdate, Creates, Goto, Return, Failed, Done, Fault,
             NoFault, OnlyServer, OnlyDisk, Frame, disk, history
<1>1. TypeOK'
  BY TypePreserved DEF Next, Setup
<1>2. StepsInv'
  BY DEF TypeOK, StepsInv, InCreate, InFork, ClonesFork, Op
<1>3. BeforeInv'
  BY DEF TypeOK, StepsInv, BeforeInv, ClonesFork, Has, Op, Repos, Remotes
<1>4. CreateInv'
  BY DEF TypeOK, StepsInv, CreateInv, Op, Repos, Remotes
<1>5. ForkInv'
  BY DEF TypeOK, StepsInv, ForkInv, InCreate, ClonesFork, Has, Op, Repos, Remotes
<1>6. CloneInv'
  BY DEF TypeOK, StepsInv, CloneInv, ClonesFork, Op, Repos, Remotes
<1>7. (res = "ok" => Promised)'
  BY DEF TypeOK, StepsInv, CreateInv, ForkInv, CloneInv, InCreate, InFork, ClonesFork, Promised, Has, Op, Repos, Remotes
<1>. QED
  BY <1>1, <1>2, <1>3, <1>4, <1>5, <1>6, <1>7

LEMMA UpdateRepositoryPreserves == SetupInv /\ UpdateRepository => SetupInv'
<1>. SUFFICES ASSUME SetupInv, UpdateRepository PROVE SetupInv'
  OBVIOUS
<1>. USE DEF SetupInv, UpdateRepository, AfterUpdate, Goto, Return, Failed, Done, Fault, NoFault, OnlyServer,
             OnlyDisk, Frame, disk, history
<1>1. TypeOK'
  BY TypePreserved DEF Next, Setup
<1>2. StepsInv'
  BY DEF TypeOK, StepsInv, InCreate, InFork, ClonesFork, Op
<1>3. BeforeInv'
  BY DEF TypeOK, StepsInv, BeforeInv, ClonesFork, Has, Op, Repos, Remotes
<1>4. CreateInv'
  BY DEF TypeOK, StepsInv, CreateInv, Op, Repos, Remotes
<1>5. ForkInv'
  BY DEF TypeOK, StepsInv, ForkInv, InCreate, ClonesFork, Has, Op, Repos, Remotes
<1>6. CloneInv'
  BY DEF TypeOK, StepsInv, CloneInv, ClonesFork, Op, Repos, Remotes
<1>7. (res = "ok" => Promised)'
  BY DEF TypeOK, StepsInv, CreateInv, ForkInv, CloneInv, InCreate, InFork, ClonesFork, Promised, Has, Op, Repos, Remotes
<1>. QED
  BY <1>1, <1>2, <1>3, <1>4, <1>5, <1>6, <1>7

LEMMA LocalInitPreserves == SetupInv /\ LocalInit => SetupInv'
<1>. SUFFICES ASSUME SetupInv, LocalInit PROVE SetupInv'
  OBVIOUS
<1>. USE DEF SetupInv, LocalInit, Goto, Return, Failed, Done, Fault, NoFault, OnlyServer, OnlyDisk, Frame, disk, history
<1>1. TypeOK'
  BY TypePreserved DEF Next, Setup
<1>2. StepsInv'
  BY DEF TypeOK, StepsInv, InCreate, InFork, ClonesFork, Op
<1>3. BeforeInv'
  BY DEF TypeOK, StepsInv, BeforeInv, ClonesFork, Has, Op, Repos, Remotes
<1>4. CreateInv'
  BY DEF TypeOK, StepsInv, CreateInv, Op, Repos, Remotes
<1>5. ForkInv'
  BY DEF TypeOK, StepsInv, ForkInv, InCreate, ClonesFork, Has, Op, Repos, Remotes
<1>6. CloneInv'
  BY DEF TypeOK, StepsInv, CloneInv, ClonesFork, Op, Repos, Remotes
<1>7. (res = "ok" => Promised)'
  BY DEF TypeOK, StepsInv, CreateInv, ForkInv, CloneInv, InCreate, InFork, ClonesFork, Promised, Has, Op, Repos, Remotes
<1>. QED
  BY <1>1, <1>2, <1>3, <1>4, <1>5, <1>6, <1>7

LEMMA AddOriginPreserves == SetupInv /\ AddOrigin => SetupInv'
<1>. SUFFICES ASSUME SetupInv, AddOrigin PROVE SetupInv'
  OBVIOUS
<1>. USE DEF SetupInv, AddOrigin, Wanted, Goto, Return, Failed, Done, Fault, NoFault, OnlyServer, OnlyDisk,
             Frame, disk, history
<1>1. TypeOK'
  BY TypePreserved DEF Next, Setup
<1>2. StepsInv'
  BY DEF TypeOK, StepsInv, InCreate, InFork, ClonesFork, Op
<1>3. BeforeInv'
  BY DEF TypeOK, StepsInv, BeforeInv, ClonesFork, Has, Op, Repos, Remotes
<1>4. CreateInv'
  BY DEF TypeOK, StepsInv, CreateInv, Op, Repos, Remotes
<1>5. ForkInv'
  BY DEF TypeOK, StepsInv, ForkInv, InCreate, ClonesFork, Has, Op, Repos, Remotes
<1>6. CloneInv'
  BY DEF TypeOK, StepsInv, CloneInv, ClonesFork, Op, Repos, Remotes
<1>7. (res = "ok" => Promised)'
  BY DEF TypeOK, StepsInv, CreateInv, ForkInv, CloneInv, InCreate, InFork, ClonesFork, Promised, Has, Op, Repos, Remotes
<1>. QED
  BY <1>1, <1>2, <1>3, <1>4, <1>5, <1>6, <1>7

LEMMA PushPreserves == SetupInv /\ Push => SetupInv'
<1>. SUFFICES ASSUME SetupInv, Push PROVE SetupInv'
  OBVIOUS
<1>. USE DEF SetupInv, Push, Goto, Return, Failed, Done, Fault, NoFault, OnlyServer, OnlyDisk, Frame, disk, history
<1>1. TypeOK'
  BY TypePreserved DEF Next, Setup
<1>2. StepsInv'
  BY DEF TypeOK, StepsInv, InCreate, InFork, ClonesFork, Op
<1>3. BeforeInv'
  BY DEF TypeOK, StepsInv, BeforeInv, ClonesFork, Has, Op, Repos, Remotes
<1>4. CreateInv'
  BY DEF TypeOK, StepsInv, CreateInv, Op, Repos, Remotes
<1>5. ForkInv'
  BY DEF TypeOK, StepsInv, ForkInv, InCreate, ClonesFork, Has, Op, Repos, Remotes
<1>6. CloneInv'
  BY DEF TypeOK, StepsInv, CloneInv, ClonesFork, Op, Repos, Remotes
<1>7. (res = "ok" => Promised)'
  BY DEF TypeOK, StepsInv, CreateInv, ForkInv, CloneInv, InCreate, InFork, ClonesFork, Promised, Has, Op, Repos, Remotes
<1>. QED
  BY <1>1, <1>2, <1>3, <1>4, <1>5, <1>6, <1>7

LEMMA ForkRepoPreserves == SetupInv /\ ForkRepo => SetupInv'
<1>. SUFFICES ASSUME SetupInv, ForkRepo PROVE SetupInv'
  OBVIOUS
<1>. USE DEF SetupInv, ForkRepo, AfterFork, Goto, Return, Failed, Done, Fault, NoFault, OnlyServer, OnlyDisk,
             Frame, disk, history
<1>1. TypeOK'
  BY TypePreserved DEF Next, Setup
<1>2. StepsInv'
  BY DEF TypeOK, StepsInv, InCreate, InFork, ClonesFork, Op
<1>3. BeforeInv'
  BY DEF TypeOK, StepsInv, BeforeInv, ClonesFork, Has, Op, Repos, Remotes
<1>4. CreateInv'
  BY DEF TypeOK, StepsInv, CreateInv, Op, Repos, Remotes
<1>5. ForkInv'
  BY DEF TypeOK, StepsInv, ForkInv, InCreate, ClonesFork, Has, Op, Repos, Remotes
<1>6. CloneInv'
  BY DEF TypeOK, StepsInv, CloneInv, ClonesFork, Op, Repos, Remotes
<1>7. (res = "ok" => Promised)'
  BY DEF TypeOK, StepsInv, CreateInv, ForkInv, CloneInv, InCreate, InFork, ClonesFork, Promised, Has, Op, Repos, Remotes
<1>. QED
  BY <1>1, <1>2, <1>3, <1>4, <1>5, <1>6, <1>7

LEMMA RenameForkPreserves == SetupInv /\ RenameFork => SetupInv'
<1>. SUFFICES ASSUME SetupInv, RenameFork PROVE SetupInv'
  OBVIOUS
<1>. USE DEF SetupInv, RenameFork, AfterFork, Goto, Return, Failed, Done, Fault, NoFault, OnlyServer,
             OnlyDisk, Frame, disk, history
<1>1. TypeOK'
  BY TypePreserved DEF Next, Setup
<1>2. StepsInv'
  BY DEF TypeOK, StepsInv, InCreate, InFork, ClonesFork, Op
<1>3. BeforeInv'
  BY DEF TypeOK, StepsInv, BeforeInv, ClonesFork, Has, Op, Repos, Remotes
<1>4. CreateInv'
  BY DEF TypeOK, StepsInv, CreateInv, Op, Repos, Remotes
<1>5. ForkInv'
  BY DEF TypeOK, StepsInv, ForkInv, InCreate, ClonesFork, Has, Op, Repos, Remotes
<1>6. CloneInv'
  BY DEF TypeOK, StepsInv, CloneInv, ClonesFork, Op, Repos, Remotes
<1>7. (res = "ok" => Promised)'
  BY DEF TypeOK, StepsInv, CreateInv, ForkInv, CloneInv, InCreate, InFork, ClonesFork, Promised, Has, Op, Repos, Remotes
<1>. QED
  BY <1>1, <1>2, <1>3, <1>4, <1>5, <1>6, <1>7

LEMMA FindRemotePreserves == SetupInv /\ FindRemote => SetupInv'
<1>. SUFFICES ASSUME SetupInv, FindRemote PROVE SetupInv'
  OBVIOUS
<1>. USE DEF SetupInv, FindRemote, ExistingRemote, Goto, Return, Failed, Done, Fault, NoFault, OnlyServer,
             OnlyDisk, Frame, disk, history
<1>1. TypeOK'
  BY TypePreserved DEF Next, Setup
<1>2. StepsInv'
  BY DEF TypeOK, StepsInv, InCreate, InFork, ClonesFork, Op
<1>3. BeforeInv'
  BY DEF TypeOK, StepsInv, BeforeInv, ClonesFork, Has, Op, Repos, Remotes
<1>4. CreateInv'
  BY DEF TypeOK, StepsInv, CreateInv, Op, Repos, Remotes
<1>5. ForkInv'
  BY DEF TypeOK, StepsInv, ForkInv, InCreate, ClonesFork, Has, Op, Repos, Remotes
<1>6. CloneInv'
  BY DEF TypeOK, StepsInv, CloneInv, ClonesFork, Op, Repos, Remotes
<1>7. (res = "ok" => Promised)'
  BY DEF TypeOK, StepsInv, CreateInv, ForkInv, CloneInv, InCreate, InFork, ClonesFork, Promised, Has, Op, Repos, Remotes
<1>. QED
  BY <1>1, <1>2, <1>3, <1>4, <1>5, <1>6, <1>7

LEMMA RenameRemotePreserves == SetupInv /\ RenameRemote => SetupInv'
<1>. SUFFICES ASSUME SetupInv, RenameRemote PROVE SetupInv'
  OBVIOUS
<1>. USE DEF SetupInv, RenameRemote, Renameable, Goto, Return, Failed, Done, Fault, NoFault, OnlyServer,
             OnlyDisk, Frame, disk, history
<1>1. TypeOK'
  BY TypePreserved DEF Next, Setup
<1>2. StepsInv'
  BY DEF TypeOK, StepsInv, InCreate, InFork, ClonesFork, Op
<1>3. BeforeInv'
  BY DEF TypeOK, StepsInv, BeforeInv, ClonesFork, Has, Op, Repos, Remotes
<1>4. CreateInv'
  BY DEF TypeOK, StepsInv, CreateInv, Op, Repos, Remotes
<1>5. ForkInv'
  BY DEF TypeOK, StepsInv, ForkInv, InCreate, ClonesFork, Has, Op, Repos, Remotes
<1>6. CloneInv'
  BY DEF TypeOK, StepsInv, CloneInv, ClonesFork, Op, Repos, Remotes
<1>7. (res = "ok" => Promised)'
  BY DEF TypeOK, StepsInv, CreateInv, ForkInv, CloneInv, InCreate, InFork, ClonesFork, Promised, Has, Op, Repos, Remotes
<1>. QED
  BY <1>1, <1>2, <1>3, <1>4, <1>5, <1>6, <1>7

LEMMA ClonePreserves == SetupInv /\ Clone => SetupInv'
<1>. SUFFICES ASSUME SetupInv, Clone PROVE SetupInv'
  OBVIOUS
<1>. USE DEF SetupInv, Clone, Cloneable, Cloned, Source, MaxRetries, Goto, Return, Failed, Done, Fault,
             NoFault, OnlyServer, OnlyDisk, Frame, disk, history
<1>1. TypeOK'
  BY TypePreserved DEF Next, Setup
<1>2. StepsInv'
  BY DEF TypeOK, StepsInv, InCreate, InFork, ClonesFork, Op
<1>3. BeforeInv'
  BY DEF TypeOK, StepsInv, BeforeInv, ClonesFork, Has, Op, Repos, Remotes
<1>4. CreateInv'
  BY DEF TypeOK, StepsInv, CreateInv, Op, Repos, Remotes
<1>5. ForkInv'
  BY DEF TypeOK, StepsInv, ForkInv, InCreate, ClonesFork, Has, Op, Repos, Remotes
<1>6. CloneInv'
  BY DEF TypeOK, StepsInv, CloneInv, ClonesFork, Op, Repos, Remotes
<1>7. (res = "ok" => Promised)'
  BY DEF TypeOK, StepsInv, CreateInv, ForkInv, CloneInv, InCreate, InFork, ClonesFork, Promised, Has, Op, Repos, Remotes
<1>. QED
  BY <1>1, <1>2, <1>3, <1>4, <1>5, <1>6, <1>7

LEMMA AddUpstreamPreserves == SetupInv /\ AddUpstream => SetupInv'
<1>. SUFFICES ASSUME SetupInv, AddUpstream PROVE SetupInv'
  OBVIOUS
<1>. USE DEF SetupInv, AddUpstream, ThenFetch, Goto, Return, Failed, Done, Fault, NoFault, OnlyServer,
             OnlyDisk, Frame, disk, history
<1>1. TypeOK'
  BY TypePreserved DEF Next, Setup
<1>2. StepsInv'
  BY DEF TypeOK, StepsInv, InCreate, InFork, ClonesFork, Op
<1>3. BeforeInv'
  BY DEF TypeOK, StepsInv, BeforeInv, ClonesFork, Has, Op, Repos, Remotes
<1>4. CreateInv'
  BY DEF TypeOK, StepsInv, CreateInv, Op, Repos, Remotes
<1>5. ForkInv'
  BY DEF TypeOK, StepsInv, ForkInv, InCreate, ClonesFork, Has, Op, Repos, Remotes
<1>6. CloneInv'
  BY DEF TypeOK, StepsInv, CloneInv, ClonesFork, Op, Repos, Remotes
<1>7. (res = "ok" => Promised)'
  BY DEF TypeOK, StepsInv, CreateInv, ForkInv, CloneInv, InCreate, InFork, ClonesFork, Promised, Has, Op, Repos, Remotes
<1>. QED
  BY <1>1, <1>2, <1>3, <1>4, <1>5, <1>6, <1>7

LEMMA FetchPreserves == SetupInv /\ Fetch => SetupInv'
<1>. SUFFICES ASSUME SetupInv, Fetch PROVE SetupInv'
  OBVIOUS
<1>. USE DEF SetupInv, Fetch, Goto, Return, Failed, Done, Fault, NoFault, OnlyServer, OnlyDisk, Frame, disk, history
<1>1. TypeOK'
  BY TypePreserved DEF Next, Setup
<1>2. StepsInv'
  BY DEF TypeOK, StepsInv, InCreate, InFork, ClonesFork, Op
<1>3. BeforeInv'
  BY DEF TypeOK, StepsInv, BeforeInv, ClonesFork, Has, Op, Repos, Remotes
<1>4. CreateInv'
  BY DEF TypeOK, StepsInv, CreateInv, Op, Repos, Remotes
<1>5. ForkInv'
  BY DEF TypeOK, StepsInv, ForkInv, InCreate, ClonesFork, Has, Op, Repos, Remotes
<1>6. CloneInv'
  BY DEF TypeOK, StepsInv, CloneInv, ClonesFork, Op, Repos, Remotes
<1>7. (res = "ok" => Promised)'
  BY DEF TypeOK, StepsInv, CreateInv, ForkInv, CloneInv, InCreate, InFork, ClonesFork, Promised, Has, Op, Repos, Remotes
<1>. QED
  BY <1>1, <1>2, <1>3, <1>4, <1>5, <1>6, <1>7

LEMMA SetRemoteResolutionPreserves == SetupInv /\ SetRemoteResolution => SetupInv'
<1>. SUFFICES ASSUME SetupInv, SetRemoteResolution PROVE SetupInv'
  OBVIOUS
<1>. USE DEF SetupInv, SetRemoteResolution, SetResolution, Goto, Return, Failed, Done, Fault, NoFault,
             OnlyServer, OnlyDisk, Frame, disk, history
<1>1. TypeOK'
  BY TypePreserved DEF Next, Setup
<1>2. StepsInv'
  BY DEF TypeOK, StepsInv, InCreate, InFork, ClonesFork, Op
<1>3. BeforeInv'
  BY DEF TypeOK, StepsInv, BeforeInv, ClonesFork, Has, Op, Repos, Remotes
<1>4. CreateInv'
  BY DEF TypeOK, StepsInv, CreateInv, Op, Repos, Remotes
<1>5. ForkInv'
  BY DEF TypeOK, StepsInv, ForkInv, InCreate, ClonesFork, Has, Op, Repos, Remotes
<1>6. CloneInv'
  BY DEF TypeOK, StepsInv, CloneInv, ClonesFork, Op, Repos, Remotes
<1>7. (res = "ok" => Promised)'
  BY DEF TypeOK, StepsInv, CreateInv, ForkInv, CloneInv, InCreate, InFork, ClonesFork, Promised, Has, Op, Repos, Remotes
<1>. QED
  BY <1>1, <1>2, <1>3, <1>4, <1>5, <1>6, <1>7

LEMMA CopiedPreserves == SetupInv /\ Copied => SetupInv'
<1>. SUFFICES ASSUME SetupInv, Copied PROVE SetupInv'
  OBVIOUS
<1>. USE DEF SetupInv, Copied, Goto, Return, Failed, Done, Fault, NoFault, OnlyServer, OnlyDisk, Frame, disk, history
<1>1. TypeOK'
  BY TypePreserved DEF Next, Setup
<1>2. StepsInv'
  BY DEF TypeOK, StepsInv, InCreate, InFork, ClonesFork, Op
<1>3. BeforeInv'
  BY DEF TypeOK, StepsInv, BeforeInv, ClonesFork, Has, Op, Repos, Remotes
<1>4. CreateInv'
  BY DEF TypeOK, StepsInv, CreateInv, Op, Repos, Remotes
<1>5. ForkInv'
  BY DEF TypeOK, StepsInv, ForkInv, InCreate, ClonesFork, Has, Op, Repos, Remotes
<1>6. CloneInv'
  BY DEF TypeOK, StepsInv, CloneInv, ClonesFork, Op, Repos, Remotes
<1>7. (res = "ok" => Promised)'
  BY DEF TypeOK, StepsInv, CreateInv, ForkInv, CloneInv, InCreate, InFork, ClonesFork, Promised, Has, Op, Repos, Remotes
<1>. QED
  BY <1>1, <1>2, <1>3, <1>4, <1>5, <1>6, <1>7

LEMMA OthersPreserves == SetupInv /\ Others => SetupInv'
<1>. SUFFICES ASSUME SetupInv, Others PROVE SetupInv'
  OBVIOUS
<1>. USE DEF SetupInv, Others, Goto, Return, Failed, Done, Fault, NoFault, OnlyServer, OnlyDisk, Frame, disk, history
<1>1. TypeOK'
  BY TypePreserved DEF Next, Setup
<1>2. StepsInv'
  BY DEF TypeOK, StepsInv, InCreate, InFork, ClonesFork, Op
<1>3. BeforeInv'
  BY DEF TypeOK, StepsInv, BeforeInv, ClonesFork, Has, Op, Repos, Remotes
<1>4. CreateInv'
  BY DEF TypeOK, StepsInv, CreateInv, Op, Repos, Remotes
<1>5. ForkInv'
  BY DEF TypeOK, StepsInv, ForkInv, InCreate, ClonesFork, Has, Op, Repos, Remotes
<1>6. CloneInv'
  BY DEF TypeOK, StepsInv, CloneInv, ClonesFork, Op, Repos, Remotes
<1>7. (res = "ok" => Promised)'
  BY DEF TypeOK, StepsInv, CreateInv, ForkInv, CloneInv, InCreate, InFork, ClonesFork, Promised, Has, Op, Repos, Remotes
<1>. QED
  BY <1>1, <1>2, <1>3, <1>4, <1>5, <1>6, <1>7

LEMMA AgainPreserves == SetupInv /\ Again => SetupInv'
<1>. SUFFICES ASSUME SetupInv, Again PROVE SetupInv'
  OBVIOUS
<1>. USE DEF SetupInv, Again, FirstStep, Goto, Return, Failed, Done, Fault, NoFault, OnlyServer, OnlyDisk,
             Frame, disk, history
<1>1. TypeOK'
  BY TypePreserved DEF Next, Setup
<1>2. StepsInv'
  BY DEF TypeOK, StepsInv, InCreate, InFork, ClonesFork, Op
<1>3. BeforeInv'
  BY DEF TypeOK, StepsInv, BeforeInv, ClonesFork, Has, Op, Repos, Remotes
<1>4. CreateInv'
  BY DEF TypeOK, StepsInv, CreateInv, Op, Repos, Remotes
<1>5. ForkInv'
  BY DEF TypeOK, StepsInv, ForkInv, InCreate, ClonesFork, Has, Op, Repos, Remotes
<1>6. CloneInv'
  BY DEF TypeOK, StepsInv, CloneInv, ClonesFork, Op, Repos, Remotes
<1>7. (res = "ok" => Promised)'
  BY DEF TypeOK, StepsInv, CreateInv, ForkInv, CloneInv, InCreate, InFork, ClonesFork, Promised, Has, Op, Repos, Remotes
<1>. QED
  BY <1>1, <1>2, <1>3, <1>4, <1>5, <1>6, <1>7

-----------------------------------------------------------------------------
\* The workers and the labels in their hands.

LEMMA HeldTyped ==
  ASSUME Labels!TypeOK, NEW w \in Workers, Held(w)
  PROVE  worker[w] \in Labels!Busy /\ worker[w].label \in Labels!Labels /\ worker[w].label \in InHand
<1>1. worker[w] \in Labels!Busy
  BY DEF Labels!TypeOK, Held, Labels!Idle, Labels!Exited
<1>. QED
  BY <1>1 DEF Labels!Busy, InHand

\* A worker takes a label that nobody has.
LEMMA Takes ==
  ASSUME Labels!TypeOK, OneEach, NEW w \in Workers, ~Held(w), NEW l \in Labels!Labels, l \notin InHand,
         worker' = [worker EXCEPT ![w] = [at |-> "post", label |-> l]]
  PROVE  WorkerTyped' /\ OneEach' /\ InHand' = InHand \cup {l}
<1>. DEFINE b == [at |-> "post", label |-> l]
<1>1. b \in Labels!Busy /\ b.at = "post" /\ b.label = l
  BY DEF Labels!Busy
<1>. HIDE DEF b
<1>2. worker \in [Workers -> Labels!Busy \cup {Labels!Idle, Labels!Exited}] /\ worker' = [worker EXCEPT ![w] = b]
  BY DEF Labels!TypeOK, b
<1>3. WorkerTyped'
  BY <1>1, <1>2 DEF WorkerTyped
<1>4. \A v \in Workers : worker'[v] = IF v = w THEN b ELSE worker[v]
  BY <1>2
<1>5. Held(w)' /\ (worker[w].label = l)' /\ \A v \in Workers \ {w} : (Held(v)' <=> Held(v)) /\ worker'[v].label = worker[v].label
  BY <1>1, <1>4 DEF Held
<1>6. \A v \in Workers \ {w} : Held(v) => worker[v].label # l
  BY HeldTyped
<1>7. OneEach'
  BY <1>5, <1>6 DEF OneEach
<1>8. InHand' = InHand \cup {l}
  BY <1>5 DEF InHand
<1>. QED
  BY <1>3, <1>7, <1>8

\* A worker is done with its label.
LEMMA Releases ==
  ASSUME Labels!TypeOK, OneEach, NEW w \in Workers, Held(w), NEW s \in {Labels!Idle, Labels!Exited},
         worker' = [worker EXCEPT ![w] = s]
  PROVE  WorkerTyped' /\ OneEach' /\ InHand' = InHand \ {worker[w].label}
<1>1. worker \in [Workers -> Labels!Busy \cup {Labels!Idle, Labels!Exited}]
  BY DEF Labels!TypeOK
<1>2. WorkerTyped'
  BY <1>1 DEF WorkerTyped
<1>3. ~Held(w)' /\ \A v \in Workers \ {w} : (Held(v)' <=> Held(v)) /\ worker'[v].label = worker[v].label
  BY <1>1 DEF Held, Labels!Idle, Labels!Exited
<1>4. OneEach'
  BY <1>3 DEF OneEach
<1>5. InHand' = InHand \ {worker[w].label}
  BY <1>3 DEF InHand, OneEach
<1>. QED
  BY <1>2, <1>4, <1>5

\* A worker goes on with the label that it has, or leaves without one.
LEMMA HoldsOn ==
  ASSUME Labels!TypeOK, OneEach, NEW w \in Workers,
         \/ Held(w) /\ worker' = [worker EXCEPT ![w].at = "patch"]
         \/ ~Held(w) /\ worker' = [worker EXCEPT ![w] = Labels!Exited]
  PROVE  WorkerTyped' /\ OneEach' /\ InHand' = InHand
<1>1. worker \in [Workers -> Labels!Busy \cup {Labels!Idle, Labels!Exited}]
  BY DEF Labels!TypeOK
<1>2. WorkerTyped' /\ \A v \in Workers : (Held(v)' <=> Held(v)) /\ (Held(v) => worker'[v].label = worker[v].label)
  <2>1. CASE Held(w) /\ worker' = [worker EXCEPT ![w].at = "patch"]
    <3>1. worker[w] \in Labels!Busy
      BY <2>1, HeldTyped
    <3>. DEFINE b == [worker[w] EXCEPT !.at = "patch"]
    <3>2. b \in Labels!Busy /\ b.at = "patch" /\ b.label = worker[w].label
      BY <3>1 DEF Labels!Busy
    <3>3. worker' = [worker EXCEPT ![w] = b]
      BY <2>1, <1>1
    <3>. HIDE DEF b
    <3>4. WorkerTyped'
      BY <1>1, <3>2, <3>3 DEF WorkerTyped
    <3>. QED
      BY <1>1, <2>1, <3>2, <3>3, <3>4 DEF Held
  <2>2. CASE ~Held(w) /\ worker' = [worker EXCEPT ![w] = Labels!Exited]
    BY <1>1, <2>2 DEF WorkerTyped, Held, Labels!Exited
  <2>. QED
    BY <2>1, <2>2
<1>3. OneEach'
  BY <1>2 DEF OneEach
<1>4. InHand' = InHand
  BY <1>2 DEF InHand
<1>. QED
  BY <1>2, <1>3, <1>4

-----------------------------------------------------------------------------
\* Reading the pages.

\* LabelClone's operators on finite sets, as NewRepository instantiates them, are the usual ones.
LEMMA SameCardinality == \A S : Labels!Cardinality(S) = Cardinality(S)
BY Zenon DEF Labels!Cardinality, Cardinality, Labels!IsFiniteSet, IsFiniteSet

LEMMA FiniteLabels ==
  ASSUME NEW S \in SUBSET Labels!Labels
  PROVE  IsFiniteSet(S) /\ Cardinality(S) \in Nat /\ Cardinality(S) <= Cardinality(Labels!Labels)
         /\ Cardinality(Labels!Labels) \in Nat
<1>1. IsFiniteSet(Labels!Labels)
  BY LabelAssumption, FS_Interval DEF Labels!LabelBounds, Labels!Labels
<1>. QED
  BY <1>1, FS_Subset, FS_CardinalityType

\* A page has every label up to its last one.
LEMMA WholePage ==
  ASSUME Labels!TypeOK, NEW c \in Labels!Page, \A k \in Labels!Page : k <= c
  PROVE  /\ c \in 1..MaxLabels
         /\ \A l \in source : cursor < l /\ l <= c => l \in Labels!Page
<1>. USE LabelAssumption DEF Labels!LabelBounds
<1>1. source \subseteq Labels!Labels /\ source \subseteq Nat /\ Labels!Page \subseteq source /\ cursor \in Nat
  BY DEF Labels!TypeOK, Labels!Labels, Labels!Page, Labels!After
<1>2. c \in 1..MaxLabels /\ Cardinality({k \in Labels!After : k <= c}) <= PageSize
  <2>1. c \in 1..MaxLabels
    BY <1>1 DEF Labels!Labels
  <2>2. Cardinality({k \in Labels!After : k <= c}) <= PageSize
    BY SameCardinality, Zenon DEF Labels!Page
  <2>. QED
    BY <2>1, <2>2
<1>3. ASSUME NEW l \in source, cursor < l, l <= c
      PROVE  l \in Labels!Page
  <2>. DEFINE U(x) == {k \in Labels!After : k <= x}
  <2>. Labels!After \in SUBSET Labels!Labels /\ Labels!After \subseteq Nat /\ l \in Labels!After
    BY <1>1, <1>3 DEF Labels!After
  <2>. /\ c \in Nat /\ l \in Nat /\ l <= c
    BY <1>1, <1>2, <1>3
  <2>1. U(l) \subseteq U(c) /\ U(c) \in SUBSET Labels!Labels /\ U(l) \in SUBSET Labels!Labels
    <3>1. \A k \in Labels!After : k <= l => k <= c
      OBVIOUS
    <3>. QED
      BY <3>1
  <2>. HIDE DEF U
  <2>2. Cardinality(U(l)) <= Cardinality(U(c))
    BY <2>1, FiniteLabels, FS_Subset
  <2>3. Cardinality(U(l)) \in Nat /\ Cardinality(U(c)) \in Nat
    BY <2>1, FiniteLabels
  <2>4. Cardinality(U(l)) <= PageSize
    BY <1>2, <2>2, <2>3 DEF U
  <2>. QED
    BY <2>4, SameCardinality, Zenon DEF Labels!Page, U
<1>. QED
  BY <1>2, <1>3

LEMMA ListPagePreserves == CloningInv /\ Labels!ListPage => CloningInv'
<1>. SUFFICES ASSUME CloningInv, Labels!ListPage PROVE CloningInv'
  OBVIOUS
<1>. USE LabelAssumption DEF Labels!LabelBounds
<1>1. /\ lpc = "list"
      /\ UNCHANGED <<source, created, throughout, dest, force, worker, failed, successCount, wrote, kept, others>>
  BY DEF Labels!ListPage
<1>2. InHand' = InHand /\ (OneEach' <=> OneEach)
  BY <1>1 DEF InHand, OneEach, Held
<1>3. Labels!Page \subseteq source /\ \A l \in source : l > cursor <=> l \in Labels!After
  BY DEF Labels!Page, Labels!After
<1>4. CountInv'
  BY <1>1 DEF CloningInv, CountInv
<1>5. CASE /\ labels' = labels \cup Labels!Page /\ UNCHANGED <<lpc, lres, toCreate, faults>>
           /\ cursor' \in Labels!Page /\ \A k \in Labels!Page : k <= cursor'
  <2>. DEFINE c == cursor'
  <2>1. c \in Labels!Page /\ \A k \in Labels!Page : k <= c
    BY <1>5
  <2>. HIDE DEF c
  <2>2. c \in 1..MaxLabels /\ \A l \in source : cursor < l /\ l <= c => l \in Labels!Page
    BY <2>1, WholePage DEF CloningInv
  <2>3. cursor' = c
    BY DEF c
  <2>4. Labels!TypeOK'
    BY <1>1, <1>3, <1>5, <2>2, <2>3 DEF CloningInv, Labels!TypeOK
  <2>5. ASSUME NEW l \in throughout, l <= c
        PROVE  l \in labels'
    <3>1. l \in source /\ l \in Nat /\ cursor \in Nat
      BY DEF CloningInv, Labels!TypeOK
    <3>2. CASE l <= cursor
      BY <1>1, <1>5, <3>2 DEF CloningInv, ListInv
    <3>3. CASE cursor < l
      BY <1>5, <2>2, <2>5, <3>1, <3>3
    <3>. QED
      BY <3>1, <3>2, <3>3
  <2>6. ListInv'
    BY <1>1, <1>2, <1>5, <2>3, <2>5 DEF CloningInv, ListInv, HandingOut, Finished
  <2>7. PlacesInv'
    BY <1>1, <1>2, <1>5 DEF CloningInv, ListInv, PlacesInv, HandingOut, Finished
  <2>. QED
    BY <1>4, <2>4, <2>6, <2>7 DEF CloningInv
<1>6. CASE /\ labels' = labels \cup Labels!Page /\ Labels!After = Labels!Page
           /\ lpc' = "send" /\ toCreate' = labels' /\ UNCHANGED <<cursor, lres, faults>>
  <2>1. Labels!TypeOK'
    BY <1>1, <1>3, <1>6 DEF CloningInv, Labels!TypeOK, Labels!Labels
  <2>2. throughout \subseteq labels'
    BY <1>1, <1>3, <1>6 DEF CloningInv, ListInv, Labels!TypeOK
  <2>3. ListInv' /\ PlacesInv'
    BY <1>1, <1>2, <1>6, <2>2 DEF CloningInv, ListInv, PlacesInv, HandingOut, Finished
  <2>. QED
    BY <1>4, <2>1, <2>3 DEF CloningInv
<1>7. CASE Labels!Fault /\ lpc' = "done" /\ lres' = "error" /\ UNCHANGED <<cursor, labels, toCreate>>
  <2>1. Labels!TypeOK'
    BY <1>1, <1>7 DEF CloningInv, Labels!TypeOK, Labels!Fault
  <2>2. ListInv' /\ PlacesInv'
    BY <1>1, <1>2, <1>7 DEF CloningInv, ListInv, PlacesInv, HandingOut, Finished
  <2>. QED
    BY <1>4, <2>1, <2>2 DEF CloningInv
<1>. QED
  BY <1>5, <1>6, <1>7 DEF Labels!ListPage, Labels!HasNextPage

LEMMA OthersInSourcePreserves == CloningInv /\ Labels!OthersInSource => CloningInv'
<1>. SUFFICES ASSUME CloningInv, Labels!OthersInSource PROVE CloningInv'
  OBVIOUS
<1>. USE LabelAssumption DEF Labels!LabelBounds
<1>1. /\ lpc = "list" /\ others < MaxOthers /\ others' = others + 1
      /\ UNCHANGED <<cursor, labels, dest, force, lpc, lres, toCreate, worker, failed, successCount, wrote, kept, faults>>
  BY DEF Labels!OthersInSource
<1>. DEFINE Changed == /\ throughout' \subseteq throughout /\ throughout' \subseteq source' /\ source' \subseteq 1..created'
                       /\ created' \in created..MaxLabels
<1>2. Changed
  <2>1. created \in 0..MaxLabels /\ source \subseteq 1..created /\ throughout \subseteq source
    BY DEF CloningInv, Labels!TypeOK
  <2>2. CASE created < MaxLabels /\ created' = created + 1 /\ source' = source \cup {created'} /\ UNCHANGED throughout
    BY <2>1, <2>2
  <2>3. ASSUME NEW l \in source, source' = source \ {l}, throughout' = throughout \ {l}, UNCHANGED created
        PROVE  Changed
    BY <2>1, <2>3
  <2>. QED
    BY <2>2, <2>3 DEF Labels!OthersInSource
<1>3. InHand' = InHand /\ (OneEach' <=> OneEach)
  BY <1>1 DEF InHand, OneEach, Held
<1>4. Labels!TypeOK'
  BY <1>1, <1>2 DEF CloningInv, Labels!TypeOK
<1>5. ListInv' /\ PlacesInv' /\ CountInv'
  BY <1>1, <1>2, <1>3 DEF CloningInv, ListInv, PlacesInv, CountInv, HandingOut, Finished
<1>. QED
  BY <1>4, <1>5 DEF CloningInv

-----------------------------------------------------------------------------
\* Handing out the labels, and the end of the command.

LEMMA SendPreserves == ASSUME CloningInv, NEW w \in Workers, Labels!Send(w) PROVE CloningInv'
<1>. PICK l \in toCreate : /\ worker' = [worker EXCEPT ![w] = [at |-> "post", label |-> l]]
                           /\ toCreate' = toCreate \ {l}
  BY DEF Labels!Send
<1>1. /\ lpc = "send" /\ ~Held(w)
      /\ UNCHANGED <<source, created, cursor, labels, throughout, dest, force, lpc, lres, failed, successCount, wrote,
                     kept, others, faults>>
  BY DEF Labels!Send, Labels!listing, Held, Labels!Idle
<1>2. l \in Labels!Labels /\ l \notin InHand /\ OneEach /\ Labels!TypeOK
  BY DEF CloningInv, PlacesInv, Labels!TypeOK
<1>3. WorkerTyped' /\ OneEach' /\ InHand' = InHand \cup {l}
  BY <1>1, <1>2, Takes
<1>4. Labels!TypeOK'
  BY <1>1, <1>2, <1>3 DEF Labels!TypeOK, WorkerTyped
<1>5. ListInv' /\ PlacesInv' /\ CountInv'
  BY <1>1, <1>3 DEF CloningInv, ListInv, PlacesInv, CountInv, HandingOut, Finished
<1>. QED
  BY <1>4, <1>5 DEF CloningInv

LEMMA CloseChannelPreserves == CloningInv /\ Labels!CloseChannel => CloningInv'
<1>. SUFFICES ASSUME CloningInv, Labels!CloseChannel PROVE CloningInv'
  OBVIOUS
<1>1. /\ lpc = "send" /\ toCreate = {} /\ lpc' = "wait"
      /\ UNCHANGED <<source, created, cursor, labels, throughout, dest, force, lres, toCreate, worker, failed, successCount,
                     wrote, kept, others, faults>>
  BY DEF Labels!CloseChannel, Labels!listing
<1>2. InHand' = InHand /\ (OneEach' <=> OneEach)
  BY <1>1 DEF InHand, OneEach, Held
<1>3. Labels!TypeOK'
  BY <1>1 DEF CloningInv, Labels!TypeOK
<1>4. ListInv' /\ PlacesInv' /\ CountInv'
  BY <1>1, <1>2 DEF CloningInv, ListInv, PlacesInv, CountInv, HandingOut, Finished
<1>. QED
  BY <1>3, <1>4 DEF CloningInv

LEMMA ReturnPreserves == CloningInv /\ Labels!Return => CloningInv'
<1>. SUFFICES ASSUME CloningInv, Labels!Return PROVE CloningInv'
  OBVIOUS
<1>1. /\ lpc = "wait" /\ lpc' = "done" /\ lres' = IF failed THEN "error" ELSE "ok"
      /\ UNCHANGED <<source, created, cursor, labels, throughout, dest, force, toCreate, worker, failed, successCount,
                     wrote, kept, others, faults>>
  BY DEF Labels!Return, Labels!listing
<1>2. InHand' = InHand /\ (OneEach' <=> OneEach) /\ InHand = {}
  BY <1>1 DEF InHand, OneEach, Held, Labels!Return, Labels!WaitForAll, Labels!Exited
<1>3. Labels!TypeOK'
  BY <1>1 DEF CloningInv, Labels!TypeOK
<1>4. ListInv' /\ PlacesInv' /\ CountInv'
  BY <1>1, <1>2 DEF CloningInv, ListInv, PlacesInv, CountInv, HandingOut, Finished
<1>. QED
  BY <1>3, <1>4 DEF CloningInv

LEMMA OthersInDestPreserves == CloningInv /\ Labels!Others => CloningInv'
<1>. SUFFICES ASSUME CloningInv, Labels!Others PROVE CloningInv'
  OBVIOUS
<1>. USE LabelAssumption DEF Labels!LabelBounds
<1>1. /\ others < MaxOthers /\ others' = others + 1
      /\ UNCHANGED <<source, created, cursor, labels, throughout, force, lpc, lres, toCreate, worker, failed, successCount,
                     wrote, kept, faults>>
  BY DEF Labels!Others, Labels!listing
<1>2. dest' \in [Labels!Labels -> {"absent", "other", "copy"}]
  BY DEF Labels!Others, CloningInv, Labels!TypeOK
<1>3. InHand' = InHand /\ (OneEach' <=> OneEach)
  BY <1>1 DEF InHand, OneEach, Held
<1>4. Labels!TypeOK'
  BY <1>1, <1>2 DEF CloningInv, Labels!TypeOK
<1>5. ListInv' /\ PlacesInv' /\ CountInv'
  BY <1>1, <1>3 DEF CloningInv, ListInv, PlacesInv, CountInv, HandingOut, Finished
<1>. QED
  BY <1>4, <1>5 DEF CloningInv

LEMMA LeavePreserves == ASSUME CloningInv, NEW w \in Workers, Labels!Leave(w) PROVE CloningInv'
<1>1. /\ ~Held(w) /\ worker' = [worker EXCEPT ![w] = Labels!Exited]
      /\ UNCHANGED <<source, created, cursor, labels, throughout, dest, force, lpc, lres, toCreate, failed, successCount,
                     wrote, kept, others, faults>>
  BY DEF Labels!Leave, Labels!listing, Held, Labels!Idle
<1>2. WorkerTyped' /\ OneEach' /\ InHand' = InHand
  BY <1>1, HoldsOn DEF CloningInv, PlacesInv
<1>3. Labels!TypeOK'
  BY <1>1, <1>2 DEF CloningInv, Labels!TypeOK, WorkerTyped
<1>4. ListInv' /\ PlacesInv' /\ CountInv'
  BY <1>1, <1>2 DEF CloningInv, ListInv, PlacesInv, CountInv, HandingOut, Finished
<1>. QED
  BY <1>3, <1>4 DEF CloningInv

-----------------------------------------------------------------------------
\* What becomes of the label that a worker has.

RestTyped == dest \in [Labels!Labels -> {"absent", "other", "copy"}] /\ faults \in 0..MaxFaults
OfWorker(w) ==
    /\ Held(w) /\ RestTyped'
    /\ UNCHANGED <<source, created, cursor, labels, throughout, force, lpc, lres, toCreate, others>>
Becomes(w, s) == worker' = [worker EXCEPT ![w] = s]

Writes(w) ==
    /\ OfWorker(w) /\ Becomes(w, Labels!Idle) /\ wrote' = wrote \cup {worker[w].label}
    /\ successCount' = successCount + 1 /\ UNCHANGED <<failed, kept>>
Skips(w) ==
    /\ OfWorker(w) /\ Becomes(w, Labels!Idle) /\ kept' = kept \cup {worker[w].label} /\ ~force
    /\ UNCHANGED <<failed, successCount, wrote>>
Patches(w) ==
    /\ OfWorker(w) /\ worker' = [worker EXCEPT ![w].at = "patch"] /\ UNCHANGED <<failed, successCount, wrote, kept>>
Fails(w) ==
    /\ OfWorker(w) /\ Becomes(w, Labels!Exited) /\ failed' = TRUE /\ UNCHANGED <<successCount, kept>>
    /\ wrote' \in {wrote, wrote \cup {worker[w].label}}

LEMMA Outcomes ==
  ASSUME CloningInv, NEW w \in Workers, Labels!CreateLabel(w) \/ Labels!UpdateLabel(w)
  PROVE  Writes(w) \/ Skips(w) \/ Patches(w) \/ Fails(w)
<1>. USE LabelAssumption DEF Labels!LabelBounds
<1>. DEFINE l == worker[w].label
<1>1. /\ Held(w) /\ Labels!TypeOK /\ l \in Labels!Labels
      /\ UNCHANGED <<source, created, cursor, labels, throughout, force, lpc, lres, toCreate, others>>
  <2>1. Held(w) /\ UNCHANGED <<source, created, cursor, labels, throughout, force, lpc, lres, toCreate, others>>
    BY DEF Labels!CreateLabel, Labels!UpdateLabel, Labels!listing, Held
  <2>. QED
    BY <2>1, HeldTyped DEF CloningInv
<1>2. \/ Labels!Write(l) /\ Labels!Count /\ Labels!GoOn(w) /\ UNCHANGED <<kept, faults>>
      \/ Labels!NoWrite /\ Labels!AlreadyExists(w) /\ UNCHANGED faults
      \/ Labels!NoWrite /\ Labels!Fail(w) /\ UNCHANGED <<successCount, kept, faults>>
      \/ Labels!RequestFails(w, TRUE)
  BY DEF Labels!CreateLabel, Labels!UpdateLabel, Labels!RequestFails
<1>3. RestTyped'
  <2>1. dest' \in [Labels!Labels -> {"absent", "other", "copy"}]
    BY <1>1, <1>2 DEF Labels!TypeOK, Labels!Write, Labels!NoWrite, Labels!RequestFails
  <2>2. faults' \in 0..MaxFaults
    BY <1>1, <1>2 DEF Labels!TypeOK, Labels!RequestFails, Labels!Fault
  <2>. QED
    BY <2>1, <2>2 DEF RestTyped
<1>4. OfWorker(w)
  BY <1>1, <1>3 DEF OfWorker
<1>. QED
  BY <1>2, <1>4 DEF Labels!Write, Labels!NoWrite, Labels!Count, Labels!GoOn, Labels!Fail, Labels!RequestFails,
     Labels!AlreadyExists, Labels!SkipExisting, Labels!PatchExisting, Labels!Keep, Writes, Skips, Patches, Fails, Becomes

\* Writing a label that was in a worker's hand counts it once.
LEMMA CountOnce ==
  ASSUME CloningInv, NEW w \in Workers, Held(w)
  PROVE  /\ Cardinality(wrote \cup {worker[w].label}) = Cardinality(wrote) + 1
         /\ wrote \cup {worker[w].label} \subseteq Labels!Labels
         /\ Cardinality(wrote) \in Nat
         /\ Cardinality(wrote \cup {worker[w].label}) <= Cardinality(Labels!Labels)
<1>1. worker[w].label \in Labels!Labels /\ worker[w].label \notin wrote /\ wrote \in SUBSET Labels!Labels
  BY HeldTyped DEF CloningInv, PlacesInv, Labels!TypeOK
<1>. QED
  BY <1>1, FiniteLabels, FS_AddElement

LEMMA WritesPreserves == ASSUME CloningInv, NEW w \in Workers, Writes(w) PROVE CloningInv'
<1>. DEFINE l == worker[w].label
<1>1. /\ Held(w) /\ OfWorker(w) /\ wrote' = wrote \cup {l} /\ successCount' = successCount + 1
      /\ UNCHANGED <<failed, kept>>
  BY DEF Writes, OfWorker
<1>2. WorkerTyped' /\ OneEach' /\ InHand' = InHand \ {l}
  BY Releases DEF CloningInv, PlacesInv, Writes, Becomes, OfWorker
<1>3. l \in InHand
  BY <1>1, HeldTyped DEF CloningInv
<1>4. CountInv'
  BY <1>1, CountOnce DEF CloningInv, CountInv, OfWorker
<1>5. successCount' \in 0..Labels!Cardinality(Labels!Labels)
  BY <1>1, <1>4, CountOnce, FiniteLabels, SameCardinality DEF CountInv
<1>6. Labels!TypeOK'
  BY <1>1, <1>2, <1>5, CountOnce DEF CloningInv, Labels!TypeOK, WorkerTyped, OfWorker, RestTyped
<1>7. ListInv' /\ PlacesInv'
  BY <1>1, <1>2, <1>3 DEF CloningInv, ListInv, PlacesInv, HandingOut, Finished, OfWorker
<1>. QED
  BY <1>4, <1>6, <1>7 DEF CloningInv

LEMMA SkipsPreserves == ASSUME CloningInv, NEW w \in Workers, Skips(w) PROVE CloningInv'
<1>. DEFINE l == worker[w].label
<1>1. /\ Held(w) /\ OfWorker(w) /\ kept' = kept \cup {l} /\ ~force /\ UNCHANGED <<failed, successCount, wrote>>
  BY DEF Skips, OfWorker
<1>2. WorkerTyped' /\ OneEach' /\ InHand' = InHand \ {l}
  BY Releases DEF CloningInv, PlacesInv, Skips, Becomes, OfWorker
<1>3. l \in InHand /\ l \in Labels!Labels
  BY <1>1, HeldTyped DEF CloningInv
<1>4. Labels!TypeOK'
  BY <1>1, <1>2, <1>3 DEF CloningInv, Labels!TypeOK, WorkerTyped, OfWorker, RestTyped
<1>5. ListInv' /\ PlacesInv' /\ CountInv'
  BY <1>1, <1>2, <1>3 DEF CloningInv, ListInv, PlacesInv, CountInv, HandingOut, Finished, OfWorker
<1>. QED
  BY <1>4, <1>5 DEF CloningInv

LEMMA PatchesPreserves == ASSUME CloningInv, NEW w \in Workers, Patches(w) PROVE CloningInv'
<1>1. Held(w) /\ OfWorker(w) /\ UNCHANGED <<failed, successCount, wrote, kept>>
  BY DEF Patches, OfWorker
<1>2. WorkerTyped' /\ OneEach' /\ InHand' = InHand
  BY <1>1, HoldsOn DEF CloningInv, PlacesInv, Patches
<1>3. Labels!TypeOK'
  BY <1>1, <1>2 DEF CloningInv, Labels!TypeOK, WorkerTyped, OfWorker, RestTyped
<1>4. ListInv' /\ PlacesInv' /\ CountInv'
  BY <1>1, <1>2 DEF CloningInv, ListInv, PlacesInv, CountInv, HandingOut, Finished, OfWorker
<1>. QED
  BY <1>3, <1>4 DEF CloningInv

LEMMA FailsPreserves == ASSUME CloningInv, NEW w \in Workers, Fails(w) PROVE CloningInv'
<1>. DEFINE l == worker[w].label
<1>1. /\ Held(w) /\ OfWorker(w) /\ wrote' \in {wrote, wrote \cup {l}} /\ failed' = TRUE
      /\ UNCHANGED <<successCount, kept>>
  BY DEF Fails, OfWorker
<1>2. WorkerTyped' /\ OneEach' /\ InHand' = InHand \ {l}
  BY Releases DEF CloningInv, PlacesInv, Fails, Becomes, OfWorker
<1>3. l \in InHand
  BY <1>1, HeldTyped DEF CloningInv
<1>4. CountInv'
  BY <1>1, CountOnce DEF CloningInv, CountInv, OfWorker
<1>5. Labels!TypeOK'
  BY <1>1, <1>2, CountOnce DEF CloningInv, Labels!TypeOK, WorkerTyped, OfWorker, RestTyped
<1>6. ListInv' /\ PlacesInv'
  BY <1>1, <1>2, <1>3 DEF CloningInv, ListInv, PlacesInv, HandingOut, Finished, OfWorker
<1>. QED
  BY <1>4, <1>5, <1>6 DEF CloningInv

-----------------------------------------------------------------------------
\* The invariant.

LEMMA SetupStarts == Init => SetupInv
<1>. SUFFICES ASSUME Init PROVE SetupInv
  OBVIOUS
<1>1. TypeOK
  <2>1. (server \subseteq Repos /\ ready \subseteq server /\ before \subseteq Repos /\ op \in Op)
    BY DEF Init, Repos
  <2>2. (remotes \in [Remotes -> Repos \cup {"none"}])
    BY DEF Init, Repos
  <2>3. (dir \in {"absent", "empty", "clone"} /\ resolution \in Remotes \cup {"none"})
    BY DEF Init
  <2>4. (pushed \in BOOLEAN /\ clean \in BOOLEAN /\ meddled \in BOOLEAN)
    BY DEF Init
  <2>5. (res \in {"none", "ok", "error"} /\ tries \in 0..3 /\ runs \in 1..MaxRuns /\ faults \in 0..MaxFaults)
    BY SetupAssumption DEF Init
  <2>6. (pc \in {"check", "create", "update", "init", "add", "push", "fork", "rename_fork", "find", "rename", "clone",
               "add_upstream", "fetch", "resolve", "done"})
    BY DEF Init, FirstStep
  <2>. QED
    BY <2>1, <2>2, <2>3, <2>4, <2>5, <2>6 DEF TypeOK
<1>2. StepsInv /\ CreateInv /\ ForkInv /\ CloneInv /\ (res = "ok" => Promised)
  BY DEF Init, FirstStep, Op, StepsInv, CreateInv, ForkInv, CloneInv, InCreate, InFork, ClonesFork
<1>3. BeforeInv
  BY DEF Init, BeforeInv, Has, Repos, Remotes
<1>. QED
  BY <1>1, <1>2, <1>3 DEF SetupInv

LEMMA CloningStarts == Labels!Init => CloningInv
<1>. SUFFICES ASSUME Labels!Init PROVE CloningInv
  OBVIOUS
<1>1. \A w \in Workers : ~Held(w)
  BY DEF Labels!Init, Held, Labels!Idle
<1>2. InHand = {} /\ OneEach
  BY <1>1 DEF InHand, OneEach
<1>3. Cardinality({}) = 0 /\ Cardinality(Labels!Labels) \in Nat
  BY FS_EmptySet, FiniteLabels
<1>4. Labels!TypeOK
  <2>1. successCount \in 0..Labels!Cardinality(Labels!Labels)
    BY <1>3, SameCardinality DEF Labels!Init
  <2>2. /\ others \in 0..MaxOthers /\ faults \in 0..MaxFaults /\ created \in 0..MaxLabels /\ cursor \in 0..MaxLabels
        /\ force \in BOOLEAN
    BY LabelAssumption DEF Labels!Init, Labels!LabelBounds
  <2>3. worker \in [Workers -> Labels!Busy \cup {Labels!Idle, Labels!Exited}]
    BY DEF Labels!Init
  <2>4. dest \in [Labels!Labels -> {"absent", "other", "copy"}]
    BY DEF Labels!Init
  <2>. QED
    BY <2>1, <2>2, <2>3, <2>4 DEF Labels!Init, Labels!TypeOK
<1>5. ListInv /\ PlacesInv /\ CountInv
  BY <1>2, <1>3 DEF Labels!Init, ListInv, PlacesInv, CountInv, HandingOut, Finished
<1>. QED
  BY <1>4, <1>5 DEF CloningInv

LEMMA SetupSteps == SetupInv /\ Next => SetupInv'
BY CheckPreserves, RepoCreatePreserves, UpdateRepositoryPreserves, LocalInitPreserves, AddOriginPreserves, PushPreserves,
   ForkRepoPreserves, RenameForkPreserves, FindRemotePreserves, RenameRemotePreserves, ClonePreserves, AddUpstreamPreserves,
   FetchPreserves, SetRemoteResolutionPreserves, CopiedPreserves, OthersPreserves, AgainPreserves DEF Next, Setup

LEMMA CloningSteps == CloningInv /\ Labels!Next => CloningInv'
BY ListPagePreserves, OthersInSourcePreserves, SendPreserves, CloseChannelPreserves, ReturnPreserves, OthersInDestPreserves,
   LeavePreserves, Outcomes, WritesPreserves, SkipsPreserves, PatchesPreserves, FailsPreserves
   DEF Labels!Next, Labels!Worker

\* The two commands share nothing but the bound on failures.
LEMMA CloningStays == CloningInv /\ UNCHANGED cloning /\ faults' \in 0..MaxFaults => CloningInv'
<1>. SUFFICES ASSUME CloningInv, UNCHANGED cloning, faults' \in 0..MaxFaults PROVE CloningInv'
  OBVIOUS
<1>1. UNCHANGED <<source, created, cursor, labels, throughout, dest, force, lpc, lres, toCreate, worker, failed, successCount,
                  wrote, kept, others>>
  BY DEF cloning
<1>2. InHand' = InHand /\ (OneEach' <=> OneEach)
  BY <1>1 DEF InHand, OneEach, Held
<1>3. Labels!TypeOK'
  BY <1>1 DEF CloningInv, Labels!TypeOK
<1>4. ListInv' /\ PlacesInv' /\ CountInv'
  BY <1>1, <1>2 DEF CloningInv, ListInv, PlacesInv, CountInv, HandingOut, Finished
<1>. QED
  BY <1>3, <1>4 DEF CloningInv

LEMMA SetupStays ==
  ASSUME SetupInv, faults' \in 0..MaxFaults,
         UNCHANGED <<server, ready, disk, pushed, op, pc, res, tries, history, clean, meddled>>
  PROVE  SetupInv'
<1>1. UNCHANGED <<server, ready, dir, remotes, resolution, pushed, op, pc, res, tries, before, runs, clean, meddled>>
  BY DEF disk, history
<1>2. TypeOK' /\ StepsInv' /\ CreateInv' /\ CloneInv'
  BY <1>1 DEF SetupInv, TypeOK, StepsInv, CreateInv, CloneInv, InCreate, InFork, ClonesFork
<1>3. BeforeInv' /\ ForkInv' /\ (res = "ok" => Promised)'
  BY <1>1 DEF SetupInv, BeforeInv, ForkInv, Promised, Has
<1>. QED
  BY <1>2, <1>3 DEF SetupInv

LEMMA ForgetPreserves == SetupInv /\ res = "ok" /\ Forget /\ UNCHANGED <<pc, res, faults>> => SetupInv'
<1>. SUFFICES ASSUME SetupInv, res = "ok", Forget, UNCHANGED <<pc, res, faults>> PROVE SetupInv'
  OBVIOUS
<1>1. pc = "done" /\ TypeOK
  BY DEF SetupInv, StepsInv
<1>2. /\ op'.name = "scratch" /\ op'.flag /\ op'.commits = FALSE /\ op'.rename = FALSE
      /\ op' \in Op
  BY DEF Forget, Op
<1>3. remotes' \in [Remotes -> Repos \cup {"none"}] /\ remotes'["origin"] = "new"
  BY DEF Forget, Remotes, Repos
<1>4. TypeOK'
  <2>1. (server \subseteq Repos /\ ready \subseteq server /\ before \subseteq Repos /\ op \in Op)'
    BY <1>2 DEF Forget, Repos
  <2>2. (remotes \in [Remotes -> Repos \cup {"none"}])'
    BY <1>3
  <2>3. (dir \in {"absent", "empty", "clone"} /\ resolution \in Remotes \cup {"none"})'
    BY DEF Forget
  <2>4. (pushed \in BOOLEAN /\ clean \in BOOLEAN /\ meddled \in BOOLEAN)'
    BY DEF Forget
  <2>5. (res \in {"none", "ok", "error"} /\ tries \in 0..3 /\ runs \in 1..MaxRuns /\ faults \in 0..MaxFaults)'
    BY <1>1, SetupAssumption DEF Forget, TypeOK
  <2>6. (pc \in {"check", "create", "update", "init", "add", "push", "fork", "rename_fork", "find", "rename", "clone",
               "add_upstream", "fetch", "resolve", "done"})'
    BY <1>1
  <2>. QED
    BY <2>1, <2>2, <2>3, <2>4, <2>5, <2>6 DEF TypeOK
<1>5. StepsInv' /\ BeforeInv' /\ CreateInv' /\ ForkInv' /\ CloneInv'
  BY <1>1, <1>2 DEF Forget, StepsInv, BeforeInv, CreateInv, ForkInv, CloneInv, ClonesFork, InCreate, InFork
<1>6. Promised'
  BY <1>2, <1>3 DEF Forget, Promised
<1>. QED
  BY <1>4, <1>5, <1>6 DEF SetupInv

\* The invariant: it holds at the start and every step of either command, of the service or
\* of somebody else preserves it.
THEOREM NewInvariance == NewSpec => []NewInv
<1>1. NewInit => NewInv
  BY SetupStarts, CloningStarts DEF NewInit, NewInv
<1>2. NewInv /\ [NewNext]_allVars => NewInv'
  <2>. SUFFICES ASSUME NewInv, [NewNext]_allVars PROVE NewInv'
    OBVIOUS
  <2>1. CASE SettingUp(Next)
    <3>1. SetupInv' /\ UNCHANGED <<stage, cloning>>
      BY <2>1, SetupSteps DEF SettingUp, NewInv
    <3>2. CloningInv'
      BY <3>1, CloningStays DEF SetupInv, TypeOK, NewInv
    <3>. QED
      BY <3>1, <3>2 DEF NewInv
  <2>2. CASE LabelsNext
    <3>1. SetupInv' /\ UNCHANGED <<faults, cloning>> /\ stage' = "labels"
      BY <2>2, ForgetPreserves DEF LabelsNext, Cloning, NewInv
    <3>2. CloningInv'
      BY <3>1, CloningStays DEF SetupInv, TypeOK, NewInv
    <3>. QED
      BY <3>1, <3>2 DEF NewInv
  <2>3. CASE InLabels(Labels!Next)
    <3>1. CloningInv' /\ UNCHANGED stage /\ UNCHANGED <<server, ready, disk, pushed, op, pc, res, tries, history, clean, meddled>>
      BY <2>3, CloningSteps DEF InLabels, NewInv
    <3>2. SetupInv'
      BY <3>1, SetupStays DEF CloningInv, Labels!TypeOK, NewInv
    <3>. QED
      BY <3>1, <3>2 DEF NewInv
  <2>4. CASE UNCHANGED allVars
    <3>1. UNCHANGED <<stage, cloning, faults>>
          /\ UNCHANGED <<server, ready, disk, pushed, op, pc, res, tries, history, clean, meddled>>
      BY <2>4 DEF allVars, vars, disk, history
    <3>2. SetupInv' /\ CloningInv'
      BY <3>1, SetupStays, CloningStays DEF SetupInv, TypeOK, NewInv
    <3>. QED
      BY <3>1, <3>2 DEF NewInv
  <2>. QED
    BY <2>1, <2>2, <2>3, <2>4 DEF NewNext
<1>. QED
  BY <1>1, <1>2, PTL DEF NewSpec

-----------------------------------------------------------------------------
\* The properties.

\* create, fork and clone: whatever fails and is run again, and whatever remote others add
\* meanwhile, success keeps its promise, no remote is lost, nothing is created on the
\* server for want of commits to push, and fork --remote fails by itself only where a
\* remote of another repository is in its way.
THEOREM SetUpKeepsItsPromise == NewSpec => []SetUpRight
<1>1. NewInv => SetUpRight
  BY DEF NewInv, SetupInv, BeforeInv, CreateInv, ForkInv, SetUpRight
<1>. QED
  BY <1>1, NewInvariance, PTL

\* label clone: on success every label that the source had all the time was written or found,
\* and the number that is reported is that of the labels written.
THEOREM LabelCloneHonest == NewSpec => []SuccessHonest
<1>1. NewInv => SuccessHonest
  <2>. SUFFICES ASSUME NewInv, lres = "ok"
                PROVE  /\ throughout \subseteq wrote \cup kept
                       /\ wrote \cup kept = labels
                       /\ force => kept = {}
                       /\ successCount = Cardinality(wrote)
    BY SameCardinality DEF SuccessHonest, Labels!SuccessHonest
  <2>1. Finished
    BY DEF NewInv, CloningInv, ListInv, Finished
  <2>2. ~failed /\ InHand = {} /\ toCreate = {} /\ throughout \subseteq labels
    BY <2>1 DEF NewInv, CloningInv, ListInv, HandingOut, Finished
  <2>3. wrote \cup kept = labels
    BY <2>1, <2>2 DEF NewInv, CloningInv, PlacesInv, HandingOut
  <2>. QED
    BY <2>2, <2>3 DEF NewInv, CloningInv, CountInv
<1>. QED
  BY <1>1, NewInvariance, PTL
=============================================================================
