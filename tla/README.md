# A verification of the GitHub CLI in TLA+

The repository is a copy of `gh`, the GitHub CLI, written in Go. This directory holds TLA+
modules of those parts of it that keep state which can be got wrong (credentials,
migrations, releases, codespaces, repositories and their clones, pull requests, logs,
extensions), the configurations with which TLC checks them on small instances, and theorems
that TLAPS proves for instances of every size.

Contents: (1) the system and its components, with those left out and why, (2) the modules
and how they correspond to the code, (3) what the runs check and with which bounds, (4)
fairness and deadlock, (5) what is proved, (6) known deviations, where the code does
something else than one might expect, (7) limits, (8) what comes next. Paths are relative to
`src/`.

To repeat everything, in this directory:

    tlc -workers 2 -config AuthFaults.cfg MCAuthConfig    # and so on, see 3
    tlapm AuthConfigProofs.tla                            # and so on, see 5

## 1. The system

A `gh` invocation is a short-lived process. `internal/ghcmd/cmd.go` (Main) reads the
configuration, migrates it if it is of the old layout, starts the check for a newer release
in a goroutine, runs one command of `pkg/cmd`, and exits. There is no daemon: what outlives
a process is in files (`hosts.yml`, `config.yml`, the extension directories, caches), in the
system keyring, in the local git repository and on the servers. So the hard behaviours are
of two kinds:

  - between processes: two commands at once, or one after another that failed or was killed
    half-way, on files that are read once and written back whole, on a keyring that may
    answer late, on a clone in which the user runs git and an editor, and on servers that
    others use too;
  - inside a process: commands that start goroutines (uploads, downloads, deletions,
    lookups, tunnels, heartbeats, clones, update checks), cancel them with a context, and
    must not forget one; and chains of requests and git commands of which one fails.

### Components with a module

**Credential store** (`internal/config/config.go`, `internal/keyring`, `pkg/cmd/auth`).
State: for each host in `hosts.yml` the accounts, the active one, a plain-text token for
each and one for the host; in the keyring a slot for each account and one without a name,
for the active account. Operations: `Login`, `SwitchUser`, `Logout`, `activateUser`, and
reading the active token, called by `gh auth login`, `refresh`, `switch` and `logout`. Hard:
a token is in up to four places; every keyring call may fail, or give up after three seconds
while the backend carries it out later; a process may die between any two calls; `hosts.yml`
is read at the start and written back whole. Correct when no account is ever paired with
another one's token, the account that `hosts.yml` names is the one whose token is used, a
failed switch changes nothing, a successful login takes effect, and no token is lost but by
a logout.

**Multi-account migration** (`internal/config/migration/multi_account.go`, `Migrate` in
`config.go`). It runs at the start of every command until the version in `config.yml` says
that it has been done; it copies each host's token to its account's keyring slot, rewrites
`hosts.yml`, then writes the version. Hard: several hosts of which one fails; a crash
between the two files; two processes at once. Correct when `hosts.yml` is untouched or
completely migrated, no host that has a token is dropped, and the version is written only
when all tokens are where the new code looks for them.

**Releases** (`pkg/cmd/release`). *Lookup* (`shared/fetch.go`): two requests race, the first
good answer cancels the other. *Publication and upload* (`create`, `upload`,
`shared/upload.go`): the release (none, draft, published, deleted) and its assets on the
server, the workers of the upload; create, upload, upload `--clobber`, publish, clean up.
*Download* (`download`): workers that write the assets to files. *Delete, delete-asset,
edit*: requests about the release that the lookup found. Hard: concurrent workers of which
one fails, retries, answers that are lost after the request took effect, other users who
replace the release while the user confirms. Correct when the lookup's answer is honest,
nothing is published that lacks a file, failures are cleaned up, a clobber loses no more
than it must, files of the user are not overwritten unasked, nothing is changed but what was
found, no goroutine is left, and the command ends.

**Codespaces: create, delete, stop** (`pkg/cmd/codespace/create.go`, `delete.go`, `stop.go`,
requests of `internal/codespaces/api`). A creation is answered, or polled, or refused until
permissions are given; deletions run in goroutines after questions. Hard: lost answers,
timeouts, others who manage the same codespaces. Correct when one creation makes one
codespace, every codespace to be deleted is gone or reported, and none is deleted that was
not agreed to.

**Codespaces: start and creation status** (`internal/codespaces/codespaces.go`, `states.go`,
`pkg/cmd/codespace/create.go`, `StartCodespace` in `internal/codespaces/api`). A loop polls
until the codespace is available and asks for a start when it is shut down; a second one
polls the steps of its creation. Hard: others stop, start and rebuild it; what is read is
already old. Correct when there is no second start, the wait succeeds, and the command
returns.

**Codespaces: session** (`pkg/cmd/codespace/ssh.go`, `internal/codespaces/rpc`,
`connection`, `portforwarder`). Five goroutines around one tunnel client: the command, the
forwarder of the RPC port, the heartbeat, the forwarder of the ssh port, the shell. Correct
when there is one connection, activity reaches the codespace so that it does not shut down,
and the session ends when the shell or the tunnel does.

**Codespaces: port visibility** (`internal/codespaces/portforwarder`,
`pkg/cmd/codespace/ports.go`). A visibility is changed by deleting the port and forwarding
it again, within thirty seconds, with a rollback. Correct when success means the new
visibility, and failure leaves the port with one of the two.

**Repository create, fork, clone** (`pkg/cmd/repo/create`, `fork`, `clone`). Chains of
requests and git commands that make a repository on the server, a clone, and remotes; each
may fail, and be run again on what it left. Correct when success keeps its promise, no
remote is lost, and a repeated command does not fail on its own leavings.

**Label clone** (`pkg/cmd/label`). Labels are listed page by page; ten workers take them
from a channel and create or overwrite them. Correct when success means that all are there,
the count is right, labels of others are not overwritten without `--force`, and the command
returns.

**Workflow runs** (`pkg/cmd/run`). *Watch*: a poll loop that reads a run, its jobs and their
annotations one after the other. *Logs* (`view --log`): a cache of archives, shared by
processes and filled in place. *Rerun, cancel, delete* change what both look at. Correct
when the last picture is of the finished run, annotations once shown are not lost, and a log
is that of the attempt that was asked for.

**Extension manager** (`pkg/cmd/extension/manager.go`, `extension.go`, `http.go`). State:
for each extension a directory with a manifest and an executable, or with a git clone and
pin files. Operations: install, upgrade, remove. Hard: files replaced in place one after
another, a kill in between, pins against forced upgrades, a script that becomes a binary.
Correct when pins hold, what is reported is true, and what a failed upgrade leaves can be
repaired.

**Main, extension commands and the update notifier** (`internal/ghcmd`, `internal/update`,
`pkg/cmd/root/extension.go`). A goroutine for `gh`, and one for the extension that is run,
look for a new release, keep the time of the last look in a state file, and hand over their
answer on an unbuffered channel. Correct when the user is told at most once a day, and the
command is not held up.

**Git clone and pull requests** (`git/client.go`, `pkg/cmd/repo/sync`,
`pkg/cmd/pr/checkout`, `merge`, `create`). State: the local branches, what is checked out,
uncommitted changes, tracking refs, FETCH_HEAD, remotes; the branches of the repository and
of a fork; the pull request. Operations: sync of a local branch and of a fork, checkout,
merge with its deletions, create with fork, remotes and push. Hard: each command looks with
one git command and acts with another; the user runs git and an editor meanwhile, others
push; each step may fail. Correct when no commit and no edit of the user is lost unasked,
branches are deleted only after a merge, what was fetched is what is brought, and a new pull
request shows the branch.

### Components without a module

| Component | What it does, and why it has no module |
|---|---|
| Repository edit, garden, other repo commands | Independent requests in an error group, or single requests. |
| Pull request finder, templates, remotes and contexts | Resolution of names, with prompts; reads only. |
| Pull request checks, status, views | Reads and layout; `checks --watch` is a poll loop like that of run watch, without a cache. |
| Issues | Goroutines that share nothing; otherwise single requests. |
| Secrets and variables | One goroutine for each secret and a channel that is received exactly as often. |
| Status dashboard | Reads in workers, lists under mutexes. |
| Codespaces ports, logs, rebuild, select | Thin layers over the invoker and the forwarder, which are modelled; the ssh client is an external program. |
| Agent tasks | Requests, and a poll with back-off. |
| Attestation | Verification is the cryptography of a library; the client retries reads. |
| Terminal streams and pager | The progress indicator and the screen; no state that others rely on. |
| Feature detection | Three queries, joined before their results are used. |
| API client and queries | Requests and decoding; that they fail is the fault every module has. |
| Authentication commands | Prompts and the device flow around the credential store. |
| Other commands (gists, aliases, search, projects, rulesets, keys) | Single requests, listings and text; no state of their own. |
| Generated code, mocks, notices, scripts | Not logic of the program. |

What each modelled component leaves out is in the notes of `PROJECT.json` ("components") and
in 7. Most of the code by volume is of the kinds in this table: queries and their decoding,
flags, prompts, tables and templates.

### How they interact

  - The migration precedes every command, and leaves the layout that the credential store
    works on: its result (`MigratedEntry`) is an entry as `AuthConfig` has them, one account
    with its token in plain text or in both keyring slots. `AuthConfig` starts where no old
    layout is left.
  - Every request asks the credential store for the active token of its host
    (`api/http_client.go`). The other modules see of it only that a request may fail.
  - All release commands but create start with the lookup, and go on with an answer that may
    be old: `ReleaseCommands` composes lookup, upload, download and change.
  - A codespace is created; then the wait is shared by `create --status`, which goes on with
    the poller, by `ssh` and `cp`, which go on with the session, and by `ports visibility`,
    which goes on with the update of a port. `CodespaceCommands` composes them with the
    commands that manage codespaces. The session and the port update use the same forwarder
    and tunnel client; the session module has the client with its mutex, the port module has
    what forwarding does to a port.
  - A new repository is created and cloned; labels are cloned into it: `NewRepository`.
  - A run is watched until it completes; its log is then read, while it is run again:
    `WorkflowRuns`.
  - An extension is installed, upgraded and run; while it runs, two checkers are at work:
    `ExtensionCommands`.
  - Sync, checkout, merge and create work on one clone, one after the other: `GitCommands`.

## 2. The modules

Every step of a module is a stretch of the code between two points where others can
interfere: one request, one keyring call, one git command, one write of a file, one channel
operation. `PROJECT.json` ("map") names the lines of each definition. Each module has a
`TypeOK` that gives the types of its variables. Variables marked "history" in the modules
record what happened for the properties; no guard reads them. Definitions like
`AddUserSwapped` next to `AddUser` are mutants: the bug a plausible slip would make, used to
show that a property can fail ("mutants" in `PROJECT.json`). No behaviour uses them.

| Module | Code | State and actions |
|---|---|---|
| `AuthConfig` | `config.go` 228-506, `keyring.go`, the auth commands | `disk` is hosts.yml, `keyring` the keyring, `late` calls that timed out and may still be carried out; for each process its copy `mem`, its command and its position. `Start` reads hosts.yml; `BeginLogin`, `BeginRefresh`, `BeginSwitch`, `BeginLogout` are what the commands check before they call the store; then one action for each keyring call (`LoginKeyring`, `ClearActive`, `GetUserToken`, `SetActive`, `DeleteActiveSlot`, `DeleteUserSlot`, ...) and one for the write (`Write`). `RestorePrevious` is SwitchUser's way back. `Crash` may happen anywhere. |
| `Accounts` | `docs/multiple-accounts.md`, the doc comments of Login, SwitchUser, Logout | The abstract specification of the account list: a login adds and activates, a switch activates, a logout removes and activates another one if it removed the active one. `AuthConfig` implements it (`ImplementsAccounts`). |
| `MultiAccountMigration` | `multi_account.go`, `Migrate` | `disk`, `version`, `keyring` as above; for each process the version it read, its copy, the hosts it still has to migrate. `ReadVersion`, `ReadHosts`, `PickHost`, `GetToken`, `GetUsername`, `MigrateToken`, `WriteHosts`, `WriteVersion`, `Crash`. |
| `ReleaseFetch` | `fetch.go` 150-260 | `LookUpPublished`, `QueryDraft` and `FetchDraft` in two goroutines, `First`, `Second` and `Drain` in the caller, `Others`. |
| `ReleaseUpload` | `create.go`, `http.go`, `upload.go` | `rel` and `content` on the server, a `job` for each file, `cancelled` for the context of the error group. `CreateRelease`, `FetchAssets`, for each file `RunJob` (start, delete the old asset, attempts, retries, failure), `Wait`, `PublishRelease`, `DeleteRelease`, `Kill`, and `OtherUser`. |
| `ReleaseDownload` | `download/download.go` | `file` on disk, a `job` for each asset: `Take`, the first look (`Check`), `Get`, the second look and `Open`, `Write`; `Collect` waits for the results; `Repeat` is the same command run again, `OthersWrite` another program in the directory. |
| `ReleaseChange` | `release/delete`, `delete-asset`, `edit` | Release, asset and tag on the server with their ids, and what was `found`: `Confirm`, `DeleteRelease`, `DeleteTag`, `DeleteAsset`, `VerifyTag`, `EditRelease`. |
| `ReleaseCommands` | the RunE of the release commands | Composes the four: `Forget`, `ToUpload`, `ToChange`, `ToDownload`, `NotFound` are what a command does with the lookup's answer; `OthersChange` replaces the release meanwhile. |
| `PortVisibility` | `port_forwarder.go`, `ports.go` | `port` on the server, the command, its goroutine, the context. `GetPort`, `DeletePort`, `Goroutine` (create, connect, refresh), `RollBack` through `ReceiveOutcome`, `ForwardOld`, `SelectExpired`, `Expire`, `OtherForward`. |
| `CodespaceLifecycle` | `create.go`, `delete.go`, `stop.go`, `api.go` | `life` of each codespace and what the user has `unsaved`. Create: `StartCreate`, `PollCodespace`, `Ask` and `CheckPermissions` for refused permissions, `Deadline` for its time limits. Delete: `List`, `Confirm` one by one, `StartDeleting`, `DeleteCodespace` in goroutines, `GroupWait`. `StopCodespace`. `Provisioned` and `Others` are the service and other clients. |
| `CodespaceStart` | `codespaces.go`, `StartCodespace` | `state` of the codespace, and what the waiter has `seen`. `Check`, `Start` with its retries, `Poll`, `Timeout`; `Proceed` and `Others` change the codespace. |
| `PostCreateStatus` | `states.go`, `showStatus` | Steps appear in order and finish; `Poll` handles a batch as the loops of showStatus do. |
| `CodespaceSession` | `ssh.go`, `invoker.go`, `connection.go`, the forwarder and traffic monitor | A program counter for each of five goroutines, the mutex and the connection of the tunnel client, the channel of one keep-alive reason. |
| `CodespaceCommands` | the commands' RunE, `PollPostCreateStates` | Composes the five: `CreatedWithStatus`, `WaitOver` and `BeginUpdate` lead from one part to the next. |
| `RepoSetup` | `repo/create`, `fork`, `clone`, `git/client.go` (Clone, AddRemote, ...) | `server`, the clone (`dir`), its `remotes` and `resolution`. `RepoCreate`, `UpdateRepository`, `LocalInit`, `AddOrigin`, `Push`; `ForkRepo`, `RenameFork`, `FindRemote`, `RenameRemote`; `Clone` with git's retries, `AddUpstream`, `Fetch`, `SetRemoteResolution`; `Copied` is the service's work in the background, `Again` the repeated command. |
| `LabelClone` | `clone.go`, `http.go`, `createLabel`, `updateLabel` | `ListPage` in listLabels; `Send`, `CloseChannel`, `WaitForAll` and `Return` in cloneLabels; `Leave`, `CreateLabel`, `UpdateLabel` in each worker; `OthersInSource`, `Others`. |
| `NewRepository` | - | Composes the two. |
| `RunWatch` | `watchRun`, `renderRun` | The service (`JobStep`, `RunCompletes`), and the watcher: `GetRun`, `GetJobs`, `GetAnnotations` job by job, `Show`, `Sleep`. `cache` has, for each finished job, the list of annotations that was built when it was read; in Go these lists share memory, and `overwritten` records that a later append wrote into one. |
| `RunLogs` | `run/view/view.go`: runView, getRunLog, RunLogCache; `rerun`, `cancel`, `delete` | `entry` is the cache, a file for each key; each viewer does `GetRun`, `Exists`, `FetchLog`, `CreateEntry`, `WriteEntry`, `OpenEntry`, `Show`; `RerunRun`, `CancelRun`, `DeleteRun`. |
| `WorkflowRuns` | - | Watch, then the log. |
| `ExtensionManager` | `manager.go`, `extension.go`, `http.go` | The service (`Publish`, `BecomesBinary`), the directory, and a command at a position `pc`: install (`Fetch`, `Mkdir`, `Truncate`, `Copy`, manifest; or `Clone`, `Checkout`, `Pin`), upgrade (`List`, `Decide`, `UpgradeGit`), `RemoveAll`. |
| `UpdateNotifier` | `ghcmd/cmd.go` Main, `update.go`, `root/extension.go` | A `stamp` for each state file; for each process Main and two checkers: `ReadState`, `Answer`, `RequestFails`, `Abort`, `WriteState`, `AnswerAgain`; `CommandSucceeds`, `PostRun`, `Receive`; `Gone` is what the end of a process does to its goroutines. |
| `ExtensionCommands` | - | Composes the two: what was installed is run. |
| `GitRepository` | `git/client.go` by what each call does to a clone | The clone, both repositories on the server, the pull request; the effect of every git command (`Fetch`, `MergeFastForward`, `ResetHard`, `CheckoutBranch`, `DeleteLocalBranch`, `Push`, ...), and everyone else: `Commit`, `Switch`, `Edit`, `FetchElsewhere`, `Others`, `ServerMerges`. |
| `RepoSync`, `PrCheckout`, `PrMerge`, `PrCreate` | `repo/sync`, `pr/checkout`, `pr/merge`, `pr/create` | One action for each git command or request, with what is decided in between. Checkout keeps the list of commands (`cmds`) that it has drawn up. |
| `GitCommands` | - | The four on one clone, in any order, and the properties. |
| `MCAuthConfig`, `MCMultiAccountMigration` | - | Values of constants for TLC. The other modules need none but what a cfg can say. |
| `...Proofs` (eight) | - | Theorems, see 5. |

Some correspondences that are easy to miss:

  - **A failing call** is an action with a `Fault`: it counts towards `MaxFaults`. Where an
    answer may get lost, the fault comes with and without the effect (creating and deleting
    ports, uploading and deleting assets, publishing, starting, creating repositories, forks
    and codespaces, merging).
  - **A keyring timeout** (`internal/keyring/keyring.go`) fails for the caller and puts the
    call into `late`; `LateEffect` carries it out at any later time, or never.
  - **Errors that the code drops** are dropped: the keyring deletions of `Logout` and of
    `activateUser`, the rollback of a port, the cleanup of a release, the failed look-ups of
    sync, the state file of the checkers.
  - **hosts.yml** is a value that a process replaces as a whole from its own copy, so that
    two processes can undo each other's changes.
  - **A file that is filled in place** (a log archive, an executable, a manifest, a state
    file, a downloaded asset) is truncated in one step and complete after another; others
    may look in between, and the process may end there.
  - **A commit is a number and a branch the set of its commits**: an ancestor is a subset, a
    fast-forward a superset, and two branches have diverged when neither contains the other.
  - **Other users and the services** are actions of the module, bounded by `MaxChanges`,
    `MaxOthers`, `MaxMoves`, `MaxManaged` or the faults, and marked external in the map.
  - **A composed module** instantiates its parts over their variables; one part is at work
    at a time (`stage`), and the step from one to the next sets the variables of the part
    that ends to fixed values.

## 3. The runs

All finish within five minutes with two workers. `Cfg` is the file without `.cfg`.

| Run | Module / Cfg | States | What it shows |
|---|---|---|---|
| auth_faults | MCAuthConfig / AuthFaults | 149,686 | Five commands after one another, one fault of any kind: `ActiveTokenRight` (the token in force belongs to the account that is named, and without faults no older one comes back), `FailedSwitchRestores`, `ImplementsAccounts` (refinement of `Accounts`). |
| auth_two | MCAuthConfig / AuthTwo | 345,580 | Two processes at once, three commands, one fault of any kind: `OwnershipInv`. |
| auth_crash | MCAuthConfig / AuthCrash | 107,601 | Two refusals, failed writes or crashes: `LoginIsEffective`, `TokenLostOnlyByLogout`. |
| migration | MCMultiAccountMigration / Migration | 3,466,383 | From every consistent installation of two hosts, with two processes, three runs and a failure: `TokensKept`; `MigrationSound` (all or nothing, and the version means migrated). |
| release | ReleaseCommands / ReleaseCommands | 683,122 | Lookup: `AnswerHonest`. Create and upload: `PublishedComplete`, `NothingLeftBehind`, `SuccessMeansDone`, `LossBounded`, `Joined`. Delete and edit: `OnlyTheFound`. Download: `FilesRight`. All: `CommandEnds`. |
| codespace_commands | CodespaceCommands / CodespaceCommands | 262,754 | Create and delete: `AllAccounted`, `AgreedOnly`. The wait: `NoSecondStart`, `GetsReady`. The session: `OneConnection`, `KeptAlive`. The port: `UpdateHonest` (success in time means the new visibility, and failure leaves the old or the new one). The status of a creation: `StepsWaitedFor`. `CommandsEnd`: create, its status and the session come to an end. |
| new_repository | NewRepository / NewRepository | 284,552 | `SetUpRight` (success keeps its promise, remotes are kept, repeated commands get through), `SuccessHonest` (of the label clone), `CommandsReturn`. |
| label_hang | LabelClone / LabelHang | - | A violation, see 6: `ErrorReturned`. |
| watch_runs | WorkflowRuns / WatchRuns | 1,863,521 | `ScreenRight` (annotations stay, none is shown twice, the last picture is final), `LogRight`. |
| extension_runs | ExtensionCommands / ExtensionRuns | 526,583 | `PinKept`, `ReportTrue` (and what a failed upgrade leaves is repaired), `TellOnce`, `MainEnds`. |
| git_commands | GitCommands / GitCommands | 4,069,979 | `CommitsKept`, `EditsKept`, `Brought`, `DeletedOnlyWhenMerged`, `ShowsTheBranch`. |
| merge_report | GitCommands / MergeReport | - | A violation, see 6: `DeletedAsSaid`. |

The comment above each property says what it states and of which code.

### The bounds, and why they are enough

  - **auth**: one host, since no operation touches two. Two accounts, of which one has two
    tokens: enough for a token to be another account's (ownership) and to be an older one of
    the same account (freshness). Five commands: log both accounts in, replace a token,
    switch away and back. One process at a time (two would lose each other's writes, which
    is a known limit, 7), but for ownership: `AuthTwo.cfg` has two at once, a token for each
    account, and a third command that reads what the two have left.
  - **migration**: two hosts, so that one may be done when the other fails; two accounts and
    two tokens, so that hosts may have different or equal ones; two processes, and three
    runs: a failed one, one that crashes between the files, one that finishes.
  - **release**: three files and two workers, so that a job waits, one runs and one has
    ended; two faults, so that the cleanup can fail after an upload failed. Retries are cut
    to two attempts (`MaxTries`; four in the code): the third and fourth differ from the
    second in nothing but their number. The proofs have no bound on attempts. Three changes
    take a tag through draft, published, deleted, which is every state it can be in. The
    faults are shared by the lookup and what follows it.
  - **codespace_commands**: two codespaces, so that one is deleted and one fails or is kept;
    two changes by others to them, so that one vanishes and one changes. Three faults, for
    an invoker that fails and tunnels that break later, and for an update of which the
    deletion, the new forwarding and the rollback all fail. Three changes stop a codespace,
    start it and stop it again within one poll. Three steps, so that one is finished, one is
    running, and one appears. The channel of reasons has one place, so one unit of traffic
    in flight and one noted are all it can tell apart.
  - **new_repository**: two runs, the failed one and its repetition, and two faults, so that
    both can fail. Three labels on pages of two, so that there is a second page; two
    workers, so that the sender has to wait; two changes by others, so that one label goes
    and another comes between two pages.
  - **watch_runs**: three jobs: a cached one, the one being read, and one to come. Three
    attempts, three commands and two viewers: one that stores an entry, one that meets it
    half-written, one that meets it later.
  - **extension_runs**: three versions (installed, pinned, latest), four commands (install,
    a failed upgrade, the change to a binary, the repair). Two processes, and one day that
    passes, so that a check of today meets one of yesterday; the state files are both absent
    or both of today when the first process begins. In the part that runs the extension one
    of the two faults is allowed.
  - **git_commands**: the clone starts with a common commit, one of the feature, one of the
    user and one of others that is not fetched yet, and one more is made meanwhile. One
    command with one thing that the user or others do during it, and one failing step; there
    are many initial clones (any branch checked out, behind, ahead, diverged, dirty, with
    and without remotes), so that what an earlier command leaves is mostly among them.
    `MergeReport.cfg` needs neither faults nor others.

## 4. Fairness and deadlock

Safety properties are checked without fairness where no liveness property shares the run.
For liveness:

  - **ReleaseCommands** (`CommandsFairness`): weak fairness of each goroutine and of the
    command: the Go scheduler runs what can run, and requests end, since sockets and
    contexts do. Not of faults, kills, other users or repetitions.
  - **NewRepository** (`NewFairness`): the chain of requests and git commands goes on; so do
    lister, sender and workers. The channel gives a label to some waiting worker, not to a
    certain one. Not of the service that fills a fork: the command must return although it
    never does. `CommandsReturn` is about label clones of which no request fails, for the
    reason in 6.
  - **CodespaceCommands** (`CommandsFairness`): each goroutine runs on, ticks come; the
    codespace that is waited for proceeds on its own, and steps finish at last. The
    forwarders, which copy data for as long as the tunnel lives, must end only when their
    context or link has; a shell need not end by itself as far as `CommandsEnd` is
    concerned: it says that the session ends when the shell or the tunnel has. Traffic is
    never promised, the user need not answer, others need not do anything, and the time
    limits need not come, but where an action stands for both a limit and the answer.
    `GetsReady` speaks of a waiter that polls between any two changes (`prompt`), and a
    codespace that others at last leave alone, which the bound on their changes says.
  - **ExtensionCommands** (`CommandsFairness`): Main after its command, and the goroutine
    that looks for a release of `gh`: its request may fail to be answered for ever, but Main
    cancels it (`Abort`), and that takes effect. Not of answers, and not of the checker of
    the extension.

The other modules have safety properties only: the credential store, the migration, the git
commands, run watch and the extension manager are sequential in each process, and nothing in
them waits for another; the port update waits for its goroutine or for the time.

`CHECK_DEADLOCK FALSE` is in every configuration because every model ends: commands return,
and the bounds allow no further ones. That something which has to end does not get stuck
before is what `CommandEnds`, `CommandsEnd`, `CommandsReturn` and `MainEnds` are for.

## 5. What is proved

TLC says that a property holds of the instance of a run. The theorems say it of every
instance: any number of hosts, accounts, tokens, processes, files, workers, codespaces,
viewers, versions, attempts, commits, labels and faults. They assume what the modules state
as assumptions on their constants: sets that are not empty, files that are finitely many,
markers for "none" that are not members of the sets, bounds that are natural numbers, and
that every token belongs to an account. Theorems about a composed module hold of its parts
where they stand, after and before the other parts.

Some theorems about credentials have a hypothesis more, which is named in their statement:
`OneAtATime`, that there is one process (it may run any number of commands one after
another), `Punctual`, that keyring calls answer in time, and `[](faults <= 1)`, that at most
one fault happens, of any kind and at any place. Without them the properties are false (7),
so they are also what their runs have: one process in `AuthFaults.cfg` and `AuthCrash.cfg`,
no timeouts in the latter, and one fault in the former.

| Theorem | Says | Inductive invariant and why it is needed |
|---|---|---|
| `AuthConfigProofs!TypeCorrectness`, `Ownership` | `TypeOK`; `OwnershipInv`: hosts.yml and the keyed keyring slots never hold another account's token, for any number of concurrent processes and late calls. | `OwnershipInv` speaks of the shared stores only, while what will be written to them is under way. `MemoryInv` says the same of each process's copy of hosts.yml and of the token in its command; a process whose switch failed is exempt, and the proof shows that it never writes. `LateInv` says it of keyring calls that timed out. |
| `AuthConfigProofs!OneRunInvariance`, `AccountsImplemented`, `LoginWorks`, `TokensKept` | One process at a time: `ImplementsAccounts` (every step is one of `Accounts` or leaves the account list), whatever fails and however late keyring calls are; and, if they are punctual, `LoginIsEffective` and `TokenLostOnlyByLogout`. | `RunInv`: what the process will write is the file as it is, but for the section of its host, which is changed by as much of the command as has been done (`CopyInv`: `RestInv` for the tokens, `AccountsInv` for the accounts); the active account is one of the accounts (`DiskInv`); the token of a login is in the copy or in the account's keyring slot until it is written (`LoginInv`). |
| `AuthConfigProofs!ActiveTokenIsRight`, `FailedSwitchIsUndone` | One process at a time and at most one fault: `ActiveTokenRight` and `FailedSwitchRestores`. | `FaultInv`, on top of `RunInv`. After a fault a host is in one of two states: every account has a token and no late call takes it away (`Kept`), or the slot without a name holds the active account's token or none and late calls only delete (`Matched`); `PlaceInv` says which of them, of the file and of the copy, at each step of a command. `FreshInv`: as long as nothing has failed every token is its account's newest, and the slot without a name repeats that of the active account. `SwitchInv`: a switch knows the token it found in force, and what the rollback writes comes before what is left in the keyring. |
| `MultiAccountMigrationProofs!TypeCorrectness`, `Soundness`, `TokensStay` | `TypeOK`; `MigrationSound`; `TokensKept`: for any number of processes that migrate at once. | `CopyInv`: a copy holds for every host the old or the migrated section, and the latter for all that it is done with; migrating a migrated section changes nothing (`MigrateAgain`), so it is no matter which of them another process had written. `SlotInv`: an account's keyring slot is empty or holds what the migration puts there. `VersionInv`: the version implies that everything is settled. |
| `ReleaseCommandsProofs!CommandsTyped`, `CommandsPublish`, `CommandsSucceed`, `CommandsCleanUp`, `CommandsLoseLittle`, `CommandsJoin` | `TypeOK` of the upload, `PublishedComplete`, `SuccessMeansDone`, `NothingLeftBehind`, `LossBounded`, `Joined`. | `RelInv` says where the release is by where the command is, `JobInv` what a job that is done has done, `TriesInv` that only a job with an attempt left makes one. `LossInv`: until the context is cancelled, every asset that is deleted and not replaced belongs to a goroutine that holds a slot; afterwards no deletion is begun. `UploadInv` carries them to the commands: before it, nothing has been uploaded. |
| `ReleaseCommandsProofs!LookupHonest` | `AnswerHonest`. | `AnswersInv`: every answer that was sent is in the channel or has been received, and none is that of a cancelled lookup before one is cancelled. `NotFoundInv`: when a goroutine has found nothing, the release is what the other one looks for, or was absent once, or has changed in a way the property names. |
| `ReleaseCommandsProofs!ChangesOnlyTheFound`, `DownloadsRight` | `OnlyTheFound`, `FilesRight`: for any changes by others, any number of assets and workers. | `ChangeInv`: what was found is not newer than what is there, and the tag is only deleted when the release is gone or has another id. `LoadInv`: a job that succeeded has left the whole file; one on a file that was there ends without writing, unless `--clobber` was given. |
| `CodespaceCommandsProofs!ManagedInvariance`, `CommandsReportRight`, `CommandsDeleteAgreed` | `AllAccounted` and `AgreedOnly`, for any number of codespaces. | `CreateInv`: as long as no request has been answered nothing is made, and what is made is `mine` or unknown for a lost answer. `DeleteInv`: the count, the failures and the goroutines yet to come add up to what is to be deleted, and what is deleted is gone. `AgreedInv`: what is chosen had no unsaved changes when it was listed, or was confirmed. `ManagedInv` carries them over the stages: this part rests in the later ones. |
| `CodespaceCommandsProofs!CommandsStartOnce`, `CommandsWaitForSteps`, `CommandsConnectOnce`, `PortsUpdateHonest` | `NoSecondStart`, `StepsWaitedFor`, `OneConnection`, `UpdateHonest`. | `Remembered`: a start that was asked for is in `lastState` until another state is seen. `StatusInv`: once polling is to stop, the finished steps are those of the last poll, and none of them runs. `LinkInv`: only the goroutine that holds the mutex looks at the flag or sets it, and one that is about to connect has found it unset. `PortInv`: `GoroutineInv` is what the forwarding goroutine has done, also after the command stopped to listen, `OldPortInv` that the port has one of the two visibilities wherever it exists, `ReturnInv` that only a command that has returned reports. |
| `NewRepositoryProofs!NewInvariance`, `SetUpKeepsItsPromise`, `LabelCloneHonest` | `SetUpRight` and `SuccessHonest`, for any number of repetitions, labels, pages and workers. | `SetupInv` says what each step of create, fork and clone can rely on because the steps before it succeeded, and which of that others can spoil (`clean`). `CloningInv`: a label that was found is in exactly one place: not handed out, with one worker, written, or kept (`PlacesInv`); up to the cursor the listing has no holes (`ListInv`); the count is that of the labels written (`CountInv`). |
| `WorkflowRunsProofs!TypeCorrectness`, `LogSound`, `WorkflowLogSound` | `TypeOK` of the logs; `LogRight`, for any number of viewers of one cache, also after a watch. | `EntryInv`: an entry is of the attempt it is named after, unless a run was run again while someone stored it. `ViewInv`: the same of what each viewer has asked for and has in hand. |
| `WorkflowRunsProofs!ScreenSound` | `ScreenRight`, for any number of jobs and annotations. | `WatchInv`. The annotations on the screen were collected in an earlier round; `CacheInv` says that each cached list holds what was on the screen up to its job, and what the cached lists of earlier jobs hold, `RoundInv` that the list of this round already has what the screen and the cache have of the jobs done. `FinalInv`: a run that was seen completed, and its jobs, change no more. |
| `ExtensionCommandsProofs!Invariance`, `PinStays`, `ReportsTrue`, `CommandsKeepPins`, `CommandsReportTrue` | `PinKept` and `ReportTrue`, for any number of versions, commands and failing steps, by itself and when the extension is run. | `PinInv`: while a version is pinned, no command that could change it gets past the decision to upgrade. `KindInv`, `InstallInv`, `CloneInv`: what is in the directory at each position of a command, by its kind. `SeenInv`: what was looked up is not newer than the latest. |
| `ExtensionCommandsProofs!CommandsInvariance`, `ToldOnce` | `TellOnce`, for any number of processes and days. | `NInv`, as long as no two processes have run at once: one process runs and the checkers are its own (`AloneInv`); what was told today is in the state file (`ToldInv`); a check under way is for a day that has not been told, and the day of an answer that waits is in the state file (`CheckInv`). |
| `GitCommandsProofs!GitInvariance`, `GitKeepsCommits`, `GitKeepsEdits`, `GitBrings`, `GitDeletesMerged`, `GitShows` | `CommitsKept`, `EditsKept`, `Brought`, `DeletedOnlyWhenMerged`, `ShowsTheBranch`, for any number of commits, commands, failures and moves of others. | For each command what it knows at each of its steps (`SyncInv`, `ForkInv`, `CheckoutInv`, `MergeInv`, `CreateInv`), and which of that the user spoils by running git meanwhile (`meddled`): nothing that the safety of edits and the deletion of branches rest on. `RunInv` lists what may remain of the commands that checkout has drawn up, and what has come of the others. |

Each proof has a lemma for each action or group of alike actions. `Init` implies the
invariant, every step keeps it, and the theorem follows by temporal reasoning (PTL); an
action property follows from the invariant and the step. Where several steps change the same
thing in the same way, lemmas about the operators (`AddUserFacts`, `RemoveUserFacts`,
`MigratedFacts`, `DeletedGrows`, `Concatenated`, `Lists`, `TipMoves`) say what they keep.
The invariants were run with TLC as well while they were being found.

Only model-checked:

  - liveness (`CommandEnds`, `CommandsEnd`, `GetsReady`, `KeptAlive`, `CommandsReturn`,
    `MainEnds`): the provers have neither fairness nor ENABLED;
  - the `TypeOK` of `CodespaceStart`, `CodespaceSession`, `PostCreateStatus`,
    `PortVisibility`, `ReleaseFetch`, `ReleaseChange`, `ReleaseDownload`, `RunWatch` and
    `UpdateNotifier`, which was checked while the modules were written and is there for the
    reader: the proofs about them type the variables they use.

## 6. Known deviations

**Recorded**

  - (run `label_hang`, property `ErrorReturned`) `gh label clone` hangs when a request fails
    while labels remain. The workers leave on the cancelled context, and cloneLabels, which
    does not look at it, blocks on `toCreate <- createOpts` (`pkg/cmd/label/clone.go:153`).
    The test "create error" expects the error to be returned; it uses one label, with which
    that works.
  - (run `merge_report`, property `DeletedAsSaid`) `gh pr merge --delete-branch` of a pull
    request that is merged already prints "Deleted remote branch" without having sent the
    request (`pkg/cmd/pr/merge/merge.go:482`, `:460`), also when the branch is still there.

The following came up with TLC while the modules were written. The models behave like the
code in each case, and the properties leave the case out where they have to, as their
comments say. No run records them.

Credential store:

  - On a host with several accounts Logout leaves the account's own keyring slot as it is,
    although its comment (`config.go:421`) says that the token is removed from there. On a
    host with one it deletes both slots and ignores errors.
  - A comment in activateUser (`config.go:459`) says that only one of its two branches
    should be taken. An account may have a token in the keyring and one in plain text; then
    both are activated, and ActiveToken finds the one in plain text.
  - A failed SwitchUser leaves the plain-text token of its target in the memory of the
    process; it exits without writing it.

Releases:

  - A draft that is published between the lookup of published releases and that of drafts is
    "not found". `AnswerHonest` makes an exception for it.
  - When the answer to the publication is lost, create takes it for a failure and deletes
    the release, which was public for a moment. The code cannot know better.
  - A download that fails leaves a part of the file, and `--skip-existing` takes it for the
    whole later on (`FilesRight` speaks of files that were skipped apart). Between the
    second look at a file and its opening another program may create it; it is truncated
    then.
  - After `delete --cleanup-tag` the tag goes by its name: a release that has taken the tag
    meanwhile loses it.

Codespaces:

  - The heartbeat goroutine of a closed session may wait for a reason for ever, and a
    failing CreateInvoker may leave the forwarder of its port running: connect's deferred
    cancel looks at an `err` that two of its three error paths do not assign
    (`rpc/invoker.go:90`). Both end with the process.
  - `breakNextState` of showStatus is never reset: after one quiet poll and a later one with
    running steps, the next quiet poll ends the command without a further one. A step that
    appears after the last poll is not waited for (`StepsWaitedFor` is about those that it
    listed).
  - Stopping the poller cancels the tunnel as well; if that is noticed first, a creation
    that has finished is reported as failed. So is one whose answer was lost or whose time
    ran out while it went on on the server; and the poll does not end early when the
    codespace has failed.
  - Deleting trusts the listing: changes that are made in a codespace after it was listed
    are lost without a question.
  - Updating a port: a conflict in the rollback (409) is taken for success, so that the new
    visibility may stay after a reported failure; a context that expires after the deletion
    is reported as success (`UpdateHonest` is about success in time, and lets a failed
    update keep one of the two).

Repositories:

  - `repo create` and `fork --clone` cannot be repeated after a late failure: the repository
    or the directory is there already. git's exit code for an existing directory is one of
    those after which cloning is tried three times more.
  - Sync trusts FETCH_HEAD and the current branch that it read by earlier git commands
    (`repo/sync/sync.go:251`): `update-ref` and `reset --hard` drop what the user commits in
    between. `CommitsKept` excepts a sync during which the user runs git.
  - When `rev-parse` fails, HasLocalBranch is false, and sync may report success for a local
    branch that has commits of its own (`Brought` asks for equality only when the branch was
    seen).

Pull requests:

  - The branch on the server is deleted by its name after the merge; commits that someone
    pushed to it in between go with it. Here, `git branch -D` drops commits that were never
    pushed.
  - Any refusal with the status 422 or 404 is taken for "already deleted"
    (`pr/merge/merge.go:473`, which has a TODO on it): the branch may stay, and be reported
    as deleted.
  - `pr create` marks `upstream` as the repository to resolve to whenever it had to fork,
    while the comment at `pr/create/create.go:1191` says "Only mark `upstream` remote as
    default if `gh pr create` created the remote".
  - `pr checkout --force` discards edits, as it says.

Workflow runs:

  - Annotations of a queued job are cached as an empty list, and what is cached for a job is
    the list built so far; annotations made later may never be shown. `ScreenRight` says
    what does hold: those shown stay, none is there twice.
  - The lists that renderRun caches are slices of one array where there is room behind them
    (`run/watch/watch.go:248`). When a later round starts from a cached list and appends,
    it may write over the annotations that another cached list has there. `ScreenRight`
    excepts a watch in which that has happened (`overwritten`).
  - An entry of the log cache that was left half-written is never repaired: the next viewer
    fails, or shows what is there, since displayLogSegments ignores the error of its
    scanner. A run that is run again between the moments when a viewer reads it and its log
    leaves the log of the new attempt under the name of the old one, for good (`mixed`).
    With `--job` of an older attempt, the log shown is that of the latest.

Extensions and updates:

  - `git fetch origin HEAD` does not move `refs/remotes/origin/HEAD`: `upgrade --force` of a
    script resets it to an old commit and reports "upgraded" (so `ReportTrue` leaves forced
    upgrades of scripts out).
  - `upgrade --all` takes a version that it could not read (no network, a broken directory)
    for "already up to date".
  - A first installation that fails leaves a directory that only remove repairs
    (`Repairable` is about extensions that had a manifest).
  - When a script becomes a binary, the script is removed before the binary is there.
  - A forced upgrade of a pinned script leaves its HEAD detached, so that later upgrades
    fail.
  - The checker of an extension writes its state file although the version could not be
    looked up, and its answer is lost for a day when the extension ends before the goroutine
    sends it. The version that could not be looked up is not cached: UpdateAvailable asks
    for it once more (`internal/update/update.go:71`), and when that succeeds, a new release
    is announced without its version, since it is the first answer that is printed. The
    checker of gh leaves the file alone after a failure, and looks again next time.

## 7. Limits

  - **Two gh processes on hosts.yml.** Each writes back its own copy, so one may undo the
    other. `ActiveTokenRight` fails for two processes, as it does with two faults;
    `OwnershipInv` holds for any number of both. `FailedSwitchRestores` fails with a second
    fault, in the rollback itself.
  - **Late keyring calls.** `LoginIsEffective`, `TokenLostOnlyByLogout` and the freshness of
    the active token fail when a call that timed out takes effect later: `AuthCrash.cfg` has
    no timeouts, and freshness is about histories without faults. A newer plain-text token
    can also lose to an older one in the keyring, since TokenForUser looks there first.
  - **go-gh** (the configuration library) is external: that it reads the files once for each
    process, and writes `hosts.yml` before `config.yml`, each as a whole. Environment
    variables that override tokens, and `git_protocol`, are left out.
  - **git** is external: what its commands do to a clone is modelled from how the code calls
    them. A commit has no content: whether git refuses because of uncommitted changes is a
    choice, local merges are fast-forwards (the only ones the code asks for), and a conflict
    is a status of the pull request. One branch name besides the default one; no submodules,
    stashes or worktrees.
  - **Uploads**: the names of files are distinct and their sizes do not matter. Other users
    add assets and delete those that are not this command's; one that deletes an asset just
    uploaded is not modelled.
  - **Codespaces**: time is an order. That the first heartbeat (after a minute) comes after
    the requests of the setup (thirty seconds each) is taken from the constants of the code.
    `GetsReady` needs a prompt poller: a codespace that starts and stops between two polls
    looks as if it had never started, and is not started again. What happens to a codespace
    during a session reaches it as a tunnel that breaks. So `KeptAlive` does not speak of a
    heartbeat that waits for a reason already when the override is set.
  - **Workflow runs**: one page of jobs; no reruns during a watch, which would take jobs
    away. The attempts of a run start in different seconds (the name of a cache entry has
    the start in seconds).
  - **Extensions**: a version is a commit and, for binaries, a release; the latest only
    grows; one command at a time. `TellOnce` is about processes one after the other: two at
    the same time may both read the old state file and both tell.
  - **Releases**: of what `release edit` changes, only the publication of a draft and the
    tag are modelled; the local tag that `delete --cleanup-tag` removes is left out.
  - **Ports**: `UpdateHonest` says nothing of an update whose time ran out (6).
  - Types of values, prompts, flags that only choose output, and texts are left out
    everywhere.

## 8. What comes next

In this order; a new property takes the place of a shallower one where the checks would
otherwise become too slow to repeat.

  1. Download of the artifacts of a run (`run/download`), which fills directories as the
     download of a release does.
  2. `pr checks --watch` and the poll of agent tasks: loops with a time limit.
  3. Repository edit and secrets: groups of independent requests of which some fail.
