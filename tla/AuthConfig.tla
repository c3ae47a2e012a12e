----------------------------- MODULE AuthConfig -----------------------------
(***************************************************************************)
(* The multi-account credential store of gh: what `gh auth login`,         *)
(* `auth refresh`, `auth switch` and `auth logout` do to hosts.yml and to  *)
(* the system keyring (internal/config/config.go, internal/keyring, and    *)
(* the commands of pkg/cmd/auth that call them).                           *)
(*                                                                         *)
(* Every gh process reads hosts.yml once, when it starts, and works on its *)
(* own copy (mem) until it writes the whole file back.  The keyring is     *)
(* shared: each call to it is a step of its own, may fail, or may time out *)
(* after three seconds while the backend still carries the call out later. *)
(* A process may crash between any two steps.                              *)
(*                                                                         *)
(* Left out: git_protocol (a host-level value no property reads) and the   *)
(* environment tokens (the commands refuse to run when one is set).        *)
(***************************************************************************)
EXTENDS Naturals

CONSTANTS
    Procs,      \* gh processes
    Hosts,      \* hostnames
    Users,      \* account names
    Tokens,     \* OAuth tokens
    Owner,      \* Owner[t]: the account a token was minted for
    NoUser,     \* no account; as a keyring slot, the unkeyed (active) slot ""
    NoToken,    \* no token
    FaultKinds, \* the faults the environment may inject
    MaxFaults,  \* bound on the number of faults
    MaxRuns     \* bound on the number of gh processes started

AllFaultKinds == {"error", "timeout", "write", "crash"}

ASSUME ConstantsAssumption ==
    /\ Hosts # {} /\ Users # {}
    /\ Owner \in [Tokens -> Users]
    /\ NoUser \notin Users
    /\ NoToken \notin Tokens
    /\ FaultKinds \subseteq AllFaultKinds
    /\ MaxFaults \in Nat /\ MaxRuns \in Nat

VARIABLES
    disk,     \* hosts.yml
    keyring,  \* keyring[h][s]: the secret of service "gh:"h for user s
    late,     \* keyring writes that timed out and may still take effect
    faults,   \* number of faults so far
    runs,     \* number of gh processes started so far
    pc,       \* what each process does next
    cmd,      \* the command each process runs and its arguments
    mem,      \* each process's in-memory copy of hosts.yml
    target,   \* the account activateUser is activating
    got,      \* the last token a keyring read returned
    prev,     \* SwitchUser: the account and token active before the switch
    last      \* history: the token of the last successful login, per account

vars == <<disk, keyring, late, faults, runs, pc, cmd, mem, target, got, prev, last>>
procVars == <<pc, cmd, mem, target, got, prev>>

-----------------------------------------------------------------------------
\* The section of one host in hosts.yml: the active account, its plain-text
\* token, the accounts under "users", and their plain-text tokens.
MaybeToken == Tokens \cup {NoToken}
MaybeUser  == Users \cup {NoUser}
Entry   == [user: MaybeUser, token: MaybeToken, users: SUBSET Users,
            tok: [Users -> MaybeToken]]
NoEntry == [user |-> NoUser, token |-> NoToken, users |-> {},
            tok |-> [u \in Users |-> NoToken]]
HostsFile == [Hosts -> Entry]

\* The account u listed with plain-text token t (or none), and the account u
\* made active with the host-level token t.  (The operators named for a slip,
\* here and below, are the mutants the properties are shown to catch.)
AddUserKeepsPlain(e, u, t) ==
    [e EXCEPT !.users = @ \cup {u}, !.tok[u] = IF t = NoToken THEN @ ELSE t]
AddUserUnlisted(e, u, t) == [e EXCEPT !.tok[u] = t]
AddUser(e, u, t) == [e EXCEPT !.users = @ \cup {u}, !.tok[u] = t]
RemoveUser(e, u) == [e EXCEPT !.users = @ \ {u}, !.tok[u] = NoToken]
SetActiveUser(e, u, t) == [e EXCEPT !.user = u, !.token = t]

Slots == MaybeUser
Commands == [op: {"none", "login", "refresh", "switch", "logout"}, host: Hosts, user: Users,
             token: MaybeToken, secure: BOOLEAN]
Labels == {"idle", "ready", "login_keyring", "login_insecure", "clear_active", "get_user",
           "set_active", "activate", "write", "prev_user", "prev_active",
           "restore_keyring", "del_active", "del_user", "failed", "done"}

\* ActiveToken as a fresh gh process would resolve it: the config file, then
\* the account's keyring slot, then the unkeyed slot.
ActiveTokenUnkeyedFirst(file, ring, h) ==
    IF file[h].token # NoToken THEN file[h].token
    ELSE IF ring[h][NoUser] # NoToken THEN ring[h][NoUser] ELSE ring[h][file[h].user]
ActiveToken(file, ring, h) ==
    IF file[h].token # NoToken THEN file[h].token
    ELSE IF file[h].user # NoUser /\ ring[h][file[h].user] # NoToken
         THEN ring[h][file[h].user]
         ELSE ring[h][NoUser]

\* TokenForUser: the keyring first, then the config file.
TokenForUser(file, ring, h, u) ==
    IF ring[h][u] # NoToken THEN ring[h][u] ELSE file[h].tok[u]

TypeOK ==
    /\ disk \in HostsFile
    /\ keyring \in [Hosts -> [Slots -> MaybeToken]]
    /\ late \subseteq [host: Hosts, slot: Slots, val: MaybeToken]
    /\ faults \in 0..MaxFaults
    /\ runs \in 0..MaxRuns
    /\ pc \in [Procs -> Labels]
    /\ cmd \in [Procs -> Commands]
    /\ mem \in [Procs -> HostsFile]
    /\ target \in [Procs -> MaybeUser]
    /\ got \in [Procs -> MaybeToken]
    /\ prev \in [Procs -> [user: MaybeUser, token: MaybeToken, src: {"none", "oauth_token", "keyring"}]]
    /\ last \in [Hosts -> [Users -> MaybeToken]]

-----------------------------------------------------------------------------
\* The environment.
Fault(kind) ==
    /\ kind \in FaultKinds
    /\ faults < MaxFaults
    /\ faults' = faults + 1

\* keyring.Set and keyring.Delete (val = NoToken): done, refused, or given up
\* on after the timeout while the goroutine's call is still under way.
KeyringWrite(h, s, val, ok) ==
    \/ /\ ok
       /\ keyring' = [keyring EXCEPT ![h][s] = val]
       /\ UNCHANGED <<late, faults>>
    \/ /\ ~ok
       /\ Fault("error")
       /\ UNCHANGED <<keyring, late>>
    \/ /\ ~ok
       /\ Fault("timeout")
       /\ late' = late \cup {[host |-> h, slot |-> s, val |-> val]}
       /\ UNCHANGED keyring

\* keyring.Get: NoToken stands for every error, "not found" included.
KeyringRead(h, s, res) ==
    /\ \/ res = keyring[h][s] /\ UNCHANGED faults
       \/ res = NoToken /\ (Fault("error") \/ Fault("timeout"))
    /\ UNCHANGED <<keyring, late>>

\* A keyring call whose caller gave up waiting takes effect.
LateEffect ==
    \E l \in late :
        /\ keyring' = [keyring EXCEPT ![l.host][l.slot] = l.val]
        /\ late' = late \ {l}
        /\ UNCHANGED <<disk, faults, runs, procVars, last>>

Goto(p, label) == pc' = [pc EXCEPT ![p] = label]

-----------------------------------------------------------------------------
\* A gh process starts: main reads the configuration, once.
Start(p) ==
    /\ pc[p] = "idle"
    /\ runs < MaxRuns
    /\ runs' = runs + 1
    /\ mem' = [mem EXCEPT ![p] = disk]
    /\ Goto(p, "ready")
    /\ UNCHANGED <<disk, keyring, late, faults, cmd, target, got, prev, last>>

Run(p, op, h, u, t, s) ==
    cmd' = [cmd EXCEPT ![p] = [op |-> op, host |-> h, user |-> u, token |-> t, secure |-> s]]

EnterLoginAsActive(p, op, h, t, secure) ==
    /\ pc[p] = "ready"
    /\ Run(p, op, h, IF mem[p][h].user = NoUser THEN Owner[t] ELSE mem[p][h].user, t, secure)
    /\ Goto(p, IF secure THEN "login_keyring" ELSE "login_insecure")
    /\ UNCHANGED <<disk, keyring, late, faults, runs, mem, target, got, prev, last>>

\* AuthConfig.Login, once the OAuth flow or the token prompt handed over token t.
EnterLogin(p, op, h, t, secure) ==
    /\ pc[p] = "ready"
    /\ Run(p, op, h, Owner[t], t, secure)
    /\ Goto(p, IF secure THEN "login_keyring" ELSE "login_insecure")
    /\ UNCHANGED <<disk, keyring, late, faults, runs, mem, target, got, prev, last>>

BeginLogin(p, h, t, secure) == EnterLogin(p, "login", h, t, secure)

\* `auth refresh` is a login that insists on the active account's credentials.
BeginRefresh(p, h, t, secure) ==
    /\ mem[p][h] # NoEntry
    /\ mem[p][h].user \in {NoUser, Owner[t]}
    /\ EnterLogin(p, "refresh", h, t, secure)

\* Login: the token goes to the account's keyring slot ...
LoginKeyring(p) ==
    LET h == cmd[p].host
        u == cmd[p].user
    IN  /\ pc[p] = "login_keyring"
        /\ \E ok \in BOOLEAN :
             /\ KeyringWrite(h, u, cmd[p].token, ok)
             /\ IF ok
                THEN /\ mem' = [mem EXCEPT ![p][h] = AddUser(@, u, NoToken)]
                     /\ target' = [target EXCEPT ![p] = u]
                     /\ Goto(p, "clear_active")
                ELSE /\ Goto(p, "login_insecure")
                     /\ UNCHANGED <<mem, target>>
        /\ UNCHANGED <<disk, runs, cmd, got, prev, last>>

\* ... or, when that failed or was not asked for, to the config file.
LoginInsecure(p) ==
    LET h == cmd[p].host
        u == cmd[p].user
    IN  /\ pc[p] = "login_insecure"
        /\ mem' = [mem EXCEPT ![p][h] = AddUser(@, u, cmd[p].token)]
        /\ target' = [target EXCEPT ![p] = u]
        /\ Goto(p, "clear_active")
        /\ UNCHANGED <<disk, keyring, late, faults, runs, cmd, got, prev, last>>

-----------------------------------------------------------------------------
ClearUserSlot(p) ==
    LET h == cmd[p].host
    IN  /\ pc[p] = "clear_active"
        /\ \E ok \in BOOLEAN : KeyringWrite(h, mem[p][h].user, NoToken, ok)
        /\ mem' = [mem EXCEPT ![p][h] = SetActiveUser(@, @.user, NoToken)]
        /\ Goto(p, "get_user")
        /\ UNCHANGED <<disk, runs, cmd, target, got, prev, last>>

\* activateUser, shared by Login, SwitchUser and Logout.  First the tokens of
\* the active slots are dropped (a failing Delete is ignored) ...
ClearActive(p) ==
    LET h == cmd[p].host
    IN  /\ pc[p] = "clear_active"
        /\ \E ok \in BOOLEAN : KeyringWrite(h, NoUser, NoToken, ok)
        /\ mem' = [mem EXCEPT ![p][h] = SetActiveUser(@, @.user, NoToken)]
        /\ Goto(p, "get_user")
        /\ UNCHANGED <<disk, runs, cmd, target, got, prev, last>>

\* ... then the account's keyring token, if there is one, ...
GetUserToken(p) ==
    /\ pc[p] = "get_user"
    /\ \E res \in MaybeToken :
         /\ KeyringRead(cmd[p].host, target[p], res)
         /\ got' = [got EXCEPT ![p] = res]
         /\ Goto(p, IF res # NoToken THEN "set_active" ELSE "activate")
    /\ UNCHANGED <<disk, runs, cmd, mem, target, prev, last>>

\* ... is copied to the active keyring slot; failing to is an error.
ActivateFails(p) == Goto(p, IF cmd[p].op = "switch" THEN "restore_keyring" ELSE "failed")

SetActive(p) ==
    /\ pc[p] = "set_active"
    /\ \E ok \in BOOLEAN :
         /\ KeyringWrite(cmd[p].host, NoUser, got[p], ok)
         /\ IF ok THEN Goto(p, "activate") ELSE ActivateFails(p)
    /\ UNCHANGED <<disk, runs, cmd, mem, target, got, prev, last>>

\* The account's plain-text token becomes the host's; without any token the
\* activation fails.
Activate(p) ==
    LET h == cmd[p].host
        t == mem[p][h].tok[target[p]]
    IN  /\ pc[p] = "activate"
        /\ IF got[p] = NoToken /\ t = NoToken
           THEN ActivateFails(p) /\ UNCHANGED mem
           ELSE /\ mem' = [mem EXCEPT ![p][h] = SetActiveUser(@, target[p], t)]
                /\ Goto(p, "write")
        /\ UNCHANGED <<disk, keyring, late, faults, runs, cmd, target, got, prev, last>>

\* ghConfig.Write: the process's whole copy of hosts.yml replaces the file.
LastAfterWrite(p) ==
    CASE cmd[p].op \in {"login", "refresh"} -> [last EXCEPT ![cmd[p].host][cmd[p].user] = cmd[p].token]
      [] cmd[p].op = "logout" -> [last EXCEPT ![cmd[p].host][cmd[p].user] = NoToken]
      [] OTHER                -> last

WriteFailsLate(p) == Fault("write") /\ ActivateFails(p) /\ disk' = mem[p] /\ UNCHANGED last
WriteFails(p) == Fault("write") /\ ActivateFails(p) /\ UNCHANGED <<disk, last>>

Write(p) ==
    /\ pc[p] = "write"
    /\ \/ /\ disk' = mem[p]
          /\ last' = LastAfterWrite(p)
          /\ Goto(p, "done")
          /\ UNCHANGED faults
       \/ WriteFails(p)
    /\ UNCHANGED <<keyring, late, runs, cmd, mem, target, got, prev>>

-----------------------------------------------------------------------------
\* `auth switch` to an account of the host; it starts by resolving the token
\* that is active now.  A token from the config file needs no keyring call.
BeginSwitch(p, h, u) ==
    LET e == mem[p][h]
    IN  /\ pc[p] = "ready"
        /\ e # NoEntry
        /\ u \in e.users
        /\ Run(p, "switch", h, u, NoToken, FALSE)
        /\ target' = [target EXCEPT ![p] = u]
        /\ prev' = [prev EXCEPT ![p] =
                      [user |-> e.user, token |-> e.token,
                       src |-> IF e.token # NoToken THEN "oauth_token" ELSE "none"]]
        /\ Goto(p, IF e.user = NoUser THEN "failed"
                   ELSE IF e.token # NoToken THEN "clear_active" ELSE "prev_user")
        /\ UNCHANGED <<disk, keyring, late, faults, runs, mem, got, last>>

\* ActiveToken: the active account's keyring slot, then the unkeyed slot.
PrevFromUserSlot(p) ==
    /\ pc[p] = "prev_user"
    /\ \E res \in MaybeToken :
         /\ KeyringRead(cmd[p].host, prev[p].user, res)
         /\ IF res # NoToken
            THEN /\ prev' = [prev EXCEPT ![p].token = res, ![p].src = "keyring"]
                 /\ Goto(p, "clear_active")
            ELSE Goto(p, "prev_active") /\ UNCHANGED prev
    /\ UNCHANGED <<disk, runs, cmd, mem, target, got, last>>

PrevFromActiveSlot(p) ==
    /\ pc[p] = "prev_active"
    /\ \E res \in MaybeToken :
         /\ KeyringRead(cmd[p].host, NoUser, res)
         /\ IF res # NoToken
            THEN /\ prev' = [prev EXCEPT ![p].token = res, ![p].src = "keyring"]
                 /\ Goto(p, "clear_active")
            ELSE Goto(p, "failed") /\ UNCHANGED prev
    /\ UNCHANGED <<disk, runs, cmd, mem, target, got, last>>

\* SwitchUser puts back what activateUser removed before it failed.
RestorePrevious(p) ==
    LET h == cmd[p].host
    IN  /\ pc[p] = "restore_keyring"
        /\ IF prev[p].src = "keyring"
           THEN /\ \E ok \in BOOLEAN : KeyringWrite(h, NoUser, prev[p].token, ok)
                /\ mem' = [mem EXCEPT ![p][h] = SetActiveUser(@, prev[p].user, @.token)]
           ELSE /\ mem' = [mem EXCEPT ![p][h] = SetActiveUser(@, prev[p].user, prev[p].token)]
                /\ UNCHANGED <<keyring, late, faults>>
        /\ Goto(p, "failed")
        /\ UNCHANGED <<disk, runs, cmd, target, got, prev, last>>

-----------------------------------------------------------------------------
\* `auth logout` of an account of the host.  The last account takes the host
\* and the keyring tokens with it; otherwise only its section of the file
\* goes, and another account is activated if it was the active one.
BeginLogout(p, h, u) ==
    LET e == mem[p][h]
    IN  /\ pc[p] = "ready"
        /\ u \in e.users
        /\ Run(p, "logout", h, u, NoToken, FALSE)
        /\ \/ /\ e.users = {u}
              /\ mem' = [mem EXCEPT ![p][h] = NoEntry]
              /\ Goto(p, "del_active")
              /\ UNCHANGED target
           \/ /\ e.users # {u}
              /\ mem' = [mem EXCEPT ![p][h] = RemoveUser(@, u)]
              /\ IF e.user # u
                 THEN Goto(p, "write") /\ UNCHANGED target
                 ELSE \E v \in e.users \ {u} : /\ target' = [target EXCEPT ![p] = v]
                                               /\ Goto(p, "clear_active")
        /\ UNCHANGED <<disk, keyring, late, faults, runs, got, prev, last>>

DeleteActiveSlot(p) ==
    /\ pc[p] = "del_active"
    /\ \E ok \in BOOLEAN : KeyringWrite(cmd[p].host, NoUser, NoToken, ok)
    /\ Goto(p, "del_user")
    /\ UNCHANGED <<disk, runs, cmd, mem, target, got, prev, last>>

DeleteUserSlot(p) ==
    /\ pc[p] = "del_user"
    /\ \E ok \in BOOLEAN : KeyringWrite(cmd[p].host, cmd[p].user, NoToken, ok)
    /\ Goto(p, "write")
    /\ UNCHANGED <<disk, runs, cmd, mem, target, got, prev, last>>

-----------------------------------------------------------------------------
NoCommand == [op |-> "none", host |-> CHOOSE h \in Hosts : TRUE,
              user |-> CHOOSE u \in Users : TRUE, token |-> NoToken, secure |-> FALSE]
NoPrev == [user |-> NoUser, token |-> NoToken, src |-> "none"]

\* The process is gone: nothing of its memory survives.
Exit(p) ==
    /\ Goto(p, "idle")
    /\ cmd' = [cmd EXCEPT ![p] = NoCommand]
    /\ mem' = [mem EXCEPT ![p] = [h \in Hosts |-> NoEntry]]
    /\ target' = [target EXCEPT ![p] = NoUser]
    /\ got' = [got EXCEPT ![p] = NoToken]
    /\ prev' = [prev EXCEPT ![p] = NoPrev]
    /\ UNCHANGED <<disk, keyring, late, runs, last>>

Finish(p) == pc[p] \in {"ready", "failed", "done"} /\ Exit(p) /\ UNCHANGED faults

Crash(p) == pc[p] \notin {"idle", "ready", "failed", "done"} /\ Fault("crash") /\ Exit(p)

Init ==
    /\ disk = [h \in Hosts |-> NoEntry]
    /\ keyring = [h \in Hosts |-> [s \in Slots |-> NoToken]]
    /\ late = {}
    /\ faults = 0
    /\ runs = 0
    /\ pc = [p \in Procs |-> "idle"]
    /\ cmd = [p \in Procs |-> NoCommand]
    /\ mem = [p \in Procs |-> [h \in Hosts |-> NoEntry]]
    /\ target = [p \in Procs |-> NoUser]
    /\ got = [p \in Procs |-> NoToken]
    /\ prev = [p \in Procs |-> NoPrev]
    /\ last = [h \in Hosts |-> [u \in Users |-> NoToken]]

Login(p) == LoginKeyring(p) \/ LoginInsecure(p)
ActivateUser(p) ==
    ClearActive(p) \/ GetUserToken(p) \/ SetActive(p) \/ Activate(p) \/ Write(p)
SwitchUser(p) == PrevFromUserSlot(p) \/ PrevFromActiveSlot(p) \/ RestorePrevious(p)
Logout(p) == DeleteActiveSlot(p) \/ DeleteUserSlot(p)

Begin(p) ==
    \E h \in Hosts :
        \/ \E t \in Tokens, secure \in BOOLEAN : BeginLogin(p, h, t, secure)
        \/ \E t \in Tokens, secure \in BOOLEAN : BeginRefresh(p, h, t, secure)
        \/ \E u \in Users : BeginSwitch(p, h, u)
        \/ \E u \in Users : BeginLogout(p, h, u)

Step(p) == Begin(p) \/ Login(p) \/ ActivateUser(p) \/ SwitchUser(p) \/ Logout(p)

Next ==
    \/ \E p \in Procs : Start(p) \/ Step(p) \/ Finish(p) \/ Crash(p)
    \/ LateEffect

Spec == Init /\ [][Next]_vars

-----------------------------------------------------------------------------
\* Properties.

\* hosts.yml pairs the active account with its own token.  (The in-memory copy
\* of a process whose switch failed is exempt: see RestorePrevious.)
EntryOwnership(e) ==
    /\ e.token # NoToken => e.user = Owner[e.token]
    /\ \A u \in Users : e.tok[u] # NoToken => Owner[e.tok[u]] = u
FileOwnership(file) == \A h \in Hosts : EntryOwnership(file[h])

\* However processes interleave, whatever fails, and whenever a late keyring
\* call lands: hosts.yml never names one account next to another's token, and
\* a keyed keyring slot only holds tokens minted for its account.
OwnershipInv ==
    /\ FileOwnership(disk)
    /\ \A h \in Hosts, u \in Users : keyring[h][u] # NoToken => Owner[keyring[h][u]] = u

\* When no command is under way, the token the next gh process resolves for a
\* host was minted for the account that hosts.yml names as active, even after
\* a command that failed or crashed half-way.  As long as nothing has failed, it is
\* the newest of the account: switching back and forth, logging out and in
\* again, with either storage, never brings an older token back into force.
ActiveTokenRight ==
    (\A p \in Procs : pc[p] = "idle") =>
        \A h \in Hosts :
            LET u == disk[h].user
                t == ActiveToken(disk, keyring, h)
            IN  u # NoUser /\ t # NoToken =>
                  /\ Owner[t] = u
                  /\ faults = 0 => last[h][u] = t

\* A login that succeeded is what the next gh process authenticates with.
LoginIsEffective ==
    [][\A p \in Procs :
         pc[p] = "write" /\ pc'[p] = "done" /\ cmd[p].op \in {"login", "refresh"} =>
           ActiveToken(disk', keyring', cmd[p].host) = cmd[p].token]_vars

\* A switch that failed leaves in force the token it found active, whether or
\* not its attempt to put the keyring back succeeded.
FailedSwitchRestores ==
    [][\A p \in Procs :
         pc[p] = "restore_keyring" /\ pc'[p] = "failed" =>
           /\ disk' = disk
           /\ ActiveToken(disk', keyring', cmd[p].host) = prev[p].token]_vars

\* An account of hosts.yml loses its last stored token only to its own logout:
\* no failure or crash of a login or a switch costs an account its token.
Stored(file, ring, h, u) == TokenForUser(file, ring, h, u) # NoToken
TokenLostOnlyByLogout ==
    [][\A h \in Hosts, u \in Users :
         /\ u \in disk[h].users /\ Stored(disk, keyring, h, u)
         /\ u \in disk'[h].users /\ ~Stored(disk', keyring', h, u)
         => \E p \in Procs : pc[p] = "del_user" /\ cmd[p].host = h /\ cmd[p].user = u]_vars

\* The accounts of hosts.yml change as the abstract account list says.
Accounts == INSTANCE Accounts WITH users  <- [h \in Hosts |-> disk[h].users],
                                   active <- [h \in Hosts |-> disk[h].user]
ImplementsAccounts == Accounts!Spec
=============================================================================
