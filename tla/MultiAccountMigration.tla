----------------------- MODULE MultiAccountMigration -----------------------
(***************************************************************************)
(* The one-time migration of hosts.yml to several accounts per host        *)
(* (internal/config/migration/multi_account.go), which every gh command    *)
(* runs first, from cfg.Migrate in internal/config/config.go.              *)
(*                                                                         *)
(* A process reads config.yml (the version) and hosts.yml, migrates its    *)
(* copy host by host, copying keyring tokens as it goes, and only then     *)
(* writes hosts.yml and, after it, the new version to config.yml.  Keyring *)
(* and API calls and both writes may fail; a process may crash between any *)
(* two steps; several processes may migrate at the same time; the next gh  *)
(* command tries again.                                                    *)
(***************************************************************************)
EXTENDS Naturals

CONSTANTS
    Procs,      \* gh processes
    Hosts,      \* hostnames
    Users,      \* account names
    Tokens,     \* OAuth tokens
    Owner,      \* Owner[t]: the account the API names for token t
    NoUser,     \* no "user" key; as a keyring slot, the unkeyed slot ""
    Anonymous,  \* the user name "x-access-token"
    NoToken,    \* no token
    MaxFaults,  \* bound on the number of failures and crashes
    MaxRuns     \* bound on the number of gh processes started

ASSUME MigrationAssumption ==
    /\ Hosts # {}
    /\ Owner \in [Tokens -> Users]
    /\ NoUser \notin Users /\ Anonymous \notin Users \cup {NoUser}
    /\ NoToken \notin Tokens
    /\ MaxFaults \in Nat /\ MaxRuns \in Nat

VARIABLES
    disk,     \* hosts.yml
    version,  \* the version key of config.yml: "" or "1"
    keyring,  \* keyring[h][s]
    faults, runs,
    pc,       \* what each process does next
    mem,      \* each process's copy of hosts.yml
    seen,     \* the version each process read
    todo,     \* the hosts each process has yet to migrate
    host,     \* the host each process is migrating
    got,      \* its token, and whether that came from the keyring
    legacy    \* history: hosts.yml before any migration

vars == <<disk, version, keyring, faults, runs, pc, mem, seen, todo, host, got, legacy>>

-----------------------------------------------------------------------------
MaybeToken == Tokens \cup {NoToken}
Slots   == Users \cup {NoUser}
Names   == Users \cup {NoUser, Anonymous}
Entry   == [listed: BOOLEAN, user: Names, token: MaybeToken, users: SUBSET Users,
            tok: [Users -> MaybeToken]]
NoToks  == [u \in Users |-> NoToken]
Unlisted == [listed |-> FALSE, user |-> NoUser, token |-> NoToken, users |-> {}, tok |-> NoToks]
File    == [Hosts -> Entry]
Versions == {"", "1"}
Sources == [token: MaybeToken, inKeyring: BOOLEAN]
NoSource == [token |-> NoToken, inKeyring |-> FALSE]
Labels  == {"idle", "read_hosts", "pick", "get_token", "get_username", "migrate",
            "write_hosts", "write_version"}

\* hosts.yml as a gh without multiple accounts left it.
Legacy(u, t) == [listed |-> TRUE, user |-> u, token |-> t, users |-> {}, tok |-> NoToks]
LegacyEntries ==
    {Unlisted} \cup {Legacy(u, t) : u \in Names, t \in MaybeToken}

TypeOK ==
    /\ disk \in File /\ legacy \in File
    /\ version \in Versions
    /\ keyring \in [Hosts -> [Slots -> MaybeToken]]
    /\ faults \in 0..MaxFaults /\ runs \in 0..MaxRuns
    /\ pc \in [Procs -> Labels]
    /\ mem \in [Procs -> File]
    /\ seen \in [Procs -> Versions]
    /\ todo \in [Procs -> SUBSET Hosts]
    /\ host \in [Procs -> Hosts]
    /\ got \in [Procs -> Sources]

\* getUsername: the name in the file, unless it is missing or anonymous.
Named(e, t) == IF e.user \in Users THEN e.user ELSE Owner[t]

\* migrateConfig: the host-level token, or none, goes under the account too.
MigrateEntry(e, u) == [e EXCEPT !.user = u, !.users = @ \cup {u}, !.tok[u] = e.token]

-----------------------------------------------------------------------------
Fault == faults < MaxFaults /\ faults' = faults + 1

Goto(p, label) == pc' = [pc EXCEPT ![p] = label]

\* The process exits: the migration is done, was not needed, or was refused
\* (CowardlyRefusalError), which leaves the files as they are.
Exit(p) == Goto(p, "idle")
Refuse(p) == Fault /\ Exit(p)

\* config.Read: config.yml first, then hosts.yml.
ReadVersion(p) ==
    /\ pc[p] = "idle"
    /\ runs < MaxRuns
    /\ runs' = runs + 1
    /\ seen' = [seen EXCEPT ![p] = version]
    /\ Goto(p, "read_hosts")
    /\ UNCHANGED <<disk, version, keyring, faults, mem, todo, host, got, legacy>>

\* Migrate: nothing to do when the version is already there; Do: nothing to
\* migrate when hosts.yml lists no host.
ReadHosts(p) ==
    LET listed == {h \in Hosts : disk[h].listed}
    IN  /\ pc[p] = "read_hosts"
        /\ mem' = [mem EXCEPT ![p] = disk]
        /\ todo' = [todo EXCEPT ![p] = listed]
        /\ IF seen[p] = "1" THEN Exit(p)
           ELSE Goto(p, IF listed = {} THEN "write_version" ELSE "pick")
        /\ UNCHANGED <<disk, version, keyring, faults, runs, seen, host, got, legacy>>

\* The loop over the hosts, in whatever order the file lists them.
Take(p, h) == todo' = [todo EXCEPT ![p] = @ \ {h}]

PickHost(p) ==
    /\ pc[p] = "pick"
    /\ \/ /\ todo[p] = {}
          /\ Goto(p, "write_hosts")
          /\ UNCHANGED <<todo, host>>
       \/ \E h \in todo[p] : /\ Take(p, h)
                             /\ host' = [host EXCEPT ![p] = h]
                             /\ Goto(p, "get_token")
    /\ UNCHANGED <<disk, version, keyring, faults, runs, mem, seen, got, legacy>>

\* getToken: from the file, or from the unkeyed keyring slot.  A host without
\* a token is dropped from the file; any other keyring error is a refusal.
DropHost(p) ==
    /\ mem' = [mem EXCEPT ![p][host[p]] = Unlisted]
    /\ Goto(p, "pick")
    /\ UNCHANGED <<faults, got>>

Found(p, t, inKeyring) ==
    /\ got' = [got EXCEPT ![p] = [token |-> t, inKeyring |-> inKeyring]]
    /\ Goto(p, "get_username")
    /\ UNCHANGED <<faults, mem>>

KeyringGetFailsDropped(p) ==
    /\ Fault
    /\ mem' = [mem EXCEPT ![p][host[p]] = Unlisted]
    /\ Goto(p, "pick")
    /\ UNCHANGED got
KeyringGetFails(p) == Refuse(p) /\ UNCHANGED <<mem, got>>

GetToken(p) ==
    LET plain == mem[p][host[p]].token
        secret == keyring[host[p]][NoUser]
    IN  /\ pc[p] = "get_token"
        /\ \/ plain # NoToken /\ Found(p, plain, FALSE)
           \/ plain = NoToken /\ secret # NoToken /\ Found(p, secret, TRUE)
           \/ plain = NoToken /\ secret = NoToken /\ DropHost(p)
           \/ plain = NoToken /\ KeyringGetFails(p)
        /\ UNCHANGED <<disk, version, keyring, runs, seen, todo, host, legacy>>

\* getUsername asks the API when the file does not name the account; then
\* migrateConfig changes the copy.
GetUsername(p) ==
    LET e == mem[p][host[p]]
    IN  /\ pc[p] = "get_username"
        /\ \/ /\ mem' = [mem EXCEPT ![p][host[p]] = MigrateEntry(e, Named(e, got[p].token))]
              /\ Goto(p, "migrate")
              /\ UNCHANGED faults
           \/ /\ e.user \notin Users
              /\ Refuse(p)
              /\ UNCHANGED mem
        /\ UNCHANGED <<disk, version, keyring, runs, seen, todo, host, got, legacy>>

\* migrateToken: a keyring token is copied to the account's slot.  A Set that
\* reports an error, a timeout included, may have been carried out.
CopyTokenIgnoresErrors(p, h) ==
    \/ /\ keyring' = [keyring EXCEPT ![h][mem[p][h].user] = got[p].token]
       /\ Goto(p, "pick")
       /\ UNCHANGED faults
    \/ Fault /\ Goto(p, "pick") /\ UNCHANGED keyring

CopyToken(p, h) ==
    LET ring == [keyring EXCEPT ![h][mem[p][h].user] = got[p].token]
    IN  \/ keyring' = ring /\ Goto(p, "pick") /\ UNCHANGED faults
        \/ keyring' \in {keyring, ring} /\ Refuse(p)

MigrateToken(p) ==
    /\ pc[p] = "migrate"
    /\ IF got[p].inKeyring THEN CopyToken(p, host[p])
                           ELSE Goto(p, "pick") /\ UNCHANGED <<keyring, faults>>
    /\ UNCHANGED <<disk, version, runs, mem, seen, todo, host, got, legacy>>

\* cfg.Write after the loop: hosts.yml, then config.yml with the version.
WriteHosts(p) ==
    /\ pc[p] = "write_hosts"
    /\ \/ disk' = mem[p] /\ Goto(p, "write_version") /\ UNCHANGED faults
       \/ Refuse(p) /\ UNCHANGED disk
    /\ UNCHANGED <<version, keyring, runs, mem, seen, todo, host, got, legacy>>

WriteVersion(p) ==
    /\ pc[p] = "write_version"
    /\ \/ version' = "1" /\ Exit(p) /\ UNCHANGED faults
       \/ Refuse(p) /\ UNCHANGED version
    /\ UNCHANGED <<disk, keyring, runs, mem, seen, todo, host, got, legacy>>

Crash(p) ==
    /\ pc[p] # "idle"
    /\ Refuse(p)
    /\ UNCHANGED <<disk, version, keyring, runs, mem, seen, todo, host, got, legacy>>

-----------------------------------------------------------------------------
\* A consistent old installation: a named account owns its token.
Init ==
    /\ legacy \in [Hosts -> LegacyEntries]
    /\ disk = legacy
    /\ version = ""
    /\ keyring \in [Hosts -> {[s \in Slots |-> IF s = NoUser THEN t ELSE NoToken] : t \in MaybeToken}]
    /\ \A h \in Hosts : \A t \in {legacy[h].token, keyring[h][NoUser]} \ {NoToken} :
         legacy[h].user \in Users => legacy[h].user = Owner[t]
    /\ faults = 0 /\ runs = 0
    /\ pc = [p \in Procs |-> "idle"]
    /\ mem = [p \in Procs |-> [h \in Hosts |-> Unlisted]]
    /\ seen = [p \in Procs |-> ""]
    /\ todo = [p \in Procs |-> {}]
    /\ host = [p \in Procs |-> CHOOSE h \in Hosts : TRUE]
    /\ got = [p \in Procs |-> NoSource]

Migrate(p) ==
    \/ ReadHosts(p) \/ PickHost(p) \/ GetToken(p) \/ GetUsername(p) \/ MigrateToken(p)
    \/ WriteHosts(p) \/ WriteVersion(p)

Next == \E p \in Procs : ReadVersion(p) \/ Migrate(p) \/ Crash(p)

Spec == Init /\ [][Next]_vars

-----------------------------------------------------------------------------
\* Properties.

\* What migrating a host means, given the token of the unkeyed keyring slot.
HostToken(e, active) == IF e.token # NoToken THEN e.token ELSE active
MigratedEntry(e, active) ==
    LET t == HostToken(e, active)
    IN  IF ~e.listed \/ t = NoToken THEN Unlisted
        ELSE LET u == Named(e, t)
             IN  [e EXCEPT !.user = u, !.users = @ \cup {u}, !.tok[u] = e.token]
MigratedFile == [h \in Hosts |-> MigratedEntry(legacy[h], keyring[h][NoUser])]

\* hosts.yml is either untouched or completely migrated: no failure, crash or
\* concurrent migration leaves some hosts migrated and others not, or
\* migrates a host twice.
AllOrNothing == disk \in {legacy, MigratedFile}

\* No host that could authenticate is dropped, and it keeps its token.
TokensKept ==
    \A h \in Hosts :
        LET t == HostToken(legacy[h], keyring[h][NoUser])
        IN  legacy[h].listed /\ t # NoToken =>
              disk[h].listed /\ HostToken(disk[h], keyring[h][NoUser]) = t

\* Once the version is written no migration runs again, so by then every
\* account must have its name and its token where TokenForUser looks for it.
VersionMeansMigrated ==
    version = "1" =>
        \A h \in Hosts :
            LET e == disk[h]
            IN  e.listed =>
                  /\ e.users = {e.user}
                  /\ (IF keyring[h][e.user] # NoToken THEN keyring[h][e.user] ELSE e.tok[e.user])
                       = HostToken(e, keyring[h][NoUser])

\* hosts.yml is never half migrated, and the version never written too early, whatever
\* fails or crashes and however many processes migrate at once (Do in
\* multi_account.go, Migrate in config.go).
MigrationSound == AllOrNothing /\ VersionMeansMigrated
=============================================================================
