-------------------------- MODULE AuthConfigProofs --------------------------
(***************************************************************************)
(* For every set of hosts, accounts, tokens and gh processes, every kind   *)
(* and number of faults: the store is well typed, and neither hosts.yml    *)
(* nor a keyed keyring slot ever holds another account's token.            *)
(*                                                                         *)
(* OwnershipInv is not inductive: it speaks of the shared stores only,     *)
(* while what will be written to them is on its way in a process's memory, *)
(* in its command, or in a keyring call that timed out.  IInv says the     *)
(* same of those.                                                          *)
(*                                                                         *)
(* The second part is about one process at a time (OneAtATime), which may  *)
(* run any number of commands: the store implements Accounts, and, if      *)
(* keyring calls answer in time (Punctual), a login takes effect and no    *)
(* token is lost but by a logout.                                          *)
(*                                                                         *)
(* The third part adds that at most one fault happens, of any kind: then   *)
(* the token in force between commands is the active account's, and a      *)
(* switch that fails leaves the one that it found.                         *)
(***************************************************************************)
EXTENDS AuthConfig, TLAPS

Activating == {"prev_user", "prev_active", "clear_active", "get_user", "set_active",
               "activate"}

\* A process whose switch failed holds a copy of hosts.yml that may mix two
\* accounts, and never writes it: the one exemption.
MemoryInv ==
    \A p \in Procs :
        /\ pc[p] # "failed" => FileOwnership(mem[p])
        /\ pc[p] \in Activating => target[p] \in Users
        /\ cmd[p].token # NoToken => Owner[cmd[p].token] = cmd[p].user

LateInv ==
    \A l \in late : l.slot \in Users /\ l.val # NoToken => Owner[l.val] = l.slot

IInv == TypeOK /\ OwnershipInv /\ MemoryInv /\ LateInv

-----------------------------------------------------------------------------
\* The sections the operations build are sections, and pair accounts with
\* their own tokens when they are given such pairs.
LEMMA NoEntryFacts == NoEntry \in Entry /\ EntryOwnership(NoEntry)
  BY ConstantsAssumption DEF NoEntry, Entry, EntryOwnership, MaybeUser, MaybeToken

LEMMA AddUserFacts ==
  ASSUME NEW e \in Entry, NEW u \in Users, NEW t \in MaybeToken
  PROVE  /\ AddUser(e, u, t) \in Entry
         /\ EntryOwnership(e) /\ (t # NoToken => Owner[t] = u)
              => EntryOwnership(AddUser(e, u, t))
  BY DEF AddUser, Entry, EntryOwnership, MaybeUser, MaybeToken

LEMMA RemoveUserFacts ==
  ASSUME NEW e \in Entry, NEW u \in Users
  PROVE  /\ RemoveUser(e, u) \in Entry
         /\ EntryOwnership(e) => EntryOwnership(RemoveUser(e, u))
  BY DEF RemoveUser, Entry, EntryOwnership, MaybeUser, MaybeToken

LEMMA SetActiveUserFacts ==
  ASSUME NEW e \in Entry, NEW u \in MaybeUser, NEW t \in MaybeToken
  PROVE  /\ SetActiveUser(e, u, t) \in Entry
         /\ EntryOwnership(e) /\ (t # NoToken => u = Owner[t])
              => EntryOwnership(SetActiveUser(e, u, t))
  BY DEF SetActiveUser, Entry, EntryOwnership, MaybeUser, MaybeToken

-----------------------------------------------------------------------------
\* What a keyring write leaves true of the shared stores.
LEMMA KeyringWriteFacts ==
  ASSUME TypeOK, OwnershipInv, LateInv,
         NEW h \in Hosts, NEW s \in Slots, NEW v \in MaybeToken, NEW ok \in BOOLEAN,
         s \in Users /\ v # NoToken => Owner[v] = s,
         KeyringWrite(h, s, v, ok)
  PROVE  /\ keyring' \in [Hosts -> [Slots -> MaybeToken]]
         /\ late' \subseteq [host: Hosts, slot: Slots, val: MaybeToken]
         /\ faults' \in 0..MaxFaults
         /\ \A g \in Hosts, u \in Users :
              keyring'[g][u] # NoToken => Owner[keyring'[g][u]] = u
         /\ LateInv'
<1> USE DEF TypeOK, OwnershipInv, Slots, MaybeUser
<1>1. CASE keyring' = [keyring EXCEPT ![h][s] = v] /\ UNCHANGED <<late, faults>>
  <2>1. keyring' \in [Hosts -> [Slots -> MaybeToken]]
    BY <1>1
  <2>2. \A g \in Hosts, u \in Users :
          keyring'[g][u] # NoToken => Owner[keyring'[g][u]] = u
    BY <1>1
  <2>3. LateInv'
    BY <1>1 DEF LateInv
  <2> QED BY <1>1, <2>1, <2>2, <2>3
<1>2. CASE Fault("error") /\ UNCHANGED <<keyring, late>>
  <2>1. faults' \in 0..MaxFaults
    BY <1>2, ConstantsAssumption DEF Fault
  <2> QED BY <1>2, <2>1 DEF LateInv
<1>3. CASE /\ Fault("timeout") /\ UNCHANGED keyring
           /\ late' = late \cup {[host |-> h, slot |-> s, val |-> v]}
  <2>1. faults' \in 0..MaxFaults
    BY <1>3, ConstantsAssumption DEF Fault
  <2>2. late' \subseteq [host: Hosts, slot: Slots, val: MaybeToken]
    BY <1>3
  <2>3. LateInv'
    BY <1>3 DEF LateInv
  <2> QED BY <1>3, <2>1, <2>2, <2>3
<1> QED BY <1>1, <1>2, <1>3, Zenon DEF KeyringWrite

LEMMA KeyringReadFacts ==
  ASSUME TypeOK, NEW h \in Hosts, NEW s \in Slots, NEW r \in MaybeToken,
         KeyringRead(h, s, r)
  PROVE  faults' \in 0..MaxFaults /\ UNCHANGED <<keyring, late>>
  BY ConstantsAssumption DEF TypeOK, KeyringRead, Fault

-----------------------------------------------------------------------------
LEMMA StartPreserves ==
  ASSUME IInv, NEW p \in Procs, Start(p)
  PROVE  IInv'
<1> USE DEF IInv, TypeOK, Start, Goto, Labels
<1>1. TypeOK'
  BY ConstantsAssumption
<1>2. MemoryInv'
  BY DEF MemoryInv, OwnershipInv, Activating
<1>3. OwnershipInv' /\ LateInv'
  BY DEF OwnershipInv, LateInv
<1> QED BY <1>1, <1>2, <1>3

LEMMA EnterLoginPreserves ==
  ASSUME IInv, NEW p \in Procs, NEW op \in {"login", "refresh"}, NEW h \in Hosts,
         NEW t \in Tokens, NEW s \in BOOLEAN, EnterLogin(p, op, h, t, s)
  PROVE  IInv'
<1> DEFINE c == [op |-> op, host |-> h, user |-> Owner[t], token |-> t, secure |-> s]
<1>1. c \in Commands
  BY ConstantsAssumption DEF Commands, MaybeToken
<1>2. cmd' = [cmd EXCEPT ![p] = c] /\ pc' = [pc EXCEPT ![p] = pc'[p]]
      /\ pc'[p] \in {"login_keyring", "login_insecure"}
  BY DEF EnterLogin, Run, Goto, IInv, TypeOK
<1>3. UNCHANGED <<disk, keyring, late, faults, runs, mem, target, got, prev, last>>
  BY DEF EnterLogin
<1> HIDE DEF c
<1>4. TypeOK'
  BY <1>1, <1>2, <1>3 DEF IInv, TypeOK, Labels
<1>5. MemoryInv'
  <2>1. c.token # NoToken => Owner[c.token] = c.user
    BY DEF c
  <2>2. pc[p] # "failed"
    BY DEF EnterLogin
  <2> QED BY <1>2, <1>3, <2>1, <2>2 DEF IInv, TypeOK, MemoryInv, Activating
<1>6. OwnershipInv' /\ LateInv'
  BY <1>3 DEF IInv, OwnershipInv, LateInv
<1> QED BY <1>4, <1>5, <1>6 DEF IInv

\* The shared part of IInv, and the part of one process.
StoreInv ==
    /\ keyring \in [Hosts -> [Slots -> MaybeToken]]
    /\ late \subseteq [host: Hosts, slot: Slots, val: MaybeToken]
    /\ faults \in 0..MaxFaults
    /\ \A g \in Hosts, u \in Users : keyring[g][u] # NoToken => Owner[keyring[g][u]] = u
    /\ LateInv

ProcTypeOK ==
    /\ pc \in [Procs -> Labels] /\ cmd \in [Procs -> Commands]
    /\ mem \in [Procs -> HostsFile] /\ target \in [Procs -> MaybeUser]
    /\ got \in [Procs -> MaybeToken]
    /\ prev \in [Procs -> [user: MaybeUser, token: MaybeToken,
                           src: {"none", "oauth_token", "keyring"}]]

ProcInv(p) ==
    /\ pc[p] # "failed" => FileOwnership(mem[p])
    /\ pc[p] \in Activating => target[p] \in Users
    /\ cmd[p].token # NoToken => Owner[cmd[p].token] = cmd[p].user

\* A step of process p leaves the variables of the others alone.
OthersUnchanged(p) ==
    \A q \in Procs : q # p => /\ pc'[q] = pc[q] /\ cmd'[q] = cmd[q]
                              /\ mem'[q] = mem[q] /\ target'[q] = target[q]

LEMMA InvParts ==
  IInv <=> /\ StoreInv /\ ProcTypeOK /\ \A p \in Procs : ProcInv(p)
           /\ disk \in HostsFile /\ FileOwnership(disk) /\ runs \in 0..MaxRuns
           /\ last \in [Hosts -> [Users -> MaybeToken]]
  BY DEF IInv, TypeOK, OwnershipInv, MemoryInv, StoreInv, ProcTypeOK, ProcInv

LEMMA StepPreserves ==
  ASSUME IInv, NEW p \in Procs, StoreInv', ProcTypeOK', ProcInv(p)', OthersUnchanged(p),
         UNCHANGED <<disk, runs, last>>
  PROVE  IInv'
<1>1. \A q \in Procs : ProcInv(q)'
  BY InvParts DEF ProcInv, OthersUnchanged
<1>2. disk' \in HostsFile /\ FileOwnership(disk')
      /\ runs' \in 0..MaxRuns /\ last' \in [Hosts -> [Users -> MaybeToken]]
  BY InvParts
<1> QED BY <1>1, <1>2
    DEF IInv, TypeOK, OwnershipInv, MemoryInv, StoreInv, ProcTypeOK, ProcInv

LEMMA StoreUnchanged ==
  ASSUME IInv, UNCHANGED <<keyring, late, faults>>
  PROVE  StoreInv'
  BY InvParts DEF StoreInv, LateInv

LEMMA StoreWritten ==
  ASSUME IInv, NEW h \in Hosts, NEW s \in Slots, NEW v \in MaybeToken, NEW ok \in BOOLEAN,
         s \in Users /\ v # NoToken => Owner[v] = s,
         KeyringWrite(h, s, v, ok)
  PROVE  StoreInv'
  BY KeyringWriteFacts DEF IInv, StoreInv

LEMMA StoreRead ==
  ASSUME IInv, NEW h \in Hosts, NEW s \in Slots, NEW r \in MaybeToken,
         KeyringRead(h, s, r)
  PROVE  StoreInv'
  BY KeyringReadFacts, InvParts DEF IInv, StoreInv, LateInv

\* Replacing one section of one process's copy.
LEMMA MemWritten ==
  ASSUME IInv, NEW p \in Procs, NEW h \in Hosts, NEW e \in Entry,
         mem' = [mem EXCEPT ![p][h] = e]
  PROVE  /\ mem' \in [Procs -> HostsFile]
         /\ \A q \in Procs : q # p => mem'[q] = mem[q]
         /\ FileOwnership(mem[p]) /\ EntryOwnership(e) => FileOwnership(mem'[p])
<1>1. mem \in [Procs -> HostsFile]
  BY InvParts DEF ProcTypeOK
<1>2. /\ mem' \in [Procs -> HostsFile] /\ mem'[p][h] = e
      /\ \A q \in Procs : q # p => mem'[q] = mem[q]
      /\ \A g \in Hosts : g # h => mem'[p][g] = mem[p][g]
  BY <1>1 DEF HostsFile
<1> QED BY <1>2 DEF FileOwnership

\* The types a step finds, gathered once.
LEMMA Facts ==
  ASSUME IInv, NEW p \in Procs
  PROVE  /\ cmd[p] \in Commands /\ cmd[p].host \in Hosts /\ cmd[p].user \in Users
         /\ cmd[p].user \in Slots /\ cmd[p].token \in MaybeToken
         /\ NoUser \in Slots /\ NoUser \notin Users /\ NoToken \in MaybeToken
         /\ mem \in [Procs -> HostsFile] /\ mem[p] \in HostsFile
         /\ target[p] \in MaybeUser /\ target[p] \in Slots
         /\ got[p] \in MaybeToken /\ prev[p].user \in MaybeUser /\ prev[p].user \in Slots
         /\ prev[p].token \in MaybeToken
         /\ \A h \in Hosts : /\ mem[p][h] \in Entry
                             /\ mem[p][h].user \in MaybeUser /\ mem[p][h].token \in MaybeToken
                             /\ \A u \in Users : mem[p][h].tok[u] \in MaybeToken
                             /\ FileOwnership(mem[p]) => EntryOwnership(mem[p][h])
         /\ ProcInv(p)
  BY ConstantsAssumption, InvParts
     DEF ProcTypeOK, Commands, HostsFile, Entry, Slots, MaybeUser, MaybeToken, FileOwnership

-----------------------------------------------------------------------------
LEMMA LoginKeyringPreserves ==
  ASSUME IInv, NEW p \in Procs, LoginKeyring(p)
  PROVE  IInv'
<1> DEFINE h == cmd[p].host
           u == cmd[p].user
           e == AddUser(mem[p][h], u, NoToken)
<1>1. h \in Hosts /\ u \in Users /\ u \in Slots /\ cmd[p].token \in MaybeToken
      /\ mem \in [Procs -> HostsFile] /\ mem[p][h] \in Entry
  BY Facts
<1>2. FileOwnership(mem[p]) /\ EntryOwnership(mem[p][h])
      /\ (cmd[p].token # NoToken => Owner[cmd[p].token] = u)
  BY Facts DEF ProcInv, LoginKeyring
<1>3. e \in Entry /\ EntryOwnership(e)
  BY <1>1, <1>2, AddUserFacts, Facts
<1>4. PICK ok \in BOOLEAN :
        /\ KeyringWrite(h, u, cmd[p].token, ok)
        /\ IF ok
           THEN /\ mem' = [mem EXCEPT ![p][h] = e]
                /\ target' = [target EXCEPT ![p] = u]
                /\ Goto(p, "clear_active")
           ELSE /\ Goto(p, "login_insecure")
                /\ UNCHANGED <<mem, target>>
  BY DEF LoginKeyring
<1>5. UNCHANGED <<disk, runs, cmd, got, prev, last>>
  BY DEF LoginKeyring
<1> HIDE DEF e
<1>6. StoreInv'
  BY <1>1, <1>2, <1>4, StoreWritten
<1>7. ProcTypeOK' /\ OthersUnchanged(p) /\ ProcInv(p)'
  <2>1. CASE ok
    <3>1. mem' = [mem EXCEPT ![p][h] = e] /\ target' = [target EXCEPT ![p] = u]
          /\ pc' = [pc EXCEPT ![p] = "clear_active"]
      BY <2>1, <1>4 DEF Goto
    <3>2. /\ mem' \in [Procs -> HostsFile] /\ FileOwnership(mem'[p])
          /\ \A q \in Procs : q # p => mem'[q] = mem[q]
      BY <3>1, <1>1, <1>2, <1>3, MemWritten
    <3>3. ProcTypeOK'
      BY <3>1, <3>2, <1>1, <1>5, InvParts DEF ProcTypeOK, Labels, MaybeUser
    <3>4. OthersUnchanged(p)
      BY <3>1, <3>2, <1>5, InvParts DEF ProcTypeOK, OthersUnchanged
    <3> QED BY <3>1, <3>2, <3>3, <3>4, <1>1, <1>2, <1>5, InvParts DEF ProcInv, ProcTypeOK
  <2>2. CASE ~ok
    BY <2>2, <1>2, <1>4, <1>5, InvParts
       DEF Goto, ProcTypeOK, ProcInv, OthersUnchanged, Labels, Activating
  <2> QED BY <2>1, <2>2
<1> QED BY <1>5, <1>6, <1>7, StepPreserves

LEMMA LoginInsecurePreserves ==
  ASSUME IInv, NEW p \in Procs, LoginInsecure(p)
  PROVE  IInv'
<1> DEFINE h == cmd[p].host
           u == cmd[p].user
           e == AddUser(mem[p][h], u, cmd[p].token)
<1>1. h \in Hosts /\ u \in Users /\ e \in Entry /\ EntryOwnership(e) /\ FileOwnership(mem[p])
  BY Facts, AddUserFacts DEF ProcInv, LoginInsecure
<1> HIDE DEF e
<1>2. /\ mem' = [mem EXCEPT ![p][h] = e] /\ target' = [target EXCEPT ![p] = u]
      /\ pc' = [pc EXCEPT ![p] = "clear_active"]
      /\ UNCHANGED <<disk, keyring, late, faults, runs, cmd, got, prev, last>>
  BY DEF LoginInsecure, Goto, e
<1>3. /\ mem' \in [Procs -> HostsFile] /\ FileOwnership(mem'[p])
      /\ \A q \in Procs : q # p => mem'[q] = mem[q]
  BY <1>1, <1>2, MemWritten
<1>4. ProcTypeOK' /\ OthersUnchanged(p)
  BY <1>1, <1>2, <1>3, InvParts DEF ProcTypeOK, OthersUnchanged, Labels, MaybeUser
<1>5. ProcInv(p)'
  BY <1>1, <1>2, <1>3, InvParts DEF ProcInv, ProcTypeOK
<1> QED BY <1>2, <1>4, <1>5, StoreUnchanged, StepPreserves

LEMMA ClearActivePreserves ==
  ASSUME IInv, NEW p \in Procs, ClearActive(p)
  PROVE  IInv'
<1> DEFINE h == cmd[p].host
           e == SetActiveUser(mem[p][h], mem[p][h].user, NoToken)
<1>1. h \in Hosts /\ e \in Entry /\ EntryOwnership(e) /\ FileOwnership(mem[p])
      /\ target[p] \in Users
  BY Facts, SetActiveUserFacts DEF ProcInv, ClearActive, Activating
<1> HIDE DEF e
<1>2. /\ mem' = [mem EXCEPT ![p][h] = e] /\ pc' = [pc EXCEPT ![p] = "get_user"]
      /\ UNCHANGED <<disk, runs, cmd, target, got, prev, last>>
  <2>1. mem' = [mem EXCEPT ![p][h] = SetActiveUser(@, @.user, NoToken)]
    BY DEF ClearActive
  <2> QED BY <2>1, Facts DEF ClearActive, Goto, e, SetActiveUser, HostsFile
<1>3. StoreInv'
  BY <1>1, Facts, StoreWritten DEF ClearActive
<1>4. /\ mem' \in [Procs -> HostsFile] /\ FileOwnership(mem'[p])
      /\ \A q \in Procs : q # p => mem'[q] = mem[q]
  BY <1>1, <1>2, MemWritten
<1>5. ProcTypeOK' /\ OthersUnchanged(p)
  BY <1>2, <1>4, InvParts DEF ProcTypeOK, OthersUnchanged, Labels
<1>6. ProcInv(p)'
  BY <1>1, <1>2, <1>4, InvParts DEF ProcInv, ProcTypeOK
<1> QED BY <1>2, <1>3, <1>5, <1>6, StepPreserves

\* Steps that leave the process's copy of the file alone.
LEMMA GetUserTokenPreserves ==
  ASSUME IInv, NEW p \in Procs, GetUserToken(p)
  PROVE  IInv'
<1>1. PICK res \in MaybeToken :
        /\ KeyringRead(cmd[p].host, target[p], res)
        /\ got' = [got EXCEPT ![p] = res]
        /\ pc' = [pc EXCEPT ![p] = IF res # NoToken THEN "set_active" ELSE "activate"]
  BY DEF GetUserToken, Goto
<1>2. UNCHANGED <<disk, runs, cmd, mem, target, prev, last>>
  BY DEF GetUserToken
<1>3. StoreInv'
  BY <1>1, Facts, StoreRead
<1>4. ProcTypeOK' /\ OthersUnchanged(p)
  BY <1>1, <1>2, InvParts DEF ProcTypeOK, OthersUnchanged, Labels
<1>5. ProcInv(p)'
  BY <1>1, <1>2, Facts, InvParts DEF ProcInv, ProcTypeOK, GetUserToken, Activating
<1> QED BY <1>2, <1>3, <1>4, <1>5, StepPreserves

LEMMA SetActivePreserves ==
  ASSUME IInv, NEW p \in Procs, SetActive(p)
  PROVE  IInv'
<1>1. PICK ok \in BOOLEAN :
        /\ KeyringWrite(cmd[p].host, NoUser, got[p], ok)
        /\ IF ok THEN Goto(p, "activate") ELSE ActivateFails(p)
  BY DEF SetActive
<1>2. UNCHANGED <<disk, runs, cmd, mem, target, got, prev, last>>
  BY DEF SetActive
<1>3. StoreInv'
  BY <1>1, Facts, StoreWritten
<1>4. PICK l \in {"activate", "restore_keyring", "failed"} : pc' = [pc EXCEPT ![p] = l]
  BY <1>1 DEF Goto, ActivateFails
<1>5. ProcTypeOK' /\ OthersUnchanged(p)
  BY <1>2, <1>4, InvParts DEF ProcTypeOK, OthersUnchanged, Labels
<1>6. ProcInv(p)'
  BY <1>2, <1>4, Facts, InvParts DEF ProcInv, ProcTypeOK, SetActive, Activating
<1> QED BY <1>2, <1>3, <1>5, <1>6, StepPreserves

LEMMA ActivatePreserves ==
  ASSUME IInv, NEW p \in Procs, Activate(p)
  PROVE  IInv'
<1> DEFINE h == cmd[p].host
           t == mem[p][h].tok[target[p]]
           e == SetActiveUser(mem[p][h], target[p], t)
<1>1. h \in Hosts /\ target[p] \in Users /\ t \in MaybeToken /\ FileOwnership(mem[p])
      /\ mem[p][h] \in Entry /\ EntryOwnership(mem[p][h])
  BY Facts DEF ProcInv, Activate, Activating
<1>2. e \in Entry /\ EntryOwnership(e)
  <2>1. t # NoToken => target[p] = Owner[t]
    BY <1>1 DEF EntryOwnership
  <2> QED BY <1>1, <2>1, Facts, SetActiveUserFacts
<1> HIDE DEF e
<1>3. UNCHANGED <<disk, keyring, late, faults, runs, cmd, target, got, prev, last>>
  BY DEF Activate
<1>4. CASE ActivateFails(p) /\ UNCHANGED mem
  <2>1. PICK l \in {"restore_keyring", "failed"} : pc' = [pc EXCEPT ![p] = l]
    BY <1>4 DEF Goto, ActivateFails
  <2>2. ProcTypeOK' /\ OthersUnchanged(p)
    BY <1>3, <1>4, <2>1, InvParts DEF ProcTypeOK, OthersUnchanged, Labels
  <2>3. ProcInv(p)'
    BY <1>1, <1>3, <1>4, <2>1, InvParts DEF ProcInv, ProcTypeOK, Activating
  <2> QED BY <1>3, <2>2, <2>3, StoreUnchanged, StepPreserves
<1>5. CASE mem' = [mem EXCEPT ![p][h] = e] /\ Goto(p, "write")
  <2>1. /\ mem' \in [Procs -> HostsFile] /\ FileOwnership(mem'[p])
        /\ \A q \in Procs : q # p => mem'[q] = mem[q]
    BY <1>1, <1>2, <1>5, MemWritten
  <2>2. ProcTypeOK' /\ OthersUnchanged(p)
    BY <1>3, <1>5, <2>1, InvParts DEF ProcTypeOK, OthersUnchanged, Labels, Goto
  <2>3. ProcInv(p)'
    BY <1>1, <1>3, <1>5, <2>1, InvParts DEF ProcInv, ProcTypeOK, Goto
  <2> QED BY <1>3, <2>2, <2>3, StoreUnchanged, StepPreserves
<1> QED BY <1>4, <1>5 DEF Activate, e

LEMMA LastTyped ==
  ASSUME IInv, NEW p \in Procs, Write(p)
  PROVE  last' \in [Hosts -> [Users -> MaybeToken]]
<1>1. last \in [Hosts -> [Users -> MaybeToken]]
  BY InvParts
<1>2. ASSUME NEW h \in Hosts, NEW u \in Users, NEW t \in MaybeToken
      PROVE  [last EXCEPT ![h][u] = t] \in [Hosts -> [Users -> MaybeToken]]
  BY <1>1
<1>3. \/ last' = last
      \/ last' = [last EXCEPT ![cmd[p].host][cmd[p].user] = cmd[p].token]
      \/ last' = [last EXCEPT ![cmd[p].host][cmd[p].user] = NoToken]
  BY Facts DEF Write, WriteFails, LastAfterWrite, Commands
<1>4. CASE last' = last
  BY <1>1, <1>4
<1>5. CASE last' = [last EXCEPT ![cmd[p].host][cmd[p].user] = cmd[p].token]
  BY <1>2, <1>5, Facts
<1>6. CASE last' = [last EXCEPT ![cmd[p].host][cmd[p].user] = NoToken]
  BY <1>2, <1>6, Facts
<1> QED BY <1>3, <1>4, <1>5, <1>6

\* The one step that replaces the shared file.
LEMMA WritePreserves ==
  ASSUME IInv, NEW p \in Procs, Write(p)
  PROVE  IInv'
<1>1. /\ UNCHANGED <<keyring, late, runs, cmd, mem, target, got, prev>>
      /\ FileOwnership(mem[p]) /\ mem[p] \in HostsFile
  BY Facts DEF Write, WriteFails, ProcInv
<1>2. disk' \in {disk, mem[p]} /\ faults' \in 0..MaxFaults
  BY ConstantsAssumption, InvParts DEF Write, WriteFails, Fault, StoreInv
<1>3. StoreInv'
  BY <1>1, <1>2, InvParts DEF StoreInv, LateInv
<1>4. PICK l \in {"done", "restore_keyring", "failed"} : pc' = [pc EXCEPT ![p] = l]
  BY DEF Write, WriteFails, Goto, ActivateFails
<1>5. ProcTypeOK' /\ \A q \in Procs : ProcInv(q)'
  <2>1. ProcTypeOK'
    BY <1>1, <1>4, InvParts DEF ProcTypeOK, Labels
  <2>2. \A q \in Procs : ProcInv(q)'
    BY <1>1, <1>4, InvParts DEF ProcInv, ProcTypeOK, Activating
  <2> QED BY <2>1, <2>2
<1>6. disk' \in HostsFile /\ FileOwnership(disk')
  BY <1>1, <1>2, InvParts
<1> QED BY <1>1, <1>3, <1>5, <1>6, LastTyped, InvParts
    DEF IInv, TypeOK, OwnershipInv, MemoryInv, StoreInv, ProcTypeOK, ProcInv

-----------------------------------------------------------------------------
LEMMA BeginSwitchPreserves ==
  ASSUME IInv, NEW p \in Procs, NEW h \in Hosts, NEW u \in Users, BeginSwitch(p, h, u)
  PROVE  IInv'
<1> DEFINE c == [op |-> "switch", host |-> h, user |-> u, token |-> NoToken, secure |-> FALSE]
           e == mem[p][h]
           r == [user |-> e.user, token |-> e.token,
                 src |-> IF e.token # NoToken THEN "oauth_token" ELSE "none"]
<1>1. c \in Commands /\ c.token = NoToken
      /\ r \in [user: MaybeUser, token: MaybeToken, src: {"none", "oauth_token", "keyring"}]
  BY Facts DEF Commands
<1> HIDE DEF c, r
<1>2. /\ cmd' = [cmd EXCEPT ![p] = c] /\ target' = [target EXCEPT ![p] = u]
      /\ prev' = [prev EXCEPT ![p] = r]
      /\ UNCHANGED <<disk, keyring, late, faults, runs, mem, got, last>>
  BY DEF BeginSwitch, Run, c, r
<1>3. PICK l \in {"failed", "clear_active", "prev_user"} : pc' = [pc EXCEPT ![p] = l]
  BY DEF BeginSwitch, Goto
<1>4. ProcTypeOK' /\ OthersUnchanged(p)
  BY <1>1, <1>2, <1>3, InvParts DEF ProcTypeOK, OthersUnchanged, Labels, MaybeUser
<1>5. ProcInv(p)'
  BY <1>1, <1>2, <1>3, Facts, InvParts DEF ProcInv, ProcTypeOK, BeginSwitch
<1> QED BY <1>2, <1>4, <1>5, StoreUnchanged, StepPreserves

LEMMA PrevFromUserSlotPreserves ==
  ASSUME IInv, NEW p \in Procs, PrevFromUserSlot(p)
  PROVE  IInv'
<1>1. PICK res \in MaybeToken :
        /\ KeyringRead(cmd[p].host, prev[p].user, res)
        /\ IF res # NoToken
           THEN /\ prev' = [prev EXCEPT ![p].token = res, ![p].src = "keyring"]
                /\ Goto(p, "clear_active")
           ELSE Goto(p, "prev_active") /\ UNCHANGED prev
  BY DEF PrevFromUserSlot
<1>2. UNCHANGED <<disk, runs, cmd, mem, target, got, last>>
  BY DEF PrevFromUserSlot
<1>3. StoreInv'
  BY <1>1, Facts, StoreRead
<1>4. prev' \in [Procs -> [user: MaybeUser, token: MaybeToken,
                           src: {"none", "oauth_token", "keyring"}]]
  BY <1>1, InvParts DEF ProcTypeOK
<1>5. PICK l \in {"clear_active", "prev_active"} : pc' = [pc EXCEPT ![p] = l]
  BY <1>1 DEF Goto
<1>6. ProcTypeOK' /\ OthersUnchanged(p)
  BY <1>2, <1>4, <1>5, InvParts DEF ProcTypeOK, OthersUnchanged, Labels
<1>7. ProcInv(p)'
  BY <1>2, <1>5, Facts, InvParts DEF ProcInv, ProcTypeOK, PrevFromUserSlot, Activating
<1> QED BY <1>2, <1>3, <1>6, <1>7, StepPreserves

LEMMA PrevFromActiveSlotPreserves ==
  ASSUME IInv, NEW p \in Procs, PrevFromActiveSlot(p)
  PROVE  IInv'
<1>1. PICK res \in MaybeToken :
        /\ KeyringRead(cmd[p].host, NoUser, res)
        /\ IF res # NoToken
           THEN /\ prev' = [prev EXCEPT ![p].token = res, ![p].src = "keyring"]
                /\ Goto(p, "clear_active")
           ELSE Goto(p, "failed") /\ UNCHANGED prev
  BY DEF PrevFromActiveSlot
<1>2. UNCHANGED <<disk, runs, cmd, mem, target, got, last>>
  BY DEF PrevFromActiveSlot
<1>3. StoreInv'
  BY <1>1, Facts, StoreRead
<1>4. prev' \in [Procs -> [user: MaybeUser, token: MaybeToken,
                           src: {"none", "oauth_token", "keyring"}]]
  BY <1>1, InvParts DEF ProcTypeOK
<1>5. PICK l \in {"clear_active", "failed"} : pc' = [pc EXCEPT ![p] = l]
  BY <1>1 DEF Goto
<1>6. ProcTypeOK' /\ OthersUnchanged(p)
  BY <1>2, <1>4, <1>5, InvParts DEF ProcTypeOK, OthersUnchanged, Labels
<1>7. ProcInv(p)'
  BY <1>2, <1>5, Facts, InvParts DEF ProcInv, ProcTypeOK, PrevFromActiveSlot, Activating
<1> QED BY <1>2, <1>3, <1>6, <1>7, StepPreserves

\* The one step that may leave the copy mixed up; the process stops there.
LEMMA RestorePreviousPreserves ==
  ASSUME IInv, NEW p \in Procs, RestorePrevious(p)
  PROVE  IInv'
<1>1. PICK t \in MaybeToken :
        mem' = [mem EXCEPT ![p][cmd[p].host] =
                  SetActiveUser(mem[p][cmd[p].host], prev[p].user, t)]
  <2>1. \/ mem' = [mem EXCEPT ![p][cmd[p].host] = SetActiveUser(@, prev[p].user, @.token)]
        \/ mem' = [mem EXCEPT ![p][cmd[p].host] =
                     SetActiveUser(@, prev[p].user, prev[p].token)]
    BY DEF RestorePrevious
  <2> QED BY <2>1, Facts DEF HostsFile
<1>2. pc' = [pc EXCEPT ![p] = "failed"] /\ UNCHANGED <<disk, runs, cmd, target, got, prev, last>>
  BY DEF RestorePrevious, Goto
<1>3. StoreInv'
  BY Facts, StoreWritten, StoreUnchanged DEF RestorePrevious
<1>4. mem' \in [Procs -> HostsFile] /\ \A q \in Procs : q # p => mem'[q] = mem[q]
  <2>1. SetActiveUser(mem[p][cmd[p].host], prev[p].user, t) \in Entry
    BY Facts, SetActiveUserFacts
  <2> QED BY <1>1, <2>1, Facts, MemWritten
<1>5. ProcTypeOK' /\ OthersUnchanged(p)
  BY <1>2, <1>4, InvParts DEF ProcTypeOK, OthersUnchanged, Labels
<1>6. ProcInv(p)'
  BY <1>2, Facts, InvParts DEF ProcInv, ProcTypeOK, Activating
<1> QED BY <1>2, <1>3, <1>5, <1>6, StepPreserves

-----------------------------------------------------------------------------
LEMMA BeginLogoutPreserves ==
  ASSUME IInv, NEW p \in Procs, NEW h \in Hosts, NEW u \in Users, BeginLogout(p, h, u)
  PROVE  IInv'
<1> DEFINE c == [op |-> "logout", host |-> h, user |-> u, token |-> NoToken, secure |-> FALSE]
<1>1. c \in Commands /\ c.token = NoToken
  BY DEF Commands, MaybeToken
<1> HIDE DEF c
<1>2. /\ cmd' = [cmd EXCEPT ![p] = c] /\ FileOwnership(mem[p])
      /\ UNCHANGED <<disk, keyring, late, faults, runs, got, prev, last>>
  BY Facts DEF BeginLogout, Run, c, ProcInv
<1>3. PICK e \in {NoEntry, RemoveUser(mem[p][h], u)} : mem' = [mem EXCEPT ![p][h] = e]
  <2>1. \/ mem' = [mem EXCEPT ![p][h] = NoEntry]
        \/ mem' = [mem EXCEPT ![p][h] = RemoveUser(@, u)]
    BY DEF BeginLogout
  <2> QED BY <2>1, Facts DEF HostsFile
<1>4. e \in Entry /\ EntryOwnership(e)
  BY <1>2, <1>3, Facts, NoEntryFacts, RemoveUserFacts
<1>5. /\ mem' \in [Procs -> HostsFile] /\ FileOwnership(mem'[p])
      /\ \A q \in Procs : q # p => mem'[q] = mem[q]
  BY <1>2, <1>3, <1>4, MemWritten
<1>6. \/ pc' = [pc EXCEPT ![p] = "del_active"] /\ UNCHANGED target
      \/ pc' = [pc EXCEPT ![p] = "write"] /\ UNCHANGED target
      \/ /\ pc' = [pc EXCEPT ![p] = "clear_active"]
         /\ \E v \in Users : target' = [target EXCEPT ![p] = v]
  BY Facts DEF BeginLogout, Goto, Entry
<1>7. ProcTypeOK'
  <2>1. pc' \in [Procs -> Labels] /\ target' \in [Procs -> MaybeUser]
    BY <1>6, InvParts DEF ProcTypeOK, Labels, MaybeUser
  <2>2. cmd' \in [Procs -> Commands]
    BY <1>1, <1>2, InvParts DEF ProcTypeOK
  <2> QED BY <1>2, <1>5, <2>1, <2>2, InvParts DEF ProcTypeOK
<1>8. OthersUnchanged(p)
  BY <1>2, <1>5, <1>6, InvParts DEF ProcTypeOK, OthersUnchanged
<1>9. ProcInv(p)'
  BY <1>1, <1>2, <1>5, <1>6, InvParts DEF ProcInv, ProcTypeOK, Activating
<1> QED BY <1>2, <1>7, <1>8, <1>9, StoreUnchanged, StepPreserves

\* The two keyring deletions of a logout.
LEMMA DeleteSlotsPreserve ==
  ASSUME IInv, NEW p \in Procs, DeleteActiveSlot(p) \/ DeleteUserSlot(p)
  PROVE  IInv'
<1>1. /\ UNCHANGED <<disk, runs, cmd, mem, target, got, prev, last>>
      /\ FileOwnership(mem[p])
  BY Facts DEF DeleteActiveSlot, DeleteUserSlot, ProcInv
<1>2. StoreInv'
  BY Facts, StoreWritten DEF DeleteActiveSlot, DeleteUserSlot
<1>3. PICK l \in {"del_user", "write"} : pc' = [pc EXCEPT ![p] = l]
  BY DEF DeleteActiveSlot, DeleteUserSlot, Goto
<1>4. ProcTypeOK' /\ OthersUnchanged(p)
  BY <1>1, <1>3, InvParts DEF ProcTypeOK, OthersUnchanged, Labels
<1>5. ProcInv(p)'
  BY <1>1, <1>3, Facts, InvParts DEF ProcInv, ProcTypeOK, Activating
<1> QED BY <1>1, <1>2, <1>4, <1>5, StepPreserves

\* What a process that starts from nothing holds.
LEMMA NoCommandFacts ==
  /\ NoCommand \in Commands /\ NoCommand.token = NoToken
  /\ NoPrev \in [user: MaybeUser, token: MaybeToken, src: {"none", "oauth_token", "keyring"}]
  /\ [h \in Hosts |-> NoEntry] \in HostsFile
  /\ FileOwnership([h \in Hosts |-> NoEntry])
<1>1. (CHOOSE h \in Hosts : TRUE) \in Hosts /\ (CHOOSE u \in Users : TRUE) \in Users
  BY ConstantsAssumption
<1>2. NoCommand \in Commands /\ NoCommand.token = NoToken
  BY <1>1 DEF NoCommand, Commands, MaybeToken
<1> QED BY <1>2, NoEntryFacts
    DEF NoPrev, HostsFile, FileOwnership, MaybeUser, MaybeToken

LEMMA ExitPreserves ==
  ASSUME IInv, NEW p \in Procs, Exit(p), StoreInv'
  PROVE  IInv'
<1>1. ProcTypeOK' /\ OthersUnchanged(p)
  BY NoCommandFacts, InvParts
     DEF Exit, Goto, ProcTypeOK, OthersUnchanged, Labels, MaybeUser, MaybeToken
<1>2. ProcInv(p)'
  BY NoCommandFacts, InvParts DEF Exit, Goto, ProcInv, ProcTypeOK, Activating
<1> QED BY <1>1, <1>2, StepPreserves DEF Exit

LEMMA FinishCrashPreserve ==
  ASSUME IInv, NEW p \in Procs, Finish(p) \/ Crash(p)
  PROVE  IInv'
<1>1. Exit(p) /\ UNCHANGED <<keyring, late>> /\ faults' \in 0..MaxFaults
  BY ConstantsAssumption, InvParts DEF Finish, Crash, Exit, Fault, StoreInv
<1>2. StoreInv'
  BY <1>1, InvParts DEF StoreInv, LateInv
<1> QED BY <1>1, <1>2, ExitPreserves

LEMMA LateEffectPreserves ==
  ASSUME IInv, LateEffect
  PROVE  IInv'
<1>1. PICK l \in late :
        /\ keyring' = [keyring EXCEPT ![l.host][l.slot] = l.val]
        /\ late' = late \ {l}
        /\ UNCHANGED <<disk, faults, runs, procVars, last>>
  BY DEF LateEffect
<1>2. l \in [host: Hosts, slot: Slots, val: MaybeToken]
      /\ (l.slot \in Users /\ l.val # NoToken => Owner[l.val] = l.slot)
  BY InvParts DEF StoreInv, LateInv
<1>3. keyring' \in [Hosts -> [Slots -> MaybeToken]]
  BY <1>1, <1>2, InvParts DEF StoreInv
<1>4. \A g \in Hosts, u \in Users : keyring'[g][u] # NoToken => Owner[keyring'[g][u]] = u
  BY <1>1, <1>2, InvParts DEF StoreInv, Slots, MaybeUser
<1>5. LateInv' /\ late' \subseteq [host: Hosts, slot: Slots, val: MaybeToken]
  BY <1>1, InvParts DEF StoreInv, LateInv
<1> QED BY <1>1, <1>3, <1>4, <1>5
    DEF IInv, TypeOK, OwnershipInv, MemoryInv, procVars

-----------------------------------------------------------------------------
LEMMA StutterPreserves ==
  ASSUME IInv, UNCHANGED vars
  PROVE  IInv'
  BY DEF IInv, TypeOK, OwnershipInv, MemoryInv, LateInv, vars

LEMMA BeginPreserves ==
  ASSUME IInv, NEW p \in Procs, Begin(p)
  PROVE  IInv'
<1>1. ASSUME NEW h \in Hosts, NEW t \in Tokens, NEW s \in BOOLEAN,
             BeginLogin(p, h, t, s) \/ BeginRefresh(p, h, t, s)
      PROVE  IInv'
  BY <1>1, EnterLoginPreserves DEF BeginLogin, BeginRefresh
<1> QED BY <1>1, BeginSwitchPreserves, BeginLogoutPreserves DEF Begin

LEMMA NextPreserves == IInv /\ [Next]_vars => IInv'
<1> SUFFICES ASSUME IInv, [Next]_vars PROVE IInv'
  OBVIOUS
<1>1. ASSUME NEW p \in Procs, Step(p) PROVE IInv'
  BY <1>1, BeginPreserves, LoginKeyringPreserves, LoginInsecurePreserves,
     ClearActivePreserves, GetUserTokenPreserves, SetActivePreserves, ActivatePreserves,
     WritePreserves, PrevFromUserSlotPreserves, PrevFromActiveSlotPreserves,
     RestorePreviousPreserves, DeleteSlotsPreserve
     DEF Step, Login, ActivateUser, SwitchUser, Logout
<1> QED BY <1>1, StartPreserves, FinishCrashPreserve, LateEffectPreserves,
           StutterPreserves DEF Next

LEMMA InitIInv == Init => IInv
<1> SUFFICES ASSUME Init PROVE IInv
  OBVIOUS
<1>1. StoreInv
  BY ConstantsAssumption DEF Init, StoreInv, LateInv, MaybeToken, Slots, MaybeUser
<1>2. ProcTypeOK /\ \A p \in Procs : ProcInv(p)
  BY NoCommandFacts DEF Init, ProcTypeOK, ProcInv, Labels, Activating, MaybeUser, MaybeToken
<1>3. /\ disk \in HostsFile /\ FileOwnership(disk) /\ runs \in 0..MaxRuns
      /\ last \in [Hosts -> [Users -> MaybeToken]]
  BY NoCommandFacts, ConstantsAssumption DEF Init, MaybeToken
<1> QED BY <1>1, <1>2, <1>3, InvParts

\* The inductive invariant holds of every behaviour of the store.
THEOREM Invariance == Spec => []IInv
  BY InitIInv, NextPreserves, PTL DEF Spec

\* Every variable of the store keeps its type.
THEOREM TypeCorrectness == Spec => []TypeOK
  BY Invariance, PTL DEF IInv

\* Whatever the interleaving, the faults, the crashes and the keyring calls
\* that land after their caller gave up: hosts.yml never names one account
\* next to another's token, and a keyed keyring slot holds only its own.
THEOREM Ownership == Spec => []OwnershipInv
  BY Invariance, PTL DEF IInv

-----------------------------------------------------------------------------
\* One gh process at a time.  Then nobody else writes hosts.yml while a command runs, and
\* what it will write back is the file as it is, with the one host of the command changed
\* in a way that depends on how far it has come.
OneAtATime == \A p, q \in Procs : p = q

Activation == {"clear_active", "get_user", "set_active", "activate"}
Working == Labels \ {"idle", "ready", "failed", "done"}
LogsIn(p) == cmd[p].op \in {"login", "refresh"}

\* What is left of the file to be written: the other hosts, and the tokens of the other
\* accounts.
RestInv(p, e, d) ==
    /\ pc[p] \in {"ready", "login_keyring", "login_insecure"} => mem[p] = disk
    /\ pc[p] \in Working => \A g \in Hosts \ {cmd[p].host} : mem[p][g] = disk[g]
    /\ pc[p] \in Activation \cup {"write"} =>
         \A v \in e.users : v # cmd[p].user \/ cmd[p].op = "switch" => e.tok[v] = d.tok[v]

\* The accounts of the host, in the copy (e) and on disk (d).
AccountsInv(p, e, d, u) ==
    /\ pc[p] \in {"login_keyring", "login_insecure"} => LogsIn(p)
    /\ pc[p] \in {"prev_user", "prev_active"} => cmd[p].op = "switch" /\ e = d
    /\ pc[p] \in {"prev_user", "prev_active"} \cup Activation /\ cmd[p].op = "switch" => target[p] = u
    /\ pc[p] \in {"prev_user", "prev_active", "write"} \cup Activation /\ cmd[p].op = "switch" =>
         e.users = d.users /\ u \in d.users
    /\ pc[p] \in Activation \cup {"write"} => cmd[p].op # "none"
    /\ pc[p] \in Activation \cup {"write"} /\ LogsIn(p) => e.users = d.users \cup {u}
    /\ pc[p] \in Activation /\ LogsIn(p) => target[p] = u
    /\ pc[p] \in Activation /\ cmd[p].op = "logout" =>
         d.user = u /\ u \in d.users /\ e.users = d.users \ {u} /\ target[p] \in e.users
    /\ pc[p] \in {"del_active", "del_user"} => cmd[p].op = "logout" /\ e = NoEntry /\ d.users = {u}
    /\ pc[p] = "write" /\ cmd[p].op # "logout" => e.user = u
    /\ pc[p] = "write" /\ cmd[p].op = "logout" =>
         /\ u \in d.users /\ e.users = d.users \ {u}
         /\ e.user = d.user \/ d.user = u
         /\ d.user = u => e.user \in e.users \/ (e.user = NoUser /\ e.users = {})

CopyInv(p) ==
    /\ RestInv(p, mem[p][cmd[p].host], disk[cmd[p].host])
    /\ AccountsInv(p, mem[p][cmd[p].host], disk[cmd[p].host], cmd[p].user)

\* The token of a login, until it is in the file.
LoginInv(p) ==
    LET h == cmd[p].host
        u == cmd[p].user
        e == mem[p][h]
    IN  /\ LogsIn(p) => cmd[p].token # NoToken
        /\ pc[p] \in Activation \cup {"write"} /\ LogsIn(p) =>
             \/ e.tok[u] = cmd[p].token
             \/ e.tok[u] = NoToken /\ keyring[h][u] = cmd[p].token
        /\ pc[p] = "write" /\ LogsIn(p) => e.token = e.tok[u]

\* The active account is one of the accounts.
DiskInv == \A h \in Hosts : disk[h].user \in disk[h].users \cup {NoUser}

Punctual == "timeout" \notin FaultKinds
TokenInv == Punctual => late = {} /\ \A p \in Procs : LoginInv(p)

RunInv == IInv /\ DiskInv /\ (\A p \in Procs : CopyInv(p)) /\ TokenInv

-----------------------------------------------------------------------------
\* What the operations make of a section, field by field.
LEMMA AddUserIs ==
  ASSUME NEW e \in Entry, NEW u \in Users, NEW t \in MaybeToken
  PROVE  LET f == AddUser(e, u, t)
         IN  /\ f.users = e.users \cup {u} /\ f.user = e.user /\ f.token = e.token
             /\ f.tok[u] = t /\ \A v \in Users \ {u} : f.tok[v] = e.tok[v]
  BY DEF AddUser, Entry

LEMMA RemoveUserIs ==
  ASSUME NEW e \in Entry, NEW u \in Users
  PROVE  LET f == RemoveUser(e, u)
         IN  /\ f.users = e.users \ {u} /\ f.user = e.user /\ f.token = e.token
             /\ \A v \in Users \ {u} : f.tok[v] = e.tok[v]
  BY DEF RemoveUser, Entry

LEMMA SetActiveUserIs ==
  ASSUME NEW e \in Entry, NEW u \in MaybeUser, NEW t \in MaybeToken
  PROVE  LET f == SetActiveUser(e, u, t)
         IN  f.users = e.users /\ f.user = u /\ f.token = t /\ f.tok = e.tok
  BY DEF SetActiveUser, Entry

LEMMA OneSection ==
  ASSUME IInv, NEW p \in Procs, NEW h \in Hosts, NEW e, mem' = [mem EXCEPT ![p][h] = e]
  PROVE  mem'[p][h] = e /\ \A g \in Hosts \ {h} : mem'[p][g] = mem[p][g]
  BY InvParts DEF ProcTypeOK, HostsFile

\* The part of RunInv that is about process p; the only process.
ProcRun(p) == CopyInv(p) /\ (Punctual => late = {} /\ LoginInv(p))

LEMMA OnlyProcess ==
  ASSUME OneAtATime, IInv', NEW p \in Procs, ProcRun(p)', DiskInv'
  PROVE  RunInv'
<1>1. \A q \in Procs : q = p
  BY DEF OneAtATime
<1>2. \A q \in Procs : ProcRun(q)'
  BY <1>1
<1> QED BY <1>2 DEF RunInv, ProcRun, TokenInv

\* Without timeouts a keyring call has been carried out when it returns, or never is.
LEMMA PunctualWrite ==
  ASSUME IInv, Punctual, late = {}, NEW h \in Hosts, NEW s \in Slots, NEW v \in MaybeToken, NEW ok \in BOOLEAN,
         KeyringWrite(h, s, v, ok)
  PROVE  late' = {} /\ \A g \in Hosts, r \in Slots : g # h \/ r # s => keyring'[g][r] = keyring[g][r]
<1>1. ~Fault("timeout")
  BY DEF Fault, Punctual
<1> QED BY <1>1, InvParts DEF KeyringWrite, StoreInv

-----------------------------------------------------------------------------
\* The steps of one process, one after the other.
LEMMA StartRuns == ASSUME RunInv, NEW p \in Procs, Start(p) PROVE ProcRun(p)' /\ DiskInv'
<1>1. /\ pc'[p] = "ready" /\ mem'[p] = disk
      /\ UNCHANGED <<disk, keyring, late, faults, cmd, target, got, prev, last>>
  BY InvParts DEF RunInv, Start, Goto, ProcTypeOK
<1>2. CopyInv(p)'
  BY <1>1 DEF CopyInv, RestInv, AccountsInv, Activation, Working
<1>3. Punctual => late' = {} /\ LoginInv(p)'
  BY <1>1 DEF RunInv, TokenInv, LoginInv, LogsIn, Activation
<1> QED BY <1>1, <1>2, <1>3 DEF ProcRun, RunInv, DiskInv

LEMMA EnterLoginRuns ==
  ASSUME RunInv, NEW p \in Procs, NEW op \in {"login", "refresh"}, NEW h \in Hosts, NEW t \in Tokens, NEW s \in BOOLEAN,
         EnterLogin(p, op, h, t, s)
  PROVE  ProcRun(p)' /\ DiskInv'
<1> DEFINE c == [op |-> op, host |-> h, user |-> Owner[t], token |-> t, secure |-> s]
<1>1. /\ pc'[p] \in {"login_keyring", "login_insecure"} /\ mem'[p] = disk' /\ cmd'[p] = c
      /\ UNCHANGED <<disk, late>>
  BY InvParts DEF RunInv, EnterLogin, Run, Goto, ProcTypeOK, CopyInv, RestInv
<1>2. LogsIn(p)' /\ cmd'[p].token # NoToken
  BY <1>1, ConstantsAssumption DEF LogsIn
<1>3. CopyInv(p)'
  BY <1>1, <1>2 DEF CopyInv, RestInv, AccountsInv, Activation
<1>4. LoginInv(p)'
  BY <1>1, <1>2 DEF LoginInv, Activation
<1> QED BY <1>1, <1>3, <1>4 DEF ProcRun, RunInv, DiskInv, TokenInv

\* The section that a step makes of the one of its host, in a copy otherwise unchanged.
LEMMA SectionStep ==
  ASSUME IInv, NEW p \in Procs, NEW e, mem' = [mem EXCEPT ![p][cmd[p].host] = e], cmd' = cmd
  PROVE  /\ mem'[p][cmd'[p].host] = e
         /\ \A g \in Hosts \ {cmd'[p].host} : mem'[p][g] = mem[p][g]
  BY OneSection, Facts

LEMMA LoginKeyringRuns == ASSUME RunInv, NEW p \in Procs, LoginKeyring(p) PROVE ProcRun(p)' /\ DiskInv'
<1> DEFINE h == cmd[p].host
           u == cmd[p].user
           e == AddUser(mem[p][h], u, NoToken)
<1>1. /\ h \in Hosts /\ u \in Users /\ u \in Slots /\ cmd[p].token \in MaybeToken /\ mem[p][h] \in Entry
      /\ LogsIn(p) /\ mem[p] = disk /\ IInv
  BY Facts DEF RunInv, CopyInv, RestInv, AccountsInv, LoginKeyring
<1>2. /\ e.users = disk[h].users \cup {u} /\ e.tok[u] = NoToken
      /\ \A v \in Users \ {u} : e.tok[v] = disk[h].tok[v]
  BY <1>1, AddUserIs DEF MaybeToken
<1>3. disk' = disk /\ cmd' = cmd
  BY DEF LoginKeyring
<1>4. PICK ok \in BOOLEAN :
        /\ KeyringWrite(h, u, cmd[p].token, ok)
        /\ IF ok
           THEN /\ mem' = [mem EXCEPT ![p][h] = e]
                /\ target' = [target EXCEPT ![p] = u]
                /\ Goto(p, "clear_active")
           ELSE /\ Goto(p, "login_insecure")
                /\ UNCHANGED <<mem, target>>
  BY DEF LoginKeyring
<1> HIDE DEF e
<1>5. e.users \subseteq Users
  BY <1>1, <1>2 DEF Entry, RunInv, IInv, TypeOK, HostsFile
<1>6. CASE ok
  <2>1. /\ mem'[p][cmd'[p].host] = e /\ \A g \in Hosts \ {cmd'[p].host} : mem'[p][g] = disk'[g]
        /\ pc'[p] = "clear_active" /\ target'[p] = u
    BY <1>1, <1>3, <1>4, <1>6, SectionStep, InvParts DEF Goto, ProcTypeOK
  <2>2. CopyInv(p)'
    BY <1>1, <1>2, <1>3, <1>5, <2>1 DEF CopyInv, RestInv, AccountsInv, LogsIn, Activation
  <2>3. ASSUME Punctual
        PROVE  late' = {} /\ LoginInv(p)'
    <3>1. late' = {} /\ keyring'[h][u] = cmd[p].token
      <4>1. late = {} /\ KeyringWrite(h, u, cmd[p].token, ok)
        BY <1>4, <2>3 DEF RunInv, TokenInv
      <4>2. keyring' = [keyring EXCEPT ![h][u] = cmd[p].token]
        BY <1>6, <4>1 DEF KeyringWrite
      <4> QED BY <1>1, <2>3, <4>1, <4>2, PunctualWrite, InvParts DEF StoreInv
    <3>2. cmd[p].token # NoToken
      BY <1>1, <2>3 DEF RunInv, TokenInv, LoginInv
    <3> QED BY <1>1, <1>2, <1>3, <2>1, <3>1, <3>2 DEF LoginInv, LogsIn
  <2> QED BY <1>3, <2>2, <2>3 DEF ProcRun, RunInv, DiskInv
<1>7. CASE ~ok
  <2>1. pc'[p] = "login_insecure" /\ mem' = mem /\ target' = target
    BY <1>1, <1>4, <1>7, InvParts DEF Goto, ProcTypeOK
  <2>2. CopyInv(p)'
    BY <1>1, <1>3, <2>1 DEF CopyInv, RestInv, AccountsInv, LogsIn, Activation
  <2>3. Punctual => late' = {} /\ LoginInv(p)'
    BY <1>1, <1>3, <1>4, <2>1, PunctualWrite DEF RunInv, TokenInv, LoginInv, LogsIn, Activation
  <2> QED BY <1>3, <2>2, <2>3 DEF ProcRun, RunInv, DiskInv
<1> QED BY <1>6, <1>7

LEMMA LoginInsecureRuns == ASSUME RunInv, NEW p \in Procs, LoginInsecure(p) PROVE ProcRun(p)' /\ DiskInv'
<1> DEFINE h == cmd[p].host
           u == cmd[p].user
           e == AddUser(mem[p][h], u, cmd[p].token)
<1>1. /\ h \in Hosts /\ u \in Users /\ cmd[p].token \in MaybeToken /\ mem[p][h] \in Entry
      /\ LogsIn(p) /\ mem[p] = disk /\ IInv
  BY Facts DEF RunInv, CopyInv, RestInv, AccountsInv, LoginInsecure
<1>2. /\ e.users = disk[h].users \cup {u} /\ e.tok[u] = cmd[p].token
      /\ \A v \in Users \ {u} : e.tok[v] = disk[h].tok[v]
  BY <1>1, AddUserIs
<1>3. /\ disk' = disk /\ cmd' = cmd /\ late' = late
      /\ mem' = [mem EXCEPT ![p][h] = e] /\ target'[p] = u /\ pc'[p] = "clear_active"
  BY <1>1, InvParts DEF LoginInsecure, Goto, ProcTypeOK
<1> HIDE DEF e
<1>4. e.users \subseteq Users
  BY <1>1, <1>2 DEF Entry, RunInv, IInv, TypeOK, HostsFile
<1>5. mem'[p][cmd'[p].host] = e /\ \A g \in Hosts \ {cmd'[p].host} : mem'[p][g] = disk'[g]
  <2>1. mem'[p][cmd'[p].host] = e /\ \A g \in Hosts \ {cmd'[p].host} : mem'[p][g] = mem[p][g]
    BY <1>1, <1>3, SectionStep
  <2> QED BY <1>1, <1>3, <2>1
<1>6. CopyInv(p)'
  BY <1>1, <1>2, <1>3, <1>4, <1>5 DEF CopyInv, RestInv, AccountsInv, LogsIn, Activation
<1>7. Punctual => late' = {} /\ LoginInv(p)'
  BY <1>1, <1>2, <1>3, <1>5 DEF RunInv, TokenInv, LoginInv, LogsIn, Activation
<1> QED BY <1>3, <1>6, <1>7 DEF ProcRun, RunInv, DiskInv

\* Steps that write to the active slot leave the tokens of accounts alone.
LEMMA ActiveSlotOnly ==
  ASSUME RunInv, Punctual, NEW p \in Procs, NEW v \in MaybeToken, NEW ok \in BOOLEAN,
         KeyringWrite(cmd[p].host, NoUser, v, ok)
  PROVE  late' = {} /\ keyring'[cmd[p].host][cmd[p].user] = keyring[cmd[p].host][cmd[p].user]
<1>1. IInv /\ late = {}
  BY DEF RunInv, TokenInv
<1>2. cmd[p].host \in Hosts /\ NoUser \in Slots /\ cmd[p].user \in Slots /\ cmd[p].user # NoUser
  BY <1>1, Facts
<1> QED BY <1>1, <1>2, PunctualWrite

LEMMA ClearActiveRuns == ASSUME RunInv, NEW p \in Procs, ClearActive(p) PROVE ProcRun(p)' /\ DiskInv'
<1> DEFINE h == cmd[p].host
           e == SetActiveUser(mem[p][h], mem[p][h].user, NoToken)
<1>1. IInv /\ pc[p] = "clear_active" /\ CopyInv(p) /\ h \in Hosts
  BY Facts DEF RunInv, ClearActive
<1>2. e.users = mem[p][h].users /\ e.tok = mem[p][h].tok
  BY <1>1, Facts, SetActiveUserIs
<1>3. disk' = disk /\ cmd' = cmd /\ target' = target /\ pc'[p] = "get_user"
  BY <1>1, InvParts DEF ClearActive, Goto, ProcTypeOK
<1>4. mem' = [mem EXCEPT ![p][h] = e]
  <2>1. mem' = [mem EXCEPT ![p][h] = SetActiveUser(@, @.user, NoToken)]
    BY DEF ClearActive
  <2> QED BY <1>1, <2>1, Facts DEF SetActiveUser, HostsFile
<1> HIDE DEF e
<1>5. mem'[p][cmd'[p].host] = e /\ \A g \in Hosts \ {cmd'[p].host} : mem'[p][g] = mem[p][g]
  BY <1>1, <1>3, <1>4, SectionStep
<1>6. CopyInv(p)'
  BY <1>1, <1>2, <1>3, <1>5 DEF CopyInv, RestInv, AccountsInv, LogsIn, Activation, Working, Labels
<1>7. ASSUME Punctual PROVE late' = {} /\ LoginInv(p)'
  <2>1. late' = {} /\ keyring'[h][cmd[p].user] = keyring[h][cmd[p].user]
    BY <1>1, <1>7, Facts, ActiveSlotOnly DEF ClearActive
  <2>2. LoginInv(p)
    BY <1>7 DEF RunInv, TokenInv
  <2> QED BY <1>1, <1>2, <1>3, <1>5, <2>1, <2>2 DEF LoginInv, LogsIn, Activation
<1> QED BY <1>3, <1>6, <1>7 DEF ProcRun, RunInv, DiskInv

LEMMA GetUserTokenRuns == ASSUME RunInv, NEW p \in Procs, GetUserToken(p) PROVE ProcRun(p)' /\ DiskInv'
<1>1. IInv /\ pc[p] = "get_user" /\ CopyInv(p)
  BY DEF RunInv, GetUserToken
<1>2. disk' = disk /\ cmd' = cmd /\ target' = target /\ mem' = mem /\ pc'[p] \in {"set_active", "activate"}
      /\ UNCHANGED <<keyring, late>>
  BY <1>1, InvParts DEF GetUserToken, Goto, ProcTypeOK, KeyringRead
<1>3. CopyInv(p)'
  BY <1>1, <1>2 DEF CopyInv, RestInv, AccountsInv, LogsIn, Activation, Working, Labels
<1>4. Punctual => late' = {} /\ LoginInv(p)'
  BY <1>1, <1>2 DEF RunInv, TokenInv, LoginInv, LogsIn, Activation
<1> QED BY <1>2, <1>3, <1>4 DEF ProcRun, RunInv, DiskInv

LEMMA SetActiveRuns == ASSUME RunInv, NEW p \in Procs, SetActive(p) PROVE ProcRun(p)' /\ DiskInv'
<1>1. IInv /\ pc[p] = "set_active" /\ CopyInv(p)
  BY DEF RunInv, SetActive
<1>2. disk' = disk /\ cmd' = cmd /\ target' = target /\ mem' = mem
      /\ pc'[p] \in {"activate", "restore_keyring", "failed"}
  BY <1>1, InvParts DEF SetActive, Goto, ProcTypeOK, ActivateFails
<1>3. CopyInv(p)'
  BY <1>1, <1>2 DEF CopyInv, RestInv, AccountsInv, LogsIn, Activation, Working, Labels
<1>4. ASSUME Punctual PROVE late' = {} /\ LoginInv(p)'
  <2>1. late' = {} /\ keyring'[cmd[p].host][cmd[p].user] = keyring[cmd[p].host][cmd[p].user]
    BY <1>1, <1>4, Facts, ActiveSlotOnly DEF SetActive
  <2>2. LoginInv(p)
    BY <1>4 DEF RunInv, TokenInv
  <2> QED BY <1>1, <1>2, <2>1, <2>2 DEF LoginInv, LogsIn, Activation
<1> QED BY <1>2, <1>3, <1>4 DEF ProcRun, RunInv, DiskInv

LEMMA ActivateRuns == ASSUME RunInv, NEW p \in Procs, Activate(p) PROVE ProcRun(p)' /\ DiskInv'
<1> DEFINE h == cmd[p].host
           t == mem[p][h].tok[target[p]]
           e == SetActiveUser(mem[p][h], target[p], t)
<1>1. IInv /\ pc[p] = "activate" /\ CopyInv(p) /\ h \in Hosts /\ target[p] \in Users
  BY Facts DEF RunInv, Activate, ProcInv, Activating
<1>2. e.users = mem[p][h].users /\ e.tok = mem[p][h].tok /\ e.user = target[p] /\ e.token = t
  BY <1>1, Facts, SetActiveUserIs
<1>3. disk' = disk /\ cmd' = cmd /\ target' = target /\ UNCHANGED <<keyring, late>>
  BY DEF Activate
<1>4. CASE ActivateFails(p) /\ UNCHANGED mem
  <2>1. pc'[p] \in {"restore_keyring", "failed"}
    BY <1>1, <1>4, InvParts DEF ActivateFails, Goto, ProcTypeOK
  <2>2. CopyInv(p)'
    BY <1>1, <1>3, <1>4, <2>1 DEF CopyInv, RestInv, AccountsInv, LogsIn, Activation, Working, Labels
  <2>3. Punctual => late' = {} /\ LoginInv(p)'
    BY <1>1, <1>3, <1>4, <2>1 DEF RunInv, TokenInv, LoginInv, LogsIn, Activation
  <2> QED BY <1>3, <2>2, <2>3 DEF ProcRun, RunInv, DiskInv
<1>5. CASE mem' = [mem EXCEPT ![p][h] = e] /\ Goto(p, "write")
  <2> HIDE DEF e
  <2>1. mem'[p][cmd'[p].host] = e /\ \A g \in Hosts \ {cmd'[p].host} : mem'[p][g] = mem[p][g]
    BY <1>1, <1>3, <1>5, SectionStep
  <2>2. pc'[p] = "write"
    BY <1>1, <1>5, InvParts DEF Goto, ProcTypeOK
  <2>3. CopyInv(p)'
    <3>1. RestInv(p, mem[p][cmd[p].host], disk[cmd[p].host])'
      BY <1>1, <1>2, <1>3, <2>1, <2>2 DEF CopyInv, RestInv, Activation, Working, Labels
    <3>2. AccountsInv(p, mem[p][cmd[p].host], disk[cmd[p].host], cmd[p].user)'
      <4>1. cmd[p].op \in {"none", "login", "refresh", "switch", "logout"}
        BY <1>1, Facts DEF Commands
      <4> QED BY <1>1, <1>2, <1>3, <2>1, <2>2, <4>1 DEF CopyInv, AccountsInv, LogsIn, Activation
    <3> QED BY <3>1, <3>2 DEF CopyInv
  <2>4. LogsIn(p) => target[p] = cmd[p].user
    BY <1>1 DEF CopyInv, AccountsInv, Activation
  <2>5. Punctual => late' = {} /\ LoginInv(p)'
    BY <1>1, <1>2, <1>3, <2>1, <2>2, <2>4 DEF RunInv, TokenInv, LoginInv, LogsIn, Activation
  <2> QED BY <1>3, <2>3, <2>5 DEF ProcRun, RunInv, DiskInv
<1> QED BY <1>4, <1>5 DEF Activate, e

\* What the file becomes: the accounts of one host change.
LEMMA WriteRuns == ASSUME RunInv, NEW p \in Procs, Write(p) PROVE ProcRun(p)' /\ DiskInv'
<1>1. IInv /\ pc[p] = "write" /\ CopyInv(p) /\ DiskInv /\ cmd[p].host \in Hosts /\ cmd[p] \in Commands
  BY Facts DEF RunInv, Write
<1>2. UNCHANGED <<keyring, late, cmd, mem, target>>
  BY DEF Write
<1>3. CASE disk' = mem[p] /\ Goto(p, "done")
  <2>1. pc'[p] = "done"
    BY <1>1, <1>3, InvParts DEF Goto, ProcTypeOK
  <2>2. \A g \in Hosts \ {cmd[p].host} : disk'[g] = disk[g]
    BY <1>1, <1>3 DEF CopyInv, RestInv, Working, Labels
  <2>3. disk'[cmd[p].host].user \in disk'[cmd[p].host].users \cup {NoUser}
    BY <1>1, <1>3 DEF CopyInv, AccountsInv, LogsIn, DiskInv, Commands
  <2>4. DiskInv'
    BY <1>1, <2>2, <2>3 DEF DiskInv
  <2>5. CopyInv(p)'
    BY <2>1 DEF CopyInv, RestInv, AccountsInv, Activation, Working
  <2>6. Punctual => late' = {} /\ LoginInv(p)'
    BY <1>1, <1>2, <2>1 DEF RunInv, TokenInv, LoginInv, LogsIn, Activation
  <2> QED BY <2>4, <2>5, <2>6 DEF ProcRun
<1>4. CASE ActivateFails(p) /\ UNCHANGED disk
  <2>1. pc'[p] \in {"restore_keyring", "failed"}
    BY <1>1, <1>4, InvParts DEF ActivateFails, Goto, ProcTypeOK
  <2>2. CopyInv(p)'
    BY <1>1, <1>2, <1>4, <2>1 DEF CopyInv, RestInv, AccountsInv, LogsIn, Activation, Working, Labels
  <2>3. Punctual => late' = {} /\ LoginInv(p)'
    BY <1>1, <1>2, <2>1 DEF RunInv, TokenInv, LoginInv, LogsIn, Activation
  <2> QED BY <1>1, <1>4, <2>2, <2>3 DEF ProcRun, DiskInv
<1> QED BY <1>3, <1>4 DEF Write, WriteFails

LEMMA BeginSwitchRuns ==
  ASSUME RunInv, NEW p \in Procs, NEW h \in Hosts, NEW u \in Users, BeginSwitch(p, h, u)
  PROVE  ProcRun(p)' /\ DiskInv'
<1> DEFINE c == [op |-> "switch", host |-> h, user |-> u, token |-> NoToken, secure |-> FALSE]
<1>1. IInv /\ mem[p] = disk /\ u \in mem[p][h].users
  BY DEF RunInv, BeginSwitch, CopyInv, RestInv
<1>2. /\ cmd'[p] = c /\ target'[p] = u /\ pc'[p] \in {"failed", "clear_active", "prev_user"}
      /\ UNCHANGED <<disk, mem, late>>
  BY <1>1, InvParts DEF BeginSwitch, Run, Goto, ProcTypeOK
<1>3. c.op = "switch" /\ c.host = h /\ c.user = u /\ ~LogsIn(p)'
  BY <1>2 DEF LogsIn
<1> HIDE DEF c
<1>4. CopyInv(p)'
  BY <1>1, <1>2, <1>3 DEF CopyInv, RestInv, AccountsInv, LogsIn, Activation, Working, Labels
<1>5. Punctual => late' = {} /\ LoginInv(p)'
  BY <1>2, <1>3 DEF RunInv, TokenInv, LoginInv
<1> QED BY <1>2, <1>4, <1>5 DEF ProcRun, RunInv, DiskInv

\* What is active is looked up, and put back when the switch fails.
LEMMA SwitchRuns ==
  ASSUME RunInv, NEW p \in Procs, PrevFromUserSlot(p) \/ PrevFromActiveSlot(p)
  PROVE  ProcRun(p)' /\ DiskInv'
<1>1. IInv /\ pc[p] \in {"prev_user", "prev_active"} /\ CopyInv(p)
  BY DEF RunInv, PrevFromUserSlot, PrevFromActiveSlot
<1>2. /\ UNCHANGED <<disk, cmd, target, mem, keyring, late>>
      /\ pc'[p] \in {"clear_active", "prev_active", "failed"}
  BY <1>1, InvParts DEF PrevFromUserSlot, PrevFromActiveSlot, Goto, ProcTypeOK, KeyringRead
<1>3. cmd[p].op = "switch"
  BY <1>1 DEF CopyInv, AccountsInv
<1>4. CopyInv(p)'
  BY <1>1, <1>2, <1>3 DEF CopyInv, RestInv, AccountsInv, LogsIn, Activation, Working, Labels
<1>5. Punctual => late' = {} /\ LoginInv(p)'
  BY <1>2, <1>3 DEF RunInv, TokenInv, LoginInv, LogsIn
<1> QED BY <1>2, <1>4, <1>5 DEF ProcRun, RunInv, DiskInv

LEMMA RestorePreviousRuns == ASSUME RunInv, NEW p \in Procs, RestorePrevious(p) PROVE ProcRun(p)' /\ DiskInv'
<1>1. IInv /\ disk' = disk /\ cmd' = cmd /\ pc'[p] = "failed"
  BY InvParts DEF RunInv, RestorePrevious, Goto, ProcTypeOK
<1>2. CopyInv(p)'
  BY <1>1 DEF CopyInv, RestInv, AccountsInv, Activation, Working
<1>3. ASSUME Punctual PROVE late' = {} /\ LoginInv(p)'
  <2>1. late = {}
    BY <1>3 DEF RunInv, TokenInv
  <2>2. prev[p].token \in MaybeToken /\ cmd[p].host \in Hosts /\ NoUser \in Slots
    BY <1>1, Facts
  <2>3. late' = {}
    BY <1>1, <1>3, <2>1, <2>2, PunctualWrite DEF RestorePrevious
  <2>4. LoginInv(p)'
    BY <1>1, <1>3 DEF RunInv, TokenInv, LoginInv, LogsIn, Activation
  <2> QED BY <2>3, <2>4
<1> QED BY <1>1, <1>2, <1>3 DEF ProcRun, RunInv, DiskInv

LEMMA BeginLogoutRuns ==
  ASSUME RunInv, NEW p \in Procs, NEW h \in Hosts, NEW u \in Users, BeginLogout(p, h, u)
  PROVE  ProcRun(p)' /\ DiskInv'
<1> DEFINE c == [op |-> "logout", host |-> h, user |-> u, token |-> NoToken, secure |-> FALSE]
           d == disk[h]
           e == RemoveUser(d, u)
<1>1. IInv /\ mem[p] = disk /\ u \in d.users /\ d \in Entry
  BY Facts DEF RunInv, BeginLogout, CopyInv, RestInv
<1>2. cmd'[p] = c /\ UNCHANGED <<disk, late>>
  BY <1>1, InvParts DEF BeginLogout, Run, Goto, ProcTypeOK
<1>3. c.op = "logout" /\ c.host = h /\ c.user = u /\ ~LogsIn(p)'
  BY <1>2 DEF LogsIn
<1>4. Punctual => late' = {} /\ LoginInv(p)'
  BY <1>2, <1>3 DEF RunInv, TokenInv, LoginInv
<1>5. d.users \subseteq Users /\ e.users = d.users \ {u} /\ e.user = d.user /\ \A v \in e.users : e.tok[v] = d.tok[v]
  BY <1>1, RemoveUserIs DEF Entry
<1> HIDE DEF c
<1>6. CASE d.users = {u} /\ mem' = [mem EXCEPT ![p][h] = NoEntry] /\ Goto(p, "del_active")
  <2>1. mem'[p][h] = NoEntry /\ \A g \in Hosts \ {h} : mem'[p][g] = mem[p][g]
    BY <1>6, OneSection DEF RunInv
  <2>2. pc'[p] = "del_active"
    BY <1>1, <1>6, InvParts DEF Goto, ProcTypeOK
  <2> QED BY <1>1, <1>2, <1>3, <1>4, <1>6, <2>1, <2>2
          DEF CopyInv, RestInv, AccountsInv, Activation, Working, ProcRun, RunInv, DiskInv
<1>7. CASE /\ mem' = [mem EXCEPT ![p][h] = RemoveUser(@, u)]
           /\ IF d.user # u
              THEN Goto(p, "write") /\ UNCHANGED target
              ELSE \E v \in d.users \ {u} : target' = [target EXCEPT ![p] = v] /\ Goto(p, "clear_active")
  <2>0. mem' = [mem EXCEPT ![p][h] = e]
    BY <1>1, <1>7, Facts DEF HostsFile
  <2> HIDE DEF e
  <2>1. mem'[p][h] = e /\ \A g \in Hosts \ {h} : mem'[p][g] = mem[p][g]
    BY <2>0, OneSection DEF RunInv
  <2>2. \/ pc'[p] = "write" /\ d.user # u
        \/ pc'[p] = "clear_active" /\ d.user = u /\ target'[p] \in e.users
    BY <1>1, <1>5, <1>7, InvParts DEF Goto, ProcTypeOK
  <2>3. CopyInv(p)'
    BY <1>1, <1>2, <1>3, <1>5, <2>1, <2>2 DEF CopyInv, RestInv, AccountsInv, LogsIn, Activation, Working
  <2> QED BY <1>2, <1>4, <2>3 DEF ProcRun, RunInv, DiskInv
<1> QED BY <1>1, <1>6, <1>7 DEF BeginLogout

LEMMA DeleteSlotsRun ==
  ASSUME RunInv, NEW p \in Procs, DeleteActiveSlot(p) \/ DeleteUserSlot(p)
  PROVE  ProcRun(p)' /\ DiskInv'
<1>1. IInv /\ pc[p] \in {"del_active", "del_user"} /\ CopyInv(p) /\ DiskInv /\ cmd[p].host \in Hosts
  BY Facts DEF RunInv, DeleteActiveSlot, DeleteUserSlot
<1>2. UNCHANGED <<disk, cmd, target, mem>> /\ pc'[p] \in {"del_user", "write"}
  BY <1>1, InvParts DEF DeleteActiveSlot, DeleteUserSlot, Goto, ProcTypeOK
<1>3. /\ cmd[p].op = "logout" /\ mem[p][cmd[p].host] = NoEntry /\ disk[cmd[p].host].users = {cmd[p].user}
      /\ disk[cmd[p].host].user \in {cmd[p].user, NoUser} /\ NoEntry.users = {} /\ NoEntry.user = NoUser
  BY <1>1 DEF CopyInv, AccountsInv, DiskInv, NoEntry
<1>4. CopyInv(p)'
  BY <1>1, <1>2, <1>3 DEF CopyInv, RestInv, AccountsInv, LogsIn, Activation, Working, Labels
<1>5. ASSUME Punctual PROVE late' = {} /\ LoginInv(p)'
  <2>1. late = {} /\ NoUser \in Slots /\ cmd[p].user \in Slots /\ NoToken \in MaybeToken
    BY <1>1, <1>5, Facts DEF RunInv, TokenInv
  <2>2. late' = {}
    BY <1>1, <1>5, <2>1, PunctualWrite DEF DeleteActiveSlot, DeleteUserSlot
  <2> QED BY <1>2, <1>3, <2>2 DEF LoginInv, LogsIn
<1> QED BY <1>1, <1>2, <1>4, <1>5 DEF ProcRun, DiskInv

LEMMA ExitRuns == ASSUME RunInv, NEW p \in Procs, Exit(p) PROVE ProcRun(p)' /\ DiskInv'
<1>1. pc'[p] = "idle" /\ cmd'[p] = NoCommand /\ UNCHANGED <<disk, late>>
  BY InvParts DEF RunInv, Exit, Goto, ProcTypeOK
<1>2. CopyInv(p)' /\ LoginInv(p)'
  BY <1>1 DEF CopyInv, RestInv, AccountsInv, LoginInv, LogsIn, Activation, Working, NoCommand
<1> QED BY <1>1, <1>2 DEF ProcRun, RunInv, TokenInv, DiskInv

\* A call that takes effect late changes nothing that CopyInv speaks of; punctual ones do not.
LEMMA LateEffectRuns == ASSUME RunInv, LateEffect, IInv' PROVE RunInv'
<1>1. UNCHANGED <<disk, pc, cmd, mem, target>> /\ late # {}
  BY DEF LateEffect, procVars
<1>2. \A p \in Procs : CopyInv(p)'
  BY <1>1 DEF RunInv, CopyInv, RestInv, AccountsInv, LogsIn
<1>3. TokenInv'
  BY <1>1 DEF RunInv, TokenInv
<1> QED BY <1>1, <1>2, <1>3 DEF RunInv, DiskInv

LEMMA StepRuns == ASSUME OneAtATime, RunInv, [Next]_vars PROVE RunInv'
<1>1. IInv'
  BY NextPreserves DEF RunInv
<1>2. ASSUME NEW p \in Procs, Step(p) PROVE ProcRun(p)' /\ DiskInv'
  <2>1. CASE Begin(p)
    <3>1. ASSUME NEW h \in Hosts, NEW t \in Tokens, NEW s \in BOOLEAN, BeginLogin(p, h, t, s) \/ BeginRefresh(p, h, t, s)
          PROVE  ProcRun(p)' /\ DiskInv'
      BY <3>1, EnterLoginRuns DEF BeginLogin, BeginRefresh
    <3> QED BY <2>1, <3>1, BeginSwitchRuns, BeginLogoutRuns DEF Begin
  <2> QED BY <1>2, <2>1, LoginKeyringRuns, LoginInsecureRuns, ClearActiveRuns, GetUserTokenRuns, SetActiveRuns, ActivateRuns,
             WriteRuns, SwitchRuns, RestorePreviousRuns, DeleteSlotsRun
          DEF Step, Login, ActivateUser, SwitchUser, Logout
<1>3. ASSUME NEW p \in Procs, Start(p) \/ Finish(p) \/ Crash(p) PROVE ProcRun(p)' /\ DiskInv'
  BY <1>3, StartRuns, ExitRuns DEF Finish, Crash
<1>4. CASE UNCHANGED vars
  BY <1>1, <1>4 DEF RunInv, DiskInv, CopyInv, RestInv, AccountsInv, TokenInv, LoginInv, LogsIn, vars
<1> QED BY <1>1, <1>2, <1>3, <1>4, OnlyProcess, LateEffectRuns DEF Next

LEMMA InitRuns == Init => RunInv
<1> SUFFICES ASSUME Init PROVE RunInv
  OBVIOUS
<1>1. DiskInv
  BY DEF Init, DiskInv, NoEntry
<1>2. \A p \in Procs : CopyInv(p) /\ LoginInv(p)
  BY DEF Init, CopyInv, RestInv, AccountsInv, LoginInv, LogsIn, NoCommand, Activation, Working
<1> QED BY <1>1, <1>2, InitIInv DEF RunInv, TokenInv, Init

\* With one process at a time its copy of hosts.yml is the file, but for what it is changing.
THEOREM OneRunInvariance == ASSUME OneAtATime PROVE Spec => []RunInv
  BY InitRuns, StepRuns, PTL DEF Spec

-----------------------------------------------------------------------------
\* The account list.

\* A step changes the file only by writing a copy of it, and ends the command then.
LEMMA OnlyWrite ==
  ASSUME IInv, [Next]_vars, disk' # disk
  PROVE  \E p \in Procs : pc[p] = "write" /\ disk' = mem[p] /\ keyring' = keyring
<1>1. ASSUME NEW p \in Procs, Write(p) PROVE pc[p] = "write" /\ disk' \in {disk, mem[p]} /\ keyring' = keyring
  BY <1>1 DEF Write, WriteFails
<1>2. ASSUME NEW p \in Procs, Begin(p) PROVE disk' = disk
  BY <1>2 DEF Begin, BeginLogin, BeginRefresh, EnterLogin, BeginSwitch, BeginLogout
<1>3. ASSUME NEW p \in Procs, Login(p) \/ ClearActive(p) \/ GetUserToken(p) \/ SetActive(p) \/ Activate(p) PROVE disk' = disk
  BY <1>3 DEF Login, LoginKeyring, LoginInsecure, ClearActive, GetUserToken, SetActive, Activate
<1>4. ASSUME NEW p \in Procs, SwitchUser(p) \/ Logout(p) PROVE disk' = disk
  BY <1>4 DEF SwitchUser, PrevFromUserSlot, PrevFromActiveSlot, RestorePrevious, Logout, DeleteActiveSlot, DeleteUserSlot
<1>5. ASSUME NEW p \in Procs, Start(p) \/ Finish(p) \/ Crash(p) PROVE disk' = disk
  BY <1>5 DEF Start, Finish, Crash, Exit
<1>6. LateEffect \/ UNCHANGED vars => disk' = disk
  BY DEF LateEffect, vars
<1>7. \E p \in Procs : Write(p)
  BY <1>2, <1>3, <1>4, <1>5, <1>6 DEF Next, Step, ActivateUser
<1> QED BY <1>1, <1>7

LEMMA AnAccountsStep ==
  ASSUME NEW h \in Hosts, NEW u \in Users, Accounts!Login(h, u) \/ Accounts!Switch(h, u) \/ Accounts!Logout(h, u)
  PROVE  Accounts!Next
BY Zenon DEF Accounts!Next

LEMMA WriteIsAccountsStep ==
  ASSUME RunInv, NEW p \in Procs, pc[p] = "write", disk' = mem[p],
         NEW h \in Hosts, NEW u \in Users, h = cmd[p].host, u = cmd[p].user
  PROVE  Accounts!Next \/ UNCHANGED Accounts!vars
<1> DEFINE users == [g \in Hosts |-> disk[g].users]
           active == [g \in Hosts |-> disk[g].user]
<1>1. h = cmd[p].host /\ u = cmd[p].user /\ IInv /\ CopyInv(p) /\ DiskInv /\ h \in Hosts /\ u \in Users /\ NoUser \notin Users
      /\ cmd[p].op \in {"none", "login", "refresh", "switch", "logout"}
  BY Facts DEF RunInv, Commands
<1>2. \A g \in Hosts \ {h} : disk'[g] = disk[g]
  BY <1>1 DEF CopyInv, RestInv, Working, Labels
<1>3. users' = [users EXCEPT ![h] = disk'[h].users] /\ active' = [active EXCEPT ![h] = disk'[h].user]
  BY <1>1, <1>2
<1>4. CASE LogsIn(p)
  <2>1. disk'[h].users = users[h] \cup {u} /\ disk'[h].user = u
    BY <1>1, <1>4 DEF CopyInv, AccountsInv, LogsIn
  <2>2. Accounts!Login(h, u)
    BY <1>1, <1>3, <2>1 DEF Accounts!Login
  <2> QED BY <1>1, <2>2, AnAccountsStep
<1>5. CASE cmd[p].op = "switch"
  <2>1. disk'[h].users = users[h] /\ disk'[h].user = u /\ u \in users[h]
    BY <1>1, <1>5 DEF CopyInv, AccountsInv
  <2>2. users' = users
    BY <1>3, <2>1
  <2>3. Accounts!Switch(h, u)
    BY <1>1, <1>3, <2>1, <2>2 DEF Accounts!Switch
  <2> QED BY <1>1, <2>3, AnAccountsStep
<1>6. CASE cmd[p].op = "logout"
  <2>1. /\ u \in users[h] /\ disk'[h].users = users[h] \ {u}
        /\ disk'[h].user = active[h] \/ active[h] = u
        /\ active[h] = u => disk'[h].user \in users[h] \ {u} \/ (disk'[h].user = NoUser /\ users[h] \ {u} = {})
        /\ active[h] \in users[h] \cup {NoUser}
    BY <1>1, <1>6 DEF CopyInv, AccountsInv, DiskInv
  <2>2. users' = [users EXCEPT ![h] = @ \ {u}]
    BY <1>1, <1>3, <2>1
  <2>3. CASE active[h] # u
    <3>1. active' = active
      BY <1>3, <2>1, <2>3
    <3>2. Accounts!Logout(h, u)
      BY <1>1, <2>1, <2>2, <2>3, <3>1 DEF Accounts!Logout
    <3> QED BY <1>1, <3>2, AnAccountsStep
  <2>4. CASE active[h] = u /\ users[h] = {u}
    <3>1. active' = [active EXCEPT ![h] = NoUser]
      BY <1>1, <1>3, <2>1, <2>4
    <3>2. Accounts!Logout(h, u)
      BY <1>1, <2>1, <2>2, <2>4, <3>1 DEF Accounts!Logout
    <3> QED BY <1>1, <3>2, AnAccountsStep
  <2>5. CASE active[h] = u /\ users[h] # {u}
    <3>1. disk'[h].user \in users[h] \ {u}
      BY <2>1, <2>5
    <3>2. Accounts!Logout(h, u)
      BY <1>1, <1>3, <2>1, <2>2, <2>5, <3>1 DEF Accounts!Logout
    <3> QED BY <1>1, <3>2, AnAccountsStep
  <2> QED BY <2>3, <2>4, <2>5
<1> QED BY <1>1, <1>4, <1>5, <1>6 DEF LogsIn, CopyInv, AccountsInv

\* AuthConfig implements Accounts: whatever fails and whenever late keyring calls take effect,
\* commands that run one after another change the accounts of hosts.yml only as logging
\* in, switching and logging out should.
THEOREM AccountsImplemented == ASSUME OneAtATime PROVE Spec => ImplementsAccounts
<1>1. Init => Accounts!Init
  BY DEF Init, Accounts!Init, NoEntry
<1>2. RunInv /\ [Next]_vars => [Accounts!Next]_(Accounts!vars)
  <2> SUFFICES ASSUME RunInv, [Next]_vars PROVE [Accounts!Next]_(Accounts!vars)
    OBVIOUS
  <2>1. CASE disk' = disk
    BY <2>1 DEF Accounts!vars
  <2>2. CASE disk' # disk
    <3>1. PICK p \in Procs : pc[p] = "write" /\ disk' = mem[p]
      BY <2>2, OnlyWrite DEF RunInv
    <3>2. \E h \in Hosts, u \in Users : h = cmd[p].host /\ u = cmd[p].user
      BY <3>1, Facts DEF RunInv, Commands
    <3> QED BY <3>1, <3>2, WriteIsAccountsStep
  <2> QED BY <2>1, <2>2
<1> QED BY <1>1, <1>2, OneRunInvariance, PTL DEF Spec, ImplementsAccounts, Accounts!Spec

-----------------------------------------------------------------------------
\* Tokens, as long as the keyring answers in time.

\* A command is done when it has written the file.
LEMMA OnlyWriteEnds ==
  ASSUME OneAtATime, IInv, [Next]_vars, NEW p \in Procs, pc[p] = "write", pc'[p] = "done"
  PROVE  disk' = mem[p] /\ keyring' = keyring
<1>1. ASSUME Start(p) PROVE FALSE
  BY <1>1 DEF Start
<1>2. ASSUME Begin(p) PROVE FALSE
  BY <1>2 DEF Begin, BeginLogin, BeginRefresh, EnterLogin, BeginSwitch, BeginLogout
<1>3. ~LoginKeyring(p) /\ ~LoginInsecure(p) /\ ~ClearActive(p) /\ ~GetUserToken(p) /\ ~SetActive(p) /\ ~Activate(p)
  BY DEF LoginKeyring, LoginInsecure, ClearActive, GetUserToken, SetActive, Activate
<1>4. ~PrevFromUserSlot(p) /\ ~PrevFromActiveSlot(p) /\ ~RestorePrevious(p) /\ ~DeleteActiveSlot(p) /\ ~DeleteUserSlot(p)
  BY DEF PrevFromUserSlot, PrevFromActiveSlot, RestorePrevious, DeleteActiveSlot, DeleteUserSlot
<1>5. ~Finish(p) /\ ~Crash(p)
  BY InvParts DEF Finish, Crash, Exit, Goto, ProcTypeOK
<1>6. ~LateEffect /\ ~UNCHANGED vars
  BY DEF LateEffect, procVars, vars
<1>7. Write(p)
  BY <1>1, <1>2, <1>3, <1>4, <1>5, <1>6 DEF OneAtATime, Next, Step, Login, ActivateUser, SwitchUser, Logout
<1>8. pc' = [pc EXCEPT ![p] = "failed"] \/ pc' = [pc EXCEPT ![p] = "restore_keyring"] => pc'[p] # "done"
  BY InvParts DEF ProcTypeOK
<1> QED BY <1>7, <1>8 DEF Write, WriteFails, ActivateFails, Goto

\* As long as keyring calls answer in time, a gh process started right after a login that
\* succeeded authenticates with the token of that login, wherever it was put and whatever
\* failed before.
THEOREM LoginWorks == ASSUME OneAtATime, Punctual PROVE Spec => LoginIsEffective
<1>1. ASSUME RunInv, [Next]_vars, NEW p \in Procs, pc[p] = "write", pc'[p] = "done", LogsIn(p)
      PROVE  ActiveToken(disk', keyring', cmd[p].host) = cmd[p].token
  <2>1. disk' = mem[p] /\ keyring' = keyring /\ cmd[p].user \in Users /\ NoUser \notin Users
    BY <1>1, OnlyWriteEnds, Facts DEF RunInv
  <2>2. LoginInv(p) /\ mem[p][cmd[p].host].user = cmd[p].user
    BY <1>1 DEF RunInv, TokenInv, CopyInv, AccountsInv, LogsIn
  <2> QED BY <1>1, <2>1, <2>2 DEF LoginInv, ActiveToken
<1>2. RunInv /\ [Next]_vars =>
        [\A p \in Procs :
           pc[p] = "write" /\ pc'[p] = "done" /\ cmd[p].op \in {"login", "refresh"} =>
             ActiveToken(disk', keyring', cmd[p].host) = cmd[p].token]_vars
  BY <1>1 DEF LogsIn
<1> QED BY <1>2, OneRunInvariance, PTL DEF Spec, LoginIsEffective

\* The keyring slot of an account changes only in a login and in a logout of that account.
LEMMA KeyedSlotChanges ==
  ASSUME Punctual, RunInv, [Next]_vars, NEW h \in Hosts, NEW u \in Users, keyring'[h][u] # keyring[h][u]
  PROVE  \E p \in Procs : \/ pc[p] = "login_keyring" /\ keyring'[h][u] = cmd[p].token
                          \/ pc[p] = "del_user" /\ cmd[p].host = h /\ cmd[p].user = u
<1>1. IInv /\ late = {} /\ u \in Slots /\ u # NoUser /\ NoUser \in Slots /\ NoToken \in MaybeToken
  BY ConstantsAssumption DEF RunInv, TokenInv, Slots, MaybeUser, MaybeToken
<1>2. ASSUME NEW g \in Hosts, NEW v \in MaybeToken, NEW ok \in BOOLEAN, KeyringWrite(g, NoUser, v, ok) PROVE FALSE
  BY <1>1, <1>2, PunctualWrite
<1>3. ASSUME NEW p \in Procs, Begin(p) \/ Start(p) \/ Finish(p) \/ Crash(p) PROVE FALSE
  BY <1>3 DEF Begin, BeginLogin, BeginRefresh, EnterLogin, BeginSwitch, BeginLogout, Start, Finish, Crash, Exit
<1>4. ASSUME NEW p \in Procs, LoginInsecure(p) \/ GetUserToken(p) \/ Activate(p) \/ Write(p)
                              \/ PrevFromUserSlot(p) \/ PrevFromActiveSlot(p)
      PROVE FALSE
  BY <1>4 DEF LoginInsecure, GetUserToken, Activate, Write, PrevFromUserSlot, PrevFromActiveSlot, KeyringRead
<1>5. ASSUME NEW p \in Procs, ClearActive(p) \/ DeleteActiveSlot(p) PROVE FALSE
  BY <1>1, <1>2, <1>5, Facts DEF ClearActive, DeleteActiveSlot
<1>6. ASSUME NEW p \in Procs, SetActive(p) PROVE FALSE
  BY <1>1, <1>2, <1>6, Facts DEF SetActive
<1>7. ASSUME NEW p \in Procs, RestorePrevious(p) PROVE FALSE
  BY <1>1, <1>2, <1>7, Facts DEF RestorePrevious
<1>8. ASSUME NEW p \in Procs, LoginKeyring(p) PROVE pc[p] = "login_keyring" /\ keyring'[h][u] = cmd[p].token
  <2>1. PICK ok \in BOOLEAN : KeyringWrite(cmd[p].host, cmd[p].user, cmd[p].token, ok)
    BY <1>8 DEF LoginKeyring
  <2>2. cmd[p].host = h /\ cmd[p].user = u
    BY <1>1, <2>1, Facts, PunctualWrite
  <2>3. ~Fault("timeout")
    BY DEF Fault, Punctual
  <2> QED BY <1>1, <1>8, <2>1, <2>2, <2>3, InvParts DEF LoginKeyring, KeyringWrite, StoreInv
<1>9. ASSUME NEW p \in Procs, DeleteUserSlot(p) PROVE pc[p] = "del_user" /\ cmd[p].host = h /\ cmd[p].user = u
  <2>1. PICK ok \in BOOLEAN : KeyringWrite(cmd[p].host, cmd[p].user, NoToken, ok)
    BY <1>9 DEF DeleteUserSlot
  <2> QED BY <1>1, <1>9, <2>1, Facts, PunctualWrite DEF DeleteUserSlot
<1>10. ~LateEffect /\ ~UNCHANGED vars
  BY <1>1 DEF LateEffect, vars
<1> QED BY <1>3, <1>4, <1>5, <1>6, <1>7, <1>8, <1>9, <1>10 DEF Next, Step, Login, ActivateUser, SwitchUser, Logout

\* What is written to the file has the tokens of every account it keeps, or the keyring has.
LEMMA WriteKeepsTokens ==
  ASSUME Punctual, RunInv, NEW p \in Procs, pc[p] = "write", NEW h \in Hosts, NEW u \in Users,
         u \in disk[h].users, u \in mem[p][h].users, Stored(disk, keyring, h, u)
  PROVE  Stored(mem[p], keyring, h, u)
<1>1. CopyInv(p) /\ LoginInv(p) /\ cmd[p].op \in {"none", "login", "refresh", "switch", "logout"}
  BY Facts DEF RunInv, TokenInv, Commands
<1>2. CASE mem[p][h].tok[u] = disk[h].tok[u]
  BY <1>2 DEF Stored, TokenForUser
<1>3. CASE mem[p][h].tok[u] # disk[h].tok[u]
  <2>1. h = cmd[p].host
    BY <1>1, <1>3 DEF CopyInv, RestInv, Working, Labels
  <2>2. u = cmd[p].user /\ cmd[p].op # "switch"
    BY <1>1, <1>3, <2>1 DEF CopyInv, RestInv
  <2>3. LogsIn(p)
    BY <1>1, <2>1, <2>2 DEF CopyInv, AccountsInv, LogsIn
  <2> QED BY <1>1, <2>1, <2>2, <2>3 DEF LoginInv, Stored, TokenForUser
<1> QED BY <1>2, <1>3

\* As long as keyring calls answer in time, an account of hosts.yml keeps a stored token
\* until it is logged out itself: a login that could not use the keyring, a switch that
\* failed or a process that crashed half-way costs no account its last token.
THEOREM TokensKept == ASSUME OneAtATime, Punctual PROVE Spec => TokenLostOnlyByLogout
<1>1. ASSUME RunInv, [Next]_vars, NEW h \in Hosts, NEW u \in Users,
             u \in disk[h].users, Stored(disk, keyring, h, u), u \in disk'[h].users, ~Stored(disk', keyring', h, u)
      PROVE  \E p \in Procs : pc[p] = "del_user" /\ cmd[p].host = h /\ cmd[p].user = u
  <2>1. disk' = disk
    <3> SUFFICES ASSUME disk' # disk PROVE FALSE
      OBVIOUS
    <3>1. PICK p \in Procs : pc[p] = "write" /\ disk' = mem[p] /\ keyring' = keyring
      BY <1>1, OnlyWrite DEF RunInv
    <3> QED BY <1>1, <3>1, WriteKeepsTokens
  <2>2. keyring[h][u] # NoToken /\ keyring'[h][u] = NoToken
    BY <1>1, <2>1 DEF Stored, TokenForUser
  <2>3. \A p \in Procs : pc[p] = "login_keyring" => cmd[p].token # NoToken
    BY <1>1 DEF RunInv, TokenInv, LoginInv, CopyInv, AccountsInv
  <2> QED BY <1>1, <2>2, <2>3, KeyedSlotChanges
<1>2. RunInv /\ [Next]_vars =>
        [\A h \in Hosts, u \in Users :
           /\ u \in disk[h].users /\ Stored(disk, keyring, h, u)
           /\ u \in disk'[h].users /\ ~Stored(disk', keyring', h, u)
           => \E p \in Procs : pc[p] = "del_user" /\ cmd[p].host = h /\ cmd[p].user = u]_vars
  BY <1>1
<1> QED BY <1>2, OneRunInvariance, PTL DEF Spec, TokenLostOnlyByLogout

-----------------------------------------------------------------------------
\* One process at a time and at most one fault.

\* A section that goes together: the active account is listed, and the token of the host is
\* the one of that account.
Whole(e) ==
    /\ e.user = NoUser => e.users = {} /\ e.token = NoToken
    /\ e.user # NoUser => e.user \in e.users /\ e.token = e.tok[e.user]
WholeCopy(p) ==
    /\ pc[p] = "write" => Whole(mem[p][cmd[p].host])
    /\ LogsIn(p) => cmd[p].token # NoToken
WholeInv == (\A h \in Hosts : Whole(disk[h])) /\ (\A p \in Procs : WholeCopy(p)) /\ (faults = 0 => late = {})

\* What may still be carried out late deletes no account's slot, or only deletes.
KeepsSlots(h) == \A l \in late : l.host = h /\ l.slot # NoUser => l.val # NoToken
OnlyDeletions(h) == \A l \in late : l.host = h => l.val = NoToken

\* The two states a host may be in after a fault: every account of the section e has a token
\* and keeps it, or what the slot without a name holds is the account u's.
AllStored(e, h) == \A v \in e.users : e.tok[v] # NoToken \/ keyring[h][v] # NoToken
Kept(e, h) == KeepsSlots(h) /\ AllStored(e, h)
Matched(u, h) == OnlyDeletions(h) /\ (keyring[h][NoUser] # NoToken => Owner[keyring[h][NoUser]] = u)
RestRight(h) == Kept(disk[h], h) \/ Matched(disk[h].user, h)

At(p, h) == pc[p] \in Working /\ cmd[p].host = h
Before == {"login_keyring", "login_insecure", "prev_user", "prev_active", "del_active"}

\* Which of the two, by the position of the command.
PlaceInv(p, h, d, e) ==
    /\ ~At(p, h) \/ pc[p] \in Before \cup {"restore_keyring"} => RestRight(h)
    /\ At(p, h) =>
        /\ pc[p] = "clear_active" => (Kept(d, h) /\ Kept(e, h)) \/ Matched(d.user, h)
        /\ pc[p] \in {"get_user", "set_active"} => (Kept(d, h) /\ Kept(e, h)) \/ Matched(NoUser, h)
        /\ pc[p] = "set_active" => got[p] # NoToken /\ Owner[got[p]] = target[p]
        /\ pc[p] = "activate" => \/ Kept(d, h) /\ Kept(e, h)
                                 \/ Matched(NoUser, h)
                                 \/ got[p] # NoToken /\ faults # 0 /\ Matched(target[p], h)
        /\ pc[p] = "del_user" => Kept(d, h) \/ Matched(NoUser, h)
        /\ pc[p] = "write" => \/ Kept(e, h) /\ (faults = 0 => RestRight(h))
                              \/ Matched(e.user, h) /\ faults # 0
        /\ pc[p] = "restore_keyring" => cmd[p].op = "switch"

\* As long as nothing has failed: every account's token is the newest one, and the slot
\* without a name has what the slot of the active account has.
Newest(e, h, v) == IF e.tok[v] # NoToken THEN e.tok[v] ELSE keyring[h][v]
Copied(u, h) == u # NoUser => keyring[h][NoUser] = keyring[h][u]
FreshRest(h) ==
    /\ \A v \in disk[h].users : Newest(disk[h], h, v) # NoToken /\ last[h][v] = Newest(disk[h], h, v)
    /\ Copied(disk[h].user, h)
FreshInv(p, h, d, e) ==
    faults = 0 =>
    /\ ~At(p, h) \/ pc[p] \in Before => FreshRest(h)
    /\ At(p, h) =>
        /\ pc[p] # "restore_keyring"
        /\ pc[p] \in Activation => AllStored(d, h)
        /\ pc[p] \in Activation \cup {"write"} =>
             \A v \in e.users : /\ Newest(e, h, v) # NoToken
                                /\ LogsIn(p) /\ v = cmd[p].user => Newest(e, h, v) = cmd[p].token
                                /\ ~LogsIn(p) \/ v # cmd[p].user => Newest(e, h, v) = last[h][v]
        /\ pc[p] \in {"get_user", "set_active", "del_user"} => keyring[h][NoUser] = NoToken
        /\ pc[p] = "set_active" => got[p] = keyring[h][target[p]]
        /\ pc[p] = "activate" => got[p] = keyring[h][target[p]] /\ keyring[h][NoUser] = got[p]
        /\ pc[p] = "write" => Copied(e.user, h)

\* A switch knows the token that was in force, and putting it into the slot without a name
\* puts it into force again; or it will not have to.
Aside(h, u, t) == (\A l \in late : l.host = h /\ l.slot # NoUser => l.val = NoToken) /\ keyring[h][u] \in {NoToken, t}
SwitchInv(p, h, d, e) ==
    At(p, h) /\ cmd[p].op = "switch" =>
    /\ prev[p].user = d.user /\ d.user # NoUser
    /\ pc[p] \in {"prev_user", "prev_active"} => d.token = NoToken
    /\ pc[p] = "prev_active" =>
         OnlyDeletions(h) /\ (keyring[h][d.user] = NoToken \/ (late = {} /\ keyring[h][NoUser] = keyring[h][d.user]))
    /\ pc[p] \notin {"prev_user", "prev_active"} =>
         /\ prev[p].token # NoToken
         /\ \/ prev[p].src = "oauth_token" /\ prev[p].token = d.token
            \/ prev[p].src = "keyring" /\ d.token = NoToken /\ Owner[prev[p].token] = d.user
         /\ \/ prev[p].src = "oauth_token" \/ Aside(h, d.user, prev[p].token)
            \/ /\ faults # 0
               /\ pc[p] \in {"clear_active", "get_user"} => Kept(e, h)
               /\ pc[p] = "activate" => got[p] # NoToken \/ e.tok[target[p]] # NoToken
               /\ pc[p] # "restore_keyring"
         /\ pc[p] = "restore_keyring" => faults # 0

HostInv(p, h) ==
    /\ PlaceInv(p, h, disk[h], mem[p][h])
    /\ FreshInv(p, h, disk[h], mem[p][h])
    /\ SwitchInv(p, h, disk[h], mem[p][h])
FaultInv == RunInv /\ WholeInv /\ \A p \in Procs, h \in Hosts : HostInv(p, h)

-----------------------------------------------------------------------------
\* A section that is whole stays so.
LEMMA WholeSteps ==
  ASSUME RunInv, WholeInv, NEW p \in Procs, Step(p)
  PROVE  (\A h \in Hosts : Whole(disk[h]))' /\ WholeCopy(p)'
<1> DEFINE h == cmd[p].host
           e == mem[p][h]
<1>1. /\ IInv /\ CopyInv(p) /\ WholeCopy(p) /\ h \in Hosts /\ e \in Entry /\ Whole(disk[h]) /\ NoUser \notin Users
      /\ \A g \in Hosts : Whole(disk[g]) /\ disk[g] \in Entry
  BY Facts, InvParts DEF RunInv, WholeInv, HostsFile
<1>2. CASE Begin(p)
  <2>1. mem[p] = disk /\ disk' = disk
    BY <1>1, <1>2 DEF Begin, BeginLogin, BeginRefresh, EnterLogin, BeginSwitch, BeginLogout, CopyInv, RestInv
  <2>2. ASSUME NEW g \in Hosts, NEW t \in Tokens, NEW s \in BOOLEAN, BeginLogin(p, g, t, s) \/ BeginRefresh(p, g, t, s)
        PROVE  WholeCopy(p)'
    <3>1. cmd'[p].token = t /\ pc'[p] # "write" /\ t # NoToken
      BY <1>1, <2>2, InvParts, ConstantsAssumption DEF BeginLogin, BeginRefresh, EnterLogin, Run, Goto, ProcTypeOK
    <3> QED BY <3>1 DEF WholeCopy
  <2>3. ASSUME NEW g \in Hosts, NEW u \in Users, BeginSwitch(p, g, u)
        PROVE  WholeCopy(p)'
    <3>1. cmd'[p].op = "switch" /\ pc'[p] # "write"
      BY <1>1, <2>3, InvParts DEF BeginSwitch, Run, Goto, ProcTypeOK
    <3> QED BY <3>1 DEF WholeCopy, LogsIn
  <2>4. ASSUME NEW g \in Hosts, NEW u \in Users, BeginLogout(p, g, u)
        PROVE  WholeCopy(p)'
    <3>1. cmd'[p].op = "logout" /\ cmd'[p].host = g
      BY <1>1, <2>4, InvParts DEF BeginLogout, Run, ProcTypeOK
    <3>2. ASSUME pc'[p] = "write"
          PROVE  u \in disk[g].users /\ disk[g].user # u /\ mem'[p][g] = RemoveUser(disk[g], u)
      BY <1>1, <2>1, <2>4, <3>2, InvParts DEF BeginLogout, Goto, ProcTypeOK, HostsFile
    <3>3. LET f == RemoveUser(disk[g], u)
          IN  /\ f.users = disk[g].users \ {u} /\ f.user = disk[g].user /\ f.token = disk[g].token
              /\ \A v \in Users \ {u} : f.tok[v] = disk[g].tok[v]
      BY <1>1, RemoveUserIs
    <3>4. disk[g].users \subseteq Users
      BY <1>1 DEF Entry
    <3>5. pc'[p] = "write" => Whole(mem'[p][g])
      BY <1>1, <3>2, <3>3, <3>4 DEF Whole
    <3> QED BY <3>1, <3>5 DEF WholeCopy, LogsIn
  <2> QED BY <1>1, <1>2, <2>1, <2>2, <2>3, <2>4 DEF Begin
<1>3. CASE Activate(p)
  <2>1. target[p] \in Users /\ target[p] \in e.users /\ disk' = disk /\ cmd' = cmd /\ pc[p] = "activate"
    <3>1. pc[p] = "activate" /\ cmd[p].op \in {"login", "refresh", "switch", "logout"}
      BY <1>1, <1>3, Facts DEF Activate, Commands, CopyInv, AccountsInv, Activation
    <3>2. target[p] \in Users
      BY <1>1, <3>1, Facts DEF ProcInv, Activating
    <3> QED BY <1>1, <1>3, <3>1, <3>2 DEF Activate, CopyInv, AccountsInv, Activation, LogsIn
  <2> DEFINE f == SetActiveUser(e, target[p], e.tok[target[p]])
  <2>2. pc'[p] = "write" => mem'[p][h] = f
    BY <1>1, <1>3, <2>1, InvParts DEF Activate, ActivateFails, Goto, ProcTypeOK, HostsFile
  <2>3. f.users = e.users /\ f.user = target[p] /\ f.token = e.tok[target[p]] /\ f.tok = e.tok
    BY <1>1, <2>1, SetActiveUserIs, Facts
  <2> HIDE DEF f
  <2>4. pc'[p] = "write" => Whole(mem'[p][h])
    BY <1>1, <2>1, <2>2, <2>3 DEF Whole
  <2> QED BY <1>1, <2>1, <2>4 DEF WholeCopy, LogsIn
<1>4. CASE Write(p)
  <2>1. \A g \in Hosts \ {h} : mem[p][g] = disk[g]
    BY <1>1, <1>4 DEF Write, CopyInv, RestInv, Working, Labels
  <2>2. cmd' = cmd /\ mem' = mem /\ disk' \in {disk, mem[p]} /\ pc'[p] # "write" /\ Whole(e)
    BY <1>1, <1>4, InvParts DEF Write, WriteFails, ActivateFails, Goto, ProcTypeOK, WholeCopy
  <2> QED BY <1>1, <2>1, <2>2 DEF WholeCopy, LogsIn
<1>5. CASE DeleteUserSlot(p)
  <2>1. disk' = disk /\ cmd' = cmd /\ mem' = mem /\ e = NoEntry
    BY <1>1, <1>5 DEF DeleteUserSlot, CopyInv, AccountsInv
  <2> QED BY <1>1, <2>1 DEF WholeCopy, LogsIn, NoEntry, Whole
<1>6. CASE LoginKeyring(p) \/ LoginInsecure(p) \/ ClearActive(p) \/ GetUserToken(p) \/ SetActive(p)
  <2>1. disk' = disk /\ cmd' = cmd /\ pc'[p] # "write"
    BY <1>1, <1>6, InvParts DEF LoginKeyring, LoginInsecure, ClearActive, GetUserToken, SetActive, ActivateFails, Goto, ProcTypeOK
  <2> QED BY <1>1, <2>1 DEF WholeCopy, LogsIn
<1>7. CASE SwitchUser(p) \/ DeleteActiveSlot(p)
  <2>1. disk' = disk /\ cmd' = cmd /\ pc'[p] # "write"
    BY <1>1, <1>7, InvParts DEF SwitchUser, PrevFromUserSlot, PrevFromActiveSlot, RestorePrevious, DeleteActiveSlot, Goto, ProcTypeOK
  <2> QED BY <1>1, <2>1 DEF WholeCopy, LogsIn
<1> QED BY <1>2, <1>3, <1>4, <1>5, <1>6, <1>7 DEF Step, Login, ActivateUser, Logout

\* Only a fault puts a call off.
LEMMA LateCounts == ASSUME IInv, WholeInv, [Next]_vars, faults' = 0 PROVE faults = 0 /\ late' = {}
<1>1. faults \in Nat
  BY ConstantsAssumption DEF IInv, TypeOK
<1>2. ASSUME NEW k, Fault(k) PROVE FALSE
  BY <1>1, <1>2 DEF Fault
<1>3. ASSUME NEW h, NEW s, NEW v, NEW ok, KeyringWrite(h, s, v, ok) PROVE UNCHANGED <<late, faults>>
  BY <1>2, <1>3 DEF KeyringWrite
<1>4. ASSUME NEW h, NEW s, NEW r, KeyringRead(h, s, r) PROVE UNCHANGED <<late, faults>>
  BY <1>2, <1>4 DEF KeyringRead
<1>5. ASSUME NEW p \in Procs, Begin(p) PROVE UNCHANGED <<late, faults>>
  BY <1>5 DEF Begin, BeginLogin, BeginRefresh, EnterLogin, BeginSwitch, BeginLogout
<1>6. ASSUME NEW p \in Procs, Login(p) \/ ActivateUser(p) PROVE UNCHANGED <<late, faults>>
  BY <1>2, <1>3, <1>4, <1>6
     DEF Login, ActivateUser, LoginKeyring, LoginInsecure, ClearActive, GetUserToken, SetActive, Activate, Write, WriteFails
<1>7. ASSUME NEW p \in Procs, SwitchUser(p) \/ Logout(p) PROVE UNCHANGED <<late, faults>>
  BY <1>3, <1>4, <1>7
     DEF SwitchUser, PrevFromUserSlot, PrevFromActiveSlot, RestorePrevious, Logout, DeleteActiveSlot, DeleteUserSlot
<1>8. ASSUME NEW p \in Procs, Start(p) \/ Finish(p) \/ Crash(p) PROVE UNCHANGED <<late, faults>>
  BY <1>2, <1>8 DEF Start, Finish, Crash, Exit
<1>9. LateEffect => faults' = faults /\ late' \subseteq late
  BY DEF LateEffect
<1>10. faults' = faults /\ late' \subseteq late
  BY <1>5, <1>6, <1>7, <1>8, <1>9 DEF Next, Step, vars
<1> QED BY <1>10 DEF WholeInv

-----------------------------------------------------------------------------
\* The tokens of a host.

\* A call to the keyring is carried out ...
LEMMA Carried ==
  ASSUME IInv, NEW h \in Hosts, NEW s \in Slots, NEW v \in MaybeToken, NEW ok \in BOOLEAN, KeyringWrite(h, s, v, ok), ok
  PROVE  /\ keyring'[h] = [keyring[h] EXCEPT ![s] = v] /\ late' = late /\ faults' = faults
         /\ keyring[h] \in [Slots -> MaybeToken]
         /\ \A g \in Hosts \ {h} : keyring'[g] = keyring[g]
<1>1. keyring \in [Hosts -> [Slots -> MaybeToken]]
  BY DEF IInv, TypeOK
<1>2. keyring' = [keyring EXCEPT ![h][s] = v] /\ UNCHANGED <<late, faults>>
  BY DEF KeyringWrite
<1> QED BY <1>1, <1>2

\* ... or it is the one that fails, and may be late.
LEMMA Refused ==
  ASSUME IInv, WholeInv, faults' <= 1, NEW h \in Hosts, NEW s \in Slots, NEW v \in MaybeToken, NEW ok \in BOOLEAN,
         KeyringWrite(h, s, v, ok), ~ok
  PROVE  /\ keyring' = keyring /\ late = {} /\ faults = 0 /\ faults' = 1
         /\ \A l \in late' : l.host = h /\ l.slot = s /\ l.val = v
<1>1. faults \in Nat
  BY ConstantsAssumption DEF IInv, TypeOK
<1>2. ASSUME NEW k, Fault(k) PROVE faults = 0 /\ faults' = 1 /\ late = {}
  BY <1>1, <1>2 DEF Fault, WholeInv
<1>3. CASE Fault("error") /\ UNCHANGED <<keyring, late>>
  BY <1>2, <1>3
<1>4. CASE Fault("timeout") /\ late' = late \cup {[host |-> h, slot |-> s, val |-> v]} /\ UNCHANGED keyring
  BY <1>2, <1>4
<1> QED BY <1>3, <1>4 DEF KeyringWrite

\* What a step of a command leaves of the other hosts.
LEMMA OtherHosts ==
  ASSUME RunInv, WholeInv, faults' <= 1, NEW p \in Procs, Step(p), ~Begin(p), NEW g \in Hosts, g # cmd[p].host
  PROVE  /\ keyring'[g] = keyring[g] /\ disk'[g] = disk[g] /\ last'[g] = last[g] /\ cmd' = cmd
         /\ \A l \in late' : l.host = g => l \in late
<1>1. /\ IInv /\ cmd[p].host \in Hosts /\ cmd[p].user \in Slots /\ NoUser \in Slots /\ NoToken \in MaybeToken
      /\ cmd[p].token \in MaybeToken /\ got[p] \in MaybeToken /\ prev[p].token \in MaybeToken
  BY Facts DEF RunInv
<1>2. ASSUME NEW s \in Slots, NEW v \in MaybeToken, NEW ok \in BOOLEAN, KeyringWrite(cmd[p].host, s, v, ok)
      PROVE  keyring'[g] = keyring[g] /\ \A l \in late' : l.host = g => l \in late
  <2>1. CASE ok BY <1>1, <1>2, <2>1, Carried
  <2>2. CASE ~ok BY <1>1, <1>2, <2>2, Refused
  <2> QED BY <2>1, <2>2
<1>3. CASE LoginKeyring(p) \/ LoginInsecure(p)
  BY <1>1, <1>2, <1>3 DEF LoginKeyring, LoginInsecure
<1>4. CASE ClearActive(p) \/ GetUserToken(p)
  BY <1>1, <1>2, <1>4 DEF ClearActive, GetUserToken, KeyringRead
<1>5. CASE SetActive(p) \/ Activate(p)
  BY <1>1, <1>2, <1>5 DEF SetActive, Activate
<1>6. CASE Write(p)
  <2>1. pc[p] = "write" /\ CopyInv(p)
    BY <1>6 DEF Write, RunInv
  <2>2. mem[p][g] = disk[g]
    BY <2>1 DEF CopyInv, RestInv, Working, Labels
  <2>3. last \in [Hosts -> [Users -> MaybeToken]]
    BY <1>1 DEF IInv, TypeOK
  <2>4. LastAfterWrite(p)[g] = last[g]
    BY <1>1, <2>3 DEF LastAfterWrite
  <2> QED BY <1>6, <2>2, <2>4 DEF Write, WriteFails
<1>7. CASE SwitchUser(p)
  BY <1>1, <1>2, <1>7 DEF SwitchUser, PrevFromUserSlot, PrevFromActiveSlot, RestorePrevious, KeyringRead
<1>8. CASE Logout(p)
  BY <1>1, <1>2, <1>8 DEF Logout, DeleteActiveSlot, DeleteUserSlot
<1> QED BY <1>3, <1>4, <1>5, <1>6, <1>7, <1>8 DEF Step, Login, ActivateUser

LEMMA OtherHostsKeep ==
  ASSUME FaultInv, [Next]_vars, faults' <= 1, NEW p \in Procs, Step(p), ~Begin(p), NEW g \in Hosts, g # cmd[p].host
  PROVE  HostInv(p, g)'
<1>1. RunInv /\ WholeInv /\ HostInv(p, g) /\ ~At(p, g)
  BY DEF FaultInv, At
<1>2. /\ keyring'[g] = keyring[g] /\ disk'[g] = disk[g] /\ last'[g] = last[g] /\ cmd' = cmd
      /\ \A l \in late' : l.host = g => l \in late
  BY <1>1, OtherHosts
<1>3. ~At(p, g)' /\ (faults' = 0 => faults = 0)
  BY <1>1, <1>2, LateCounts DEF At, RunInv
<1>4. RestRight(g)'
  BY <1>1, <1>2 DEF HostInv, PlaceInv, RestRight, Kept, KeepsSlots, AllStored, Matched, OnlyDeletions
<1>5. faults' = 0 => FreshRest(g)'
  BY <1>1, <1>2, <1>3 DEF HostInv, FreshInv, FreshRest, Newest, Copied
<1> QED BY <1>3, <1>4, <1>5 DEF HostInv, PlaceInv, FreshInv, SwitchInv

\* A command that ends before it has written the file leaves its host in one of the two states,
\* if what ends it is the only fault.
LEMMA Abandoned ==
  ASSUME FaultInv, NEW p \in Procs, NEW h \in Hosts, faults = 0
  PROVE  RestRight(h)
<1>1. PlaceInv(p, h, disk[h], mem[p][h]) /\ NoUser \notin Users
  BY ConstantsAssumption DEF FaultInv, HostInv
<1>2. keyring[h][NoUser] # NoToken => Owner[keyring[h][NoUser]] \in Users
  BY ConstantsAssumption DEF FaultInv, RunInv, IInv, TypeOK, Slots, MaybeUser, MaybeToken
<1>3. Matched(NoUser, h) => RestRight(h)
  BY <1>1, <1>2 DEF RestRight, Matched
<1>4. At(p, h) => pc[p] \in Before \cup Activation \cup {"restore_keyring", "del_user", "write"}
  BY DEF At, Working, Labels, Before, Activation
<1>5. Kept(disk[h], h) \/ Matched(disk[h].user, h) => RestRight(h)
  BY DEF RestRight
<1> QED BY <1>1, <1>3, <1>4, <1>5 DEF PlaceInv, Activation

LEMMA BetweenCommands ==
  ASSUME FaultInv, [Next]_vars, faults' <= 1, NEW p \in Procs, Start(p) \/ Finish(p) \/ Crash(p), NEW h \in Hosts
  PROVE  HostInv(p, h)'
<1>1. UNCHANGED <<disk, keyring, late, last>> /\ RunInv /\ WholeInv /\ HostInv(p, h) /\ IInv /\ faults \in Nat
  BY ConstantsAssumption DEF Start, Finish, Crash, Exit, FaultInv, RunInv, IInv, TypeOK
<1>2. ~At(p, h)' /\ (faults' = 0 => faults = 0)
  BY <1>1, InvParts, LateCounts DEF At, Start, Finish, Crash, Exit, Goto, ProcTypeOK, Working, Labels
<1>3. RestRight(h) /\ (faults' = 0 => FreshRest(h))
  <2>1. CASE Crash(p)
    <3>1. faults = 0 /\ faults' # 0
      BY <1>1, <2>1 DEF Crash, Fault
    <3> QED BY <3>1, Abandoned
  <2>2. CASE Start(p) \/ Finish(p)
    <3>1. ~At(p, h)
      BY <2>2 DEF Start, Finish, At, Working
    <3> QED BY <1>1, <1>2, <3>1 DEF HostInv, PlaceInv, FreshInv
  <2> QED BY <2>1, <2>2
<1>4. RestRight(h)' /\ (faults' = 0 => FreshRest(h)')
  BY <1>1, <1>2, <1>3 DEF RestRight, Kept, KeepsSlots, AllStored, Matched, OnlyDeletions, FreshRest, Newest, Copied
<1> QED BY <1>2, <1>4 DEF HostInv, PlaceInv, FreshInv, SwitchInv

\* A call that is carried out late.
LEMMA LateEffectKeeps ==
  ASSUME FaultInv, LateEffect, NEW p \in Procs, NEW h \in Hosts
  PROVE  HostInv(p, h)'
<1>1. RunInv /\ WholeInv /\ HostInv(p, h) /\ IInv
  BY DEF FaultInv, RunInv
<1>2. PICK l \in late : keyring' = [keyring EXCEPT ![l.host][l.slot] = l.val] /\ late' = late \ {l}
  BY DEF LateEffect
<1>3. UNCHANGED <<disk, faults, last, pc, cmd, mem, target, got, prev>> /\ faults # 0 /\ late # {}
  BY <1>1 DEF LateEffect, procVars, WholeInv
<1>4. keyring \in [Hosts -> [Slots -> MaybeToken]] /\ l.host \in Hosts /\ l.slot \in Slots
      /\ disk[h] \in Entry /\ mem[p][h] \in Entry /\ NoUser \in Slots /\ (target[p] \in Users => target[p] \in Slots)
  BY <1>1, Facts DEF IInv, TypeOK, HostsFile, Slots, MaybeUser
<1>5. \A s \in Slots : \/ keyring'[h][s] = keyring[h][s]
                       \/ l.host = h /\ l.slot = s /\ keyring'[h][s] = l.val
  BY <1>2, <1>4
<1>6. late' \subseteq late
  BY <1>2
<1> HIDE DEF LateEffect
<1>7. ASSUME NEW e \in Entry, Kept(e, h)
      PROVE  Kept(e, h)'
  <2>1. \A v \in Users : keyring[h][v] # NoToken => keyring'[h][v] # NoToken
    BY <1>5, <1>7, ConstantsAssumption DEF Kept, KeepsSlots, Slots, MaybeUser
  <2>2. e.users \subseteq Users
    BY DEF Entry
  <2> QED BY <1>6, <1>7, <2>1, <2>2 DEF Kept, KeepsSlots, AllStored
<1>8. ASSUME NEW u, Matched(u, h)
      PROVE  Matched(u, h)'
  BY <1>4, <1>5, <1>6, <1>8 DEF Matched, OnlyDeletions
<1>9. PlaceInv(p, h, disk[h], mem[p][h])'
  <2>1. RestRight(h) => RestRight(h)'
    BY <1>3, <1>4, <1>7, <1>8 DEF RestRight
  <2>2. (At(p, h)' <=> At(p, h)) /\ disk'[h] = disk[h] /\ mem'[p][h] = mem[p][h]
    BY <1>3 DEF At
  <2> QED BY <1>1, <1>3, <1>4, <1>7, <1>8, <2>1, <2>2 DEF HostInv, PlaceInv
<1>10. SwitchInv(p, h, disk[h], mem[p][h])'
  <2>1. disk[h].user # NoUser => disk[h].user \in Slots /\ disk[h].user # NoUser
    BY <1>4 DEF Entry, Slots
  <2>2. (At(p, h)' <=> At(p, h)) /\ disk'[h] = disk[h] /\ mem'[p][h] = mem[p][h]
    BY <1>3 DEF At
  <2>3. OnlyDeletions(h) => OnlyDeletions(h)'
    BY <1>6 DEF OnlyDeletions
  <2>4. ASSUME OnlyDeletions(h), disk[h].user # NoUser, keyring[h][disk[h].user] = NoToken
        PROVE  keyring'[h][disk[h].user] = NoToken
    BY <1>5, <2>1, <2>4 DEF OnlyDeletions
  <2>5. ASSUME NEW t, Aside(h, disk[h].user, t), disk[h].user # NoUser
        PROVE  Aside(h, disk[h].user, t)'
    BY <1>3, <1>5, <1>6, <2>1, <2>5 DEF Aside
  <2> QED BY <1>1, <1>3, <1>4, <1>7, <2>2, <2>3, <2>4, <2>5 DEF HostInv, SwitchInv
<1>11. FreshInv(p, h, disk[h], mem[p][h])'
  BY <1>3 DEF FreshInv
<1> QED BY <1>9, <1>10, <1>11 DEF HostInv

-----------------------------------------------------------------------------
\* The steps of a command, at its host.

LEMMA Here ==
  ASSUME FaultInv, NEW p \in Procs, NEW h \in Hosts, h = cmd[p].host, pc[p] \in Working
  PROVE  /\ At(p, h) /\ IInv /\ WholeInv /\ CopyInv(p) /\ WholeCopy(p) /\ Whole(disk[h])
         /\ PlaceInv(p, h, disk[h], mem[p][h]) /\ FreshInv(p, h, disk[h], mem[p][h])
         /\ SwitchInv(p, h, disk[h], mem[p][h])
         /\ disk[h] \in Entry /\ mem[p][h] \in Entry /\ disk[h].users \subseteq Users /\ mem[p][h].users \subseteq Users
         /\ cmd[p].user \in Users /\ NoUser \notin Users /\ Users \subseteq Slots /\ NoUser \in Slots
         /\ NoToken \in MaybeToken /\ cmd[p].op \in {"none", "login", "refresh", "switch", "logout"}
         /\ faults \in Nat /\ (faults = 0 => late = {})
         /\ \A u \in Users : keyring[h][u] # NoToken => Owner[keyring[h][u]] = u
         /\ keyring[h][NoUser] # NoToken => Owner[keyring[h][NoUser]] \in Users
         /\ cmd[p].token \in MaybeToken /\ got[p] \in MaybeToken /\ prev[p].token \in MaybeToken
<1>1. IInv /\ WholeInv /\ RunInv /\ HostInv(p, h) /\ CopyInv(p) /\ WholeCopy(p) /\ Whole(disk[h])
  BY DEF FaultInv, RunInv, WholeInv
<1>2. /\ mem[p][h] \in Entry /\ cmd[p].user \in Users /\ NoUser \notin Users /\ NoUser \in Slots /\ NoToken \in MaybeToken
      /\ cmd[p].token \in MaybeToken /\ got[p] \in MaybeToken /\ prev[p].token \in MaybeToken /\ Users \subseteq Slots
      /\ cmd[p].op \in {"none", "login", "refresh", "switch", "logout"}
  BY <1>1, Facts DEF Commands, Slots, MaybeUser
<1>3. disk[h] \in Entry /\ faults \in Nat /\ keyring[h] \in [Slots -> MaybeToken]
  BY <1>1, ConstantsAssumption DEF IInv, TypeOK, HostsFile
<1>4. keyring[h][NoUser] # NoToken => Owner[keyring[h][NoUser]] \in Users
  BY <1>2, <1>3, ConstantsAssumption DEF MaybeToken
<1>5. disk[h].users \subseteq Users /\ mem[p][h].users \subseteq Users
  BY <1>2, <1>3 DEF Entry
<1> QED BY <1>1, <1>2, <1>3, <1>4, <1>5 DEF At, HostInv, IInv, OwnershipInv, WholeInv

\* Before anything has failed every account is stored.
LEMMA AllThere ==
  ASSUME FaultInv, NEW p \in Procs, NEW h \in Hosts, faults = 0
  PROVE  /\ ~At(p, h) \/ pc[p] \in Before \cup Activation => Kept(disk[h], h)
         /\ At(p, h) /\ pc[p] \in Activation => Kept(mem[p][h], h)
<1>1. FreshInv(p, h, disk[h], mem[p][h]) /\ KeepsSlots(h)
  BY DEF FaultInv, HostInv, WholeInv, KeepsSlots
<1>2. FreshRest(h) => AllStored(disk[h], h)
  BY DEF FreshRest, AllStored, Newest
<1>3. At(p, h) /\ pc[p] \in Activation => AllStored(mem[p][h], h)
  BY <1>1 DEF FreshInv, AllStored, Newest
<1> QED BY <1>1, <1>2, <1>3 DEF FreshInv, Kept

LEMMA LoginKeyringKeeps ==
  ASSUME FaultInv, faults' <= 1, NEW p \in Procs, LoginKeyring(p), NEW h \in Hosts, h = cmd[p].host
  PROVE  HostInv(p, h)'
<1> DEFINE u == cmd[p].user
           d == disk[h]
           e == AddUser(mem[p][h], u, NoToken)
<1>0. pc[p] = "login_keyring" /\ pc[p] \in Working /\ pc[p] \in Before
  BY DEF LoginKeyring, Working, Labels, Before
<1>1. At(p, h) /\ IInv /\ WholeInv /\ RestRight(h) /\ LogsIn(p) /\ mem[p] = disk /\ (faults = 0 => FreshRest(h))
  BY <1>0, Here DEF PlaceInv, FreshInv, CopyInv, RestInv, AccountsInv
<1>2. /\ e.users = d.users \cup {u} /\ e.tok[u] = NoToken
      /\ \A v \in Users \ {u} : e.tok[v] = d.tok[v]
  BY <1>0, <1>1, Here, AddUserIs
<1>3. disk' = disk /\ cmd' = cmd /\ last' = last
  BY DEF LoginKeyring
<1>4. cmd[p].token # NoToken /\ u \in Slots /\ u # NoUser /\ NoUser \in Slots
  BY <1>0, <1>1, Here DEF WholeCopy
<1>5. PICK ok \in BOOLEAN :
        /\ KeyringWrite(h, u, cmd[p].token, ok)
        /\ IF ok
           THEN /\ mem' = [mem EXCEPT ![p][h] = e]
                /\ Goto(p, "clear_active")
           ELSE Goto(p, "login_insecure")
  BY DEF LoginKeyring
<1> HIDE DEF e
<1>6. CASE ok
  <2>1. mem'[p][h] = e /\ pc'[p] = "clear_active" /\ At(p, h)'
    <3>1. mem'[p][h] = e
      BY <1>1, <1>5, <1>6, OneSection
    <3>2. pc'[p] = "clear_active"
      BY <1>1, <1>5, <1>6, InvParts DEF Goto, ProcTypeOK
    <3> QED BY <1>3, <3>1, <3>2 DEF At, Working, Labels
  <2>2. /\ keyring'[h][u] = cmd[p].token /\ late' = late /\ faults' = faults
        /\ \A r \in Slots : r # u => keyring'[h][r] = keyring[h][r]
    <3>1. cmd[p].token \in MaybeToken /\ h \in Hosts /\ u \in Slots
      BY <1>1, Facts
    <3>2. keyring' = [keyring EXCEPT ![h][u] = cmd[p].token] /\ UNCHANGED <<late, faults>>
      BY <1>5, <1>6 DEF KeyringWrite
    <3> QED BY <1>1, <3>1, <3>2 DEF IInv, TypeOK
  <2>3. Kept(d, h) => Kept(d, h)' /\ Kept(mem[p][h], h)'
    <3>1. \A v \in d.users : v \in Users /\ v \in Slots
      BY <1>0, <1>1, Here
    <3> QED BY <1>2, <1>3, <1>4, <2>1, <2>2, <3>1 DEF Kept, KeepsSlots, AllStored
  <2>4. Matched(d.user, h) => Matched(d.user, h)'
    BY <1>3, <1>4, <2>2 DEF Matched, OnlyDeletions
  <2>5. PlaceInv(p, h, disk[h], mem[p][h])'
    BY <1>1, <1>3, <2>1, <2>3, <2>4 DEF PlaceInv, RestRight, Before
  <2>6. FreshInv(p, h, disk[h], mem[p][h])'
    <3>1. \A v \in d.users : v \in Users /\ v \in Slots
      BY <1>0, <1>1, Here
    <3>2. faults = 0 => AllStored(d, h)'
      BY <1>1, <1>3, <1>4, <2>2, <3>1 DEF FreshRest, AllStored, Newest
    <3>3. faults = 0 => \A v \in e.users : /\ Newest(mem[p][h], h, v)' # NoToken
                                           /\ v = u => Newest(mem[p][h], h, v)' = cmd[p].token
                                           /\ v # u => Newest(mem[p][h], h, v)' = last[h][v]
      BY <1>1, <1>2, <1>3, <1>4, <2>1, <2>2, <3>1 DEF FreshRest, Newest
    <3> QED BY <1>1, <1>3, <2>1, <2>2, <3>2, <3>3 DEF FreshInv, LogsIn, Activation, Before
  <2>7. SwitchInv(p, h, disk[h], mem[p][h])'
    BY <1>1, <1>3 DEF SwitchInv, LogsIn
  <2> QED BY <2>5, <2>6, <2>7 DEF HostInv
<1>7. CASE ~ok
  <2>1. pc'[p] = "login_insecure"
    BY <1>1, <1>5, <1>7, InvParts DEF Goto, ProcTypeOK
  <2>2. keyring' = keyring /\ faults = 0 /\ faults' = 1 /\ \A l \in late' : l.val = cmd[p].token
    BY <1>0, <1>1, <1>4, <1>5, <1>7, Refused, Here
  <2>3. Kept(d, h)'
    BY <1>0, <1>3, <1>4, <2>2, AllThere DEF Kept, KeepsSlots, AllStored
  <2> QED BY <1>1, <1>3, <2>1, <2>2, <2>3 DEF HostInv, PlaceInv, RestRight, FreshInv, SwitchInv, LogsIn
<1> QED BY <1>6, <1>7

LEMMA LoginInsecureKeeps ==
  ASSUME FaultInv, faults' <= 1, NEW p \in Procs, LoginInsecure(p), NEW h \in Hosts, h = cmd[p].host
  PROVE  HostInv(p, h)'
<1> DEFINE u == cmd[p].user
           d == disk[h]
           e == AddUser(mem[p][h], u, cmd[p].token)
<1>0. pc[p] = "login_insecure" /\ pc[p] \in Working /\ pc[p] \in Before
  BY DEF LoginInsecure, Working, Labels, Before
<1>1. At(p, h) /\ IInv /\ WholeInv /\ RestRight(h) /\ LogsIn(p) /\ mem[p] = disk /\ (faults = 0 => FreshRest(h))
  BY <1>0, Here DEF PlaceInv, FreshInv, CopyInv, RestInv, AccountsInv
<1>2. /\ e.users = d.users \cup {u} /\ e.tok[u] = cmd[p].token
      /\ \A v \in Users \ {u} : e.tok[v] = d.tok[v]
  BY <1>0, <1>1, Here, AddUserIs
<1>3. UNCHANGED <<disk, cmd, last, keyring, late, faults>>
  BY DEF LoginInsecure
<1>3a. mem' = [mem EXCEPT ![p][h] = e]
  BY DEF LoginInsecure
<1>4. cmd[p].token # NoToken
  BY <1>0, <1>1, Here DEF WholeCopy
<1> HIDE DEF e
<1>5. mem'[p][h] = e /\ pc'[p] = "clear_active" /\ At(p, h)'
  <2>1. mem'[p][h] = e
    BY <1>1, <1>3a, Facts DEF HostsFile
  <2>2. pc'[p] = "clear_active"
    BY <1>1, InvParts DEF LoginInsecure, Goto, ProcTypeOK
  <2> QED BY <1>3, <2>1, <2>2 DEF At, Working, Labels
<1>6. \A v \in d.users : v \in Users
  BY <1>0, <1>1, Here
<1>7. Kept(d, h) => Kept(d, h)' /\ Kept(mem[p][h], h)'
  BY <1>2, <1>3, <1>4, <1>5, <1>6 DEF Kept, KeepsSlots, AllStored
<1>8. Matched(d.user, h) => Matched(d.user, h)'
  BY <1>3 DEF Matched, OnlyDeletions
<1>9. PlaceInv(p, h, disk[h], mem[p][h])'
  BY <1>1, <1>3, <1>5, <1>7, <1>8 DEF PlaceInv, RestRight, Before
<1>10. FreshInv(p, h, disk[h], mem[p][h])'
  <2>1. faults = 0 => AllStored(d, h)'
    BY <1>1, <1>3 DEF FreshRest, AllStored, Newest
  <2>2. faults = 0 => \A v \in e.users : /\ Newest(mem[p][h], h, v)' # NoToken
                                         /\ v = u => Newest(mem[p][h], h, v)' = cmd[p].token
                                         /\ v # u => Newest(mem[p][h], h, v)' = last[h][v]
    BY <1>1, <1>2, <1>3, <1>4, <1>5, <1>6 DEF FreshRest, Newest
  <2> QED BY <1>1, <1>3, <1>5, <2>1, <2>2 DEF FreshInv, LogsIn, Activation, Before
<1>11. SwitchInv(p, h, disk[h], mem[p][h])'
  BY <1>1, <1>3 DEF SwitchInv, LogsIn
<1> QED BY <1>9, <1>10, <1>11 DEF HostInv

\* A call for the slot without a name leaves the slots of the accounts alone.
LEMMA UnkeyedCall ==
  ASSUME IInv, WholeInv, faults' <= 1, NEW h \in Hosts, NEW v \in MaybeToken, NEW ok \in BOOLEAN, KeyringWrite(h, NoUser, v, ok)
  PROVE  /\ \A u \in Users : keyring'[h][u] = keyring[h][u]
         /\ \A l \in late' : l \in late \/ (l.slot = NoUser /\ l.val = v)
         /\ ok => keyring'[h][NoUser] = v /\ late' = late /\ faults' = faults
         /\ ~ok => faults = 0 /\ faults' = 1 /\ late = {} /\ keyring' = keyring
<1>1. NoUser \in Slots /\ NoUser \notin Users /\ Users \subseteq Slots
  BY ConstantsAssumption DEF Slots, MaybeUser
<1>2. CASE ok
  <2>1. keyring' = [keyring EXCEPT ![h][NoUser] = v] /\ UNCHANGED <<late, faults>>
    BY <1>2 DEF KeyringWrite
  <2>2. keyring \in [Hosts -> [Slots -> MaybeToken]]
    BY DEF IInv, TypeOK
  <2> QED BY <1>1, <1>2, <2>1, <2>2
<1>3. CASE ~ok
  BY <1>1, <1>3, Refused
<1> QED BY <1>2, <1>3

LEMMA KeptStays ==
  ASSUME NEW h \in Hosts, NoUser \notin Users, \A v \in Users : keyring[h][v] # NoToken => keyring'[h][v] # NoToken,
         \A l \in late' : l \in late \/ l.slot = NoUser \/ l.val # NoToken
  PROVE  \A e \in Entry : Kept(e, h) => Kept(e, h)'
<1>1. ASSUME NEW e \in Entry PROVE e.users \subseteq Users
  BY DEF Entry
<1> QED BY <1>1 DEF Kept, KeepsSlots, AllStored

LEMMA ClearActiveKeeps ==
  ASSUME FaultInv, faults' <= 1, NEW p \in Procs, ClearActive(p), NEW h \in Hosts, h = cmd[p].host
  PROVE  HostInv(p, h)'
<1> DEFINE d == disk[h]
           e == mem[p][h]
           f == SetActiveUser(e, e.user, NoToken)
<1>0. /\ pc[p] = "clear_active" /\ pc[p] \in Working /\ pc[p] \in Activation /\ pc[p] \notin Before
  BY DEF ClearActive, Working, Labels, Before, Activation
<1>1. /\ At(p, h) /\ IInv /\ WholeInv /\ d \in Entry /\ e \in Entry /\ NoUser \notin Users /\ NoToken \in MaybeToken
      /\ PlaceInv(p, h, d, e) /\ FreshInv(p, h, d, e) /\ SwitchInv(p, h, d, e)
  BY <1>0, Here
<1>2. f.users = e.users /\ f.tok = e.tok /\ f \in Entry
  BY <1>1, Facts, SetActiveUserIs, SetActiveUserFacts
<1>3. UNCHANGED <<disk, cmd, last, target, got, prev>>
  BY DEF ClearActive
<1>4. PICK ok \in BOOLEAN : KeyringWrite(h, NoUser, NoToken, ok)
  BY DEF ClearActive, KeyringWrite
<1>5. mem'[p][h] = f /\ pc'[p] = "get_user" /\ At(p, h)'
  <2>1. mem' = [mem EXCEPT ![p][h] = SetActiveUser(@, @.user, NoToken)]
    BY DEF ClearActive
  <2>2. mem'[p][h] = f
    BY <1>1, <2>1, Facts DEF HostsFile
  <2>3. pc'[p] = "get_user"
    BY <1>1, InvParts DEF ClearActive, Goto, ProcTypeOK
  <2> QED BY <1>3, <2>2, <2>3 DEF At, Working, Labels
<1> HIDE DEF f
<1>6. /\ \A u \in Users : keyring'[h][u] = keyring[h][u]
      /\ \A l \in late' : l \in late \/ (l.slot = NoUser /\ l.val = NoToken)
      /\ ok => keyring'[h][NoUser] = NoToken /\ late' = late /\ faults' = faults
      /\ ~ok => faults = 0 /\ faults' = 1 /\ late = {} /\ keyring' = keyring
  BY <1>1, <1>4, UnkeyedCall
<1>7. /\ Kept(d, h) => Kept(d, h)'
      /\ Kept(e, h) => Kept(mem[p][h], h)'
  <2>1. \A g \in Entry : Kept(g, h) => Kept(g, h)'
    BY <1>1, <1>6, KeptStays
  <2>2. Kept(e, h) => Kept(f, h)
    BY <1>2 DEF Kept, AllStored
  <2>3. Kept(e, h) => Kept(mem[p][h], h)'
    BY <1>2, <1>5, <2>1, <2>2
  <2> QED BY <1>1, <1>3, <2>1, <2>3
<1>8. PlaceInv(p, h, disk[h], mem[p][h])'
  <2>1. ~ok => Kept(d, h) /\ Kept(e, h)
    BY <1>0, <1>1, <1>6, AllThere
  <2>2. ok /\ Matched(d.user, h) => Matched(NoUser, h)'
    BY <1>6 DEF Matched, OnlyDeletions
  <2>3. (Kept(d, h) /\ Kept(mem[p][h], h))' \/ Matched(NoUser, h)'
    BY <1>0, <1>1, <1>3, <1>7, <2>1, <2>2 DEF PlaceInv
  <2> QED BY <1>5, <2>3 DEF PlaceInv, Before
<1>9. FreshInv(p, h, disk[h], mem[p][h])'
  <2>1. ASSUME faults' = 0 PROVE ok /\ faults = 0 /\ keyring'[h][NoUser] = NoToken
    BY <1>6, <2>1
  <2>2. d.users \subseteq Users /\ e.users \subseteq Users
    BY <1>1 DEF Entry
  <2>3. faults' = 0 => AllStored(d, h)'
    BY <1>0, <1>1, <1>3, <1>6, <2>1, <2>2 DEF FreshInv, AllStored
  <2>4. faults' = 0 => \A v \in f.users : /\ v \in e.users
                                          /\ Newest(mem[p][h], h, v)' = Newest(e, h, v)
    BY <1>2, <1>5, <1>6, <2>2 DEF Newest
  <2> QED BY <1>0, <1>1, <1>3, <1>5, <2>1, <2>3, <2>4 DEF FreshInv, LogsIn, Activation, Before
<1>10. SwitchInv(p, h, disk[h], mem[p][h])'
  <2>1. d.user \in MaybeUser
    BY <1>1 DEF Entry
  <2>2. ASSUME NEW t, Aside(h, d.user, t), d.user # NoUser PROVE Aside(h, d.user, t)'
    BY <1>3, <1>6, <2>1, <2>2 DEF Aside, MaybeUser
  <2>3. faults' # 0 \/ faults = 0
    BY <1>6
  <2> QED BY <1>0, <1>1, <1>3, <1>5, <1>7, <2>2, <2>3 DEF SwitchInv
<1> QED BY <1>8, <1>9, <1>10 DEF HostInv

\* Whom an activation is for.
LEMMA TargetFacts ==
  ASSUME FaultInv, NEW p \in Procs, NEW h \in Hosts, h = cmd[p].host, pc[p] \in Activation
  PROVE  /\ target[p] \in Users /\ cmd[p].op \in {"login", "refresh", "switch", "logout"}
         /\ target[p] \in mem[p][h].users
         /\ LogsIn(p) \/ cmd[p].op = "switch" => target[p] = cmd[p].user
<1>1. IInv /\ CopyInv(p)
  BY DEF FaultInv, RunInv
<1>2. target[p] \in Users /\ cmd[p].op \in {"none", "login", "refresh", "switch", "logout"}
  BY <1>1, Facts DEF ProcInv, Activating, Activation, Commands
<1> QED BY <1>1, <1>2 DEF CopyInv, AccountsInv, LogsIn

LEMMA GetUserTokenKeeps ==
  ASSUME FaultInv, faults' <= 1, NEW p \in Procs, GetUserToken(p), NEW h \in Hosts, h = cmd[p].host
  PROVE  HostInv(p, h)'
<1> DEFINE d == disk[h]
           e == mem[p][h]
<1>0. /\ pc[p] = "get_user" /\ pc[p] \in Working /\ pc[p] \in Activation /\ pc[p] \notin Before
  BY DEF GetUserToken, Working, Labels, Before, Activation
<1>1. /\ At(p, h) /\ IInv /\ WholeInv /\ d \in Entry /\ e \in Entry /\ NoUser \notin Users /\ NoToken \in MaybeToken
      /\ PlaceInv(p, h, d, e) /\ FreshInv(p, h, d, e) /\ SwitchInv(p, h, d, e) /\ faults \in Nat
      /\ \A u \in Users : keyring[h][u] # NoToken => Owner[keyring[h][u]] = u
  BY <1>0, Here
<1>2. target[p] \in Users /\ target[p] \in e.users /\ d.user \in MaybeUser
  BY <1>0, <1>1, TargetFacts DEF Entry
<1>3. UNCHANGED <<disk, cmd, mem, last, target, prev, keyring, late>>
  BY DEF GetUserToken, KeyringRead
<1>4. PICK r \in MaybeToken :
        /\ (r = keyring[h][target[p]] /\ faults' = faults) \/ (r = NoToken /\ faults = 0 /\ faults' = 1)
        /\ got' = [got EXCEPT ![p] = r] /\ pc' = [pc EXCEPT ![p] = IF r # NoToken THEN "set_active" ELSE "activate"]
  <2>1. Fault("error") \/ Fault("timeout") => faults = 0 /\ faults' = 1
    BY <1>1 DEF Fault
  <2>2. PICK r \in MaybeToken :
          /\ (r = keyring[h][target[p]] /\ faults' = faults) \/ (r = NoToken /\ (Fault("error") \/ Fault("timeout")))
          /\ got' = [got EXCEPT ![p] = r] /\ pc' = [pc EXCEPT ![p] = IF r # NoToken THEN "set_active" ELSE "activate"]
    BY DEF GetUserToken, KeyringRead, Goto
  <2> QED BY <2>1, <2>2
<1>5. got'[p] = r /\ pc'[p] = (IF r # NoToken THEN "set_active" ELSE "activate") /\ At(p, h)'
  <2>1. got'[p] = r
    BY <1>1, <1>4, InvParts DEF ProcTypeOK
  <2>2. pc'[p] = (IF r # NoToken THEN "set_active" ELSE "activate")
    BY <1>1, <1>4, InvParts DEF Goto, ProcTypeOK
  <2> QED BY <1>3, <2>1, <2>2 DEF At, Working, Labels
<1>6. /\ Kept(d, h)' <=> Kept(d, h)
      /\ Kept(mem[p][h], h)' <=> Kept(e, h)
      /\ \A u : Matched(u, h)' <=> Matched(u, h)
      /\ \A t : Aside(h, d.user, t)' <=> Aside(h, d.user, t)
  BY <1>3 DEF Kept, KeepsSlots, AllStored, Matched, OnlyDeletions, Aside
<1>7. PlaceInv(p, h, disk[h], mem[p][h])'
  <2>1. r # NoToken => Owner[r] = target[p]
    BY <1>1, <1>2, <1>4
  <2>2. (Kept(d, h) /\ Kept(mem[p][h], h))' \/ Matched(NoUser, h)'
    BY <1>0, <1>1, <1>3, <1>6 DEF PlaceInv
  <2> QED BY <1>3, <1>5, <2>1, <2>2 DEF PlaceInv, Before
<1>8. FreshInv(p, h, disk[h], mem[p][h])'
  <2>1. faults' = 0 => r = keyring[h][target[p]] /\ faults = 0
    BY <1>4
  <2>2. AllStored(disk[h], h)' <=> AllStored(d, h)
    BY <1>3 DEF AllStored
  <2>3. \A v : Newest(mem[p][h], h, v)' = Newest(e, h, v)
    BY <1>3 DEF Newest
  <2>4. faults = 0 /\ r = NoToken => keyring[h][NoUser] = r
    BY <1>0, <1>1 DEF FreshInv
  <2>5. faults' = 0 => /\ AllStored(disk[h], h)' /\ keyring'[h][NoUser] = NoToken
                       /\ \A v \in e.users :
                            /\ Newest(e, h, v) # NoToken
                            /\ LogsIn(p) /\ v = cmd[p].user => Newest(e, h, v) = cmd[p].token
                            /\ ~LogsIn(p) \/ v # cmd[p].user => Newest(e, h, v) = last[h][v]
    BY <1>0, <1>1, <1>3, <2>1, <2>2 DEF FreshInv
  <2> QED BY <1>3, <1>5, <2>1, <2>3, <2>4, <2>5 DEF FreshInv, LogsIn, Activation, Before
<1>9. SwitchInv(p, h, disk[h], mem[p][h])'
  <2>1. faults # 0 => r = keyring[h][target[p]] /\ faults' = faults
    BY <1>4
  <2>2. faults # 0 /\ Kept(e, h) => r # NoToken \/ e.tok[target[p]] # NoToken
    BY <1>2, <2>1 DEF Kept, AllStored
  <2> QED BY <1>0, <1>1, <1>3, <1>5, <1>6, <2>1, <2>2 DEF SwitchInv
<1> QED BY <1>7, <1>8, <1>9 DEF HostInv

LEMMA SetActiveKeeps ==
  ASSUME FaultInv, faults' <= 1, NEW p \in Procs, SetActive(p), NEW h \in Hosts, h = cmd[p].host
  PROVE  HostInv(p, h)'
<1> DEFINE d == disk[h]
           e == mem[p][h]
<1>0. /\ pc[p] = "set_active" /\ pc[p] \in Working /\ pc[p] \in Activation /\ pc[p] \notin Before
  BY DEF SetActive, Working, Labels, Before, Activation
<1>1. /\ At(p, h) /\ IInv /\ WholeInv /\ d \in Entry /\ e \in Entry /\ NoUser \notin Users /\ NoToken \in MaybeToken
      /\ PlaceInv(p, h, d, e) /\ FreshInv(p, h, d, e) /\ SwitchInv(p, h, d, e) /\ faults \in Nat
      /\ got[p] \in MaybeToken
  BY <1>0, Here
<1>2. target[p] \in Users /\ d.user \in MaybeUser /\ got[p] # NoToken /\ Owner[got[p]] = target[p]
  BY <1>0, <1>1, TargetFacts DEF Entry, PlaceInv
<1>3. UNCHANGED <<disk, cmd, mem, last, target, got, prev>>
  BY DEF SetActive
<1>4. PICK t \in MaybeToken, ok \in BOOLEAN :
        /\ t = got[p] /\ KeyringWrite(h, NoUser, t, ok)
        /\ IF ok THEN Goto(p, "activate") ELSE ActivateFails(p)
  BY <1>1 DEF SetActive, KeyringWrite
<1>5. /\ At(p, h)' <=> ok \/ cmd[p].op = "switch"
      /\ pc'[p] = (IF ok THEN "activate" ELSE IF cmd[p].op = "switch" THEN "restore_keyring" ELSE "failed")
  <2>1. pc'[p] = (IF ok THEN "activate" ELSE IF cmd[p].op = "switch" THEN "restore_keyring" ELSE "failed")
    BY <1>1, <1>4, InvParts DEF Goto, ActivateFails, ProcTypeOK
  <2> QED BY <1>3, <2>1 DEF At, Working, Labels
<1>6. /\ \A u \in Users : keyring'[h][u] = keyring[h][u]
      /\ \A l \in late' : l \in late \/ (l.slot = NoUser /\ l.val = t)
      /\ ok => keyring'[h][NoUser] = t /\ late' = late /\ faults' = faults
      /\ ~ok => faults = 0 /\ faults' = 1 /\ late = {} /\ keyring' = keyring
  BY <1>1, <1>4, UnkeyedCall
<1>7. /\ Kept(d, h) => Kept(d, h)'
      /\ Kept(e, h) => Kept(mem[p][h], h)'
  <2>1. \A g \in Entry : Kept(g, h) => Kept(g, h)'
    BY <1>1, <1>6, KeptStays
  <2> QED BY <1>1, <1>3, <2>1
<1>8. PlaceInv(p, h, disk[h], mem[p][h])'
  <2>1. CASE ok
    <3>1. Matched(NoUser, h) => Matched(target[p], h)'
      BY <1>2, <1>4, <1>6, <2>1, <1>3 DEF Matched, OnlyDeletions
    <3>2. faults = 0 => (Kept(d, h) /\ Kept(mem[p][h], h))'
      BY <1>0, <1>1, <1>3, <1>7, AllThere
    <3>3. \/ (Kept(d, h) /\ Kept(mem[p][h], h))'
          \/ faults' # 0 /\ Matched(target[p], h)'
      BY <1>0, <1>1, <1>3, <1>6, <1>7, <2>1, <3>1, <3>2 DEF PlaceInv
    <3> QED BY <1>2, <1>3, <1>5, <2>1, <3>3 DEF PlaceInv, Before
  <2>2. CASE ~ok
    <3>1. Kept(d, h)'
      BY <1>0, <1>1, <1>3, <1>6, <1>7, <2>2, AllThere
    <3> QED BY <1>3, <1>5, <2>2, <3>1 DEF PlaceInv, Before, At, Working, RestRight
  <2> QED BY <2>1, <2>2
<1>9. FreshInv(p, h, disk[h], mem[p][h])'
  <2>1. ASSUME faults' = 0 PROVE ok /\ faults = 0 /\ keyring'[h][NoUser] = got[p]
    BY <1>4, <1>6, <2>1
  <2>2. d.users \subseteq Users /\ e.users \subseteq Users
    BY <1>1 DEF Entry
  <2>3. faults' = 0 => AllStored(disk[h], h)'
    BY <1>0, <1>1, <1>3, <1>6, <2>1, <2>2 DEF FreshInv, AllStored
  <2>4. \A v \in e.users : Newest(mem[p][h], h, v)' = Newest(e, h, v)
    BY <1>3, <1>6, <2>2 DEF Newest
  <2>5. faults' = 0 => \A v \in e.users :
                            /\ Newest(e, h, v) # NoToken
                            /\ LogsIn(p) /\ v = cmd[p].user => Newest(e, h, v) = cmd[p].token
                            /\ ~LogsIn(p) \/ v # cmd[p].user => Newest(e, h, v) = last[h][v]
    BY <1>0, <1>1, <2>1 DEF FreshInv
  <2>6. faults' = 0 => got'[p] = keyring'[h][target[p]] /\ keyring'[h][NoUser] = got'[p]
    BY <1>0, <1>1, <1>2, <1>3, <1>6, <2>1 DEF FreshInv
  <2> QED BY <1>3, <1>5, <2>1, <2>3, <2>4, <2>5, <2>6 DEF FreshInv, LogsIn, Activation, Before
<1>10. SwitchInv(p, h, disk[h], mem[p][h])'
  <2>1. ASSUME NEW g \in MaybeToken, Aside(h, d.user, g), d.user # NoUser PROVE Aside(h, d.user, g)'
    BY <1>2, <1>3, <1>6, <2>1 DEF Aside, MaybeUser
  <2>2. prev[p].token \in MaybeToken
    BY <1>1, Facts
  <2>3. (faults # 0 => ok) /\ (~ok => faults' # 0) /\ (ok => faults' = faults)
    BY <1>6
  <2> QED BY <1>0, <1>1, <1>2, <1>3, <1>5, <2>1, <2>2, <2>3 DEF SwitchInv, At
<1> QED BY <1>8, <1>9, <1>10 DEF HostInv

LEMMA ActivateKeeps ==
  ASSUME FaultInv, faults' <= 1, NEW p \in Procs, Activate(p), NEW h \in Hosts, h = cmd[p].host
  PROVE  HostInv(p, h)'
<1> DEFINE d == disk[h]
           e == mem[p][h]
           t == e.tok[target[p]]
           f == SetActiveUser(e, target[p], t)
<1>0. /\ pc[p] = "activate" /\ pc[p] \in Working /\ pc[p] \in Activation /\ pc[p] \notin Before
  BY DEF Activate, Working, Labels, Before, Activation
<1>1. /\ At(p, h) /\ IInv /\ WholeInv /\ d \in Entry /\ e \in Entry /\ NoUser \notin Users
      /\ PlaceInv(p, h, d, e) /\ FreshInv(p, h, d, e) /\ SwitchInv(p, h, d, e)
      /\ keyring[h][NoUser] # NoToken => Owner[keyring[h][NoUser]] \in Users
  BY <1>0, Here
<1>2. target[p] \in Users /\ target[p] \in e.users
  BY <1>0, <1>1, TargetFacts
<1>3. UNCHANGED <<disk, cmd, last, target, got, prev, keyring, late, faults>>
  BY DEF Activate
<1>4. \A u : Matched(NoUser, h) => Matched(u, h)
  BY <1>1 DEF Matched
<1>5. /\ Kept(d, h)' <=> Kept(d, h)
      /\ \A u : Matched(u, h)' <=> Matched(u, h)
  BY <1>3 DEF Kept, KeepsSlots, AllStored, Matched, OnlyDeletions
<1>6. faults = 0 => Kept(d, h) /\ Kept(e, h)
  BY <1>0, <1>1, AllThere
<1>7. CASE got[p] = NoToken /\ t = NoToken
  <2>1. /\ pc'[p] = (IF cmd[p].op = "switch" THEN "restore_keyring" ELSE "failed")
        /\ mem' = mem
    BY <1>1, <1>7, InvParts DEF Activate, Goto, ActivateFails, ProcTypeOK
  <2>2. At(p, h)' <=> cmd[p].op = "switch"
    BY <1>3, <2>1 DEF At, Working, Labels
  <2>3. faults # 0
    BY <1>0, <1>1, <1>2, <1>7 DEF FreshInv, Newest, Activation
  <2>4. RestRight(h)'
    BY <1>0, <1>1, <1>3, <1>4, <1>5, <1>7 DEF PlaceInv, RestRight
  <2>5. PlaceInv(p, h, disk[h], mem[p][h])'
    BY <1>3, <2>1, <2>2, <2>4 DEF PlaceInv, Before
  <2>6. FreshInv(p, h, disk[h], mem[p][h])'
    BY <1>3, <2>3 DEF FreshInv
  <2>7. SwitchInv(p, h, disk[h], mem[p][h])'
    <3>1. cmd[p].op = "switch" => prev[p].src = "oauth_token" \/ Aside(h, d.user, prev[p].token)
      BY <1>0, <1>1, <1>7 DEF SwitchInv
    <3>2. Aside(h, d.user, prev[p].token) => Aside(h, disk[h].user, prev[p].token)'
      BY <1>3 DEF Aside
    <3> QED BY <1>0, <1>1, <1>3, <2>1, <2>2, <2>3, <3>1 DEF SwitchInv, Aside
  <2> QED BY <2>5, <2>6, <2>7 DEF HostInv
<1>8. CASE ~(got[p] = NoToken /\ t = NoToken)
  <2>1. f.users = e.users /\ f.user = target[p] /\ f.tok = e.tok
    BY <1>1, <1>2, Facts, SetActiveUserIs DEF MaybeUser
  <2>2. mem'[p][h] = f /\ pc'[p] = "write" /\ At(p, h)'
    <3>1. mem' = [mem EXCEPT ![p][h] = SetActiveUser(@, target[p], t)]
      BY <1>8 DEF Activate
    <3>2. mem'[p][h] = f
      BY <1>1, <3>1, Facts DEF HostsFile
    <3>3. pc'[p] = "write"
      BY <1>1, <1>8, InvParts DEF Activate, Goto, ProcTypeOK
    <3> QED BY <1>3, <3>2, <3>3 DEF At, Working, Labels
  <2> HIDE DEF f
  <2>3. Kept(mem[p][h], h)' <=> Kept(e, h)
    BY <1>3, <2>1, <2>2 DEF Kept, KeepsSlots, AllStored
  <2>4. PlaceInv(p, h, disk[h], mem[p][h])'
    <3>1. faults = 0 => RestRight(h)'
      BY <1>3, <1>5, <1>6 DEF RestRight
    <3>2. Kept(e, h) \/ (faults # 0 /\ Matched(target[p], h))
      BY <1>0, <1>1, <1>4, <1>6 DEF PlaceInv
    <3> QED BY <1>3, <1>5, <2>1, <2>2, <2>3, <3>1, <3>2 DEF PlaceInv, Before
  <2>5. FreshInv(p, h, disk[h], mem[p][h])'
    <3>1. \A v : Newest(mem[p][h], h, v)' = Newest(e, h, v)
      BY <1>3, <2>1, <2>2 DEF Newest
    <3>2. faults = 0 => Copied(mem[p][h].user, h)'
      BY <1>0, <1>1, <1>3, <2>1, <2>2 DEF FreshInv, Copied
    <3> QED BY <1>0, <1>1, <1>3, <2>1, <2>2, <3>1, <3>2 DEF FreshInv, LogsIn, Activation, Before
  <2>6. SwitchInv(p, h, disk[h], mem[p][h])'
    BY <1>0, <1>1, <1>3, <2>2 DEF SwitchInv, Aside
  <2> QED BY <2>4, <2>5, <2>6 DEF HostInv
<1> QED BY <1>7, <1>8

LEMMA WriteKeeps ==
  ASSUME FaultInv, faults' <= 1, NEW p \in Procs, Write(p), NEW h \in Hosts, h = cmd[p].host
  PROVE  HostInv(p, h)'
<1> DEFINE d == disk[h]
           e == mem[p][h]
<1>0. /\ pc[p] = "write" /\ pc[p] \in Working /\ pc[p] \notin Activation /\ pc[p] \notin Before
  BY DEF Write, Working, Labels, Before, Activation
<1>1. /\ At(p, h) /\ IInv /\ WholeInv /\ CopyInv(p) /\ e \in Entry /\ cmd[p].user \in Users /\ faults \in Nat
      /\ PlaceInv(p, h, d, e) /\ FreshInv(p, h, d, e) /\ SwitchInv(p, h, d, e)
  BY <1>0, Here
<1>2. UNCHANGED <<keyring, late, cmd, mem, target, got, prev>>
  BY DEF Write
<1>3. CASE disk' = mem[p] /\ last' = LastAfterWrite(p) /\ Goto(p, "done") /\ UNCHANGED faults
  <2>1. ~At(p, h)' /\ disk'[h] = e
    BY <1>1, <1>3, InvParts DEF Goto, ProcTypeOK, At, Working
  <2>2. RestRight(h)'
    <3>1. (Kept(disk[h], h)' <=> Kept(e, h)) /\ (Matched(disk[h].user, h)' <=> Matched(e.user, h))
      BY <1>2, <2>1 DEF Kept, KeepsSlots, AllStored, Matched, OnlyDeletions
    <3> QED BY <1>0, <1>1, <3>1 DEF PlaceInv, RestRight
  <2>3. faults' = 0 => FreshRest(h)'
    <3>1. /\ cmd[p].op \in {"login", "refresh", "switch", "logout"}
          /\ cmd[p].op = "logout" => cmd[p].user \notin e.users
      BY <1>0, <1>1, Here DEF CopyInv, AccountsInv
    <3>2. last \in [Hosts -> [Users -> MaybeToken]] /\ e.users \subseteq Users
      BY <1>1 DEF IInv, TypeOK, Entry
    <3>3. \A v \in e.users : LogsIn(p) /\ v = cmd[p].user => last'[h][v] = cmd[p].token
      BY <1>1, <1>3, <3>1, <3>2 DEF LastAfterWrite, LogsIn
    <3>4. \A v \in e.users : ~LogsIn(p) \/ v # cmd[p].user => last'[h][v] = last[h][v]
      BY <1>1, <1>3, <3>1, <3>2 DEF LastAfterWrite, LogsIn
    <3>5. \A v \in e.users : Newest(disk[h], h, v)' = Newest(e, h, v)
      BY <1>2, <2>1 DEF Newest
    <3>6. faults' = 0 => Copied(disk[h].user, h)'
      BY <1>0, <1>1, <1>2, <1>3, <2>1 DEF FreshInv, Copied
    <3>7. faults' = 0 => \A v \in e.users :
                            /\ Newest(e, h, v) # NoToken
                            /\ LogsIn(p) /\ v = cmd[p].user => Newest(e, h, v) = cmd[p].token
                            /\ ~LogsIn(p) \/ v # cmd[p].user => Newest(e, h, v) = last[h][v]
      BY <1>0, <1>1, <1>3 DEF FreshInv
    <3> QED BY <2>1, <3>3, <3>4, <3>5, <3>6, <3>7 DEF FreshRest
  <2> QED BY <2>1, <2>2, <2>3 DEF HostInv, PlaceInv, FreshInv, SwitchInv
<1>4. CASE WriteFails(p)
  <2>1. faults = 0 /\ faults' = 1 /\ disk' = disk /\ pc'[p] = (IF cmd[p].op = "switch" THEN "restore_keyring" ELSE "failed")
    BY <1>1, <1>4, InvParts DEF WriteFails, ActivateFails, Goto, Fault, ProcTypeOK
  <2>2. At(p, h)' <=> cmd[p].op = "switch"
    BY <1>2, <2>1 DEF At, Working, Labels
  <2>3. RestRight(h)'
    BY <1>0, <1>1, <1>2, <2>1 DEF PlaceInv, RestRight, Kept, KeepsSlots, AllStored, Matched, OnlyDeletions
  <2>4. PlaceInv(p, h, disk[h], mem[p][h])'
    BY <1>2, <2>1, <2>2, <2>3 DEF PlaceInv, Before
  <2>5. SwitchInv(p, h, disk[h], mem[p][h])'
    BY <1>0, <1>1, <1>2, <2>1, <2>2 DEF SwitchInv, Aside
  <2> QED BY <2>1, <2>4, <2>5 DEF HostInv, FreshInv
<1> QED BY <1>3, <1>4 DEF Write

LEMMA PrevFromUserSlotKeeps ==
  ASSUME FaultInv, faults' <= 1, NEW p \in Procs, PrevFromUserSlot(p), NEW h \in Hosts, h = cmd[p].host
  PROVE  HostInv(p, h)'
<1> DEFINE d == disk[h]
<1>0. /\ pc[p] = "prev_user" /\ pc[p] \in Working /\ pc[p] \in Before
  BY DEF PrevFromUserSlot, Working, Labels, Before
<1>1. /\ At(p, h) /\ IInv /\ WholeInv /\ Whole(d) /\ d \in Entry /\ faults \in Nat /\ NoUser \notin Users
      /\ RestRight(h) /\ (faults = 0 => FreshRest(h) /\ late = {}) /\ SwitchInv(p, h, d, mem[p][h])
      /\ \A u \in Users : keyring[h][u] # NoToken => Owner[keyring[h][u]] = u
  BY <1>0, Here DEF PlaceInv, FreshInv
<1>2. cmd[p].op = "switch" /\ mem[p][h] = d
  BY <1>0, Here DEF CopyInv, AccountsInv
<1>3. prev[p].user = d.user /\ d.user \in d.users /\ d.user \in Users /\ d.token = NoToken /\ d.tok[d.user] = NoToken
  BY <1>0, <1>1, <1>2 DEF SwitchInv, Whole, Entry
<1>4. UNCHANGED <<disk, cmd, mem, last, target, got, keyring, late>>
  BY DEF PrevFromUserSlot, KeyringRead
<1>5. PICK r \in MaybeToken :
        /\ (r = keyring[h][d.user] /\ faults' = faults) \/ (r = NoToken /\ faults = 0 /\ faults' = 1)
        /\ IF r # NoToken
           THEN /\ prev' = [prev EXCEPT ![p].token = r, ![p].src = "keyring"]
                /\ pc' = [pc EXCEPT ![p] = "clear_active"]
           ELSE pc' = [pc EXCEPT ![p] = "prev_active"] /\ UNCHANGED prev
  <2>1. Fault("error") \/ Fault("timeout") => faults = 0 /\ faults' = 1
    BY <1>1 DEF Fault
  <2>2. PICK r \in MaybeToken :
          /\ (r = keyring[h][prev[p].user] /\ faults' = faults) \/ (r = NoToken /\ (Fault("error") \/ Fault("timeout")))
          /\ IF r # NoToken
             THEN /\ prev' = [prev EXCEPT ![p].token = r, ![p].src = "keyring"]
                  /\ pc' = [pc EXCEPT ![p] = "clear_active"]
             ELSE pc' = [pc EXCEPT ![p] = "prev_active"] /\ UNCHANGED prev
    BY DEF PrevFromUserSlot, KeyringRead, Goto
  <2> QED BY <1>3, <2>1, <2>2
<1>6. /\ RestRight(h)' /\ (Kept(d, h)' <=> Kept(d, h)) /\ (Kept(mem[p][h], h)' <=> Kept(d, h))
      /\ \A u : Matched(u, h)' <=> Matched(u, h)
  BY <1>1, <1>2, <1>4 DEF RestRight, Kept, KeepsSlots, AllStored, Matched, OnlyDeletions
<1>7. CASE r # NoToken
  <2>1. /\ pc'[p] = "clear_active" /\ At(p, h)' /\ r = keyring[h][d.user] /\ faults' = faults
        /\ prev'[p].token = r /\ prev'[p].src = "keyring" /\ prev'[p].user = d.user
    <3>1. pc'[p] = "clear_active" /\ prev'[p].token = r /\ prev'[p].src = "keyring" /\ prev'[p].user = prev[p].user
      BY <1>1, <1>5, <1>7, InvParts DEF ProcTypeOK
    <3> QED BY <1>3, <1>4, <1>5, <1>7, <3>1 DEF At, Working, Labels
  <2>2. PlaceInv(p, h, disk[h], mem[p][h])'
    BY <1>1, <1>4, <1>6, <2>1 DEF PlaceInv, RestRight, Before
  <2>3. FreshInv(p, h, disk[h], mem[p][h])'
    <3>1. faults = 0 => AllStored(disk[h], h)'
      BY <1>1, <1>4 DEF FreshRest, AllStored, Newest
    <3>2. \A v : Newest(mem[p][h], h, v)' = Newest(d, h, v)
      BY <1>2, <1>4 DEF Newest
    <3> QED BY <1>1, <1>2, <1>4, <2>1, <3>1, <3>2 DEF FreshInv, FreshRest, LogsIn, Activation, Before
  <2>4. SwitchInv(p, h, disk[h], mem[p][h])'
    <3>1. faults # 0 => Kept(d, h) \/ OnlyDeletions(h)
      BY <1>1 DEF RestRight, Matched
    <3>2. late = {} \/ OnlyDeletions(h) => Aside(h, disk[h].user, prev[p].token)'
      BY <1>3, <1>4, <2>1 DEF OnlyDeletions, Aside
    <3>3. prev'[p].token # NoToken /\ Owner[prev'[p].token] = d.user
      BY <1>1, <1>3, <1>7, <2>1
    <3> QED BY <1>1, <1>3, <1>4, <1>6, <2>1, <3>1, <3>2, <3>3 DEF SwitchInv
  <2> QED BY <2>2, <2>3, <2>4 DEF HostInv
<1>8. CASE r = NoToken
  <2>1. pc'[p] = "prev_active" /\ At(p, h)' /\ prev' = prev
    <3>1. pc'[p] = "prev_active" /\ prev' = prev
      BY <1>1, <1>5, <1>8, InvParts DEF ProcTypeOK
    <3> QED BY <1>4, <3>1 DEF At, Working, Labels
  <2>2. PlaceInv(p, h, disk[h], mem[p][h])'
    BY <1>6, <2>1 DEF PlaceInv, Before
  <2>3. FreshInv(p, h, disk[h], mem[p][h])'
    <3>1. faults' = 0 => FreshRest(h)'
      BY <1>1, <1>4, <1>5 DEF FreshRest, Newest, Copied
    <3> QED BY <2>1, <3>1 DEF FreshInv, Activation
  <2>4. SwitchInv(p, h, disk[h], mem[p][h])'
    <3>1. CASE keyring[h][d.user] = NoToken
      <4>1. ~Kept(d, h)
        BY <1>3, <3>1 DEF Kept, AllStored
      <4>2. OnlyDeletions(h)' /\ keyring'[h][disk'[h].user] = NoToken
        BY <1>1, <1>4, <3>1, <4>1 DEF RestRight, Matched, OnlyDeletions
      <4> QED BY <1>1, <1>3, <1>4, <2>1, <4>2 DEF SwitchInv
    <3>2. CASE keyring[h][d.user] # NoToken
      <4>1. late' = {} /\ keyring'[h][NoUser] = keyring'[h][disk'[h].user]
        BY <1>1, <1>3, <1>4, <1>5, <1>8, <3>2 DEF FreshRest, Copied
      <4> QED BY <1>1, <1>3, <1>4, <2>1, <4>1 DEF SwitchInv, OnlyDeletions
    <3> QED BY <3>1, <3>2
  <2> QED BY <2>2, <2>3, <2>4 DEF HostInv
<1> QED BY <1>7, <1>8

LEMMA PrevFromActiveSlotKeeps ==
  ASSUME FaultInv, faults' <= 1, NEW p \in Procs, PrevFromActiveSlot(p), NEW h \in Hosts, h = cmd[p].host
  PROVE  HostInv(p, h)'
<1> DEFINE d == disk[h]
<1>0. /\ pc[p] = "prev_active" /\ pc[p] \in Working /\ pc[p] \in Before
  BY DEF PrevFromActiveSlot, Working, Labels, Before
<1>1. /\ At(p, h) /\ IInv /\ WholeInv /\ d \in Entry /\ faults \in Nat /\ NoUser \notin Users
      /\ RestRight(h) /\ (faults = 0 => FreshRest(h) /\ late = {}) /\ SwitchInv(p, h, d, mem[p][h])
      /\ \A u \in Users : keyring[h][u] # NoToken => Owner[keyring[h][u]] = u
  BY <1>0, Here DEF PlaceInv, FreshInv
<1>2. cmd[p].op = "switch" /\ mem[p][h] = d
  BY <1>0, Here DEF CopyInv, AccountsInv
<1>3. /\ prev[p].user = d.user /\ d.user \in d.users /\ d.user \in Users /\ d.token = NoToken /\ d.tok[d.user] = NoToken
      /\ OnlyDeletions(h) /\ (keyring[h][d.user] = NoToken \/ keyring[h][NoUser] = keyring[h][d.user])
  <2>1. Whole(d)
    BY <1>0, Here
  <2> QED BY <1>0, <1>1, <1>2, <2>1 DEF SwitchInv, Whole, Entry
<1>4. UNCHANGED <<disk, cmd, mem, last, target, got, keyring, late>>
  BY DEF PrevFromActiveSlot, KeyringRead
<1>5. PICK r \in MaybeToken :
        /\ (r = keyring[h][NoUser] /\ faults' = faults) \/ (r = NoToken /\ faults = 0 /\ faults' = 1)
        /\ IF r # NoToken
           THEN /\ prev' = [prev EXCEPT ![p].token = r, ![p].src = "keyring"]
                /\ pc' = [pc EXCEPT ![p] = "clear_active"]
           ELSE pc' = [pc EXCEPT ![p] = "failed"] /\ UNCHANGED prev
  <2>1. Fault("error") \/ Fault("timeout") => faults = 0 /\ faults' = 1
    BY <1>1 DEF Fault
  <2>2. PICK r \in MaybeToken :
          /\ (r = keyring[h][NoUser] /\ faults' = faults) \/ (r = NoToken /\ (Fault("error") \/ Fault("timeout")))
          /\ IF r # NoToken
             THEN /\ prev' = [prev EXCEPT ![p].token = r, ![p].src = "keyring"]
                  /\ pc' = [pc EXCEPT ![p] = "clear_active"]
             ELSE pc' = [pc EXCEPT ![p] = "failed"] /\ UNCHANGED prev
    BY DEF PrevFromActiveSlot, KeyringRead, Goto
  <2> QED BY <2>1, <2>2
<1>6. /\ RestRight(h)' /\ (Kept(d, h)' <=> Kept(d, h)) /\ (Kept(mem[p][h], h)' <=> Kept(d, h))
      /\ \A u : Matched(u, h)' <=> Matched(u, h)
  BY <1>1, <1>2, <1>4 DEF RestRight, Kept, KeepsSlots, AllStored, Matched, OnlyDeletions
<1>7. CASE r # NoToken
  <2>1. /\ pc'[p] = "clear_active" /\ At(p, h)' /\ r = keyring[h][NoUser] /\ faults' = faults
        /\ prev'[p].token = r /\ prev'[p].src = "keyring" /\ prev'[p].user = d.user
    <3>1. pc'[p] = "clear_active" /\ prev'[p].token = r /\ prev'[p].src = "keyring" /\ prev'[p].user = prev[p].user
      BY <1>1, <1>5, <1>7, InvParts DEF ProcTypeOK
    <3> QED BY <1>3, <1>4, <1>5, <1>7, <3>1 DEF At, Working, Labels
  <2>2. PlaceInv(p, h, disk[h], mem[p][h])'
    BY <1>1, <1>4, <1>6, <2>1 DEF PlaceInv, RestRight, Before
  <2>3. FreshInv(p, h, disk[h], mem[p][h])'
    <3>1. faults = 0 => AllStored(disk[h], h)'
      BY <1>1, <1>4 DEF FreshRest, AllStored, Newest
    <3>2. \A v : Newest(mem[p][h], h, v)' = Newest(d, h, v)
      BY <1>2, <1>4 DEF Newest
    <3> QED BY <1>1, <1>2, <1>4, <2>1, <3>1, <3>2 DEF FreshInv, FreshRest, LogsIn, Activation, Before
  <2>4. SwitchInv(p, h, disk[h], mem[p][h])'
    <3>1. Owner[r] = d.user
      BY <1>1, <1>3, <1>7, <2>1 DEF RestRight, Kept, AllStored, Matched
    <3>2. Aside(h, disk[h].user, prev[p].token)'
      BY <1>3, <1>4, <2>1 DEF OnlyDeletions, Aside
    <3> QED BY <1>1, <1>3, <1>4, <1>7, <2>1, <3>1, <3>2 DEF SwitchInv
  <2> QED BY <2>2, <2>3, <2>4 DEF HostInv
<1>8. CASE r = NoToken
  <2>1. ~At(p, h)'
    BY <1>1, <1>5, <1>8, InvParts DEF ProcTypeOK, At, Working
  <2>2. faults' = 0 => FreshRest(h)'
    BY <1>1, <1>4, <1>5 DEF FreshRest, Newest, Copied
  <2> QED BY <1>6, <2>1, <2>2 DEF HostInv, PlaceInv, FreshInv, SwitchInv
<1> QED BY <1>7, <1>8

\* A switch that failed puts its token back: what failed was the only fault.
LEMMA RestorePreviousKeeps ==
  ASSUME FaultInv, faults' <= 1, NEW p \in Procs, RestorePrevious(p), NEW h \in Hosts, h = cmd[p].host
  PROVE  HostInv(p, h)' /\ disk' = disk /\ ActiveToken(disk', keyring', h) = prev[p].token
<1> DEFINE d == disk[h]
<1>0. /\ pc[p] = "restore_keyring" /\ pc[p] \in Working
  BY DEF RestorePrevious, Working, Labels
<1>1. /\ IInv /\ WholeInv /\ d \in Entry /\ NoUser \notin Users /\ RestRight(h) /\ faults \in Nat
      /\ prev[p].token \in MaybeToken /\ NoToken \in MaybeToken
  BY <1>0, Here DEF PlaceInv
<1>2. cmd[p].op = "switch" /\ At(p, h)
  BY <1>0, Here DEF PlaceInv
<1>3. /\ faults # 0 /\ d.user # NoUser /\ prev[p].token # NoToken
      /\ \/ prev[p].src = "oauth_token" /\ prev[p].token = d.token
         \/ /\ prev[p].src = "keyring" /\ d.token = NoToken /\ Owner[prev[p].token] = d.user
            /\ Aside(h, d.user, prev[p].token)
  <2>1. SwitchInv(p, h, d, mem[p][h])
    BY <1>0, Here
  <2> QED BY <1>0, <1>2, <2>1 DEF SwitchInv
<1>4. UNCHANGED <<disk, cmd, last>> /\ ~At(p, h)' /\ d.user \in Users
  BY <1>1, <1>3, InvParts DEF RestorePrevious, Goto, ProcTypeOK, At, Working, Entry, MaybeUser
<1>5. CASE prev[p].src = "oauth_token"
  <2>1. UNCHANGED <<keyring, late, faults>>
    BY <1>5 DEF RestorePrevious
  <2>2. RestRight(h)'
    BY <1>1, <1>4, <2>1 DEF RestRight, Kept, KeepsSlots, AllStored, Matched, OnlyDeletions
  <2> QED BY <1>3, <1>4, <1>5, <2>1, <2>2 DEF HostInv, PlaceInv, FreshInv, SwitchInv, ActiveToken
<1>6. CASE prev[p].src = "keyring"
  <2>1. PICK t \in MaybeToken, ok \in BOOLEAN : t = prev[p].token /\ KeyringWrite(h, NoUser, t, ok)
    BY <1>1, <1>6 DEF RestorePrevious, KeyringWrite
  <2>2. /\ \A u \in Users : keyring'[h][u] = keyring[h][u]
        /\ keyring'[h][NoUser] = t /\ late' = late /\ faults' = faults
    BY <1>1, <1>3, <2>1, UnkeyedCall
  <2>3. RestRight(h)'
    <3>1. \A e \in Entry : Kept(e, h) => Kept(e, h)'
      BY <1>1, <2>2, KeptStays
    <3>2. Kept(d, h) => Kept(d, h)'
      BY <1>1, <1>4, <3>1
    <3>3. Matched(d.user, h) => Matched(d.user, h)'
      BY <1>3, <1>4, <1>6, <2>1, <2>2 DEF Matched, OnlyDeletions
    <3> QED BY <1>1, <1>4, <3>2, <3>3 DEF RestRight
  <2>4. ActiveToken(disk', keyring', h) = prev[p].token
    BY <1>3, <1>4, <1>6, <2>1, <2>2 DEF ActiveToken, Aside
  <2> QED BY <1>3, <1>4, <2>2, <2>3, <2>4 DEF HostInv, PlaceInv, FreshInv, SwitchInv
<1> QED BY <1>3, <1>5, <1>6

LEMMA DeleteActiveSlotKeeps ==
  ASSUME FaultInv, faults' <= 1, NEW p \in Procs, DeleteActiveSlot(p), NEW h \in Hosts, h = cmd[p].host
  PROVE  HostInv(p, h)'
<1> DEFINE d == disk[h]
<1>0. /\ pc[p] = "del_active" /\ pc[p] \in Working /\ pc[p] \in Before
  BY DEF DeleteActiveSlot, Working, Labels, Before
<1>1. /\ At(p, h) /\ IInv /\ WholeInv /\ d \in Entry /\ NoUser \notin Users /\ RestRight(h) /\ NoToken \in MaybeToken
  BY <1>0, Here DEF PlaceInv
<1>2. cmd[p].op = "logout"
  BY <1>0, Here DEF CopyInv, AccountsInv
<1>3. UNCHANGED <<disk, cmd, mem, last>> /\ pc'[p] = "del_user" /\ At(p, h)'
  BY <1>1, InvParts DEF DeleteActiveSlot, Goto, ProcTypeOK, At, Working, Labels
<1>4. PICK ok \in BOOLEAN : KeyringWrite(h, NoUser, NoToken, ok)
  BY DEF DeleteActiveSlot, KeyringWrite
<1>5. /\ \A u \in Users : keyring'[h][u] = keyring[h][u]
      /\ \A l \in late' : l \in late \/ (l.slot = NoUser /\ l.val = NoToken)
      /\ ok => keyring'[h][NoUser] = NoToken /\ late' = late /\ faults' = faults
      /\ ~ok => faults = 0 /\ faults' = 1 /\ late = {} /\ keyring' = keyring
  BY <1>1, <1>4, UnkeyedCall
<1>6. Kept(d, h) => Kept(d, h)'
  <2>1. \A g \in Entry : Kept(g, h) => Kept(g, h)'
    BY <1>1, <1>5, KeptStays
  <2> QED BY <1>1, <1>3, <2>1
<1>7. Kept(disk[h], h)' \/ Matched(NoUser, h)'
  <2>1. ~ok => Kept(d, h)
    BY <1>0, <1>1, <1>5, AllThere
  <2>2. ok /\ Matched(d.user, h) => Matched(NoUser, h)'
    BY <1>5 DEF Matched, OnlyDeletions
  <2> QED BY <1>1, <1>3, <1>6, <2>1, <2>2 DEF RestRight
<1>8. PlaceInv(p, h, disk[h], mem[p][h])'
  BY <1>3, <1>7 DEF PlaceInv, Before
<1>9. FreshInv(p, h, disk[h], mem[p][h])'
  BY <1>3, <1>5 DEF FreshInv, Before, Activation
<1> QED BY <1>2, <1>3, <1>8, <1>9 DEF HostInv, SwitchInv

LEMMA DeleteUserSlotKeeps ==
  ASSUME FaultInv, faults' <= 1, NEW p \in Procs, DeleteUserSlot(p), NEW h \in Hosts, h = cmd[p].host
  PROVE  HostInv(p, h)'
<1> DEFINE d == disk[h]
<1>0. /\ pc[p] = "del_user" /\ pc[p] \in Working
  BY DEF DeleteUserSlot, Working, Labels
<1>1. /\ At(p, h) /\ IInv /\ WholeInv /\ NoUser \notin Users /\ NoToken \in MaybeToken /\ NoUser \in Slots
      /\ (faults = 0 => late = {}) /\ PlaceInv(p, h, d, mem[p][h]) /\ FreshInv(p, h, d, mem[p][h])
  BY <1>0, Here
<1>2. cmd[p].op = "logout" /\ mem[p][h] = NoEntry
  BY <1>0, Here DEF CopyInv, AccountsInv
<1>3. UNCHANGED <<disk, cmd, mem, last>> /\ pc'[p] = "write" /\ At(p, h)'
  BY <1>1, InvParts DEF DeleteUserSlot, Goto, ProcTypeOK, At, Working, Labels
<1>4. PICK u \in Users, ok \in BOOLEAN : u = cmd[p].user /\ KeyringWrite(h, u, NoToken, ok)
  BY <1>0, Here DEF DeleteUserSlot, KeyringWrite
<1>5. keyring'[h][NoUser] = keyring[h][NoUser] /\ (OnlyDeletions(h) => OnlyDeletions(h)')
  <2>1. CASE ok
    <3>1. keyring' = [keyring EXCEPT ![h][u] = NoToken] /\ late' = late
      BY <1>4, <2>1 DEF KeyringWrite
    <3> QED BY <1>1, <1>4, <3>1 DEF OnlyDeletions, IInv, TypeOK
  <2>2. CASE ~ok
    <3>1. keyring' = keyring /\ \A l \in late' : l.val = NoToken
      BY <1>1, <1>4, <2>2, Refused DEF Slots, MaybeUser
    <3> QED BY <3>1 DEF OnlyDeletions
  <2> QED BY <2>1, <2>2
<1>6. /\ ok => late' = late /\ faults' = faults
      /\ ~ok => faults = 0 /\ faults' = 1 /\ \A l \in late' : l.val = NoToken
  <2>1. ok => late' = late /\ faults' = faults
    BY <1>4 DEF KeyringWrite
  <2>2. ~ok => faults = 0 /\ faults' = 1 /\ \A l \in late' : l.val = NoToken
    BY <1>1, <1>4, Refused DEF Slots, MaybeUser
  <2> QED BY <2>1, <2>2
<1>7. faults = 0 => keyring[h][NoUser] = NoToken
  BY <1>0, <1>1 DEF FreshInv
<1>8. PlaceInv(p, h, disk[h], mem[p][h])'
  <2>1. NoEntry.user = NoUser /\ NoEntry.users = {}
    BY DEF NoEntry
  <2>2. faults = 0 => OnlyDeletions(h)' /\ keyring'[h][NoUser] = NoToken
    BY <1>1, <1>5, <1>6, <1>7 DEF OnlyDeletions
  <2>3. faults' = 0 => RestRight(h)' /\ Kept(mem[p][h], h)'
    BY <1>1, <1>2, <1>3, <1>6, <2>1, <2>2 DEF RestRight, Matched, Kept, KeepsSlots, AllStored
  <2>4. faults' # 0 /\ faults = 0 => Matched(mem[p][h].user, h)'
    BY <1>2, <1>3, <2>1, <2>2 DEF Matched
  <2>5. faults # 0 => Kept(mem[p][h], h)' \/ Matched(mem[p][h].user, h)'
    <3>1. faults # 0 => ok /\ late' = late
      BY <1>6
    <3>2. Kept(d, h) /\ late' = late => Kept(mem[p][h], h)'
      BY <1>2, <1>3, <2>1 DEF Kept, KeepsSlots, AllStored
    <3>3. Matched(NoUser, h) => Matched(mem[p][h].user, h)'
      BY <1>2, <1>3, <1>5, <2>1 DEF Matched
    <3> QED BY <1>0, <1>1, <3>1, <3>2, <3>3 DEF PlaceInv
  <2>6. faults' = 0 => faults = 0
    BY <1>6
  <2> QED BY <1>3, <2>3, <2>4, <2>5, <2>6 DEF PlaceInv, Before
<1>9. FreshInv(p, h, disk[h], mem[p][h])'
  <2>1. NoEntry.user = NoUser /\ NoEntry.users = {}
    BY DEF NoEntry
  <2> QED BY <1>2, <1>3, <2>1 DEF FreshInv, Before, Activation, Copied
<1> QED BY <1>2, <1>3, <1>8, <1>9 DEF HostInv, SwitchInv

\* A command begins: it has the file as it is, less the account it logs out.
LEMMA BeginKeeps ==
  ASSUME FaultInv, NEW p \in Procs, Begin(p), NEW h \in Hosts
  PROVE  HostInv(p, h)'
<1> DEFINE d == disk[h]
<1>1. /\ IInv /\ WholeInv /\ RunInv /\ Whole(d) /\ d \in Entry /\ NoUser \notin Users /\ ProcTypeOK
      /\ d.users \subseteq Users
  BY InvParts, ConstantsAssumption DEF FaultInv, RunInv, WholeInv, IInv, TypeOK, HostsFile, Entry
<1>2. pc[p] = "ready" /\ UNCHANGED <<disk, keyring, late, faults, last, got>>
  BY DEF Begin, BeginLogin, BeginRefresh, EnterLogin, BeginSwitch, BeginLogout
<1>3. RestRight(h) /\ (faults = 0 => FreshRest(h)) /\ mem[p] = disk
  <2>1. ~At(p, h)
    BY <1>2 DEF At, Working
  <2> QED BY <1>1, <1>2, <2>1 DEF FaultInv, RunInv, HostInv, PlaceInv, FreshInv, CopyInv, RestInv
<1>4. /\ RestRight(h)' /\ (faults' = 0 => FreshRest(h)')
      /\ Kept(d, h)' <=> Kept(d, h)
      /\ \A u : Matched(u, h)' <=> Matched(u, h)
  BY <1>2, <1>3 DEF RestRight, Kept, KeepsSlots, AllStored, Matched, OnlyDeletions, FreshRest, Newest, Copied
<1>5. ASSUME ~At(p, h)' PROVE HostInv(p, h)'
  BY <1>4, <1>5 DEF HostInv, PlaceInv, FreshInv, SwitchInv
<1>6. ASSUME NEW g \in Hosts, NEW t \in Tokens, NEW s \in BOOLEAN, BeginLogin(p, g, t, s) \/ BeginRefresh(p, g, t, s)
      PROVE  HostInv(p, h)'
  <2>1. cmd'[p].op \in {"login", "refresh"} /\ pc'[p] \in {"login_keyring", "login_insecure"}
    BY <1>1, <1>6 DEF BeginLogin, BeginRefresh, EnterLogin, Run, Goto, ProcTypeOK
  <2> QED BY <1>4, <2>1 DEF HostInv, PlaceInv, FreshInv, SwitchInv, Before, Activation
<1>7. ASSUME NEW g \in Hosts, NEW u \in Users, BeginSwitch(p, g, u)
      PROVE  HostInv(p, h)'
  <2>1. /\ cmd'[p].op = "switch" /\ cmd'[p].host = g /\ mem' = mem
        /\ prev'[p].user = disk[g].user /\ prev'[p].token = disk[g].token
        /\ disk[g].token # NoToken => prev'[p].src = "oauth_token"
        /\ pc'[p] = (IF disk[g].user = NoUser THEN "failed" ELSE IF disk[g].token # NoToken THEN "clear_active" ELSE "prev_user")
    BY <1>1, <1>3, <1>7 DEF BeginSwitch, Run, Goto, ProcTypeOK
  <2>2. CASE g = h /\ disk[g].user # NoUser
    <3>1. At(p, h)' /\ mem'[p][h] = d /\ disk'[h] = d
      BY <1>2, <1>3, <2>1, <2>2 DEF At, Working, Labels
    <3>2. PlaceInv(p, h, disk[h], mem[p][h])'
      <4>1. Kept(mem[p][h], h)' <=> Kept(d, h)
        BY <1>2, <3>1 DEF Kept, KeepsSlots, AllStored
      <4> QED BY <1>3, <1>4, <2>1, <2>2, <3>1, <4>1 DEF PlaceInv, RestRight, Before
    <3>3. FreshInv(p, h, disk[h], mem[p][h])'
      <4>1. faults = 0 => AllStored(disk[h], h)'
        BY <1>2, <1>3 DEF FreshRest, AllStored, Newest
      <4>2. \A v : Newest(mem[p][h], h, v)' = Newest(d, h, v)
        BY <1>2, <3>1 DEF Newest
      <4> QED BY <1>2, <1>3, <1>4, <2>1, <2>2, <3>1, <4>1, <4>2 DEF FreshInv, FreshRest, LogsIn, Activation, Before
    <3>4. SwitchInv(p, h, disk[h], mem[p][h])'
      BY <1>2, <2>1, <2>2, <3>1 DEF SwitchInv
    <3> QED BY <3>2, <3>3, <3>4 DEF HostInv
  <2>3. CASE g # h \/ disk[g].user = NoUser
    <3>1. ~At(p, h)'
      BY <2>1, <2>3 DEF At, Working
    <3> QED BY <1>5, <3>1
  <2> QED BY <2>2, <2>3
<1>8. ASSUME NEW g \in Hosts, NEW u \in Users, BeginLogout(p, g, u)
      PROVE  HostInv(p, h)'
  <2>1. cmd'[p].op = "logout" /\ cmd'[p].host = g /\ u \in disk[g].users
    BY <1>1, <1>3, <1>8 DEF BeginLogout, Run, ProcTypeOK
  <2>2. SwitchInv(p, h, disk[h], mem[p][h])'
    BY <2>1 DEF SwitchInv
  <2>3. CASE g # h
    <3>1. ~At(p, h)'
      BY <2>1, <2>3 DEF At
    <3> QED BY <1>5, <3>1
  <2>4. CASE g = h /\ d.users = {u}
    <3>1. pc'[p] = "del_active"
      BY <1>1, <1>3, <1>8, <2>4 DEF BeginLogout, Goto, ProcTypeOK
    <3> QED BY <1>4, <2>2, <3>1 DEF HostInv, PlaceInv, FreshInv, Before, Activation
  <2>5. CASE g = h /\ d.users # {u}
    <3> DEFINE f == RemoveUser(d, u)
    <3>1. /\ f.users = d.users \ {u} /\ f.user = d.user
          /\ \A v \in Users \ {u} : f.tok[v] = d.tok[v]
      BY <1>1, RemoveUserIs
    <3>2. mem'[p][h] = f
      BY <1>1, <1>3, <1>8, <2>5 DEF BeginLogout, ProcTypeOK, HostsFile
    <3>3. pc'[p] = (IF d.user # u THEN "write" ELSE "clear_active")
      BY <1>1, <1>3, <1>8, <2>5 DEF BeginLogout, Goto, ProcTypeOK
    <3> HIDE DEF f
    <3>4. Kept(d, h) => Kept(mem[p][h], h)'
      BY <1>1, <1>2, <3>1, <3>2 DEF Kept, KeepsSlots, AllStored
    <3>5. faults = 0 => Kept(d, h)
      BY <1>1, <1>3 DEF FreshRest, Kept, KeepsSlots, AllStored, Newest, WholeInv
    <3>6. PlaceInv(p, h, disk[h], mem[p][h])'
      BY <1>2, <1>3, <1>4, <3>1, <3>2, <3>3, <3>4, <3>5 DEF PlaceInv, RestRight, Before
    <3>7. FreshInv(p, h, disk[h], mem[p][h])'
      <4>1. faults = 0 => AllStored(disk[h], h)'
        BY <1>2, <1>3 DEF FreshRest, AllStored, Newest
      <4>2. \A v \in f.users : v \in d.users /\ Newest(mem[p][h], h, v)' = Newest(d, h, v)
        BY <1>1, <1>2, <3>1, <3>2 DEF Newest
      <4>3. faults = 0 => Copied(mem[p][h].user, h)'
        BY <1>2, <1>3, <3>1, <3>2 DEF FreshRest, Copied
      <4> QED BY <1>2, <1>3, <1>4, <2>1, <3>2, <3>3, <4>1, <4>2, <4>3 DEF FreshInv, FreshRest, LogsIn, Activation, Before
    <3> QED BY <2>2, <3>6, <3>7 DEF HostInv
  <2> QED BY <2>3, <2>4, <2>5
<1> QED BY <1>6, <1>7, <1>8 DEF Begin

-----------------------------------------------------------------------------
\* The invariant, and the two properties.

LEMMA InitFault == Init => FaultInv
<1> SUFFICES ASSUME Init PROVE FaultInv
  OBVIOUS
<1>1. RunInv
  BY InitRuns
<1>2. WholeInv
  BY DEF Init, WholeInv, Whole, WholeCopy, NoEntry, LogsIn, NoCommand
<1>3. ASSUME NEW p \in Procs, NEW h \in Hosts PROVE HostInv(p, h)
  <2>1. ~At(p, h) /\ disk[h] = NoEntry /\ late = {} /\ keyring[h][NoUser] = NoToken
    BY DEF Init, At, Working, Slots, MaybeUser
  <2>2. RestRight(h) /\ FreshRest(h)
    BY <2>1 DEF RestRight, Kept, KeepsSlots, AllStored, FreshRest, Copied, NoEntry
  <2> QED BY <2>1, <2>2 DEF HostInv, PlaceInv, FreshInv, SwitchInv
<1> QED BY <1>1, <1>2, <1>3 DEF FaultInv

LEMMA WholeKept == ASSUME OneAtATime, FaultInv, [Next]_vars PROVE WholeInv'
<1>1. RunInv /\ WholeInv /\ IInv
  BY DEF FaultInv, RunInv
<1>2. faults' = 0 => late' = {}
  BY <1>1, LateCounts
<1>3. ASSUME NEW p \in Procs, Step(p) \/ Start(p) \/ Finish(p) \/ Crash(p)
      PROVE  (\A h \in Hosts : Whole(disk[h]))' /\ \A q \in Procs : WholeCopy(q)'
  <2>1. \A q \in Procs : q = p
    BY DEF OneAtATime
  <2>2. CASE Step(p)
    <3>1. (\A h \in Hosts : Whole(disk[h]))' /\ WholeCopy(p)'
      BY <1>1, <2>2, WholeSteps
    <3> QED BY <2>1, <3>1
  <2>3. CASE Start(p) \/ Finish(p) \/ Crash(p)
    <3>1. disk' = disk /\ pc'[p] # "write" /\ (cmd'[p] = cmd[p] \/ cmd'[p].op = "none")
      BY <1>1, <2>3, InvParts DEF Start, Finish, Crash, Exit, NoCommand, Goto, ProcTypeOK
    <3>2. WholeCopy(p)'
      BY <1>1, <3>1 DEF WholeInv, WholeCopy, LogsIn
    <3> QED BY <1>1, <2>1, <3>1, <3>2 DEF WholeInv
  <2> QED BY <1>3, <2>2, <2>3
<1>4. ASSUME LateEffect \/ UNCHANGED vars
      PROVE  (\A h \in Hosts : Whole(disk[h]))' /\ \A q \in Procs : WholeCopy(q)'
  <2>1. UNCHANGED <<disk, pc, cmd, mem>>
    BY <1>4 DEF LateEffect, vars, procVars
  <2> QED BY <1>1, <2>1 DEF WholeInv, WholeCopy, LogsIn
<1> QED BY <1>2, <1>3, <1>4 DEF Next, WholeInv

LEMMA StepKeeps ==
  ASSUME FaultInv, [Next]_vars, faults' <= 1, NEW p \in Procs, Step(p), NEW h \in Hosts
  PROVE  HostInv(p, h)'
<1>1. CASE Begin(p)
  BY <1>1, BeginKeeps
<1>2. CASE ~Begin(p) /\ h # cmd[p].host
  BY <1>2, OtherHostsKeep
<1>3. CASE h = cmd[p].host /\ (Login(p) \/ ActivateUser(p))
  BY <1>3, LoginKeyringKeeps, LoginInsecureKeeps, ClearActiveKeeps, GetUserTokenKeeps, SetActiveKeeps, ActivateKeeps, WriteKeeps
     DEF Login, ActivateUser
<1>4. CASE h = cmd[p].host /\ (SwitchUser(p) \/ Logout(p))
  BY <1>4, PrevFromUserSlotKeeps, PrevFromActiveSlotKeeps, RestorePreviousKeeps, DeleteActiveSlotKeeps, DeleteUserSlotKeeps
     DEF SwitchUser, Logout
<1> QED BY <1>1, <1>2, <1>3, <1>4 DEF Step

LEMMA StepFault == ASSUME OneAtATime, FaultInv, [Next]_vars, faults' <= 1 PROVE FaultInv'
<1>1. RunInv' /\ WholeInv'
  BY StepRuns, WholeKept DEF FaultInv
<1>2. ASSUME NEW p \in Procs, NEW h \in Hosts PROVE HostInv(p, h)'
  <2>1. \A q \in Procs : q = p
    BY DEF OneAtATime
  <2>2. CASE Step(p)
    BY <2>2, StepKeeps
  <2>3. CASE Start(p) \/ Finish(p) \/ Crash(p)
    BY <2>3, BetweenCommands
  <2>4. CASE LateEffect
    BY <2>4, LateEffectKeeps
  <2>5. CASE UNCHANGED vars
    <3>1. HostInv(p, h)
      BY DEF FaultInv
    <3> QED BY <2>5, <3>1
         DEF vars, HostInv, PlaceInv, FreshInv, SwitchInv, At, RestRight, Kept, KeepsSlots, AllStored, Matched, OnlyDeletions,
             FreshRest, Newest, Copied, Aside, LogsIn
  <2> QED BY <2>1, <2>2, <2>3, <2>4, <2>5 DEF Next
<1> QED BY <1>1, <1>2 DEF FaultInv

LEMMA ActiveRight == ASSUME Procs # {}, FaultInv PROVE ActiveTokenRight
<1> SUFFICES ASSUME \A p \in Procs : pc[p] = "idle", NEW h \in Hosts, disk[h].user # NoUser,
                    ActiveToken(disk, keyring, h) # NoToken
             PROVE  /\ Owner[ActiveToken(disk, keyring, h)] = disk[h].user
                    /\ faults = 0 => last[h][disk[h].user] = ActiveToken(disk, keyring, h)
  BY DEF ActiveTokenRight
<1> DEFINE u == disk[h].user
<1>1. PICK p \in Procs : ~At(p, h)
  BY DEF At, Working
<1>2. RestRight(h) /\ (faults = 0 => FreshRest(h))
  BY <1>1 DEF FaultInv, HostInv, PlaceInv, FreshInv
<1>3. u \in Users /\ u \in disk[h].users /\ disk[h].token = disk[h].tok[u] /\ EntryOwnership(disk[h])
      /\ (keyring[h][u] # NoToken => Owner[keyring[h][u]] = u)
  BY DEF FaultInv, WholeInv, Whole, RunInv, IInv, TypeOK, HostsFile, Entry, MaybeUser, OwnershipInv, FileOwnership
<1> HIDE DEF u
<1>4. CASE disk[h].token # NoToken
  BY <1>2, <1>3, <1>4 DEF ActiveToken, EntryOwnership, FreshRest, Newest, u
<1>5. CASE disk[h].token = NoToken /\ keyring[h][u] # NoToken
  BY <1>2, <1>3, <1>5 DEF ActiveToken, FreshRest, Newest, u
<1>6. CASE disk[h].token = NoToken /\ keyring[h][u] = NoToken
  <2>1. ~AllStored(disk[h], h)
    BY <1>3, <1>6 DEF AllStored
  <2>2. Matched(u, h) /\ faults # 0
    BY <1>2, <1>3, <1>6, <2>1 DEF RestRight, Kept, FreshRest, Newest, u
  <2>3. ActiveToken(disk, keyring, h) = keyring[h][NoUser]
    BY <1>6 DEF ActiveToken, u
  <2> QED BY <2>2, <2>3 DEF Matched, u
<1> QED BY <1>4, <1>5, <1>6

LEMMA OnlyRestoreFails ==
  ASSUME OneAtATime, IInv, [Next]_vars, NEW p \in Procs, pc[p] = "restore_keyring", pc'[p] = "failed"
  PROVE  RestorePrevious(p)
<1>1. \A q \in Procs : q = p
  BY DEF OneAtATime
<1>2. ~(Start(p) \/ Begin(p) \/ Finish(p))
  BY DEF Start, Begin, BeginLogin, BeginRefresh, EnterLogin, BeginSwitch, BeginLogout, Finish
<1>3. ~Crash(p)
  BY InvParts DEF Crash, Exit, Goto, ProcTypeOK
<1>4. ~(Login(p) \/ ActivateUser(p) \/ Logout(p))
  BY DEF Login, LoginKeyring, LoginInsecure, ActivateUser, ClearActive, GetUserToken, SetActive, Activate, Write,
         Logout, DeleteActiveSlot, DeleteUserSlot
<1>5. ~(PrevFromUserSlot(p) \/ PrevFromActiveSlot(p))
  BY DEF PrevFromUserSlot, PrevFromActiveSlot
<1>6. ~LateEffect /\ ~UNCHANGED vars
  BY DEF LateEffect, procVars, vars
<1> QED BY <1>1, <1>2, <1>3, <1>4, <1>5, <1>6 DEF Next, Step, SwitchUser

\* One process at a time and at most one fault, whichever it is: between commands the token
\* in force is the one of the active account, and while nothing has failed its newest.
THEOREM ActiveTokenIsRight == ASSUME OneAtATime, Procs # {} PROVE Spec /\ [](faults <= 1) => []ActiveTokenRight
<1>1. Init => FaultInv
  BY InitFault
<1>2. FaultInv /\ (faults <= 1)' /\ [Next]_vars => FaultInv'
  BY StepFault
<1>3. FaultInv => ActiveTokenRight
  BY ActiveRight
<1> QED BY <1>1, <1>2, <1>3, PTL DEF Spec

\* One process at a time and at most one fault: a switch that fails leaves in force the
\* token it found, whatever it was that failed.
THEOREM FailedSwitchIsUndone == ASSUME OneAtATime PROVE Spec /\ [](faults <= 1) => FailedSwitchRestores
<1> DEFINE Restores == \A p \in Procs :
                         pc[p] = "restore_keyring" /\ pc'[p] = "failed" =>
                           /\ disk' = disk
                           /\ ActiveToken(disk', keyring', cmd[p].host) = prev[p].token
<1>1. Init => FaultInv
  BY InitFault
<1>2. FaultInv /\ (faults <= 1)' /\ [Next]_vars => FaultInv'
  BY StepFault
<1>3. FaultInv /\ (faults <= 1)' /\ [Next]_vars => [Restores]_vars
  <2> SUFFICES ASSUME FaultInv, faults' <= 1, [Next]_vars, NEW p \in Procs, pc[p] = "restore_keyring", pc'[p] = "failed"
               PROVE  disk' = disk /\ ActiveToken(disk', keyring', cmd[p].host) = prev[p].token
    OBVIOUS
  <2>1. IInv /\ cmd[p].host \in Hosts
    BY Facts DEF FaultInv, RunInv
  <2>2. RestorePrevious(p)
    BY <2>1, OnlyRestoreFails
  <2>3. PICK h \in Hosts : h = cmd[p].host
    BY <2>1
  <2>4. disk' = disk /\ ActiveToken(disk', keyring', h) = prev[p].token
    BY <2>2, <2>3, RestorePreviousKeeps
  <2> QED BY <2>3, <2>4
<1> QED BY <1>1, <1>2, <1>3, PTL DEF Spec, FailedSwitchRestores

=============================================================================
