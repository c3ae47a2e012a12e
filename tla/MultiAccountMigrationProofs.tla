-------------------- MODULE MultiAccountMigrationProofs --------------------
(***************************************************************************)
(* For every set of hosts, accounts, tokens and processes: hosts.yml is    *)
(* untouched or completely migrated, and when the version is written every *)
(* account has its token where TokenForUser looks for it.                  *)
(*                                                                         *)
(* The argument: every process's copy holds, host by host, the old or the  *)
(* migrated section, the latter for every host it is done with; migrating  *)
(* a migrated section changes nothing, so it does not matter which of the  *)
(* two another process had written when the copy was read; and no keyed    *)
(* keyring slot ever holds anything but the token that belongs there.      *)
(***************************************************************************)
EXTENDS MultiAccountMigration, TLAPS

Active(h) == keyring[h][NoUser]
Migrated(h) == MigratedEntry(legacy[h], Active(h))

LegacyInv ==
    /\ legacy \in [Hosts -> LegacyEntries]
    /\ AllOrNothing

\* The keyring slots of accounts: empty, or the copy the migration makes.
SlotInv ==
    \A h \in Hosts, u \in Users :
        keyring[h][u] # NoToken =>
            /\ Migrated(h).listed /\ Migrated(h).user = u /\ Migrated(h).token = NoToken
            /\ keyring[h][u] = Active(h)

\* Host h is settled in the copy of process p, its keyring token included.
Settled(p, h) ==
    /\ mem[p][h] = Migrated(h)
    /\ Migrated(h).listed /\ Migrated(h).token = NoToken =>
         keyring[h][Migrated(h).user] = Active(h)

Working == {"pick", "get_token", "get_username", "migrate", "write_hosts", "write_version"}
InHand(p) == IF pc[p] \in {"get_token", "get_username", "migrate"} THEN {host[p]} ELSE {}
AllSettled == \A h \in Hosts :
    /\ disk[h] = Migrated(h)
    /\ Migrated(h).listed /\ Migrated(h).token = NoToken =>
         keyring[h][Migrated(h).user] = Active(h)

CopyInv(p) ==
    /\ pc[p] \in {"pick", "get_token", "get_username", "migrate", "write_hosts"} =>
         /\ \A h \in Hosts : mem[p][h] \in {legacy[h], Migrated(h)}
         /\ \A h \in Hosts \ (todo[p] \cup InHand(p)) : Settled(p, h)
         /\ \A h \in todo[p] : mem[p][h].listed
    /\ pc[p] \in {"get_token", "get_username", "migrate"} => host[p] \notin todo[p]
    /\ pc[p] \in {"get_token", "get_username", "migrate"} => mem[p][host[p]].listed
    /\ pc[p] \in {"get_username", "migrate"} =>
         /\ got[p].token = HostToken(mem[p][host[p]], Active(host[p]))
         /\ got[p].token # NoToken
         /\ got[p].inKeyring <=> mem[p][host[p]].token = NoToken
    /\ pc[p] = "migrate" => mem[p][host[p]] = Migrated(host[p])
    /\ pc[p] = "write_hosts" => todo[p] = {}
    /\ pc[p] = "write_version" => AllSettled

VersionInv == version = "1" => AllSettled

IInv == TypeOK /\ LegacyInv /\ SlotInv /\ VersionInv /\ \A p \in Procs : CopyInv(p)

-----------------------------------------------------------------------------
\* Migrating a section: what the result is, and that migrating the old
\* section and migrating the result again both give it.
LEMMA MigratedFacts ==
  ASSUME NEW e \in LegacyEntries, NEW k \in MaybeToken
  PROVE  LET m == MigratedEntry(e, k)
         IN  /\ e \in Entry /\ m \in Entry
             /\ ~e.listed => e = Unlisted
             /\ m.listed => /\ e.listed /\ HostToken(e, k) # NoToken
                            /\ m.token = e.token /\ m.user \in Users
             /\ ~m.listed => m = Unlisted
             /\ e.listed /\ HostToken(e, k) # NoToken => m.listed
             /\ m = Unlisted \/ HostToken(m, k) = HostToken(e, k)
<1>1. e \in Entry /\ (~e.listed => e = Unlisted)
  <2>1. CASE e = Unlisted
    BY <2>1, MigrationAssumption DEF Unlisted, Entry, Names, NoToks, MaybeToken
  <2>2. CASE \E u \in Names, t \in MaybeToken : e = Legacy(u, t)
    BY <2>2, MigrationAssumption DEF Legacy, Entry, NoToks, MaybeToken
  <2> QED BY <2>1, <2>2 DEF LegacyEntries
<1>2. CASE ~e.listed \/ HostToken(e, k) = NoToken
  BY <1>1, <1>2, MigrationAssumption
     DEF MigratedEntry, Unlisted, Entry, Names, NoToks, MaybeToken
<1>3. CASE e.listed /\ HostToken(e, k) # NoToken
  <2> DEFINE u == Named(e, HostToken(e, k))
             m == [e EXCEPT !.user = u, !.users = @ \cup {u}, !.tok[u] = e.token]
  <2>1. u \in Users
    BY <1>1, <1>3, MigrationAssumption DEF Named, HostToken, Entry, MaybeToken
  <2>2. MigratedEntry(e, k) = m
    BY <1>3 DEF MigratedEntry
  <2>3. m \in Entry /\ m.listed /\ m.token = e.token /\ m.user = u
    BY <1>1, <1>3, <2>1 DEF Entry, Names
  <2> QED BY <1>1, <1>3, <2>1, <2>2, <2>3 DEF HostToken
<1> QED BY <1>2, <1>3

LEMMA MigrateLegacy ==
  ASSUME NEW e \in LegacyEntries, NEW k \in MaybeToken, e.listed, HostToken(e, k) # NoToken
  PROVE  MigrateEntry(e, Named(e, HostToken(e, k))) = MigratedEntry(e, k)
  BY DEF MigrateEntry, MigratedEntry

LEMMA MigrateAgain ==
  ASSUME NEW e \in LegacyEntries, NEW k \in MaybeToken, MigratedEntry(e, k).listed
  PROVE  LET m == MigratedEntry(e, k)
         IN  MigrateEntry(m, Named(m, HostToken(m, k))) = m
<1> DEFINE m == MigratedEntry(e, k)
<1>1. m \in Entry /\ m.user \in Users /\ e \in Entry /\ e.listed /\ HostToken(e, k) # NoToken
  BY MigratedFacts
<1>2. Named(m, HostToken(m, k)) = m.user
  BY <1>1 DEF Named
<1>3. m.user \in m.users /\ m.tok[m.user] = m.token
  BY <1>1, MigrationAssumption DEF MigratedEntry, Entry, Named, HostToken, MaybeToken
<1> HIDE DEF m
<1>4. [m EXCEPT !.user = m.user, !.users = m.users \cup {m.user}, !.tok[m.user] = m.token] = m
  <2>1. m.users \cup {m.user} = m.users
    BY <1>1, <1>3
  <2>2. [m.tok EXCEPT ![m.user] = m.token] = m.tok
    BY <1>1, <1>3 DEF Entry
  <2> QED BY <1>1, <2>1, <2>2 DEF Entry
<1> QED BY <1>2, <1>4 DEF MigrateEntry, m

-----------------------------------------------------------------------------
\* What every step leaves alone, and what it may do to the shared stores.
Shared ==
    /\ legacy' = legacy
    /\ disk' = disk \/ disk' = MigratedFile
    /\ \A h \in Hosts, s \in Slots :
         \/ keyring'[h][s] = keyring[h][s]
         \/ s \in Users /\ keyring'[h][s] = Active(h)

OthersUnchanged(p) ==
    \A q \in Procs : q # p => /\ pc'[q] = pc[q] /\ mem'[q] = mem[q] /\ todo'[q] = todo[q]
                              /\ host'[q] = host[q] /\ got'[q] = got[q]

LEMMA Facts ==
  ASSUME IInv
  PROVE  /\ NoUser \in Slots /\ NoUser \notin Users /\ Users \subseteq Slots
         /\ \A h \in Hosts : /\ legacy[h] \in LegacyEntries /\ Active(h) \in MaybeToken
                             /\ Migrated(h) \in Entry
                             /\ MigratedFile[h] = Migrated(h)
                             /\ disk[h] \in {legacy[h], Migrated(h)}
                             /\ ~legacy[h].listed => legacy[h] = Unlisted
                             /\ Migrated(h).listed => Migrated(h).user \in Users
                             /\ ~Migrated(h).listed => Migrated(h) = Unlisted
         /\ MigratedFile \in File
         /\ \A p \in Procs : CopyInv(p) /\ mem[p] \in File /\ host[p] \in Hosts
<1>1. NoUser \in Slots /\ NoUser \notin Users /\ Users \subseteq Slots
  BY MigrationAssumption DEF Slots
<1>2. ASSUME NEW h \in Hosts
      PROVE  /\ legacy[h] \in LegacyEntries /\ Active(h) \in MaybeToken
             /\ Migrated(h) \in Entry
             /\ MigratedFile[h] = Migrated(h)
             /\ disk[h] \in {legacy[h], Migrated(h)}
             /\ ~legacy[h].listed => legacy[h] = Unlisted
             /\ Migrated(h).listed => Migrated(h).user \in Users
             /\ ~Migrated(h).listed => Migrated(h) = Unlisted
  <2>1. legacy[h] \in LegacyEntries /\ Active(h) \in MaybeToken
    BY <1>1 DEF IInv, TypeOK, LegacyInv, Active
  <2>2. MigratedFile[h] = Migrated(h)
    BY DEF MigratedFile, Migrated, Active
  <2> QED BY <2>1, <2>2, MigratedFacts DEF IInv, LegacyInv, AllOrNothing, Migrated
<1>3. MigratedFile \in File
  BY <1>2 DEF MigratedFile, File, Migrated, Active
<1> QED BY <1>1, <1>2, <1>3 DEF IInv, TypeOK

LEMMA SharedFacts ==
  ASSUME IInv, Shared
  PROVE  /\ \A h \in Hosts : Active(h)' = Active(h) /\ Migrated(h)' = Migrated(h)
         /\ MigratedFile' = MigratedFile
         /\ LegacyInv'
         /\ AllSettled => AllSettled'
<1>1. \A h \in Hosts : Active(h)' = Active(h)
  BY Facts DEF Shared, Active
<1>2. \A h \in Hosts : Migrated(h)' = Migrated(h)
  BY <1>1 DEF Shared, Migrated
<1>3. MigratedFile' = MigratedFile
  BY <1>1 DEF Shared, MigratedFile, Active
<1>4. LegacyInv'
  BY <1>3 DEF Shared, IInv, LegacyInv, AllOrNothing
<1>5. AllSettled => AllSettled'
  BY <1>1, <1>2, Facts DEF Shared, AllSettled
<1> QED BY <1>1, <1>2, <1>3, <1>4, <1>5

\* A step of p does not disturb what the invariant says of the others.
LEMMA OthersPreserved ==
  ASSUME IInv, NEW p \in Procs, Shared, OthersUnchanged(p)
  PROVE  \A q \in Procs : q # p => CopyInv(q)'
<1> SUFFICES ASSUME NEW q \in Procs, q # p
             PROVE  CopyInv(q)'
  OBVIOUS
<1>1. /\ pc'[q] = pc[q] /\ mem'[q] = mem[q] /\ todo'[q] = todo[q]
      /\ host'[q] = host[q] /\ got'[q] = got[q] /\ host[q] \in Hosts /\ CopyInv(q)
  BY Facts DEF OthersUnchanged
<1>2. \A h \in Hosts : Settled(q, h) => Settled(q, h)'
  BY <1>1, SharedFacts, Facts DEF Settled, Shared
<1>3. InHand(q)' = InHand(q)
  BY <1>1 DEF InHand
<1> QED BY <1>1, <1>2, <1>3, SharedFacts DEF CopyInv, Shared

LEMMA StepPreserves ==
  ASSUME IInv, NEW p \in Procs, Shared, OthersUnchanged(p), TypeOK', SlotInv', VersionInv',
         CopyInv(p)'
  PROVE  IInv'
  BY OthersPreserved, SharedFacts DEF IInv

\* Steps that leave the shared stores alone.
LEMMA LocalPreserves ==
  ASSUME IInv, NEW p \in Procs, UNCHANGED <<disk, version, keyring, legacy>>,
         OthersUnchanged(p), TypeOK', CopyInv(p)'
  PROVE  IInv'
<1>1. Shared
  BY DEF Shared
<1>2. SlotInv' /\ VersionInv'
  BY <1>1, SharedFacts, Facts DEF IInv, SlotInv, VersionInv
<1> QED BY <1>1, <1>2, StepPreserves

LEMMA FaultTyped ==
  ASSUME IInv, NEW p \in Procs, Refuse(p)
  PROVE  faults' \in 0..MaxFaults
  BY MigrationAssumption DEF IInv, TypeOK, Refuse, Fault

\* A refusal ends the process: nothing is claimed of an idle one.
LEMMA ExitCopy ==
  ASSUME IInv, NEW p \in Procs, Exit(p)
  PROVE  /\ pc' \in [Procs -> Labels] /\ pc'[p] = "idle" /\ CopyInv(p)'
         /\ \A q \in Procs : q # p => pc'[q] = pc[q]
  BY DEF IInv, TypeOK, Exit, Goto, Labels, CopyInv

LEMMA ReadVersionPreserves ==
  ASSUME IInv, NEW p \in Procs, ReadVersion(p)
  PROVE  IInv'
<1>1. TypeOK'
  BY MigrationAssumption DEF IInv, TypeOK, ReadVersion, Goto, Labels
<1>2. OthersUnchanged(p) /\ CopyInv(p)'
  BY DEF IInv, TypeOK, ReadVersion, Goto, OthersUnchanged, CopyInv
<1> QED BY <1>1, <1>2, LocalPreserves DEF ReadVersion

LEMMA ReadHostsPreserves ==
  ASSUME IInv, NEW p \in Procs, ReadHosts(p)
  PROVE  IInv'
<1> DEFINE listed == {h \in Hosts : disk[h].listed}
<1>1. /\ mem' = [mem EXCEPT ![p] = disk] /\ todo' = [todo EXCEPT ![p] = listed]
      /\ UNCHANGED <<disk, version, keyring, faults, runs, seen, host, got, legacy>>
  BY DEF ReadHosts
<1>2. \/ pc' = [pc EXCEPT ![p] = "idle"]
      \/ pc' = [pc EXCEPT ![p] = "write_version"] /\ listed = {}
      \/ pc' = [pc EXCEPT ![p] = "pick"]
  BY DEF ReadHosts, Exit, Goto
<1>3. TypeOK'
  BY <1>1, <1>2 DEF IInv, TypeOK, Labels
<1>4. OthersUnchanged(p)
  BY <1>1, <1>2 DEF IInv, TypeOK, OthersUnchanged
<1>5. mem'[p] = disk /\ todo'[p] = listed
  BY <1>1 DEF IInv, TypeOK
<1>6. Shared
  BY <1>1 DEF Shared
<1>7. \A h \in Hosts : ~disk[h].listed => disk[h] = Migrated(h) /\ ~Migrated(h).listed
  <2> SUFFICES ASSUME NEW h \in Hosts, ~disk[h].listed
               PROVE  disk[h] = Migrated(h) /\ ~Migrated(h).listed
    OBVIOUS
  <2>1. ~legacy[h].listed => Migrated(h) = Unlisted
    BY DEF Migrated, MigratedEntry
  <2> QED BY <2>1, Facts DEF Unlisted
<1>8. CASE pc' = [pc EXCEPT ![p] = "write_version"] /\ listed = {}
  <2>1. AllSettled
    BY <1>7, <1>8 DEF AllSettled
  <2>2. pc'[p] = "write_version"
    BY <1>8 DEF IInv, TypeOK
  <2>3. CopyInv(p)'
    BY <1>6, <2>1, <2>2, SharedFacts DEF CopyInv
  <2> QED BY <1>1, <1>3, <1>4, <2>3, LocalPreserves
<1>9. CASE pc' = [pc EXCEPT ![p] = "pick"]
  <2>1. pc'[p] = "pick"
    BY <1>9 DEF IInv, TypeOK
  <2>2. \A h \in Hosts : mem'[p][h] \in {legacy'[h], Migrated(h)'}
    BY <1>1, <1>5, <1>6, SharedFacts, Facts
  <2>3. \A h \in Hosts \ listed : Settled(p, h)'
    BY <1>5, <1>6, <1>7, SharedFacts DEF Settled
  <2>4. CopyInv(p)'
    BY <1>5, <2>1, <2>2, <2>3 DEF CopyInv, InHand
  <2> QED BY <1>1, <1>3, <1>4, <2>4, LocalPreserves
<1>10. CASE pc' = [pc EXCEPT ![p] = "idle"]
  BY <1>1, <1>3, <1>4, <1>10, LocalPreserves DEF IInv, TypeOK, CopyInv
<1> QED BY <1>2, <1>8, <1>9, <1>10

LEMMA PickHostPreserves ==
  ASSUME IInv, NEW p \in Procs, PickHost(p)
  PROVE  IInv'
<1>1. UNCHANGED <<disk, version, keyring, faults, runs, mem, seen, got, legacy>>
      /\ pc[p] = "pick"
  BY DEF PickHost
<1>2. \A h \in Hosts : Settled(p, h)' <=> Settled(p, h)
  BY <1>1 DEF Settled, Migrated, Active
<1>3. \A h \in Hosts : Migrated(h)' = Migrated(h)
  BY <1>1 DEF Migrated, Active
<1>4. CASE todo[p] = {} /\ pc' = [pc EXCEPT ![p] = "write_hosts"] /\ UNCHANGED <<todo, host>>
  <2>1. TypeOK' /\ OthersUnchanged(p)
    BY <1>1, <1>4 DEF IInv, TypeOK, Labels, OthersUnchanged
  <2>2. pc'[p] = "write_hosts"
    BY <1>4 DEF IInv, TypeOK
  <2>3. CopyInv(p)'
    BY <1>1, <1>2, <1>3, <1>4, <2>2, Facts DEF CopyInv, InHand
  <2> QED BY <1>1, <2>1, <2>3, LocalPreserves
<1>5. ASSUME NEW h \in todo[p], Take(p, h), host' = [host EXCEPT ![p] = h],
             pc' = [pc EXCEPT ![p] = "get_token"]
      PROVE  IInv'
  <2>1. TypeOK' /\ OthersUnchanged(p)
    BY <1>1, <1>5 DEF IInv, TypeOK, Labels, OthersUnchanged, Take
  <2>2. pc'[p] = "get_token" /\ host'[p] = h /\ todo'[p] = todo[p] \ {h} /\ h \in Hosts
    BY <1>5 DEF IInv, TypeOK, Take
  <2>3. CopyInv(p)'
    BY <1>1, <1>2, <1>3, <2>2, Facts DEF CopyInv, InHand
  <2> QED BY <1>1, <2>1, <2>3, LocalPreserves
<1> QED BY <1>4, <1>5 DEF PickHost, Goto

LEMMA GetTokenPreserves ==
  ASSUME IInv, NEW p \in Procs, GetToken(p)
  PROVE  IInv'
<1> DEFINE h == host[p]
           plain == mem[p][h].token
           secret == keyring[h][NoUser]
<1>1. UNCHANGED <<disk, version, keyring, runs, seen, todo, host, legacy>>
      /\ pc[p] = "get_token"
  BY DEF GetToken
<1>2. /\ h \in Hosts /\ h \notin todo[p] /\ mem[p][h].listed
      /\ mem[p][h] \in {legacy[h], Migrated(h)}
      /\ \A g \in Hosts : mem[p][g] \in {legacy[g], Migrated(g)}
      /\ \A g \in Hosts \ (todo[p] \cup {h}) : Settled(p, g)
      /\ \A g \in todo[p] : mem[p][g].listed
      /\ mem \in [Procs -> File] /\ todo[p] \subseteq Hosts
  BY <1>1, Facts DEF CopyInv, InHand, IInv, TypeOK
<1>3. \A g \in Hosts : Migrated(g)' = Migrated(g) /\ Active(g)' = Active(g)
  BY <1>1 DEF Migrated, Active
<1>4. ASSUME NEW t \in Tokens, NEW k \in BOOLEAN, Found(p, t, k),
             t = HostToken(mem[p][h], Active(h)), k <=> plain = NoToken
      PROVE  IInv'
  <2>1. TypeOK' /\ OthersUnchanged(p)
    BY <1>1, <1>4 DEF IInv, TypeOK, Labels, OthersUnchanged, Found, Goto, Sources, MaybeToken
  <2>2. pc'[p] = "get_username" /\ got'[p] = [token |-> t, inKeyring |-> k] /\ mem' = mem
    BY <1>4 DEF IInv, TypeOK, Found, Goto
  <2>3. \A g \in Hosts : Settled(p, g)' <=> Settled(p, g)
    BY <1>1, <1>3, <2>2 DEF Settled
  <2>4. t # NoToken
    BY MigrationAssumption
  <2>5. CopyInv(p)'
    BY <1>1, <1>2, <1>3, <1>4, <2>2, <2>3, <2>4 DEF CopyInv, InHand
  <2> QED BY <1>1, <1>4, <2>1, <2>5, LocalPreserves DEF Found
<1>5. CASE plain = NoToken /\ secret = NoToken /\ DropHost(p)
  <2>1. mem' = [mem EXCEPT ![p][h] = Unlisted] /\ pc' = [pc EXCEPT ![p] = "pick"]
        /\ UNCHANGED <<faults, got>>
    BY <1>5 DEF DropHost, Goto
  <2>2. Unlisted \in Entry
    BY MigrationAssumption DEF Unlisted, Entry, Names, NoToks, MaybeToken
  <2>3. TypeOK' /\ OthersUnchanged(p)
    <3>1. mem' \in [Procs -> File] /\ \A q \in Procs : q # p => mem'[q] = mem[q]
      BY <1>2, <2>1, <2>2 DEF File
    <3> QED BY <1>1, <2>1, <3>1 DEF IInv, TypeOK, Labels, OthersUnchanged
  <2>4. pc'[p] = "pick" /\ mem'[p][h] = Unlisted
        /\ \A g \in Hosts : g # h => mem'[p][g] = mem[p][g]
    BY <1>2, <2>1 DEF IInv, TypeOK, File
  <2>5. Migrated(h) = Unlisted
    <3>1. HostToken(mem[p][h], Active(h)) = NoToken
      BY <1>5 DEF HostToken, Active
    <3>2. CASE mem[p][h] = legacy[h]
      BY <3>1, <3>2 DEF Migrated, MigratedEntry
    <3>3. CASE mem[p][h] = Migrated(h)
      BY <3>1, <3>3, MigratedFacts, Facts DEF Migrated
    <3> QED BY <1>2, <3>2, <3>3
  <2>6. \A g \in Hosts \ todo[p] : Settled(p, g)'
    <3>1. \A g \in Hosts \ (todo[p] \cup {h}) : Settled(p, g)'
      BY <1>1, <1>2, <1>3, <2>4 DEF Settled
    <3>2. Settled(p, h)'
      BY <1>1, <1>2, <1>3, <2>4, <2>5 DEF Settled, Unlisted
    <3> QED BY <1>1, <3>1, <3>2
  <2>7. CopyInv(p)'
    BY <1>1, <1>2, <1>3, <2>4, <2>5, <2>6 DEF CopyInv, InHand
  <2> QED BY <1>1, <2>3, <2>7, LocalPreserves
<1>6. CASE KeyringGetFails(p)
  <2>1. faults' \in 0..MaxFaults
    BY <1>6, FaultTyped DEF KeyringGetFails
  <2>2. Exit(p) /\ UNCHANGED <<mem, got>>
    BY <1>6 DEF KeyringGetFails, Refuse
  <2>3. TypeOK' /\ OthersUnchanged(p)
    BY <1>1, <2>1, <2>2, ExitCopy DEF IInv, TypeOK, OthersUnchanged
  <2> QED BY <1>1, <2>2, <2>3, ExitCopy, LocalPreserves
<1>7. plain \in MaybeToken /\ secret \in MaybeToken
  BY <1>2, Facts DEF File, Entry, Active
<1> QED
  <2>1. CASE plain # NoToken /\ Found(p, plain, FALSE)
    BY <1>4, <1>7, <2>1 DEF HostToken, MaybeToken
  <2>2. CASE plain = NoToken /\ secret # NoToken /\ Found(p, secret, TRUE)
    BY <1>4, <1>7, <2>2 DEF HostToken, MaybeToken, Active
  <2> QED BY <1>5, <1>6, <2>1, <2>2 DEF GetToken

LEMMA GetUsernamePreserves ==
  ASSUME IInv, NEW p \in Procs, GetUsername(p)
  PROVE  IInv'
<1> DEFINE h == host[p]
           e == mem[p][h]
           m == MigrateEntry(e, Named(e, got[p].token))
<1>1. UNCHANGED <<disk, version, keyring, runs, seen, todo, host, got, legacy>>
      /\ pc[p] = "get_username"
  BY DEF GetUsername
<1>2. /\ h \in Hosts /\ h \notin todo[p] /\ e.listed
      /\ e \in {legacy[h], Migrated(h)}
      /\ \A g \in Hosts : mem[p][g] \in {legacy[g], Migrated(g)}
      /\ \A g \in Hosts \ (todo[p] \cup {h}) : Settled(p, g)
      /\ \A g \in todo[p] : mem[p][g].listed
      /\ mem \in [Procs -> File] /\ todo[p] \subseteq Hosts
      /\ got[p].token = HostToken(e, Active(h)) /\ got[p].token # NoToken
      /\ got[p].inKeyring <=> e.token = NoToken
  BY <1>1, Facts DEF CopyInv, InHand, IInv, TypeOK
<1>3. \A g \in Hosts : Migrated(g)' = Migrated(g) /\ Active(g)' = Active(g)
  BY <1>1 DEF Migrated, Active
<1>4. m = Migrated(h) /\ Migrated(h).token = e.token /\ Migrated(h).listed
      /\ HostToken(Migrated(h), Active(h)) = got[p].token
  <2>1. CASE e = legacy[h]
    <3>1. m = Migrated(h)
      BY <1>2, <2>1, MigrateLegacy, Facts DEF Migrated
    <3>2. Migrated(h).listed
      BY <1>2, <2>1, Facts, MigratedFacts DEF Migrated
    <3> QED BY <1>2, <2>1, <3>1, <3>2, Facts, MigratedFacts DEF Migrated, HostToken
  <2>2. CASE e = Migrated(h)
    <3>1. m = Migrated(h)
      BY <1>2, <2>2, MigrateAgain, Facts DEF Migrated
    <3> QED BY <1>2, <2>2, <3>1
  <2> QED BY <1>2, <2>1, <2>2
<1> HIDE DEF m
<1>5. CASE mem' = [mem EXCEPT ![p][h] = m] /\ Goto(p, "migrate") /\ UNCHANGED faults
  <2>1. mem' \in [Procs -> File] /\ \A q \in Procs : q # p => mem'[q] = mem[q]
    BY <1>2, <1>4, <1>5, Facts DEF File
  <2>2. mem'[p][h] = Migrated(h) /\ \A g \in Hosts : g # h => mem'[p][g] = mem[p][g]
    BY <1>2, <1>4, <1>5 DEF File
  <2>3. TypeOK' /\ OthersUnchanged(p) /\ pc'[p] = "migrate"
    BY <1>1, <1>5, <2>1 DEF IInv, TypeOK, Labels, OthersUnchanged, Goto
  <2>4. \A g \in Hosts \ (todo[p] \cup {h}) : Settled(p, g)'
    BY <1>1, <1>2, <1>3, <2>2 DEF Settled
  <2>5. CopyInv(p)'
    BY <1>1, <1>2, <1>3, <1>4, <2>2, <2>3, <2>4 DEF CopyInv, InHand
  <2> QED BY <1>1, <2>3, <2>5, LocalPreserves
<1>6. CASE Refuse(p) /\ UNCHANGED mem
  <2>1. faults' \in 0..MaxFaults /\ Exit(p)
    BY <1>6, FaultTyped DEF Refuse
  <2>2. TypeOK' /\ OthersUnchanged(p)
    BY <1>1, <1>6, <2>1, ExitCopy DEF IInv, TypeOK, OthersUnchanged
  <2> QED BY <1>1, <2>1, <2>2, ExitCopy, LocalPreserves
<1> QED BY <1>5, <1>6 DEF GetUsername, m

\* The keyring write: it fills the slot of the host's migrated account with
\* the host's own token, whether or not its caller is told so.
LEMMA MigrateTokenPreserves ==
  ASSUME IInv, NEW p \in Procs, MigrateToken(p)
  PROVE  IInv'
<1> DEFINE h == host[p]
           ring == [keyring EXCEPT ![h][mem[p][h].user] = got[p].token]
<1>1. UNCHANGED <<disk, version, runs, mem, seen, todo, host, got, legacy>>
      /\ pc[p] = "migrate"
  BY DEF MigrateToken
<1>2. /\ h \in Hosts /\ h \notin todo[p]
      /\ mem[p][h] = Migrated(h)
      /\ \A g \in Hosts : mem[p][g] \in {legacy[g], Migrated(g)}
      /\ \A g \in Hosts \ (todo[p] \cup {h}) : Settled(p, g)
      /\ \A g \in todo[p] : mem[p][g].listed
      /\ got[p].token = HostToken(Migrated(h), Active(h)) /\ got[p].token # NoToken
      /\ got[p].inKeyring <=> Migrated(h).token = NoToken
      /\ keyring \in [Hosts -> [Slots -> MaybeToken]]
  BY <1>1, Facts DEF CopyInv, InHand, IInv, TypeOK
<1>3. keyring' = keyring \/ (got[p].inKeyring /\ keyring' = ring)
  BY DEF MigrateToken, CopyToken
<1>4. got[p].inKeyring => got[p].token = Active(h) /\ Migrated(h).token = NoToken
  BY <1>2 DEF HostToken
<1>5. got[p].inKeyring => Migrated(h).listed /\ Migrated(h).user \in Users
  <2>1. Migrated(h).listed
    BY <1>1, <1>2, Facts DEF CopyInv
  <2> QED BY <1>2, <2>1, Facts
<1>6. keyring' \in [Hosts -> [Slots -> MaybeToken]]
  BY <1>2, <1>3, <1>4, <1>5, Facts
<1>12. \A g \in Hosts, s \in Slots :
         \/ keyring'[g][s] = keyring[g][s]
         \/ got[p].inKeyring /\ g = h /\ s = Migrated(h).user /\ keyring'[g][s] = Active(h)
  <2>1. CASE keyring' = ring /\ got[p].inKeyring
    BY <1>2, <1>4, <2>1
  <2> QED BY <1>3, <2>1
<1>7. Shared
  BY <1>1, <1>5, <1>12 DEF Shared
<1>8. SlotInv'
  <2>1. \A g \in Hosts, u \in Users :
          \/ keyring'[g][u] = keyring[g][u]
          \/ /\ Migrated(g).listed /\ Migrated(g).user = u /\ Migrated(g).token = NoToken
             /\ keyring'[g][u] = Active(g)
    BY <1>4, <1>5, <1>12, Facts
  <2> QED BY <1>7, <2>1, SharedFacts DEF SlotInv, IInv
<1>9. VersionInv'
  BY <1>1, <1>7, SharedFacts DEF VersionInv, IInv
<1>10. CASE Refuse(p)
  <2>1. faults' \in 0..MaxFaults /\ Exit(p)
    BY <1>10, FaultTyped DEF Refuse
  <2>2. TypeOK' /\ OthersUnchanged(p)
    BY <1>1, <1>6, <2>1, ExitCopy DEF IInv, TypeOK, OthersUnchanged
  <2> QED BY <1>7, <1>8, <1>9, <2>1, <2>2, ExitCopy, StepPreserves
<1>11. CASE Goto(p, "pick") /\ UNCHANGED faults /\ (got[p].inKeyring => keyring' = ring)
  <2>1. pc'[p] = "pick" /\ TypeOK' /\ OthersUnchanged(p)
    BY <1>1, <1>6, <1>11 DEF IInv, TypeOK, Labels, OthersUnchanged, Goto
  <2>2. \A g \in Hosts \ todo[p] : Settled(p, g)'
    <3>1. \A g \in Hosts \ (todo[p] \cup {h}) : Settled(p, g)'
      BY <1>1, <1>2, <1>7, SharedFacts, Facts DEF Settled, Shared
    <3>2. mem'[p][h] = Migrated(h)
      BY <1>1, <1>2
    <3>3. Migrated(h).listed /\ Migrated(h).token = NoToken =>
            keyring'[h][Migrated(h).user] = Active(h)
      BY <1>2, <1>4, <1>5, <1>11, Facts
    <3>4. Settled(p, h)'
      BY <1>1, <1>2, <1>7, <3>2, <3>3, SharedFacts DEF Settled
    <3> QED BY <1>1, <3>1, <3>4
  <2>3. CopyInv(p)'
    BY <1>1, <1>2, <1>7, <2>1, <2>2, SharedFacts DEF CopyInv, InHand, Shared
  <2> QED BY <1>7, <1>8, <1>9, <2>1, <2>3, StepPreserves
<1> QED BY <1>10, <1>11 DEF MigrateToken, CopyToken

LEMMA WriteHostsPreserves ==
  ASSUME IInv, NEW p \in Procs, WriteHosts(p)
  PROVE  IInv'
<1>1. UNCHANGED <<version, keyring, runs, mem, seen, todo, host, got, legacy>>
      /\ pc[p] = "write_hosts"
  BY DEF WriteHosts
<1>2. todo[p] = {} /\ \A h \in Hosts : Settled(p, h)
  BY <1>1, Facts DEF CopyInv, InHand
<1>3. mem[p] = MigratedFile /\ mem[p] \in File
  BY <1>2, Facts DEF Settled, File
<1>4. \A h \in Hosts : Migrated(h)' = Migrated(h) /\ Active(h)' = Active(h)
  BY <1>1 DEF Migrated, Active
<1>5. CASE disk' = mem[p] /\ Goto(p, "write_version") /\ UNCHANGED faults
  <2>1. Shared
    BY <1>1, <1>3, <1>5 DEF Shared
  <2>2. TypeOK' /\ OthersUnchanged(p) /\ pc'[p] = "write_version"
    BY <1>1, <1>3, <1>5 DEF IInv, TypeOK, Labels, OthersUnchanged, Goto
  <2>3. AllSettled'
    BY <1>1, <1>2, <1>4, <1>5 DEF AllSettled, Settled
  <2>4. SlotInv' /\ VersionInv' /\ CopyInv(p)'
    BY <1>1, <1>4, <2>2, <2>3 DEF SlotInv, VersionInv, CopyInv, IInv
  <2> QED BY <2>1, <2>2, <2>4, StepPreserves
<1>6. CASE Refuse(p) /\ UNCHANGED disk
  <2>1. faults' \in 0..MaxFaults /\ Exit(p)
    BY <1>6, FaultTyped DEF Refuse
  <2>2. TypeOK' /\ OthersUnchanged(p)
    BY <1>1, <1>6, <2>1, ExitCopy DEF IInv, TypeOK, OthersUnchanged
  <2> QED BY <1>1, <1>6, <2>1, <2>2, ExitCopy, LocalPreserves
<1> QED BY <1>5, <1>6 DEF WriteHosts

LEMMA WriteVersionPreserves ==
  ASSUME IInv, NEW p \in Procs, WriteVersion(p)
  PROVE  IInv'
<1>1. UNCHANGED <<disk, keyring, runs, mem, seen, todo, host, got, legacy>> /\ Exit(p)
      /\ pc[p] = "write_version" /\ version' \in {version, "1"} /\ faults' \in 0..MaxFaults
  BY FaultTyped DEF WriteVersion, Refuse, IInv, TypeOK
<1>2. Shared /\ AllSettled
  BY <1>1, Facts DEF Shared, CopyInv
<1>3. TypeOK' /\ OthersUnchanged(p)
  BY <1>1, ExitCopy DEF IInv, TypeOK, Versions, OthersUnchanged
<1>4. SlotInv' /\ VersionInv'
  BY <1>1, <1>2, SharedFacts, Facts DEF SlotInv, VersionInv, IInv
<1> QED BY <1>1, <1>2, <1>3, <1>4, ExitCopy, StepPreserves

LEMMA CrashPreserves ==
  ASSUME IInv, NEW p \in Procs, Crash(p)
  PROVE  IInv'
<1>1. UNCHANGED <<disk, version, keyring, runs, mem, seen, todo, host, got, legacy>>
      /\ Exit(p) /\ faults' \in 0..MaxFaults
  BY FaultTyped DEF Crash, Refuse
<1>2. TypeOK' /\ OthersUnchanged(p)
  BY <1>1, ExitCopy DEF IInv, TypeOK, OthersUnchanged
<1> QED BY <1>1, <1>2, ExitCopy, LocalPreserves

-----------------------------------------------------------------------------
LEMMA StutterPreserves ==
  ASSUME IInv, UNCHANGED vars
  PROVE  IInv'
<1>1. Shared
  BY DEF Shared, vars
<1>2. \A p \in Procs : CopyInv(p)'
  <2> SUFFICES ASSUME NEW p \in Procs PROVE CopyInv(p)'
    OBVIOUS
  <2>1. \A h \in Hosts : Settled(p, h)' <=> Settled(p, h)
    BY <1>1, SharedFacts DEF vars, Settled
  <2> QED BY <1>1, <2>1, SharedFacts, Facts DEF vars, CopyInv, InHand
<1> QED BY <1>1, <1>2, SharedFacts DEF vars, IInv, TypeOK, SlotInv, VersionInv

LEMMA NextPreserves == IInv /\ [Next]_vars => IInv'
<1> SUFFICES ASSUME IInv, [Next]_vars PROVE IInv'
  OBVIOUS
<1>1. ASSUME NEW p \in Procs, Migrate(p) PROVE IInv'
  BY <1>1, ReadHostsPreserves, PickHostPreserves, GetTokenPreserves, GetUsernamePreserves,
     MigrateTokenPreserves, WriteHostsPreserves, WriteVersionPreserves DEF Migrate
<1> QED BY <1>1, ReadVersionPreserves, CrashPreserves, StutterPreserves DEF Next

LEMMA InitIInv == Init => IInv
<1> SUFFICES ASSUME Init PROVE IInv
  OBVIOUS
<1>1. legacy \in [Hosts -> LegacyEntries] /\ disk = legacy
  BY DEF Init
<1>2. legacy \in File /\ Unlisted \in Entry
  <2>1. Unlisted \in Entry
    BY MigrationAssumption DEF Unlisted, Entry, Names, NoToks, MaybeToken
  <2>2. \A e \in LegacyEntries : e \in Entry
    BY MigratedFacts DEF MaybeToken
  <2> QED BY <1>1, <2>1, <2>2 DEF File
<1>3. keyring \in [Hosts -> [Slots -> MaybeToken]]
      /\ \A h \in Hosts, u \in Users : keyring[h][u] = NoToken
  <2> DEFINE Ring(t) == [s \in Slots |-> IF s = NoUser THEN t ELSE NoToken]
  <2>0. keyring \in [Hosts -> {Ring(t) : t \in MaybeToken}]
    BY DEF Init
  <2>1. \A h \in Hosts : \E t \in MaybeToken : keyring[h] = Ring(t)
    BY <2>0
  <2>2. keyring = [h \in Hosts |-> keyring[h]]
    BY DEF Init
  <2>3. \A h \in Hosts : keyring[h] \in [Slots -> MaybeToken]
    BY <2>1 DEF MaybeToken
  <2>4. \A h \in Hosts, u \in Users : keyring[h][u] = NoToken
    BY <2>1, MigrationAssumption DEF Slots
  <2> QED BY <2>2, <2>3, <2>4
<1>4. TypeOK
  <2>1. (CHOOSE h \in Hosts : TRUE) \in Hosts
    BY MigrationAssumption
  <2>2. host \in [Procs -> Hosts] /\ got \in [Procs -> Sources]
    BY <2>1 DEF Init, Sources, NoSource, MaybeToken
  <2>3. mem \in [Procs -> File]
    BY <1>2 DEF Init, File
  <2>5. faults \in 0..MaxFaults /\ runs \in 0..MaxRuns
    <3>1. faults = 0 /\ runs = 0
      BY DEF Init
    <3> QED BY <3>1, MigrationAssumption
  <2>4. /\ pc \in [Procs -> Labels] /\ seen \in [Procs -> Versions] /\ version \in Versions
        /\ todo \in [Procs -> SUBSET Hosts]
    BY DEF Init, Labels, Versions
  <2> QED BY <1>1, <1>2, <1>3, <2>2, <2>3, <2>4, <2>5 DEF TypeOK
<1>5. LegacyInv /\ SlotInv /\ VersionInv
  BY <1>1, <1>3 DEF LegacyInv, AllOrNothing, SlotInv, VersionInv, Init
<1>6. \A p \in Procs : CopyInv(p)
  BY DEF Init, CopyInv
<1> QED BY <1>4, <1>5, <1>6 DEF IInv

\* What version "1" and the invariant say of one host.
LEMMA MigratedVersion ==
  ASSUME IInv
  PROVE  VersionMeansMigrated
<1> SUFFICES ASSUME version = "1", NEW h \in Hosts, disk[h].listed
             PROVE  /\ disk[h].users = {disk[h].user}
                    /\ (IF keyring[h][disk[h].user] # NoToken THEN keyring[h][disk[h].user]
                        ELSE disk[h].tok[disk[h].user]) = HostToken(disk[h], keyring[h][NoUser])
  BY DEF VersionMeansMigrated
<1> DEFINE e == disk[h]
           l == legacy[h]
           k == Active(h)
           u == Named(l, HostToken(l, k))
<1>1. /\ e = Migrated(h) /\ e.listed /\ e.user \in Users /\ l \in LegacyEntries
      /\ k \in MaybeToken /\ e.token = l.token
      /\ (e.token = NoToken => keyring[h][e.user] = k)
      /\ (keyring[h][e.user] # NoToken => e.token = NoToken /\ keyring[h][e.user] = k)
  BY Facts, MigratedFacts DEF IInv, VersionInv, AllSettled, SlotInv, Migrated
<1>2. l.listed /\ HostToken(l, k) # NoToken /\ l \in Entry /\ l.users = {}
  <2>1. l.listed /\ HostToken(l, k) # NoToken /\ l \in Entry
    BY <1>1, MigratedFacts DEF Migrated
  <2>2. l.users = {}
    BY <1>1 DEF LegacyEntries, Legacy, Unlisted
  <2> QED BY <2>1, <2>2
<1>3. e = [l EXCEPT !.user = u, !.users = @ \cup {u}, !.tok[u] = l.token]
  BY <1>1, <1>2 DEF Migrated, MigratedEntry
<1>4. u \in Users
  BY <1>1, <1>2, MigrationAssumption DEF Named, HostToken, Entry, MaybeToken
<1>5. e.user = u /\ e.users = {u} /\ e.tok[u] = e.token
  BY <1>2, <1>3, <1>4 DEF Entry
<1> QED BY <1>1, <1>2, <1>5 DEF HostToken, Active

\* The inductive invariant holds of every behaviour of the migration.
THEOREM Invariance == Spec => []IInv
  BY InitIInv, NextPreserves, PTL DEF Spec

\* Every variable of the migration keeps its type.
THEOREM TypeCorrectness == Spec => []TypeOK
  BY Invariance, PTL DEF IInv

\* hosts.yml is untouched or completely migrated, whatever fails, crashes or
\* runs at the same time, and when the version is written no account has lost its token.
THEOREM Soundness == Spec => []MigrationSound
<1>1. IInv => MigrationSound
  BY MigratedVersion DEF IInv, LegacyInv, MigrationSound
<1> QED BY Invariance, <1>1, PTL

\* A host that could authenticate before the migration still can, with the same token.
THEOREM TokensStay == Spec => []TokensKept
<1>1. IInv => TokensKept
  <2> SUFFICES ASSUME IInv, NEW h \in Hosts, legacy[h].listed, HostToken(legacy[h], Active(h)) # NoToken
               PROVE  disk[h].listed /\ HostToken(disk[h], Active(h)) = HostToken(legacy[h], Active(h))
    BY DEF TokensKept, Active
  <2>1. legacy[h] \in LegacyEntries /\ Active(h) \in MaybeToken /\ disk[h] \in {legacy[h], Migrated(h)}
    BY Facts
  <2>2. Migrated(h).listed /\ (Migrated(h) = Unlisted
          \/ HostToken(Migrated(h), Active(h)) = HostToken(legacy[h], Active(h)))
    BY <2>1, MigratedFacts DEF Migrated
  <2>3. Migrated(h) # Unlisted
    BY <2>2 DEF Unlisted
  <2> QED BY <2>1, <2>2, <2>3
<1> QED BY Invariance, <1>1, PTL
=============================================================================
