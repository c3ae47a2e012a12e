---------------------- MODULE CodespaceCommandsProofs ----------------------
(***************************************************************************)
(* For any number of codespaces, of other clients' changes, of steps of a  *)
(* creation and of failing requests: what create and delete report is what *)
(* has happened, delete takes away only what was agreed on, a start is     *)
(* asked for once, the tunnel client of a session has one connection, and  *)
(* an update of a port leaves it as it says.                               *)
(*                                                                         *)
(* Each part has an invariant of its own (LifeInv, WaitInv, LinkInv, PortInv); the  *)
(* last sections show that the commands keep them, in whatever order one   *)
(* part follows another.                                                   *)
(***************************************************************************)
EXTENDS CodespaceCommands, FiniteSetTheorems, TLAPS

-----------------------------------------------------------------------------
(* The waiter.                                                             *)

\* A start that was asked for is remembered in lastState until another state
\* is seen: that is what makes NoSecondStart inductive.
Remembered ==
    /\ started => lastState = "Shutdown"
    /\ pc = "start" => lastState = "Shutdown"

WaitInv == tries \in Nat /\ started \in BOOLEAN /\ Remembered /\ NoSecondStart

LEMMA InitWait == Init => WaitInv
<1> SUFFICES ASSUME Init PROVE WaitInv
    OBVIOUS
<1>1. pc = "called" /\ started = FALSE /\ tries = 0
    BY DEF Init
<1>2. QED
    BY <1>1 DEF WaitInv, Remembered, NoSecondStart

\* The steps of the codespace and of others leave the waiter alone.
LEMMA WaitLeft == WaitInv /\ (Proceed \/ Others \/ UNCHANGED vars) => WaitInv'
<1> SUFFICES ASSUME WaitInv, Proceed \/ Others \/ UNCHANGED vars PROVE WaitInv'
    OBVIOUS
<1>1. UNCHANGED waiter
    BY DEF Proceed, Others, vars, waiter
<1>2. pc' = pc /\ lastState' = lastState /\ tries' = tries /\ started' = started
    BY <1>1 DEF waiter
<1>3. QED
    BY <1>2 DEF WaitInv, Remembered, NoSecondStart

LEMMA CheckPreserves == WaitInv /\ Check => WaitInv'
<1> SUFFICES ASSUME WaitInv, Check PROVE WaitInv'
    OBVIOUS
<1> USE DEF WaitInv, Remembered, NoSecondStart
<1>1. CASE Ready(seen) /\ Return("ready") /\ UNCHANGED lastState
    BY <1>1 DEF Check, Return, Ready
<1>2. CASE ~Ready(seen) /\ KeepState /\ UNCHANGED res
    <2>1. lastState' = seen.state /\ tries' = tries
        BY <1>2 DEF Check, KeepState, Ready
    <2>2. started' <=> started /\ seen.state = "Shutdown"
        BY DEF Check
    <2>3. pc' = "start" => seen.state # lastState /\ seen.state = "Shutdown"
        BY <1>2 DEF Check, Ready, Return
    <2>4. QED
        BY <2>1, <2>2, <2>3
<1>3. QED
    BY <1>1, <1>2 DEF Check

LEMMA StartPreserves == WaitInv /\ Start => WaitInv'
<1> SUFFICES ASSUME WaitInv, Start PROVE WaitInv'
    OBVIOUS
<1> USE DEF WaitInv, Remembered, NoSecondStart
<1>1. lastState' = "Shutdown" /\ started'
    BY DEF Start
<1>2. CASE StartAnswered /\ tries' = 0
    BY <1>1, <1>2 DEF StartAnswered
<1>3. CASE tries' = tries + 1 /\ UNCHANGED <<pc, res>>
    BY <1>1, <1>3
<1>4. CASE Return("error") /\ UNCHANGED tries
    BY <1>1, <1>4 DEF Return
<1>5. QED
    BY <1>2, <1>3, <1>4 DEF Start

LEMMA WaitNextPreserves == WaitInv /\ [Next]_vars => WaitInv'
<1> SUFFICES ASSUME WaitInv, [Next]_vars PROVE WaitInv'
    OBVIOUS
<1> USE DEF WaitInv, Remembered, NoSecondStart
<1>1. CASE Call
    BY <1>1 DEF Call, Return
<1>2. CASE Poll
    BY <1>2 DEF Poll, Return
<1>3. CASE Timeout
    BY <1>3 DEF Timeout, Return
<1>4. QED
    BY <1>1, <1>2, <1>3, CheckPreserves, StartPreserves, WaitLeft DEF Next, Wait

-----------------------------------------------------------------------------
(* create, delete and stop.  Finite sets are counted as in their module.   *)

LEMMA SameCount ==
    ASSUME NEW S
    PROVE  Lifecycle!Cardinality(S) = Cardinality(S) /\ (Lifecycle!IsFiniteSet(S) <=> IsFiniteSet(S))
<1>1. Lifecycle!IsFiniteSet(S) <=> IsFiniteSet(S)
  BY DEF Lifecycle!IsFiniteSet, IsFiniteSet
<1>2. Lifecycle!Cardinality(S) = Cardinality(S)
  BY DEF Lifecycle!Cardinality, Cardinality, Lifecycle!IsFiniteSet, IsFiniteSet
<1> QED BY <1>1, <1>2

LEMMA CountType == ASSUME NEW S, Lifecycle!IsFiniteSet(S) PROVE Lifecycle!Cardinality(S) \in Nat
BY SameCount, FS_CardinalityType

LEMMA CountSubset ==
    ASSUME NEW S, Lifecycle!IsFiniteSet(S), NEW T \in SUBSET S
    PROVE  Lifecycle!IsFiniteSet(T) /\ Lifecycle!Cardinality(T) <= Lifecycle!Cardinality(S)
<1>1. IsFiniteSet(T) /\ Cardinality(T) <= Cardinality(S)
  BY SameCount, FS_Subset
<1> QED BY <1>1, SameCount

LEMMA CountAdd ==
    ASSUME NEW S, Lifecycle!IsFiniteSet(S), NEW x, x \notin S
    PROVE  Lifecycle!Cardinality(S \cup {x}) = Lifecycle!Cardinality(S) + 1
<1>1. Cardinality(S \cup {x}) = Cardinality(S) + 1
  BY SameCount, FS_AddElement
<1> QED BY <1>1, SameCount

\* Each command has its own steps, and returns at the end.
CommandInv ==
    /\ op.name = "create" => at \in {"prepare", "create", "poll", "ask", "perms", "done"}
    /\ op.name = "delete" => at \in {"list", "confirm", "deleting", "done"}
    /\ op.name = "stop" => at \in {"list", "stop", "done"}
    /\ at # "done" => out = "none"

\* Nothing has been made before the request that is answered.
CreateInv ==
    /\ made = {} \/ \E c \in Codespaces : made = {c}
    /\ op.name # "create" \/ at \in {"prepare", "create", "ask", "perms"} => made = {}
    /\ at = "poll" => made = mine /\ made # {}
    /\ op.name = "create" /\ out = "ok" => made = mine /\ made # {}

\* The codespaces whose deletion has been answered are gone and counted.
Deleted == codespacesToDelete \ (asked \cup failures)
Settled ==
    /\ asked \cap failures = {}
    /\ \A c \in Deleted : life[c] = "gone"
    /\ deletedCodespaces = Lifecycle!Cardinality(Deleted)

DeleteInv ==
    /\ at \in {"list", "confirm"} => asked = {} /\ failures = {} /\ deletedCodespaces = 0
    /\ at = "list" => codespacesToDelete = {} /\ todo = {} /\ agreed = {}
    /\ op.name # "delete" => codespacesToDelete = {}
    /\ at = "deleting" => todo = {} /\ codespacesToDelete # {} /\ Settled
    /\ op.name = "delete" /\ at = "done" /\ asked = {} /\ todo = {} =>
         Settled /\ (out = "ok" => failures = {} /\ codespacesToDelete # {})

\* What may be deleted was fetched, is old enough, and was safe or agreed on.
AgreedInv ==
    \A c \in codespacesToDelete :
      /\ c \in DOMAIN listed
      /\ op.days => listed[c].idle
      /\ op.skipConfirm \/ ~listed[c].unsaved \/ c \in agreed

LifeInv == Lifecycle!LifecycleBounds /\ Lifecycle!TypeOK /\ CommandInv /\ CreateInv /\ DeleteInv /\ AgreedInv

-----------------------------------------------------------------------------
LEMMA EmptyCount == Lifecycle!Cardinality({}) = 0 /\ Lifecycle!IsFiniteSet({})
BY FS_EmptySet, SameCount

LEMMA InitLife == Lifecycle!LifecycleBounds /\ Lifecycle!Init => LifeInv
<1> SUFFICES ASSUME Lifecycle!LifecycleBounds, Lifecycle!Init PROVE LifeInv
  OBVIOUS
<1>1. Lifecycle!Cardinality(Codespaces) \in Nat
  BY CountType DEF Lifecycle!LifecycleBounds
<1>2. Lifecycle!TypeOK
  <2>1. op \in Lifecycle!Op /\ at \in {"prepare", "list"} /\ consent \in {"not_needed", "needed"}
    BY DEF Lifecycle!Init
  <2>2. life \in [Codespaces -> Lifecycle!Life] /\ unsaved \subseteq Codespaces /\ idle \subseteq Codespaces
    BY DEF Lifecycle!Init, Lifecycle!Life, Lifecycle!Existing
  <2>3. DOMAIN listed = {}
    BY DEF Lifecycle!Init, Lifecycle!Fresh
  <2>4. Lifecycle!Fresh /\ faults = 0
    BY DEF Lifecycle!Init
  <2>5. 0 \in 0..Lifecycle!Cardinality(Codespaces) /\ 0 \in 0..MaxManaged /\ 0 \in 0..MaxFaults
    BY <1>1 DEF Lifecycle!LifecycleBounds
  <2>6. /\ agreed = {} /\ codespacesToDelete = {} /\ asked = {} /\ failures = {} /\ todo = {}
        /\ mine = {} /\ made = {} /\ again = FALSE /\ out = "none" /\ checker = "off" /\ done = "none"
        /\ deletedCodespaces = 0 /\ managed = 0
    BY <2>4 DEF Lifecycle!Fresh
  <2> QED BY <2>1, <2>2, <2>3, <2>4, <2>5, <2>6 DEF Lifecycle!TypeOK
<1>3. CommandInv /\ CreateInv /\ DeleteInv /\ AgreedInv
  BY DEF Lifecycle!Init, Lifecycle!Fresh, CommandInv, CreateInv, DeleteInv, AgreedInv
<1> QED BY <1>2, <1>3 DEF LifeInv

LEMMA Counts ==
  ASSUME LifeInv, Lifecycle!Fault \/ Lifecycle!NoFault
  PROVE  faults' \in 0..MaxFaults
BY DEF LifeInv, Lifecycle!LifecycleBounds, Lifecycle!TypeOK, Lifecycle!Fault, Lifecycle!NoFault

\* What is gone stays gone.
LEMMA LifeKeeps ==
  ASSUME LifeInv, UNCHANGED <<op, at, out, mine, made, Lifecycle!deletion>>,
         \A c \in Codespaces : life[c] = "gone" => life'[c] = "gone"
  PROVE  CommandInv' /\ CreateInv' /\ DeleteInv' /\ AgreedInv'
<1>1. Deleted' = Deleted /\ Deleted \subseteq Codespaces
  BY DEF LifeInv, Lifecycle!TypeOK, Deleted, Lifecycle!deletion
<1>2. Settled => Settled'
  BY <1>1 DEF Settled, Lifecycle!deletion
<1> QED BY <1>2 DEF LifeInv, CommandInv, CreateInv, DeleteInv, AgreedInv, Lifecycle!deletion

LEMMA ProvisionedPreserves == LifeInv /\ Lifecycle!Provisioned => LifeInv'
<1> SUFFICES ASSUME LifeInv, Lifecycle!Provisioned PROVE LifeInv'
  OBVIOUS
<1>1. PICK c \in Codespaces : life[c] = "provisioning" /\ Lifecycle!SetLife(c, "available")
  BY DEF Lifecycle!Provisioned
<1>2. life' \in [Codespaces -> Lifecycle!Life] /\ \A d \in Codespaces : life[d] = "gone" => life'[d] = "gone"
  BY <1>1 DEF LifeInv, Lifecycle!TypeOK, Lifecycle!SetLife, Lifecycle!Life
<1>3. Lifecycle!TypeOK'
  BY <1>1, <1>2 DEF LifeInv, Lifecycle!TypeOK, Lifecycle!SetLife, Lifecycle!Provisioned, Lifecycle!creation,
     Lifecycle!deletion
<1> QED BY <1>2, <1>3, LifeKeeps DEF LifeInv, Lifecycle!Provisioned, Lifecycle!creation,
   Lifecycle!LifecycleBounds

LEMMA LifeOthersPreserve == LifeInv /\ Lifecycle!Others => LifeInv'
<1> SUFFICES ASSUME LifeInv, Lifecycle!Others PROVE LifeInv'
  OBVIOUS
<1>1. /\ life' \in [Codespaces -> Lifecycle!Life] /\ unsaved' \subseteq Codespaces /\ idle' \subseteq Codespaces
      /\ consent' \in {"not_needed", "needed", "given"}
      /\ \A d \in Codespaces : life[d] = "gone" => life'[d] = "gone"
  BY DEF LifeInv, Lifecycle!TypeOK, Lifecycle!Others, Lifecycle!Existing, Lifecycle!Exists, Lifecycle!Life
<1>2. managed' \in 0..MaxManaged
  BY DEF LifeInv, Lifecycle!LifecycleBounds, Lifecycle!TypeOK, Lifecycle!Others
<1>3. Lifecycle!TypeOK'
  BY <1>1, <1>2 DEF LifeInv, Lifecycle!TypeOK, Lifecycle!Others, Lifecycle!creation, Lifecycle!deletion
<1> QED BY <1>1, <1>3, LifeKeeps DEF LifeInv, Lifecycle!Others, Lifecycle!creation, Lifecycle!LifecycleBounds
-----------------------------------------------------------------------------
\* A step of create: nothing is listed or deleted.
LEMMA CreateFrame ==
  ASSUME LifeInv, op.name = "create", op'.name = "create", UNCHANGED Lifecycle!deletion,
         at' \in {"create", "poll", "ask", "perms", "done"}
  PROVE  DeleteInv' /\ AgreedInv'
BY DEF LifeInv, DeleteInv, AgreedInv, Lifecycle!deletion

LEMMA ByCreate == LifeInv /\ at \in {"prepare", "create", "poll", "ask", "perms"} => op.name = "create"
BY DEF LifeInv, Lifecycle!TypeOK, CommandInv, Lifecycle!Op

LEMMA PreparePreserves == LifeInv /\ Lifecycle!Prepare => LifeInv'
<1> SUFFICES ASSUME LifeInv, Lifecycle!Prepare PROVE LifeInv'
  OBVIOUS
<1>1. op.name = "create" /\ made = {} /\ out = "none"
  BY ByCreate DEF Lifecycle!Prepare, LifeInv, CreateInv, CommandInv
<1>2. /\ at' \in {"create", "done"} /\ out' \in {"none", "error"} /\ (at' = "create" => out' = "none")
      /\ UNCHANGED <<Lifecycle!service, op, Lifecycle!creation, Lifecycle!deletion>>
  BY <1>1 DEF Lifecycle!Prepare, Lifecycle!Goto, Lifecycle!End
<1>3. faults' \in 0..MaxFaults
  BY Counts DEF Lifecycle!Prepare
<1>4. Lifecycle!TypeOK'
  BY <1>2, <1>3 DEF LifeInv, Lifecycle!TypeOK, Lifecycle!service, Lifecycle!creation, Lifecycle!deletion
<1>5. CommandInv' /\ CreateInv'
  BY <1>1, <1>2 DEF LifeInv, CommandInv, CreateInv, Lifecycle!creation
<1> QED BY <1>1, <1>2, <1>4, <1>5, CreateFrame DEF LifeInv, Lifecycle!LifecycleBounds

LEMMA StartCreatePreserves == LifeInv /\ Lifecycle!StartCreate => LifeInv'
<1> SUFFICES ASSUME LifeInv, Lifecycle!StartCreate PROVE LifeInv'
  OBVIOUS
<1>1. op.name = "create" /\ made = {} /\ out = "none"
  BY ByCreate DEF Lifecycle!StartCreate, LifeInv, CreateInv, CommandInv
<1>2. UNCHANGED <<op, again, checker, done, Lifecycle!deletion>> /\ (Lifecycle!Fault \/ Lifecycle!NoFault)
  BY DEF Lifecycle!StartCreate
<1>3. faults' \in 0..MaxFaults
  BY <1>2, Counts
<1>4. CASE UNCHANGED <<Lifecycle!service, mine, made>> /\ (Lifecycle!AfterRefusal \/ Lifecycle!End("error"))
  <2>1. at' \in {"ask", "done"} /\ out' \in {"none", "error"} /\ (at' = "ask" => out' = "none")
    BY <1>1, <1>4 DEF Lifecycle!AfterRefusal, Lifecycle!Goto, Lifecycle!End
  <2>2. Lifecycle!TypeOK'
    BY <1>2, <1>3, <1>4, <2>1 DEF LifeInv, Lifecycle!TypeOK, Lifecycle!service, Lifecycle!deletion
  <2>3. CommandInv' /\ CreateInv'
    BY <1>1, <1>2, <1>4, <2>1 DEF LifeInv, CommandInv, CreateInv
  <2> QED BY <1>1, <1>2, <2>1, <2>2, <2>3, CreateFrame DEF LifeInv, Lifecycle!LifecycleBounds
<1>5. ASSUME NEW c \in Codespaces, life[c] = "unused", made' = made \cup {c},
             NEW l \in {"available", "provisioning"}, Lifecycle!SetLife(c, l),
             \/ Lifecycle!End("ok") /\ mine' = {c}
             \/ Lifecycle!Goto("poll") /\ mine' = {c}
             \/ Lifecycle!LostCreate
      PROVE  LifeInv'
  <2>1. /\ at' \in {"poll", "done"} /\ out' \in {"none", "ok", "error"} /\ (at' = "poll" => out' = "none")
        /\ mine' \subseteq Codespaces /\ (at' = "poll" \/ out' = "ok" => mine' = {c})
    BY <1>1, <1>5 DEF LifeInv, Lifecycle!TypeOK, Lifecycle!LostCreate, Lifecycle!Goto, Lifecycle!End
  <2>2. made' = {c}
    BY <1>1, <1>5
  <2>3. life' \in [Codespaces -> Lifecycle!Life]
    BY <1>5 DEF LifeInv, Lifecycle!TypeOK, Lifecycle!SetLife, Lifecycle!Life
  <2>4. Lifecycle!TypeOK'
    BY <1>2, <1>3, <1>5, <2>1, <2>2, <2>3 DEF LifeInv, Lifecycle!TypeOK, Lifecycle!SetLife, Lifecycle!deletion
  <2>5. CommandInv' /\ CreateInv'
    BY <1>1, <1>2, <2>1, <2>2 DEF CommandInv, CreateInv
  <2> QED BY <1>1, <1>2, <2>1, <2>4, <2>5, CreateFrame DEF LifeInv, Lifecycle!LifecycleBounds
<1> QED BY <1>4, <1>5 DEF Lifecycle!StartCreate

\* A step that only goes from one place of create to another.
LEMMA Onwards ==
  ASSUME LifeInv, op.name = "create", at \in {"poll", "ask", "perms"},
         UNCHANGED <<Lifecycle!service, Lifecycle!deletion, mine, made>>,
         op' \in Lifecycle!Op, op'.name = "create",
         again' \in BOOLEAN, checker' \in {"off", "polling", "ended"},
         done' \in {"none", "accepted", "error"}, faults' \in 0..MaxFaults,
         \/ at' \in {"create", "perms"} /\ out' = out /\ at # "poll"
         \/ at' = "done" /\ out' = "error"
         \/ at' = "done" /\ out' = "ok" /\ at = "poll"
  PROVE  LifeInv'
<1>1. Lifecycle!TypeOK'
  BY DEF LifeInv, Lifecycle!TypeOK, Lifecycle!service, Lifecycle!deletion
<1>2. CommandInv' /\ CreateInv'
  BY DEF LifeInv, CommandInv, CreateInv
<1>3. at' \in {"create", "poll", "ask", "perms", "done"}
  OBVIOUS
<1> QED BY <1>1, <1>2, <1>3, CreateFrame DEF LifeInv, Lifecycle!LifecycleBounds

LEMMA CreatePreserves ==
  ASSUME LifeInv, Lifecycle!PollCodespace \/ Lifecycle!Ask \/ Lifecycle!ReceiveDone \/ Lifecycle!Deadline
  PROVE  LifeInv'
<1>1. /\ op \in Lifecycle!Op /\ again \in BOOLEAN /\ checker \in {"off", "polling", "ended"}
      /\ done \in {"none", "accepted", "error"} /\ faults \in 0..MaxFaults
  BY DEF LifeInv, Lifecycle!TypeOK
<1>2. CASE Lifecycle!PollCodespace
  <2>1. faults' \in 0..MaxFaults
    BY <1>2, Counts DEF Lifecycle!PollCodespace
  <2>2. /\ at = "poll" /\ UNCHANGED <<Lifecycle!service, op, Lifecycle!creation, Lifecycle!deletion>>
        /\ at' = "done" /\ out' \in {"ok", "error"}
    BY <1>2 DEF Lifecycle!PollCodespace, Lifecycle!End
  <2> QED BY <1>1, <2>1, <2>2, ByCreate, Onwards DEF Lifecycle!creation
<1>3. CASE Lifecycle!Ask
  <2>1. faults' \in 0..MaxFaults
    BY <1>3, Counts DEF Lifecycle!Ask
  <2>2. op' \in Lifecycle!Op /\ op'.name = op.name
    BY <1>1, <1>3 DEF Lifecycle!Ask, Lifecycle!Op
  <2>3. /\ at = "ask" /\ UNCHANGED <<Lifecycle!service, done, mine, made, Lifecycle!deletion>> /\ again' = TRUE
        /\ checker' \in {checker, "polling"}
        /\ (at' \in {"create", "perms"} /\ out' = out) \/ (at' = "done" /\ out' = "error")
    BY <1>3 DEF Lifecycle!Ask, Lifecycle!Goto, Lifecycle!End
  <2> QED BY <1>1, <2>1, <2>2, <2>3, ByCreate, Onwards
<1>4. CASE Lifecycle!ReceiveDone
  <2>1. /\ at = "perms" /\ UNCHANGED <<Lifecycle!service, op, Lifecycle!creation, Lifecycle!deletion, faults>>
        /\ (at' = "create" /\ out' = out) \/ (at' = "done" /\ out' = "error")
    BY <1>4 DEF Lifecycle!ReceiveDone, Lifecycle!Goto, Lifecycle!End
  <2> QED BY <1>1, <2>1, ByCreate, Onwards DEF Lifecycle!creation
<1>5. CASE Lifecycle!Deadline
  <2>1. /\ at \in {"poll", "perms"} /\ UNCHANGED <<Lifecycle!service, op, Lifecycle!creation, Lifecycle!deletion, faults>>
        /\ at' = "done" /\ out' = "error"
    BY <1>5 DEF Lifecycle!Deadline, Lifecycle!HasDeadline, Lifecycle!End
  <2> QED BY <1>1, <2>1, ByCreate, Onwards DEF Lifecycle!creation
<1> QED BY <1>2, <1>3, <1>4, <1>5

LEMMA CheckPermissionsPreserves == LifeInv /\ Lifecycle!CheckPermissions => LifeInv'
<1> SUFFICES ASSUME LifeInv, Lifecycle!CheckPermissions PROVE LifeInv'
  OBVIOUS
<1>1. faults' \in 0..MaxFaults
  BY Counts DEF Lifecycle!CheckPermissions
<1>2. Lifecycle!TypeOK'
  BY <1>1 DEF LifeInv, Lifecycle!TypeOK, Lifecycle!CheckPermissions, Lifecycle!service, Lifecycle!deletion
<1> QED BY <1>2, LifeKeeps DEF LifeInv, Lifecycle!CheckPermissions, Lifecycle!service,
   Lifecycle!LifecycleBounds
-----------------------------------------------------------------------------
\* delete and stop have made nothing.
LEMMA NotCreate ==
  ASSUME LifeInv, op.name # "create", UNCHANGED <<op, Lifecycle!creation>>, at' # "poll"
  PROVE  CreateInv'
<1>1. made = {} /\ made' = {} /\ op' = op
  BY DEF LifeInv, CreateInv, Lifecycle!creation
<1> QED BY <1>1 DEF CreateInv

LEMMA ByDelete ==
  ASSUME LifeInv
  PROVE  /\ at \in {"list", "confirm", "deleting", "stop"} => op.name # "create" /\ out = "none"
         /\ at \in {"confirm", "deleting"} => op.name = "delete"
         /\ at = "stop" => op.name = "stop"
BY DEF LifeInv, Lifecycle!TypeOK, CommandInv, Lifecycle!Op

LEMMA NothingDeleted ==
  ASSUME codespacesToDelete' = {}, asked' = {}, failures' = {}, deletedCodespaces' = 0
  PROVE  Settled'
<1>1. Deleted' = {}
  BY DEF Deleted
<1> QED BY <1>1, EmptyCount DEF Settled

LEMMA ListPreserves == LifeInv /\ Lifecycle!List => LifeInv'
<1> SUFFICES ASSUME LifeInv, Lifecycle!List PROVE LifeInv'
  OBVIOUS
<1>1. /\ op.name # "create" /\ out = "none" /\ codespacesToDelete = {} /\ agreed = {} /\ todo = {}
      /\ asked = {} /\ failures = {} /\ deletedCodespaces = 0
  BY ByDelete DEF Lifecycle!List, LifeInv, DeleteInv
<1>2. /\ UNCHANGED <<Lifecycle!service, op, Lifecycle!creation, agreed, codespacesToDelete, asked, failures, deletedCodespaces>>
      /\ Lifecycle!Fault \/ Lifecycle!NoFault
  BY DEF Lifecycle!List
<1>3. faults' \in 0..MaxFaults
  BY <1>2, Counts
<1>4. DOMAIN listed' \subseteq Codespaces /\ todo' \subseteq DOMAIN listed'
  <2>1. ASSUME NEW cs \in IF op.all THEN {Lifecycle!ListCodespaces} ELSE Lifecycle!Choices,
               listed' = Lifecycle!Seen(cs), todo' = cs
        PROVE  DOMAIN listed' \subseteq Codespaces /\ todo' \subseteq DOMAIN listed'
    <3>1. cs \subseteq Codespaces
      BY <2>1 DEF Lifecycle!Choices, Lifecycle!Running, Lifecycle!ListCodespaces, Lifecycle!Existing
    <3>2. DOMAIN listed' = cs
      BY <2>1 DEF Lifecycle!Seen
    <3> QED BY <2>1, <3>1, <3>2
  <2>2. CASE UNCHANGED <<listed, todo>>
    BY <2>2 DEF LifeInv, Lifecycle!TypeOK
  <2> QED BY <2>1, <2>2 DEF Lifecycle!List
<1>5. \/ at' = "stop" /\ op.name = "stop" /\ out' = "none"
      \/ at' = "confirm" /\ op.name # "stop" /\ out' = "none"
      \/ at' = "done" /\ out' = "error"
  BY <1>1 DEF Lifecycle!List, Lifecycle!Goto, Lifecycle!End
<1>6. Lifecycle!TypeOK'
  BY <1>1, <1>2, <1>3, <1>4, <1>5 DEF LifeInv, Lifecycle!TypeOK, Lifecycle!service, Lifecycle!creation
<1>7. CommandInv' /\ CreateInv'
  BY <1>1, <1>2, <1>5, NotCreate DEF LifeInv, CommandInv
<1>8. DeleteInv' /\ AgreedInv'
  BY <1>1, <1>2, <1>5, NothingDeleted DEF DeleteInv, AgreedInv
<1> QED BY <1>6, <1>7, <1>8 DEF LifeInv, Lifecycle!LifecycleBounds

LEMMA ConfirmPreserves == LifeInv /\ Lifecycle!Confirm => LifeInv'
<1> SUFFICES ASSUME LifeInv, Lifecycle!Confirm PROVE LifeInv'
  OBVIOUS
<1>1. /\ op.name = "delete" /\ out = "none" /\ asked = {} /\ failures = {} /\ deletedCodespaces = 0
  BY ByDelete DEF Lifecycle!Confirm, LifeInv, DeleteInv
<1>2. /\ UNCHANGED <<Lifecycle!service, op, Lifecycle!creation, listed, asked, failures, deletedCodespaces>>
      /\ Lifecycle!Fault \/ Lifecycle!NoFault
  BY DEF Lifecycle!Confirm, Lifecycle!OnlyTaken
<1>3. faults' \in 0..MaxFaults
  BY <1>2, Counts
<1>4. PICK c \in todo :
        /\ \/ todo' = todo \ {c} /\ at' = "confirm" /\ out' = "none"
           \/ todo' = todo /\ at' = "done" /\ out' = "error"
        /\ agreed' \in {agreed, agreed \cup {c}}
        /\ \/ codespacesToDelete' = codespacesToDelete
           \/ /\ codespacesToDelete' = codespacesToDelete \cup {c} /\ ~Lifecycle!Skipped(c)
              /\ Lifecycle!NeedsNoPrompt(c) \/ agreed' = agreed \cup {c}
  BY <1>1 DEF Lifecycle!Confirm, Lifecycle!OnlyTaken, Lifecycle!Goto, Lifecycle!End
<1>5. c \in DOMAIN listed
  BY <1>4 DEF LifeInv, Lifecycle!TypeOK
<1>6. Lifecycle!TypeOK'
  BY <1>1, <1>2, <1>3, <1>4, <1>5 DEF LifeInv, Lifecycle!TypeOK, Lifecycle!service, Lifecycle!creation
<1>7. CommandInv' /\ CreateInv'
  BY <1>1, <1>2, <1>4, NotCreate DEF LifeInv, CommandInv
<1>8. DeleteInv'
  BY <1>1, <1>2, <1>4 DEF DeleteInv
<1>9. AgreedInv'
  BY <1>2, <1>4, <1>5 DEF LifeInv, AgreedInv, Lifecycle!Skipped, Lifecycle!NeedsNoPrompt
<1> QED BY <1>6, <1>7, <1>8, <1>9 DEF LifeInv, Lifecycle!LifecycleBounds

LEMMA StartDeletingPreserves == LifeInv /\ Lifecycle!StartDeleting => LifeInv'
<1> SUFFICES ASSUME LifeInv, Lifecycle!StartDeleting PROVE LifeInv'
  OBVIOUS
<1>1. /\ op.name = "delete" /\ out = "none" /\ asked = {} /\ failures = {} /\ deletedCodespaces = 0 /\ todo = {}
  BY ByDelete DEF Lifecycle!StartDeleting, LifeInv, DeleteInv
<1>2. UNCHANGED <<Lifecycle!service, op, Lifecycle!creation, listed, todo, agreed, codespacesToDelete, failures,
                  deletedCodespaces, faults>>
  BY DEF Lifecycle!StartDeleting
<1>3. /\ asked' = codespacesToDelete
      /\ \/ at' = "done" /\ out' = "error" /\ codespacesToDelete = {}
         \/ at' = "deleting" /\ out' = "none" /\ codespacesToDelete # {}
  BY <1>1 DEF Lifecycle!StartDeleting, Lifecycle!Goto, Lifecycle!End
<1>4. Lifecycle!TypeOK'
  BY <1>1, <1>2, <1>3 DEF LifeInv, Lifecycle!TypeOK, Lifecycle!service, Lifecycle!creation
<1>5. CommandInv' /\ CreateInv'
  BY <1>1, <1>2, <1>3, NotCreate DEF LifeInv, CommandInv
<1>6. Settled'
  <2>1. Deleted' = {}
    BY <1>2, <1>3 DEF Deleted
  <2> QED BY <1>1, <1>2, <2>1, EmptyCount DEF Settled
<1>7. DeleteInv'
  BY <1>1, <1>2, <1>3, <1>6 DEF DeleteInv
<1>8. AgreedInv'
  BY <1>2 DEF LifeInv, AgreedInv
<1> QED BY <1>4, <1>5, <1>7, <1>8 DEF LifeInv, Lifecycle!LifecycleBounds

LEMMA DeletedGrows ==
  ASSUME LifeInv, at = "deleting", NEW c \in asked, UNCHANGED codespacesToDelete, asked' = asked \ {c},
         \/ life' = [life EXCEPT ![c] = "gone"] /\ UNCHANGED failures /\ deletedCodespaces' = deletedCodespaces + 1
         \/ /\ life' \in {life, [life EXCEPT ![c] = "gone"]}
            /\ failures' = failures \cup {c} /\ UNCHANGED deletedCodespaces
  PROVE  Settled' /\ deletedCodespaces' \in 0..Lifecycle!Cardinality(Codespaces)
<1>1. /\ Lifecycle!IsFiniteSet(Codespaces) /\ codespacesToDelete \subseteq Codespaces /\ c \in codespacesToDelete
      /\ c \in Codespaces /\ failures \subseteq codespacesToDelete /\ asked \subseteq codespacesToDelete
      /\ life \in [Codespaces -> Lifecycle!Life] /\ Settled
  BY DEF LifeInv, Lifecycle!LifecycleBounds, Lifecycle!TypeOK, DeleteInv
<1>2. \A d \in Deleted : d # c /\ life[d] = "gone"
  BY <1>1 DEF Settled, Deleted
<1>3. Lifecycle!IsFiniteSet(Deleted) /\ Deleted \subseteq Codespaces
  BY <1>1, CountSubset DEF Deleted
<1>4. CASE life' = [life EXCEPT ![c] = "gone"] /\ UNCHANGED failures /\ deletedCodespaces' = deletedCodespaces + 1
  <2>1. Deleted' = Deleted \cup {c}
    BY <1>1, <1>4 DEF Deleted, Settled
  <2>2. Lifecycle!Cardinality(Deleted') = Lifecycle!Cardinality(Deleted) + 1 /\ Lifecycle!Cardinality(Deleted) \in Nat
    BY <1>2, <1>3, <2>1, CountAdd, CountType
  <2>3. Deleted' \subseteq Codespaces
    BY <1>1, <1>3, <2>1
  <2>4. deletedCodespaces' = Lifecycle!Cardinality(Deleted') /\ deletedCodespaces' \in Nat
    BY <1>1, <1>4, <2>2 DEF Settled
  <2>5. Lifecycle!Cardinality(Deleted') <= Lifecycle!Cardinality(Codespaces) /\ Lifecycle!Cardinality(Codespaces) \in Nat
    BY <1>1, <2>3, CountSubset, CountType
  <2>6. asked' \cap failures' = {}
    BY <1>1, <1>4 DEF Settled
  <2>7. \A d \in Deleted' : life'[d] = "gone"
    BY <1>1, <1>2, <1>3, <1>4, <2>1
  <2> QED BY <2>4, <2>5, <2>6, <2>7 DEF Settled
<1>5. CASE /\ life' \in {life, [life EXCEPT ![c] = "gone"]}
           /\ failures' = failures \cup {c} /\ UNCHANGED deletedCodespaces
  <2>1. Deleted' = Deleted
    BY <1>1, <1>5 DEF Deleted
  <2>2. asked' \cap failures' = {}
    BY <1>1, <1>5 DEF Settled
  <2>3. \A d \in Deleted' : life'[d] = "gone"
    BY <1>1, <1>2, <1>3, <1>5, <2>1
  <2>4. deletedCodespaces' = Lifecycle!Cardinality(Deleted')
    BY <1>1, <1>5, <2>1 DEF Settled
  <2>5. deletedCodespaces' \in 0..Lifecycle!Cardinality(Codespaces)
    BY <1>5 DEF LifeInv, Lifecycle!TypeOK
  <2> QED BY <2>2, <2>3, <2>4, <2>5 DEF Settled
<1> QED BY <1>4, <1>5

LEMMA DeletePreserves ==
  ASSUME LifeInv, NEW c \in Codespaces, Lifecycle!DeleteCodespace(c)
  PROVE  LifeInv'
<1>1. /\ op.name = "delete" /\ out = "none" /\ at = "deleting" /\ c \in asked
  BY ByDelete DEF Lifecycle!DeleteCodespace
<1>2. /\ UNCHANGED <<op, at, out, Lifecycle!creation, listed, todo, agreed, codespacesToDelete>> /\ asked' = asked \ {c}
      /\ UNCHANGED <<unsaved, idle, consent, managed>> /\ (Lifecycle!Fault \/ Lifecycle!NoFault)
      /\ \/ /\ life' = [life EXCEPT ![c] = "gone"] /\ UNCHANGED failures
            /\ deletedCodespaces' = deletedCodespaces + 1
         \/ /\ life' \in {life, [life EXCEPT ![c] = "gone"]}
            /\ failures' = failures \cup {c} /\ UNCHANGED deletedCodespaces
  BY DEF Lifecycle!DeleteCodespace, Lifecycle!Deletes, Lifecycle!SetLife, Lifecycle!DeletedOne,
     Lifecycle!FailedOne, Lifecycle!OthersOf, Lifecycle!service
<1>3. faults' \in 0..MaxFaults
  BY <1>2, Counts
<1>4. Settled' /\ deletedCodespaces' \in 0..Lifecycle!Cardinality(Codespaces)
  BY <1>1, <1>2, DeletedGrows
<1>5. life' \in [Codespaces -> Lifecycle!Life]
  BY <1>2 DEF LifeInv, Lifecycle!TypeOK, Lifecycle!Life
<1>6. asked' \subseteq codespacesToDelete' /\ failures' \subseteq codespacesToDelete'
  BY <1>1, <1>2 DEF LifeInv, Lifecycle!TypeOK
<1>7. Lifecycle!TypeOK'
  <2>1. /\ UNCHANGED <<op, at, out, again, checker, done, mine, made, listed, todo, agreed, codespacesToDelete>>
        /\ UNCHANGED <<unsaved, idle, consent, managed>>
    BY DEF Lifecycle!DeleteCodespace, Lifecycle!Deletes, Lifecycle!SetLife, Lifecycle!service,
       Lifecycle!creation
  <2>2. /\ unsaved' \subseteq Codespaces /\ idle' \subseteq Codespaces
        /\ consent' \in {"not_needed", "needed", "given"} /\ managed' \in 0..MaxManaged
    BY <2>1 DEF LifeInv, Lifecycle!TypeOK
  <2>3. /\ op' \in Lifecycle!Op /\ at' = "deleting" /\ out' = "none"
        /\ again' \in BOOLEAN /\ checker' \in {"off", "polling", "ended"} /\ done' \in {"none", "accepted", "error"}
        /\ mine' \subseteq Codespaces /\ made' \subseteq Codespaces
    BY <1>1, <2>1 DEF LifeInv, Lifecycle!TypeOK
  <2>4. /\ DOMAIN listed' \subseteq Codespaces /\ todo' \subseteq DOMAIN listed' /\ agreed' \subseteq DOMAIN listed'
        /\ codespacesToDelete' \subseteq DOMAIN listed'
    BY <2>1 DEF LifeInv, Lifecycle!TypeOK
  <2> QED BY <1>3, <1>4, <1>5, <1>6, <2>2, <2>3, <2>4 DEF Lifecycle!TypeOK
<1>8. CommandInv' /\ CreateInv'
  BY <1>1, <1>2, NotCreate DEF LifeInv, CommandInv
<1>9. DeleteInv' /\ AgreedInv'
  BY <1>1, <1>2, <1>4 DEF LifeInv, DeleteInv, AgreedInv
<1> QED BY <1>7, <1>8, <1>9 DEF LifeInv, Lifecycle!LifecycleBounds

LEMMA GroupWaitPreserves == LifeInv /\ Lifecycle!GroupWait => LifeInv'
<1> SUFFICES ASSUME LifeInv, Lifecycle!GroupWait PROVE LifeInv'
  OBVIOUS
<1>1. op.name = "delete" /\ at = "deleting" /\ asked = {}
  BY ByDelete DEF Lifecycle!GroupWait
<1>2. UNCHANGED <<Lifecycle!service, op, Lifecycle!creation, Lifecycle!deletion, faults>> /\ at' = "done"
      /\ out' = IF failures = {} THEN "ok" ELSE "error"
  BY DEF Lifecycle!GroupWait, Lifecycle!End
<1>3. Lifecycle!TypeOK'
  BY <1>2 DEF LifeInv, Lifecycle!TypeOK, Lifecycle!service, Lifecycle!creation, Lifecycle!deletion
<1>4. CommandInv' /\ CreateInv'
  BY <1>1, <1>2, NotCreate DEF LifeInv, CommandInv
<1>5. Deleted' = Deleted
  BY <1>2 DEF Deleted, Lifecycle!deletion
<1>6. Settled' /\ codespacesToDelete # {}
  BY <1>1, <1>2, <1>5 DEF LifeInv, DeleteInv, Settled, Lifecycle!service, Lifecycle!deletion
<1>7. DeleteInv' /\ AgreedInv'
  BY <1>1, <1>2, <1>6 DEF LifeInv, DeleteInv, AgreedInv, Lifecycle!deletion
<1> QED BY <1>3, <1>4, <1>7 DEF LifeInv, Lifecycle!LifecycleBounds

LEMMA StopPreserves == LifeInv /\ Lifecycle!StopCodespace => LifeInv'
<1> SUFFICES ASSUME LifeInv, Lifecycle!StopCodespace PROVE LifeInv'
  OBVIOUS
<1>1. op.name = "stop" /\ at = "stop"
  BY ByDelete DEF Lifecycle!StopCodespace
<1>2. /\ UNCHANGED <<op, Lifecycle!creation, Lifecycle!deletion>> /\ (Lifecycle!Fault \/ Lifecycle!NoFault)
      /\ at' = "done" /\ out' \in {"ok", "error"}
  BY DEF Lifecycle!StopCodespace, Lifecycle!End
<1>3. UNCHANGED <<unsaved, idle, consent, managed>> /\ life' \in [Codespaces -> Lifecycle!Life]
  BY DEF Lifecycle!StopCodespace, Lifecycle!Stops, Lifecycle!SetLife, Lifecycle!service, LifeInv,
     Lifecycle!TypeOK, Lifecycle!Life
<1>4. faults' \in 0..MaxFaults
  BY <1>2, Counts
<1>5. Lifecycle!TypeOK'
  BY <1>2, <1>3, <1>4 DEF LifeInv, Lifecycle!TypeOK, Lifecycle!creation, Lifecycle!deletion
<1>6. CommandInv' /\ CreateInv'
  BY <1>1, <1>2, NotCreate DEF LifeInv, CommandInv
<1>7. DeleteInv' /\ AgreedInv'
  BY <1>1, <1>2 DEF LifeInv, DeleteInv, AgreedInv, Lifecycle!deletion
<1> QED BY <1>5, <1>6, <1>7 DEF LifeInv, Lifecycle!LifecycleBounds

LEMMA LifeStutter == LifeInv /\ UNCHANGED Lifecycle!vars => LifeInv'
BY DEF LifeInv, Lifecycle!LifecycleBounds, Lifecycle!TypeOK, CommandInv, CreateInv, DeleteInv, AgreedInv,
   Settled, Deleted,
       Lifecycle!vars, Lifecycle!service, Lifecycle!creation, Lifecycle!deletion

LEMMA LifeNext == LifeInv /\ [Lifecycle!Next]_(Lifecycle!vars) => LifeInv'
<1> SUFFICES ASSUME LifeInv, [Lifecycle!Next]_(Lifecycle!vars) PROVE LifeInv'
  OBVIOUS
<1>1. CASE Lifecycle!CreateSteps \/ Lifecycle!Ask
  BY <1>1, PreparePreserves, StartCreatePreserves, CreatePreserves, CheckPermissionsPreserves DEF
     Lifecycle!CreateSteps
<1>2. CASE \E c \in Codespaces : Lifecycle!DeleteCodespace(c)
  BY <1>2, DeletePreserves
<1>3. CASE Lifecycle!List \/ Lifecycle!Confirm \/ Lifecycle!StartDeleting \/ Lifecycle!GroupWait
  BY <1>3, ListPreserves, ConfirmPreserves, StartDeletingPreserves, GroupWaitPreserves
<1>4. CASE Lifecycle!StopCodespace \/ Lifecycle!Provisioned \/ Lifecycle!Others \/ UNCHANGED Lifecycle!vars
  BY <1>4, StopPreserves, ProvisionedPreserves, LifeOthersPreserve, LifeStutter
<1> QED BY <1>1, <1>2, <1>3, <1>4 DEF Lifecycle!Next, Lifecycle!Gh, Lifecycle!DeleteSteps

\* What the commands report follows.
LEMMA Accounted == LifeInv => Lifecycle!AllAccounted
<1> SUFFICES ASSUME LifeInv PROVE Lifecycle!AllAccounted
  OBVIOUS
<1>1. Lifecycle!Cardinality(made) <= 1
  <2>1. CASE made = {}
    BY <2>1, EmptyCount
  <2>2. ASSUME NEW c \in Codespaces, made = {c} PROVE Lifecycle!Cardinality(made) <= 1
    <3>1. Cardinality({c}) = 1
      BY FS_Singleton
    <3>2. Lifecycle!Cardinality({c}) = 1
      BY <3>1, SameCount, Zenon
    <3> QED BY <2>2, <3>2
  <2> QED BY <2>1, <2>2 DEF LifeInv, CreateInv
<1>2. Lifecycle!OneCreated
  BY <1>1 DEF LifeInv, CreateInv, Lifecycle!OneCreated
<1>3. Lifecycle!EachAccounted
  <2> SUFFICES ASSUME op.name = "delete", at = "done", asked = {}, todo = {}
      PROVE  /\ \A c \in codespacesToDelete \ failures : life[c] = "gone"
             /\ out = "ok" => failures = {} /\ codespacesToDelete # {}
             /\ deletedCodespaces = Lifecycle!Cardinality(codespacesToDelete \ failures)
    BY DEF Lifecycle!EachAccounted
  <2>1. Deleted = codespacesToDelete \ failures
    BY DEF Deleted
  <2> QED BY <2>1 DEF LifeInv, DeleteInv, Settled
<1> QED BY <1>2, <1>3 DEF Lifecycle!AllAccounted

\* The step that takes a codespace away is delete's.
AgreedStep ==
    \A c \in Codespaces : Lifecycle!Exists(c) /\ life'[c] = "gone" /\ managed' = managed =>
      /\ c \in DOMAIN listed /\ todo = {}
      /\ op.days => listed[c].idle
      /\ op.skipConfirm \/ ~listed[c].unsaved \/ c \in agreed

LEMMA OnlyDelete ==
  ASSUME LifeInv, [Lifecycle!Next]_(Lifecycle!vars), NEW c \in Codespaces, Lifecycle!Exists(c),
         life'[c] = "gone", managed' = managed
  PROVE  at = "deleting" /\ c \in asked
<1>1. life[c] # "gone" /\ life \in [Codespaces -> Lifecycle!Life] /\ managed \in Nat
  BY DEF Lifecycle!Exists, LifeInv, Lifecycle!TypeOK, Lifecycle!LifecycleBounds
<1>2. ~(life' = life)
  BY <1>1
<1>3. ~Lifecycle!Others
  BY <1>1 DEF Lifecycle!Others
<1>4. ~Lifecycle!Provisioned
  BY <1>1 DEF Lifecycle!Provisioned, Lifecycle!SetLife
<1>5. ~Lifecycle!StartCreate
  BY <1>1, <1>2 DEF Lifecycle!StartCreate, Lifecycle!SetLife, Lifecycle!service
<1>6. ~Lifecycle!StopCodespace
  BY <1>1, <1>2 DEF Lifecycle!StopCodespace, Lifecycle!Stops, Lifecycle!SetLife, Lifecycle!service
<1>7. PICK d \in Codespaces : Lifecycle!DeleteCodespace(d)
  <2>1. ~(Lifecycle!Prepare \/ Lifecycle!PollCodespace \/ Lifecycle!CheckPermissions \/ Lifecycle!ReceiveDone
          \/ Lifecycle!Deadline \/ Lifecycle!Ask)
    BY <1>2 DEF Lifecycle!service, Lifecycle!Prepare, Lifecycle!PollCodespace, Lifecycle!CheckPermissions,
       Lifecycle!ReceiveDone, Lifecycle!Deadline, Lifecycle!Ask
  <2>2. ~(Lifecycle!List \/ Lifecycle!Confirm \/ Lifecycle!StartDeleting \/ Lifecycle!GroupWait \/ UNCHANGED Lifecycle!vars)
    BY <1>2 DEF Lifecycle!service, Lifecycle!vars, Lifecycle!List, Lifecycle!Confirm, Lifecycle!StartDeleting,
       Lifecycle!GroupWait
  <2> QED BY <1>3, <1>4, <1>5, <1>6, <2>1, <2>2 DEF Lifecycle!Next, Lifecycle!Gh, Lifecycle!CreateSteps,
     Lifecycle!DeleteSteps
<1>8. life' = life \/ life' = [life EXCEPT ![d] = "gone"]
  BY <1>7 DEF Lifecycle!DeleteCodespace, Lifecycle!Deletes, Lifecycle!SetLife, Lifecycle!service
<1> QED BY <1>1, <1>7, <1>8 DEF Lifecycle!DeleteCodespace

LEMMA StepAgreed == LifeInv /\ [Lifecycle!Next]_(Lifecycle!vars) => AgreedStep
<1> SUFFICES ASSUME LifeInv, [Lifecycle!Next]_(Lifecycle!vars), NEW c \in Codespaces, Lifecycle!Exists(c),
         life'[c] = "gone", managed' = managed
    PROVE  /\ c \in DOMAIN listed /\ todo = {}
           /\ op.days => listed[c].idle
           /\ op.skipConfirm \/ ~listed[c].unsaved \/ c \in agreed
  BY DEF AgreedStep
<1>1. at = "deleting" /\ c \in asked
  BY OnlyDelete
<1> QED BY <1>1 DEF LifeInv, Lifecycle!TypeOK, DeleteInv, AgreedInv

-----------------------------------------------------------------------------
(* The commands, which forget what create, delete and stop have done once  *)
(* another command follows.                                                *)

\* The commands on codespaces are in a state that is proved of them, and have nothing
\* to say once another command follows.
ManagedInv ==
    /\ stage = "manage" => LifeInv
    /\ stage # "manage" => op.name = "stop" /\ made = {} /\ out = "none"

LEMMA InitManaged == CommandsInit => ManagedInv
BY LifecycleAssumption, InitLife DEF CommandsInit, ManagedInv, Forgotten

\* Other commands leave these variables alone, or forget them.
LEMMA NextManaged == ManagedInv /\ [CommandsNext]_allVars => ManagedInv'
<1> SUFFICES ASSUME ManagedInv, [CommandsNext]_allVars PROVE ManagedInv'
  OBVIOUS
<1>1. CASE Managing(Lifecycle!Next)
  <2>1. stage = "manage" /\ stage' = "manage" /\ LifeInv
    BY <1>1 DEF Managing, ManagedInv
  <2>2. LifeInv'
    BY <1>1, <2>1, LifeNext DEF Managing
  <2> QED BY <2>1, <2>2 DEF ManagedInv
<1>2. CASE CreatedWithStatus
  BY <1>2 DEF CreatedWithStatus, Forget, ManagedInv
<1>3. CASE Waiting(Next) \/ WaitOver \/ Creating(Status!Next) \/ InSession(Session!Next) \/ Changing(Ports!Next)
  <2>1. stage # "manage" /\ stage' # "manage" /\ UNCHANGED lifecycle
    BY <1>3 DEF Waiting, WaitOver, Creating, InSession, Changing
  <2>2. UNCHANGED <<op, made, out>>
    BY <2>1 DEF lifecycle
  <2> QED BY <2>1, <2>2 DEF ManagedInv
<1>4. CASE UNCHANGED allVars
  <2>1. UNCHANGED <<stage, op, made, out, Lifecycle!vars>>
    BY <1>4 DEF allVars, lifecycle, Lifecycle!vars, Lifecycle!service, Lifecycle!creation, Lifecycle!deletion
  <2>2. LifeInv => LifeInv'
    BY <2>1, LifeStutter
  <2> QED BY <2>1, <2>2 DEF ManagedInv
<1> QED BY <1>1, <1>2, <1>3, <1>4 DEF CommandsNext

LEMMA ManagedReports == ManagedInv => AllAccounted
<1> SUFFICES ASSUME ManagedInv PROVE AllAccounted
  OBVIOUS
<1>1. CASE stage = "manage"
  BY <1>1, Accounted DEF ManagedInv, AllAccounted
<1>2. CASE stage # "manage"
  <2>1. made = {} /\ op.name = "stop" /\ out = "none"
    BY <1>2 DEF ManagedInv
  <2>2. Lifecycle!Cardinality(made) <= 1
    BY <2>1, EmptyCount
  <2>3. Lifecycle!OneCreated
    BY <2>1, <2>2 DEF Lifecycle!OneCreated
  <2> QED BY <2>1, <2>3 DEF AllAccounted, Lifecycle!AllAccounted, Lifecycle!EachAccounted
<1> QED BY <1>1, <1>2

-----------------------------------------------------------------------------
THEOREM ManagedInvariance == CommandsSpec => []ManagedInv
BY InitManaged, NextManaged, PTL DEF CommandsSpec

\* What create and delete report is what has happened (AllAccounted): one command creates
\* one codespace, and what is to be deleted is gone or named as failed.
THEOREM CommandsReportRight == CommandsSpec => []AllAccounted
BY ManagedInvariance, ManagedReports, PTL

\* delete takes away what was fetched, old enough, and safe or agreed on (AgreedOnly).
THEOREM CommandsDeleteAgreed == CommandsSpec => AgreedOnly
<1>1. ManagedInv /\ [CommandsNext]_allVars => [AgreedStep]_(Lifecycle!vars)
  <2> SUFFICES ASSUME ManagedInv, [CommandsNext]_allVars PROVE AgreedStep \/ UNCHANGED Lifecycle!vars
    OBVIOUS
  <2>1. CASE Managing(Lifecycle!Next)
    BY <2>1, StepAgreed DEF Managing, ManagedInv
  <2>2. CASE CreatedWithStatus
    BY <2>2 DEF CreatedWithStatus, Forget, AgreedStep
  <2>3. CASE UNCHANGED lifecycle
    BY <2>3 DEF lifecycle, AgreedStep, Lifecycle!Exists
  <2>4. Waiting(Next) \/ WaitOver \/ Creating(Status!Next) \/ InSession(Session!Next) \/ Changing(Ports!Next)
          \/ UNCHANGED allVars
        => UNCHANGED lifecycle
    BY DEF Waiting, WaitOver, Creating, InSession, Changing, allVars
  <2> QED BY <2>1, <2>2, <2>3, <2>4 DEF CommandsNext
<1>2. CommandsSpec => [][AgreedStep]_(Lifecycle!vars)
  BY ManagedInvariance, <1>1, PTL DEF CommandsSpec
<1> QED BY <1>2 DEF AgreedOnly, Lifecycle!AgreedOnly, AgreedStep, Lifecycle!Exists, Lifecycle!Exists

\* However long a start takes to show, and whatever came before or comes after
\* the wait, it is asked for once (the comment on lastState in
\* waitUntilCodespaceConnectionReady).
THEOREM CommandsStartOnce == CommandsSpec => []NoSecondStart
<1>1. CommandsInit => WaitInv
  BY InitWait DEF CommandsInit
<1>2. WaitInv /\ [CommandsNext]_allVars => WaitInv'
  <2> SUFFICES ASSUME WaitInv, [CommandsNext]_allVars PROVE WaitInv'
    OBVIOUS
  <2>1. CASE Waiting(Next)
    BY <2>1, WaitNextPreserves DEF Waiting
  <2>2. CASE WaitOver
    BY <2>2 DEF WaitOver, WaitInv, Remembered, NoSecondStart
  <2>3. CASE CreatedWithStatus
    BY <2>3 DEF CreatedWithStatus, WaitInv, Remembered, NoSecondStart
  <2>4. CASE Managing(Lifecycle!Next) \/ Creating(Status!Next) \/ InSession(Session!Next) \/ Changing(Ports!Next)
             \/ UNCHANGED allVars
    <3>1. UNCHANGED wait
      BY <2>4 DEF Managing, Creating, InSession, Changing, allVars
    <3> QED BY <3>1 DEF wait, WaitInv, Remembered, NoSecondStart
  <2> QED BY <2>1, <2>2, <2>3, <2>4 DEF CommandsNext
<1>3. WaitInv => NoSecondStart
  BY DEF WaitInv
<1> QED BY <1>1, <1>2, <1>3, PTL DEF CommandsSpec

-----------------------------------------------------------------------------
\* The status of a creation: no step is taken for finished while it runs; once polling is
\* to stop, the steps of the last poll are those that have finished; and only then the
\* command ends well.
StatusInv ==
    /\ shown \in Nat /\ finishedStates \subseteq 1..shown /\ running \cap finishedStates = {}
    /\ cancelled => polled \in Nat /\ finishedStates = 1..polled
    /\ sres = "ok" => cancelled

\* What ends the command or the tunnel leaves the steps alone.
LEMMA StatusReturns ==
  StatusInv /\ (Status!Setup \/ Status!TunnelEnds \/ Status!ContextDone \/ Status!TunnelClosed \/ Status!PollFails)
    => StatusInv'
<1> SUFFICES ASSUME StatusInv,
                    Status!Setup \/ Status!TunnelEnds \/ Status!ContextDone \/ Status!TunnelClosed \/ Status!PollFails
             PROVE  StatusInv'
  OBVIOUS
<1>1. UNCHANGED <<shown, running, finishedStates, cancelled, polled>>
  BY DEF Status!Setup, Status!TunnelEnds, Status!ContextDone, Status!TunnelClosed, Status!PollFails,
         Status!codespace, Status!poller
<1>2. sres' = "ok" => cancelled
  BY DEF StatusInv, Status!Setup, Status!TunnelEnds, Status!ContextDone, Status!TunnelClosed, Status!PollFails,
         Status!Return
<1> QED BY <1>1, <1>2 DEF StatusInv

LEMMA PollKeeps == StatusInv /\ Status!Poll => StatusInv'
<1> SUFFICES ASSUME StatusInv, Status!Poll PROVE StatusInv'
  OBVIOUS
<1>1. /\ ~cancelled /\ UNCHANGED <<shown, running, sres>> /\ polled' = shown
      /\ finishedStates' = finishedStates \cup Status!DoneWith
      /\ cancelled' => ~Status!AnyRuns
  BY DEF Status!Poll, Status!Poller, Status!StopNow, Status!codespace
<1>2. Status!Unfinished = (1..shown) \ finishedStates
  BY DEF Status!Unfinished
<1>3. Status!DoneWith = {i \in Status!Unfinished : \A j \in Status!Unfinished \cap running : i < j}
  BY DEF Status!DoneWith
<1>4. shown \in Nat /\ finishedStates' \subseteq 1..shown
  BY <1>1, <1>2, <1>3 DEF StatusInv
<1>5. running \cap finishedStates' = {}
  <2> SUFFICES ASSUME NEW i \in Status!DoneWith, i \in running PROVE FALSE
    BY <1>1 DEF StatusInv
  <2> QED BY <1>2, <1>3 DEF StatusInv
<1>6. ASSUME cancelled' PROVE finishedStates' = 1..shown
  <2>1. Status!Unfinished \cap running = {}
    BY <1>1, <1>6 DEF Status!AnyRuns
  <2> QED BY <1>1, <1>2, <1>3, <2>1 DEF StatusInv
<1>7. sres # "ok"
  BY <1>1 DEF StatusInv
<1> QED BY <1>1, <1>4, <1>5, <1>6, <1>7 DEF StatusInv

LEMMA StepsKeep == StatusInv /\ (Status!StepAppears \/ Status!StepFinishes) => StatusInv'
<1> SUFFICES ASSUME StatusInv, Status!StepAppears \/ Status!StepFinishes PROVE StatusInv'
  OBVIOUS
<1>1. UNCHANGED <<finishedStates, cancelled, polled, sres>>
  BY DEF Status!StepAppears, Status!StepFinishes, Status!poller
<1>2. \/ shown' = shown + 1 /\ running' = running \cup {shown + 1}
      \/ shown' = shown /\ running' \subseteq running
  BY DEF Status!StepAppears, Status!StepFinishes
<1>3. shown' \in Nat /\ finishedStates \subseteq 1..shown' /\ running' \cap finishedStates = {}
  BY <1>2 DEF StatusInv
<1> QED BY <1>1, <1>3 DEF StatusInv

\* A creation that is reported complete has been waited for to the end (StepsWaitedFor),
\* by the command that showed its status, whatever the other commands do.
THEOREM CommandsWaitForSteps == CommandsSpec => []StepsWaitedFor
<1>1. CommandsInit => StatusInv
  BY DEF CommandsInit, Status!Init, StatusInv
<1>2. StatusInv /\ [CommandsNext]_allVars => StatusInv'
  <2> SUFFICES ASSUME StatusInv, [CommandsNext]_allVars PROVE StatusInv'
    OBVIOUS
  <2>1. CASE Creating(Status!Next)
    BY <2>1, StatusReturns, PollKeeps, StepsKeep DEF Creating, Status!Next, Status!Select
  <2>2. CASE Managing(Lifecycle!Next) \/ CreatedWithStatus \/ Waiting(Next) \/ WaitOver \/ InSession(Session!Next)
             \/ Changing(Ports!Next) \/ UNCHANGED allVars
    <3>1. UNCHANGED status
      BY <2>2 DEF Managing, CreatedWithStatus, Waiting, WaitOver, InSession, Changing, allVars
    <3> QED BY <3>1 DEF status, StatusInv
  <2> QED BY <2>1, <2>2 DEF CommandsNext
<1>3. StatusInv => StepsWaitedFor
  BY DEF StatusInv, StepsWaitedFor, Status!StepsWaitedFor
<1> QED BY <1>1, <1>2, <1>3, PTL DEF CommandsSpec

-----------------------------------------------------------------------------
\* The session: a forwarder that looks at the flag of the tunnel client, or connects
\* it, holds the mutex, and what it has seen stays so.
LinkInv ==
    /\ (connected /\ links = 1) \/ (~connected /\ links = 0)
    /\ pf \in {"check", "dial_tunnel"} => mutex = "pf"
    /\ sshTunnel \in {"check", "dial_tunnel"} => mutex = "tunnel"
    /\ pf = "dial_tunnel" \/ sshTunnel = "dial_tunnel" => ~connected

Still == (connected' <=> connected) /\ links' = links
client == <<mutex, connected, links, pf, sshTunnel>>

LEMMA ForwardRPCKeeps == LinkInv /\ Session!ForwardRPC => LinkInv'
<1> SUFFICES ASSUME LinkInv, Session!ForwardRPC PROVE LinkInv'
  OBVIOUS
<1>1. sshTunnel' = sshTunnel
  BY DEF Session!ForwardRPC
<1>2. \/ /\ pf = "create" /\ pf' \in {"connect", "ended"}
         /\ Still /\ mutex' = mutex
      \/ /\ pf = "connect" /\ mutex = "free" /\ mutex' = "pf" /\ pf' = "check"
         /\ Still
      \/ /\ pf = "check" /\ Still
         /\ \/ connected /\ pf' = "listen" /\ mutex' = "free"
            \/ ~connected /\ pf' = "dial_tunnel" /\ mutex' = mutex
      \/ /\ pf = "dial_tunnel" /\ mutex' = "free"
         /\ \/ pf' = "listen" /\ connected' /\ links' = links + 1
            \/ pf' = "ended" /\ Still
      \/ pf = "listen" /\ pf' = "ended" /\ Still /\ mutex' = mutex
  BY DEF Session!ForwardRPC, Session!Forward, Session!To, Session!PfTo, Session!Lock,
     Session!AlreadyConnected,
         Session!client, Still
<1>3. ~connected => (links' = links + 1 => links' = 1)
  BY DEF LinkInv
<1> QED BY <1>1, <1>2, <1>3, Zenon DEF LinkInv, Still

LEMMA ForwardSSHKeeps == LinkInv /\ Session!ForwardSSH => LinkInv'
<1> SUFFICES ASSUME LinkInv, Session!ForwardSSH PROVE LinkInv'
  OBVIOUS
<1>1. pf' = pf
  BY DEF Session!ForwardSSH, Session!rpc
<1>2. \/ /\ sshTunnel = "create" /\ sshTunnel' \in {"connect", "ended"}
         /\ Still /\ mutex' = mutex
      \/ /\ sshTunnel = "connect" /\ mutex = "free" /\ mutex' = "tunnel" /\ sshTunnel' = "check"
         /\ Still
      \/ /\ sshTunnel = "check" /\ Still
         /\ \/ connected /\ sshTunnel' = "listen" /\ mutex' = "free"
            \/ ~connected /\ sshTunnel' = "dial_tunnel" /\ mutex' = mutex
      \/ /\ sshTunnel = "dial_tunnel" /\ mutex' = "free"
         /\ \/ sshTunnel' = "listen" /\ connected' /\ links' = links + 1
            \/ sshTunnel' = "ended" /\ Still
      \/ sshTunnel = "listen" /\ sshTunnel' = "ended" /\ Still /\ mutex' = mutex
  BY DEF Session!ForwardSSH, Session!Forward, Session!To, Session!TunnelTo, Session!Lock,
     Session!AlreadyConnected,
         Session!client, Still
<1>3. ~connected => (links' = links + 1 => links' = 1)
  BY DEF LinkInv
<1> QED BY <1>1, <1>2, <1>3, Zenon DEF LinkInv, Still

LEMMA SSHKeeps == LinkInv /\ Session!SSH => LinkInv'
<1> SUFFICES ASSUME LinkInv, Session!SSH PROVE LinkInv'
  OBVIOUS
<1>1. CASE \/ Session!CreateInvoker \/ Session!StartHeartbeat \/ Session!StartSSHServer \/ Session!SessionOver
           \/ Session!CloseInvoker
  <2>1. UNCHANGED client
    BY <1>1 DEF Session!CreateInvoker, Session!StartHeartbeat, Session!StartSSHServer, Session!SessionOver,
       Session!CloseInvoker, Session!client, Session!rpc, client
  <2> QED BY <2>1 DEF LinkInv, client
<1>2. CASE Session!StartShell
  <2>1. Still /\ mutex' = mutex /\ pf' = pf /\ sshTunnel' \in {"create", sshTunnel}
    BY <1>2 DEF Session!StartShell, Session!client, Session!rpc, Still
  <2> QED BY <2>1 DEF LinkInv, Still
<1>3. CASE Session!CloseForwarder
  <2>1. /\ mutex = "free" /\ mutex' = mutex /\ pf' = pf /\ sshTunnel' = sshTunnel
        /\ \/ connected /\ ~connected' /\ links' = links - 1
           \/ Still
    BY <1>3 DEF Session!CloseForwarder, Session!CloseLink, Session!rpc, Still
  <2>2. connected => (links' = links - 1 => links' = 0)
    BY DEF LinkInv
  <2> QED BY <2>1, <2>2, Zenon DEF LinkInv, Still
<1> QED BY <1>1, <1>2, <1>3 DEF Session!SSH

LEMMA SessionKeeps == LinkInv /\ Session!Next => LinkInv'
<1> SUFFICES ASSUME LinkInv, Session!Next PROVE LinkInv'
  OBVIOUS
<1>1. CASE \/ Session!Heartbeat \/ Session!Tick \/ Session!Shell \/ Session!ShellEnds \/ Session!Traffic
  <2>1. UNCHANGED client
    BY <1>1 DEF Session!Heartbeat, Session!HeartbeatDone, Session!GetKeepAliveReason, Session!Notify,
       Session!Tick,
       Session!Shell, Session!RunShell, Session!KillShell, Session!ShellEnds, Session!Traffic,
       Session!client, Session!rpc, client
  <2> QED BY <2>1 DEF LinkInv, client
<1>2. CASE Session!Dial
  <2>1. UNCHANGED client
    BY <1>2 DEF Session!Dial, Session!client, client
  <2> QED BY <2>1 DEF LinkInv, client
<1> QED BY <1>1, <1>2, SSHKeeps, ForwardRPCKeeps, ForwardSSHKeeps DEF Session!Next

\* Every connection of the tunnel client is closed before the next is made.
THEOREM CommandsConnectOnce == CommandsSpec => []OneConnection
<1>1. CommandsInit => LinkInv
  BY DEF CommandsInit, Session!Init, LinkInv
<1>2. LinkInv /\ [CommandsNext]_allVars => LinkInv'
  <2> SUFFICES ASSUME LinkInv, [CommandsNext]_allVars PROVE LinkInv'
    OBVIOUS
  <2>1. CASE InSession(Session!Next)
    BY <2>1, SessionKeeps DEF InSession
  <2>2. CASE Managing(Lifecycle!Next) \/ CreatedWithStatus \/ Waiting(Next) \/ WaitOver \/ Creating(Status!Next)
             \/ Changing(Ports!Next)
    <3>1. UNCHANGED session
      BY <2>2 DEF Managing, CreatedWithStatus, Waiting, WaitOver, Creating, Changing
    <3> QED BY <3>1 DEF session, LinkInv
  <2>3. CASE UNCHANGED allVars
    <3>1. UNCHANGED session
      BY <2>3 DEF allVars
    <3> QED BY <3>1 DEF session, LinkInv
  <2> QED BY <2>1, <2>2, <2>3 DEF CommandsNext
<1>3. LinkInv => OneConnection
  BY DEF LinkInv, OneConnection, Session!OneConnection
<1> QED BY <1>1, <1>2, <1>3, PTL DEF CommandsSpec

-----------------------------------------------------------------------------
(* The update of a port.                                                   *)

AskedFor == port.exists /\ port.vis = want

\* What the goroutine has done: the port is gone until it creates it again, but for another
\* gh; from then on it has the visibility asked for.
GoroutineInv ==
    /\ portPc \in {"get", "delete"} => go = "off"
    /\ portPc \in {"look", "create", "connect", "refresh"} => go = "ended"
    /\ go \in {"connect_first", "refresh_first", "look", "create"} /\ ~meddled => ~port.exists
    /\ go \in {"connect", "refresh"} \/ (go = "send" /\ outcome = "ok") => AskedFor \/ meddled

\* What the update has seen of a port that was there.
OldPortInv ==
    /\ portPc = "get" => port = first
    /\ portPc = "delete" => port = first /\ old = first.vis
    /\ portPc \in {"select", "look", "create", "connect", "refresh"} => old = first.vis
    /\ portPc \in {"connect", "refresh"} => port.exists

ReturnInv == portPc # "returned" => portRes = "none"

PortInv == GoroutineInv /\ (first.exists => OldPortInv) /\ ReturnInv /\ UpdateHonest

NotYet == stage # "ports" => portPc = "get"

LEMMA GetPortKeeps == PortInv /\ Ports!GetPort => PortInv'
  BY DEF PortInv, GoroutineInv, OldPortInv, ReturnInv, AskedFor, UpdateHonest, Ports!UpdateHonest, Ports!SuccessInTime,
     Ports!PortKept, Ports!GetPort, Ports!Return, Ports!Fails, Ports!asked

LEMMA DeletePortKeeps == PortInv /\ Ports!DeletePort => PortInv'
<1> SUFFICES ASSUME PortInv, Ports!DeletePort PROVE PortInv'
  OBVIOUS
<1>1. portPc = "delete" /\ UNCHANGED <<want, first, old, outcome, expired, meddled>>
  BY DEF Ports!DeletePort, Ports!asked
<1>2. CASE ~port'.exists /\ portPc' = "select" /\ go' = "connect_first" /\ UNCHANGED <<portRes, missed>>
  BY <1>1, <1>2
     DEF PortInv, GoroutineInv, OldPortInv, ReturnInv, AskedFor, UpdateHonest, Ports!UpdateHonest,
         Ports!SuccessInTime, Ports!PortKept
<1>3. CASE /\ portPc' = "returned" /\ portRes' = "error" /\ go' = go
           /\ port' = port \/ (~port'.exists /\ missed')
           /\ missed => missed'
  BY <1>1, <1>3
     DEF PortInv, GoroutineInv, OldPortInv, ReturnInv, AskedFor, UpdateHonest, Ports!UpdateHonest,
         Ports!SuccessInTime, Ports!PortKept
<1>4. ~Ports!NoPort.exists
  BY DEF Ports!NoPort
<1>5. \/ port' = Ports!NoPort /\ portPc' = "select" /\ go' = "connect_first" /\ UNCHANGED <<portRes, missed>>
      \/ port' = port /\ portPc' = "returned" /\ portRes' = "error" /\ UNCHANGED <<go, missed>>
      \/ /\ port' \in {port, Ports!NoPort} /\ portPc' = "returned" /\ portRes' = "error" /\ go' = go
         /\ missed' <=> (missed \/ port' # port)
  BY DEF Ports!DeletePort, Ports!Return
<1> QED BY <1>2, <1>3, <1>4, <1>5

LEMMA SelectKeeps == PortInv /\ (Ports!ReceiveOutcome \/ Ports!SelectExpired) => PortInv'
  BY DEF PortInv, GoroutineInv, OldPortInv, ReturnInv, AskedFor, UpdateHonest, Ports!UpdateHonest, Ports!SuccessInTime,
     Ports!PortKept, Ports!ReceiveOutcome, Ports!SelectExpired, Ports!ContextDone, Ports!RollBack, Ports!Return, Ports!asked

LEMMA ForwardOldKeeps == PortInv /\ Ports!ForwardOld => PortInv'
<1> SUFFICES ASSUME PortInv, Ports!ForwardOld PROVE PortInv'
  OBVIOUS
<1>1. UNCHANGED <<want, first, old, go, outcome, expired, meddled>>
      /\ portPc \in {"look", "create", "connect", "refresh"}
  BY DEF Ports!ForwardOld, Ports!asked
<1>2. CASE portPc = "create"
  <2>1. \/ portPc' = "connect" /\ port' = Ports!Created(old) /\ UNCHANGED <<portRes, missed>>
        \/ portPc' = "returned" /\ portRes' = "error" /\ missed' /\ port' \in {port, Ports!Created(old)}
    BY <1>2 DEF Ports!ForwardOld, Ports!CreatePort, Ports!MainTo, Ports!MainDone, Ports!Return
  <2>2. /\ Ports!Created(old).exists
        /\ Ports!Created(old) = port \/ (~port.exists /\ Ports!Created(old).vis = old)
    BY DEF Ports!Created, Ports!Port
  <2> HIDE DEF Ports!Created
  <2> QED BY <1>1, <1>2, <2>1, <2>2
          DEF PortInv, GoroutineInv, OldPortInv, ReturnInv, AskedFor, UpdateHonest, Ports!UpdateHonest,
              Ports!SuccessInTime, Ports!PortKept
<1>3. CASE portPc \in {"look", "connect", "refresh"}
  <2>1. /\ port' = port
        /\ \/ portPc' = "create" /\ UNCHANGED <<portRes, missed>>
           \/ portPc' = "refresh" /\ portPc = "connect" /\ UNCHANGED <<portRes, missed>>
           \/ portPc' = "returned" /\ portRes' = "error" /\ (missed' \/ (portPc = "refresh" /\ (missed' <=> missed)))
    BY <1>3 DEF Ports!ForwardOld, Ports!LookPort, Ports!ConnectTunnel, Ports!RefreshPorts, Ports!MainTo, Ports!MainDone,
                Ports!Return
  <2> QED BY <1>1, <1>3, <2>1
          DEF PortInv, GoroutineInv, OldPortInv, ReturnInv, AskedFor, UpdateHonest, Ports!UpdateHonest,
              Ports!SuccessInTime, Ports!PortKept
<1> QED BY <1>1, <1>2, <1>3

LEMMA GoroutineKeeps == PortInv /\ Ports!Goroutine => PortInv'
<1> SUFFICES ASSUME PortInv, Ports!Goroutine PROVE PortInv'
  OBVIOUS
<1>1. UNCHANGED <<want, first, portPc, portRes, old, expired, missed, meddled>>
      /\ go \in {"connect_first", "refresh_first", "look", "create", "connect", "refresh"}
  BY DEF Ports!Goroutine, Ports!asked, Ports!mine
<1>2. CASE go = "create"
  <2>1. \/ go' = "connect" /\ port' = Ports!Created(want)
        \/ go' = "send" /\ outcome' = "error" /\ port' \in {port, Ports!Created(want)}
    BY <1>2 DEF Ports!Goroutine, Ports!CreatePort, Ports!GoTo, Ports!GoFails, Ports!GoDone
  <2>2. /\ Ports!Created(want).exists
        /\ Ports!Created(want) = port \/ (~port.exists /\ Ports!Created(want).vis = want)
    BY DEF Ports!Created, Ports!Port
  <2> HIDE DEF Ports!Created
  <2> QED BY <1>1, <1>2, <2>1, <2>2
          DEF PortInv, GoroutineInv, OldPortInv, ReturnInv, AskedFor, UpdateHonest, Ports!UpdateHonest,
              Ports!SuccessInTime, Ports!PortKept
<1>3. CASE go # "create"
  <2>1. /\ port' = port
        /\ \/ go' = "send" /\ outcome' = "error"
           \/ go' \in {"refresh_first", "look", "create"} /\ go \in {"connect_first", "refresh_first", "look"}
           \/ go' = "refresh" /\ go = "connect"
           \/ go' = "send" /\ go = "refresh"
    BY <1>1, <1>3 DEF Ports!Goroutine, Ports!LookPort, Ports!ConnectTunnel, Ports!RefreshPorts, Ports!GoTo, Ports!GoFails,
                      Ports!GoDone
  <2> QED BY <1>1, <2>1
          DEF PortInv, GoroutineInv, OldPortInv, ReturnInv, AskedFor, UpdateHonest, Ports!UpdateHonest,
              Ports!SuccessInTime, Ports!PortKept
<1> QED BY <1>2, <1>3

\* The time that runs out, and the other gh.
LEMMA OthersKeep == PortInv /\ (Ports!Expire \/ Ports!OtherForward) => PortInv'
  BY DEF PortInv, GoroutineInv, OldPortInv, ReturnInv, AskedFor, UpdateHonest, Ports!UpdateHonest, Ports!SuccessInTime,
     Ports!PortKept, Ports!Expire, Ports!OtherForward, Ports!Port, Ports!asked, Ports!mine

\* Whatever fails, with or without effect, whenever the time runs out and whatever the other
\* gh does: success in time means the visibility asked for, and after a failure the port is
\* there, unless deleting it or putting it back failed, with a visibility that someone asked
\* for (UpdatePortVisibility in port_forwarder.go).
THEOREM PortsUpdateHonest == CommandsSpec => []UpdateHonest
<1>1. CommandsInit => PortInv /\ NotYet
  BY DEF NotYet, CommandsInit, Ports!Init, Ports!NoPort, PortInv, GoroutineInv, OldPortInv, ReturnInv, UpdateHonest,
         Ports!UpdateHonest, Ports!SuccessInTime, Ports!PortKept
<1>2. PortInv /\ UNCHANGED ports => PortInv'
  BY DEF ports, PortInv, GoroutineInv, OldPortInv, ReturnInv, AskedFor, UpdateHonest, Ports!UpdateHonest,
         Ports!SuccessInTime, Ports!PortKept
<1>3. PortInv /\ portPc = "get" /\ BeginUpdate => PortInv'
  BY DEF BeginUpdate, PortInv, GoroutineInv, OldPortInv, ReturnInv, AskedFor, UpdateHonest, Ports!UpdateHonest,
         Ports!SuccessInTime, Ports!PortKept
<1>4. PortInv /\ NotYet /\ [CommandsNext]_allVars => (PortInv /\ NotYet)'
  <2> SUFFICES ASSUME PortInv, NotYet, [CommandsNext]_allVars PROVE PortInv' /\ NotYet'
    OBVIOUS
  <2>1. CASE Changing(Ports!Next)
    BY <2>1, GetPortKeeps, DeletePortKeeps, SelectKeeps, ForwardOldKeeps, GoroutineKeeps, OthersKeep
       DEF Changing, Ports!Next, Ports!Update, NotYet
  <2>2. CASE WaitOver
    <3>1. portPc = "get" /\ portPc' = portPc /\ (BeginUpdate \/ UNCHANGED ports)
      BY <2>2 DEF WaitOver, NotYet, BeginUpdate, ports
    <3> QED BY <3>1, <1>2, <1>3 DEF NotYet
  <2>3. CASE Managing(Lifecycle!Next) \/ CreatedWithStatus \/ Waiting(Next) \/ Creating(Status!Next)
             \/ InSession(Session!Next) \/ UNCHANGED allVars
    <3>1. UNCHANGED ports /\ (stage' = stage \/ stage # "ports")
      BY <2>3 DEF Managing, CreatedWithStatus, Waiting, Creating, InSession, allVars
    <3> QED BY <1>2, <3>1 DEF NotYet, ports
  <2> QED BY <2>1, <2>2, <2>3 DEF CommandsNext
<1>5. PortInv => UpdateHonest
  BY DEF PortInv
<1> QED BY <1>1, <1>4, <1>5, PTL DEF CommandsSpec
=============================================================================
