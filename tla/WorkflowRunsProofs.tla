------------------------- MODULE WorkflowRunsProofs -------------------------
(***************************************************************************)
(* The log that is shown is the right one, for any number of viewers,      *)
(* attempts, commands and faults; and so is every rendering of the watch,  *)
(* for any number of jobs and annotations.                                 *)
(*                                                                         *)
(* For the watch the argument is about the lists that are put together: a  *)
(* cached list holds what has been shown of its own job and of the jobs    *)
(* before it, and what later cached lists hold of them; so does the list   *)
(* of the round, of the jobs that are done.                                *)
(***************************************************************************)
EXTENDS WorkflowRuns, Sequences, TLAPS

\* Whatever is under a key is of that attempt, or the key is known to be mixed.
Fits(a, of) == of = a \/ a \in mixed

EntryInv == \A a \in Attempts : entry[a] # NoFile => Fits(a, entry[a].of)

\* A viewer that has read the run has the attempt it was asked for, and what it
\* is about to store or has opened fits the key.
ViewInv(v) ==
    /\ view[v].at \notin {"idle", "run"} =>
         /\ view[v].of \in Attempts
         /\ view[v].want # 0 => view[v].of = view[v].want
    /\ view[v].at \in {"create", "write", "show", "shown"} => Fits(view[v].of, view[v].got)

IInv == TypeOK /\ EntryInv /\ \A v \in Viewers : ViewInv(v)

-----------------------------------------------------------------------------
LEMMA InitIInv == Init => IInv
<1> SUFFICES ASSUME Init PROVE IInv
  OBVIOUS
<1>1. TypeOK
  BY LogAssumption DEF Init, TypeOK, Attempts, Idle, NoFile, View, Viewing
<1>2. EntryInv
  BY DEF Init, EntryInv
<1>3. \A v \in Viewers : ViewInv(v)
  BY DEF Init, ViewInv, Idle, Viewing
<1> QED BY <1>1, <1>2, <1>3 DEF IInv

LEMMA AskedIsAttempt ==
  ASSUME TypeOK, NEW v \in Viewers
  PROVE  Asked(v) \in Attempts /\ (view[v].want # 0 => Asked(v) = view[v].want)
BY DEF TypeOK, Asked, View, Attempts

LEMMA ChangesPreserve == IInv /\ RunChanges => IInv'
<1> SUFFICES ASSUME IInv, RunChanges PROVE IInv'
  OBVIOUS
<1>1. TypeOK'
  <2>1. attempt \in Attempts /\ run' \in {"in_progress", "completed", "deleted"}
    BY DEF IInv, TypeOK, RunChanges, CancelRun, RerunRun, DeleteRun
  <2>2. attempt' \in Attempts
    BY <2>1, LogAssumption DEF IInv, RunChanges, CancelRun, RerunRun, DeleteRun, Attempts
  <2> QED BY <2>1, <2>2 DEF IInv, TypeOK, RunChanges
<1>2. EntryInv' /\ \A v \in Viewers : ViewInv(v)'
  BY DEF IInv, EntryInv, ViewInv, Fits, RunChanges
<1> QED BY <1>1, <1>2, LogAssumption DEF IInv

\* A step that leaves the cache alone and brings no viewer but v forward.
LEMMA OnlyOne ==
  ASSUME IInv, NEW v \in Viewers, UNCHANGED entry, mixed' \in {mixed, mixed \cup {view[v].of}},
         TypeOK', \A u \in Viewers \ {v} : view'[u] = view[u], ViewInv(v)'
  PROVE  IInv'
<1>1. EntryInv'
  BY DEF IInv, EntryInv, Fits
<1>2. ASSUME NEW u \in Viewers PROVE ViewInv(u)'
  <2>1. CASE u = v
    BY <2>1
  <2>2. CASE u # v
    BY <2>2 DEF IInv, ViewInv, Fits
  <2> QED BY <2>1, <2>2
<1> QED BY <1>1, <1>2, LogAssumption DEF IInv

LEMMA StartPreserves == ASSUME IInv, NEW v \in Viewers, Start(v) PROVE IInv'
<1>1. PICK a \in 0..attempt : view' = [view EXCEPT ![v] = Viewing("run", a)]
  BY DEF Start
<1>2. a \in 0..MaxAttempts
  <2>1. attempt \in 1..MaxAttempts /\ MaxAttempts \in Nat
    BY LogAssumption DEF IInv, TypeOK, Attempts
  <2> QED BY <2>1
<1>3. Viewing("run", a) \in View
  BY <1>2, LogAssumption DEF IInv, Viewing, View
<1>4. TypeOK'
  <2>1. view' \in [Viewers -> View]
    BY <1>1, <1>3 DEF IInv, TypeOK
  <2>2. views' \in 0..MaxViews
    BY LogAssumption DEF IInv, TypeOK, Start
  <2> QED BY <2>1, <2>2 DEF IInv, TypeOK, Start
<1>5. view'[v].at = "run" /\ \A u \in Viewers \ {v} : view'[u] = view[u]
  BY <1>1 DEF IInv, TypeOK, Viewing
<1>6. ViewInv(v)'
  BY <1>5 DEF ViewInv
<1> QED BY <1>4, <1>5, <1>6, OnlyOne DEF Start
LEMMA Goes ==
  ASSUME IInv, NEW v \in Viewers, NEW l \in {"idle", "run", "exists", "fetch", "create", "write", "open", "show", "shown"},
         To(v, l)
  PROVE  /\ view' \in [Viewers -> View]
         /\ view'[v].at = l /\ view'[v].want = view[v].want /\ view'[v].of = view[v].of /\ view'[v].got = view[v].got
         /\ \A u \in Viewers \ {v} : view'[u] = view[u]
BY DEF IInv, TypeOK, View, To

LEMMA Ends ==
  ASSUME IInv, NEW v \in Viewers, Fails(v)
  PROVE  /\ view' \in [Viewers -> View] /\ view'[v].at = "idle" /\ ViewInv(v)'
         /\ \A u \in Viewers \ {v} : view'[u] = view[u]
<1>1. Idle \in View
  BY LogAssumption DEF IInv, Idle, Viewing, View
<1>2. view' \in [Viewers -> View] /\ view'[v].at = "idle" /\ \A u \in Viewers \ {v} : view'[u] = view[u]
  BY <1>1 DEF IInv, TypeOK, Fails, Idle, Viewing
<1> QED BY <1>2 DEF ViewInv

LEMMA Counts ==
  ASSUME IInv, Fault \/ NoFault
  PROVE  faults' \in 0..MaxFaults
BY LogAssumption DEF IInv, TypeOK, Fault, NoFault

LEMMA GetRunPreserves == ASSUME IInv, NEW v \in Viewers, GetRun(v) PROVE IInv'
<1>1. World /\ UNCHANGED <<entry, mixed>> /\ (Fault \/ NoFault)
  BY DEF GetRun
<1>2. faults' \in 0..MaxFaults
  BY <1>1, Counts
<1>3. CASE Fails(v)
  <2>1. TypeOK'
    BY <1>1, <1>2, <1>3, Ends DEF IInv, TypeOK, World
  <2> QED BY <1>1, <1>3, <2>1, Ends, OnlyOne
<1>4. CASE view' = [view EXCEPT ![v].at = "exists", ![v].of = Asked(v)]
  <2>1. Asked(v) \in Attempts /\ (view[v].want # 0 => Asked(v) = view[v].want)
    BY AskedIsAttempt DEF IInv
  <2>2. Asked(v) \in 0..MaxAttempts
    BY <2>1, LogAssumption DEF IInv, Attempts
  <2>3. /\ view' \in [Viewers -> View]
        /\ view'[v].at = "exists" /\ view'[v].of = Asked(v) /\ view'[v].want = view[v].want
        /\ \A u \in Viewers \ {v} : view'[u] = view[u]
    BY <1>4, <2>2 DEF IInv, TypeOK, View
  <2>4. TypeOK'
    BY <1>1, <1>2, <2>3 DEF IInv, TypeOK, World
  <2>5. ViewInv(v)'
    BY <2>1, <2>3 DEF ViewInv, Attempts
  <2> QED BY <1>1, <2>3, <2>4, <2>5, OnlyOne
<1> QED BY <1>3, <1>4 DEF GetRun

LEMMA ExistsPreserves == ASSUME IInv, NEW v \in Viewers, Exists(v) PROVE IInv'
<1>1. PICK l \in {"fetch", "open"} : To(v, l)
  BY DEF Exists
<1>2. TypeOK'
  BY <1>1, Goes DEF IInv, TypeOK, World, Exists
<1>3. ViewInv(v)'
  BY <1>1, Goes DEF IInv, ViewInv, Exists, Attempts
<1> QED BY <1>1, <1>2, <1>3, Goes, OnlyOne DEF Exists

LEMMA FetchLogPreserves == ASSUME IInv, NEW v \in Viewers, FetchLog(v) PROVE IInv'
<1>1. World /\ UNCHANGED entry /\ (Fault \/ NoFault)
  BY DEF FetchLog
<1>2. faults' \in 0..MaxFaults
  BY <1>1, Counts
<1>3. CASE Fails(v) /\ UNCHANGED mixed
  <2>1. TypeOK'
    BY <1>1, <1>2, <1>3, Ends DEF IInv, TypeOK, World
  <2> QED BY <1>1, <1>3, <2>1, Ends, OnlyOne
<1>4. CASE /\ view' = [view EXCEPT ![v].at = "create", ![v].got = Asked(v)]
           /\ mixed' = IF Asked(v) # view[v].of THEN mixed \cup {Key(v)} ELSE mixed
  <2>1. Asked(v) \in Attempts /\ Asked(v) \in 0..MaxAttempts
    BY AskedIsAttempt, LogAssumption DEF IInv, Attempts
  <2>2. /\ view[v].of \in Attempts
        /\ view[v].want # 0 => view[v].of = view[v].want
    BY DEF IInv, ViewInv, FetchLog
  <2>3. /\ view' \in [Viewers -> View]
        /\ view'[v].at = "create" /\ view'[v].got = Asked(v) /\ view'[v].want = view[v].want
        /\ view'[v].of = view[v].of
        /\ \A u \in Viewers \ {v} : view'[u] = view[u]
    BY <1>4, <2>1 DEF IInv, TypeOK, View
  <2>4. mixed' \subseteq Attempts /\ mixed' \in {mixed, mixed \cup {view[v].of}}
    BY <1>4, <2>2 DEF IInv, TypeOK, Key
  <2>5. TypeOK'
    BY <1>1, <1>2, <2>3, <2>4 DEF IInv, TypeOK, World
  <2>6. ViewInv(v)'
    BY <1>4, <2>2, <2>3 DEF ViewInv, Fits, Key, Attempts
  <2> QED BY <1>1, <2>3, <2>4, <2>5, <2>6, OnlyOne
<1> QED BY <1>3, <1>4 DEF FetchLog
\* A viewer that stores a log leaves everybody where they are, itself apart.
LEMMA Stores ==
  ASSUME IInv, NEW v \in Viewers, UNCHANGED mixed, TypeOK', view[v].at \in {"create", "write"},
         NEW w \in BOOLEAN, entry' = [entry EXCEPT ![Key(v)] = [of |-> view[v].got, whole |-> w]],
         \A u \in Viewers : /\ view'[u].want = view[u].want /\ view'[u].of = view[u].of
                            /\ view'[u].got = view[u].got,
         \A u \in Viewers \ {v} : view'[u].at = view[u].at,
         view'[v].at \in {"write", "open"}
  PROVE  IInv'
<1>1. view[v].of \in Attempts /\ Fits(view[v].of, view[v].got)
  BY DEF IInv, ViewInv
<1>2. EntryInv'
  <2> SUFFICES ASSUME NEW a \in Attempts, entry'[a] # NoFile PROVE Fits(a, entry'[a].of)
    BY DEF EntryInv, Fits
  <2>1. CASE a = view[v].of
    <3>1. entry'[a] = [of |-> view[v].got, whole |-> w]
      BY <1>1, <2>1 DEF IInv, TypeOK, Key
    <3> QED BY <1>1, <2>1, <3>1
  <2>2. CASE a # view[v].of
    BY <2>2 DEF IInv, TypeOK, EntryInv, Key
  <2> QED BY <2>1, <2>2
<1>3. ASSUME NEW u \in Viewers PROVE ViewInv(u)'
  <2>1. CASE u = v
    BY <1>1, <2>1 DEF IInv, ViewInv, Fits
  <2>2. CASE u # v
    BY <2>2 DEF IInv, ViewInv, Fits
  <2> QED BY <2>1, <2>2
<1> QED BY <1>2, <1>3, LogAssumption DEF IInv

LEMMA EntryTyped ==
  ASSUME IInv, NEW v \in Viewers, NEW w \in BOOLEAN,
         entry' = [entry EXCEPT ![Key(v)] = [of |-> view[v].got, whole |-> w]]
  PROVE  entry' \in [Attempts -> [of : 0..MaxAttempts, whole : BOOLEAN]]
BY DEF IInv, TypeOK, View

LEMMA CreateEntryPreserves == ASSUME IInv, NEW v \in Viewers, CreateEntry(v) PROVE IInv'
<1>1. World /\ UNCHANGED mixed /\ (Fault \/ NoFault) /\ view[v].at = "create"
  BY DEF CreateEntry
<1>2. faults' \in 0..MaxFaults
  BY <1>1, Counts
<1>3. CASE Fails(v) /\ UNCHANGED entry
  <2>1. TypeOK'
    BY <1>1, <1>2, <1>3, Ends DEF IInv, TypeOK, World
  <2> QED BY <1>1, <1>3, <2>1, Ends, OnlyOne
<1>4. CASE view' = Truncated(v) /\ entry' = [entry EXCEPT ![Key(v)] = [of |-> view[v].got, whole |-> FALSE]]
  <2>1. ASSUME NEW u \in Viewers
        PROVE  /\ view'[u] \in View
               /\ view'[u].want = view[u].want /\ view'[u].of = view[u].of /\ view'[u].got = view[u].got
               /\ u # v => view'[u].at = view[u].at
               /\ u = v => view'[u].at = "write"
    BY <1>4, <2>1 DEF IInv, TypeOK, View, Truncated
  <2>2. view' \in [Viewers -> View]
    BY <1>4, <2>1 DEF Truncated
  <2>3. TypeOK'
    BY <1>1, <1>2, <1>4, <2>2, EntryTyped DEF IInv, TypeOK, World
  <2> QED BY <1>1, <1>4, <2>1, <2>3, Stores
<1> QED BY <1>3, <1>4 DEF CreateEntry

LEMMA WriteEntryPreserves == ASSUME IInv, NEW v \in Viewers, WriteEntry(v) PROVE IInv'
<1>1. World /\ UNCHANGED mixed /\ (Fault \/ NoFault) /\ view[v].at = "write"
  BY DEF WriteEntry
<1>2. faults' \in 0..MaxFaults
  BY <1>1, Counts
<1>3. CASE Fails(v) /\ UNCHANGED entry
  <2>1. TypeOK'
    BY <1>1, <1>2, <1>3, Ends DEF IInv, TypeOK, World
  <2> QED BY <1>1, <1>3, <2>1, Ends, OnlyOne
<1>4. ASSUME To(v, "open"), NEW w \in BOOLEAN,
             entry' = [entry EXCEPT ![Key(v)] = [of |-> view[v].got, whole |-> w]]
      PROVE  IInv'
  <2>1. TypeOK'
    BY <1>1, <1>2, <1>4, Goes, EntryTyped DEF IInv, TypeOK, World
  <2> QED BY <1>1, <1>4, <2>1, Goes, Stores
<1> QED BY <1>3, <1>4 DEF WriteEntry

LEMMA OpenEntryPreserves == ASSUME IInv, NEW v \in Viewers, OpenEntry(v) PROVE IInv'
<1>1. World /\ UNCHANGED <<entry, mixed, faults>> /\ view[v].at = "open"
  BY DEF OpenEntry
<1>2. CASE Fails(v)
  <2>1. TypeOK'
    BY <1>1, <1>2, Ends DEF IInv, TypeOK, World
  <2> QED BY <1>1, <1>2, <2>1, Ends, OnlyOne
<1>3. CASE /\ entry[Key(v)].whole
           /\ view' = [view EXCEPT ![v].at = "show", ![v].got = entry[Key(v)].of]
  <2>1. view[v].of \in Attempts /\ (view[v].want # 0 => view[v].of = view[v].want)
    BY <1>1 DEF IInv, ViewInv
  <2>2. Fits(view[v].of, entry[Key(v)].of) /\ entry[Key(v)].of \in 0..MaxAttempts
    BY <1>3, <2>1 DEF IInv, TypeOK, EntryInv, Key, NoFile
  <2>3. /\ view' \in [Viewers -> View]
        /\ view'[v].at = "show" /\ view'[v].got = entry[Key(v)].of /\ view'[v].want = view[v].want
        /\ view'[v].of = view[v].of
        /\ \A u \in Viewers \ {v} : view'[u] = view[u]
    BY <1>3, <2>2 DEF IInv, TypeOK, View
  <2>4. TypeOK'
    BY <1>1, <2>3 DEF IInv, TypeOK, World
  <2>5. ViewInv(v)'
    BY <1>1, <2>1, <2>2, <2>3 DEF ViewInv, Fits, Attempts
  <2> QED BY <1>1, <2>3, <2>4, <2>5, OnlyOne
<1> QED BY <1>2, <1>3 DEF OpenEntry

LEMMA ShowPreserves == ASSUME IInv, NEW v \in Viewers, Show(v) PROVE IInv'
<1>1. World /\ UNCHANGED <<entry, mixed>> /\ (Fault \/ NoFault) /\ view[v].at = "show"
  BY DEF Show
<1>2. faults' \in 0..MaxFaults
  BY <1>1, Counts
<1>3. CASE Fails(v)
  <2>1. TypeOK'
    BY <1>1, <1>2, <1>3, Ends DEF IInv, TypeOK, World
  <2> QED BY <1>1, <1>3, <2>1, Ends, OnlyOne
<1>4. CASE To(v, "shown")
  <2>1. TypeOK'
    BY <1>1, <1>2, <1>4, Goes DEF IInv, TypeOK, World
  <2>2. ViewInv(v)'
    BY <1>1, <1>4, Goes DEF IInv, ViewInv, Fits, Attempts
  <2> QED BY <1>1, <1>4, <2>1, <2>2, Goes, OnlyOne
<1> QED BY <1>3, <1>4 DEF Show

LEMMA NextPreserves == IInv /\ [Next]_vars => IInv'
<1> SUFFICES ASSUME IInv, [Next]_vars PROVE IInv'
  OBVIOUS
<1>1. CASE RunChanges
  BY <1>1, ChangesPreserve
<1>2. ASSUME NEW v \in Viewers, Start(v) \/ Viewer(v) PROVE IInv'
  BY <1>2, StartPreserves, GetRunPreserves, ExistsPreserves, FetchLogPreserves, CreateEntryPreserves,
     WriteEntryPreserves, OpenEntryPreserves, ShowPreserves DEF Viewer
<1>3. CASE UNCHANGED vars
  BY <1>3, LogAssumption DEF vars, IInv, TypeOK, EntryInv, ViewInv, Fits
<1> QED BY <1>1, <1>2, <1>3 DEF Next

-----------------------------------------------------------------------------
\* The inductive invariant holds of every behaviour.
THEOREM Invariance == Spec => []IInv
<1>1. Init => IInv
  BY InitIInv
<1> QED BY <1>1, NextPreserves, PTL DEF Spec

\* Every variable keeps its type.
THEOREM TypeCorrectness == Spec => []TypeOK
<1>1. IInv => TypeOK
  BY DEF IInv
<1> QED BY <1>1, Invariance, PTL

\* `gh run view --log` shows the log of the attempt it was asked for, however many viewers
\* share the cache, unless the run was run again while one of them read it.
THEOREM LogSound == Spec => []LogRight
<1>1. IInv => LogRight
  BY DEF IInv, ViewInv, Fits, LogRight
<1> QED BY <1>1, Invariance, PTL

-----------------------------------------------------------------------------
\* The watch.
Jobs == Watch!Jobs
Note == Watch!Note
Listing == [id : Jobs, status : Watch!Status]
ToSet(s) == Watch!ToSet(s)
Upto(s, j) == {n \in ToSet(s) : n[1] <= j}
Of(s, D) == {n \in ToSet(s) : n[1] \in D}

Ids(list) == {r.id : r \in list}
Done == Ids(listed) \ Ids(todo)
Created(j) == j \in Jobs /\ job[j] # "none"
Cached(j) == cache[j].notes

\* Annotations that exist, none of them twice.
Valid(s) == Watch!IsInjective(s) /\ \A n \in ToSet(s) : Created(n[1]) /\ n[2] <= ann[n[1]]

WatchType ==
    /\ job \in [Jobs -> Watch!Status \cup {"none"}] /\ ann \in [Jobs -> 0..MaxNotes]
    /\ todo \subseteq listed /\ listed \subseteq Listing
    /\ DOMAIN cache \subseteq Jobs
NotesType ==
    /\ annotations.notes \in Seq(Note) /\ screen.notes \in Seq(Note)
    /\ \A j \in DOMAIN cache : Cached(j) \in Seq(Note)

\* A completed run changes no more, and its jobs are read after it.
FinalInv ==
    /\ pc \in {"jobs", "annotations"} /\ status = "completed" =>
        runStatus = "completed" /\ (pc = "annotations" => listed = Watch!Existing)
    /\ res = "ok" => pc = "done"

\* A token that may not read annotations has none, another is not refused.
ReadInv ==
    /\ mayRead => ~missing
    /\ ~mayRead => screen.notes = <<>> /\ DOMAIN cache = {} /\ annotations.notes = <<>>

\* What is cached is of jobs that exist, and in a round of jobs that are listed, which are gone
\* through in their order.
ListedInv ==
    /\ \A j \in DOMAIN cache : Created(j)
    /\ pc = "annotations" =>
        /\ \A r \in listed : Created(r.id)
        /\ \A r, q \in listed : r.id = q.id => r = q
        /\ \A i \in Done, r \in todo : i < r.id
        /\ DOMAIN cache \subseteq Ids(listed)

\* A cached list.
CacheInv ==
    /\ Valid(screen.notes)
    /\ \A j \in DOMAIN cache :
        /\ Valid(Cached(j)) /\ \A n \in ToSet(Cached(j)) : n[1] <= j
        /\ Upto(screen.notes, j) \subseteq ToSet(Cached(j))
        /\ \A i \in DOMAIN cache : i < j => Upto(Cached(j), i) \subseteq ToSet(Cached(i))

\* The list of the round, and what it is put together from.
RoundInv ==
    pc = "annotations" =>
        /\ \A n \in ToSet(screen.notes) : n[1] \in Ids(listed)
        /\ \A j \in DOMAIN cache : \A n \in ToSet(Cached(j)) : n[1] \in Ids(listed)
        /\ ~missing =>
            /\ Valid(annotations.notes) /\ \A n \in ToSet(annotations.notes) : n[1] \in Done
            /\ Of(screen.notes, Done) \subseteq ToSet(annotations.notes)
            /\ \A j \in DOMAIN cache \ Done : Of(Cached(j), Done) \subseteq ToSet(annotations.notes)
            /\ \A j \in DOMAIN cache \cap Done : Upto(annotations.notes, j) \subseteq ToSet(Cached(j))

WatchInv == WatchType /\ FinalInv /\ ReadInv /\ ListedInv /\ (~overwritten => NotesType /\ CacheInv /\ RoundInv)

-----------------------------------------------------------------------------
\* Lists of annotations.
LEMMA Numbered ==
  /\ NJobs \in Nat /\ MaxNotes \in Nat /\ Jobs = 1..NJobs /\ Note = Jobs \X (1..MaxNotes)
  /\ \A n \in Note : n[1] \in Jobs /\ n[1] \in Nat /\ n[2] \in Nat /\ n = <<n[1], n[2]>>
<1>1. NJobs \in Nat /\ MaxNotes \in Nat /\ Jobs = 1..NJobs /\ Note = Jobs \X (1..MaxNotes)
  BY WatchAssumption DEF Watch!WatchBounds, Jobs, Note, Watch!Jobs, Watch!Note
<1> QED BY <1>1

LEMMA Elements ==
  ASSUME NEW s \in Seq(Note), NEW n \in ToSet(s)
  PROVE  n \in Note
BY DEF ToSet, Watch!ToSet

LEMMA Concatenated ==
  ASSUME NEW a \in Seq(Note), NEW b \in Seq(Note)
  PROVE  /\ a \o b \in Seq(Note) /\ ToSet(a \o b) = ToSet(a) \cup ToSet(b)
         /\ Watch!IsInjective(a) /\ Watch!IsInjective(b) /\ ToSet(a) \cap ToSet(b) = {} => Watch!IsInjective(a \o b)
<1>1. /\ DOMAIN a = 1..Len(a) /\ DOMAIN b = 1..Len(b) /\ DOMAIN (a \o b) = 1..(Len(a) + Len(b))
      /\ Len(a) \in Nat /\ Len(b) \in Nat /\ a \o b \in Seq(Note)
  OBVIOUS
<1>2. \A i \in DOMAIN (a \o b) : (a \o b)[i] = IF i <= Len(a) THEN a[i] ELSE b[i - Len(a)]
  OBVIOUS
<1>3. ASSUME NEW i \in DOMAIN a PROVE i \in DOMAIN (a \o b) /\ (a \o b)[i] = a[i]
  BY <1>1, <1>2, <1>3
<1>4. ASSUME NEW i \in DOMAIN b PROVE i + Len(a) \in DOMAIN (a \o b) /\ (a \o b)[i + Len(a)] = b[i]
  BY <1>1, <1>2, <1>4
<1>5. ASSUME NEW i \in DOMAIN (a \o b)
      PROVE  \/ i \in DOMAIN a /\ (a \o b)[i] = a[i]
             \/ i - Len(a) \in DOMAIN b /\ (a \o b)[i] = b[i - Len(a)] /\ i > Len(a)
  BY <1>1, <1>2, <1>5
<1>6. ToSet(a) \cup ToSet(b) \subseteq ToSet(a \o b)
  BY <1>3, <1>4 DEF ToSet, Watch!ToSet
<1>7. ToSet(a \o b) \subseteq ToSet(a) \cup ToSet(b)
  BY <1>5 DEF ToSet, Watch!ToSet
<1>8. ASSUME Watch!IsInjective(a), Watch!IsInjective(b), ToSet(a) \cap ToSet(b) = {}
      PROVE  Watch!IsInjective(a \o b)
  <2> SUFFICES ASSUME NEW i \in DOMAIN (a \o b), NEW k \in DOMAIN (a \o b), (a \o b)[i] = (a \o b)[k] PROVE i = k
    BY DEF Watch!IsInjective
  <2>1. \A x \in DOMAIN a, y \in DOMAIN b : a[x] # b[y]
    BY <1>8 DEF ToSet, Watch!ToSet
  <2>2. i \in DOMAIN a /\ k \in DOMAIN a => i = k
    BY <1>3, <1>8 DEF Watch!IsInjective
  <2>3. i - Len(a) \in DOMAIN b /\ k - Len(a) \in DOMAIN b /\ i > Len(a) /\ k > Len(a)
          /\ (a \o b)[i] = b[i - Len(a)] /\ (a \o b)[k] = b[k - Len(a)] => i = k
    <3>1. ASSUME i - Len(a) = k - Len(a) PROVE i = k
      BY <1>1, <3>1
    <3> QED BY <1>8, <3>1 DEF Watch!IsInjective
  <2> QED BY <1>5, <2>1, <2>2, <2>3
<1> QED BY <1>1, <1>6, <1>7, <1>8

LEMMA NotesOfJob ==
  ASSUME WatchType, NEW j \in Jobs
  PROVE  /\ Watch!NotesOf(j) \in Seq(Note) /\ Watch!IsInjective(Watch!NotesOf(j))
         /\ \A n \in ToSet(Watch!NotesOf(j)) : n[1] = j /\ n[2] <= ann[j]
         /\ \A n \in Note : n[1] = j /\ n[2] <= ann[j] => n \in ToSet(Watch!NotesOf(j))
<1>1. ann[j] \in 0..MaxNotes /\ ann[j] \in Nat
  BY Numbered DEF WatchType
<1>2. \A i \in 1..ann[j] : <<j, i>> \in Note
  BY <1>1, Numbered
<1>3. Watch!NotesOf(j) = [i \in 1..ann[j] |-> <<j, i>>]
  BY DEF Watch!NotesOf
<1>4. Watch!NotesOf(j) \in Seq(Note)
  BY <1>1, <1>2, <1>3
<1>5. Watch!IsInjective(Watch!NotesOf(j))
  BY <1>3 DEF Watch!IsInjective
<1>6. \A n \in ToSet(Watch!NotesOf(j)) : n[1] = j /\ n[2] <= ann[j]
  BY <1>1, <1>3 DEF ToSet, Watch!ToSet
<1>7. ASSUME NEW n \in Note, n[1] = j, n[2] <= ann[j] PROVE n \in ToSet(Watch!NotesOf(j))
  <2>1. n[2] \in 1..ann[j] /\ n = <<j, n[2]>>
    BY <1>1, <1>7, Numbered
  <2> QED BY <1>3, <2>1 DEF ToSet, Watch!ToSet
<1> QED BY <1>4, <1>5, <1>6, <1>7

-----------------------------------------------------------------------------
LEMMA WatchStarts == Watch!Init => WatchInv
<1> SUFFICES ASSUME Watch!Init PROVE WatchInv
  OBVIOUS
<1>1. /\ pc = "first" /\ res = "none" /\ todo = {} /\ listed = {} /\ annotations.notes = <<>> /\ screen.notes = <<>> /\ cache = <<>>
      /\ missing = FALSE /\ overwritten = FALSE
  BY DEF Watch!Init, Watch!Nil
<1>2. DOMAIN cache = {}
  BY <1>1
<1>3. WatchType
  BY <1>1, <1>2 DEF Watch!Init, WatchType, Jobs
<1>4. NotesType /\ FinalInv /\ ReadInv /\ ListedInv /\ RoundInv
  BY <1>1, <1>2 DEF NotesType, FinalInv, ReadInv, ListedInv, RoundInv
<1>5. ToSet(<<>>) = {} /\ Watch!IsInjective(<<>>)
  BY DEF ToSet, Watch!ToSet, Watch!IsInjective
<1>6. CacheInv
  BY <1>1, <1>2, <1>5 DEF CacheInv, Valid
<1> QED BY <1>3, <1>4, <1>6 DEF WatchInv

\* The service only adds jobs and annotations.
Grown ==
    /\ job' \in [Jobs -> Watch!Status \cup {"none"}] /\ ann' \in [Jobs -> 0..MaxNotes]
    /\ \A j \in Jobs : (job[j] # "none" => job'[j] # "none") /\ ann[j] <= ann'[j]

LEMMA ServiceGrows == WatchInv /\ Watch!Service => Grown
<1> SUFFICES ASSUME WatchInv, Watch!Service PROVE Grown
  OBVIOUS
<1>1. job \in [Jobs -> Watch!Status \cup {"none"}] /\ ann \in [Jobs -> 0..MaxNotes] /\ MaxNotes \in Nat
  BY Numbered DEF WatchInv, WatchType
<1>2. \A j \in Jobs : ann[j] \in Nat /\ ann[j] <= ann[j]
  BY <1>1
<1>3. CASE UNCHANGED <<job, ann>>
  BY <1>1, <1>2, <1>3 DEF Grown
<1>4. ASSUME NEW j \in Jobs, NEW x \in Watch!Status, job' = [job EXCEPT ![j] = x], ann' = ann
      PROVE  Grown
  <2>1. x # "none"
    BY <1>4 DEF Watch!Status
  <2> QED BY <1>1, <1>2, <1>4, <2>1 DEF Grown
<1>5. ASSUME NEW j \in Jobs, ann' = [ann EXCEPT ![j] = @ + 1], ann[j] < MaxNotes, job' = job
      PROVE  Grown
  BY <1>1, <1>2, <1>5 DEF Grown
<1> QED BY <1>3, <1>4, <1>5 DEF Watch!Service, Watch!JobStep, Watch!RunCompletes, Watch!Status, Jobs

LEMMA StaysValid ==
  ASSUME WatchType, Grown, NEW s \in Seq(Note), Valid(s)
  PROVE  \A n \in ToSet(s) : Created(n[1])' /\ n[2] <= ann'[n[1]]
<1> SUFFICES ASSUME NEW n \in ToSet(s) PROVE Created(n[1])' /\ n[2] <= ann'[n[1]]
  OBVIOUS
<1>1. n[1] \in Jobs /\ n[2] \in Nat
  BY Elements, Numbered
<1>2. ann[n[1]] \in Nat /\ ann'[n[1]] \in Nat /\ ann[n[1]] <= ann'[n[1]]
  BY <1>1, Numbered DEF WatchType, Grown
<1>3. job[n[1]] # "none" /\ n[2] <= ann[n[1]]
  BY DEF Valid, Created
<1> QED BY <1>1, <1>2, <1>3 DEF Created, Grown

LEMMA ServiceSteps == WatchInv /\ Watch!Service => WatchInv'
<1> SUFFICES ASSUME WatchInv, Watch!Service PROVE WatchInv'
  OBVIOUS
<1>1. /\ UNCHANGED <<mayRead, pc, res, status, todo, listed, annotations, missing, cache, overwritten, screen>>
      /\ runStatus = "in_progress"
  BY DEF Watch!Service, Watch!JobStep, Watch!RunCompletes, Watch!watcher
<1>2. Grown
  BY ServiceGrows
<1>3. Ids(listed)' = Ids(listed) /\ Done' = Done
  BY <1>1 DEF Ids, Done
<1>4. WatchType'
  BY <1>1, <1>2 DEF WatchInv, WatchType, Grown
<1>5. FinalInv'
  BY <1>1 DEF WatchInv, FinalInv
<1>6. ReadInv'
  BY <1>1 DEF WatchInv, ReadInv
<1>7. \A j : Created(j) => Created(j)'
  BY <1>2 DEF Created, Grown
<1>8. ListedInv'
  BY <1>1, <1>3, <1>7 DEF WatchInv, ListedInv
<1>9. ASSUME ~overwritten PROVE NotesType' /\ CacheInv' /\ RoundInv'
  <2>1. WatchType /\ NotesType /\ CacheInv /\ RoundInv
    BY <1>9 DEF WatchInv
  <2>2. NotesType'
    BY <1>1, <2>1 DEF NotesType, Cached
  <2>3. Valid(screen.notes)'
    BY <1>1, <1>2, <2>1, StaysValid DEF NotesType, CacheInv, Valid
  <2>4. \A j \in DOMAIN cache : Valid(Cached(j))'
    BY <1>1, <1>2, <2>1, StaysValid DEF NotesType, CacheInv, Valid, Cached
  <2>5. pc = "annotations" /\ ~missing => Valid(annotations.notes)'
    BY <1>1, <1>2, <2>1, StaysValid DEF NotesType, RoundInv, Valid
  <2>6. CacheInv'
    BY <1>1, <2>1, <2>3, <2>4 DEF CacheInv, Cached
  <2>7. RoundInv'
    BY <1>1, <1>3, <2>1, <2>5 DEF RoundInv, Cached
  <2> QED BY <2>2, <2>6, <2>7
<1> QED BY <1>1, <1>4, <1>5, <1>6, <1>8, <1>9 DEF WatchInv

\* Outside of a round nothing is put together.
LEMMA BetweenRounds ==
  ASSUME WatchInv, pc' # "annotations", UNCHANGED <<job, ann, mayRead, todo, listed, annotations, missing, cache, overwritten, screen>>,
         pc' = "jobs" /\ status' = "completed" => runStatus' = "completed",
         res' = "ok" => pc' = "done"
  PROVE  WatchInv'
<1>1. WatchType'
  BY DEF WatchInv, WatchType
<1>2. FinalInv' /\ ReadInv'
  BY DEF WatchInv, FinalInv, ReadInv
<1>3. ListedInv'
  BY DEF WatchInv, ListedInv, Created
<1>4. ~overwritten => NotesType' /\ CacheInv' /\ RoundInv'
  BY DEF WatchInv, NotesType, CacheInv, RoundInv, Valid, Created, Cached
<1> QED BY <1>1, <1>2, <1>3, <1>4 DEF WatchInv

LEMMA ReaderSteps ==
  WatchInv /\ (Watch!First \/ Watch!GetRun \/ Watch!Sleep \/ Watch!Fails) => WatchInv'
<1> SUFFICES ASSUME WatchInv, Watch!First \/ Watch!GetRun \/ Watch!Sleep \/ Watch!Fails PROVE WatchInv'
  OBVIOUS
<1>1. UNCHANGED <<job, ann, mayRead, todo, listed, annotations, missing, cache, overwritten, screen>>
  BY DEF Watch!First, Watch!GetRun, Watch!Sleep, Watch!Fails, Watch!service
<1>2. pc' # "annotations"
  BY DEF Watch!First, Watch!GetRun, Watch!Sleep, Watch!Fails
<1>3. pc' = "jobs" /\ status' = "completed" => runStatus' = "completed"
  BY DEF Watch!First, Watch!GetRun, Watch!Sleep, Watch!Fails, Watch!service
<1>4. res' = "ok" => pc' = "done"
  BY DEF WatchInv, FinalInv, Watch!First, Watch!GetRun, Watch!Sleep, Watch!Fails
<1> QED BY <1>1, <1>2, <1>3, <1>4, BetweenRounds

\* A round begins.
LEMMA GetJobsStep == WatchInv /\ Watch!GetJobs => WatchInv'
<1> SUFFICES ASSUME WatchInv, Watch!GetJobs, ~Watch!Fails PROVE WatchInv'
  BY ReaderSteps
<1>1. /\ pc = "jobs" /\ pc' = "annotations" /\ todo' = Watch!Existing /\ listed' = Watch!Existing
      /\ annotations'.notes = <<>> /\ missing' = FALSE
      /\ UNCHANGED <<job, ann, runStatus, mayRead, res, status, cache, overwritten, screen>>
  BY DEF Watch!GetJobs, Watch!FreshJobs, Watch!Nil, Watch!service
<1>2. /\ Watch!Existing \subseteq Listing
      /\ \A r \in Watch!Existing : Created(r.id)
      /\ \A r, q \in Watch!Existing : r.id = q.id => r = q
      /\ \A j : Created(j) => j \in Ids(Watch!Existing)
  <2>1. Watch!Existing = {[id |-> j, status |-> job[j]] : j \in {i \in Jobs : job[i] # "none"}}
    BY DEF Watch!Existing, Jobs
  <2>2. \A j \in Jobs : job[j] # "none" => [id |-> j, status |-> job[j]] \in Listing
    BY DEF WatchInv, WatchType, Listing
  <2>3. \A r \in Watch!Existing : r.id \in Jobs /\ job[r.id] # "none" /\ r = [id |-> r.id, status |-> job[r.id]]
    <3> SUFFICES ASSUME NEW r \in Watch!Existing PROVE r.id \in Jobs /\ job[r.id] # "none" /\ r = [id |-> r.id, status |-> job[r.id]]
      OBVIOUS
    <3>1. PICK j \in Jobs : job[j] # "none" /\ r = [id |-> j, status |-> job[j]]
      BY <2>1
    <3> QED BY <3>1
  <2>4. \A j \in Jobs : job[j] # "none" => \E r \in Watch!Existing : r.id = j
    <3> SUFFICES ASSUME NEW j \in Jobs, job[j] # "none" PROVE \E r \in Watch!Existing : r.id = j
      OBVIOUS
    <3>1. [id |-> j, status |-> job[j]] \in Watch!Existing /\ [id |-> j, status |-> job[j]].id = j
      BY <2>1
    <3> QED BY <3>1
  <2> QED BY <2>1, <2>2, <2>3, <2>4 DEF Ids, Created
<1>3. Done' = {}
  BY <1>1 DEF Done, Ids
<1>4. WatchType'
  BY <1>1, <1>2 DEF WatchInv, WatchType
<1>5. Watch!Existing' = Watch!Existing
  BY <1>1 DEF Watch!Existing
<1>6. FinalInv' /\ ReadInv'
  BY <1>1, <1>5 DEF WatchInv, FinalInv, ReadInv
<1>7. \A j : Created(j)' <=> Created(j)
  BY <1>1 DEF Created
<1>8. ListedInv'
  <2>1. \A j \in DOMAIN cache' : Created(j)'
    BY <1>1, <1>7 DEF WatchInv, ListedInv
  <2>2. Ids(listed)' = Ids(Watch!Existing)
    BY <1>1 DEF Ids
  <2>3. DOMAIN cache' \subseteq Ids(listed)'
    BY <1>1, <1>2, <2>2 DEF WatchInv, ListedInv
  <2> QED BY <1>1, <1>2, <1>3, <1>7, <2>1, <2>3 DEF ListedInv
<1>9. ASSUME ~overwritten PROVE NotesType' /\ CacheInv' /\ RoundInv'
  <2>1. WatchType /\ NotesType /\ CacheInv
    BY <1>9 DEF WatchInv
  <2>2. NotesType'
    BY <1>1, <2>1 DEF NotesType, Cached
  <2>3. CacheInv'
    BY <1>1, <2>1 DEF CacheInv, Cached, Valid, Created
  <2>4. Ids(listed)' = Ids(Watch!Existing)
    BY <1>1 DEF Ids
  <2>5. /\ \A n \in ToSet(screen.notes)' : n[1] \in Ids(listed)'
        /\ \A j \in DOMAIN cache' : \A n \in ToSet(Cached(j))' : n[1] \in Ids(listed)'
    BY <1>1, <1>2, <2>1, <2>4 DEF CacheInv, Cached, Valid
  <2>6. ToSet(annotations.notes)' = {} /\ Watch!IsInjective(annotations.notes)'
    BY <1>1 DEF ToSet, Watch!ToSet, Watch!IsInjective
  <2>7. RoundInv'
    BY <1>3, <2>5, <2>6 DEF RoundInv, Of, Valid
  <2> QED BY <2>2, <2>3, <2>7
<1> QED BY <1>1, <1>4, <1>6, <1>8, <1>9 DEF WatchInv

\* The next job of a round.
LEMMA Foremost ==
  ASSUME WatchInv, pc = "annotations", NEW r \in todo, Watch!Foremost(r), todo' = todo \ {r}, UNCHANGED listed
  PROVE  /\ r.id \in Jobs /\ r.id \in Nat /\ Created(r.id) /\ r.id \notin Done /\ Done' = Done \cup {r.id}
         /\ \A i \in Done : i < r.id
         /\ \A i \in Ids(listed) : i \in Nat /\ (i <= r.id => i \in Done')
         /\ \A i \in Ids(listed) \ Done' : r.id < i
<1>1. /\ todo \subseteq listed /\ listed \subseteq Listing /\ Jobs \subseteq Nat
      /\ \A q \in listed : Created(q.id) /\ q.id \in Jobs /\ q.id \in Nat
      /\ \A p, q \in listed : p.id = q.id => p = q
      /\ \A i \in Done, q \in todo : i < q.id
  <2>1. Jobs \subseteq Nat
    BY Numbered
  <2> QED BY <2>1 DEF WatchInv, WatchType, ListedInv, Listing
<1>2. \A q \in todo : r.id <= q.id
  BY DEF Watch!Foremost
<1>3. Done' = Done \cup {r.id} /\ r.id \notin Done
  BY <1>1 DEF Done, Ids
<1>4. \A i \in Ids(listed) : i \in Nat /\ (i \in Done \/ \E q \in todo : i = q.id)
  BY <1>1 DEF Done, Ids
<1>5. \A q \in todo : q # r => r.id < q.id
  BY <1>1, <1>2
<1> QED BY <1>1, <1>3, <1>4, <1>5

\* What holds of the list of a round when the next job is done.
NewRound(new, j) ==
    /\ Valid(new) /\ \A n \in ToSet(new) : n[1] \in Done \cup {j}
    /\ Of(screen.notes, Done \cup {j}) \subseteq ToSet(new)
    /\ \A i \in DOMAIN cache \ (Done \cup {j}) : Of(Cached(i), Done \cup {j}) \subseteq ToSet(new)
    /\ \A i \in DOMAIN cache \cap Done : Upto(new, i) \subseteq ToSet(Cached(i))

LEMMA FromCacheFits ==
  ASSUME WatchInv, ~overwritten, ~missing, pc = "annotations", NEW r \in todo, Watch!Foremost(r), todo' = todo \ {r},
         UNCHANGED listed, r.id \in DOMAIN cache
  PROVE  NewRound(Cached(r.id), r.id)
<1> DEFINE j == r.id
<1>1. NotesType /\ CacheInv /\ RoundInv /\ ListedInv /\ DOMAIN cache \subseteq Ids(listed) /\ WatchType
  BY DEF WatchInv, ListedInv
<1>2. /\ j \in Nat /\ Done' = Done \cup {j} /\ \A i \in Done : i < j
      /\ \A i \in Ids(listed) : i \in Nat /\ (i <= j => i \in Done')
      /\ \A i \in Ids(listed) \ Done' : j < i
  BY Foremost
<1>3. /\ Valid(Cached(j)) /\ \A n \in ToSet(Cached(j)) : n[1] <= j /\ n[1] \in Ids(listed)
      /\ Upto(screen.notes, j) \subseteq ToSet(Cached(j))
  BY <1>1 DEF CacheInv, RoundInv
<1>4. \A i \in Done \cup {j} : i <= j
  BY <1>2 DEF Done
<1>5. \A n \in ToSet(Cached(j)) : n[1] \in Done \cup {j}
  BY <1>2, <1>3
<1>6. Of(screen.notes, Done \cup {j}) \subseteq ToSet(Cached(j))
  BY <1>3, <1>4 DEF Of, Upto
<1>7. ASSUME NEW i \in DOMAIN cache \ (Done \cup {j}) PROVE Of(Cached(i), Done \cup {j}) \subseteq ToSet(Cached(j))
  <2>1. j < i
    BY <1>1, <1>2, <1>7
  <2>2. Upto(Cached(i), j) \subseteq ToSet(Cached(j))
    BY <1>1, <1>7, <2>1 DEF CacheInv
  <2> QED BY <1>4, <2>2 DEF Of, Upto
<1>8. \A i \in DOMAIN cache \cap Done : Upto(Cached(j), i) \subseteq ToSet(Cached(i))
  BY <1>1, <1>2 DEF CacheInv
<1> QED BY <1>3, <1>5, <1>6, <1>7, <1>8 DEF NewRound

LEMMA ReadFits ==
  ASSUME WatchInv, ~overwritten, ~missing, pc = "annotations", NEW r \in todo, Watch!Foremost(r), todo' = todo \ {r},
         UNCHANGED listed
  PROVE  NewRound(annotations.notes \o Watch!NotesOf(r.id), r.id)
<1> DEFINE j == r.id
           own == Watch!NotesOf(j)
           new == annotations.notes \o own
<1>1. NotesType /\ CacheInv /\ RoundInv /\ WatchType
  BY DEF WatchInv
<1>2. j \in Jobs /\ j \in Nat /\ Created(j) /\ j \notin Done /\ \A i \in Done : i < j
  BY Foremost
<1>3. /\ own \in Seq(Note) /\ Watch!IsInjective(own) /\ \A n \in ToSet(own) : n[1] = j /\ n[2] <= ann[j]
      /\ \A n \in Note : n[1] = j /\ n[2] <= ann[j] => n \in ToSet(own)
  BY <1>1, <1>2, NotesOfJob
<1>4. /\ annotations.notes \in Seq(Note) /\ Valid(annotations.notes)
      /\ \A n \in ToSet(annotations.notes) : n[1] \in Done
      /\ Of(screen.notes, Done) \subseteq ToSet(annotations.notes)
      /\ \A i \in DOMAIN cache \ Done : Of(Cached(i), Done) \subseteq ToSet(annotations.notes)
      /\ \A i \in DOMAIN cache \cap Done : Upto(annotations.notes, i) \subseteq ToSet(Cached(i))
  BY <1>1 DEF NotesType, RoundInv
<1> HIDE DEF own
<1>5. ToSet(annotations.notes) \cap ToSet(own) = {}
  BY <1>2, <1>3, <1>4
<1>6. ToSet(new) = ToSet(annotations.notes) \cup ToSet(own) /\ Watch!IsInjective(new)
  BY <1>3, <1>4, <1>5, Concatenated DEF Valid
<1> HIDE DEF new
<1>7. Valid(new) /\ \A n \in ToSet(new) : n[1] \in Done \cup {j}
  BY <1>2, <1>3, <1>4, <1>6 DEF Valid
<1>8. ASSUME NEW s \in Seq(Note), Valid(s), Of(s, Done) \subseteq ToSet(annotations.notes)
      PROVE  Of(s, Done \cup {j}) \subseteq ToSet(new)
  <2> SUFFICES ASSUME NEW n \in ToSet(s), n[1] \in Done \cup {j} PROVE n \in ToSet(new)
    BY DEF Of
  <2>1. n \in Note /\ n[2] <= ann[n[1]]
    BY <1>8, Elements DEF Valid
  <2> QED BY <1>3, <1>6, <1>8, <2>1 DEF Of
<1>9. Of(screen.notes, Done \cup {j}) \subseteq ToSet(new)
  BY <1>1, <1>4, <1>8 DEF NotesType, CacheInv
<1>10. \A i \in DOMAIN cache \ (Done \cup {j}) : Of(Cached(i), Done \cup {j}) \subseteq ToSet(new)
  BY <1>1, <1>4, <1>8 DEF NotesType, CacheInv
<1>11. ASSUME NEW i \in DOMAIN cache \cap Done PROVE Upto(new, i) \subseteq ToSet(Cached(i))
  <2>1. ~(j <= i)
    BY <1>1, <1>2, Numbered DEF WatchType
  <2> QED BY <1>3, <1>4, <1>6, <2>1 DEF Upto
<1> QED BY <1>7, <1>9, <1>10, <1>11 DEF NewRound, new, own

\* The list is the new one, and cached or not.
LEMMA JobDone ==
  ASSUME WatchInv, pc = "annotations", NEW r \in todo, Watch!Foremost(r), todo' = todo \ {r}, mayRead,
         UNCHANGED <<job, ann, runStatus, mayRead, pc, res, status, listed, missing, screen>>,
         DOMAIN cache' \subseteq DOMAIN cache \cup {r.id},
         overwritten => overwritten',
         ~overwritten' => /\ annotations'.notes \in Seq(Note) /\ NewRound(annotations'.notes, r.id)
                          /\ \A i \in DOMAIN cache : i \in DOMAIN cache' /\ Cached(i)' = Cached(i)
                          /\ r.id \in DOMAIN cache' => Cached(r.id)' = annotations'.notes
  PROVE  WatchInv'
<1> DEFINE j == r.id
<1>1. WatchType /\ FinalInv /\ ReadInv /\ ListedInv /\ todo \subseteq listed
  BY DEF WatchInv, WatchType
<1>2. /\ j \in Jobs /\ j \in Nat /\ Created(j) /\ j \notin Done /\ Done' = Done \cup {j}
      /\ \A i \in Done : i < j
      /\ \A i \in Ids(listed) : i \in Nat /\ (i <= j => i \in Done')
      /\ \A i \in Ids(listed) \ Done' : j < i
  BY Foremost
<1>3. WatchType'
  BY <1>1, <1>2 DEF WatchType
<1>4. FinalInv' /\ ReadInv'
  BY <1>1 DEF FinalInv, ReadInv, Watch!Existing
<1>5. Ids(listed)' = Ids(listed) /\ (\A i : Created(i)' <=> Created(i)) /\ j \in Ids(listed)
  BY <1>1 DEF Ids, Created
<1>6. ListedInv'
  <2>1. \A i \in DOMAIN cache' : Created(i)'
    BY <1>1, <1>2, <1>5 DEF ListedInv
  <2>2. \A q \in listed' : Created(q.id)'
    BY <1>1, <1>5 DEF ListedInv
  <2>3. \A i \in Done', q \in todo' : i < q.id
    <3> SUFFICES ASSUME NEW i \in Done', NEW q \in todo' PROVE i < q.id
      OBVIOUS
    <3>1. q.id \in Ids(listed) \ Done'
      BY <1>1 DEF Done, Ids
    <3>2. j < q.id /\ q.id \in Nat
      BY <1>2, <3>1
    <3>3. i \in Nat /\ i <= j
      <4>1. \A k \in Done : k \in Nat /\ k < j
        BY <1>2 DEF Done
      <4> QED BY <1>2, <4>1
    <3> QED BY <1>2, <3>2, <3>3
  <2>4. DOMAIN cache' \subseteq Ids(listed)'
    BY <1>1, <1>5 DEF ListedInv
  <2> QED BY <1>1, <2>1, <2>2, <2>3, <2>4 DEF ListedInv
<1>7. ASSUME ~overwritten' PROVE NotesType' /\ CacheInv' /\ RoundInv'
  <2>1. NotesType /\ CacheInv /\ RoundInv /\ ~missing
    BY <1>1, <1>7 DEF WatchInv, ReadInv
  <2>2. /\ annotations'.notes \in Seq(Note) /\ NewRound(annotations'.notes, j)
        /\ \A i \in DOMAIN cache : i \in DOMAIN cache' /\ Cached(i)' = Cached(i)
        /\ j \in DOMAIN cache' => Cached(j)' = annotations'.notes
    BY <1>7
  <2> DEFINE new == annotations'.notes
  <2>3. /\ Valid(new) /\ \A n \in ToSet(new) : n[1] \in Done \cup {j}
        /\ Of(screen.notes, Done \cup {j}) \subseteq ToSet(new)
        /\ \A i \in DOMAIN cache \ (Done \cup {j}) : Of(Cached(i), Done \cup {j}) \subseteq ToSet(new)
        /\ \A i \in DOMAIN cache \cap Done : Upto(new, i) \subseteq ToSet(Cached(i))
    BY <2>2 DEF NewRound
  <2> HIDE DEF new
  <2>4. NotesType'
    BY <2>1, <2>2 DEF NotesType
  <2>5. ASSUME NEW s PROVE Valid(s)' <=> Valid(s)
    BY DEF Valid, Created
  <2>6. \A i \in DOMAIN cache' : i = j \/ (i \in DOMAIN cache /\ i # j)
    OBVIOUS
  <2>7. ASSUME NEW s \in Seq(Note), \A n \in ToSet(s) : n[1] \in Ids(listed), Of(s, Done \cup {j}) \subseteq ToSet(new)
        PROVE  Upto(s, j) \subseteq ToSet(new)
    BY <1>2, <2>7 DEF Upto, Of
  <2>8. Valid(screen.notes)' /\ Upto(screen.notes, j) \subseteq ToSet(new)
    BY <2>1, <2>3, <2>5, <2>7 DEF CacheInv, RoundInv, NotesType
  <2>9. \A i \in DOMAIN cache' : Cached(i)' = IF i = j THEN new ELSE Cached(i)
    BY <2>2, <2>6 DEF new
  <2>10. \A k \in Done \cup {j} : k \in Nat /\ k <= j
    BY <1>2 DEF Done
  <2>11. ASSUME NEW i \in DOMAIN cache'
         PROVE  /\ Valid(Cached(i))' /\ \A n \in ToSet(Cached(i))' : n[1] <= i
                /\ (Upto(screen.notes, i) \subseteq ToSet(Cached(i)))'
    <3>1. CASE i = j
      BY <2>3, <2>5, <2>8, <2>9, <2>10, <3>1 DEF Valid, Upto
    <3>2. CASE i # j
      BY <2>1, <2>5, <2>6, <2>9, <3>2 DEF CacheInv, Valid, Upto
    <3> QED BY <3>1, <3>2
  <2>12. ASSUME NEW k \in DOMAIN cache', NEW i \in DOMAIN cache', i < k
         PROVE  Upto(Cached(k)', i) \subseteq ToSet(Cached(i)')
    <3>1. i \in Ids(listed) /\ k \in Ids(listed) /\ i \in Nat /\ k \in Nat
      BY <1>1, <1>2, <1>5 DEF ListedInv
    <3>2. CASE k # j /\ i # j
      BY <2>1, <2>6, <2>9, <2>12, <3>2 DEF CacheInv
    <3>3. CASE k = j
      <4>1. i \in Done /\ i # j /\ i \in DOMAIN cache
        BY <1>2, <2>6, <2>12, <3>1, <3>3
      <4> QED BY <2>3, <2>9, <3>3, <4>1
    <3>4. CASE i = j
      <4>1. k \notin Done \cup {j} /\ k \in DOMAIN cache /\ k # j
        BY <2>6, <2>10, <2>12, <3>1, <3>4
      <4>2. Upto(Cached(k), j) \subseteq ToSet(new)
        BY <2>1, <2>3, <2>7, <4>1 DEF NotesType, RoundInv
      <4> QED BY <2>9, <3>4, <4>1, <4>2
    <3> QED BY <3>2, <3>3, <3>4
  <2>13. CacheInv'
    BY <2>8, <2>11, <2>12 DEF CacheInv, Upto
  <2>14. /\ \A n \in ToSet(screen.notes)' : n[1] \in Ids(listed)'
         /\ \A i \in DOMAIN cache' : \A n \in ToSet(Cached(i))' : n[1] \in Ids(listed)'
    <3>1. \A n \in ToSet(new) : n[1] \in Ids(listed)
      BY <1>5, <2>3 DEF Done
    <3> QED BY <1>5, <2>1, <2>6, <2>9, <3>1 DEF RoundInv
  <2>15. \A i \in DOMAIN cache' \ Done' : Of(Cached(i), Done)' \subseteq ToSet(new)
    BY <1>2, <2>3, <2>6, <2>9 DEF Of
  <2>16. \A i \in DOMAIN cache' \cap Done' : Upto(new, i) \subseteq ToSet(Cached(i))'
    BY <1>2, <2>3, <2>6, <2>9 DEF Upto
  <2>17. /\ Valid(annotations.notes)' /\ \A n \in ToSet(annotations.notes)' : n[1] \in Done'
         /\ Of(screen.notes, Done)' \subseteq ToSet(annotations.notes)'
    BY <1>2, <2>3, <2>5 DEF new, Of, Valid
  <2>18. RoundInv'
    BY <2>14, <2>15, <2>16, <2>17 DEF RoundInv, new, Of, Upto
  <2> QED BY <2>4, <2>13, <2>18
<1> QED BY <1>3, <1>4, <1>6, <1>7 DEF WatchInv

LEMMA GetAnnotationsStep == WatchInv /\ Watch!GetAnnotations => WatchInv'
<1> SUFFICES ASSUME WatchInv, Watch!GetAnnotations, ~Watch!Fails PROVE WatchInv'
  BY ReaderSteps
<1>1. PICK r \in todo :
        /\ Watch!Foremost(r) /\ pc = "annotations"
        /\ \/ /\ r.id \in DOMAIN cache /\ annotations' = cache[r.id] /\ todo' = todo \ {r}
              /\ UNCHANGED <<cache, overwritten, missing, pc, res, status, listed, screen, job, ann, runStatus, mayRead>>
           \/ /\ r.id \notin DOMAIN cache /\ mayRead /\ todo' = todo \ {r}
              /\ UNCHANGED <<missing, pc, res, status, listed, screen, job, ann, runStatus, mayRead>>
              /\ \E a \in Watch!Arrays(Watch!NotesOf(r.id)) :
                   LET kept == Watch!Kept(a, Watch!NotesOf(r.id)) IN
                   /\ annotations' = [notes |-> annotations.notes \o Watch!NotesOf(r.id), arr |-> a]
                   /\ cache' = IF Watch!Cacheable(r) THEN Watch!Remember(kept, r.id, Watch!NotesOf(r.id), a) ELSE kept
                   /\ overwritten' = (overwritten \/ kept # cache)
           \/ /\ ~mayRead /\ missing' = TRUE /\ todo' = {}
              /\ UNCHANGED <<cache, overwritten, annotations, pc, res, status, listed, screen, job, ann, runStatus, mayRead>>
  BY Zenon DEF Watch!GetAnnotations, Watch!FromCache, Watch!service
<1>2. WatchType /\ FinalInv /\ ReadInv /\ ListedInv
  BY DEF WatchInv
<1>3. CASE /\ r.id \in DOMAIN cache /\ annotations' = cache[r.id] /\ todo' = todo \ {r}
           /\ UNCHANGED <<cache, overwritten, missing, pc, res, status, listed, screen, job, ann, runStatus, mayRead>>
  <2>1. mayRead /\ ~missing
    BY <1>2, <1>3 DEF ReadInv
  <2>2. annotations'.notes = Cached(r.id) /\ \A i : Cached(i)' = Cached(i)
    BY <1>3 DEF Cached
  <2>3. ~overwritten => Cached(r.id) \in Seq(Note) /\ NewRound(Cached(r.id), r.id)
    BY <1>1, <1>3, <2>1, FromCacheFits DEF WatchInv, NotesType
  <2> QED BY <1>1, <1>3, <2>1, <2>2, <2>3, JobDone
<1>4. ASSUME r.id \notin DOMAIN cache, mayRead, todo' = todo \ {r},
             UNCHANGED <<missing, pc, res, status, listed, screen, job, ann, runStatus, mayRead>>,
             NEW a, NEW kept, kept = Watch!Kept(a, Watch!NotesOf(r.id)),
             annotations' = [notes |-> annotations.notes \o Watch!NotesOf(r.id), arr |-> a],
             cache' = IF Watch!Cacheable(r) THEN Watch!Remember(kept, r.id, Watch!NotesOf(r.id), a) ELSE kept,
             overwritten' <=> (overwritten \/ kept # cache)
      PROVE  WatchInv'
  <2>1. ~missing /\ r.id \in Jobs
    BY <1>1, <1>2, <1>4, Foremost DEF ReadInv
  <2>2. annotations'.notes = annotations.notes \o Watch!NotesOf(r.id)
    BY <1>4
  <2>3. ~overwritten => annotations'.notes \in Seq(Note) /\ NewRound(annotations'.notes, r.id)
    BY <1>1, <1>2, <1>4, <2>1, <2>2, ReadFits, NotesOfJob, Concatenated DEF WatchInv, NotesType
  <2>4. DOMAIN kept = DOMAIN cache
    BY <1>4 DEF Watch!Kept
  <2>5. /\ DOMAIN cache' \subseteq DOMAIN cache \cup {r.id}
        /\ \A i \in DOMAIN cache : i \in DOMAIN cache' /\ cache'[i] = kept[i]
        /\ r.id \in DOMAIN cache' => cache'[r.id].notes = annotations'.notes
    BY <1>4, <2>2, <2>4 DEF Watch!Remember
  <2>6. ~overwritten' => \A i \in DOMAIN cache : i \in DOMAIN cache' /\ Cached(i)' = Cached(i)
    BY <1>4, <2>5 DEF Cached
  <2>7. r.id \in DOMAIN cache' => Cached(r.id)' = annotations'.notes
    BY <2>5 DEF Cached
  <2> QED BY <1>1, <1>4, <2>3, <2>5, <2>6, <2>7, JobDone
<1>5. CASE /\ ~mayRead /\ missing' = TRUE /\ todo' = {}
           /\ UNCHANGED <<cache, overwritten, annotations, pc, res, status, listed, screen, job, ann, runStatus, mayRead>>
  <2>1. WatchType' /\ FinalInv' /\ ReadInv'
    BY <1>2, <1>5 DEF WatchType, FinalInv, ReadInv, Watch!Existing
  <2>2. ListedInv'
    BY <1>2, <1>5 DEF ListedInv, Created, Ids
  <2>3. ~overwritten => NotesType' /\ CacheInv' /\ RoundInv'
    BY <1>5 DEF WatchInv, NotesType, CacheInv, RoundInv, Cached, Valid, Created, Ids
  <2> QED BY <1>5, <2>1, <2>2, <2>3 DEF WatchInv
<1> QED BY <1>1, <1>3, <1>4, <1>5

\* A round is shown.
LEMMA ShowStep == WatchInv /\ Watch!Show => WatchInv' /\ Watch!ShownRight
<1> SUFFICES ASSUME WatchInv, Watch!Show PROVE WatchInv' /\ Watch!ShownRight
  OBVIOUS
<1>1. /\ pc = "annotations" /\ todo = {} /\ pc' \in {"done", "sleep"} /\ (res' = "ok" => res = "ok" \/ (status = "completed" /\ pc' = "done"))
      /\ screen'.notes = (IF missing THEN <<>> ELSE annotations.notes) /\ screen'.jobs = listed
      /\ UNCHANGED <<job, ann, runStatus, mayRead, status, todo, listed, annotations, missing, cache, overwritten>>
  BY DEF Watch!Show, Watch!AfterShow, Watch!service
<1>2. WatchType /\ FinalInv /\ ReadInv /\ ListedInv
  BY DEF WatchInv
<1>3. WatchType' /\ FinalInv' /\ ReadInv' /\ ListedInv'
  BY <1>1, <1>2 DEF WatchType, FinalInv, ReadInv, ListedInv, Created
<1>4. ToSet(<<>>) = {} /\ Watch!IsInjective(<<>>) /\ <<>> \in Seq(Note)
  BY DEF ToSet, Watch!ToSet, Watch!IsInjective
<1>5. ASSUME ~overwritten
      PROVE  /\ NotesType' /\ CacheInv' /\ RoundInv'
             /\ ToSet(screen.notes) \subseteq ToSet(screen'.notes) /\ Watch!IsInjective(screen'.notes)
  <2>1. NotesType /\ CacheInv /\ RoundInv
    BY <1>5 DEF WatchInv
  <2>2. Done = Ids(listed)
    BY <1>1 DEF Done, Ids
  <2>3. CASE missing
    <3>1. screen.notes = <<>> /\ screen'.notes = <<>> /\ DOMAIN cache = {}
      BY <1>1, <1>2, <2>3 DEF ReadInv
    <3> QED BY <1>1, <1>4, <2>1, <3>1 DEF NotesType, CacheInv, RoundInv, Valid
  <2>4. CASE ~missing
    <3>1. screen'.notes = annotations.notes
      BY <1>1, <2>4
    <3>2. NotesType' /\ RoundInv'
      BY <1>1, <2>1, <3>1 DEF NotesType, RoundInv, Cached
    <3>3. Valid(annotations.notes) /\ Of(screen.notes, Done) \subseteq ToSet(annotations.notes)
      BY <1>1, <2>1, <2>4 DEF RoundInv
    <3>4. ToSet(screen.notes) \subseteq ToSet(annotations.notes)
      BY <1>1, <2>1, <2>2, <3>3 DEF RoundInv, Of
    <3>5. \A j \in DOMAIN cache : Upto(annotations.notes, j) \subseteq ToSet(Cached(j))
      BY <1>1, <1>2, <2>1, <2>2, <2>4 DEF RoundInv, ListedInv
    <3>6. CacheInv'
      BY <1>1, <2>1, <3>1, <3>3, <3>5 DEF CacheInv, Valid, Created, Cached, Upto
    <3> QED BY <3>1, <3>2, <3>3, <3>4, <3>6 DEF Valid
  <2> QED BY <2>3, <2>4
<1>6. ASSUME res' = "ok" PROVE runStatus = "completed" /\ screen'.jobs = Watch!Existing
  BY <1>1, <1>2, <1>6 DEF FinalInv
<1> QED BY <1>1, <1>3, <1>5, <1>6 DEF WatchInv, Watch!ShownRight, ToSet

LEMMA WatchSteps == WatchInv /\ Watch!Next => WatchInv' /\ (Watch!Rendered => Watch!ShownRight)
<1>1. ASSUME Watch!Service \/ Watch!First \/ Watch!GetRun \/ Watch!Sleep \/ Watch!Fails \/ Watch!GetJobs \/ Watch!GetAnnotations
      PROVE  ~Watch!Rendered
  <2>1. screen' = screen
    BY <1>1 DEF Watch!Service, Watch!JobStep, Watch!RunCompletes, Watch!First, Watch!GetRun, Watch!Sleep, Watch!Fails,
         Watch!GetJobs, Watch!GetAnnotations, Watch!watcher
  <2>2. res' = "ok" => res = "ok"
    BY <1>1 DEF Watch!Service, Watch!JobStep, Watch!RunCompletes, Watch!First, Watch!GetRun, Watch!Sleep, Watch!Fails,
         Watch!GetJobs, Watch!GetAnnotations, Watch!watcher
  <2> QED BY <2>1, <2>2 DEF Watch!Rendered
<1> QED BY <1>1, ServiceSteps, ReaderSteps, GetJobsStep, GetAnnotationsStep, ShowStep DEF Watch!Next, Watch!Watcher
-----------------------------------------------------------------------------
\* The watch, and then the logs.
WorkflowInv == IInv /\ (stage = "watch" => WatchInv)

LEMMA LogsLeft ==
  ASSUME IInv, UNCHANGED logs, faults' \in 0..MaxFaults
  PROVE  IInv'
<1>1. UNCHANGED <<attempt, run, entry, view, mixed, views>>
  BY DEF logs
<1> QED BY <1>1, LogAssumption DEF IInv, TypeOK, EntryInv, ViewInv, Fits

LEMMA WatchFaults == TypeOK /\ Watch!Next => faults' \in 0..MaxFaults
<1> SUFFICES ASSUME TypeOK, Watch!Next PROVE faults' \in 0..MaxFaults
  OBVIOUS
<1>1. faults' = faults \/ (faults < MaxFaults /\ faults' = faults + 1)
  BY DEF Watch!Next, Watch!Watcher, Watch!Service, Watch!JobStep, Watch!RunCompletes, Watch!First, Watch!GetRun, Watch!Sleep,
       Watch!Fails, Watch!GetJobs, Watch!GetAnnotations, Watch!Show
<1> QED BY <1>1, LogAssumption DEF TypeOK

LEMMA WatchLeft == WatchInv /\ UNCHANGED <<service, watcher>> => WatchInv'
<1> SUFFICES ASSUME WatchInv, UNCHANGED <<service, watcher>> PROVE WatchInv'
  OBVIOUS
<1>1. /\ UNCHANGED <<job, ann, runStatus, mayRead>>
      /\ UNCHANGED <<pc, res, status, todo, listed, annotations, missing, cache, overwritten, screen>>
  BY DEF service, watcher
<1>2. WatchType' /\ FinalInv' /\ ReadInv' /\ ListedInv'
  BY <1>1 DEF WatchInv, WatchType, FinalInv, ReadInv, ListedInv, Created, Ids, Done, Watch!Existing
<1>3. ~overwritten => NotesType' /\ CacheInv' /\ RoundInv'
  BY <1>1 DEF WatchInv, NotesType, CacheInv, RoundInv, Created, Cached, Valid, Ids, Done, Of, Upto
<1> QED BY <1>1, <1>2, <1>3 DEF WatchInv

LEMMA WorkflowSteps == WorkflowInv /\ [WorkflowNext]_allVars =>
                         WorkflowInv' /\ [stage' = "watch" /\ Watch!Rendered => Watch!ShownRight]_allVars
<1> SUFFICES ASSUME WorkflowInv, [WorkflowNext]_allVars
             PROVE  WorkflowInv' /\ [stage' = "watch" /\ Watch!Rendered => Watch!ShownRight]_allVars
  OBVIOUS
<1>1. CASE Watching(Watch!Next)
  BY <1>1, WatchSteps, WatchFaults, LogsLeft DEF WorkflowInv, Watching, IInv
<1>2. CASE ThenLogs
  <2>1. stage' = "logs" /\ UNCHANGED vars
    BY <1>2 DEF ThenLogs
  <2> QED BY <2>1, NextPreserves DEF WorkflowInv
<1>3. CASE ShowingLogs(Next)
  BY <1>3, NextPreserves DEF WorkflowInv, ShowingLogs
<1>4. CASE UNCHANGED allVars
  <2>1. UNCHANGED <<stage, service, watcher, vars>>
    BY <1>4 DEF allVars
  <2> QED BY <1>4, <2>1, NextPreserves, WatchLeft DEF WorkflowInv
<1> QED BY <1>1, <1>2, <1>3, <1>4 DEF WorkflowNext

LEMMA WorkflowStarts == WorkflowInit => WorkflowInv
BY InitIInv, WatchStarts DEF WorkflowInit, WorkflowInv

\* The log that is shown is that of the attempt which was asked for, after a watch as well.
THEOREM WorkflowLogSound == WorkflowSpec => []LogRight
<1>1. WorkflowInv => LogRight
  BY DEF WorkflowInv, IInv, ViewInv, Fits, LogRight
<1> QED BY <1>1, WorkflowStarts, WorkflowSteps, PTL DEF WorkflowSpec

\* Every rendering of the watch is right: an annotation that the user has seen stays, unless
\* append has overwritten one, none is there twice, and the last rendering is the final
\* state (renderRun).
THEOREM ScreenSound == WorkflowSpec => ScreenRight
BY WorkflowStarts, WorkflowSteps, PTL DEF WorkflowSpec, ScreenRight
=============================================================================
