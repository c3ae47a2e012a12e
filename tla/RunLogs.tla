------------------------------- MODULE RunLogs -------------------------------
(***************************************************************************)
(* `gh run view --log` (runView, getRunLog and RunLogCache in              *)
(* pkg/cmd/run/view/view.go), by several processes that share the cache    *)
(* directory, while the run is run again, cancelled and deleted by         *)
(* `gh run rerun`, `cancel` and `delete`.  An entry of the cache is a file *)
(* that is filled in place.                                                *)
(***************************************************************************)
EXTENDS Naturals

CONSTANTS Viewers,
          MaxAttempts, \* bound on the attempts of the run
          MaxViews,    \* bound on the commands
          MaxFaults    \* bound on failing steps and killed commands

ASSUME LogAssumption == MaxAttempts \in Nat \ {0} /\ MaxViews \in Nat /\ MaxFaults \in Nat

VARIABLES
    attempt, run,  \* the service: the latest attempt, and whether it goes on or the run is deleted
    entry,         \* the cache: under each key no file, or the attempt it is of and whether all is there
    view,          \* each viewer
    mixed,         \* history: keys under which the log of a later attempt was stored
    views, faults

vars == <<attempt, run, entry, view, mixed, views, faults>>

Attempts == 1..MaxAttempts
NoFile == [of |-> 0, whole |-> FALSE]
Viewing(l, a) == [at |-> l, want |-> a, of |-> 0, got |-> 0, torn |-> FALSE]
Idle == Viewing("idle", 0)

\* A viewer: the attempt asked for (0 for the latest), the one of the run that was read, the one of
\* the log, and whether the open file was truncated by another process.
View == [at : {"idle", "run", "exists", "fetch", "create", "write", "open", "show", "shown"},
         want : 0..MaxAttempts, of : 0..MaxAttempts, got : 0..MaxAttempts, torn : BOOLEAN]

TypeOK ==
    /\ attempt \in Attempts /\ run \in {"in_progress", "completed", "deleted"}
    /\ entry \in [Attempts -> [of : 0..MaxAttempts, whole : BOOLEAN]]
    /\ view \in [Viewers -> View]
    /\ mixed \subseteq Attempts
    /\ views \in 0..MaxViews /\ faults \in 0..MaxFaults

Fault == faults < MaxFaults /\ faults' = faults + 1
NoFault == UNCHANGED faults
To(v, l) == view' = [view EXCEPT ![v].at = l]
Fails(v) == view' = [view EXCEPT ![v] = Idle]
World == UNCHANGED <<attempt, run, views>>

-----------------------------------------------------------------------------
\* The three commands that change the run; the service refuses to rerun or delete a run that
\* goes on, and to cancel one that does not.  A run also completes by itself.
CancelRun == run = "in_progress" /\ run' = "completed" /\ UNCHANGED attempt
RerunRun == run = "completed" /\ attempt < MaxAttempts /\ attempt' = attempt + 1 /\ run' = "in_progress"
DeleteRun == run = "completed" /\ run' = "deleted" /\ UNCHANGED attempt
RunChanges ==
    /\ CancelRun \/ RerunRun \/ DeleteRun
    /\ UNCHANGED <<entry, view, mixed, views, faults>>

Completed(a) == run # "deleted" /\ (a < attempt \/ run = "completed")

-----------------------------------------------------------------------------
\* runView.
Start(v) ==
    /\ view[v].at \in {"idle", "shown"} /\ views < MaxViews /\ views' = views + 1
    /\ \E a \in 0..attempt : view' = [view EXCEPT ![v] = Viewing("run", a)]
    /\ UNCHANGED <<attempt, run, entry, mixed, faults>>

\* The run, or its attempt, must have completed.
Asked(v) == IF view[v].want = 0 THEN attempt ELSE view[v].want
GetRun(v) ==
    /\ view[v].at = "run"
    /\ \/ Completed(Asked(v)) /\ view' = [view EXCEPT ![v].at = "exists", ![v].of = Asked(v)] /\ NoFault
       \/ ~Completed(Asked(v)) /\ Fails(v) /\ NoFault
       \/ Fails(v) /\ Fault
    /\ World /\ UNCHANGED <<entry, mixed>>

\* The key has the run and the moment when the attempt started.
KeyOfRun(v) == 1
Key(v) == view[v].of
Exists(v) ==
    /\ view[v].at = "exists"
    /\ To(v, IF entry[Key(v)] = NoFile THEN "fetch" ELSE "open")
    /\ World /\ UNCHANGED <<entry, mixed, faults>>

\* The archive is read to its end before anything is stored.  Without --attempt it is that of the
\* attempt which is the latest by now.
FetchLog(v) ==
    /\ view[v].at = "fetch"
    /\ \/ /\ Completed(Asked(v)) /\ NoFault
          /\ view' = [view EXCEPT ![v].at = "create", ![v].got = Asked(v)]
          /\ mixed' = IF Asked(v) # view[v].of THEN mixed \cup {Key(v)} ELSE mixed
       \/ ~Completed(Asked(v)) /\ Fails(v) /\ NoFault /\ UNCHANGED mixed
       \/ Fails(v) /\ Fault /\ UNCHANGED mixed
    /\ World /\ UNCHANGED entry

\* RunLogCache.Create: the file is made or truncated, under the hands of those who read it, and
\* then written at once.
Truncated(v) ==
    [u \in Viewers |-> IF u = v THEN [view[v] EXCEPT !.at = "write"]
                       ELSE IF view[u].at = "show" /\ Key(u) = Key(v) THEN [view[u] EXCEPT !.torn = TRUE]
                       ELSE view[u]]
CreateEntry(v) ==
    /\ view[v].at = "create"
    /\ \/ view' = Truncated(v) /\ NoFault
          /\ entry' = [entry EXCEPT ![Key(v)] = [of |-> view[v].got, whole |-> FALSE]]
       \/ Fails(v) /\ Fault /\ UNCHANGED entry
    /\ World /\ UNCHANGED mixed

\* Two archives that are not the same may leave a file that is neither.
WriteEntry(v) ==
    /\ view[v].at = "write"
    /\ \/ To(v, "open") /\ NoFault
          /\ \E w \in BOOLEAN :
               /\ entry[Key(v)].of = view[v].got => w
               /\ entry' = [entry EXCEPT ![Key(v)] = [of |-> view[v].got, whole |-> w]]
       \/ Fails(v) /\ Fault /\ UNCHANGED entry
    /\ World /\ UNCHANGED mixed

\* The reader of a zip file wants its end.
OpenEntry(v) ==
    /\ view[v].at = "open"
    /\ IF entry[Key(v)].whole
         THEN view' = [view EXCEPT ![v].at = "show", ![v].got = entry[Key(v)].of]
         ELSE Fails(v)
    /\ World /\ UNCHANGED <<entry, mixed, faults>>

\* displayLogSegments does not look at the error of its scanner: a log that cannot be read
\* to its end may be taken for a shorter one.
Show(v) ==
    /\ view[v].at = "show"
    /\ \/ To(v, "shown") /\ NoFault
       \/ view[v].torn /\ Fails(v) /\ NoFault
       \/ Fails(v) /\ Fault
    /\ World /\ UNCHANGED <<entry, mixed>>

-----------------------------------------------------------------------------
Init ==
    /\ attempt = 1 /\ run = "completed"
    /\ entry = [a \in Attempts |-> NoFile]
    /\ view = [v \in Viewers |-> Idle]
    /\ mixed = {} /\ views = 0 /\ faults = 0

Viewer(v) ==
    GetRun(v) \/ Exists(v) \/ FetchLog(v) \/ CreateEntry(v) \/ WriteEntry(v) \/ OpenEntry(v) \/ Show(v)
Next == RunChanges \/ \E v \in Viewers : Start(v) \/ Viewer(v)
Spec == Init /\ [][Next]_vars

-----------------------------------------------------------------------------
\* Properties.

\* The log that is shown is that of the attempt which was asked for, wherever it comes from and
\* whoever stored it, unless the run was run again between the moments when a viewer
\* without --attempt read the run and its log (the entry is wrong for good then).
LogRight ==
    \A v \in Viewers : view[v].at = "shown" =>
      /\ view[v].got = view[v].of \/ view[v].of \in mixed
      /\ view[v].want # 0 => view[v].of = view[v].want
=============================================================================
