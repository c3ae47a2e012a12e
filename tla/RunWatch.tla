------------------------------ MODULE RunWatch ------------------------------
(***************************************************************************)
(* `gh run watch` (watchRun and renderRun in pkg/cmd/run/watch/watch.go)   *)
(* against a workflow run that goes on meanwhile.  Each rendering reads    *)
(* the run, then its jobs, then the annotations of one job after the       *)
(* other, from a cache where it can, so that the parts are of different    *)
(* moments.  A run has at most one page of jobs here.                      *)
(***************************************************************************)
EXTENDS Naturals, Sequences, SequencesExt

CONSTANTS NJobs,    \* the jobs of the run, in the order in which the service lists them
          MaxNotes, \* bound on the annotations of a job
          MaxFaults \* bound on failing requests

WatchBounds == NJobs \in Nat /\ MaxNotes \in Nat /\ MaxFaults \in Nat

Jobs == 1..NJobs
Note == Jobs \X (1..MaxNotes)
Status == {"queued", "in_progress", "completed"}
Slice == [notes : Seq(Note), arr : 0..NJobs+1]
Nil == [notes |-> <<>>, arr |-> 0]

VARIABLES
    job, ann, runStatus,   \* the service: each job ("none" until it is created), the number of its annotations, the run
    mayRead,               \* the token may read annotations
    pc, res,               \* watchRun
    status,                \* run.Status as it was read last
    todo,                  \* jobs, as read: those whose annotations are still to be had, one by one
    listed,                \* all of them
    annotations, missing,  \* annotations (a slice, of an array), missingAnnotationsPermissions
    cache,                 \* annotationCache: for some jobs, a slice
    overwritten,           \* history: an annotation in the cache was overwritten through another slice
    screen,                \* the rendering that the user sees: annotations and jobs
    faults

service == <<job, ann, runStatus, mayRead>>
watcher == <<pc, res, status, todo, listed, annotations, missing, cache, overwritten, screen>>
vars == <<service, watcher, faults>>

TypeOK ==
    /\ job \in [Jobs -> Status \cup {"none"}] /\ ann \in [Jobs -> 0..MaxNotes]
    /\ runStatus \in {"in_progress", "completed"} /\ mayRead \in BOOLEAN
    /\ pc \in {"first", "run", "jobs", "annotations", "show", "sleep", "done"}
    /\ res \in {"none", "already", "ok", "error"}
    /\ status \in {"in_progress", "completed"}
    /\ todo \subseteq [id : Jobs, status : Status] /\ listed \subseteq [id : Jobs, status : Status]
    /\ annotations \in Slice /\ missing \in BOOLEAN /\ overwritten \in BOOLEAN
    /\ DOMAIN cache \subseteq Jobs /\ \A j \in DOMAIN cache : cache[j] \in Slice
    /\ screen.notes \in Seq(Note) /\ screen.jobs \subseteq [id : Jobs, status : Status]
    /\ faults \in 0..MaxFaults

-----------------------------------------------------------------------------
\* The service.  A job is annotated while it runs; the run has completed when
\* no job goes on, and stays so (it is not rerun).
JobStep(j) ==
    /\ runStatus = "in_progress"
    /\ \/ job[j] = "none" /\ job' = [job EXCEPT ![j] = "queued"] /\ UNCHANGED ann
       \/ job[j] = "queued" /\ job' = [job EXCEPT ![j] = "in_progress"] /\ UNCHANGED ann
       \/ job[j] = "in_progress" /\ job' = [job EXCEPT ![j] = "completed"] /\ UNCHANGED ann
       \/ job[j] = "in_progress" /\ ann[j] < MaxNotes /\ ann' = [ann EXCEPT ![j] = @ + 1] /\ UNCHANGED job
    /\ UNCHANGED <<runStatus, mayRead, watcher, faults>>

RunCompletes ==
    /\ runStatus = "in_progress" /\ \A j \in Jobs : job[j] \in {"none", "completed"}
    /\ runStatus' = "completed"
    /\ UNCHANGED <<job, ann, mayRead, watcher, faults>>

NotesOf(j) == [i \in 1..ann[j] |-> <<j, i>>]
Existing == {[id |-> j, status |-> job[j]] : j \in {i \in Jobs : job[i] # "none"}}

-----------------------------------------------------------------------------
\* The watcher.
Fails ==
    /\ faults < MaxFaults /\ faults' = faults + 1
    /\ pc' = "done" /\ res' = "error"
    /\ UNCHANGED <<service, status, todo, listed, annotations, missing, cache, overwritten, screen>>

\* The run, as it is when the command starts: a completed one is not watched.
First ==
    /\ pc = "first"
    /\ IF runStatus = "completed" THEN pc' = "done" /\ res' = "already" ELSE pc' = "run" /\ UNCHANGED res
    /\ status' = runStatus
    /\ UNCHANGED <<service, todo, listed, annotations, missing, cache, overwritten, screen, faults>>

GetRun ==
    /\ pc = "run"
    /\ \/ /\ status' = runStatus /\ pc' = "jobs"
          /\ UNCHANGED <<service, res, todo, listed, annotations, missing, cache, overwritten, screen, faults>>
       \/ Fails

\* The jobs belong to the run that has just been read, not to an earlier one.
FreshJobs == Existing

GetJobs ==
    /\ pc = "jobs"
    /\ \/ /\ todo' = FreshJobs /\ listed' = FreshJobs /\ pc' = "annotations"
          /\ annotations' = Nil /\ missing' = FALSE
          /\ UNCHANGED <<service, res, status, cache, overwritten, screen, faults>>
       \/ Fails

\* append.  Where there is room the array is kept, and other slices of it have the new
\* annotations too, as far as they reach; whether there is room is left open.
Fresh == CHOOSE a \in 1..NJobs+1 : a # annotations.arr /\ \A i \in DOMAIN cache : cache[i].arr # a
Arrays(as) == IF as = <<>> THEN {annotations.arr} ELSE {annotations.arr, Fresh} \ {0}
Written(t, n, as) == [i \in DOMAIN t |-> IF i \in n+1..n+Len(as) THEN as[i - n] ELSE t[i]]
Kept(a, as) ==
    [i \in DOMAIN cache |-> IF cache[i].arr = a
                            THEN [cache[i] EXCEPT !.notes = Written(@, Len(annotations.notes), as)]
                            ELSE cache[i]]

\* What is kept of a job, and what a job that is kept contributes.
RememberOwn(kept, j, as, a) == [i \in DOMAIN cache \cup {j} |-> IF i = j THEN [notes |-> as, arr |-> a] ELSE kept[i]]
Remember(kept, j, as, a) ==
    [i \in DOMAIN cache \cup {j} |-> IF i = j THEN [notes |-> annotations.notes \o as, arr |-> a] ELSE kept[i]]
FromCache(j) == cache[j]
Cacheable(r) == r.status # "in_progress"

Foremost(r) == r \in todo /\ \A q \in todo : r.id <= q.id
GetAnnotations ==
    /\ pc = "annotations"
    /\ \E r \in todo : Foremost(r) /\
         LET j == r.id IN
         \/ /\ j \in DOMAIN cache
            /\ annotations' = FromCache(j) /\ todo' = todo \ {r}
            /\ UNCHANGED <<cache, overwritten, missing, pc, res, status, listed, screen, service, faults>>
         \/ /\ j \notin DOMAIN cache /\ mayRead
            /\ \E a \in Arrays(NotesOf(j)) :
                 LET kept == Kept(a, NotesOf(j)) IN
                 /\ annotations' = [notes |-> annotations.notes \o NotesOf(j), arr |-> a]
                 /\ cache' = IF Cacheable(r) THEN Remember(kept, j, NotesOf(j), a) ELSE kept
                 /\ overwritten' = (overwritten \/ kept # cache)
            /\ todo' = todo \ {r}
            /\ UNCHANGED <<missing, pc, res, status, listed, screen, service, faults>>
         \/ /\ j \notin DOMAIN cache /\ ~mayRead
            /\ missing' = TRUE /\ todo' = {}
            /\ UNCHANGED <<cache, overwritten, annotations, pc, res, status, listed, screen, service, faults>>
         \/ j \notin DOMAIN cache /\ Fails

AfterReread == IF runStatus = "completed" THEN "done" ELSE "sleep"
AfterShow == IF status = "completed" THEN "done" ELSE "sleep"

Show ==
    /\ pc = "annotations" /\ todo = {}
    /\ screen' = [notes |-> IF missing THEN <<>> ELSE annotations.notes, jobs |-> listed]
    /\ pc' = AfterShow
    /\ res' = IF AfterShow = "done" THEN "ok" ELSE res
    /\ UNCHANGED <<service, status, todo, listed, annotations, missing, cache, overwritten, faults>>

Sleep ==
    /\ pc = "sleep" /\ pc' = "run"
    /\ UNCHANGED <<service, res, status, todo, listed, annotations, missing, cache, overwritten, screen, faults>>

-----------------------------------------------------------------------------
Init ==
    /\ job \in [Jobs -> Status \cup {"none"}]
    /\ ann \in [Jobs -> 0..MaxNotes] /\ \A j \in Jobs : job[j] \in {"none", "queued"} => ann[j] = 0
    /\ runStatus = "in_progress" /\ mayRead \in BOOLEAN
    /\ pc = "first" /\ res = "none" /\ status = "in_progress"
    /\ todo = {} /\ listed = {} /\ annotations = Nil /\ missing = FALSE
    /\ cache = <<>> /\ overwritten = FALSE
    /\ screen = [notes |-> <<>>, jobs |-> {}]
    /\ faults = 0

Service == RunCompletes \/ \E j \in Jobs : JobStep(j)
Watcher == First \/ GetRun \/ GetJobs \/ GetAnnotations \/ Show \/ Sleep
Next == Service \/ Watcher
Spec == Init /\ [][Next]_vars

-----------------------------------------------------------------------------
\* Property, of a rendering.

\* The annotations on the screen only grow: one that the user has seen is still there after
\* the next refresh, and none is there twice, although the list is put together from lists
\* cached in earlier rounds (renderRun), unless append has overwritten one in the cache.  And
\* the last rendering is the final state of the run: run and jobs are read one after the
\* other, and no job is shown as going on when the run is reported as completed.
ShownRight ==
    /\ ~overwritten' => ToSet(screen.notes) \subseteq ToSet(screen'.notes) /\ IsInjective(screen'.notes)
    /\ res' = "ok" => runStatus = "completed" /\ screen'.jobs = Existing
Rendered == screen' # screen \/ (res' = "ok" /\ res # "ok")
=============================================================================
