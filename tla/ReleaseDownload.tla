--------------------------- MODULE ReleaseDownload ---------------------------
(***************************************************************************)
(* `gh release download` once FetchRelease has answered: downloadAssets    *)
(* lets some workers fetch the assets into files of the same names, which  *)
(* may be there already, from the user, from others at work in the same    *)
(* directory, or in part from a download that failed.                      *)
(***************************************************************************)
EXTENDS Naturals, FiniteSets

CONSTANTS Assets,    \* asset names
          Workers,   \* opts.Concurrency
          MaxFaults  \* bound on failures, kills and files that others write

VARIABLES
    file,     \* the files: none, of the user's own (or of others), partial or whole
    flag,     \* --skip-existing, --clobber or none
    pc, res,  \* downloadAssets
    job,      \* where the download of each asset is
    before,   \* history: the files that were there when this command began
    again,    \* the download is repeated
    faults

TypeOK ==
    /\ file \in [Assets -> {"none", "own", "partial", "whole"}]
    /\ flag \in {"none", "skip", "clobber"}
    /\ pc \in {"off", "run", "done"} /\ res \in {"none", "ok", "error"}
    /\ job \in [Assets -> {"queued", "get", "open", "write", "ok", "skipped", "failed"}]
    /\ before \subseteq Assets /\ again \in BOOLEAN /\ faults \in 0..MaxFaults

Fault == faults < MaxFaults /\ faults' = faults + 1
To(a, l) == job' = [job EXCEPT ![a] = l]

Begin ==
    /\ pc = "off" /\ pc' = "run" /\ before' = {a \in Assets : file[a] # "none"}
    /\ UNCHANGED <<file, flag, res, job, again, faults>>

\* destinationWriter.check, before the request and again before the file is
\* opened: what becomes of an asset whose file is there, or the next step.
\* (CheckNot is a mutant.)
CheckNot(a, l) == To(a, l)
Check(a, l) ==
    To(a, IF file[a] = "none" \/ flag = "clobber" THEN l
          ELSE IF flag = "skip" THEN "skipped" ELSE "failed")

Busy == {a \in Assets : job[a] \in {"get", "open", "write"}}
Take(a) ==
    /\ job[a] = "queued" /\ Cardinality(Busy) < Workers
    /\ Check(a, "get") /\ UNCHANGED <<file, faults>>
Get(a) ==
    /\ job[a] = "get" /\ UNCHANGED file
    /\ \/ To(a, "open") /\ UNCHANGED faults
       \/ To(a, "failed") /\ Fault

\* Copy: check and open with O_TRUNC at once, then write.
Open(a) ==
    /\ job[a] = "open" /\ Check(a, "write")
    /\ file' = IF job'[a] = "write" THEN [file EXCEPT ![a] = "partial"] ELSE file
    /\ UNCHANGED faults
Write(a) ==
    /\ job[a] = "write"
    /\ \/ To(a, "ok") /\ file' = [file EXCEPT ![a] = "whole"] /\ UNCHANGED faults
       \/ To(a, "failed") /\ Fault /\ UNCHANGED file
Download(a) == (Take(a) \/ Get(a) \/ Open(a) \/ Write(a)) /\ pc = "run" /\ UNCHANGED <<flag, pc, res, before, again>>

\* downloadAssets reads one result for each asset; a skipped one is no error.
\* (FailedAll is a mutant.)
FailedAll == \A a \in Assets : job[a] = "failed"
DownloadError == \E a \in Assets : job[a] = "failed"
Collect ==
    /\ pc = "run" /\ \A a \in Assets : job[a] \in {"ok", "skipped", "failed"}
    /\ pc' = "done" /\ res' = IF DownloadError THEN "error" ELSE "ok"
    /\ UNCHANGED <<file, flag, job, before, again, faults>>

\* gh is killed; the download is repeated, perhaps with another flag; others write
\* a file.
Kill ==
    /\ pc = "run" /\ Fault /\ pc' = "done" /\ res' = "error"
    /\ UNCHANGED <<file, flag, job, before, again>>
Repeat ==
    /\ pc = "done" /\ res = "error" /\ ~again /\ again' = TRUE
    /\ pc' = "off" /\ res' = "none" /\ flag' \in {"none", "skip", "clobber"}
    /\ job' = [a \in Assets |-> "queued"] /\ before' = {}
    /\ UNCHANGED <<file, faults>>
OthersWrite ==
    /\ pc = "run" /\ Fault
    /\ \E a \in Assets : file[a] = "none" /\ file' = [file EXCEPT ![a] = "own"]
    /\ UNCHANGED <<flag, pc, res, job, before, again>>

Init ==
    /\ file \in [Assets -> {"none", "own"}] /\ flag \in {"none", "skip", "clobber"}
    /\ pc = "off" /\ res = "none" /\ job = [a \in Assets |-> "queued"]
    /\ before = {} /\ again = FALSE
Step == Begin \/ Collect \/ \E a \in Assets : Download(a)
Next == Step \/ Kill \/ Repeat \/ OthersWrite

=============================================================================
