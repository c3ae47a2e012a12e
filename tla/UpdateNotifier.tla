--------------------------- MODULE UpdateNotifier ---------------------------
(***************************************************************************)
(* Main in internal/ghcmd/cmd.go runs a command, while a goroutine looks   *)
(* for a new release of gh; the command of an extension has another one,   *)
(* which looks for a new release of the extension (NewCmdExtension in      *)
(* pkg/cmd/root/extension.go).  Each hands its answer over on an           *)
(* unbuffered channel, and keeps the time of the last check in a state     *)
(* file that all processes share (internal/update/update.go).              *)
(***************************************************************************)
EXTENDS Naturals

CONSTANTS Processes,
          MaxDays,   \* bound on the days that pass
          MaxFaults  \* bound on failing steps of the checks

NotifierBounds == MaxDays \in Nat /\ MaxFaults \in Nat

VARIABLES
    day, stamp,  \* the day, and the checked_for_update_at of each state file
    main, chk,   \* each process: Main, and its checkers
    overlap,     \* history: two processes have run at the same time
    told, again, \* history, until then: the days of the checks whose answer was shown; one was shown twice
    faults

vars == <<day, stamp, main, chk, told, again, overlap, faults>>

Kinds == {"gh", "ext"}
Days == 0..MaxDays
NoStamp == MaxDays + 1   \* no state file, or one that cannot be read
Off == [at |-> "off", found |-> FALSE, on |-> 0]

TypeOK ==
    /\ day \in Days /\ stamp \in [Kinds -> Days \cup {NoStamp}]
    /\ main \in [Processes -> {"off", "run", "post", "wait", "exit"}]
    /\ chk \in [Processes -> [Kinds -> [at : {"off", "read", "request", "write", "blank", "retry", "send"},
                                        found : BOOLEAN, on : Days]]]
    /\ told \in [Kinds -> SUBSET Days] /\ again \in BOOLEAN /\ overlap \in BOOLEAN
    /\ faults \in 0..MaxFaults

Fault == faults < MaxFaults /\ faults' = faults + 1
NoFault == UNCHANGED faults
History == UNCHANGED <<told, again, overlap>>

-----------------------------------------------------------------------------
NextDay ==
    /\ day < MaxDays /\ day' = day + 1
    /\ UNCHANGED <<stamp, main, chk, faults>> /\ History

-----------------------------------------------------------------------------
\* A checker.  It has nothing to say when notifications are off or the last check is
\* not a day old; while a file is written it may be found empty.
Moves(p, k, to) == chk' = [chk EXCEPT ![p][k].at = to]
SendsNone(p, k) == chk' = [chk EXCEPT ![p][k] = [Off EXCEPT !.at = "send"]]
Writing(p, k) == chk[p][k].at \in {"write", "blank"}
NeverFresh(k) == FALSE
IsFresh(k) == stamp[k] = day
ReadState(p, k) ==
    /\ chk[p][k].at = "read" /\ NoFault
    /\ \/ SendsNone(p, k)
       \/ /\ ~IsFresh(k) \/ \E q \in Processes : Writing(q, k)
          /\ chk' = [chk EXCEPT ![p][k].at = "request", ![p][k].on = IF k = "ext" THEN day ELSE 0]
    /\ UNCHANGED <<day, stamp, main>> /\ History

\* The latest release.  Main can abort the request for that of gh.  When that for an
\* extension fails, there seems to be no version at all; this is stored, but not cached,
\* so that UpdateAvailable asks again after the file is written, and may find one.  At
\* any time there may be a release newer than the one that runs.
AfterFailure(p, k) ==
    IF k = "gh" \/ chk[p][k].at = "retry" THEN SendsNone(p, k) ELSE Moves(p, k, "blank")
Answer(p, k) ==
    /\ chk[p][k].at = "request" /\ NoFault
    /\ \E newer \in BOOLEAN : chk' = [chk EXCEPT ![p][k].at = "write", ![p][k].found = newer]
    /\ UNCHANGED <<day, stamp, main>> /\ History
AnswerAgain(p, k) ==
    /\ chk[p][k].at = "retry" /\ NoFault
    /\ SendsNone(p, k) \/ chk' = [chk EXCEPT ![p][k].at = "send", ![p][k].found = TRUE]
    /\ UNCHANGED <<day, stamp, main>> /\ History
RequestFails(p, k) ==
    /\ chk[p][k].at \in {"request", "retry"} /\ Fault /\ AfterFailure(p, k)
    /\ UNCHANGED <<day, stamp, main>> /\ History
NeverAborts(p, k) == FALSE
Aborts(p, k) == k = "gh" /\ main[p] = "wait"
Abort(p, k) ==
    /\ chk[p][k].at = "request" /\ Aborts(p, k) /\ NoFault /\ SendsNone(p, k)
    /\ UNCHANGED <<day, stamp, main>> /\ History

\* setStateEntry: the file is truncated and written; a failure may leave an empty one.
\* The time is that of the writing for gh, and that of the reading for an extension.
SetStamp(k, d) == stamp' = [stamp EXCEPT ![k] = d]
WriteState(p, k) ==
    LET now == IF k = "ext" THEN chk[p][k].on ELSE day IN
    /\ Writing(p, k)
    /\ \/ /\ SetStamp(k, now) /\ NoFault
          /\ \/ chk[p][k].at = "blank" /\ Moves(p, k, "retry")
             \/ /\ chk[p][k].at = "write"
                /\ chk' = [chk EXCEPT ![p][k].at = "send", ![p][k].on = IF chk[p][k].found THEN now ELSE 0]
       \/ Fault /\ SendsNone(p, k) /\ (SetStamp(k, NoStamp) \/ UNCHANGED stamp)
    /\ UNCHANGED <<day, main>> /\ History

-----------------------------------------------------------------------------
\* Main.
Begin(p) ==
    /\ main[p] = "off" /\ main' = [main EXCEPT ![p] = "run"]
    /\ \E extension \in BOOLEAN :
         chk' = [chk EXCEPT ![p]["gh"].at = "read", ![p]["ext"].at = IF extension THEN "read" ELSE "off"]
    /\ overlap' = (overlap \/ \E q \in Processes \ {p} : main[q] \notin {"off", "exit"})
    /\ told' = IF overlap' THEN [k \in Kinds |-> {}] ELSE told
    /\ UNCHANGED <<day, stamp, again, faults>>

\* With the process its goroutines end wherever they are, in the middle of writing a file
\* too.  A command that fails, or is interrupted, does not wait for them.
Gone(p) ==
    /\ chk' = [chk EXCEPT ![p] = [k \in Kinds |-> Off]]
    /\ stamp' \in {s \in [Kinds -> Days \cup {NoStamp}] :
                    \A k \in Kinds : s[k] = stamp[k] \/ (s[k] = NoStamp /\ Writing(p, k))}
CommandFails(p) ==
    /\ main[p] = "run" /\ main' = [main EXCEPT ![p] = "exit"] /\ Gone(p)
    /\ UNCHANGED <<day, faults>> /\ History
CommandSucceeds(p) ==
    /\ main[p] = "run" /\ main' = [main EXCEPT ![p] = "post"]
    /\ UNCHANGED <<day, stamp, chk, faults>> /\ History

Tell(p, k) ==
    LET shown == chk[p][k].found /\ ~overlap IN
    /\ told' = IF shown THEN [told EXCEPT ![k] = @ \cup {chk[p][k].on}] ELSE told
    /\ again' = (again \/ (shown /\ chk[p][k].on \in told[k]))
    /\ UNCHANGED overlap

\* PostRun of an extension does not wait for its checker; then updateCancel.
PostRun(p) ==
    /\ main[p] = "post" /\ main' = [main EXCEPT ![p] = "wait"]
    /\ IF chk[p]["ext"].at = "send"
         THEN Tell(p, "ext") /\ chk' = [chk EXCEPT ![p]["ext"] = Off]
         ELSE UNCHANGED chk /\ History
    /\ UNCHANGED <<day, stamp, faults>>

\* The release may be too young to be told to a user of Homebrew.
Receive(p) ==
    /\ main[p] = "wait" /\ chk[p]["gh"].at = "send"
    /\ main' = [main EXCEPT ![p] = "exit"] /\ Gone(p)
    /\ Tell(p, "gh") \/ History
    /\ UNCHANGED <<day, faults>>

-----------------------------------------------------------------------------
Init ==
    /\ day = 0
    /\ stamp \in [Kinds -> {0, NoStamp}]
    /\ main = [p \in Processes |-> "off"]
    /\ chk = [p \in Processes |-> [k \in Kinds |-> Off]]
    /\ told = [k \in Kinds |-> {}] /\ again = FALSE /\ overlap = FALSE
    /\ faults = 0

Checks(p, k) == ReadState(p, k) \/ Abort(p, k) \/ WriteState(p, k)
Main(p) == PostRun(p) \/ Receive(p)
Next ==
    \/ NextDay
    \/ \E p \in Processes :
         \/ Begin(p) \/ CommandFails(p) \/ CommandSucceeds(p) \/ Main(p)
         \/ \E k \in Kinds : Checks(p, k) \/ Answer(p, k) \/ AnswerAgain(p, k) \/ RequestFails(p, k)
Spec == Init /\ [][Next]_vars

-----------------------------------------------------------------------------
\* Properties.

\* The user is told at most once a day of a new release: no answer of a check is shown
\* by two processes, and no two checks of one day are shown, unless two processes run at the
\* same time ("If the update check has been done in the past 24 hours" a process must not
\* do it again, whatever fails in between).
TellOnce == ~again

\* A command that has succeeded comes to its end, although the service may never
\* answer the check for a new release.
MainEnds == \A p \in Processes : main[p] = "post" ~> main[p] = "exit"
=============================================================================
