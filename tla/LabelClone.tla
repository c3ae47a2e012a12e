----------------------------- MODULE LabelClone -----------------------------
(***************************************************************************)
(* `gh label clone`: cloneLabels in pkg/cmd/label/clone.go lists the       *)
(* labels of the source repository page by page (listLabels in http.go)    *)
(* and hands them to ten workers over an unbuffered channel; each creates  *)
(* its label in the destination, or overwrites it there with --force       *)
(* (createLabel in create.go).  An error of one worker cancels the context *)
(* that the others look at.                                                *)
(***************************************************************************)
EXTENDS Naturals, FiniteSets

CONSTANTS MaxLabels,  \* how many labels the source repository ever has
          PageSize,   \* how many of them one request returns
          Workers,
          MaxOthers,  \* bound on the changes that other users make
          MaxFaults   \* bound on failing requests

LabelBounds ==
    /\ MaxLabels \in Nat /\ PageSize \in Nat \ {0}
    /\ IsFiniteSet(Workers) /\ Workers # {}
    /\ MaxOthers \in Nat /\ MaxFaults \in Nat

Labels == 1..MaxLabels   \* in the order in which they are created

VARIABLES
    source, created,  \* the labels of the source repository, and how many it has had
    cursor, labels,   \* listLabels: the last label of the last page, and the labels found
    throughout,       \* history: the labels that have been in the source repository all the time
    dest,      \* each label in the destination: absent, another one of its name, or a copy
    force,     \* --force
    pc, res,   \* cloneLabels
    toCreate,  \* the labels that it has not handed out
    worker,    \* each worker, with its label
    failed,    \* the error group has an error, and its context is cancelled
    successCount,
    wrote, kept,  \* history: the labels that this command wrote, and those it skipped
    others, faults

listing == <<source, created, cursor, labels, throughout>>
vars == <<listing, dest, force, pc, res, toCreate, worker, failed, successCount, wrote, kept, others, faults>>

Idle == [at |-> "idle"]
Exited == [at |-> "exited"]
Busy == [at : {"post", "patch"}, label : Labels]

TypeOK ==
    /\ created \in 0..MaxLabels /\ source \subseteq 1..created /\ throughout \subseteq source
    /\ cursor \in 0..MaxLabels /\ labels \subseteq 1..created
    /\ dest \in [Labels -> {"absent", "other", "copy"}]
    /\ force \in BOOLEAN
    /\ pc \in {"list", "send", "wait", "done"} /\ res \in {"none", "ok", "error"}
    /\ toCreate \subseteq Labels /\ wrote \subseteq Labels /\ kept \subseteq Labels
    /\ worker \in [Workers -> Busy \cup {Idle, Exited}]
    /\ failed \in BOOLEAN
    /\ successCount \in 0..Cardinality(Labels)
    /\ others \in 0..MaxOthers /\ faults \in 0..MaxFaults

Fault == faults < MaxFaults /\ faults' = faults + 1

-----------------------------------------------------------------------------
\* listLabels: one page after the other, oldest labels first.  The cursor stands for the
\* last label of a page, whether or not that is still there.
After == {l \in source : l > cursor}
Page == {l \in After : Cardinality({k \in After : k <= l}) <= PageSize}
NoPage == FALSE
HasNextPage == After # Page
ListPage ==
    /\ pc = "list"
    /\ \/ /\ labels' = labels \cup Page
          /\ \/ HasNextPage /\ cursor' \in {l \in Page : \A k \in Page : k <= l} /\ UNCHANGED <<pc, toCreate>>
             \/ ~HasNextPage /\ pc' = "send" /\ toCreate' = labels' /\ UNCHANGED cursor
          /\ UNCHANGED <<res, faults>>
       \/ Fault /\ pc' = "done" /\ res' = "error" /\ UNCHANGED <<cursor, labels, toCreate>>
    /\ UNCHANGED <<source, created, throughout, dest, force, worker, failed, successCount, wrote, kept, others>>

\* Other users create and delete labels of the source repository.
OthersInSource ==
    /\ pc = "list" /\ others < MaxOthers /\ others' = others + 1
    /\ \/ /\ created < MaxLabels /\ created' = created + 1
          /\ source' = source \cup {created'} /\ UNCHANGED throughout
       \/ \E l \in source : source' = source \ {l} /\ throughout' = throughout \ {l} /\ UNCHANGED created
    /\ UNCHANGED <<cursor, labels, dest, force, pc, res, toCreate, worker, failed, successCount, wrote, kept, faults>>

-----------------------------------------------------------------------------
\* cloneLabels: hand out the labels, close the channel, wait for the group.
Send(w) ==
    /\ pc = "send" /\ worker[w] = Idle
    /\ \E l \in toCreate :
         /\ \A k \in toCreate : l <= k
         /\ worker' = [worker EXCEPT ![w] = [at |-> "post", label |-> l]]
         /\ toCreate' = toCreate \ {l}
    /\ UNCHANGED <<listing, dest, force, pc, res, failed, successCount, wrote, kept, others, faults>>

CloseChannel ==
    /\ pc = "send" /\ toCreate = {}
    /\ pc' = "wait"
    /\ UNCHANGED <<listing, dest, force, res, toCreate, worker, failed, successCount, wrote, kept, others, faults>>

WaitForAll == \A w \in Workers : worker[w] = Exited
Return ==
    /\ pc = "wait" /\ WaitForAll
    /\ pc' = "done" /\ res' = IF failed THEN "error" ELSE "ok"
    /\ UNCHANGED <<listing, dest, force, toCreate, worker, failed, successCount, wrote, kept, others, faults>>

-----------------------------------------------------------------------------
\* A worker.  It leaves when the context is cancelled or the channel closed.
NeverClosed == FALSE
ChannelClosed == pc = "wait"
Leave(w) ==
    /\ worker[w] = Idle
    /\ failed \/ ChannelClosed
    /\ worker' = [worker EXCEPT ![w] = Exited]
    /\ UNCHANGED <<listing, dest, force, pc, res, toCreate, failed, successCount, wrote, kept, others, faults>>

Write(l) == dest' = [dest EXCEPT ![l] = "copy"] /\ wrote' = wrote \cup {l}
NoWrite == UNCHANGED <<dest, wrote>>
Keep(l) == kept' = kept \cup {l}
GoOn(w) == worker' = [worker EXCEPT ![w] = Idle] /\ UNCHANGED failed
Fail(w) == worker' = [worker EXCEPT ![w] = Exited] /\ failed' = TRUE
CountTwice == successCount' = successCount + 2
Count == successCount' = successCount + 1

\* A request that fails, whether it was carried out or not.
RequestFails(w, possible) ==
    /\ Fault /\ Fail(w)
    /\ (possible /\ Write(worker[w].label)) \/ NoWrite
    /\ UNCHANGED <<successCount, kept>>

PatchExisting(w) == worker' = [worker EXCEPT ![w].at = "patch"] /\ UNCHANGED <<failed, successCount, kept>>
SkipExisting(w) == GoOn(w) /\ Keep(worker[w].label) /\ UNCHANGED successCount
CountExisting(w) == IF force THEN PatchExisting(w) ELSE GoOn(w) /\ Count /\ Keep(worker[w].label)
AlreadyExists(w) == IF force THEN PatchExisting(w) ELSE SkipExisting(w)

CreateLabel(w) ==
    /\ worker[w].at = "post"
    /\ LET l == worker[w].label IN
         \/ dest[l] = "absent" /\ Write(l) /\ Count /\ GoOn(w) /\ UNCHANGED <<kept, faults>>
         \/ dest[l] # "absent" /\ NoWrite /\ AlreadyExists(w) /\ UNCHANGED faults
         \/ RequestFails(w, dest[l] = "absent")
    /\ UNCHANGED <<listing, force, pc, res, toCreate, others>>

UpdateLabel(w) ==
    /\ worker[w].at = "patch"
    /\ LET l == worker[w].label IN
         \/ dest[l] # "absent" /\ Write(l) /\ Count /\ GoOn(w) /\ UNCHANGED <<kept, faults>>
         \/ dest[l] = "absent" /\ NoWrite /\ Fail(w) /\ UNCHANGED <<successCount, kept, faults>>
         \/ RequestFails(w, dest[l] # "absent")
    /\ UNCHANGED <<listing, force, pc, res, toCreate, others>>

\* Other users create and delete labels.
Others ==
    /\ others < MaxOthers /\ others' = others + 1
    /\ \E l \in Labels : dest' = [dest EXCEPT ![l] = IF @ = "absent" THEN "other" ELSE "absent"]
    /\ UNCHANGED <<listing, force, pc, res, toCreate, worker, failed, successCount, wrote, kept, faults>>

-----------------------------------------------------------------------------
Init ==
    /\ created \in 0..MaxLabels /\ source = 1..created /\ throughout = source
    /\ cursor = 0 /\ labels = {}
    /\ dest \in [Labels -> {"absent", "other"}]
    /\ force \in BOOLEAN
    /\ pc = "list" /\ res = "none"
    /\ toCreate = {}
    /\ worker = [w \in Workers |-> Idle]
    /\ failed = FALSE
    /\ successCount = 0 /\ wrote = {} /\ kept = {}
    /\ others = 0 /\ faults = 0

Worker(w) == Leave(w) \/ CreateLabel(w) \/ UpdateLabel(w)
Next == ListPage \/ OthersInSource \/ CloseChannel \/ Return \/ Others \/ \E w \in Workers : Send(w) \/ Worker(w)

Spec == Init /\ [][Next]_vars

\* Goroutines run and requests are answered; the channel hands over a label
\* when both sides are there.
FairSpec ==
    /\ Spec
    /\ WF_vars(ListPage) /\ WF_vars(CloseChannel \/ Return)
    /\ \A w \in Workers : WF_vars(Worker(w))
    /\ WF_vars(\E w \in Workers : Send(w))

-----------------------------------------------------------------------------
\* Properties.

\* "All labels from the source repository will be copied" (clone.go): on
\* success there is none among those that were there all the time that this command
\* has neither written nor, without --force, found in the destination already,
\* although the labels come in pages, others create and delete some of them in
\* both repositories meanwhile, and the workers take them in any order; and the count
\* that is reported is the number of labels written.
SuccessHonest ==
    res = "ok" => /\ throughout \subseteq wrote \cup kept
                  /\ wrote \cup kept = labels
                  /\ force => kept = {}
                  /\ successCount = Cardinality(wrote)

\* The command returns, unless a request of it has failed.
CloneReturns == <>(pc = "done" \/ failed)

\* An error of a worker is returned to the user (test "create error").
ErrorReturned == failed ~> pc = "done"
=============================================================================
