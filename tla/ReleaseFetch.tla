---------------------------- MODULE ReleaseFetch ----------------------------
(***************************************************************************)
(* FetchRelease (pkg/cmd/release/shared/fetch.go): the release of a tag is *)
(* looked up as a published release and as a draft at the same time.  The  *)
(* first answer that is not "release not found" wins, the other lookup is  *)
(* cancelled, and both goroutines are waited for.  Meanwhile other users   *)
(* create, publish and delete the release.                                 *)
(***************************************************************************)
EXTENDS Naturals, Sequences

CONSTANTS
    MaxChanges,  \* bound on the changes other users make
    MaxFaults    \* bound on failing requests

VARIABLES
    rel,         \* the release on the server; each creation gives a new id
    id,          \* its database id
    lookup,      \* the two goroutines
    draftID,     \* the id the draft lookup got from GraphQL
    results,     \* the channel
    cancelled,   \* whether cc has been cancelled
    pc, res,     \* FetchRelease, and the result it holds: an answer and the id of the release
    absent,      \* history: the tag had no release at some time of the call
    movedOn,     \* history: a draft was published during the call
    changes, faults

vars == <<rel, id, lookup, draftID, results, cancelled, pc, res, absent, movedOn, changes, faults>>

-----------------------------------------------------------------------------
Lookups == {"published", "draft"}
Answers == {"release", "notfound", "failed", "cancelled"}
Results == [answer : Answers, id : Nat]
NoResult == [answer |-> "none", id |-> 0]

TypeOK ==
    /\ rel \in {"none", "draft", "published"}
    /\ id \in 0..MaxChanges + 1 /\ draftID \in 0..MaxChanges + 1
    /\ lookup \in [Lookups -> {"start", "fetch", "returned"}]
    /\ results \in Seq(Results) /\ Len(results) <= 2
    /\ cancelled \in BOOLEAN /\ absent \in BOOLEAN /\ movedOn \in BOOLEAN
    /\ pc \in {"first", "second", "drain", "returned"}
    /\ res \in Results \cup {NoResult}
    /\ changes \in 0..MaxChanges /\ faults \in 0..MaxFaults

main == <<pc, res, cancelled>>
world == <<rel, id, absent, movedOn, changes>>

\* results <- fetchResult{...}: the channel has room for both.
Send(g, answer) ==
    /\ results' = Append(results, [answer |-> answer, id |-> IF answer = "release" THEN id ELSE 0])
    /\ lookup' = [lookup EXCEPT ![g] = "returned"]

BrokenSilently(g) ==
    /\ faults < MaxFaults /\ faults' = faults + 1
    /\ lookup' = [lookup EXCEPT ![g] = "returned"] /\ UNCHANGED results

\* A request that fails, and one whose context has been cancelled.
Broken(g) ==
    \/ faults < MaxFaults /\ faults' = faults + 1 /\ Send(g, "failed")
    \/ cancelled /\ Send(g, "cancelled") /\ UNCHANGED faults

LookUpPublished ==
    /\ lookup["published"] = "start"
    /\ \/ Send("published", IF rel = "published" THEN "release" ELSE "notfound") /\ UNCHANGED faults
       \/ Broken("published")
    /\ UNCHANGED <<world, draftID, main>>

\* fetchDraftRelease: GraphQL for the id of the draft, then REST by id.
QueryDraft ==
    /\ lookup["draft"] = "start"
    /\ \/ /\ rel = "draft"
          /\ draftID' = id
          /\ lookup' = [lookup EXCEPT !["draft"] = "fetch"]
          /\ UNCHANGED <<results, faults>>
       \/ rel # "draft" /\ Send("draft", "notfound") /\ UNCHANGED <<draftID, faults>>
       \/ Broken("draft") /\ UNCHANGED draftID
    /\ UNCHANGED <<world, main>>

FetchDraft ==
    /\ lookup["draft"] = "fetch"
    /\ \/ /\ Send("draft", IF rel # "none" /\ id = draftID THEN "release" ELSE "notfound")
          /\ UNCHANGED faults
       \/ Broken("draft")
    /\ UNCHANGED <<world, draftID, main>>

-----------------------------------------------------------------------------
Receive == results # <<>> /\ results' = Tail(results)

First ==
    /\ pc = "first" /\ Receive
    /\ res' = Head(results)
    /\ IF Head(results).answer = "notfound"
       THEN pc' = "second" /\ UNCHANGED cancelled
       ELSE cancelled' = TRUE /\ pc' = "drain"
    /\ UNCHANGED <<world, lookup, draftID, faults>>

Second ==
    /\ pc = "second" /\ Receive
    /\ res' = Head(results)
    /\ cancelled' = TRUE /\ pc' = "returned"
    /\ UNCHANGED <<world, lookup, draftID, faults>>

DrainKeepsError ==
    /\ Receive /\ pc' = "returned"
    /\ res' = IF Head(results).answer \in {"failed", "cancelled"} THEN Head(results) ELSE res
DrainOne == Receive /\ pc' = "returned" /\ UNCHANGED res
Drain ==
    /\ pc = "drain"
    /\ DrainOne
    /\ UNCHANGED <<world, lookup, draftID, cancelled, faults>>

\* Other users.
Change(state) ==
    /\ changes < MaxChanges /\ changes' = changes + 1
    /\ rel' = state
    /\ id' = IF rel = "none" THEN id + 1 ELSE id
    /\ absent' = (absent \/ state = "none")
    /\ movedOn' = (movedOn \/ (rel = "draft" /\ state = "published"))
    /\ UNCHANGED <<lookup, draftID, results, main, faults>>
Others ==
    \/ rel = "none" /\ Change("draft")
    \/ rel # "published" /\ Change("published")
    \/ rel # "none" /\ Change("none")

-----------------------------------------------------------------------------
Init ==
    /\ rel \in {"none", "draft", "published"}
    /\ id = 1 /\ draftID = 0
    /\ lookup = [g \in Lookups |-> "start"]
    /\ results = <<>>
    /\ cancelled = FALSE
    /\ pc = "first" /\ res = NoResult
    /\ absent = (rel = "none") /\ movedOn = FALSE
    /\ changes = 0 /\ faults = 0

Fetch == LookUpPublished \/ QueryDraft \/ FetchDraft
FetchRelease == First \/ Second \/ Drain
Next == Fetch \/ FetchRelease \/ Others

Spec == Init /\ [][Next]_vars

-----------------------------------------------------------------------------
\* Properties.

\* The answer is one that the tag or a failure accounts for: never the error
\* of the lookup that FetchRelease itself cancelled, and "release not found"
\* only when the tag had no release at some time of the call, or a draft was
\* published between the two lookups.  No goroutine outlives the call.
Gone == results = <<>> /\ \A g \in Lookups : lookup[g] = "returned"
AnswerHonest ==
    pc = "returned" => /\ res.answer # "cancelled"
                       /\ res.answer = "notfound" => absent \/ movedOn
                       /\ Gone
=============================================================================
