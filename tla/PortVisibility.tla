--------------------------- MODULE PortVisibility ---------------------------
(***************************************************************************)
(* `gh codespace ports visibility` (UpdatePortVisibility and ForwardPort   *)
(* in internal/codespaces/portforwarder/port_forwarder.go, called from     *)
(* pkg/cmd/codespace/ports.go) for one forwarded port.                     *)
(*                                                                         *)
(* The visibility of a tunnel port cannot be changed, so the port is       *)
(* deleted and, in a goroutine, forwarded again; when that fails, it is    *)
(* forwarded with its old visibility.  The command gives the update thirty *)
(* seconds.  Any request may fail with or without effect, the context may  *)
(* expire at any point, and another gh may forward the same port.          *)
(***************************************************************************)
EXTENDS Naturals

CONSTANTS
    Visibilities,  \* private, org and public
    Protocols,     \* protocols of tunnel ports
    Default,       \* the visibility of a port created without one
    HTTP,          \* the protocol of a new port
    MaxFaults,     \* bound on failing requests
    Others         \* whether another gh forwards the port too

VisibilityBounds ==
    /\ Default \in Visibilities /\ HTTP \in Protocols
    /\ MaxFaults \in Nat /\ Others \in BOOLEAN

VARIABLES
    port,       \* the port on the tunnel's server
    want,       \* the visibility asked for
    allowed,    \* connection.AllowedPortPrivacySettings
    expired,    \* whether the context of the update has expired
    pc, res,    \* UpdatePortVisibility, and what it returned
    old,        \* the visibility it read
    go,         \* the goroutine
    outcome,    \* what the goroutine has to send on `done`
    connected,  \* whether the tunnel client is connected
    proto,      \* the protocol ForwardPort will create the port with
    other,      \* the other gh
    first,      \* history: the port when the command started
    missed,     \* history: a deletion answered with an error, or a failed rollback
    meddled,    \* history: the other gh has created the port
    faults

vars == <<port, want, allowed, expired, pc, res, old, go, outcome, connected, proto, other,
          first, missed, meddled, faults>>
asked == <<want, allowed, first>>
mine  == <<pc, res, old>>

-----------------------------------------------------------------------------
NoPort  == [exists |-> FALSE, vis |-> Default, proto |-> HTTP]
Port(v, p) == [exists |-> TRUE, vis |-> v, proto |-> p]
PortStates == {NoPort} \cup {Port(v, p) : v \in Visibilities, p \in Protocols}

\* The steps of ForwardPort.
Forwarding == {"look", "create", "connect", "refresh"}
Prepare    == {"connect_first", "refresh_first"}

TypeOK ==
    /\ port \in PortStates /\ first \in PortStates
    /\ want \in Visibilities /\ old \in Visibilities /\ allowed \subseteq Visibilities
    /\ expired \in BOOLEAN /\ connected \in BOOLEAN /\ missed \in BOOLEAN /\ meddled \in BOOLEAN
    /\ pc \in {"get", "delete", "select", "returned"} \cup Forwarding
    /\ res \in {"none", "ok", "error"}
    /\ go \in {"off", "send", "ended"} \cup Prepare \cup Forwarding
    /\ outcome \in {"none", "ok", "error"}
    /\ proto \in Protocols
    /\ other \in {"off", "create", "done"}
    /\ faults \in 0..MaxFaults

\* A request fails by itself, or because its context has expired.
Fails ==
    \/ faults < MaxFaults /\ faults' = faults + 1
    \/ expired /\ UNCHANGED faults

Return(r) == pc' = "returned" /\ res' = r

-----------------------------------------------------------------------------
\* UpdatePortVisibility up to the goroutine.
GetPort ==
    /\ pc = "get"
    /\ \/ /\ port.exists /\ ~expired
          /\ old' = port.vis
          /\ IF port.vis = want THEN Return("ok") ELSE pc' = "delete" /\ UNCHANGED res
          /\ UNCHANGED faults
       \/ ~port.exists /\ Return("error") /\ UNCHANGED <<old, faults>>
       \/ Fails /\ Return("error") /\ UNCHANGED old
    /\ UNCHANGED <<asked, port, expired, go, outcome, connected, proto, other, missed, meddled>>

DeletePort ==
    /\ pc = "delete"
    /\ \/ /\ port.exists /\ ~expired
          /\ port' = NoPort
          /\ pc' = "select" /\ go' = "connect_first"
          /\ UNCHANGED <<res, missed, faults>>
       \/ ~port.exists /\ Return("error") /\ UNCHANGED <<port, go, missed, faults>>
       \/ /\ Fails
          /\ port' \in {port, NoPort}
          /\ missed' = (missed \/ port' # port)
          /\ Return("error")
          /\ UNCHANGED go
    /\ UNCHANGED <<asked, expired, old, outcome, connected, proto, other, meddled>>

-----------------------------------------------------------------------------
\* The requests of ForwardPort(v), made by the goroutine and again by the
\* rollback, each with what its caller does next and when it fails.
LookPort(next, failed) ==
    \/ ~expired /\ proto' = (IF port.exists THEN port.proto ELSE HTTP) /\ next /\ UNCHANGED faults
    \/ Fails /\ failed /\ UNCHANGED proto

\* A conflict (409) is not an error: the port that is there stays as it is.
CreatedPlain(v) == IF port.exists THEN port ELSE Port(Default, proto)
Created(v) == IF port.exists THEN port ELSE Port(v, proto)
Allowed(v) == v \in allowed
CreatePort(v, next, failed) ==
    \/ ~Allowed(v) /\ failed /\ UNCHANGED <<port, faults>>
    \/ Allowed(v) /\ ~expired /\ port' = Created(v) /\ next /\ UNCHANGED faults
    \/ Allowed(v) /\ Fails /\ port' \in {port, Created(v)} /\ failed

ConnectTunnel(next, failed) ==
    \/ connected /\ next /\ UNCHANGED <<connected, faults>>
    \/ ~connected /\ ~expired /\ connected' = TRUE /\ next /\ UNCHANGED faults
    \/ ~connected /\ Fails /\ failed /\ UNCHANGED connected

RefreshPorts(next, failed) ==
    \/ ~expired /\ next /\ UNCHANGED faults
    \/ Fails /\ failed

-----------------------------------------------------------------------------
\* The goroutine: connect, refresh, forward again; then it sends the outcome.
GoTo(l) == go' = l /\ UNCHANGED outcome
GoDone(r) == go' = "send" /\ outcome' = r
GoFails == GoDone("error")

Goroutine ==
    /\ \/ go = "connect_first" /\ ConnectTunnel(GoTo("refresh_first"), GoFails) /\ UNCHANGED <<port, proto>>
       \/ go = "refresh_first" /\ RefreshPorts(GoTo("look"), GoFails) /\ UNCHANGED <<port, proto, connected>>
       \/ go = "look"    /\ LookPort(GoTo("create"), GoFails) /\ UNCHANGED <<port, connected>>
       \/ go = "create"  /\ CreatePort(want, GoTo("connect"), GoFails) /\ UNCHANGED <<proto, connected>>
       \/ go = "connect" /\ ConnectTunnel(GoTo("refresh"), GoFails) /\ UNCHANGED <<port, proto>>
       \/ go = "refresh" /\ RefreshPorts(GoDone("ok"), GoFails) /\ UNCHANGED <<port, proto, connected>>
    /\ UNCHANGED <<asked, mine, expired, other, missed, meddled>>

\* select: the outcome (done is not buffered), or the end of the context,
\* which returns nil.
GiveUpOnError == Return("error")
RollBack == pc' = "look" /\ UNCHANGED res
ReceiveOutcome ==
    /\ pc = "select" /\ go = "send"
    /\ go' = "ended"
    /\ IF outcome = "ok" THEN Return("ok") ELSE RollBack
    /\ UNCHANGED <<asked, port, old, outcome, connected, proto, expired, other, missed, meddled, faults>>

ContextDone == Return("ok")
SelectExpired ==
    /\ pc = "select" /\ expired
    /\ ContextDone
    /\ UNCHANGED <<asked, port, old, go, outcome, connected, proto, expired, other, missed, meddled, faults>>

\* The rollback: ForwardPort with the old visibility, its error ignored.
MainTo(l) == pc' = l /\ UNCHANGED <<res, missed>>
MainDone(r) == Return("error") /\ missed' = (missed \/ r = "error")
ForwardOld ==
    /\ \/ pc = "look"    /\ LookPort(MainTo("create"), MainDone("error")) /\ UNCHANGED <<port, connected>>
       \/ pc = "create"  /\ CreatePort(old, MainTo("connect"), MainDone("error")) /\ UNCHANGED <<proto, connected>>
       \/ pc = "connect" /\ ConnectTunnel(MainTo("refresh"), MainDone("error")) /\ UNCHANGED <<port, proto>>
       \/ pc = "refresh" /\ RefreshPorts(MainDone("ok"), MainDone("error")) /\ UNCHANGED <<port, proto, connected>>
    /\ UNCHANGED <<asked, old, go, outcome, expired, other, meddled>>

\* context.WithTimeout(ctx, 30*time.Second)
Expire ==
    /\ ~expired /\ pc # "returned"
    /\ expired' = TRUE
    /\ UNCHANGED <<asked, port, mine, go, outcome, connected, proto, other, missed, meddled, faults>>

\* Another `gh codespace ports forward`, which asks for no visibility.
OtherForward ==
    /\ Others
    /\ \/ other = "off" /\ other' = "create" /\ UNCHANGED <<port, meddled>>
       \/ /\ other = "create" /\ other' = "done"
          /\ port' = IF port.exists THEN port ELSE Port(Default, HTTP)
          /\ meddled' = (meddled \/ ~port.exists)
    /\ UNCHANGED <<asked, mine, expired, go, outcome, connected, proto, missed, faults>>

-----------------------------------------------------------------------------
Init ==
    /\ port \in PortStates /\ first = port
    /\ want \in Visibilities
    /\ allowed \in SUBSET Visibilities
    /\ expired = FALSE
    /\ pc = "get" /\ res = "none" /\ old = Default
    /\ go = "off" /\ outcome = "none"
    /\ connected = FALSE /\ proto = HTTP
    /\ other = "off"
    /\ missed = FALSE /\ meddled = FALSE
    /\ faults = 0

Update == GetPort \/ DeletePort \/ ReceiveOutcome \/ SelectExpired \/ ForwardOld
Next == Update \/ Goroutine \/ Expire \/ OtherForward

Spec == Init /\ [][Next]_vars

-----------------------------------------------------------------------------
\* Properties.

\* Success within the time means the port has the visibility asked for,
\* unless another gh created it in between.
SuccessInTime == res = "ok" /\ ~expired /\ ~meddled => port.exists /\ port.vis = want

\* After a reported failure the port is still there, as the rollback is for,
\* unless it never was, or a deletion or the rollback itself failed; and at no
\* time, not even during the rollback, does it have a visibility that nobody
\* asked for: it is the old one or the new one.
PortKept ==
    first.exists =>
      /\ res = "error" /\ ~missed => port.exists
      /\ port.exists => port.vis \in {first.vis, want} \/ meddled

\* What an update leaves behind, when it succeeds and when it fails (UpdatePortVisibility in
\* port_forwarder.go).
UpdateHonest == SuccessInTime /\ PortKept
=============================================================================
