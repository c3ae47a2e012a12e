-------------------------- MODULE CodespaceSession --------------------------
(***************************************************************************)
(* One `gh codespace ssh` or `cp` session, from the moment the codespace   *)
(* is ready: App.SSH in pkg/cmd/codespace/ssh.go, the RPC invoker and its  *)
(* heartbeat in internal/codespaces/rpc/invoker.go, ForwardPortToListener  *)
(* and the traffic monitor in portforwarder/port_forwarder.go, and the     *)
(* tunnel client they share in connection/connection.go.                   *)
(*                                                                         *)
(* Five goroutines: SSH itself (main), the forwarder of the RPC port (pf), *)
(* the heartbeat, the forwarder of the ssh port (tunnel) and the shell.    *)
(* Time is left out but for its order: the first heartbeat comes a minute  *)
(* after the invoker is connected, when the requests that main makes until *)
(* it starts the shell (thirty seconds each) have ended.                   *)
(***************************************************************************)
EXTENDS Naturals

CONSTANTS MaxFaults   \* bound on failing requests

VARIABLES
    main, res,   \* SSH, and what it returns
    command,     \* the user gave a command to run (non-interactive)
    pf, tunnel,  \* the two forwarders
    dialed,      \* what grpc.NewClient has returned
    shell, hb,   \* the shell (or scp) and the heartbeat
    ch,          \* the first value sent to connect's channel
    pfctx, ctx,  \* whether the two contexts have been cancelled
    mutex,       \* who holds TunnelClient.mu
    connected,   \* TunnelClient.connected
    links,       \* open connections of the tunnel client
    reason,      \* whether keepAliveReason (one place) is full
    override,    \* invoker.keepAliveOverride
    owed,        \* history: traffic that no notification has followed yet
    faults

vars == <<main, res, command, pf, tunnel, dialed, shell, hb, ch, pfctx, ctx, mutex, connected,
          links, reason, override, owed, faults>>
client == <<mutex, connected, links>>
alive  == <<reason, override, owed>>
rpc    == <<pf, dialed, ch, pfctx>>

-----------------------------------------------------------------------------
Forwarder == {"off", "create", "connect", "check", "dial_tunnel", "listen", "ended"}

TypeOK ==
    /\ main \in {"invoke", "hello", "startssh", "listen", "select", "close_invoker", "close_fwd", "returned"}
    /\ res \in {"none", "ok", "error"}
    /\ command \in BOOLEAN /\ dialed \in {"no", "ok", "error"}
    /\ pf \in Forwarder /\ tunnel \in Forwarder
    /\ shell \in {"off", "parse", "run", "ok", "error"}
    /\ hb \in {"off", "wait", "reason", "notify", "ended"}
    /\ ch \in {"none", "ok", "error"}
    /\ pfctx \in BOOLEAN /\ ctx \in BOOLEAN
    /\ mutex \in {"free", "pf", "tunnel"}
    /\ connected \in BOOLEAN /\ links \in 0..2
    /\ reason \in BOOLEAN /\ override \in BOOLEAN /\ owed \in BOOLEAN
    /\ faults \in 0..MaxFaults

Fault == faults < MaxFaults /\ faults' = faults + 1
Fails(cancelled) == Fault \/ (cancelled /\ UNCHANGED faults)

-----------------------------------------------------------------------------
\* A forwarder (pf or tunnel): ForwardPort creates the port and connects the
\* shared tunnel client, then connections are accepted until the context ends
\* or the listener or the tunnel breaks.
Lock(who) == mutex = "free" /\ mutex' = who
NeverConnected == FALSE
AlreadyConnected == connected

\* A forwarder moves on; the end of pf is sent to connect in invoker.go, whose
\* channel holds one result.
Send(v) == ch' = IF ch = "none" THEN v ELSE ch
PfTo(l) == pf' = l /\ IF l = "ended" THEN Send(IF pfctx THEN "ok" ELSE "error") ELSE UNCHANGED ch
TunnelTo(l) == tunnel' = l
To(who, l) == \/ who = "pf" /\ PfTo(l)
              \/ who = "tunnel" /\ TunnelTo(l)

Forward(who, at, cancelled, closed) ==
    \/ /\ at = "create"
       /\ \/ ~cancelled /\ To(who, "connect") /\ UNCHANGED faults
          \/ Fails(cancelled) /\ To(who, "ended")
       /\ UNCHANGED client
    \/ /\ at = "connect" /\ Lock(who)
       /\ To(who, "check")
       /\ UNCHANGED <<connected, links, faults>>
    \/ /\ at = "check"
       /\ \/ AlreadyConnected /\ To(who, "listen") /\ mutex' = "free"
          \/ ~AlreadyConnected /\ To(who, "dial_tunnel") /\ UNCHANGED mutex
       /\ UNCHANGED <<connected, links, faults>>
    \/ /\ at = "dial_tunnel"
       /\ \/ ~cancelled /\ connected' = TRUE /\ links' = links + 1 /\ To(who, "listen") /\ UNCHANGED faults
          \/ Fails(cancelled) /\ To(who, "ended") /\ UNCHANGED <<connected, links>>
       /\ mutex' = "free"
    \/ /\ at = "listen"
       /\ Fails(cancelled \/ closed) /\ To(who, "ended")
       /\ UNCHANGED client

\* connect in invoker.go: its two goroutines.
ForwardRPC ==
    /\ Forward("pf", pf, pfctx, ~connected)
    /\ UNCHANGED <<main, res, command, tunnel, dialed, shell, hb, pfctx, ctx, alive>>

Dial ==
    /\ dialed = "no"
    /\ \/ dialed' = "ok" /\ UNCHANGED faults
       \/ dialed' = "error" /\ Fault
    /\ Send(dialed')
    /\ UNCHANGED <<main, res, command, pf, tunnel, shell, hb, pfctx, ctx, client, alive>>

\* CreateInvoker waits for the first of them, or five seconds.  The deferred
\* function cancels pfctx for an error of grpc.NewClient only: the `err` it
\* looks at is not the one that the select receives.
InvokerFails == main' = "close_fwd" /\ res' = "error" /\ pfctx' = (dialed = "error")
CreateInvoker ==
    /\ main = "invoke"
    /\ \/ ch = "ok" /\ main' = "hello" /\ UNCHANGED <<res, pfctx, faults>>
       \/ ch = "error" /\ InvokerFails /\ UNCHANGED faults
       \/ Fault /\ InvokerFails
    /\ UNCHANGED <<command, pf, dialed, ch, tunnel, shell, hb, ctx, client, alive>>

\* The first notification, whose outcome does not matter, and the heartbeat.
StartHeartbeat ==
    /\ main = "hello"
    /\ main' = "startssh" /\ hb' = "wait"
    /\ UNCHANGED <<res, command, tunnel, shell, ctx, rpc, client, alive, faults>>

\* StartSSHServerWithOptions needs the RPC port forwarded.
StartSSHServer ==
    /\ main = "startssh"
    /\ \/ pf = "listen" /\ main' = "listen" /\ UNCHANGED <<res, faults>>
       \/ Fault /\ main' = "close_invoker" /\ res' = "error"
       \/ pf = "ended" /\ main' = "close_invoker" /\ res' = "error" /\ UNCHANGED faults
    /\ UNCHANGED <<command, tunnel, shell, hb, ctx, rpc, client, alive>>

StartShell ==
    /\ main = "listen"
    /\ \/ main' = "select" /\ tunnel' = "create" /\ shell' = "parse" /\ UNCHANGED <<res, faults>>
       \/ Fault /\ main' = "close_invoker" /\ res' = "error" /\ UNCHANGED <<tunnel, shell>>
    /\ UNCHANGED <<command, hb, ctx, rpc, client, alive>>

-----------------------------------------------------------------------------
\* The ssh port, and its traffic: each read and write asks to be kept alive.
ForwardSSH ==
    /\ Forward("tunnel", tunnel, ctx, main \in {"close_invoker", "close_fwd", "returned"})
    /\ UNCHANGED <<main, res, command, rpc, shell, hb, ctx, alive>>

\* KeepAlive(reason) does not wait: with a reason pending this one is dropped.
Traffic ==
    /\ tunnel = "listen" /\ shell = "run" /\ ~ctx
    /\ reason' = TRUE /\ owed' = TRUE
    /\ UNCHANGED <<main, res, command, rpc, tunnel, shell, hb, ctx, client, override, faults>>

KeepAliveOnce == reason' = TRUE /\ UNCHANGED override
KeepAlive == override' = TRUE /\ UNCHANGED reason
RunShell ==
    /\ shell = "parse"
    /\ \/ shell' = "run" /\ (IF command THEN KeepAlive ELSE UNCHANGED <<reason, override>>)
          /\ UNCHANGED faults
       \/ shell' = "error" /\ Fault /\ UNCHANGED <<reason, override>>
    /\ UNCHANGED <<main, res, command, rpc, tunnel, hb, ctx, client, owed>>

ShellEnds ==
    /\ shell = "run"
    /\ shell' \in {"ok", "error"}
    /\ UNCHANGED <<main, res, command, rpc, tunnel, hb, ctx, client, alive, faults>>

-----------------------------------------------------------------------------
\* The heartbeat: every minute, unless the context ended, wait for a reason
\* (or not, with the override) and notify the codespace.
Tick ==
    /\ hb = "wait"
    /\ main \notin {"startssh", "listen"} /\ shell # "parse"
    /\ hb' = IF override THEN "notify" ELSE "reason"
    /\ UNCHANGED <<main, res, command, rpc, tunnel, shell, ctx, client, alive, faults>>

HeartbeatDone ==
    /\ hb = "wait" /\ pfctx
    /\ hb' = "ended"
    /\ UNCHANGED <<main, res, command, rpc, tunnel, shell, ctx, client, alive, faults>>

GetReasonKeeping == UNCHANGED reason
TakeReason == reason' = FALSE
GetKeepAliveReason ==
    /\ hb = "reason" /\ reason
    /\ TakeReason
    /\ hb' = "notify"
    /\ UNCHANGED <<main, res, command, rpc, tunnel, shell, ctx, client, override, owed, faults>>

AfterNotifyOnce == "ended"
AfterNotify == "wait"
Notify ==
    /\ hb = "notify"
    /\ hb' = AfterNotify
    /\ owed' = reason
    /\ UNCHANGED <<main, res, command, rpc, tunnel, shell, ctx, client, reason, override, faults>>

-----------------------------------------------------------------------------
\* select: whichever of the tunnel and the shell ends first.
SessionOver ==
    /\ main = "select"
    /\ \/ tunnel = "ended" /\ res' = "error"
       \/ shell \in {"ok", "error"} /\ res' = shell
    /\ main' = "close_invoker"
    /\ UNCHANGED <<command, rpc, tunnel, shell, hb, ctx, client, alive, faults>>

\* The deferred calls: invoker.Close cancels pfctx and closes the listener,
\* fwd.Close closes the tunnel client, and cancel comes last.
CloseJoins == hb = "ended"
CloseWaits == TRUE
CloseInvoker ==
    /\ main = "close_invoker"
    /\ CloseWaits
    /\ pfctx' = TRUE
    /\ main' = "close_fwd"
    /\ UNCHANGED <<res, command, pf, dialed, ch, tunnel, shell, hb, ctx, client, alive, faults>>

CloseLink ==
    \/ connected /\ connected' = FALSE /\ links' = links - 1 /\ UNCHANGED faults
    \/ connected /\ UNCHANGED <<connected, links>> /\ Fault
    \/ ~connected /\ UNCHANGED <<connected, links, faults>>
CloseForwarder ==
    /\ main = "close_fwd" /\ mutex = "free"
    /\ CloseLink
    /\ main' = "returned" /\ ctx' = TRUE
    /\ UNCHANGED <<res, command, rpc, tunnel, shell, hb, mutex, alive>>

\* The shell is run with ctx, and is killed with it.
KillShell ==
    /\ shell \in {"parse", "run"} /\ ctx
    /\ shell' = "error"
    /\ UNCHANGED <<main, res, command, rpc, tunnel, hb, ctx, client, alive, faults>>

-----------------------------------------------------------------------------
Init ==
    /\ main = "invoke" /\ res = "none"
    /\ command \in BOOLEAN
    /\ pf = "create" /\ tunnel = "off" /\ dialed = "no"
    /\ shell = "off" /\ hb = "off"
    /\ ch = "none"
    /\ pfctx = FALSE /\ ctx = FALSE
    /\ mutex = "free" /\ connected = FALSE /\ links = 0
    /\ reason = FALSE /\ override = FALSE /\ owed = FALSE
    /\ faults = 0

SSH == CreateInvoker \/ StartHeartbeat \/ StartSSHServer \/ StartShell \/ SessionOver
         \/ CloseInvoker \/ CloseForwarder
Heartbeat == HeartbeatDone \/ GetKeepAliveReason \/ Notify
Shell == RunShell \/ KillShell

Next == SSH \/ ForwardRPC \/ ForwardSSH \/ Dial \/ Heartbeat \/ Tick \/ Shell \/ ShellEnds \/ Traffic

Spec == Init /\ [][Next]_vars

-----------------------------------------------------------------------------
\* Properties.

\* The forwarders and Close share one tunnel client: however they interleave,
\* it never makes a second connection before it has closed the first, and it
\* is marked connected from the one to the other (connection.go).
OneConnection == links = IF connected THEN 1 ELSE 0

\* A codespace in use does not shut down under the user (invoker.go, ssh.go).
\* Traffic is followed by a notification, unless the session ends before: however
\* the traffic, the ticks and the notifications interleave, no reason is lost.  And
\* a command that runs without any traffic is notified again and again.
KeptAlive ==
    /\ owed ~> (hb = "notify" \/ main # "select")
    /\ (command /\ shell = "run") ~> []((command /\ main = "select") => <>(hb = "notify" \/ main # "select"))

\* When the shell or the tunnel has ended, so does the session.
SessionEnds == (main # "invoke" /\ (shell \in {"ok", "error"} \/ tunnel = "ended")) ~> main = "returned"
=============================================================================
