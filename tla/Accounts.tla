------------------------------ MODULE Accounts ------------------------------
(***************************************************************************)
(* What docs/multiple-accounts.md and the auth commands promise: each host *)
(* has a set of logged-in accounts, one of them active.  A login adds its  *)
(* account and makes it active, a switch picks another one, a logout       *)
(* removes one and, if that was the active one, activates another.         *)
(***************************************************************************)
CONSTANTS Hosts, Users, NoUser

VARIABLES users, active
vars == <<users, active>>

Init ==
    /\ users = [h \in Hosts |-> {}]
    /\ active = [h \in Hosts |-> NoUser]

Login(h, u) ==
    /\ users' = [users EXCEPT ![h] = @ \cup {u}]
    /\ active' = [active EXCEPT ![h] = u]

Switch(h, u) ==
    /\ u \in users[h]
    /\ active' = [active EXCEPT ![h] = u]
    /\ UNCHANGED users

Logout(h, u) ==
    /\ u \in users[h]
    /\ users' = [users EXCEPT ![h] = @ \ {u}]
    /\ IF active[h] # u THEN UNCHANGED active
       ELSE IF users[h] = {u} THEN active' = [active EXCEPT ![h] = NoUser]
       ELSE \E v \in users[h] \ {u} : active' = [active EXCEPT ![h] = v]

Next == \E h \in Hosts, u \in Users : Login(h, u) \/ Switch(h, u) \/ Logout(h, u)
Spec == Init /\ [][Next]_vars
=============================================================================
