------------------------------ MODULE MCWepoll -------------------------------
(***************************************************************************)
(* An epoll port and its threads for TLC: one thread waits while another   *)
(* changes and closes the port, or while two others do.                    *)
(***************************************************************************)
EXTENDS WepollPort

CONSTANTS waiter, changer, closer, s1, s2

TwoRoles   == waiter :> {"wait"} @@ changer :> {"ctl", "close"}
ThreeRoles == waiter :> {"wait"} @@ changer :> {"ctl"} @@ closer :> {"close"}

Plain   == s1 :> {{"IN"}, {"OUT"}} @@ s2 :> {{"IN"}}
OneShot == s1 :> {{"IN"}, {"IN", "OUT"}, {"OUT", "ONESHOT"}}

Always   == {{"SEND", "RECEIVE"}}
Writable == {{}, {"SEND"}, {"SEND", "RECEIVE"}}
==============================================================================
