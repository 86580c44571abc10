---------------------------- MODULE MCServiceSide ----------------------------
(* Instances of ServiceSide for TLC: two threads of the application. *)
EXTENDS ServiceSide, TLC

CONSTANTS app1, app2, a1, a2, r1, r2

MCHandlers == {Loop, Dispatcher}
MCPushers == {Dispatcher, Cleaner}
MCEntries == Requests \cup {TimedOut}
=============================================================================
