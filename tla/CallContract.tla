---------------------------- MODULE CallContract ----------------------------
(***************************************************************************)
(* What the callers of a proxy's methods are promised: a call is made, its *)
(* request may be handed to vsomeip, and it is concluded at most once,     *)
(* either by a status passed to the callback (or returned to the blocked   *)
(* caller) or by the refusal of the send.  A call that was concluded with  *)
(* NOT_AVAILABLE was never sent, and one concluded with SUCCESS was.       *)
(***************************************************************************)
CONSTANTS Calls, Statuses

VARIABLES
  stage,     \* [Calls -> "unmade", "pending", "refused" or a status]
  sentOut    \* the calls whose request was handed to vsomeip

vars == <<stage, sentOut>>

Init ==
  /\ stage = [c \in Calls |-> "unmade"]
  /\ sentOut = {}

Make(c) ==
  /\ stage[c] = "unmade"
  /\ stage' = [stage EXCEPT ![c] = "pending"]
  /\ UNCHANGED sentOut

Transmit(c) ==
  /\ stage[c] = "pending"
  /\ sentOut' = sentOut \cup {c}
  /\ UNCHANGED stage

\* The caller is told that the send failed (it may have gone out all the same);
\* nothing else will be said.
Refuse(c) ==
  /\ stage[c] = "pending"
  /\ stage' = [stage EXCEPT ![c] = "refused"]
  /\ sentOut' \in {sentOut, sentOut \cup {c}}

\* The only conclusion of the call.  A blocking call may fail as it is sent.
Conclude(c, status) ==
  /\ stage[c] = "pending"
  /\ stage' = [stage EXCEPT ![c] = status]
  /\ \/ UNCHANGED sentOut
     \/ status = "REMOTE_ERROR" /\ sentOut' = sentOut \cup {c}
  /\ status = "SUCCESS" => c \in sentOut
  /\ status = "NOT_AVAILABLE" => c \notin sentOut

Next ==
  \E c \in Calls :
    \/ Make(c)
    \/ Transmit(c)
    \/ Refuse(c)
    \/ \E status \in Statuses : Conclude(c, status)

Spec == Init /\ [][Next]_vars
=============================================================================
