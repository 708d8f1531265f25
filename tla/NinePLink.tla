----------------------------- MODULE NinePLink -----------------------------
(***************************************************************************)
(* The conversation between a program on the P2 and the 9P server in       *)
(* loadp2: one request at a time, answered by one reply.  The bytes of a   *)
(* message and its escape sequence in the terminal stream are left out.    *)
(***************************************************************************)
VARIABLES
  req,   \* the request being handled, or Idle
  rep,   \* the last reply, or Idle once the program has taken it
  lost   \* "no", or why that reply was not sent: no "room" for it in a
         \* message, or the "line" failed

link == <<req, rep, lost>>

Idle   == [type |-> "none"]
Rerror == [type |-> "Rerror"]

LinkInit == req = Idle /\ rep = Idle /\ lost = "no"
=============================================================================
