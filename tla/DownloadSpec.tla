---------------------------- MODULE DownloadSpec ----------------------------
(***************************************************************************)
(* What a download promises, without saying how it is done.                *)
(*                                                                         *)
(* The memory of the target (hub and flash cells together) is filled block *)
(* by block.  A block may be acknowledged only when the memory holds it,   *)
(* success may be reported only when every block has been acknowledged,    *)
(* and a started application finds everything it was given.  While a block *)
(* is in transfer only the cells that belong to it may change.             *)
(***************************************************************************)
EXTENDS Integers, Sequences

VARIABLES
  plan,     \* what the user asked for
  acked,    \* blocks acknowledged
  outcome,  \* "busy", "failed", "committed" or "launched"
  mem       \* the target's memory

vars == <<plan, acked, outcome, mem>>

Holds(image) == \A c \in DOMAIN image : mem[c] = image[c]

ChangesOnly(cells) == \A c \in DOMAIN mem : mem'[c] # mem[c] => c \in cells

Block == plan.blocks[acked + 1]

Init == acked = 0 /\ outcome = "busy"

(* Data of the current block arrives, in any order and more than once;     *)
(* after a failure what is under way may still arrive.                     *)
Transfer ==
  /\ outcome \in {"busy", "failed"}
  /\ acked < Len(plan.blocks)
  /\ ChangesOnly(Block.touch)
  /\ UNCHANGED <<plan, acked, outcome>>

Acknowledge ==
  /\ outcome = "busy"
  /\ acked < Len(plan.blocks)
  /\ Holds(Block.image)
  /\ acked' = acked + 1
  /\ UNCHANGED <<plan, outcome, mem>>

Abort ==
  /\ outcome = "busy"
  /\ outcome' = "failed"
  /\ UNCHANGED <<plan, acked, mem>>

Commit ==
  /\ outcome = "busy"
  /\ acked = Len(plan.blocks)
  /\ outcome' = "committed"
  /\ UNCHANGED <<plan, acked, mem>>

(* A flash download copies the loaded image to flash after the commit. *)
Install ==
  /\ outcome = "committed"
  /\ ChangesOnly(plan.install)
  /\ UNCHANGED <<plan, acked, outcome>>

Launch ==
  /\ outcome = "committed"
  /\ Holds(plan.final)
  /\ outcome' = "launched"
  /\ UNCHANGED <<plan, acked, mem>>

Next == Transfer \/ Acknowledge \/ Abort \/ Commit \/ Install \/ Launch

Spec == Init /\ [][Next]_vars
=============================================================================
