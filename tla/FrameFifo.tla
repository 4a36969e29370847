----------------------------- MODULE FrameFifo ------------------------------
(***************************************************************************)
(* What the frame pipeline promises, whatever semaphores and threads it is *)
(* built from: at most Depth frames are being built, waiting or being      *)
(* drawn; a frame is committed into a place reserved for it; frames leave  *)
(* in the order they came; and no frame is queued behind a newer one.      *)
(***************************************************************************)
EXTENDS Naturals, Sequences

CONSTANTS Depth, Items

VARIABLES
  slots,    \* places taken
  waiting   \* frames committed and not taken, oldest first

fifoVars == <<slots, waiting>>

Init == slots = 0 /\ waiting = <<>>

Reserve == slots < Depth /\ slots' = slots + 1 /\ UNCHANGED waiting

Commit(item) ==
  /\ Len(waiting) < slots
  /\ \A i \in DOMAIN waiting : waiting[i].number < item.number
  /\ waiting' = Append(waiting, item)
  /\ UNCHANGED slots

Take == waiting # <<>> /\ waiting' = Tail(waiting) /\ UNCHANGED slots

\* A place is given back by a frame that has been drawn, or that was refused.
Release == slots > Len(waiting) /\ slots' = slots - 1 /\ UNCHANGED waiting

Next == Reserve \/ (\E item \in Items : Commit(item)) \/ Take \/ Release

Spec == Init /\ [][Next]_fifoVars
=============================================================================
