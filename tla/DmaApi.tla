------------------------------- MODULE DmaApi -------------------------------
(***************************************************************************)
(* What dma_api.README promises a driver that uses completion events on a  *)
(* DMA channel: set up while no transfer is outstanding, start, data moves *)
(* only while the transfer is outstanding, and a transfer that completes   *)
(* successfully has moved everything it was set up for.                    *)
(***************************************************************************)
EXTENDS Naturals

CONSTANT NumCbs      \* most fragments a channel can be set up for

VARIABLES
  st,       \* "released", "idle" or "busy"
  total,    \* fragments of the transfer set up; 0 when there is none
  moved,    \* fragments moved in the transfer started last
  result    \* how the transfer started last ended

vars == <<st, total, moved, result>>

Init == st = "released" /\ total = 0 /\ moved = 0 /\ result = "none"

Attach ==
  /\ st = "released"
  /\ st' = "idle" /\ total' = 0 /\ moved' = 0 /\ result' = "none"

Release ==
  /\ st = "idle"
  /\ st' = "released" /\ total' = 0 /\ result' = "none"
  /\ UNCHANGED moved

Setup ==
  /\ st = "idle"
  /\ total' \in 1 .. NumCbs /\ result' = "none"
  /\ UNCHANGED <<st, moved>>

Start ==
  /\ st = "idle" /\ total > 0
  /\ st' = "busy" /\ moved' = 0 /\ result' = "none"
  /\ UNCHANGED total

Move ==
  /\ st = "busy" /\ moved < total
  /\ moved' = moved + 1
  /\ UNCHANGED <<st, total, result>>

Finish ==
  /\ st = "busy"
  /\ st' = "idle"
  /\ \/ result' = "ok" /\ moved = total
     \/ result' \in {"failed", "stopped"}
  /\ UNCHANGED <<total, moved>>

Next == Attach \/ Release \/ Setup \/ Start \/ Move \/ Finish

Spec == Init /\ [][Next]_vars
=============================================================================
