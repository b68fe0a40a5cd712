------------------------- MODULE AtomicConfiguration -------------------------
(***************************************************************************)
(* What ConfigurationStore promises, told without slots, pointers or       *)
(* reboots: there is one durable configuration, a commit replaces it in a  *)
(* single step, and every commit carries the next revision number.  A      *)
(* power loss is not visible at this level at all.                         *)
(***************************************************************************)
EXTENDS Naturals

CONSTANTS
  Docs,     \* configuration payloads
  MaxRev    \* the largest revision number (UINT32_MAX in the firmware)

VARIABLE current    \* [rev, doc]: the configuration the device is on

Init == current \in [rev : 0..MaxRev, doc : Docs]

Commit(d) == /\ current.rev < MaxRev
             /\ current' = [rev |-> current.rev + 1, doc |-> d]

Next == \E d \in Docs : Commit(d)

Spec == Init /\ [][Next]_current
=============================================================================
