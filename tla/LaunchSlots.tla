------------------------------- MODULE LaunchSlots -------------------------------
(***************************************************************************)
(* What the launch ledger promises whoever reads it: slots are reserved one *)
(* at a time and under the ceiling, each is classified once and only from   *)
(* unresolved, and nothing that was recorded is changed or removed.         *)
(***************************************************************************)
EXTENDS Naturals, Sequences

CONSTANTS
  Attempt, \* attempts, each known by its event directory
  NONE,    \* no event directory
  Ceiling  \* launch_ceiling: the most slots ever reserved

VARIABLE slots

Class == {"unresolved", "pre-executor-failure", "executor-reached"}
Slot == [class : Class, event : Attempt \cup {NONE}]

Init == slots = <<>>

\* A new slot follows slots that are all classified.
Reserve ==
  /\ Len(slots) < Ceiling
  /\ \A i \in DOMAIN slots : slots[i].class # "unresolved"
  /\ slots' = Append(slots, [class |-> "unresolved", event |-> NONE])

\* An attempt that reached the executor is known by its event directory; others may have none.
Classify(i) ==
  /\ slots[i].class = "unresolved"
  /\ \E outcome \in {s \in Slot : s.class # "unresolved"} :
       /\ outcome.class = "executor-reached" => outcome.event # NONE
       /\ slots' = [slots EXCEPT ![i] = outcome]

Next == Reserve \/ \E i \in DOMAIN slots : Classify(i)

Spec == Init /\ [][Next]_slots

-----------------------------------------------------------------------------
\* At most the last slot is unresolved, and the ceiling bounds them all.
SlotsInv ==
  /\ slots \in Seq(Slot)
  /\ Len(slots) <= Ceiling
  /\ \A i \in DOMAIN slots : slots[i].class = "unresolved" => i = Len(slots)

=============================================================================
