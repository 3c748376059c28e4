-------------------------------- MODULE Slot --------------------------------
(***************************************************************************)
(* What the server promises about its one engine, and nothing about how:   *)
(* a caller enters, waits in a bounded queue, holds the slot or is over;   *)
(* the engine works for the holder alone; a slot is given up only together *)
(* with the work done for its holder; and nobody comes back.               *)
(***************************************************************************)
EXTENDS Naturals, FiniteSets

CONSTANTS
  Requests,    \* the requests that may reach the server
  MaxPending   \* how many of them may wait

VARIABLES
  place,   \* where each request stands
  busy     \* the requests the engine works for

slotVars == <<place, busy>>

Places == {"outside", "waiting", "holding", "over"}
At(p) == {r \in Requests : place[r] = p}
Free == At("holding") = {}

Init ==
  /\ place = [r \in Requests |-> "outside"]
  /\ busy = {}

Move(r, p) == place' = [place EXCEPT ![r] = p]

\* The slot is taken and the queue has room.
Wait(r) ==
  /\ place[r] = "outside" /\ ~Free
  /\ Cardinality(At("waiting")) < MaxPending
  /\ Move(r, "waiting")
  /\ UNCHANGED busy

\* A newcomer as well as a waiting request may find the slot free.
Take(r) ==
  /\ place[r] \in {"outside", "waiting"} /\ Free
  /\ Move(r, "holding")
  /\ UNCHANGED busy

\* The engine starts or stops working for the holder.
Work(r) ==
  /\ place[r] = "holding"
  /\ busy' \in {busy \cup {r}, busy \ {r}}
  /\ UNCHANGED place

\* Answered, refused or abandoned: the engine is left, too.
Depart(r) ==
  /\ place[r] # "over"
  /\ Move(r, "over")
  /\ busy' = busy \ {r}

Next == \E r \in Requests : Wait(r) \/ Take(r) \/ Work(r) \/ Depart(r)

Spec == Init /\ [][Next]_slotVars

\* At most one holder, the engine works for nobody else, the queue is bounded.
OneAtATime ==
  /\ \A r, q \in At("holding") : r = q
  /\ busy \subseteq At("holding")
  /\ Cardinality(At("waiting")) <= MaxPending
=============================================================================
