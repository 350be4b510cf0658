---------------------------- MODULE Reservations ----------------------------
(***************************************************************************)
(* What the bookkeeping of NetSlice promises, with nothing but the         *)
(* bookings in it: which links each flow is booked on and which links are  *)
(* down.  The free capacity of a link is what its bookings leave, by       *)
(* definition; NetworkState keeps it as a number of its own, updated by    *)
(* every reserve and release, and is shown to implement this module.       *)
(***************************************************************************)
EXTENDS Workload

VARIABLES
    booked,       \* [Flows -> the links the flow is booked on]
    overbooked,   \* the flows booked without looking at what is free
    down          \* the links that are down

rvars == <<booked, overbooked, down>>

BookedOn(l) == { f \in Flows : l \in booked[f] }

Free(l) == IF l \in down THEN 0 ELSE Capacity[l] - Load(BookedOn(l))

RInit == /\ booked = [f \in Flows |-> {}]
         /\ overbooked = {}
         /\ down = {}

\* A booking is made on all its links or none, and only where it fits.
Book(f, L) ==
    /\ booked[f] = {}
    /\ \A l \in L : Free(l) >= Bandwidth[f]
    /\ booked' = [booked EXCEPT ![f] = L]
    /\ overbooked' = overbooked \ {f}
    /\ UNCHANGED down

\* With admission control off a booking may exceed what is free.
Overbook(f, L) ==
    /\ booked[f] = {}
    /\ booked' = [booked EXCEPT ![f] = L]
    /\ overbooked' = overbooked \cup {f}
    /\ UNCHANGED down

Cancel(f) == /\ booked' = [booked EXCEPT ![f] = {}]
             /\ overbooked' = overbooked \ {f}
             /\ UNCHANGED down

Break(l) == down' = down \cup {l} /\ UNCHANGED <<booked, overbooked>>
Repair(l) == down' = down \ {l} /\ UNCHANGED <<booked, overbooked>>

Routes(f) == { LinksOf(p) : p \in PathsFor(f) }

RNext == \/ \E f \in Flows : \E L \in Routes(f) : Book(f, L) \/ Overbook(f, L)
         \/ \E f \in Flows : Cancel(f)
         \/ \E l \in Links : Break(l) \/ Repair(l)

RSpec == RInit /\ [][RNext]_rvars
=============================================================================
