----------------------------- MODULE MCBookings -----------------------------
(* Two instances in one: captures that race for a slot or a thread beside     *)
(* one request of the dashboard, and one booking that two replicas remind of  *)
(* while two requests edit it.                                                *)
EXTENDS Bookings, TLC

\* Ids, captures and replicas are interchangeable.
Symmetry == Permutations(Bookings) \cup Permutations(Captures) \cup Permutations(Ticks)

CapturesRace ==
    /\ edits <= 1 /\ now = 0 /\ ~lock
    /\ \A k \in Ticks : tick[k] = Rest
    /\ \A b \in Bookings : row[b].at <= 1
    /\ \A h \in Captures : turn[h].at <= 1

RemindersRace ==
    /\ \A h \in Captures : turn[h] = NoTurn
    /\ Cardinality({b \in Bookings : row[b] # NoRow}) <= 1
    /\ \A b \in Bookings : row[b].thread = NoThread /\ (row[b].manual \/ row[b] = NoRow)

Scenarios == CapturesRace \/ RemindersRace
=============================================================================
