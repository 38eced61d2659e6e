----------------------------- MODULE SplitSides -----------------------------
(***************************************************************************)
(* What the split-screen pair promises, whatever the windows, the inner    *)
(* window thread and the UI service do: two sides, each held by at most    *)
(* one window, no window on both; a window is placed on a side or replaces *)
(* the one there, the two sides change places, and once both were taken    *)
(* they are only ever given up together.                                   *)
(***************************************************************************)
CONSTANTS Windows, None

VARIABLE side   \* side["PRIMARY"], side["SECONDARY"]

Sides == {"PRIMARY", "SECONDARY"}
Nobody == [m \in Sides |-> None]
Opposite(m) == CHOOSE o \in Sides : o # m

Init == side = Nobody

Place(m, w) ==
    /\ w # side[Opposite(m)]
    /\ side' = [side EXCEPT ![m] = w]

Switch == side' = [m \in Sides |-> side[Opposite(m)]]

(* The only window of the pair, or both, leave split screen.               *)
Dissolve == side' = Nobody

Next == (\E m \in Sides, w \in Windows : Place(m, w)) \/ Switch \/ Dissolve

Spec == Init /\ [][Next]_side
=============================================================================
