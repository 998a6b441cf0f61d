---------------------------- MODULE FilePlacement ----------------------------
(***************************************************************************)
(* What the migration promises about the originals, with no disk, journal  *)
(* or worker in it: every asset is at one place, no two at the same; an    *)
(* asset only moves in one step, to a free place among its targets; and an *)
(* asset that stays at none of its targets eventually moves.               *)
(***************************************************************************)
CONSTANTS
    Assets,
    Places

VARIABLES
    place,   \* where the bytes of each asset are
    targets  \* the places the template allows each asset

vars == <<place, targets>>

Occupied == {place[a] : a \in Assets}

Init ==
    /\ place \in [Assets -> Places]
    /\ \A a, b \in Assets : a # b => place[a] # place[b]
    /\ targets \in [Assets -> SUBSET Places]

Move(a) ==
    /\ \E p \in targets[a] \ Occupied : place' = [place EXCEPT ![a] = p]
    /\ UNCHANGED targets

Arrive(a) == place[a] \notin targets[a] /\ Move(a)

Retarget ==
    /\ targets' \in [Assets -> SUBSET Places]
    /\ UNCHANGED place

Next == Retarget \/ \E a \in Assets : Move(a)

Spec ==
    /\ Init
    /\ [][Next]_vars
    /\ \A a \in Assets : WF_vars(Arrive(a))
=============================================================================
