-------------------------- MODULE MCAssetLifecycle --------------------------
(***************************************************************************)
(* Constants for the runs of AssetLifecycle.                               *)
(***************************************************************************)
EXTENDS AssetLifecycle, TLC

CONSTANTS s1, s2, m1
WorkersAlike == Permutations(Workers)

\* One photo, which is new.
NoMotion == [u \in Stills |-> None]
Different == [a \in Assets |-> a]
NoHome == [u \in {} |-> None]

\* A live photo whose still has the bytes of a photo stored before.
LivePhoto == [u \in Stills |-> IF u = s1 THEN m1 ELSE None]
SameStill == [a \in Assets |-> IF a \in Stills THEN s1 ELSE a]
FirstSlot == [u \in Stored |-> <<"library", 0>>]
=============================================================================
