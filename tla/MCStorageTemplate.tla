-------------------------- MODULE MCStorageTemplate --------------------------
(* Instances of StorageTemplate for TLC. *)
EXTENDS StorageTemplate, TLC

CONSTANTS a1, a2, a3, x, y, w1, w2

To(base, assets) ==
    [enabled |-> TRUE, hashVerification |-> TRUE, template |-> [a \in assets |-> base]]

\* All assets rendered to the same path, so that every move meets the "+N" rule.
OneTemplate  == {To(x, {a1, a2})}
TwoTemplates == {To(x, {a1, a2}), To(y, {a1, a2})}
SameSize     == [a \in {a1, a2} |-> 2]

\* A third asset without size, a template that cannot be rendered for a2, and
\* the migration switched off.
AnySettings ==
    LET all == {a1, a2, a3}
    IN  {To(x, all), To(y, all), [To(x, all) EXCEPT !.template[a2] = None],
         [To(y, all) EXCEPT !.enabled = FALSE]}
OneUnknownSize == [a \in {a1, a2, a3} |-> IF a = a3 THEN 0 ELSE 2]

Symmetry == Permutations({a1, a2}) \union Permutations({w1, w2})
=============================================================================
