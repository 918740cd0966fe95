---------------------------- MODULE MCLifecycle ----------------------------
(***************************************************************************)
(* Small instances of Lifecycle for TLC.                                   *)
(***************************************************************************)
EXTENDS Lifecycle, TLC

CONSTANTS a, b

NoCalls == [k \in Key |-> {}]

\* a and b call each other.
CallsRound == (a :> {b}) @@ (b :> {a})

\* a polls; b is watch-only.
PollOfA == [k \in Key |-> IF k = a THEN 1 ELSE 0]

AllOnes == [k \in Key |-> 1]

=============================================================================
