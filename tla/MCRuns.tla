------------------------------- MODULE MCRuns -------------------------------
(***************************************************************************)
(* Small instances of Runs for TLC.                                        *)
(***************************************************************************)
EXTENDS RunsFlight, FiniteSets, TLC

CONSTANTS a, b, d

\* One instance, which calls nothing.
NoCalls == [k \in Key |-> {}]

\* Two instances, one of which calls the other.
OneCalls == (a :> {b}) @@ (b :> {})

\* Three instances, each reading the next, round a ring.
RoundThree == (a :> {b}) @@ (b :> {d}) @@ (d :> {a})

=============================================================================
