----------------------------- MODULE RunsFlight -----------------------------
(***************************************************************************)
(* Runs implements SingleFlight: how the state of the run table shows what *)
(* it promises.                                                            *)
(***************************************************************************)
EXTENDS Runs

\* A run whose result was stored: its waiters were told so, or someone has yet
\* to tell them.
Kept ==
    {r \in RunId :
        \/ state[r].end = "Stored"
        \/ \E w \in todo : \E i \in 1..Len(w) :
               w[i].run = r /\ w[i].end = "Stored"}

Flight == INSTANCE SingleFlight WITH
    of     <- [r \in RunId |-> state[r].key],
    flight <- [k \in Key |-> slots[k].running],
    behind <- [k \in Key |-> slots[k].queued],
    kept   <- Kept,
    told   <- [r \in RunId |-> state[r].end],
    leads  <- [r \in RunId |-> state[r].to]

\* The run table keeps its promise, whatever is asked, replaced, cut off,
\* overtaken by a reload and told late: one run in flight and one behind it, no
\* record but of the run in flight as it ends, and one word to the waiters of a
\* run, which is true.
KeepsFlight == Flight!FlightSpec
=============================================================================
