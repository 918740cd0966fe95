---------------------------- MODULE SingleFlight ----------------------------
(***************************************************************************)
(* What the run table (module Runs, src/src/run.rs) promises those who ask *)
(* it for runs, and nothing of how: at most one run of an instance is in   *)
(* flight and at most one is queued behind it; only the run in flight      *)
(* stores a record, as it ends; and whoever holds a run is told once how   *)
(* it ended, after it has left the table, or where to go: to a later run   *)
(* of the same instance.                                                   *)
(***************************************************************************)
EXTENDS Naturals

CONSTANTS
    Key,       \* instances
    NoKey,
    MaxRun     \* bound: runs made

Run == 1..MaxRun

NoRun == 0

Word == {"Stored", "Failed", "Fault", "Dropped"}

VARIABLES
    made,     \* how many runs were made
    of,       \* [Run -> Key \cup {NoKey}]
    flight,   \* [Key -> Run \cup {NoRun}]: the run in flight
    behind,   \* [Key -> Run \cup {NoRun}]: the one queued behind it
    record,   \* [Key -> Run \cup {NoRun}]: the run whose result is stored
    kept,     \* the runs that stored what they gave
    told,     \* [Run -> Word \cup {"Open", "Moved"}]: what its waiters hear
    leads     \* [Run -> Run \cup {NoRun}]: where they are told to go

table      == <<made, of, flight, behind>>
stored     == <<record, kept>>
words      == <<told, leads>>
flightVars == <<table, stored, words>>

FlightInit ==
    /\ made = 0
    /\ of = [r \in Run |-> NoKey]
    /\ flight = [k \in Key |-> NoRun] /\ behind = [k \in Key |-> NoRun]
    /\ record = [k \in Key |-> NoRun] /\ kept = {}
    /\ told = [r \in Run |-> "Open"] /\ leads = [r \in Run |-> NoRun]

InTable(r) == \E k \in Key : r \in {flight[k], behind[k]}

New(k) == made + 1 \in Run /\ made' = made + 1
          /\ of' = [of EXCEPT ![made + 1] = k]

\* Nothing is in flight: a run is.
Takes(k) ==
    /\ flight[k] = NoRun
    /\ New(k)
    /\ flight' = [flight EXCEPT ![k] = made + 1]
    /\ UNCHANGED <<behind, stored, words>>

\* A run is queued behind the one in flight.
Queues(k) ==
    /\ flight[k] # NoRun /\ behind[k] = NoRun
    /\ New(k)
    /\ behind' = [behind EXCEPT ![k] = made + 1]
    /\ UNCHANGED <<flight, stored, words>>

\* The one queued, or a new one, takes the place of the one in flight.
Overtakes(k) ==
    /\ flight[k] # NoRun
    /\ \/ /\ behind[k] # NoRun
          /\ flight' = [flight EXCEPT ![k] = behind[k]]
          /\ UNCHANGED <<made, of>>
       \/ /\ behind[k] = NoRun
          /\ New(k)
          /\ flight' = [flight EXCEPT ![k] = made + 1]
    /\ behind' = [behind EXCEPT ![k] = NoRun]
    /\ UNCHANGED <<stored, words>>

\* The run in flight ends, having stored its result or not, and the one queued
\* behind it begins or goes.
Ends(k) ==
    /\ flight[k] # NoRun
    /\ flight' = [flight EXCEPT ![k] = behind[k]] \/
       flight' = [flight EXCEPT ![k] = NoRun]
    /\ behind' = [behind EXCEPT ![k] = NoRun]
    /\ \/ /\ record' = [record EXCEPT ![k] = flight[k]]
          /\ kept' = kept \cup {flight[k]}
       \/ UNCHANGED stored
    /\ UNCHANGED <<made, of, words>>

Evicts(k) ==
    /\ record[k] # NoRun
    /\ record' = [record EXCEPT ![k] = NoRun]
    /\ UNCHANGED <<table, kept, words>>

\* A run that has left the table is spoken for, once.
Tells(r) ==
    /\ told[r] = "Open" /\ r <= made /\ ~InTable(r)
    /\ \/ \E word \in Word :
             /\ word = "Stored" <=> r \in kept
             /\ told' = [told EXCEPT ![r] = word]
             /\ UNCHANGED leads
       \/ \E next \in (r + 1)..made :
             /\ r \notin kept /\ of[next] = of[r]
             /\ told' = [told EXCEPT ![r] = "Moved"]
             /\ leads' = [leads EXCEPT ![r] = next]
    /\ UNCHANGED <<table, stored>>

FlightNext ==
    \/ \E k \in Key : \/ Takes(k) \/ Queues(k) \/ Overtakes(k)
                      \/ Ends(k) \/ Evicts(k)
    \/ \E r \in Run : Tells(r)

FlightSpec == FlightInit /\ [][FlightNext]_flightVars
=============================================================================
