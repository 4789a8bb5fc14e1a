----------------------------- MODULE Simulator -----------------------------
(***************************************************************************)
(* backend/psc_power_sensor_provider.cpp: the sensor provider and its      *)
(* background thread, from the provider's constructor to its destructor.   *)
(* The thread walks every sensor at random inside a band, commits all of   *)
(* them under one collection time and sleeps until the next tick or a stop *)
(* request.  Values are integers on a scale fine enough for every sensor's *)
(* nominal value, step and bounds; the rounding of doubles is left out.    *)
(***************************************************************************)
EXTENDS Integers

CONSTANTS
  Sensor,       \* the leaves of SENSORS, for every unit
  Nominal, StepOf, Lo, Hi,  \* of each sensor: its row of the table
  NoLeaf,       \* marks a sensor that has no leaf yet
  MaxClock      \* bounds the clock of a run

ASSUME BandAssumption ==
  /\ Nominal \in [Sensor -> Int] /\ StepOf \in [Sensor -> Nat]
  /\ Lo \in [Sensor -> Int] /\ Hi \in [Sensor -> Int]
  /\ \A s \in Sensor : Lo[s] <= Nominal[s] /\ Nominal[s] <= Hi[s]
ASSUME NoLeafAssumption == NoLeaf \notin [val : Int, ts : Nat]
ASSUME ClockAssumption  == MaxClock \in Nat

VARIABLES
  store,        \* store_: the leaf of each sensor
  alive,        \* store_ exists
  owner,        \* where the constructor or destructor of the provider is
  thread,       \* where the simulator is
  stop,         \* its stop token
  value,        \* walks: the value of each sensor
  now,          \* the collection time of its tick
  clock         \* system_clock

vars == <<store, alive, owner, thread, stop, value, now, clock>>

Band(s) == Lo[s]..Hi[s]

Reading == [val : Int, ts : 0..MaxClock]

TypeOK ==
  /\ store \in [Sensor -> Reading \cup {NoLeaf}]
  /\ alive \in BOOLEAN
  /\ owner \in {"constructing", "seeded", "serving", "joining", "joined", "gone"}
  /\ thread \in {"unborn", "collect", "draw", "commit", "wait", "exited"}
  /\ stop \in BOOLEAN
  /\ value \in [Sensor -> Int] /\ \A s \in Sensor : value[s] \in Band(s)
  /\ now \in 0..MaxClock /\ clock \in 0..MaxClock

Init ==
  /\ store = [s \in Sensor |-> NoLeaf]
  /\ alive = TRUE
  /\ owner = "constructing"
  /\ thread = "unborn"
  /\ stop = FALSE
  /\ value = Nominal
  /\ now = 0 /\ clock = 0
-----------------------------------------------------------------------------
(* The provider                                                              *)

Readings(v, t) == [s \in Sensor |-> [val |-> v[s], ts |-> t]]

\* initLeaves: the leaves are there before anybody can read them.
Seed ==
  /\ owner = "constructing"
  /\ store' = Readings(Nominal, clock)
  /\ owner' = "seeded"
  /\ UNCHANGED <<alive, thread, stop, value, now, clock>>

Spawn ==
  /\ owner = "seeded"
  /\ owner' = "serving"
  /\ thread' = "collect"
  /\ UNCHANGED <<store, alive, stop, value, now, clock>>

\* The destructor of the jthread requests a stop,
Stop ==
  /\ owner = "serving"
  /\ stop' = TRUE
  /\ owner' = "joining"
  /\ UNCHANGED <<store, alive, thread, value, now, clock>>

\* A mutant of Joinable: a thread is left running.
JoinableAlways == TRUE

Joinable == thread = "exited"

\* and joins the thread;
Join ==
  /\ owner = "joining" /\ Joinable
  /\ owner' = "joined"
  /\ UNCHANGED <<store, alive, thread, stop, value, now, clock>>

\* then the members declared before it go, the store among them.
Free ==
  /\ owner = "joined"
  /\ alive' = FALSE
  /\ owner' = "gone"
  /\ UNCHANGED <<store, thread, stop, value, now, clock>>
-----------------------------------------------------------------------------
(* runSimulator                                                              *)

Collect ==
  /\ thread = "collect"
  /\ now' = clock
  /\ thread' = "draw"
  /\ UNCHANGED <<store, alive, owner, stop, value, clock>>

\* Mutants of Clamped: no clamp at all, and one with its bounds swapped.
ClampedNever(s, v) == v

ClampedSwapped(s, v) == IF v > Hi[s] THEN Lo[s] ELSE IF v < Lo[s] THEN Hi[s] ELSE v

\* std::clamp
Clamped(s, v) == IF v < Lo[s] THEN Lo[s] ELSE IF v > Hi[s] THEN Hi[s] ELSE v

\* A sensor holds its value or steps up or down; a static one holds it.
Moves(s) == {value[s]}
              \cup {Clamped(s, v) : v \in {u \in {value[s] + StepOf[s], value[s] - StepOf[s]} :
                                             StepOf[s] > 0}}

Draw ==
  /\ thread = "draw"
  /\ value' \in {v \in [Sensor -> UNION {Moves(s) : s \in Sensor}] :
                   \A s \in Sensor : v[s] \in Moves(s)}
  /\ thread' = "commit"
  /\ UNCHANGED <<store, alive, owner, stop, now, clock>>

\* A mutant of Tick: only the leaves that moved are in the batch.
TickMoved ==
  [s \in Sensor |-> IF store[s].val = value[s] THEN store[s]
                    ELSE [val |-> value[s], ts |-> now]]

Tick == Readings(value, now)

Commit ==
  /\ thread = "commit"
  /\ store' = Tick
  /\ thread' = "wait"
  /\ UNCHANGED <<alive, owner, stop, value, now, clock>>

\* A mutant of Woken: the wait does not look at the stop token.
WokenNever == FALSE

\* wait_for returns early when a stop is requested, and with it the loop ends.
Woken == stop

Wake ==
  /\ thread = "wait" /\ Woken
  /\ thread' = "exited"
  /\ UNCHANGED <<store, alive, owner, stop, value, now, clock>>

\* UPDATE_INTERVAL is over.
Timeout ==
  /\ thread = "wait" /\ ~Woken
  /\ thread' = "collect"
  /\ UNCHANGED <<store, alive, owner, stop, value, now, clock>>
-----------------------------------------------------------------------------
Advance ==
  /\ clock < MaxClock
  /\ clock' = clock + 1
  /\ UNCHANGED <<store, alive, owner, thread, stop, value, now>>

\* The provider has gone.
Ended == owner = "gone" /\ UNCHANGED vars

Destroy   == Join \/ Free
Construct == Seed \/ Spawn
Run       == Collect \/ Draw \/ Commit \/ Wake \/ Timeout

Next == Construct \/ Stop \/ Destroy \/ Run \/ Advance \/ Ended

Spec == Init /\ [][Next]_vars
-----------------------------------------------------------------------------
(* Properties                                                                *)

\* A reader finds every sensor from the moment the provider is constructed,
\* even before the first tick, with a value inside its band, and all of them
\* under one collection time (runSimulator: "a reader never straddles two
\* ticks").
OneTick ==
  owner \notin {"constructing"} =>
    \A s, r \in Sensor : /\ store[s] # NoLeaf /\ store[s].val \in Band(s)
                         /\ store[s].ts = store[r].ts

\* The simulator only touches a store that exists: jthread's destructor runs
\* first and waits for the tick that is under way (psc_power_sensor_provider.hpp,
\* "declared last").
NoCommitAfterFree == ~alive => thread = "exited"

\* No reader sees a sensor jump: from one content of the store to the next a
\* value moves by a step at most.
NoJumps ==
  [][\A s \in Sensor : store[s] # NoLeaf =>
       store'[s].val - store[s].val \in (-StepOf[s])..StepOf[s]]_vars
=============================================================================
