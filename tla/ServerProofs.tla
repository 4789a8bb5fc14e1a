---------------------------- MODULE ServerProofs ----------------------------
(***************************************************************************)
(* Theorems about Simulator, for any table of sensors whose nominal values *)
(* lie in their bands, and about ServerProcess, for any command lines: the *)
(* process runs the provider as Simulator describes it, and with it the    *)
(* theorems about the provider hold of the process.                        *)
(***************************************************************************)
EXTENDS ServerProcess, TLAPS
-----------------------------------------------------------------------------
(* The sensors and their thread                                              *)

\* While the thread is between a draw and its commit the store lags behind the
\* walk by at most a step; at all other times the two agree.
Lag ==
  \A s \in Sensor :
    /\ thread # "commit" => store[s].val = value[s]
    /\ value[s] - store[s].val \in (-StepOf[s])..StepOf[s]

\* The lives of the provider, of its thread and of its store.
Lives ==
  /\ owner \in {"constructing", "seeded"} <=> thread = "unborn"
  /\ owner \in {"constructing", "seeded"} => value = Nominal
  /\ owner \in {"joined", "gone"} => thread = "exited"
  /\ alive <=> owner # "gone"

Filled == /\ store \in [Sensor -> Reading]
          /\ \A s, r \in Sensor : /\ store[s].val \in Band(s)
                                  /\ store[s].ts = store[r].ts

Bare == store = [s \in Sensor |-> NoLeaf]

IInv == /\ TypeOK /\ Lives
        /\ owner = "constructing" => Bare
        /\ owner # "constructing" => Filled /\ Lag

\* NoLeaf is not a reading.
LEMMA NoLeafNoReading == NoLeaf \notin Reading
<1>1. Reading \subseteq [val : Int, ts : Nat]
  BY ClockAssumption DEF Reading
<1>. QED
  BY <1>1, NoLeafAssumption

\* Readings of values in their bands at one time.
LEMMA ReadingsFilled ==
  ASSUME NEW v \in [Sensor -> Int], \A s \in Sensor : v[s] \in Band(s),
         NEW t \in 0..MaxClock
  PROVE  /\ Readings(v, t) \in [Sensor -> Reading]
         /\ \A s \in Sensor : Readings(v, t)[s].val = v[s] /\ Readings(v, t)[s].ts = t
BY DEF Readings, Reading

\* A clamped value is in the band, and no further from a value of the band
\* than the value it was made of.
LEMMA MovesBounded ==
  ASSUME NEW s \in Sensor, value[s] \in Band(s), NEW v \in Moves(s)
  PROVE  /\ v \in Int /\ v \in Band(s)
         /\ v - value[s] \in (-StepOf[s])..StepOf[s]
<1>1. /\ Lo[s] \in Int /\ Hi[s] \in Int /\ Lo[s] <= Hi[s] /\ StepOf[s] \in Nat
      /\ value[s] \in Int
  BY BandAssumption DEF Band
<1>. QED
  BY <1>1 DEF Moves, Clamped, Band

LEMMA InitIInv == Init => IInv
<1> SUFFICES ASSUME Init PROVE IInv
  OBVIOUS
<1>1. value \in [Sensor -> Int] /\ \A s \in Sensor : value[s] \in Band(s)
  BY BandAssumption DEF Init, Band
<1>2. store \in [Sensor -> Reading \cup {NoLeaf}] /\ 0 \in 0..MaxClock
  BY ClockAssumption DEF Init
<1>. QED
  BY <1>1, <1>2 DEF Init, IInv, TypeOK, Lives, Bare

LEMMA StepIInv == IInv /\ [Next]_vars => IInv'
<1> SUFFICES ASSUME IInv, [Next]_vars PROVE IInv'
  OBVIOUS
<1> USE DEF IInv
<1>1. CASE Seed
  <2>1. /\ Nominal \in [Sensor -> Int] /\ \A s \in Sensor : Nominal[s] \in Band(s)
        /\ clock \in 0..MaxClock
    BY BandAssumption DEF Band, TypeOK
  <2>2. /\ store' \in [Sensor -> Reading] /\ value' = Nominal
        /\ \A s \in Sensor : store'[s].val = Nominal[s] /\ store'[s].ts = clock
    BY <1>1, <2>1, ReadingsFilled DEF Seed, Lives
  <2>3. Filled'
    BY <2>1, <2>2 DEF Filled, Band
  <2>4. Lag'
    BY <2>1, <2>2, BandAssumption DEF Lag
  <2>5. TypeOK' /\ Lives' /\ owner' # "constructing"
    BY <1>1, <2>2 DEF Seed, TypeOK, Lives, Band
  <2>. QED
    BY <2>3, <2>4, <2>5
<1>2. CASE Spawn \/ Stop \/ Join \/ Free
  BY <1>2 DEF Spawn, Stop, Join, Joinable, Free, TypeOK, Lives, Filled, Bare, Lag, Band
<1>3. CASE Collect \/ Wake \/ Timeout
  BY <1>3 DEF Collect, Wake, Timeout, TypeOK, Lives, Filled, Bare, Lag, Band
<1>4. CASE Draw
  <2>1. /\ owner # "constructing" /\ owner' = owner /\ UNCHANGED store
        /\ \A s \in Sensor : store[s].val = value[s]
        /\ \A s \in Sensor : value[s] \in Band(s)
    BY <1>4 DEF Draw, Lives, Lag, TypeOK
  <2>2. value' \in [Sensor -> UNION {Moves(s) : s \in Sensor}]
        /\ \A s \in Sensor : value'[s] \in Moves(s)
    BY <1>4 DEF Draw
  <2>3. \A s \in Sensor : /\ value'[s] \in Int /\ value'[s] \in Band(s)
                          /\ value'[s] - value[s] \in (-StepOf[s])..StepOf[s]
    BY <2>1, <2>2, MovesBounded
  <2>4. value' \in [Sensor -> Int]
    BY <2>2, <2>3
  <2>5. TypeOK' /\ Lives'
    BY <1>4, <2>3, <2>4 DEF Draw, TypeOK, Lives, Band
  <2>6. Filled' /\ Lag'
    BY <1>4, <2>1, <2>3 DEF Draw, Filled, Lag, Band
  <2>. QED
    BY <2>1, <2>5, <2>6
<1>5. CASE Commit
  <2>1. /\ value \in [Sensor -> Int] /\ now \in 0..MaxClock
        /\ \A s \in Sensor : value[s] \in Band(s)
    BY DEF TypeOK
  <2>2. /\ store' \in [Sensor -> Reading] /\ value' = value
        /\ \A s \in Sensor : store'[s].val = value[s] /\ store'[s].ts = now
    BY <1>5, <2>1, ReadingsFilled DEF Commit, Tick
  <2>3. Filled'
    BY <2>1, <2>2 DEF Filled, Band
  <2>4. Lag'
    BY <1>5, <2>1, <2>2, BandAssumption DEF Commit, Lag
  <2>5. TypeOK' /\ Lives' /\ owner' # "constructing"
    BY <1>5, <2>2 DEF Commit, TypeOK, Lives, Band
  <2>. QED
    BY <2>3, <2>4, <2>5
<1>6. CASE Advance
  BY <1>6, ClockAssumption DEF Advance, TypeOK, Lives, Filled, Bare, Lag, Band
<1>7. CASE UNCHANGED vars
  BY <1>7 DEF vars, TypeOK, Lives, Filled, Bare, Lag, Band
<1>. QED
  BY <1>1, <1>2, <1>3, <1>4, <1>5, <1>6, <1>7
     DEF Next, Construct, Destroy, Run, Ended

LEMMA Invariance == Spec => []IInv
BY InitIInv, StepIInv, PTL DEF Spec

\* Every walk stays inside its band.
THEOREM SensorsTyped == Spec => []TypeOK
BY Invariance, PTL DEF IInv

\* A reader finds the sensors of one tick, whatever the number of sensors.
THEOREM ReadersSeeOneTick == Spec => []OneTick
<1>1. IInv => OneTick
  BY NoLeafNoReading DEF IInv, Filled, OneTick
<1>. QED
  BY <1>1, Invariance, PTL

\* No tick is committed to a store that is gone.
THEOREM StoreOutlivesThread == Spec => []NoCommitAfterFree
<1>1. IInv => NoCommitAfterFree
  BY DEF IInv, Lives, NoCommitAfterFree
<1>. QED
  BY <1>1, Invariance, PTL

\* And no sensor moves by more than its step from one content to the next, the
\* clamp notwithstanding.
THEOREM SensorsNeverJump == Spec => NoJumps
<1> DEFINE Small(s) == store'[s].val - store[s].val \in (-StepOf[s])..StepOf[s]
<1>1. IInv /\ [Next]_vars =>
        [\A s \in Sensor : store[s] # NoLeaf => Small(s)]_vars
  <2> SUFFICES ASSUME IInv, Next, NEW s \in Sensor, store[s] # NoLeaf PROVE Small(s)
    OBVIOUS
  <2>1. owner # "constructing"
    BY DEF IInv, Bare
  <2>2. /\ StepOf[s] \in Nat /\ store[s].val \in Int /\ value[s] - store[s].val \in (-StepOf[s])..StepOf[s]
    BY <2>1, BandAssumption DEF IInv, Filled, Lag, Reading
  <2>3. CASE Commit
    BY <2>2, <2>3 DEF Commit, Tick, Readings
  <2>4. CASE UNCHANGED store
    BY <2>2, <2>4
  <2>5. Commit \/ Seed \/ UNCHANGED store
    BY DEF Next, Construct, Stop, Destroy, Run, Advance, Ended, Spawn, Join, Free,
           Collect, Draw, Wake, Timeout, vars
  <2>. QED
    BY <2>1, <2>3, <2>4, <2>5 DEF Seed
<1>. QED
  BY <1>1, Invariance, PTL DEF Spec, NoJumps
-----------------------------------------------------------------------------
(* The process                                                               *)

\* The stages of main and what each leaves behind.
Stages ==
  /\ main \in {"options", "build", "sensors", "system", "start", "serving", "failed", "ended"}
  /\ main \in {"options", "build"} => owner = "constructing"
  /\ main = "sensors" => owner \in {"constructing", "seeded"}
  /\ main \in {"system", "start", "serving"} => owner = "serving"
  /\ main \in {"start", "serving"} => configured
  /\ main = "failed" => owner \in {"serving", "joining", "joined", "gone"}
  /\ main = "ended" => owner \in {"constructing", "gone"}

\* The options read so far, and the last of each kind among them.
Upto(o, n) == {i \in 1..n : given[i].opt = o}

Keeps(o) ==
  \/ Upto(o, read) = {} /\ auth[o] = ""
  \/ \E i \in Upto(o, read) : /\ \A j \in Upto(o, read) : j <= i
                              /\ auth[o] = given[i].arg

Options ==
  /\ given \in Line /\ read \in 0..Len(given)
  /\ auth \in [Kept -> Word] /\ \A o \in Kept : Keeps(o)
  /\ insecure => \E i \in DOMAIN given : given[i].opt = "f"

\* The credentials that were chosen are those of all options.
Chosen ==
  /\ main \notin {"options", "ended"} => read = Len(given)
  /\ main \in {"sensors", "system", "start", "serving", "failed"} =>
       cred = Credentials /\ cred # "none" /\ ~Unreadable
  /\ cred \in {"none", "mutual", "userpass", "insecure"}
  /\ insecure \in BOOLEAN /\ configured \in BOOLEAN
  /\ code \in {-1, 0, 1} /\ (code # -1 <=> main = "ended")

\* Every step of the process is one of the provider or leaves it alone.
LEMMA StepOfProvider == [ServerNext]_<<vars, mainVars>> => [Next]_vars
<1> SUFFICES ASSUME [ServerNext]_<<vars, mainVars>> PROVE [Next]_vars
  OBVIOUS
<1>1. CASE Option
  BY <1>1 DEF Option
<1>2. CASE OptionsRead \/ Build \/ System \/ Start
  BY <1>2 DEF OptionsRead, Build, System, Start
<1>3. CASE Sensors
  BY <1>3 DEF Sensors, Next, Construct
<1>4. CASE Destroying
  BY <1>4 DEF Destroying, Next
<1>5. CASE Thread \/ Clock
  BY <1>5 DEF Thread, Clock, Next
<1>6. CASE Over \/ UNCHANGED <<vars, mainVars>>
  BY <1>6 DEF Over
<1>. QED
  BY <1>1, <1>2, <1>3, <1>4, <1>5, <1>6 DEF ServerNext, Main

\* The process implements the provider's specification.
THEOREM ServerRefinesSimulator == ServerSpec => Spec
<1>1. ServerInit => Init
  BY DEF ServerInit
<1>. QED
  BY <1>1, StepOfProvider, PTL DEF ServerSpec, Spec

LEMMA InitStages == ServerInit => Stages
BY DEF ServerInit, Init, Stages

LEMMA StepStages == Stages /\ [ServerNext]_<<vars, mainVars>> => Stages'
<1> SUFFICES ASSUME Stages, [ServerNext]_<<vars, mainVars>> PROVE Stages'
  OBVIOUS
<1>1. CASE Option
  BY <1>1 DEF Option, Stages, Exit, vars
<1>2. CASE OptionsRead
  BY <1>2 DEF OptionsRead, After, Stages, vars
<1>3. CASE Build
  BY <1>3 DEF Build, After, Exit, Stages, vars
<1>4. CASE Sensors
  BY <1>4 DEF Sensors, Seed, Spawn, After, Stages
<1>5. CASE System
  BY <1>5 DEF System, After, Stages, vars
<1>6. CASE Start
  BY <1>6 DEF Start, Stages, vars
<1>7. CASE Destroying
  BY <1>7 DEF Destroying, Stop, Destroy, Join, Free, Exit, Stages, mainVars, vars
<1>8. CASE Thread
  BY <1>8 DEF Thread, Run, Collect, Draw, Commit, Wake, Timeout, Stages, mainVars
<1>9. CASE Clock
  BY <1>9 DEF Clock, Advance, Stages, mainVars
<1>10. CASE Over \/ UNCHANGED <<vars, mainVars>>
  BY <1>10 DEF Over, Stages, mainVars, vars
<1>. QED
  BY <1>1, <1>2, <1>3, <1>4, <1>5, <1>6, <1>7, <1>8, <1>9, <1>10 DEF ServerNext, Main

LEMMA ServerInvariance == ServerSpec => [](Stages /\ IInv)
<1>1. Spec => []IInv
  BY Invariance
<1>. QED
  BY <1>1, ServerRefinesSimulator, InitStages, StepStages, PTL DEF ServerSpec

\* Readers of the server see the sensors of one tick, from the seeding on.
THEOREM ServerSeesOneTick == ServerSpec => []OneTick
BY ServerRefinesSimulator, ReadersSeeOneTick, PTL

\* A server that accepts RPCs has all its leaves.
THEOREM NoClientMeetsAColdStore == ServerSpec => []NoColdStart
<1>1. Stages /\ IInv => NoColdStart
  BY NoLeafNoReading DEF Stages, IInv, Filled, NoColdStart
<1>. QED
  BY <1>1, ServerInvariance, PTL

\* The process never ends, by exit() or by returning, under a running simulator.
THEOREM NoThreadOutlivesMain == ServerSpec => []NoExitUnderThread
<1>1. Stages /\ IInv => NoExitUnderThread
  BY DEF Stages, IInv, Lives, NoExitUnderThread
<1>. QED
  BY <1>1, ServerInvariance, PTL

LEMMA InitOptions == ServerInit => Options /\ Chosen
<1> SUFFICES ASSUME ServerInit PROVE Options /\ Chosen
  OBVIOUS
<1>1. given \in Line /\ read = 0
  BY DEF ServerInit
<1>2. given \in Seq(OptionArg)
  BY <1>1, LineAssumption
<1>3. Len(given) \in Nat
  BY <1>2
<1>4. Options
  <2>1. read \in 0..Len(given)
    BY <1>1, <1>3
  <2>2. auth \in [Kept -> Word] /\ ~insecure
    BY DEF ServerInit, Word
  <2>3. ASSUME NEW o \in Kept PROVE Keeps(o)
    <3>1. auth[o] = ""
      BY DEF ServerInit
    <3>2. 1..read = {}
      BY <1>1
    <3>. QED
      BY <3>1, <3>2 DEF Keeps, Upto
  <2>. QED
    BY <1>1, <2>1, <2>2, <2>3 DEF Options
<1>5. Chosen
  BY DEF ServerInit, Chosen
<1>. QED
  BY <1>4, <1>5

\* Reading an option keeps the last argument of its kind.
LEMMA OptionKeeps == Options /\ Option => Options'
<1> SUFFICES ASSUME Options, Option PROVE Options'
  OBVIOUS
<1> DEFINE o == given[read + 1]
<1>1. /\ given \in Seq(OptionArg) /\ read \in Nat /\ read + 1 \in 1..Len(given)
      /\ Len(given) \in Nat /\ DOMAIN given = 1..Len(given)
      /\ o \in OptionArg
  BY LineAssumption DEF Options, Option
<1>2. /\ given' = given /\ read' = read + 1
      /\ IF o.opt \in Kept THEN auth' = Set(o) ELSE auth' = auth
      /\ insecure' => insecure \/ o.opt = "f"
  BY <1>1 DEF Option, Kept, vars
<1>3. o.opt \in Kept => o.arg \in Word
  BY <1>1 DEF OptionArg, Kept
<1>4. auth' \in [Kept -> Word]
  BY <1>2, <1>3 DEF Options, Set
<1>5. ASSUME NEW q \in Kept PROVE Keeps(q)'
  <2>1. CASE o.opt = q
    <3>1. auth'[q] = o.arg
      BY <1>2, <2>1 DEF Set, Options
    <3>2. read + 1 \in Upto(q, read)'
      BY <1>1, <1>2, <2>1 DEF Upto
    <3>3. \A j \in Upto(q, read)' : j <= read + 1
      BY <1>1, <1>2 DEF Upto
    <3>4. given'[read + 1].arg = o.arg
      BY <1>2
    <3>. QED
      BY <3>1, <3>2, <3>3, <3>4 DEF Keeps
  <2>2. CASE o.opt # q
    <3>1. auth'[q] = auth[q]
      BY <1>2, <2>2 DEF Set, Options
    <3>2. Upto(q, read)' = Upto(q, read)
      BY <1>1, <1>2, <2>2 DEF Upto
    <3>. QED
      BY <1>2, <3>1, <3>2 DEF Keeps, Options
  <2>. QED
    BY <2>1, <2>2
<1>6. insecure' => \E i \in DOMAIN given : given[i].opt = "f"
  BY <1>1, <1>2 DEF Options
<1>. QED
  BY <1>1, <1>2, <1>4, <1>5, <1>6 DEF Options

LEMMA StepOptions ==
  Options /\ Chosen /\ [ServerNext]_<<vars, mainVars>> => Options' /\ Chosen'
<1> SUFFICES ASSUME Options, Chosen, [ServerNext]_<<vars, mainVars>>
             PROVE  Options' /\ Chosen'
  OBVIOUS
<1>1. CASE Option
  <2>1. main = "options" /\ code = -1 /\ UNCHANGED <<cred, configured>>
    BY <1>1 DEF Option, Chosen
  <2>2. \/ main' = "ended" /\ code' \in {0, 1}
        \/ UNCHANGED <<main, code>>
    BY <1>1 DEF Option, Exit
  <2>3. insecure' \in BOOLEAN
    BY <1>1 DEF Option, Chosen
  <2>4. Chosen'
    BY <2>1, <2>2, <2>3 DEF Chosen
  <2>. QED
    BY <1>1, <2>4, OptionKeeps
<1>2. ASSUME UNCHANGED <<given, read, auth, insecure>>
      PROVE  Options' /\ Credentials' = Credentials /\ Unreadable' = Unreadable
  BY <1>2 DEF Options, Keeps, Upto, Credentials, Unreadable, Pair, Neither
<1>3. CASE OptionsRead
  BY <1>2, <1>3 DEF OptionsRead, After, Chosen
<1>4. CASE Build
  <2>1. Options' /\ Credentials' = Credentials /\ Unreadable' = Unreadable
    BY <1>2, <1>4 DEF Build
  <2>2. /\ main = "build" /\ read = Len(given) /\ code = -1
        /\ read' = read /\ given' = given /\ insecure' = insecure /\ configured' = configured
    BY <1>4 DEF Build, Chosen
  <2>3. Credentials \in {"none", "mutual", "userpass", "insecure"}
    BY DEF Credentials
  <2>4. CASE Credentials = "none" \/ Unreadable
    <3>1. main' = "ended" /\ code' = 1 /\ cred' = cred
      BY <1>4, <2>4 DEF Build, Exit
    <3>. QED
      BY <2>1, <2>2, <3>1 DEF Chosen
  <2>5. CASE ~(Credentials = "none" \/ Unreadable)
    <3>1. main' = "sensors" /\ code' = code /\ cred' = Credentials
      BY <1>4, <2>5, <2>2 DEF Build, After
    <3>. QED
      BY <2>1, <2>2, <2>3, <2>5, <3>1 DEF Chosen
  <2>. QED
    BY <2>4, <2>5
<1>5. CASE Sensors
  BY <1>2, <1>5 DEF Sensors, After, Chosen
<1>6. CASE System
  BY <1>2, <1>6 DEF System, After, Chosen
<1>7. CASE Start
  BY <1>2, <1>7 DEF Start, Chosen
<1>8. CASE Destroying
  <2>1. UNCHANGED mainVars \/ (main' = "ended" /\ code' = 0
                               /\ UNCHANGED <<given, read, auth, insecure, cred, configured>>)
    BY <1>8 DEF Destroying, Exit
  <2>2. Options' /\ Credentials' = Credentials /\ Unreadable' = Unreadable
    BY <1>2, <2>1 DEF mainVars
  <2>3. CASE UNCHANGED mainVars
    BY <2>2, <2>3 DEF Chosen, mainVars
  <2>4. CASE /\ main' = "ended" /\ code' = 0
             /\ UNCHANGED <<given, read, auth, insecure, cred, configured>>
    BY <2>2, <2>4 DEF Chosen
  <2>. QED
    BY <2>1, <2>3, <2>4
<1>9. CASE Thread \/ Clock \/ Over \/ UNCHANGED <<vars, mainVars>>
  <2>1. UNCHANGED mainVars
    BY <1>9 DEF Thread, Clock, Over
  <2>2. Options' /\ Credentials' = Credentials /\ Unreadable' = Unreadable
    BY <1>2, <2>1 DEF mainVars
  <2>. QED
    BY <2>1, <2>2 DEF mainVars, Chosen
<1>. QED
  BY <1>1, <1>3, <1>4, <1>5, <1>6, <1>7, <1>8, <1>9 DEF ServerNext, Main

LEMMA OptionsInvariance == ServerSpec => [](Options /\ Chosen)
BY InitOptions, StepOptions, PTL DEF ServerSpec

\* The process is well typed, and has credentials once it has chosen them.
THEOREM ServerTypes == ServerSpec => []ServerTypeOK
<1>1. Stages /\ IInv /\ Options /\ Chosen => ServerTypeOK
  BY DEF Stages, IInv, Options, Chosen, ServerTypeOK
<1>. QED
  BY <1>1, ServerInvariance, OptionsInvariance, PTL

\* The order of the options does not matter, only the last of each kind does.
THEOREM CredentialsFollow == ServerSpec => []CredentialsAsGiven
<1>1. ASSUME Options, read = Len(given), NEW o \in Kept
      PROVE  auth[o] = LastGiven(o)
  <2> DEFINE at == {i \in DOMAIN given : given[i].opt = o}
  <2>1. given \in Seq(OptionArg) /\ DOMAIN given = 1..Len(given) /\ Len(given) \in Nat
    BY <1>1, LineAssumption DEF Options
  <2>2. Upto(o, read) = at
    BY <1>1, <2>1 DEF Upto
  <2>3. CASE at = {} /\ auth[o] = ""
    BY <2>3 DEF LastGiven
  <2>4. CASE \E i \in at : (\A j \in at : j <= i) /\ auth[o] = given[i].arg
    <3>1. PICK i \in at : (\A j \in at : j <= i) /\ auth[o] = given[i].arg
      BY <2>4
    <3>2. ASSUME NEW m \in at, \A j \in at : j <= m PROVE m = i
      <4>1. m <= i /\ i <= m /\ m \in Nat /\ i \in Nat
        BY <2>1, <3>1, <3>2
      <4>. QED
        BY <4>1
    <3>3. (CHOOSE m \in at : \A j \in at : j <= m) = i
      BY <3>1, <3>2
    <3>. QED
      BY <3>1, <3>3 DEF LastGiven
  <2>. QED
    BY <1>1, <2>2, <2>3, <2>4 DEF Options, Keeps
<1>2. Options /\ Chosen => CredentialsAsGiven
  <2> SUFFICES ASSUME Options, Chosen, main = "serving" PROVE CredentialsAsGiven
    BY DEF CredentialsAsGiven
  <2>1. /\ auth["k"] = LastGiven("k") /\ auth["c"] = LastGiven("c")
        /\ auth["r"] = LastGiven("r") /\ auth["u"] = LastGiven("u")
        /\ auth["p"] = LastGiven("p")
    BY <1>1 DEF Chosen, Kept
  <2>2. cred = Credentials /\ cred # "none" /\ ~Unreadable
    BY DEF Chosen
  <2>. QED
    BY <2>1, <2>2 DEF CredentialsAsGiven, Credentials, Unreadable, Pair, Neither, Options
<1>. QED
  BY <1>2, OptionsInvariance, PTL
=============================================================================
