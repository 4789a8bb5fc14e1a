--------------------------- MODULE ServerProcess ---------------------------
(***************************************************************************)
(* main.cpp and AuthBuilder (security/authentication.cpp): the process from*)
(* its command line to a server that listens or to its exit.  RunServer    *)
(* constructs the two providers, the first of which starts the simulator's *)
(* thread (Simulator), and then the server; when that does not start, its  *)
(* locals are destroyed and main returns.  A server that listens waits for *)
(* ever.                                                                   *)
(***************************************************************************)
EXTENDS Simulator, Sequences

CONSTANT Line   \* the command lines: sequences of options with an argument

\* Options that AuthBuilder keeps the argument of: key, certificate and root
\* certificate are paths of files, which are there ("file") or not ("missing").
Kept == {"k", "c", "r", "u", "p"}

Word == {"", "file", "missing", "word"}

Level == 0..4   \* -l takes one of these

OptionArg == [opt : Kept \cup {"h", "?", "f", "b"}, arg : Word] \cup [opt : {"l"}, arg : Nat]

ASSUME LineAssumption == Line \subseteq Seq(OptionArg)

VARIABLES
  main,         \* where the process is
  given,        \* its command line
  read,         \* how many of the options getopt_long has returned
  auth,         \* auth[o]: what AuthBuilder keeps for option o
  insecure,
  cred,         \* the credentials the server is built with
  configured,   \* the system configuration provider has its leaves
  code          \* the exit code, -1 until there is one

mainVars == <<main, given, read, auth, insecure, cred, configured, code>>

ServerTypeOK ==
  /\ TypeOK
  /\ main \in {"options", "build", "sensors", "system", "start", "serving", "failed", "ended"}
  /\ given \in Line /\ read \in 0..Len(given)
  /\ auth \in [Kept -> Word] /\ insecure \in BOOLEAN
  /\ cred \in {"none", "mutual", "userpass", "insecure"}
  /\ main \in {"sensors", "system", "start", "serving", "failed"} => cred # "none"
  /\ configured \in BOOLEAN
  /\ code \in {-1, 0, 1} /\ (code # -1 <=> main = "ended")

ServerInit ==
  /\ Init
  /\ main = "options" /\ given \in Line /\ read = 0
  /\ auth = [o \in Kept |-> ""] /\ insecure = FALSE
  /\ cred = "none" /\ configured = FALSE /\ code = -1

Exit(n) == main' = "ended" /\ code' = n

\* A mutant of After: the credentials are built once the providers are there.
AfterProviders(m) ==
  CASE m = "options" -> "sensors" [] m = "build" -> "start"
    [] m = "sensors" -> "system" [] m = "system" -> "build"

\* A mutant of After: the server listens before it has its configuration.
AfterHasty(m) ==
  CASE m = "options" -> "build" [] m = "build" -> "sensors"
    [] m = "sensors" -> "start" [] m = "system" -> "start"

\* What main does after it has done m.
After(m) ==
  CASE m = "options" -> "build" [] m = "build" -> "sensors"
    [] m = "sensors" -> "system" [] m = "system" -> "start"
-----------------------------------------------------------------------------
\* A mutant of Set: the first argument counts.
SetFirst(o) == [auth EXCEPT ![o.opt] = IF @ = "" THEN o.arg ELSE @]

\* The setters: the last argument counts.
Set(o) == [auth EXCEPT ![o.opt] = o.arg]

Option ==
  LET o == given[read + 1] IN
  /\ main = "options" /\ read < Len(given)
  /\ read' = read + 1
  /\ \/ /\ o.opt \in {"h", "?"}
        /\ Exit(0) /\ UNCHANGED <<auth, insecure>>
     \/ /\ o.opt \in Kept
        /\ auth' = Set(o) /\ UNCHANGED <<main, code, insecure>>
     \/ /\ o.opt = "f"
        /\ insecure' = TRUE /\ UNCHANGED <<main, code, auth>>
     \/ /\ o.opt = "l" /\ o.arg \notin Level      \* Log::setLevel
        /\ Exit(1) /\ UNCHANGED <<auth, insecure>>
     \/ /\ o.opt = "b" \/ (o.opt = "l" /\ o.arg \in Level)
        /\ UNCHANGED <<main, code, auth, insecure>>
  /\ UNCHANGED <<given, cred, configured>> /\ UNCHANGED vars

OptionsRead ==
  /\ main = "options" /\ read = Len(given)
  /\ main' = After("options")
  /\ UNCHANGED <<given, read, auth, insecure, cred, configured, code>> /\ UNCHANGED vars

Pair(o, q) == auth[o] # "" /\ auth[q] # ""
Neither(o, q) == auth[o] = "" /\ auth[q] = ""

\* The method AuthBuilder::build settles on, and the files it has to read.
Credentials ==
  IF Pair("k", "c") /\ Neither("u", "p") THEN "mutual"
  ELSE IF Pair("k", "c") /\ Pair("u", "p") THEN "userpass"
  ELSE IF insecure THEN "insecure" ELSE "none"

Unreadable ==
  /\ Credentials \in {"mutual", "userpass"}
  /\ auth["k"] # "file" \/ auth["c"] # "file" \/ auth["r"] \notin {"", "file"}

Build ==
  /\ main = "build"
  /\ IF Credentials = "none" \/ Unreadable THEN Exit(1) /\ UNCHANGED cred
     ELSE cred' = Credentials /\ main' = After("build") /\ UNCHANGED code
  /\ UNCHANGED <<given, read, auth, insecure, configured>> /\ UNCHANGED vars
-----------------------------------------------------------------------------
(* RunServer                                                                 *)

\* The sensor provider: its leaves, then its thread.
Sensors ==
  /\ main = "sensors"
  /\ \/ Seed /\ UNCHANGED main
     \/ Spawn /\ main' = After("sensors")
  /\ UNCHANGED <<given, read, auth, insecure, cred, configured, code>>

System ==
  /\ main = "system"
  /\ configured' = TRUE
  /\ main' = After("system")
  /\ UNCHANGED <<given, read, auth, insecure, cred, code>> /\ UNCHANGED vars

\* BuildAndStart, which may find the address in use.
Start ==
  /\ main = "start"
  /\ main' \in {"serving", "failed"}
  /\ UNCHANGED <<given, read, auth, insecure, cred, configured, code>> /\ UNCHANGED vars

\* RunServer's locals are destroyed, with them the service, its registry and
\* the providers, and main returns.
Destroying ==
  /\ main = "failed"
  /\ \/ owner # "gone" /\ (Stop \/ Destroy) /\ UNCHANGED mainVars
     \/ /\ owner = "gone"
        /\ Exit(0) /\ UNCHANGED <<given, read, auth, insecure, cred, configured>>
        /\ UNCHANGED vars

Thread == main # "ended" /\ Run /\ UNCHANGED mainVars

Clock == main # "ended" /\ Advance /\ UNCHANGED mainVars

Over == main = "ended" /\ UNCHANGED <<vars, mainVars>>

Main == Option \/ OptionsRead \/ Build \/ Sensors \/ System \/ Start \/ Destroying

ServerNext == Main \/ Thread \/ Clock \/ Over

ServerSpec == ServerInit /\ [][ServerNext]_<<vars, mainVars>>

\* The main thread and the simulator's are scheduled.
FairServerSpec ==
  ServerSpec /\ WF_<<vars, mainVars>>(Main) /\ WF_<<vars, mainVars>>(Thread)
-----------------------------------------------------------------------------
(* Properties                                                                *)

\* A client never meets a server without its data: when RPCs are accepted both
\* providers have their leaves (store_backed_provider.hpp: the sensors are seeded
\* early, "avoiding a cold-start NOT_FOUND race").
NoColdStart ==
  main = "serving" => configured /\ \A s \in Sensor : store[s] # NoLeaf

\* Whatever makes the process end, exit() or a return, the simulator is not
\* running at the time.
NoExitUnderThread == main = "ended" => thread \in {"unborn", "exited"}

\* The last argument given for an option, "" when there is none.
LastGiven(o) ==
  LET at == {i \in DOMAIN given : given[i].opt = o}
  IN  IF at = {} THEN "" ELSE given[CHOOSE i \in at : \A j \in at : j <= i].arg

\* What a server listens with follows from the last arguments given, in whatever
\* order and however often: it is open only if -f was given; a password is asked
\* for over TLS alone, and exactly when a name and a password were given; and all
\* files of a TLS server could be read.  Whether -f wins over a key and a
\* certificate is left open: main.cpp's usage text says so, build() does not.
CredentialsAsGiven ==
  main = "serving" =>
    /\ cred = "insecure" => \E i \in DOMAIN given : given[i].opt = "f"
    /\ cred # "insecure" =>
         /\ LastGiven("k") = "file" /\ LastGiven("c") = "file"
         /\ LastGiven("r") \in {"", "file"}
         /\ \A o \in {"u", "p"} : LastGiven(o) # "" <=> cred = "userpass"

\* The process comes to serve or it ends: a start that fails does not hang in the
\* destructor that joins the simulator.
ServesOrEnds == <>(main \in {"serving", "ended"})
=============================================================================
