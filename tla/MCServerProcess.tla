-------------------------- MODULE MCServerProcess --------------------------
(* Two rows of SENSORS: the output voltage in units of 0.02 V, whose band   *)
(* is no multiple of its step, and the static capacity in watts; and the    *)
(* command lines of up to three options that start no server, with some     *)
(* longer ones that do.                                                     *)
EXTENDS ServerProcess, TLC

LOCAL INSTANCE SequencesExt

CONSTANTS volt, cap

MCNominal == volt :> 600 @@ cap :> 300
MCStepOf  == volt :> 5   @@ cap :> 0
MCLo      == volt :> 594 @@ cap :> 300
MCHi      == volt :> 606 @@ cap :> 300

O(opt, arg) == [opt |-> opt, arg |-> arg]

k == O("k", "file")
c == O("c", "file")
u == O("u", "word")
p == O("p", "word")
f == O("f", "")

\* Lines with which the server starts,
Served == { <<f>>, <<c, k>>, <<p, k, O("u", ""), u, c>>, <<k, u, O("c", "missing"), c, O("u", ""), f>>,
            <<O("k", ""), u, p, f, k>> }

\* and lines of three options with which it does not.
Refused == {l \in SeqOf({k, c, u, O("k", "missing"), O("r", "missing"), O("l", 9), O("l", 4),
                         O("h", ""), O("?", ""), O("b", "")}, 3) :
              ~(k \in {l[i] : i \in DOMAIN l} /\ c \in {l[i] : i \in DOMAIN l})}

MCLine == Served \cup Refused \cup {<<k, c, O("k", "missing"), f>>, <<k, c, O("r", "missing"), u, p>>}
=============================================================================
