------------------------------ MODULE MCSetRpc ------------------------------
(* Two sensors; of the system configuration a leaf under two spellings, a   *)
(* leaf, and an undeclared path; and a path nobody owns.                    *)
EXTENDS SetRpc, TLC

CONSTANTS s1, s2, host, hostq, zone, ghost, alien, sensors, system, v1, v2, h1, h2

MCPath     == {s1, s2, host, zone, ghost, alien}
MCSpelling == MCPath \cup {hostq}
MCCanon    == [x \in MCSpelling |-> IF x = hostq THEN host ELSE x]
MCRoute    == <<sensors, system>>
MCOwner    == s1 :> sensors @@ s2 :> sensors @@ host :> system @@ zone :> system
                @@ ghost :> system @@ alien :> NoProvider
MCSchema   == s1 :> "Operational" @@ s2 :> "Operational" @@ host :> "Config"
                @@ zone :> "Config"

Del(x)   == [kind |-> "Remove", xpath |-> x, val |-> v1, whole |-> TRUE]
Put(x, v) == [kind |-> "Set", xpath |-> x, val |-> v, whole |-> TRUE]
Ask(d, r, u) == [extension |-> FALSE, delete |-> d, replace |-> r, update |-> u]

\* A delete and a re-creation, a record of two leaves, a second entry that is
\* bad in each of the ways an entry can be, nothing at all, an extension.
MCRequest ==
  { Ask(<<Del(hostq)>>, <<Put(zone, v2)>>, <<Put(host, v2)>>),
    Ask(<<Del(zone)>>, <<>>, <<Put(host, v1), Put(hostq, v2)>>),
    Ask(<<>>, <<Put(zone, v1)>>, <<Put(s1, v1)>>),
    Ask(<<Del(host), Del(ghost)>>, <<>>, <<>>),
    Ask(<<>>, <<Put(host, v1)>>, <<Put(alien, v1)>>),
    Ask(<<>>, <<Put(host, v1)>>, <<[Put(zone, v1) EXCEPT !.whole = FALSE]>>),
    Ask(<<>>, <<>>, <<>>),
    [Ask(<<Del(host)>>, <<>>, <<>>) EXCEPT !.extension = TRUE] }

Threads == Permutations({h1, h2})
=============================================================================
