------------------------------ MODULE MCGetRpc ------------------------------
(* Two sensors of two components, a leaf of the system and a record of two  *)
(* leaves, under the real prefixes with names cut down to one letter or two *)
(* where one name must begin another.                                       *)
EXTENDS GetRpc, TLC

CONSTANTS k1, k2, k3, bad, v1, v2, h, a, ab

El(name)      == [name |-> name, key |-> NoKey]
At(name, key) == [name |-> name, key |-> key]

\* /components/component[name=..]/v, /system/h, /system/server[address=..]/config/..
MCComponent == <<El(<<"c", "s">>), El(<<"c">>)>>
MCSystem    == <<El(<<"s">>)>>
Sensor(k)   == <<El(<<"c", "s">>), At(<<"c">>, k), El(<<"v">>)>>
Host        == <<El(<<"s">>), El(<<"h">>)>>
Server(x)   == <<El(<<"s">>), At(<<"n">>, k3), El(<<"g">>), El(x)>>
Port        == Server(<<"a">>)
Protocol    == Server(<<"a", "b">>)

Sensors == {v1, v2}
Config  == {h, a, ab}

MCPathOf == v1 :> Sensor(k1) @@ v2 :> Sensor(k2) @@ h :> Host @@ a :> Port @@ ab :> Protocol

MCAtomicRoot   == <<Slash, Letter("s"), Slash, Letter("n")>>
MCAtomicMarker == <<Slash, Letter("g")>>

MCSchema == [l \in Sensors \cup Config |-> IF l \in Sensors THEN "Operational" ELSE "Config"]

MCRoute == << [prefix |-> MCComponent, leaves |-> Sensors, atomic |-> FALSE],
              [prefix |-> MCSystem, leaves |-> Config, atomic |-> TRUE] >>

\* What clients ask for: a leaf's path cut off somewhere, with all keys or none,
\* or with one element altered: its key, or its name made shorter or longer.
Cut(l) == {SubSeq(l, 1, n) : n \in 0..Len(l)}

Altered(e) == {[e EXCEPT !.key = k] : k \in {NoKey, k1, k3, bad} \ {e.key}}
                \cup {[e EXCEPT !.name = SubSeq(@, 1, Len(@) - 1)],
                      [e EXCEPT !.name = Append(@, "b")]}

Asked == LET cuts == UNION {Cut(MCPathOf[l]) : l \in DOMAIN MCPathOf} IN
         cuts \cup {Keyless(q) : q \in cuts}
              \cup UNION {UNION {{[q EXCEPT ![i] = e] : e \in Altered(q[i])} : i \in DOMAIN q} : q \in cuts}

P(elems) == [origin |-> <<>>, elem |-> elems]

Get(type, path) == [supported |-> TRUE, hasPrefix |-> FALSE, prefix |-> P(<<>>),
                    type |-> type, path |-> path]

\* The same with the first n elements moved into the prefix.
Split(r, n) == [r EXCEPT !.hasPrefix = TRUE,
                         !.prefix = P(SubSeq(r.path[1].elem, 1, n)),
                         !.path = <<P(SubSeq(r.path[1].elem, n + 1, Len(r.path[1].elem)))>>]

Single == {Get(t, <<P(q)>>) : t \in {"ALL", "Config", "State", "Operational"}, q \in Asked}

Several == {Get("ALL", <<P(q), P(l)>>) : q \in {Host, MCComponent, SubSeq(Port, 1, 3)},
                                         l \in {MCSystem, Sensor(k1), Protocol}}
             \cup {Get("Config", <<P(Host), P(MCComponent)>>), Get("ALL", <<>>)}

MCRequest ==
  Single \cup Several
    \cup UNION {{Split(Get("ALL", <<P(q)>>), n) : n \in 0..Min({2, Len(q)})} : q \in Asked}
    \cup {[Get("ALL", <<P(Host)>>) EXCEPT !.supported = FALSE],
          Get("ALL", <<[P(Host) EXCEPT !.origin = <<"o">>]>>)}

\* Requests of the runs that a claim of the documentation fails.
PrefixRequest == {Split(Get("ALL", <<P(MCPathOf[l])>>), 1) : l \in DOMAIN MCPathOf}
PartRequest   == {Get("ALL", <<P(q)>>) : q \in Cut(Port)}

\* A tick, a Set of the leaf or of the record, a delete in it.
MCBatch == {[set |-> s, remove |-> {}] : s \in {Sensors, {h}, {a, ab}}}
             \cup {[set |-> {}, remove |-> {ab}], [set |-> {a}, remove |-> {h}]}
=============================================================================
