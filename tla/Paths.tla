------------------------------- MODULE Paths -------------------------------
(***************************************************************************)
(* The two forms of a path and the tests on them: a gnmi::Path is a        *)
(* sequence of elements, an xpath the text that registry and stores work   *)
(* on (utils/utils.h, selects of leaf_store.cpp, matches of                *)
(* data_provider.hpp, atomicPrefix of system_config_provider.cpp).         *)
(*                                                                         *)
(* A text is a sequence of tokens.  Names keep their letters, since the    *)
(* tests compare texts and one name may be the beginning of another; a     *)
(* predicate [key=value] is one token, with its quotes or without.  An     *)
(* element has at most one predicate, as all that this server declares.    *)
(***************************************************************************)
EXTENDS Naturals, Sequences, SequencesExt

CONSTANTS
  Alphabet,     \* the letters of names
  Key,          \* predicates, such as name=PSC-0
  BadKey,       \* predicates with an empty key name
  NoKey,        \* the predicate of an element that has none
  AtomicRoot,   \* the text before the key of a list of atomic records
  AtomicMarker  \* the text of the element that bounds the record

\* The elements of a path, and all paths.
Elem == [name : Seq(Alphabet), key : Key \cup BadKey \cup {NoKey}]
Path == [origin : Seq(Alphabet), elem : Seq(Elem)]

Slash     == <<"slash", "">>
Letter(x) == <<"letter", x>>
Pred(k)   == <<"pred", k>>
Quoted(k) == <<"quoted", k>>

IsPred(t) == t[1] \in {"pred", "quoted"}

Token == {Slash} \cup {Letter(x) : x \in Alphabet}
           \cup UNION {{Pred(k), Quoted(k)} : k \in Key \cup BadKey}

ASSUME KeyAssumption == NoKey \notin Key \cup BadKey
\* The marker does not end within the text before the key.
ASSUME AtomicAssumption ==
  /\ AtomicRoot \in Seq(Token) /\ AtomicMarker \in Seq(Token)
  /\ \A i \in Len(AtomicMarker)..Len(AtomicRoot) :
       SubSeq(AtomicRoot, i - Len(AtomicMarker) + 1, i) # AtomicMarker

Letters(name) == [i \in DOMAIN name |-> Letter(name[i])]

\* The text of a Path; the origin precedes the first name.
gnmi_to_xpath(path) ==
  FlattenSeq([i \in DOMAIN path.elem |->
    LET e == path.elem[i] IN
    <<Slash>> \o (IF i = 1 THEN Letters(path.origin) ELSE <<>>)
      \o Letters(e.name) \o (IF e.key = NoKey THEN <<>> ELSE <<Quoted(e.key)>>)])

\* The part of a text from position i to the next slash, as an element.
ElemAt(text, i) ==
  LET next == SelectInSubSeq(text, i, Len(text), LAMBDA t : t = Slash)
      part == SubSeq(text, i, IF next = 0 THEN Len(text) ELSE next - 1)
      at   == SelectInSeq(part, IsPred)
      name == IF at = 0 THEN part ELSE SubSeq(part, 1, at - 1)
  IN  [name |-> [j \in DOMAIN name |-> name[j][2]],
       key  |-> IF at = 0 THEN NoKey ELSE part[at][2]]

\* The elements of a text, empty parts left out.
xpath_to_gnmi_path(text) ==
  FlattenSeq([i \in DOMAIN text |->
    IF text[i] # Slash /\ (i = 1 \/ text[i - 1] = Slash) THEN <<ElemAt(text, i)>> ELSE <<>>])

stripPathQuotes(text) ==
  [i \in DOMAIN text |-> IF IsPred(text[i]) THEN Pred(text[i][2]) ELSE text[i]]

stripKeys(text) ==
  FlattenSeq([i \in DOMAIN text |-> IF IsPred(text[i]) THEN <<>> ELSE <<text[i]>>])

\* A mutant of isPathPrefix: the text may go on in the middle of a name.
isTextPrefix(prefix, text) == IsPrefix(prefix, text)

\* Does prefix end at a segment boundary of the text it begins?
isPathPrefix(prefix, text) ==
  /\ IsPrefix(prefix, text)
  /\ \/ Len(text) = Len(prefix)
     \/ text[Len(prefix) + 1] = Slash
     \/ IsPred(text[Len(prefix) + 1])

\* A mutant of selects: keys always have to be given.
selectsExactly(query, leaf) == isPathPrefix(query, leaf)

\* A query without any predicate selects the leaves of all keys.
selects(query, leaf) ==
  \/ isPathPrefix(query, leaf)
  \/ /\ \A i \in DOMAIN query : ~IsPred(query[i])
     /\ isPathPrefix(query, stripKeys(leaf))

\* DataProviderRegistry::matches.
matches(xpath, prefix) == isPathPrefix(prefix, stripPathQuotes(xpath))

\* A path is well formed when no element and no key has an empty name; one
\* without elements is.
validateGnmiPath(path) ==
  \A i \in DOMAIN path.elem : path.elem[i].name # <<>> /\ path.elem[i].key \notin BadKey

\* A mutant of atomicPrefix: every leaf is taken for a record of its own.
atomicPrefixOfLeaf(xpath) ==
  IF IsPrefix(AtomicRoot, stripPathQuotes(xpath)) THEN stripPathQuotes(xpath) ELSE <<>>

\* SystemConfigProvider::atomicPrefix: the text of a record's keyed list entry
\* up to the first marker that ends an element; <<>> outside the records.
atomicPrefix(xpath) ==
  LET p    == stripPathQuotes(xpath)
      n    == Len(AtomicMarker)
      ends == {i \in n..Len(p) : /\ SubSeq(p, i - n + 1, i) = AtomicMarker
                                 /\ i = Len(p) \/ p[i + 1] = Slash}
  IN  IF IsPrefix(AtomicRoot, p) /\ Len(p) > Len(AtomicRoot)
           /\ IsPred(p[Len(AtomicRoot) + 1]) /\ ends # {}
        THEN SubSeq(p, 1, CHOOSE i \in ends : \A j \in ends : i <= j)
        ELSE <<>>
-----------------------------------------------------------------------------
(* The same on elements, for the properties.                                 *)

\* The elements a query stands for: the origin is part of the first name.
Elements(path) ==
  [i \in DOMAIN path.elem |->
     IF i = 1 THEN [path.elem[1] EXCEPT !.name = path.origin \o @] ELSE path.elem[i]]

\* Element by element, l lies at or below q, whose last key may be left out.
Under(q, l) ==
  /\ Len(q) <= Len(l)
  /\ \A i \in DOMAIN q : /\ q[i].name = l[i].name
                        /\ \/ q[i].key = l[i].key
                           \/ q[i].key = NoKey /\ i = Len(q)

Keyless(l) == [i \in DOMAIN l |-> [l[i] EXCEPT !.key = NoKey]]

\* A query selects what lies at or below it, and without any key the leaves of
\* all keys.
Below(q, l) == Under(q, l) \/ (q = Keyless(q) /\ Under(q, Keyless(l)))
=============================================================================
