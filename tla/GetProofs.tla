----------------------------- MODULE GetProofs -----------------------------
(***************************************************************************)
(* Theorems about GetRpc: its types, that every path is read in turn from  *)
(* one content of the stores, and, through the lemmas about texts of       *)
(* PathsProofs, that the client is told what the elements of its paths     *)
(* select, with the status they deserve and records that are whole.        *)
(***************************************************************************)
EXTENDS GetRpc, PathsProofs

\* The groups of the leaves are those of the emitters.
LEMMA Groups == \A l \in Declared : GroupOf[l] \in Container \cup {<<>>}
BY DEF Container, GroupOf

Contents == [Declared -> E!Leaf \cup {NoLeaf}]

\* A path that is not at fault has a leaf, and then no Notification is empty,
\* not even the one that BuildFull sends for want of others.
LEMMA NothingEmpty ==
  ASSUME NEW snap, E!Present(snap) # {}
  PROVE  LET notes == {Wire(n) : n \in E!BuildFull(snap, Now)}
         IN  notes # {} /\ \A n \in notes : n.update # {}
<1>1. PICK l \in Declared : l \in E!Present(snap)
  BY DEF E!Present
<1>2. l \in E!Members(snap, GroupOf[l])
  BY <1>1 DEF E!Members
<1>3. E!BuildFull(snap, Now) # {}
  BY DEF E!BuildFull
<1>4. ASSUME NEW n \in E!BuildFull(snap, Now) PROVE DOMAIN n.update # {}
  <2>1. PICK g : n = E!FullNote(g, snap, Now) /\ E!Members(snap, g) # {}
    BY <1>1, <1>2, Groups DEF E!BuildFull
  <2>. QED
    BY <2>1 DEF E!FullNote, E!Note
<1>5. ASSUME NEW n \in E!BuildFull(snap, Now) PROVE Wire(n).update # {}
  BY <1>4 DEF Wire
<1>. QED
  BY <1>3, <1>5
-----------------------------------------------------------------------------
(* The types                                                                 *)

\* The possible answers to a path.
Answers == {{Wire(n) : n \in E!BuildFull(s, Now)} : s \in {t \in Contents : E!Present(t) # {}}}

Typed ==
  /\ store \in Contents /\ commits \in 0..MaxCommits /\ req \in Request
  /\ pc \in {"verify", "paths", "done"}
  /\ status \in {"running", "OK", "UNIMPLEMENTED", "INVALID_ARGUMENT", "NOT_FOUND"}
  /\ status = "running" <=> pc # "done"
  /\ response \in Seq(Answers)
  /\ Len(response) <= Len(req.path)
  /\ status = "OK" => Len(response) = Len(req.path)
  /\ during \in Seq(Contents) /\ Len(during) = commits + 1
  /\ during[Len(during)] = store

LEMMA InitTyped == Init => Typed
<1> SUFFICES ASSUME Init PROVE Typed
  OBVIOUS
<1>1. store \in Contents
  <2>1. 0 \in 0..MaxCommits /\ 1 \in 1..(MaxCommits + 1)
    BY BatchAssumption
  <2>. QED
    BY <2>1 DEF Init, Leaf, Contents, E!Leaf
<1>2. during \in Seq(Contents) /\ Len(during) = 1 /\ during[1] = store
  BY <1>1 DEF Init
<1>3. response \in Seq(Answers) /\ Len(response) = 0
  BY EmptySeq DEF Init
<1>4. Len(response) <= Len(req.path)
  BY <1>3, RequestAssumption DEF Init
<1>5. commits = 0 /\ 0 \in 0..MaxCommits
  BY BatchAssumption DEF Init
<1>. QED
  BY <1>1, <1>2, <1>3, <1>4, <1>5 DEF Init, Typed

\* The answer that the next path would get now.
LEMMA NextAnswer ==
  ASSUME Typed, NEW path, PathError(path) = "none"
  PROVE  LET snap == filterByDataType(Snapshot(Fullpath(path)))
         IN  snap \in Contents /\ {Wire(n) : n \in E!BuildFull(snap, Now)} \in Answers
<1> DEFINE snap == filterByDataType(Snapshot(Fullpath(path)))
<1>1. \A xpath : Snapshot(xpath) \in Contents
  BY DEF Typed, Snapshot, Contents
<1>2. snap \in Contents
  BY <1>1 DEF filterByDataType, Contents
<1>3. E!Present(snap) # {}
  BY DEF PathError
<1>. HIDE DEF snap
<1>4. {Wire(n) : n \in E!BuildFull(snap, Now)} \in Answers
  BY <1>2, <1>3 DEF Answers
<1>. QED
  BY <1>2, <1>4 DEF snap

LEMMA AnswerTyped ==
  ASSUME Typed, Answer
  PROVE  Typed'
<1>. DEFINE path == req.path[Len(response) + 1]
            snap == filterByDataType(Snapshot(Fullpath(path)))
            new == {Wire(n) : n \in E!BuildFull(snap, Now)}
<1>1. UNCHANGED <<store, commits, req, during>> /\ pc = "paths" /\ Len(response) < Len(req.path)
  BY DEF Answer
<1>2. Answers' = Answers
  BY <1>1 DEF Answers, Wire
<1>3. CASE PathError(path) # "none" /\ End(PathError(path)) /\ UNCHANGED response
  <2>1. PathError(path) \in {"INVALID_ARGUMENT", "UNIMPLEMENTED", "NOT_FOUND"}
    BY <1>3 DEF PathError
  <2>. QED
    BY <1>1, <1>2, <1>3, <2>1 DEF End, Typed
<1>4. CASE PathError(path) = "none" /\ response' = Append(response, new)
           /\ UNCHANGED <<pc, status>>
  <2>1. new \in Answers
    BY <1>4, NextAnswer
  <2>. HIDE DEF new
  <2>2. response' \in Seq(Answers) /\ Len(response') = Len(response) + 1
    BY <1>4, <2>1 DEF Typed
  <2>3. Len(response') <= Len(req.path)
    BY <1>1, <2>2, RequestAssumption DEF Typed
  <2>4. status = "running"
    BY <1>1 DEF Typed
  <2>. QED
    BY <1>1, <1>2, <1>4, <2>2, <2>3, <2>4 DEF Typed
<1>. QED
  BY <1>3, <1>4 DEF Answer

LEMMA CommitTyped ==
  ASSUME Typed, Commit
  PROVE  Typed' /\ Len(during') = Len(during) + 1
         /\ \A k \in DOMAIN during : k \in DOMAIN during' /\ during'[k] = during[k]
<1>1. UNCHANGED <<req, pc, response, status>> /\ Answers' = Answers
  BY DEF Commit, Answers, Wire
<1>2. commits' \in 0..MaxCommits /\ commits' = commits + 1
  BY BatchAssumption DEF Commit, Typed
<1>3. store' \in Contents
  <2>1. Leaf(commits') \in E!Leaf
    BY <1>2, BatchAssumption DEF Leaf, E!Leaf
  <2>. QED
    BY <2>1 DEF Commit, Typed, Contents
<1>4. /\ during' \in Seq(Contents) /\ Len(during') = Len(during) + 1
      /\ during'[Len(during')] = store'
      /\ \A k \in DOMAIN during : k \in DOMAIN during' /\ during'[k] = during[k]
  BY <1>3 DEF Commit, Typed
<1>. QED
  BY <1>1, <1>2, <1>3, <1>4 DEF Typed

LEMMA StepTyped ==
  ASSUME Typed, [Next]_vars
  PROVE  Typed'
<1>1. CASE Verify \/ Finish \/ Ended \/ UNCHANGED vars
  <2>1. UNCHANGED <<store, commits, req, response, during>> /\ Answers' = Answers
    BY <1>1 DEF Verify, Finish, Ended, vars, Answers, Wire
  <2>. QED
    BY <1>1, <2>1 DEF Verify, Finish, Ended, End, vars, Typed
<1>. QED
  BY <1>1, AnswerTyped, CommitTyped DEF Next

LEMMA TypedInvariance == Spec => []Typed
BY InitTyped, StepTyped, PTL DEF Spec

\* A Get that ends with OK has answered all its paths, and no Notification of
\* any answer is empty, for any leaves, texts, requests and histories.
THEOREM TypeCorrect == Spec => []TypeOK
<1>1. Typed => TypeOK
  <2> SUFFICES ASSUME Typed PROVE TypeOK
    OBVIOUS
  <2>1. req.type \in LeafType \cup {"ALL"} /\ req.supported \in BOOLEAN
    BY RequestAssumption DEF Typed
  <2>2. ASSUME NEW i \in DOMAIN response
        PROVE  response[i] # {} /\ \A n \in response[i] : n.update # {}
    <3>1. response[i] \in Answers
      BY DEF Typed
    <3>. QED
      BY <3>1, NothingEmpty DEF Answers
  <2>. QED
    BY <2>1, <2>2 DEF Typed, Contents, TypeOK
<1>. QED
  BY <1>1, TypedInvariance, PTL
-----------------------------------------------------------------------------
(* The order of the reads                                                    *)

\* What Get would read for a path if the stores had the content s.
ReadFrom(path, s) ==
  [l \in Declared |->
     IF /\ matchesType(Schema[l])
        /\ l \in UNION {Route[i].leaves : i \in Owners(Fullpath(path))}
        /\ selects(stripPathQuotes(Fullpath(path)), TextOf[l])
     THEN s[l] ELSE NoLeaf]

AnswerFrom(path, s) == {Wire(n) : n \in E!BuildFull(ReadFrom(path, s), Now)}

\* Why the path would fail.
PathErrorFrom(path, s) ==
  IF ~validateGnmiPath(path) THEN "INVALID_ARGUMENT"
  ELSE IF ~Routed(Fullpath(path)) THEN "UNIMPLEMENTED"
  ELSE IF E!Present(ReadFrom(path, s)) = {} THEN "NOT_FOUND"
  ELSE "none"

\* The call has not failed, or not at a path; or at the next path, for a fault it
\* had in one content of the stores, k, or later.
FailedAfter(k) ==
  \/ status \in {"running", "OK"} \/ ~req.supported
  \/ /\ Len(response) < Len(req.path)
     /\ \E n \in DOMAIN during : /\ k <= n
                                /\ PathErrorFrom(req.path[Len(response) + 1], during[n]) = status

\* The answers so far were read in turn, each from one content of the stores in
\* which its path had no fault, and a fault that ended the call after them.
ReadInTurn ==
  \E at \in [DOMAIN response -> DOMAIN during] :
    /\ \A i, j \in DOMAIN response : i <= j => at[i] <= at[j]
    /\ \A i \in DOMAIN response : /\ response[i] = AnswerFrom(req.path[i], during[at[i]])
                                 /\ PathErrorFrom(req.path[i], during[at[i]]) = "none"
    /\ FailedAfter(IF response = <<>> THEN 1 ELSE at[Len(response)])

LEMMA SameAnswers ==
  ASSUME req' = req
  PROVE  \A path, s : /\ AnswerFrom(path, s)' = AnswerFrom(path, s)
                      /\ PathErrorFrom(path, s)' = PathErrorFrom(path, s)
BY DEF AnswerFrom, PathErrorFrom, Routed, ReadFrom, matchesType, Fullpath, Owners, Wire

LEMMA ReadNow ==
  ASSUME NEW path
  PROVE  /\ ReadFrom(path, store) = filterByDataType(Snapshot(Fullpath(path)))
         /\ PathErrorFrom(path, store) = PathError(path)
<1>1. ReadFrom(path, store) = filterByDataType(Snapshot(Fullpath(path)))
  BY DEF ReadFrom, filterByDataType, Snapshot, matchesType
<1>. QED
  BY <1>1 DEF PathErrorFrom, PathError

\* The next answer is read from the content of the stores at the time.
LEMMA AnswerInTurn ==
  ASSUME Typed, ReadInTurn, Answer
  PROVE  ReadInTurn'
<1>. DEFINE path == req.path[Len(response) + 1]
            snap == filterByDataType(Snapshot(Fullpath(path)))
            new == {Wire(n) : n \in E!BuildFull(snap, Now)}
            last == Len(during)
<1>1. /\ UNCHANGED <<store, req, during>> /\ Len(response) < Len(req.path) /\ pc = "paths"
      /\ \A q, s : /\ AnswerFrom(q, s)' = AnswerFrom(q, s)
                   /\ PathErrorFrom(q, s)' = PathErrorFrom(q, s)
  BY SameAnswers DEF Answer
<1>2. PICK at \in [DOMAIN response -> DOMAIN during] :
        /\ \A i, j \in DOMAIN response : i <= j => at[i] <= at[j]
        /\ \A i \in DOMAIN response : /\ response[i] = AnswerFrom(req.path[i], during[at[i]])
                                     /\ PathErrorFrom(req.path[i], during[at[i]]) = "none"
  BY DEF ReadInTurn
<1>3. last \in DOMAIN during /\ during[last] = store /\ (\A k \in DOMAIN during : k <= last)
      /\ DOMAIN during \subseteq Nat /\ 1 \in DOMAIN during
  BY BatchAssumption DEF Typed
<1>4. Len(response) \in Nat /\ DOMAIN response = 1..Len(response)
      /\ (response # <<>> => Len(response) \in DOMAIN response)
  BY DEF Typed
<1>5. PathErrorFrom(path, store) = PathError(path)
  BY ReadNow
<1>6. CASE End(PathError(path)) /\ UNCHANGED response
  <2>1. FailedAfter(IF response = <<>> THEN 1 ELSE at[Len(response)])'
    <3>1. (IF response = <<>> THEN 1 ELSE at[Len(response)]) <= last
      BY <1>2, <1>3, <1>4
    <3>2. last \in DOMAIN during' /\ PathErrorFrom(path, during[last])' = status'
      BY <1>1, <1>3, <1>5, <1>6 DEF End
    <3>. QED
      BY <1>1, <1>6, <3>1, <3>2 DEF FailedAfter
  <2>. QED
    BY <1>1, <1>2, <1>6, <2>1 DEF ReadInTurn
<1>7. CASE PathError(path) = "none" /\ response' = Append(response, new) /\ UNCHANGED <<pc, status>>
  <2>1. new \in Answers
    BY <1>7, NextAnswer
  <2>2. new = AnswerFrom(path, store)
    BY ReadNow DEF AnswerFrom
  <2>. HIDE DEF new
  <2>3. /\ DOMAIN response' = 1..(Len(response) + 1)
        /\ \A i \in 1..Len(response) : response'[i] = response[i]
        /\ response'[Len(response) + 1] = new
    BY <1>7, <2>1 DEF Typed
  <2>. DEFINE next == [i \in DOMAIN response' |-> IF i = Len(response) + 1 THEN last ELSE at[i]]
  <2>4. next \in [DOMAIN response' -> DOMAIN during]
    BY <1>2, <1>3, <1>4, <2>3
  <2>5. ASSUME NEW i \in DOMAIN response', NEW j \in DOMAIN response', i <= j
        PROVE  next[i] <= next[j]
    BY <1>2, <1>3, <1>4, <2>3, <2>5
  <2>6. ASSUME NEW i \in DOMAIN response'
        PROVE  /\ response'[i] = AnswerFrom(req.path[i], during[next[i]])
               /\ PathErrorFrom(req.path[i], during[next[i]]) = "none"
    BY <1>2, <1>3, <1>4, <1>5, <1>7, <2>2, <2>3
  <2>. HIDE DEF next
  <2>7. status' = "running"
    BY <1>1, <1>7 DEF Typed
  <2>. QED
    BY <1>1, <2>4, <2>5, <2>6, <2>7 DEF ReadInTurn, FailedAfter
<1>. QED
  BY <1>6, <1>7 DEF Answer

LEMMA OthersInTurn ==
  ASSUME Typed, ReadInTurn, [Next]_vars, ~Answer
  PROVE  ReadInTurn'
<1>1. UNCHANGED <<req, response>>
  BY DEF Next, Verify, Finish, Commit, Ended, vars
<1>2. \A k \in DOMAIN during : k \in DOMAIN during' /\ during'[k] = during[k]
  BY CommitTyped DEF Next, Verify, Finish, Ended, vars
<1>3. \/ UNCHANGED status
      \/ status' = "OK"
      \/ ~req.supported
  BY DEF Next, Verify, Finish, Commit, Ended, End, vars
<1>4. \A q, s : /\ AnswerFrom(q, s)' = AnswerFrom(q, s)
               /\ PathErrorFrom(q, s)' = PathErrorFrom(q, s)
  BY <1>1, SameAnswers
<1>5. ASSUME NEW k PROVE FailedAfter(k) => FailedAfter(k)'
  BY <1>1, <1>2, <1>3, <1>4 DEF FailedAfter
<1>6. PICK at \in [DOMAIN response -> DOMAIN during] :
        /\ \A i, j \in DOMAIN response : i <= j => at[i] <= at[j]
        /\ \A i \in DOMAIN response : /\ response[i] = AnswerFrom(req.path[i], during[at[i]])
                                     /\ PathErrorFrom(req.path[i], during[at[i]]) = "none"
        /\ FailedAfter(IF response = <<>> THEN 1 ELSE at[Len(response)])
  BY DEF ReadInTurn
<1>7. at \in [DOMAIN response' -> DOMAIN during']
  BY <1>1, <1>2
<1>8. FailedAfter(IF response = <<>> THEN 1 ELSE at[Len(response)])'
  BY <1>1, <1>5, <1>6
<1>9. ASSUME NEW i \in DOMAIN response
      PROVE  /\ (response[i] = AnswerFrom(req.path[i], during[at[i]]))'
             /\ (PathErrorFrom(req.path[i], during[at[i]]) = "none")'
  <2>1. at[i] \in DOMAIN during /\ during'[at[i]] = during[at[i]]
    BY <1>2, <1>6
  <2>. QED
    BY <1>1, <1>4, <1>6, <2>1
<1>10. (\A i, j \in DOMAIN response : i <= j => at[i] <= at[j])'
  BY <1>1, <1>6
<1>. QED
  BY <1>1, <1>7, <1>8, <1>9, <1>10 DEF ReadInTurn

\* Each path of a Get is answered from the content of the stores at one moment
\* of the call, and the paths in turn, for any stores, texts and requests,
\* whatever is committed in between; and what a call fails for is a fault that
\* its next path had at such a moment.
THEOREM AnswersInTurn == Spec => []ReadInTurn
<1>1. Init => ReadInTurn
  <2> SUFFICES ASSUME Init PROVE ReadInTurn
    OBVIOUS
  <2>1. DOMAIN response = {} /\ status = "running"
    BY DEF Init
  <2>2. [i \in {} |-> 1] \in [DOMAIN response -> DOMAIN during]
    BY <2>1
  <2>. QED
    BY <2>1, <2>2 DEF ReadInTurn, FailedAfter
<1>2. Typed /\ ReadInTurn /\ [Next]_vars => ReadInTurn'
  BY AnswerInTurn, OthersInTurn
<1>. QED
  BY <1>1, <1>2, TypedInvariance, PTL DEF Spec
-----------------------------------------------------------------------------
(* Texts and elements                                                        *)

LEMMA LeafTexts ==
  \A l \in Declared : PathOf[l] \in Seq(Elem) /\ TextOf[l] = Joined(PathOf[l])
<1>1. ASSUME NEW l \in Declared
      PROVE  PathOf[l] \in Seq(Elem) /\ TextOf[l] = Joined(PathOf[l])
  <2>1. PathOf[l] \in Seq(Elem)
    BY LeafAssumption
  <2>2. TextOf[l] = Text(PathOf[l])
    BY DEF TextOf
  <2>. QED
    BY <2>1, <2>2, PlainText DEF Text
<1>. QED
  BY <1>1

LEMMA PrefixTexts ==
  \A i \in DOMAIN Route : /\ Route[i].prefix \in Seq(Elem) /\ Route[i].prefix = Keyless(Route[i].prefix)
                          /\ Prefix[i] = Joined(Route[i].prefix)
<1>1. ASSUME NEW i \in DOMAIN Route
      PROVE  /\ Route[i].prefix \in Seq(Elem) /\ Route[i].prefix = Keyless(Route[i].prefix)
             /\ Prefix[i] = Joined(Route[i].prefix)
  <2>1. Route[i].prefix \in Seq(Elem) /\ Route[i].prefix = Keyless(Route[i].prefix)
    BY RouteAssumption
  <2>2. Prefix[i] = Text(Route[i].prefix)
    BY DEF Prefix
  <2>. QED
    BY <2>1, <2>2, PlainText DEF Text
<1>. QED
  BY <1>1

\* The elements that a path of the request asks for.
QueryOf(path) == (IF req.hasPrefix THEN Elements(req.prefix) ELSE <<>>) \o Elements(path)

LEMMA FullText ==
  ASSUME req \in Request, NEW path \in Path
  PROVE  /\ QueryOf(path) \in Seq(Elem)
         /\ stripPathQuotes(Fullpath(path)) = Joined(QueryOf(path))
<1>. DEFINE p == IF req.hasPrefix THEN Elements(req.prefix) ELSE <<>>
            t == IF req.hasPrefix THEN gnmi_to_xpath(req.prefix) ELSE <<>>
            q == Elements(path)
            u == gnmi_to_xpath(path)
<1>1. req.prefix \in Path
  BY RequestAssumption
<1>2. q \in Seq(Elem) /\ u \in Seq(Token) /\ stripPathQuotes(u) = Joined(q)
  BY ElementsType, TextOfPath
<1>3. p \in Seq(Elem) /\ t \in Seq(Token) /\ stripPathQuotes(t) = Joined(p)
  <2>1. CASE req.hasPrefix
    BY <1>1, <2>1, ElementsType, TextOfPath
  <2>2. CASE ~req.hasPrefix
    BY <2>2, EmptySeq, StripPlain, JoinedNone
  <2>. QED
    BY <2>1, <2>2
<1>4. Fullpath(path) = t \o u /\ QueryOf(path) = p \o q
  BY DEF Fullpath, QueryOf
<1>. HIDE DEF p, t, q, u
<1>5. stripPathQuotes(t \o u) = stripPathQuotes(t) \o stripPathQuotes(u)
  BY <1>2, <1>3, StripConcat
<1>6. Joined(p \o q) = Joined(p) \o Joined(q) /\ p \o q \in Seq(Elem)
  BY <1>2, <1>3, JoinedConcat, ConcatProperties
<1>. QED
  BY <1>2, <1>3, <1>4, <1>5, <1>6

LEMMA QueryIs ==
  ASSUME NEW i
  PROVE  Query(i) = QueryOf(req.path[i])
BY DEF Query, QueryOf

\* The owners of a query: it lies at or below their prefixes.
LEMMA OwnersUnder ==
  ASSUME req \in Request, NEW path \in Path
  PROVE  Owners(Fullpath(path)) = {i \in DOMAIN Route : Under(Route[i].prefix, QueryOf(path))}
<1>1. ASSUME NEW i \in DOMAIN Route
      PROVE  matches(Fullpath(path), Prefix[i]) <=> Under(Route[i].prefix, QueryOf(path))
  <2>1. Route[i].prefix \in Seq(Elem) /\ Prefix[i] = Joined(Route[i].prefix)
    BY PrefixTexts
  <2>2. QueryOf(path) \in Seq(Elem) /\ stripPathQuotes(Fullpath(path)) = Joined(QueryOf(path))
    BY FullText
  <2>. QED
    BY <2>1, <2>2, PrefixIsUnder DEF matches
<1>. QED
  BY <1>1 DEF Owners

\* A leaf that the query of a routed path selects is held by one of its owners.
LEMMA Held ==
  ASSUME req \in Request, NEW path \in Path, Owners(Fullpath(path)) # {},
         NEW l \in Declared, Below(QueryOf(path), PathOf[l])
  PROVE  l \in UNION {Route[i].leaves : i \in Owners(Fullpath(path))}
<1>. DEFINE q == QueryOf(path)
            k == PathOf[l]
<1>1. q \in Seq(Elem) /\ k \in Seq(Elem) /\ Keyless(k) \in Seq(Elem)
  BY FullText, LeafTexts, KeylessIs
<1>2. PICK i \in DOMAIN Route : Under(Route[i].prefix, q) /\ i \in Owners(Fullpath(path))
  BY OwnersUnder
<1>3. PICK j \in DOMAIN Route : l \in Route[j].leaves
  BY RouteAssumption
<1>4. Under(Route[j].prefix, k)
  BY <1>3, RouteAssumption
<1>. DEFINE p == Route[i].prefix
            r == Route[j].prefix
<1>5. p \in Seq(Elem) /\ p = Keyless(p) /\ r \in Seq(Elem) /\ r = Keyless(r)
  BY PrefixTexts
<1>6. Under(p, q) /\ Under(r, k) /\ Below(q, k)
  BY <1>2, <1>4
<1>. HIDE DEF p, q, r, k
<1>7. Under(p, Keyless(k)) /\ Under(r, Keyless(k))
  BY <1>1, <1>5, <1>6, BelowKeyless, UnderKeyless
<1>8. Under(p, r) \/ Under(r, p)
  BY <1>1, <1>5, <1>7, PrefixesNest
<1>9. i = j
  BY <1>8, RouteAssumption DEF p, r
<1>. QED
  BY <1>2, <1>3, <1>9

\* What Get reads for a path, on elements.
Selected(path, s) ==
  [l \in Declared |->
     IF matchesType(Schema[l]) /\ Below(QueryOf(path), PathOf[l]) THEN s[l] ELSE NoLeaf]

LEMMA ReadIsSelected ==
  ASSUME req \in Request, NEW path \in Path, Owners(Fullpath(path)) # {}, NEW s
  PROVE  ReadFrom(path, s) = Selected(path, s)
<1>. DEFINE held == UNION {Route[i].leaves : i \in Owners(Fullpath(path))}
            query == stripPathQuotes(Fullpath(path))
<1>1. ASSUME NEW l \in Declared
      PROVE  l \in held /\ selects(query, TextOf[l]) <=> Below(QueryOf(path), PathOf[l])
  <2>1. QueryOf(path) \in Seq(Elem) /\ query = Joined(QueryOf(path))
    BY FullText
  <2>2. PathOf[l] \in Seq(Elem) /\ TextOf[l] = Joined(PathOf[l])
    BY LeafTexts
  <2>3. selects(query, TextOf[l]) <=> Below(QueryOf(path), PathOf[l])
    BY <2>1, <2>2, SelectsIsBelow
  <2>. QED
    BY <2>3, Held
<1>2. ReadFrom(path, s) =
        [l \in Declared |-> IF /\ matchesType(Schema[l])
                               /\ l \in held
                               /\ selects(query, TextOf[l])
                            THEN s[l] ELSE NoLeaf]
  BY DEF ReadFrom
<1>. HIDE DEF held, query
<1>. QED
  BY <1>1, <1>2 DEF Selected

LEMMA PresentIsWanted ==
  ASSUME NEW i, NEW s
  PROVE  E!Present(Selected(req.path[i], s)) = Wanted(i, s)
<1>1. ASSUME NEW l \in Declared
      PROVE  matchesType(Schema[l]) <=> req.type \in {"ALL", Schema[l]}
  BY DEF matchesType
<1>. QED
  BY <1>1, QueryIs DEF E!Present, Selected, Wanted
-----------------------------------------------------------------------------
(* What Notifications tell                                                   *)

\* The record of a leaf, if it has one, and its text.
LEMMA GroupIs ==
  ASSUME NEW l \in Declared, GroupOf[l] # <<>>
  PROVE  /\ \E i \in DOMAIN Route : Route[i].atomic /\ matches(TextOf[l], Prefix[i])
         /\ \E g \in Nat : /\ InRecord(TextOf[l], g) /\ g < Len(TextOf[l])
                           /\ TextOf[l][g + 1] = Slash /\ GroupOf[l] = SubSeq(TextOf[l], 1, g)
<1>. DEFINE t == TextOf[l]
<1>1. t \in Seq(Token) /\ stripPathQuotes(t) = t /\ Len(t) \in Nat
  BY LeafTexts, JoinedType, JoinedStripped
<1>2. /\ \E i \in DOMAIN Route : Route[i].atomic /\ matches(t, Prefix[i])
      /\ GroupOf[l] = atomicPrefix(t)
  BY DEF GroupOf
<1>3. Len(t) >= Len(AtomicMarker)
        => SubSeq(t, Len(t) - Len(AtomicMarker) + 1, Len(t)) # AtomicMarker
  BY ContainerAssumption
<1>. HIDE DEF t
<1>4. PICK g : InRecord(t, g) /\ GroupOf[l] = SubSeq(t, 1, g)
  BY <1>1, <1>2, RecordIs
<1>5. MarkerEnds(t, g) /\ Len(AtomicMarker) \in Nat
  BY <1>4, AtomicAssumption DEF InRecord
<1>6. g \in Nat /\ g <= Len(t) /\ (g = Len(t) \/ t[g + 1] = Slash)
  BY <1>1, <1>5 DEF MarkerEnds
<1>7. g # Len(t)
  <2>1. SUFFICES ASSUME g = Len(t) PROVE FALSE
    OBVIOUS
  <2>2. /\ Len(t) \in Len(AtomicMarker)..Len(t)
        /\ SubSeq(t, Len(t) - Len(AtomicMarker) + 1, Len(t)) = AtomicMarker
    BY <1>5, <2>1, Zenon DEF MarkerEnds
  <2>3. Len(t) >= Len(AtomicMarker)
    BY <1>1, <1>5, <2>2
  <2>. QED
    BY <1>3, <2>2, <2>3, Zenon
<1>8. g \in Nat /\ g < Len(t) /\ t[g + 1] = Slash
  BY <1>1, <1>6, <1>7
<1>9. /\ \E i \in DOMAIN Route : Route[i].atomic /\ matches(t, Prefix[i])
      /\ \E n \in Nat : /\ InRecord(t, n) /\ n < Len(t)
                        /\ t[n + 1] = Slash /\ GroupOf[l] = SubSeq(t, 1, n)
  BY <1>2, <1>4, <1>8, Zenon
<1>. QED
  BY <1>9 DEF t

\* What a Notification has for the path of a leaf.
PathIn(l, g) == xpath_to_gnmi_path(SubSeq(TextOf[l], Len(g) + 1, Len(TextOf[l])))

\* The paths of a record are relative to it, the others in full.
LEMMA WirePath ==
  ASSUME NEW l \in Declared, NEW g, g = GroupOf[l]
  PROVE  (IF g # <<>> THEN xpath_to_gnmi_path(g) \o PathIn(l, g) ELSE PathIn(l, g)) = PathOf[l]
<1>. DEFINE t == TextOf[l]
            k == PathOf[l]
<1>1. k \in Seq(Elem) /\ t = Joined(k) /\ Named(k)
  BY LeafTexts, LeafAssumption DEF Named
<1>2. t \in Seq(Token) /\ Len(t) \in Nat
  BY <1>1, JoinedType
<1>3. CASE g = <<>>
  <2>1. SubSeq(t, Len(g) + 1, Len(t)) = t
    BY <1>2, <1>3
  <2>2. xpath_to_gnmi_path(t) = k
    BY <1>1, ParseJoined
  <2>. QED
    BY <1>3, <2>1, <2>2 DEF PathIn
<1>4. CASE g # <<>>
  <2>1. PICK n \in Nat : n < Len(t) /\ t[n + 1] = Slash /\ g = SubSeq(t, 1, n)
    BY <1>4, GroupIs
  <2>2. Len(g) = n
    <3>. HIDE DEF t
    <3>1. n \in Int /\ 1 \in Int /\ \A i \in 1..n : t[i] \in Token
      <4>1. \A i \in 1..Len(t) : t[i] \in Token
        BY <1>2
      <4>2. \A i \in 1..n : i \in 1..Len(t)
        BY <1>2, <2>1
      <4>. QED
        BY <4>1, <4>2
    <3>2. SubSeq(t, 1, n) = [i \in 1..n |-> t[i]]
      BY <2>1
    <3>3. SubSeq(t, 1, n) \in [1..n -> Token]
      BY <3>1, <3>2
    <3>. HIDE <2>1
    <3>4. g \in [1..n -> Token]
      BY <2>1, <3>3
    <3>. QED
      BY <3>4
  <2>3. n <= Len(t)
    BY <1>2, <2>1
  <2>4. xpath_to_gnmi_path(SubSeq(t, 1, n)) \o xpath_to_gnmi_path(SubSeq(t, n + 1, Len(t))) = k
    <3>. HIDE DEF t, k
    <3>. QED
      BY <1>1, <2>1, <2>3, ParsedParts
  <2>. QED
    BY <1>4, <2>1, <2>2, <2>4 DEF PathIn
<1>. QED
  BY <1>3, <1>4

\* What one Notification tells the client.
TellingOf(n) == {<<IF n.atomic THEN n.prefix \o u.path ELSE u.path, u.val>> : u \in n.update}

\* The update of a leaf, and what it says with the prefix of the record.
UpdateOf(l, g, snap) == [path |-> PathIn(l, g), val |-> snap[l].val]

LEMMA WireOf ==
  ASSUME NEW snap, NEW g
  PROVE  LET w == Wire(E!FullNote(g, snap, Now)) IN
         /\ w.atomic <=> g # <<>>
         /\ g # <<>> => w.prefix = xpath_to_gnmi_path(g)
         /\ w.update = {UpdateOf(l, g, snap) : l \in E!Members(snap, g)}
<1>. DEFINE S == E!Members(snap, g)
            n == E!FullNote(g, snap, Now)
            w == Wire(n)
<1>1. n.group = g /\ (n.atomic <=> g # <<>>) /\ n.update = [l \in S |-> snap[l].val]
  BY DEF E!FullNote, E!Note
<1>. HIDE DEF S, n
<1>2. DOMAIN n.update = S /\ \A l \in S : n.update[l] = snap[l].val
  BY <1>1
<1>3. w.atomic <=> n.atomic
  BY DEF Wire
<1>4. n.atomic => w.prefix = xpath_to_gnmi_path(n.group)
  BY DEF Wire
<1>5. w.update = {[path |-> PathIn(l, n.group), val |-> n.update[l]] : l \in DOMAIN n.update}
  BY DEF Wire, PathIn
<1>6. w.update = {[path |-> PathIn(l, g), val |-> n.update[l]] : l \in S}
  BY <1>1, <1>2, <1>5
<1>7. w.update = {UpdateOf(l, g, snap) : l \in S}
  BY <1>2, <1>6 DEF UpdateOf
<1>8. g # <<>> => w.prefix = xpath_to_gnmi_path(g)
  BY <1>1, <1>4
<1>. QED
  BY <1>1, <1>3, <1>7, <1>8 DEF n, S

LEMMA NoteTells ==
  ASSUME NEW snap, NEW g
  PROVE  TellingOf(Wire(E!FullNote(g, snap, Now)))
           = {<<PathOf[l], snap[l].val>> : l \in E!Members(snap, g)}
<1>. DEFINE S == E!Members(snap, g)
            w == Wire(E!FullNote(g, snap, Now))
            Says(u) == <<IF w.atomic THEN w.prefix \o u.path ELSE u.path, u.val>>
<1>1. \A l \in S : l \in Declared /\ GroupOf[l] = g
  BY DEF E!Members, E!Present
<1>2. /\ w.atomic <=> g # <<>>
      /\ g # <<>> => w.prefix = xpath_to_gnmi_path(g)
      /\ w.update = {UpdateOf(l, g, snap) : l \in S}
  BY WireOf
<1>3. ASSUME NEW l \in S
      PROVE  Says(UpdateOf(l, g, snap)) = <<PathOf[l], snap[l].val>>
  <2>1. UpdateOf(l, g, snap).path = PathIn(l, g) /\ UpdateOf(l, g, snap).val = snap[l].val
    BY DEF UpdateOf
  <2>2. (IF g # <<>> THEN xpath_to_gnmi_path(g) \o PathIn(l, g) ELSE PathIn(l, g)) = PathOf[l]
    BY <1>1, WirePath
  <2>. HIDE DEF w
  <2>3. CASE g # <<>>
    BY <1>2, <2>1, <2>2, <2>3
  <2>4. CASE g = <<>>
    BY <1>2, <2>1, <2>2, <2>4
  <2>. QED
    BY <2>3, <2>4
<1>4. TellingOf(w) = {Says(u) : u \in w.update}
  BY DEF TellingOf
<1>. HIDE DEF w, S, Says
<1>5. TellingOf(w) = {Says(UpdateOf(l, g, snap)) : l \in S}
  BY <1>2, <1>4
<1>6. TellingOf(w) = {<<PathOf[l], snap[l].val>> : l \in S}
  BY <1>3, <1>5
<1>. QED
  BY <1>6 DEF w, S

LEMMA AnswerTells ==
  ASSUME NEW snap, E!Present(snap) # {}
  PROVE  UNION {TellingOf(w) : w \in {Wire(n) : n \in E!BuildFull(snap, Now)}}
           = {<<PathOf[l], snap[l].val>> : l \in E!Present(snap)}
<1>. DEFINE Full(g) == E!FullNote(g, snap, Now)
            Of(g) == {<<PathOf[l], snap[l].val>> : l \in E!Members(snap, g)}
            notes == E!BuildFull(snap, Now)
<1>1. \A n \in notes : \E g : n = Full(g)
  BY DEF E!BuildFull
<1>2. ASSUME NEW l \in E!Present(snap)
      PROVE  \E g : Full(g) \in notes /\ l \in E!Members(snap, g)
  <2>1. l \in E!Members(snap, GroupOf[l]) /\ l \in Declared
    BY DEF E!Members, E!Present
  <2>2. GroupOf[l] \in Container \cup {<<>>}
    BY <2>1, Groups
  <2>3. Full(GroupOf[l]) \in notes
    BY <2>1, <2>2 DEF E!BuildFull
  <2>. QED
    BY <2>1, <2>3
<1>3. \A g : TellingOf(Wire(Full(g))) = Of(g)
  BY NoteTells
<1>4. \A g : E!Members(snap, g) \subseteq E!Present(snap)
  BY DEF E!Members
<1>. HIDE DEF Full, notes
<1>5. UNION {TellingOf(w) : w \in {Wire(n) : n \in notes}}
        \subseteq {<<PathOf[l], snap[l].val>> : l \in E!Present(snap)}
  <2>1. ASSUME NEW n \in notes
        PROVE  TellingOf(Wire(n)) \subseteq {<<PathOf[l], snap[l].val>> : l \in E!Present(snap)}
    BY <1>1, <1>3, <1>4
  <2>. QED
    BY <2>1
<1>6. ASSUME NEW l \in E!Present(snap)
      PROVE  <<PathOf[l], snap[l].val>> \in UNION {TellingOf(w) : w \in {Wire(n) : n \in notes}}
  <2>1. PICK g : Full(g) \in notes /\ l \in E!Members(snap, g)
    BY <1>2
  <2>2. <<PathOf[l], snap[l].val>> \in TellingOf(Wire(Full(g)))
    BY <1>3, <2>1
  <2>. QED
    BY <2>1, <2>2
<1>. QED
  BY <1>5, <1>6 DEF notes

\* The client is told what was selected.
LEMMA ToldIsWanted ==
  ASSUME req \in Request, NEW i, req.path[i] \in Path, Owners(Fullpath(req.path[i])) # {}, NEW s,
         Wanted(i, s) # {}, response[i] = AnswerFrom(req.path[i], s)
  PROVE  Told(i) = {<<PathOf[l], s[l].val>> : l \in Wanted(i, s)}
<1>. DEFINE snap == Selected(req.path[i], s)
<1>1. ReadFrom(req.path[i], s) = snap
  BY ReadIsSelected
<1>2. E!Present(snap) = Wanted(i, s)
  BY PresentIsWanted
<1>3. \A l \in E!Present(snap) : snap[l] = s[l]
  BY DEF E!Present, Selected
<1>. HIDE DEF snap
<1>4. response[i] = {Wire(n) : n \in E!BuildFull(snap, Now)}
  BY <1>1 DEF AnswerFrom
<1>5. Told(i) = UNION {TellingOf(w) : w \in response[i]}
  BY DEF Told, TellingOf
<1>6. Told(i) = {<<PathOf[l], snap[l].val>> : l \in E!Present(snap)}
  BY <1>2, <1>4, <1>5, AnswerTells
<1>7. {<<PathOf[l], snap[l].val>> : l \in E!Present(snap)} = {<<PathOf[l], s[l].val>> : l \in E!Present(snap)}
  BY <1>3
<1>. QED
  BY <1>2, <1>6, <1>7
-----------------------------------------------------------------------------
(* The answers                                                               *)

\* A path without fault is owned, and selects a leaf of the type.
LEMMA FaultFree ==
  ASSUME Typed, NEW i \in DOMAIN req.path, NEW s, PathErrorFrom(req.path[i], s) = "none"
  PROVE  /\ req.path[i] \in Path /\ Owners(Fullpath(req.path[i])) # {}
         /\ Wanted(i, s) # {}
<1>1. req \in Request /\ req.path[i] \in Path
  BY RequestAssumption DEF Typed
<1>2. Owners(Fullpath(req.path[i])) # {} /\ E!Present(ReadFrom(req.path[i], s)) # {}
  BY DEF PathErrorFrom, Routed
<1>3. ReadFrom(req.path[i], s) = Selected(req.path[i], s)
  BY <1>1, <1>2, ReadIsSelected
<1>. QED
  BY <1>1, <1>2, <1>3, PresentIsWanted

\* When all paths are answered, the times of the reads are as the property asks.
LEMMA AnswersAre ==
  ASSUME Typed, ReadInTurn
  PROVE  AnswersAreSnapshots
<1>1. SUFFICES ASSUME status = "OK"
               PROVE  \E at \in Times : \A i \in DOMAIN req.path :
                        Told(i) = {<<PathOf[l], during[at[i]][l].val>> : l \in Wanted(i, during[at[i]])}
  BY DEF AnswersAreSnapshots
<1>2. DOMAIN response = DOMAIN req.path
  BY <1>1, RequestAssumption DEF Typed
<1>3. PICK at \in [DOMAIN response -> DOMAIN during] :
        /\ \A i, j \in DOMAIN response : i <= j => at[i] <= at[j]
        /\ \A i \in DOMAIN response : /\ response[i] = AnswerFrom(req.path[i], during[at[i]])
                                     /\ PathErrorFrom(req.path[i], during[at[i]]) = "none"
  BY DEF ReadInTurn
<1>4. at \in Times
  BY <1>2, <1>3 DEF Times
<1>5. ASSUME NEW i \in DOMAIN req.path
      PROVE  Told(i) = {<<PathOf[l], during[at[i]][l].val>> : l \in Wanted(i, during[at[i]])}
  <2>1. response[i] = AnswerFrom(req.path[i], during[at[i]])
        /\ PathErrorFrom(req.path[i], during[at[i]]) = "none"
    BY <1>2, <1>3
  <2>2. req \in Request
    BY DEF Typed
  <2>3. /\ req.path[i] \in Path /\ Owners(Fullpath(req.path[i])) # {}
        /\ Wanted(i, during[at[i]]) # {}
    BY <2>1, FaultFree
  <2>. QED
    BY <2>1, <2>2, <2>3, ToldIsWanted
<1>. QED
  BY <1>4, <1>5

\* A Get that ends with OK has told, for each path, exactly the leaves of the type
\* at or below it as they all were at one time during the call, in turn: whatever
\* is declared, registered, asked for and committed meanwhile.  The selection on
\* texts, with keys, origins and prefixes, and the relative paths of the records
\* are those of the elements.
THEOREM AnswersAreRight == Spec => []AnswersAreSnapshots
<1>1. Typed /\ ReadInTurn => AnswersAreSnapshots
  BY AnswersAre
<1>. QED
  BY <1>1, TypedInvariance, AnswersInTurn, PTL
-----------------------------------------------------------------------------
(* The status                                                                *)

\* The faults of the code are those of the table.
LEMMA FaultIs ==
  ASSUME Typed, NEW i \in DOMAIN req.path, NEW s
  PROVE  Fault(i, s) = LET e == PathErrorFrom(req.path[i], s) IN IF e = "none" THEN "OK" ELSE e
<1>1. req \in Request /\ req.path[i] \in Path
  BY RequestAssumption DEF Typed
<1>2. (\E k \in DOMAIN req.path[i].elem : LET e == req.path[i].elem[k] IN
         e.name = <<>> \/ e.key \in BadKey) <=> ~validateGnmiPath(req.path[i])
  BY DEF validateGnmiPath
<1>3. (\A k \in DOMAIN Route : ~Under(Route[k].prefix, Query(i)))
        <=> ~Routed(Fullpath(req.path[i]))
  BY <1>1, OwnersUnder, QueryIs DEF Routed
<1>4. ASSUME Routed(Fullpath(req.path[i]))
      PROVE  Wanted(i, s) = {} <=> E!Present(ReadFrom(req.path[i], s)) = {}
  <2>1. ReadFrom(req.path[i], s) = Selected(req.path[i], s)
    BY <1>1, <1>4, ReadIsSelected DEF Routed
  <2>. QED
    BY <2>1, PresentIsWanted
<1>. QED
  BY <1>2, <1>3, <1>4 DEF Fault, PathErrorFrom

LEMMA StatusIs ==
  ASSUME Typed, ReadInTurn
  PROVE  StatusIsDeserved
<1>1. SUFFICES ASSUME pc = "done", req.supported
               PROVE  \E at \in Times :
                        LET faults == {i \in DOMAIN req.path : Fault(i, during[at[i]]) # "OK"} IN
                        \/ faults = {} /\ status = "OK"
                        \/ \E i \in faults : /\ \A j \in faults : i <= j
                                             /\ status = Fault(i, during[at[i]])
  BY DEF StatusIsDeserved
<1>2. PICK at \in [DOMAIN response -> DOMAIN during] :
        /\ \A i, j \in DOMAIN response : i <= j => at[i] <= at[j]
        /\ \A i \in DOMAIN response : PathErrorFrom(req.path[i], during[at[i]]) = "none"
        /\ FailedAfter(IF response = <<>> THEN 1 ELSE at[Len(response)])
  BY DEF ReadInTurn
<1>3. /\ DOMAIN response = 1..Len(response) /\ Len(response) \in Nat
      /\ response # <<>> => Len(response) \in DOMAIN response
      /\ DOMAIN req.path = 1..Len(req.path) /\ Len(req.path) \in Nat
      /\ DOMAIN during \subseteq Nat
  BY RequestAssumption DEF Typed
<1>4. Len(response) <= Len(req.path) /\ status # "running" /\ status # "none"
      /\ (status = "OK" => Len(response) = Len(req.path))
  BY <1>1 DEF Typed
<1>5. CASE status = "OK"
  <2>1. DOMAIN response = DOMAIN req.path
    BY <1>3, <1>4, <1>5
  <2>2. at \in Times
    BY <1>2, <2>1 DEF Times
  <2>3. \A i \in DOMAIN req.path : Fault(i, during[at[i]]) = "OK"
    BY <1>2, <2>1, FaultIs
  <2>. QED
    BY <1>5, <2>2, <2>3
<1>6. CASE status # "OK"
  <2>. DEFINE next == Len(response) + 1
  <2>1. Len(response) < Len(req.path) /\
        \E n \in DOMAIN during : /\ (IF response = <<>> THEN 1 ELSE at[Len(response)]) <= n
                                 /\ PathErrorFrom(req.path[next], during[n]) = status
    BY <1>1, <1>2, <1>4, <1>6 DEF FailedAfter
  <2>2. PICK n \in DOMAIN during :
          /\ (IF response = <<>> THEN 1 ELSE at[Len(response)]) <= n
          /\ PathErrorFrom(req.path[next], during[n]) = status
    BY <2>1
  <2>. DEFINE times == [i \in DOMAIN req.path |-> IF i < next THEN at[i] ELSE n]
  <2>3. next \in DOMAIN req.path /\ next \in Nat
        /\ (\A i \in DOMAIN req.path : i < next <=> i \in DOMAIN response)
        /\ DOMAIN req.path \subseteq Nat
    BY <1>3, <2>1
  <2>4. \A i \in DOMAIN response : at[i] <= n
    <3>1. ASSUME NEW i \in DOMAIN response PROVE at[i] <= n
      <4>1. response # <<>> /\ i <= Len(response) /\ Len(response) \in DOMAIN response
        BY <1>3
      <4>2. at[i] <= at[Len(response)] /\ at[Len(response)] <= n
        BY <1>2, <2>2, <4>1
      <4>3. at[i] \in Nat /\ at[Len(response)] \in Nat /\ n \in Nat
        BY <1>2, <1>3, <4>1
      <4>. QED
        BY <4>2, <4>3
    <3>. QED
      BY <3>1
  <2>. HIDE DEF next
  <2>5. times \in [DOMAIN req.path -> DOMAIN during]
    BY <1>2, <2>3
  <2>6. ASSUME NEW i \in DOMAIN req.path, NEW j \in DOMAIN req.path, i <= j
        PROVE  times[i] <= times[j]
    <3>1. i \in Nat /\ j \in Nat /\ n \in Nat
      BY <1>3, <2>3
    <3>2. CASE j < next
      BY <1>2, <2>3, <2>6, <3>1, <3>2
    <3>3. CASE ~(j < next)
      BY <2>3, <2>4, <3>1, <3>3
    <3>. QED
      BY <3>2, <3>3
  <2>7. times \in Times
    BY <2>5, <2>6 DEF Times
  <2>8. \A i \in DOMAIN req.path : i < next => Fault(i, during[times[i]]) = "OK"
    <3>1. ASSUME NEW i \in DOMAIN req.path, i < next PROVE Fault(i, during[times[i]]) = "OK"
      <4>1. PathErrorFrom(req.path[i], during[times[i]]) = "none"
        BY <1>2, <2>3, <3>1
      <4>. QED
        BY <4>1, FaultIs
    <3>. QED
      BY <3>1
  <2>9. Fault(next, during[times[next]]) = status
    <3>1. times[next] = n
      BY <2>3
    <3>2. PathErrorFrom(req.path[next], during[times[next]]) = status
      BY <2>2, <3>1
    <3>. HIDE DEF times
    <3>. QED
      BY <1>4, <2>3, <3>2, FaultIs
  <2>. HIDE DEF times
  <2>. DEFINE faults == {i \in DOMAIN req.path : Fault(i, during[times[i]]) # "OK"}
  <2>10. next \in faults /\ \A j \in faults : next <= j
    BY <1>6, <2>3, <2>8, <2>9
  <2>. QED
    BY <2>7, <2>9, <2>10
<1>. QED
  BY <1>5, <1>6

\* The status of a Get is that of its first path at fault, by the table: a path
\* without leaf had none at a time at which it could be read, for any declared
\* leaves, prefixes, requests and commits.
THEOREM StatusIsRight == Spec => []StatusIsDeserved
<1>1. Typed /\ ReadInTurn => StatusIsDeserved
  BY StatusIs
<1>. QED
  BY <1>1, TypedInvariance, AnswersInTurn, PTL
-----------------------------------------------------------------------------
(* Atomic records                                                            *)

\* The registered prefix that a leaf's path matches is its provider's.
LEMMA OwnPrefix ==
  ASSUME NEW l \in Declared, NEW i \in DOMAIN Route, matches(TextOf[l], Prefix[i])
  PROVE  Under(Route[i].prefix, PathOf[l]) /\ Len(Route[i].prefix) < Len(PathOf[l])
<1>. DEFINE k == PathOf[l]
            p == Route[i].prefix
<1>1. k \in Seq(Elem) /\ TextOf[l] = Joined(k)
  BY LeafTexts
<1>2. p \in Seq(Elem) /\ p = Keyless(p) /\ Prefix[i] = Joined(p)
  BY PrefixTexts
<1>3. Under(p, k)
  <2>1. isPathPrefix(Joined(p), stripPathQuotes(Joined(k)))
    BY <1>1, <1>2 DEF matches
  <2>. HIDE DEF p, k
  <2>. QED
    BY <1>1, <1>2, <2>1, JoinedStripped, PrefixIsUnder
<1>4. PICK j \in DOMAIN Route : l \in Route[j].leaves
  BY RouteAssumption
<1>. DEFINE r == Route[j].prefix
<1>5. r \in Seq(Elem) /\ r = Keyless(r) /\ Under(r, k) /\ Len(r) < Len(k)
  BY <1>4, RouteAssumption
<1>6. Under(p, r) \/ Under(r, p)
  <2>. HIDE DEF p, k, r
  <2>. QED
    BY <1>1, <1>2, <1>3, <1>5, PrefixesNest
<1>7. i = j
  BY <1>6, RouteAssumption
<1>. QED
  BY <1>3, <1>5, <1>7

\* Leaves of one parent are in the same record.
LEMMA RecordOfSiblings ==
  ASSUME NEW l \in Declared, NEW m \in Declared, GroupOf[l] # <<>>,
         Front(PathOf[l]) = Front(PathOf[m])
  PROVE  GroupOf[m] = GroupOf[l]
<1>. DEFINE k == PathOf[l]
            o == PathOf[m]
<1>1. k \in Seq(Elem) /\ TextOf[l] = Joined(k) /\ o \in Seq(Elem) /\ TextOf[m] = Joined(o)
  BY LeafTexts
<1>2. Len(k) \in Nat /\ Len(o) \in Nat
  BY <1>1
<1>3. Len(o) # 0
  <2>1. PICK j \in DOMAIN Route : m \in Route[j].leaves
    BY RouteAssumption
  <2>2. Len(Route[j].prefix) < Len(o) /\ Len(Route[j].prefix) \in Nat
    BY <2>1, RouteAssumption
  <2>. QED
    BY <1>2, <2>2
<1>4. PICK i \in DOMAIN Route : Route[i].atomic /\ matches(TextOf[l], Prefix[i])
  BY GroupIs
<1>. DEFINE p == Route[i].prefix
<1>5. Under(p, k) /\ Len(p) < Len(k)
  BY <1>4, OwnPrefix
<1>6. p \in Seq(Elem) /\ p = Keyless(p) /\ Prefix[i] = Joined(p)
  BY PrefixTexts
<1>7. Len(k) # 0
  BY <1>2, <1>5, <1>6
<1>8. Under(p, o)
  <2>. HIDE DEF p, k, o
  <2>1. Front(k) = Front(o)
    BY DEF k, o
  <2>. QED
    BY <1>1, <1>3, <1>5, <1>6, <2>1, UnderSibling
<1>9. stripPathQuotes(Joined(o)) = Joined(o) /\ Joined(o) \in Seq(Token)
  BY <1>1, JoinedStripped, JoinedType
<1>10. matches(TextOf[m], Prefix[i])
  <2>. HIDE DEF p, k, o
  <2>1. isPathPrefix(Joined(p), Joined(o))
    BY <1>1, <1>6, <1>8, PrefixIsUnder
  <2>. QED
    BY <1>1, <1>6, <1>9, <2>1 DEF matches
<1>11. GroupOf[m] = atomicPrefix(TextOf[m])
  BY <1>4, <1>10 DEF GroupOf
<1>12. PICK g \in Nat : /\ InRecord(TextOf[l], g) /\ g < Len(TextOf[l])
                        /\ GroupOf[l] = SubSeq(TextOf[l], 1, g)
  BY GroupIs
<1>13. InRecord(Joined(o), g) /\ SubSeq(Joined(o), 1, g) = SubSeq(Joined(k), 1, g)
  <2>1. g # Len(Joined(k)) /\ InRecord(Joined(k), g) /\ Front(k) = Front(o)
    BY <1>1, <1>12, JoinedType
  <2>. HIDE DEF k, o
  <2>. QED
    BY <1>1, <1>3, <1>7, <2>1, RecordOfSibling
<1>14. atomicPrefix(Joined(o)) = SubSeq(Joined(o), 1, g)
  <2>. HIDE DEF o
  <2>. QED
    BY <1>9, <1>13, RecordIs
<1>. QED
  BY <1>1, <1>11, <1>12, <1>13, <1>14

\* What an atomic Notification carries are the members of its record.
LEMMA CarriedAre ==
  ASSUME NEW snap, NEW g, g # <<>>
  PROVE  Carried(Wire(E!FullNote(g, snap, Now))) = E!Members(snap, g)
<1>. DEFINE S == E!Members(snap, g)
            w == Wire(E!FullNote(g, snap, Now))
<1>1. \A l \in S : l \in Declared /\ GroupOf[l] = g
  BY DEF E!Members, E!Present
<1>2. /\ w.prefix = xpath_to_gnmi_path(g)
      /\ w.update = {UpdateOf(l, g, snap) : l \in S}
  BY WireOf
<1>3. ASSUME NEW l \in S PROVE w.prefix \o UpdateOf(l, g, snap).path = PathOf[l]
  <2>1. UpdateOf(l, g, snap).path = PathIn(l, g)
    BY DEF UpdateOf
  <2>2. (IF g # <<>> THEN xpath_to_gnmi_path(g) \o PathIn(l, g) ELSE PathIn(l, g)) = PathOf[l]
    BY <1>1, WirePath
  <2>3. xpath_to_gnmi_path(g) \o PathIn(l, g) = PathOf[l]
    BY <2>2
  <2>. HIDE DEF w
  <2>. QED
    BY <1>2, <2>1, <2>3
<1>. HIDE DEF w, S
<1>4. \A l \in Declared : l \in Carried(w) <=> \E m \in S : PathOf[m] = PathOf[l]
  BY <1>2, <1>3 DEF Carried
<1>5. \A l \in Declared : l \in Carried(w) <=> l \in S
  BY <1>1, <1>4, LeafAssumption
<1>6. Carried(w) \subseteq Declared
  BY DEF Carried
<1>. QED
  BY <1>1, <1>5, <1>6 DEF w, S

LEMMA RecordsAre ==
  ASSUME Typed, ReadInTurn
  PROVE  RecordsAreWhole
<1>1. SUFFICES ASSUME NEW i \in DOMAIN response, NEW n \in response[i], n.atomic,
                      AskedWhole(i, n)
               PROVE  Complete(n)
  BY DEF RecordsAreWhole
<1>2. PICK k \in DOMAIN during : /\ response[i] = AnswerFrom(req.path[i], during[k])
                                 /\ PathErrorFrom(req.path[i], during[k]) = "none"
  BY DEF ReadInTurn
<1>3. i \in DOMAIN req.path
  BY RequestAssumption DEF Typed
<1>4. /\ req \in Request /\ req.path[i] \in Path
      /\ Owners(Fullpath(req.path[i])) # {}
  BY <1>2, <1>3, FaultFree DEF Typed
<1>. DEFINE snap == Selected(req.path[i], during[k])
<1>5. ReadFrom(req.path[i], during[k]) = snap
  BY <1>4, ReadIsSelected
<1>6. E!Present(snap) = Wanted(i, during[k]) /\ Wanted(i, during[k]) # {}
  BY <1>2, <1>3, FaultFree, PresentIsWanted
<1>7. \A l \in Declared : snap[l] # NoLeaf => matchesType(Schema[l])
  BY DEF Selected
<1>8. ASSUME NEW m \in Declared, matchesType(Schema[m]), Below(Query(i), PathOf[m]),
             during[k][m] # NoLeaf
      PROVE  m \in E!Present(snap)
  BY <1>8, QueryIs DEF E!Present, Selected
<1>. HIDE DEF snap
<1>9. PICK g : n = Wire(E!FullNote(g, snap, Now))
  BY <1>1, <1>2, <1>5, <1>6 DEF AnswerFrom, E!BuildFull
<1>10. g # <<>>
  BY <1>1, <1>9, WireOf
<1>11. Carried(n) = E!Members(snap, g)
  BY <1>9, <1>10, CarriedAre
<1>12. ASSUME NEW l \in Carried(n), NEW m \in Beside(l), during[k][m] # NoLeaf
       PROVE  m \in Carried(n)
  <2>0. m \in Declared /\ Front(PathOf[l]) = Front(PathOf[m]) /\ Below(Query(i), PathOf[m])
    BY <1>1, <1>12 DEF Beside, AskedWhole
  <2>1. l \in Declared /\ l \in E!Present(snap) /\ GroupOf[l] = g
    BY <1>11 DEF E!Members, E!Present
  <2>2. GroupOf[m] = g
    BY <1>10, <2>0, <2>1, RecordOfSiblings
  <2>3. g \in Container
    BY <1>10, <2>1, Groups
  <2>4. Schema[m] = Schema[l]
    BY <2>0, <2>1, <2>2, <2>3, RecordAssumption
  <2>5. matchesType(Schema[m])
    BY <1>7, <2>1, <2>4 DEF E!Present
  <2>6. m \in E!Present(snap)
    BY <1>8, <1>12, <2>0, <2>5
  <2>. QED
    BY <1>11, <2>2, <2>6 DEF E!Members
<1>. QED
  BY <1>12 DEF Complete

\* A path at or above a record gets all that there was of it at one time, in one
\* atomic Notification, for any declared leaves, prefixes, requests and commits.
THEOREM RecordsAreRight == Spec => []RecordsAreWhole
<1>1. Typed /\ ReadInTurn => RecordsAreWhole
  BY RecordsAre
<1>. QED
  BY <1>1, TypedInvariance, AnswersInTurn, PTL
=============================================================================
