-------------------------- MODULE SubscribeProofs --------------------------
(***************************************************************************)
(* Theorems about Subscribe, for any requests, stores, batches and bounds: *)
(* its types, the answers to Polls, what is refused and when, the pace of  *)
(* heartbeats, and what the client's copy owes to the diffs.               *)
(***************************************************************************)
EXTENDS Subscribe, EmitProofs, SequenceTheorems

LOCAL INSTANCE FiniteSetsExt

\* The places of the handler, and what it has there.
Phases ==
  /\ pc \in {"run", "check", "initial", "sync", "setup", "loop", "sample",
             "onchange", "read", "poll", "done"}
  /\ pc \in {"check", "setup", "loop", "sample", "onchange"} => req.mode = "STREAM"
  /\ pc \in {"read", "poll"} => req.mode = "POLL"
  /\ pc \in {"run", "check", "sync", "read", "loop"} => todo = {}
  /\ ~Building => merged = Empty

\* The two buckets, which Setup fills.
Buckets ==
  /\ todo \subseteq Index /\ chronomap \subseteq Index /\ onChange \subseteq Index
  /\ pc \in {"run", "check", "initial", "sync", "read", "poll"} =>
       chronomap = {} /\ onChange = {}
  /\ \A k \in chronomap : ResolveMode(Subs[k]) = "SAMPLE"
  /\ \A k \in onChange : ResolveMode(Subs[k]) = "ON_CHANGE"
  /\ pc = "sample" => todo \subseteq chronomap
  /\ pc = "onchange" => todo \subseteq onChange

\* A message, with the commits there were when it was sent.
Message == [kind : Kind, seen : 0..commits]

\* Messages read and sync_responses sent.
Answered ==
  /\ inbox \in Seq(Message) /\ sent \in 0..MaxMessages
  /\ Len(inbox) <= sent /\ syncs \in Nat
  /\ pc \in {"run", "check", "initial", "poll"} => syncs = sent - Len(inbox)
  /\ pc = "sync" => syncs = sent - Len(inbox)
  /\ pc = "read" => syncs = 1 + sent - Len(inbox)
  /\ syncs <= 1 + sent - Len(inbox)

Good(k) == Subs[k].valid /\ Subs[k].owner # "none"

\* What is known of the request before the client is in sync, and after.
Accepted ==
  /\ pc # "done" => status = "running"
  /\ pc # "done" => message \in {"first", "poll"}
  /\ pc \in {"run", "check", "initial"} => ~synced
  /\ pc = "initial" => \A k \in Index \ todo : Good(k)
  /\ pc \in {"sync", "read", "poll", "setup", "loop", "sample", "onchange"} =>
       \/ req.mode = "STREAM" /\ req.updatesOnly
       \/ req.encodingOk /\ \A k \in Index : Good(k)
  /\ RefusedBeforeSync

\* The rest of the types.
Types ==
  /\ req \in Request
  /\ store \in Snapshot /\ commits \in 0..MaxCommits
  /\ asked \in 0..commits
  /\ message \in {"first"} \cup Kind
  /\ merged \in Snapshot
  /\ prev \in [Index -> Snapshot]
  /\ age \in [Index -> 0..MaxAge] /\ quiet \in [Index -> 0..MaxAge]
  /\ view \in View
  /\ synced \in BOOLEAN /\ cancelled \in BOOLEAN /\ closed \in BOOLEAN
  /\ status \in {"running", "OK"} \cup Errors
  /\ unsent \subseteq Path

\* What the samples merged so far and the memory of each subscription hold.
Remembers ==
  /\ pc = "sample" => \A p \in Present(merged) : \E k \in chronomap : p \in Subs[k].sel
  /\ \A k \in Index : \A p \in Path \ Subs[k].sel : prev[k][p] = NoLeaf

IInv == Types /\ Phases /\ Buckets /\ Answered /\ Accepted /\ Remembers
-----------------------------------------------------------------------------
LEMMA MinOfTwo ==
  ASSUME NEW a \in Nat, NEW b \in Nat
  PROVE  /\ Min({a, b}) \in {a, b}
         /\ Min({a, b}) <= a /\ Min({a, b}) <= b
<1>1. \E x \in {a, b} : \A y \in {a, b} : x <= y
  OBVIOUS
<1>. QED
  BY <1>1 DEF Min

\* A loop's next subscription is one of those it has still to visit.
LEMMA FirstOf ==
  ASSUME NEW n \in Nat, NEW S \in SUBSET (1..n), S # {}
  PROVE  Min(S) \in S
<1> DEFINE Back == {m \in 0..n : n - m \in S}
<1>1. Back \in SUBSET Nat /\ \A x \in Back : x <= n
  OBVIOUS
<1>2. Back # {}
  <2>1. PICK s \in S : TRUE
    OBVIOUS
  <2>2. s \in 1..n
    OBVIOUS
  <2>3. n - s \in 0..n /\ n - (n - s) = s
    BY <2>2
  <2>. QED
    BY <2>1, <2>3
<1>3. PICK x \in Back : \A y \in Back : x >= y
  <2> HIDE DEF Back
  <2>. QED
    BY <1>1, <1>2, LatestExists
<1>4. ASSUME NEW r \in S PROVE n - x <= r
  <2>1. r \in 1..n
    OBVIOUS
  <2>2. n - r \in 0..n /\ n - (n - r) = r
    BY <2>1
  <2>. QED
    BY <1>3, <2>1, <2>2
<1>. QED
  BY <1>4 DEF Min

LEMMA IndexFacts ==
  ASSUME req \in Request
  PROVE  /\ \A S \in SUBSET Index : S # {} => Min(S) \in S
         /\ \A k \in Index : Subs[k] \in Subscription
<1>1. Subs \in Seq(Subscription)
  BY RequestAssumption DEF Subs
<1>2. Index = 1..Len(Subs) /\ Len(Subs) \in Nat
  BY <1>1 DEF Index
<1>3. \A k \in Index : Subs[k] \in Subscription
  BY <1>1, <1>2
<1>. QED
  BY <1>2, <1>3, FirstOf

LEMMA FirstFacts ==
  ASSUME req \in Request, Buckets, todo # {}
  PROVE  First \in todo /\ First \in Index
BY IndexFacts DEF Buckets, First

LEMMA SnapshotType ==
  ASSUME store \in Snapshot, NEW k
  PROVE  /\ SnapshotOf(k) \in Snapshot
         /\ \A p \in Path \ Subs[k].sel : SnapshotOf(k)[p] = NoLeaf
BY DEF Snapshot, SnapshotOf

LEMMA MergeType ==
  ASSUME NEW s \in Snapshot, NEW t \in Snapshot
  PROVE  /\ Merge(s, t) \in Snapshot
         /\ Present(Merge(s, t)) = Present(s) \cup Present(t)
BY DEF Snapshot, Merge, Present

LEMMA Bounds ==
  /\ HalfRange \in Nat /\ MaxSlip \in Nat /\ MaxAge \in Nat
  /\ MaxCommits \in Nat /\ MaxMessages \in Nat
BY BoundAssumption

LEMMA EmptyType == Empty \in Snapshot /\ Empty \in View /\ Present(Empty) = {}
BY DEF Empty, Snapshot, View, Present
-----------------------------------------------------------------------------
LEMMA InitHolds == Init => IInv
<1> SUFFICES ASSUME Init PROVE IInv
  OBVIOUS
<1>1. Types
  <2>1. store \in Snapshot /\ 0 \in 0..MaxCommits /\ 0 \in 0..MaxAge /\ 0 \in 0..0
    BY StoreAssumption, Bounds DEF Init
  <2>2. /\ prev \in [Index -> Snapshot]
        /\ age \in [Index -> 0..MaxAge] /\ quiet \in [Index -> 0..MaxAge]
    BY <2>1, EmptyType DEF Init
  <2>. QED
    BY <2>1, <2>2, EmptyType DEF Init, Types
<1>2. Phases /\ Buckets /\ Remembers
  BY EmptyType DEF Init, Phases, Buckets, Remembers, Building, Empty
<1>3. Answered
  <2>1. <<>> \in Seq(Message) /\ Len(<<>>) = 0
    BY EmptySeq
  <2>2. inbox \in Seq(Message) /\ Len(inbox) = 0
    BY <2>1 DEF Init
  <2>3. sent = 0 /\ syncs = 0
    BY DEF Init
  <2>4. /\ sent \in 0..MaxMessages /\ syncs \in Nat /\ Len(inbox) <= sent
        /\ syncs = sent - Len(inbox) /\ syncs <= 1 + sent - Len(inbox)
    BY <2>2, <2>3, Bounds
  <2>5. pc = "run"
    BY DEF Init
  <2>. QED
    BY <2>2, <2>4, <2>5 DEF Answered
<1>4. Accepted
  BY DEF Init, Accepted, RefusedBeforeSync, Errors
<1>. QED
  BY <1>1, <1>2, <1>3, <1>4 DEF IInv
-----------------------------------------------------------------------------
(* The store and the client leave the handler alone                          *)

LEMMA OthersKeep ==
  ASSUME IInv, Commit \/ Cancel \/ Send \/ Close \/ UNCHANGED vars
  PROVE  IInv'
<1>1. UNCHANGED <<req, handlerVars, clientVars, message, asked>>
  BY DEF Commit, Cancel, Send, Close, vars, readVars
<1>2. Phases' /\ Buckets' /\ Remembers'
  BY <1>1 DEF handlerVars, IInv, Phases, Buckets, Remembers, Building, Index, Subs, ResolveMode
<1>3. Accepted'
  BY <1>1 DEF handlerVars, clientVars, IInv, Accepted, RefusedBeforeSync, Index, Subs, Good
<1>4. commits' \in 0..MaxCommits /\ commits <= commits' /\ store' \in Snapshot
  <2>1. CASE Commit
    <3>1. store' \in Snapshot
      BY <2>1, StoreAssumption DEF Commit, IInv, Types, Snapshot
    <3>. QED
      BY <2>1, <3>1, Bounds DEF Commit, IInv, Types
  <2>2. CASE ~Commit
    BY <2>2 DEF Cancel, Send, Close, vars, envVars, IInv, Types
  <2>. QED
    BY <2>1, <2>2
<1>5. Types'
  <2>1. cancelled' \in BOOLEAN /\ closed' \in BOOLEAN
    BY DEF Commit, Cancel, Send, Close, vars, envVars, IInv, Types
  <2>2. asked' \in 0..commits'
    BY <1>1, <1>4 DEF IInv, Types
  <2>3. /\ prev' \in [Index' -> Snapshot]
        /\ age' \in [Index' -> 0..MaxAge] /\ quiet' \in [Index' -> 0..MaxAge]
    BY <1>1 DEF handlerVars, IInv, Types, Index, Subs
  <2>. QED
    BY <1>1, <1>4, <2>1, <2>2, <2>3 DEF handlerVars, clientVars, IInv, Types
<1>6. Answered'
  <2>1. inbox \in Seq(Message')
    <3>1. Message \subseteq Message'
      BY <1>4 DEF Message, IInv, Types
    <3>. QED
      BY <3>1, SeqMonotonic DEF IInv, Answered
  <2>2. /\ inbox' \in Seq(Message') /\ sent' \in 0..MaxMessages
        /\ sent' - Len(inbox') = sent - Len(inbox)
        /\ Len(inbox') <= sent'
    <3>1. CASE Send
      <4>1. PICK m \in Kind : inbox' = Append(inbox, [kind |-> m, seen |-> commits])
        BY <3>1 DEF Send
      <4>2. [kind |-> m, seen |-> commits] \in Message'
        BY <1>4 DEF Message, IInv, Types
      <4>3. inbox' \in Seq(Message') /\ Len(inbox') = Len(inbox) + 1
        BY <2>1, <4>1, <4>2
      <4>. QED
        BY <3>1, <4>3, <2>1, Bounds DEF Send, IInv, Answered
    <3>2. CASE ~Send
      BY <2>1, <3>2 DEF Commit, Cancel, Close, vars, readVars, envVars, IInv, Answered
    <3>. QED
      BY <3>1, <3>2
  <2>3. Len(inbox) \in Nat /\ Len(inbox') \in Nat
    BY <2>1, <2>2
  <2>. QED
    BY <1>1, <2>2, <2>3 DEF handlerVars, clientVars, IInv, Answered
<1>. QED
  BY <1>2, <1>3, <1>5, <1>6 DEF IInv
-----------------------------------------------------------------------------
(* The handler's steps, one part of the invariant at a time                  *)

LEMMA PhasesKept ==
  ASSUME IInv, Handler
  PROVE  Phases'
<1>. USE DEF IInv, Phases, Building, End
<1>1. CASE Run \/ Check
  BY <1>1 DEF Run, Check
<1>2. CASE BuildRefuse \/ BuildTake \/ BuildEmit
  BY <1>2 DEF BuildRefuse, BuildTake, BuildEmit, AfterEmit
<1>3. CASE Sync \/ Read \/ ReadEnd
  BY <1>3 DEF Sync, Read, ReadEnd
<1>4. CASE Setup \/ SetupEnd
  BY <1>4 DEF Setup, SetupEnd
<1>5. CASE LoopStart \/ LoopEnd
  BY <1>5 DEF LoopStart, LoopEnd
<1>6. CASE Poll \/ Sleep
  BY <1>6 DEF Poll, Sleep
<1>. QED
  BY <1>1, <1>2, <1>3, <1>4, <1>5, <1>6 DEF Handler

LEMMA BucketsKept ==
  ASSUME IInv, Handler
  PROVE  Buckets'
<1>1. UNCHANGED <<Index, Subs>>
  BY DEF Handler, Run, Check, BuildRefuse, BuildTake, BuildEmit, Sync, Read, ReadEnd,
         Setup, SetupEnd, LoopStart, LoopEnd, Poll, Sleep, Index, Subs
<1>. USE <1>1 DEF IInv, Phases, Buckets, ResolveMode, Building, End
<1>2. CASE Run \/ Check
  BY <1>2 DEF Run, Check
<1>3. CASE BuildRefuse \/ BuildTake \/ BuildEmit
  BY <1>3 DEF BuildRefuse, BuildTake, BuildEmit, AfterEmit, Polled
<1>4. CASE Sync \/ Read \/ ReadEnd
  BY <1>4 DEF Sync, Read, ReadEnd, Asked
<1>5. CASE Setup
  <2>1. First \in Index
    BY <1>5, FirstFacts DEF Setup, Types
  <2>. QED
    BY <1>5, <2>1 DEF Setup
<1>6. CASE SetupEnd \/ LoopStart \/ LoopEnd
  BY <1>6 DEF SetupEnd, LoopStart, LoopEnd, Polled
<1>7. CASE Poll \/ Sleep
  BY <1>7 DEF Poll, Sleep
<1>. QED
  BY <1>2, <1>3, <1>4, <1>5, <1>6, <1>7 DEF Handler

LEMMA AnsweredKept ==
  ASSUME IInv, Handler
  PROVE  Answered'
<1>1. UNCHANGED <<sent, commits>> /\ Message' = Message
  BY DEF Handler, Run, Check, BuildRefuse, BuildTake, BuildEmit, Sync, Read, ReadEnd,
         Setup, SetupEnd, LoopStart, LoopEnd, Poll, Sleep, envVars, Message
<1>2. Len(inbox) \in Nat /\ sent \in Nat
  BY Bounds DEF IInv, Answered
<1>3. CASE Read
  <2>1. inbox' \in Seq(Message) /\ Len(inbox') = Len(inbox) - 1
    BY <1>3 DEF Read, IInv, Answered
  <2>. QED
    BY <1>1, <1>2, <1>3, <2>1 DEF Read, End, IInv, Answered
<1>4. CASE Sync
  BY <1>1, <1>2, <1>4 DEF Sync, End, readVars, IInv, Answered
<1>5. CASE ~Read /\ ~Sync
  <2>1. UNCHANGED <<inbox, syncs>>
    BY <1>5 DEF Handler, Run, Check, BuildRefuse, BuildTake, BuildEmit, ReadEnd, Setup, SetupEnd,
                LoopStart, LoopEnd, Poll, Sleep, clientVars, readVars
  <2>2. pc' \in {"run", "check", "initial", "poll", "sync"} =>
          pc \in {"run", "check", "initial", "poll"}
    BY <1>5 DEF Handler, Run, Check, BuildRefuse, BuildTake, BuildEmit, ReadEnd, Setup, SetupEnd,
                LoopStart, LoopEnd, Poll, Sleep, End, AfterEmit, Building
  <2>3. pc' # "read"
    BY <1>5 DEF Handler, Run, Check, BuildRefuse, BuildTake, BuildEmit, ReadEnd, Setup, SetupEnd,
                LoopStart, LoopEnd, Poll, Sleep, End, AfterEmit, Building
  <2>. QED
    BY <1>1, <2>1, <2>2, <2>3 DEF IInv, Answered
<1>. QED
  BY <1>3, <1>4, <1>5

\* Nothing is refused before it has been looked at, and nothing good is refused.
LEMMA ErrorFacts ==
  ASSUME IInv, Building
  PROVE  /\ BuildError \in Errors \cup {"none"}
         /\ BuildError = "none" => req.encodingOk /\ (todo # {} => Good(First))
         /\ req.encodingOk /\ (\A k \in Index : Good(k)) => BuildError = "none"
<1>1. todo # {} => First \in Index
  BY FirstFacts DEF IInv, Types
<1>. QED
  BY <1>1 DEF BuildError, Errors, Good

LEMMA HeadType ==
  ASSUME IInv, Read
  PROVE  Head(inbox).kind \in Kind /\ Head(inbox).seen \in 0..commits
<1>1. Head(inbox) \in Message
  BY DEF Read, IInv, Answered
<1>. QED
  BY <1>1 DEF Message

LEMMA AcceptedKept ==
  ASSUME IInv, Handler
  PROVE  Accepted'
<1>1. Index' = Index /\ req' = req /\ \A k : Good(k)' <=> Good(k)
  BY DEF Handler, Run, Check, BuildRefuse, BuildTake, BuildEmit, Sync, Read, ReadEnd,
         Setup, SetupEnd, LoopStart, LoopEnd, Poll, Sleep, Index, Subs, Good
<1>. USE <1>1 DEF IInv, Phases, Accepted, RefusedBeforeSync, Errors, End
<1>2. CASE Run \/ Check
  BY <1>2 DEF Run, Check, readVars
<1>3. CASE BuildRefuse
  BY <1>3, ErrorFacts DEF BuildRefuse, readVars, Building
<1>4. CASE BuildTake
  BY <1>4, ErrorFacts DEF BuildTake, readVars, clientVars, Building
<1>5. CASE BuildEmit
  BY <1>5, ErrorFacts DEF BuildEmit, readVars, Building, AfterEmit
<1>6. CASE Sync
  BY <1>6 DEF Sync, readVars
<1>7. CASE Read
  BY <1>7, HeadType DEF Read, Kind
<1>11. CASE ReadEnd
  BY <1>11 DEF ReadEnd, readVars
<1>8. CASE Setup \/ SetupEnd
  BY <1>8 DEF Setup, SetupEnd, readVars, clientVars
<1>9. CASE LoopStart \/ LoopEnd
  BY <1>9 DEF LoopStart, LoopEnd, readVars, clientVars
<1>10. CASE Poll \/ Sleep
  BY <1>10 DEF Poll, Sleep, readVars, clientVars
<1>. QED
  BY <1>2, <1>3, <1>4, <1>5, <1>6, <1>7, <1>8, <1>9, <1>10, <1>11 DEF Handler

LEMMA AgedType ==
  ASSUME age \in [Index -> 0..MaxAge], NEW d \in Nat
  PROVE  /\ Aged(d) \in [Index -> 0..MaxAge]
         /\ \A k \in Index : Aged(d)[k] \in {age[k] + d, MaxAge}
<1>1. ASSUME NEW k \in Index
      PROVE  /\ Min({age[k] + d, MaxAge}) \in {age[k] + d, MaxAge}
             /\ Min({age[k] + d, MaxAge}) \in 0..MaxAge
  <2>1. age[k] + d \in Nat /\ MaxAge \in Nat
    BY Bounds
  <2>. QED
    BY <2>1, MinOfTwo
<1>. QED
  BY <1>1 DEF Aged

LEMMA TypesKept ==
  ASSUME IInv, Handler
  PROVE  Types'
<1>1. UNCHANGED <<req, store, commits, cancelled, closed>> /\ Index' = Index
  BY DEF Handler, Run, Check, BuildRefuse, BuildTake, BuildEmit, Sync, Read, ReadEnd,
         Setup, SetupEnd, LoopStart, LoopEnd, Poll, Sleep, envVars, Index, Subs
<1>2. merged' \in Snapshot
  <2>1. CASE BuildTake
    BY <2>1, SnapshotType, MergeType DEF BuildTake, IInv, Types
  <2>2. CASE ~BuildTake
    BY <2>2, EmptyType DEF Handler, Run, Check, BuildRefuse, BuildEmit, Sync, Read, ReadEnd,
         Setup, SetupEnd, LoopStart, LoopEnd, Poll, Sleep, IInv, Types
  <2>. QED
    BY <2>1, <2>2
<1>3. view' \in View
  <2>1. CASE BuildEmit
    BY <2>1, ReceiveFullType DEF BuildEmit, IInv, Types
  <2>2. CASE Poll
    <3>1. First \in Index /\ prev[First] \in Snapshot /\ SnapshotOf(First) \in Snapshot
      BY <2>2, FirstFacts, SnapshotType DEF Poll, IInv, Types
    <3>. QED
      BY <2>2, <3>1, ReceiveType, ReceiveFullType DEF Poll, IInv, Types
  <2>3. CASE ~BuildEmit /\ ~Poll
    BY <2>3 DEF Handler, Run, Check, BuildRefuse, BuildTake, Sync, Read, ReadEnd,
         Setup, SetupEnd, LoopStart, LoopEnd, Sleep, clientVars, IInv, Types
  <2>. QED
    BY <2>1, <2>2, <2>3
<1>4. prev' \in [Index -> Snapshot]
  <2>1. CASE Setup
    BY <2>1, SnapshotType DEF Setup, IInv, Types
  <2>2. CASE Poll
    BY <2>2, SnapshotType DEF Poll, Remembered, IInv, Types
  <2>3. CASE ~Setup /\ ~Poll
    BY <2>3 DEF Handler, Run, Check, BuildRefuse, BuildTake, BuildEmit, Sync, Read, ReadEnd,
         SetupEnd, LoopStart, LoopEnd, Sleep, IInv, Types
  <2>. QED
    BY <2>1, <2>2, <2>3
<1>5. age' \in [Index -> 0..MaxAge]
  <2>1. CASE LoopStart
    <3>1. PICK d \in 1..MaxSlip :
            \E due \in SUBSET chronomap :
              age' = [k \in Index |-> IF k \in due THEN 0 ELSE Aged(d)[k]]
      BY <2>1 DEF LoopStart
    <3>2. Aged(d) \in [Index -> 0..MaxAge] /\ 0 \in 0..MaxAge
      BY AgedType, Bounds DEF IInv, Types
    <3>. QED
      BY <3>1, <3>2
  <2>2. CASE Poll
    <3>1. age' \in {age, [age EXCEPT ![First] = 0]}
      BY <2>2 DEF Poll, Restarted, IInv, Types
    <3>. QED
      BY <3>1, Bounds DEF IInv, Types
  <2>3. CASE ~LoopStart /\ ~Poll
    BY <2>3 DEF Handler, Run, Check, BuildRefuse, BuildTake, BuildEmit, Sync, Read, ReadEnd,
         Setup, SetupEnd, LoopEnd, Sleep, IInv, Types
  <2>. QED
    BY <2>1, <2>2, <2>3
<1>9. quiet' \in [Index -> 0..MaxAge]
  <2>1. CASE LoopStart
    <3>1. PICK d \in 1..MaxSlip :
            quiet' = [k \in Index |-> IF k \in onChange THEN Min({quiet[k] + d, MaxAge})
                                                      ELSE quiet[k]]
      BY <2>1 DEF LoopStart
    <3>2. ASSUME NEW k \in Index PROVE Min({quiet[k] + d, MaxAge}) \in 0..MaxAge
      <4>1. quiet[k] + d \in Nat /\ MaxAge \in Nat
        BY Bounds DEF IInv, Types
      <4>. QED
        BY <4>1, MinOfTwo
    <3>. QED
      BY <3>1, <3>2 DEF IInv, Types
  <2>2. CASE Poll
    <3>1. quiet' \in {quiet, [quiet EXCEPT ![First] = 0]}
      BY <2>2 DEF Poll, IInv, Types
    <3>. QED
      BY <3>1, Bounds DEF IInv, Types
  <2>3. CASE ~LoopStart /\ ~Poll
    BY <2>3 DEF Handler, Run, Check, BuildRefuse, BuildTake, BuildEmit, Sync, Read, ReadEnd,
         Setup, SetupEnd, LoopEnd, Sleep, IInv, Types
  <2>. QED
    BY <2>1, <2>2, <2>3
<1>6. unsent' \subseteq Path
  <2>1. CASE Setup
    <3>1. Subs[First].sel \subseteq Path
      BY <2>1, FirstFacts, IndexFacts DEF Setup, IInv, Types, Subscription
    <3>. QED
      BY <2>1, <3>1 DEF Setup, IInv, Types
  <2>2. CASE Poll
    BY <2>2 DEF Poll, Silent, Removed, Present, IInv, Types
  <2>3. CASE ~Setup /\ ~Poll
    BY <2>3 DEF Handler, Run, Check, BuildRefuse, BuildTake, BuildEmit, Sync, Read, ReadEnd,
         SetupEnd, LoopStart, LoopEnd, Sleep, clientVars, IInv, Types
  <2>. QED
    BY <2>1, <2>2, <2>3
<1>7. message' \in {"first"} \cup Kind /\ asked' \in 0..commits
  <2>1. CASE Read
    BY <2>1, HeadType DEF Read
  <2>2. CASE ~Read
    BY <2>2 DEF Handler, Run, Check, BuildRefuse, BuildTake, BuildEmit, Sync, ReadEnd,
         Setup, SetupEnd, LoopStart, LoopEnd, Poll, Sleep, readVars, IInv, Types
  <2>. QED
    BY <2>1, <2>2
<1>8. status' \in {"running", "OK"} \cup Errors /\ synced' \in BOOLEAN
  <2>1. CASE BuildRefuse
    BY <2>1, ErrorFacts DEF BuildRefuse, End, IInv, Types
  <2>2. CASE ~BuildRefuse
    BY <2>2 DEF Handler, Run, Check, BuildTake, BuildEmit, Sync, Read, ReadEnd, Setup, SetupEnd,
         LoopStart, LoopEnd, Poll, Sleep, End, clientVars, Errors, IInv, Types
  <2>. QED
    BY <2>1, <2>2
<1>. QED
  BY <1>1, <1>2, <1>3, <1>4, <1>5, <1>6, <1>7, <1>8, <1>9 DEF IInv, Types

LEMMA RemembersKept ==
  ASSUME IInv, Handler
  PROVE  Remembers'
<1>1. UNCHANGED <<Index, Subs>>
  BY DEF Handler, Run, Check, BuildRefuse, BuildTake, BuildEmit, Sync, Read, ReadEnd,
         Setup, SetupEnd, LoopStart, LoopEnd, Poll, Sleep, Index, Subs
<1>2. ASSUME pc' = "sample", NEW p \in Present(merged')
      PROVE  \E k \in chronomap' : p \in Subs'[k].sel
  <2>1. CASE BuildTake
    <3>1. First \in chronomap /\ First \in Index
      BY <1>2, <2>1, FirstFacts DEF BuildTake, IInv, Types, Buckets
    <3>2. p \in Present(merged) \/ p \in Present(SnapshotOf(First))
      BY <1>2, <2>1, SnapshotType, MergeType DEF BuildTake, IInv, Types
    <3>3. p \in Present(SnapshotOf(First)) => p \in Subs[First].sel
      BY <1>2, SnapshotType DEF IInv, Types, Present
    <3>. QED
      BY <1>1, <1>2, <2>1, <3>1, <3>2, <3>3 DEF BuildTake, IInv, Remembers
  <2>2. CASE LoopStart
    <3>1. Present(merged') = {}
      BY <2>2, EmptyType DEF LoopStart, IInv, Phases, Building
    <3>. QED
      BY <1>2, <3>1
  <2>3. CASE ~BuildTake /\ ~LoopStart
    BY <1>2, <2>3 DEF Handler, Run, Check, BuildRefuse, BuildEmit, AfterEmit, Building, Sync,
       Read, ReadEnd, Setup, SetupEnd, LoopEnd, Poll, Sleep, End
  <2>. QED
    BY <2>1, <2>2, <2>3
<1>3. ASSUME NEW k \in Index, NEW p \in Path \ Subs[k].sel
      PROVE  prev'[k][p] = NoLeaf
  <2>1. CASE Setup
    BY <1>3, <2>1, SnapshotType DEF Setup, IInv, Types, Remembers
  <2>2. CASE Poll
    BY <1>3, <2>2, SnapshotType DEF Poll, Remembered, IInv, Types, Remembers
  <2>3. CASE ~Setup /\ ~Poll
    BY <1>3, <2>3 DEF Handler, Run, Check, BuildRefuse, BuildTake, BuildEmit, Sync, Read, ReadEnd,
       SetupEnd, LoopStart, LoopEnd, Sleep, IInv, Remembers
  <2>. QED
    BY <2>1, <2>2, <2>3
<1>. QED
  BY <1>1, <1>2, <1>3 DEF Remembers

LEMMA StepHolds ==
  ASSUME IInv, [Next]_vars
  PROVE  IInv'
<1>1. CASE Handler
  BY <1>1, PhasesKept, BucketsKept, AnsweredKept, AcceptedKept, TypesKept, RemembersKept DEF IInv
<1>2. CASE ~Handler
  BY <1>2, OthersKeep DEF Next, Ended
<1>. QED
  BY <1>1, <1>2

LEMMA Invariance == Spec => []IInv
BY InitHolds, StepHolds, PTL DEF Spec
-----------------------------------------------------------------------------
(* The theorems                                                              *)

\* Every reachable state of the handler, its client and their messages is well
\* typed, for any requests, contents and batches; the two buckets of the loop
\* never share a subscription.
THEOREM TypeCorrect == Spec => []TypeOK
<1>1. IInv => TypeOK
  <2> SUFFICES ASSUME IInv PROVE TypeOK
    OBVIOUS
  <2>1. chronomap \cap onChange = {}
    BY DEF IInv, Buckets
  <2>2. syncs \in 0..(MaxMessages + 1)
    <3>1. Len(inbox) \in Nat
      BY DEF IInv, Answered
    <3>. QED
      BY <3>1, Bounds DEF IInv, Answered
  <2>3. inbox \in Seq([kind : Kind, seen : 0..commits]) /\ Len(inbox) <= sent
    BY DEF IInv, Answered, Message
  <2>. QED
    BY <2>1, <2>2, <2>3 DEF IInv, Types, Phases, Buckets, Answered, Building, TypeOK
<1>. QED
  BY <1>1, Invariance, PTL

\* The first message and every Poll have one sync_response each, whatever else
\* the client sends and however the writers interfere.
THEOREM OneSyncEach == Spec => []OneSyncPerPoll
<1>1. IInv => OneSyncPerPoll
  BY DEF IInv, Answered, OneSyncPerPoll
<1>. QED
  BY <1>1, Invariance, PTL

\* A client that has been told it is in sync is not refused afterwards, but for
\* a stream of updates only and a client that sends something else than a Poll.
THEOREM NoLateRefusal == Spec => []RefusedBeforeSync
<1>1. IInv => RefusedBeforeSync
  BY DEF IInv, Accepted
<1>. QED
  BY <1>1, Invariance, PTL

-----------------------------------------------------------------------------
(* The pace of the heartbeats                                                *)

\* The interval of k, if it has one, is not over for its client.
Quiet(k) == Subs[k].heartbeat # 0 /\ Subs[k].heartbeat < HalfRange =>
              quiet[k] < Subs[k].heartbeat

\* What the handler has of the time since a heartbeat is what the client has
\* seen of it, from the setup on; and the heartbeats that are due are sent in the
\* pass in which they are.
Beats ==
  /\ \A k \in onChange : quiet[k] = age[k]
  /\ pc \notin {"loop", "sample", "onchange", "done"} =>
       \A k \in Index : age[k] = 0 /\ quiet[k] = 0
  /\ pc = "loop" => \A k \in onChange : Quiet(k)
  /\ pc = "onchange" => \A k \in onChange \ todo : Quiet(k)

\* The fields of a subscription in one of the buckets.
LEMMA BucketFacts ==
  ASSUME IInv, NEW k \in chronomap \cup onChange
  PROVE  /\ k \in Index /\ Subs[k].heartbeat \in Nat
         /\ age[k] \in 0..MaxAge /\ quiet[k] \in 0..MaxAge /\ MaxAge \in Nat
         /\ HalfRange \in Nat /\ MaxSlip \in Nat
         /\ k \in onChange => k \notin chronomap
<1>1. k \in Index /\ (k \in onChange => k \notin chronomap)
  BY DEF IInv, Buckets
<1>2. Subs[k] \in Subscription
  BY <1>1, IndexFacts DEF IInv, Types
<1>3. Subs[k].heartbeat \in 0..(2 * HalfRange - 1)
  BY <1>2 DEF Subscription
<1>. QED
  BY <1>1, <1>3, Bounds DEF IInv, Types

LEMMA BeatsStart ==
  ASSUME IInv, Beats, LoopStart
  PROVE  Beats'
<1>1. PICK d \in 1..MaxSlip :
        \E due \in SUBSET chronomap :
          /\ age' = [k \in Index |-> IF k \in due THEN 0 ELSE Aged(d)[k]]
          /\ quiet' = [k \in Index |-> IF k \in onChange THEN Min({quiet[k] + d, MaxAge})
                                                       ELSE quiet[k]]
          /\ (pc' = "onchange" /\ todo' = onChange) \/ pc' = "sample"
          /\ onChange' = onChange
  BY DEF LoopStart, Polled
<1>2. ASSUME NEW k \in onChange PROVE quiet'[k] = age'[k]
  <2>1. k \in Index /\ k \notin chronomap /\ quiet[k] = age[k]
    BY BucketFacts DEF Beats
  <2>2. age'[k] = Aged(d)[k] /\ quiet'[k] = Min({quiet[k] + d, MaxAge})
    BY <1>1, <2>1
  <2>. QED
    BY <2>1, <2>2 DEF Aged
<1>. QED
  BY <1>1, <1>2 DEF Beats

LEMMA BeatsPoll ==
  ASSUME IInv, Beats, Poll
  PROVE  Beats'
<1>. DEFINE f == First
            beat == HeartbeatDue(f)
<1>1. /\ f \in onChange /\ onChange' = onChange /\ req' = req
      /\ pc' = "onchange" /\ todo' = todo \ {f} /\ pc = "onchange"
  BY FirstFacts DEF Poll, IInv, Types, Buckets
<1>2. /\ \A k \in onChange : k # f => quiet'[k] = quiet[k] /\ age'[k] = age[k]
      /\ quiet'[f] = (IF beat THEN 0 ELSE quiet[f])
      /\ age'[f] = IF beat THEN 0 ELSE age[f]
  BY <1>1, BucketFacts DEF Poll, Restarted, IInv, Types
<1>3. ~beat => Quiet(f)
  BY <1>1, BucketFacts DEF HeartbeatDue, Signed, Quiet, Beats
<1>4. beat => Subs[f].heartbeat \in Nat /\ Subs[f].heartbeat # 0
  BY <1>1, BucketFacts DEF HeartbeatDue
<1>5. \A k : Subs'[k] = Subs[k]
  BY <1>1 DEF Subs
<1>. HIDE DEF f, beat
<1>6. ASSUME NEW k \in onChange \ todo' PROVE Quiet(k)'
  <2>1. CASE k = f
    BY <1>2, <1>3, <1>4, <1>5, <2>1 DEF Quiet
  <2>2. CASE k # f
    <3>1. Quiet(k) /\ quiet'[k] = quiet[k]
      BY <1>1, <1>2, <1>6, <2>2 DEF Beats
    <3>. QED
      BY <1>5, <3>1 DEF Quiet
  <2>. QED
    BY <2>1, <2>2
<1>7. \A k \in onChange : quiet'[k] = age'[k]
  BY <1>1, <1>2 DEF Beats
<1>. QED
  BY <1>1, <1>6, <1>7 DEF Beats

LEMMA BeatsKept ==
  ASSUME IInv, Beats, [Next]_vars
  PROVE  Beats'
<1>1. CASE LoopStart \/ Poll
  BY <1>1, BeatsStart, BeatsPoll
<1>2. CASE ~LoopStart /\ ~Poll
  <2>1. UNCHANGED <<req, age, quiet>>
    BY <1>2 DEF Next, Handler, Run, Check, BuildRefuse, BuildTake, BuildEmit, Sync, Read,
       ReadEnd, Setup, SetupEnd, LoopEnd, Sleep, Commit, Cancel, Send, Close, Ended,
       vars, handlerVars
  <2>2. \A k : Quiet(k)' <=> Quiet(k)
    BY <2>1 DEF Quiet, Subs
  <2>3. Index' = Index
    BY <2>1 DEF Index, Subs
  <2>4. CASE Setup
    <3>1. pc = "setup" /\ pc' = "setup" /\ onChange' \subseteq Index
      BY <2>4, FirstFacts DEF Setup, IInv, Types, Buckets
    <3>. QED
      BY <2>1, <2>3, <3>1 DEF Beats
  <2>5. CASE SetupEnd
    <3>1. pc = "setup" /\ pc' = "loop" /\ onChange' = onChange
      BY <2>5 DEF SetupEnd
    <3>2. \A k \in onChange : Quiet(k)
      BY <3>1, BucketFacts DEF Beats, Quiet
    <3>. QED
      BY <2>1, <2>2, <3>1, <3>2 DEF Beats
  <2>6. CASE ~Setup /\ ~SetupEnd
    <3>1. onChange' = onChange
      BY <1>2, <2>6 DEF Next, Handler, Run, Check, BuildRefuse, BuildTake, BuildEmit, Sync, Read,
         ReadEnd, LoopEnd, Sleep, Commit, Cancel, Send, Close, Ended, vars, handlerVars
    <3>2. \/ pc' = pc /\ (pc = "onchange" => todo' = todo)
          \/ pc' = "done"
          \/ pc' = "onchange" /\ todo' = onChange
          \/ pc = "onchange" /\ pc' = "loop" /\ todo = {}
          \/ /\ pc \notin {"loop", "sample", "onchange", "done"}
             /\ pc' \notin {"loop", "sample", "onchange", "done"}
      BY <1>2, <2>6 DEF Next, Handler, Run, Check, BuildRefuse, BuildTake, BuildEmit, AfterEmit,
         Polled, Building, Sync, Read, ReadEnd, LoopEnd, Sleep, End, Commit, Cancel, Send, Close,
         Ended, vars, handlerVars
    <3>. QED
      BY <2>1, <2>2, <2>3, <3>1, <3>2 DEF Beats
  <2>. QED
    BY <2>4, <2>5, <2>6
<1>. QED
  BY <1>1, <1>2

\* Two heartbeats of an entry are at least its interval apart at the client, and
\* no pass of the loop ends with one overdue, for any interval below 2^63, any
\* length of the passes and any mixture of subscriptions.
THEOREM HeartbeatsInTime == Spec => HeartbeatsOncePerInterval
<1>. DEFINE Paced ==
       \A k \in onChange : Subs[k].heartbeat < HalfRange =>
         /\ quiet'[k] = 0 /\ quiet[k] # 0 => /\ Subs[k].heartbeat # 0
                                           /\ quiet[k] >= Subs[k].heartbeat
         /\ pc' = "loop" /\ Subs[k].heartbeat # 0 => quiet'[k] < Subs[k].heartbeat
<1>1. Init => Beats
  BY DEF Init, Beats
<1>2. IInv /\ Beats /\ Beats' /\ [Next]_vars => [Paced]_vars
  <2> SUFFICES ASSUME IInv, Beats, Beats', Next,
                      NEW k \in onChange, Subs[k].heartbeat < HalfRange
               PROVE  /\ quiet'[k] = 0 /\ quiet[k] # 0 => /\ Subs[k].heartbeat # 0
                                                         /\ quiet[k] >= Subs[k].heartbeat
                      /\ pc' = "loop" /\ Subs[k].heartbeat # 0 =>
                           quiet'[k] < Subs[k].heartbeat
    OBVIOUS
  <2>1. ASSUME pc' = "loop", Subs[k].heartbeat # 0 PROVE quiet'[k] < Subs[k].heartbeat
    <3>1. onChange' = onChange /\ req' = req
      BY <2>1 DEF Next, Handler, Run, Check, BuildRefuse, BuildTake, BuildEmit, AfterEmit, Sync,
         Read, ReadEnd, Setup, SetupEnd, LoopStart, LoopEnd, Poll, Sleep, End, Commit, Cancel,
         Send, Close, Ended, vars, handlerVars
    <3>. QED
      BY <2>1, <3>1 DEF Beats, Quiet, Subs
  <2>2. ASSUME quiet'[k] = 0, quiet[k] # 0
        PROVE  Subs[k].heartbeat # 0 /\ quiet[k] >= Subs[k].heartbeat
    <3>1. CASE LoopStart
      <4>1. PICK d \in 1..MaxSlip :
              quiet' = [j \in Index |-> IF j \in onChange THEN Min({quiet[j] + d, MaxAge})
                                                        ELSE quiet[j]]
        BY <3>1 DEF LoopStart
      <4>2. k \in Index /\ quiet[k] \in 0..MaxAge /\ MaxAge \in Nat /\ MaxSlip \in Nat
        BY BucketFacts
      <4>3. quiet'[k] = Min({quiet[k] + d, MaxAge})
        BY <4>1, <4>2
      <4>4. quiet'[k] \in {quiet[k] + d, MaxAge}
        BY <4>2, <4>3, MinOfTwo
      <4>. QED
        BY <2>2, <4>2, <4>4
    <3>2. CASE Poll
      <4>1. k = First /\ HeartbeatDue(k)
        BY <2>2, <3>2 DEF Poll, IInv, Types
      <4>2. quiet[k] = age[k]
        BY DEF Beats
      <4>. QED
        BY <4>1, <4>2 DEF HeartbeatDue, Signed
    <3>3. CASE ~LoopStart /\ ~Poll
      <4>1. quiet' = quiet
        BY <3>3 DEF Next, Handler, Run, Check, BuildRefuse, BuildTake, BuildEmit, Sync, Read,
           ReadEnd, Setup, SetupEnd, LoopEnd, Sleep, Commit, Cancel, Send, Close, Ended,
           vars, handlerVars
      <4>. QED
        BY <2>2, <4>1
    <3>. QED
      BY <3>1, <3>2, <3>3
  <2>. QED
    BY <2>1, <2>2
<1>. QED
  BY <1>1, <1>2, BeatsKept, Invariance, PTL DEF Spec, HeartbeatsOncePerInterval
-----------------------------------------------------------------------------
(* The client's copy of the leaves served by diff                            *)

\* A poll brings the leaves it tells of up to date and leaves the others alone.
LEMMA PollTells ==
  ASSUME NEW s \in Snapshot, NEW t \in Snapshot, NEW v \in View, NEW beat \in BOOLEAN,
         NEW w, w = Receive(v, IF beat THEN BuildFull(t, Now) ELSE BuildChange(s, t, Now)),
         NEW p \in Path
  PROVE  /\ p \in Told(s, t, beat) => w[p] = ValueOf(t[p])
         /\ p \notin Told(s, t, beat) => w[p] = v[p]
<1>1. CASE beat
  <2>1. p \in Told(s, t, beat) <=>
          p \in Present(t) \/ (GroupOf[p] # Flat /\ Members(t, GroupOf[p]) # {})
    BY <1>1 DEF Told, Members, Present
  <2>2. p \notin Present(t) => ValueOf(t[p]) = NoLeaf
    BY DEF Present, ValueOf
  <2>3. w = Receive(v, BuildFull(t, Now))
    BY <1>1
  <2>4. /\ p \in Present(t) => w[p] = ValueOf(t[p])
        /\ p \notin Present(t) =>
             IF GroupOf[p] # Flat /\ Members(t, GroupOf[p]) # {}
             THEN w[p] = NoLeaf ELSE w[p] = v[p]
    BY <2>3, ReceiveFull
  <2>. QED
    BY <2>1, <2>2, <2>4
<1>2. CASE ~beat
  <2>1. p \in Told(s, t, beat) <=>
          p \in Changed(s, t) \/ (GroupOf[p] # Flat /\ GroupOf[p] \in Touched(s, t))
    BY <1>2 DEF Told, Touched, Changed, Updated, Removed, Present
  <2>. QED
    BY <1>2, <2>1, ReceiveChange
<1>. QED
  BY <1>1, <1>2

\* What a poll does not tell of has not changed, but for a removal under a
\* heartbeat.
LEMMA UntoldIsKnown ==
  ASSUME NEW s \in Snapshot, NEW t \in Snapshot, NEW beat \in BOOLEAN,
         NEW p \in Path, p \notin Told(s, t, beat)
  PROVE  \/ ValueOf(s[p]) = ValueOf(t[p])
         \/ p \in Silent(s, t, beat) /\ ValueOf(t[p]) = NoLeaf
<1>1. CASE beat
  <2>1. t[p] = NoLeaf /\ (GroupOf[p] = Flat \/ Members(t, GroupOf[p]) = {})
    BY <1>1 DEF Told, Members, Present
  <2>2. s[p] # NoLeaf => p \in Removed(s, t)
    BY <2>1 DEF Removed, Present
  <2>. QED
    BY <1>1, <2>1, <2>2 DEF Silent, ValueOf
<1>2. CASE ~beat
  BY <1>2 DEF Told, Changed, Updated, Removed, Present, ValueOf
<1>. QED
  BY <1>1, <1>2

\* A subscription that does not select a leaf never tells of it, when it
\* selects its container as a whole or not at all.
LEMMA OthersUntold ==
  ASSUME NEW k \in Index, NEW s \in Snapshot, NEW t \in Snapshot, NEW beat \in BOOLEAN,
         \A q \in Path \ Subs[k].sel : s[q] = NoLeaf /\ t[q] = NoLeaf,
         NEW p \in Path \ Subs[k].sel, Whole(p)
  PROVE  p \notin Told(s, t, beat)
<1>1. ASSUME NEW q \in Path, GroupOf[q] = GroupOf[p], q = p \/ GroupOf[p] # Flat
      PROVE  q \notin Present(t) /\ q \notin Changed(s, t)
  <2>1. q \notin Subs[k].sel
    BY <1>1 DEF Whole, GroupPaths
  <2>. QED
    BY <2>1 DEF Present, Changed, Updated, Removed
<1>2. p \in Told(s, t, beat) =>
        \E q \in Path : /\ q \in Present(t) \/ q \in Changed(s, t)
                        /\ GroupOf[q] = GroupOf[p] /\ (q = p \/ GroupOf[p] # Flat)
  BY DEF Told, Present, Changed, Updated, Removed
<1>. QED
  BY <1>1, <1>2

\* The samples of other subscriptions do not touch a leaf served by diff alone.
LEMMA SamplesApart ==
  ASSUME IInv, pc = "sample", NEW p \in Watched
  PROVE  Receive(view, BuildFull(merged, Now))[p] = view[p]
<1>1. ASSUME NEW q \in Present(merged), GroupOf[q] = GroupOf[p], q = p \/ GroupOf[p] # Flat
      PROVE  FALSE
  <2>1. PICK k \in chronomap : q \in Subs[k].sel
    BY DEF IInv, Remembers
  <2>2. k \in Index /\ ResolveMode(Subs[k]) = "SAMPLE"
    BY DEF IInv, Buckets
  <2>3. p \in Subs[k].sel
    BY <1>1, <2>1, <2>2 DEF Watched, Whole, GroupPaths, Present
  <2>. QED
    BY <2>2, <2>3 DEF Watched, Sampled
<1>2. p \in Path /\ p \notin Present(merged)
  BY <1>1 DEF Watched
<1>3. GroupOf[p] = Flat \/ Members(merged, GroupOf[p]) = {}
  BY <1>1 DEF Members
<1>. QED
  BY <1>2, <1>3, ReceiveFull DEF IInv, Types

LEMMA PollMirrors ==
  ASSUME IInv, Mirror, Poll
  PROVE  Mirror'
<1>. DEFINE k == First
            cur == SnapshotOf(k)
            beat == HeartbeatDue(k)
            told == Told(prev[k], cur, beat)
<1>1. /\ k \in onChange /\ k \in Index
      /\ prev[k] \in Snapshot /\ cur \in Snapshot /\ beat \in BOOLEAN /\ view \in View
  BY FirstFacts, SnapshotType DEF Poll, HeartbeatDue, IInv, Types, Buckets
<1>2. /\ UNCHANGED <<req, onChange>>
      /\ prev' = [prev EXCEPT ![k] = cur]
      /\ view' = Receive(view, IF beat THEN BuildFull(cur, Now) ELSE BuildChange(prev[k], cur, Now))
      /\ unsent' = (unsent \ (told \cap Subs[k].sel))
                     \cup {p \in Silent(prev[k], cur, beat) : view[p] # NoLeaf}
  BY DEF Poll, Remembered
<1>3. Watched' = Watched /\ Subs' = Subs
  BY <1>2 DEF Watched, Sampled, Whole, Index, Subs
<1>4. prev'[k] = cur /\ \A j \in Index \ {k} : prev'[j] = prev[j]
  BY <1>1, <1>2 DEF IInv, Types
<1>. HIDE DEF k, cur, beat, told
<1>5. ASSUME NEW p \in Watched
      PROVE  \/ p \in unsent'
             \/ \E j \in onChange : p \in Subs[j].sel /\ view'[p] = ValueOf(prev'[j][p])
  <2>1. p \in Path /\ Whole(p)
    BY DEF Watched
  <2>2. /\ p \in told => view'[p] = ValueOf(cur[p])
        /\ p \notin told => view'[p] = view[p]
    BY <1>1, <1>2, <2>1, PollTells DEF told
  <2>3. \/ p \in unsent
        \/ \E j \in onChange : p \in Subs[j].sel /\ view[p] = ValueOf(prev[j][p])
    BY DEF Mirror
  <2>4. CASE p \in Subs[k].sel /\ p \in told
    BY <1>1, <1>4, <2>2, <2>4
  <2>5. CASE p \in Subs[k].sel /\ p \notin told
    <3>1. CASE p \in unsent
      BY <1>2, <2>5, <3>1
    <3>2. CASE \E j \in onChange \ {k} : p \in Subs[j].sel /\ view[p] = ValueOf(prev[j][p])
      BY <1>4, <2>2, <2>5, <3>2 DEF IInv, Buckets
    <3>3. CASE view[p] = ValueOf(prev[k][p])
      <4>1. \/ ValueOf(prev[k][p]) = ValueOf(cur[p])
            \/ p \in Silent(prev[k], cur, beat) /\ ValueOf(cur[p]) = NoLeaf
        BY <1>1, <2>1, <2>5, UntoldIsKnown DEF told
      <4>. QED
        BY <1>1, <1>2, <1>4, <2>2, <2>5, <3>3, <4>1
    <3>. QED
      BY <2>3, <3>1, <3>2, <3>3
  <2>6. CASE p \notin Subs[k].sel
    <3>1. p \notin told
      <4>1. \A q \in Path \ Subs[k].sel : prev[k][q] = NoLeaf /\ cur[q] = NoLeaf
        BY <1>1, SnapshotType DEF IInv, Types, Remembers, cur
      <4>. QED
        BY <1>1, <2>1, <2>6, <4>1, OthersUntold DEF told
    <3>. QED
      BY <1>2, <1>4, <2>2, <2>3, <2>6, <3>1 DEF IInv, Buckets
  <2>. QED
    BY <2>4, <2>5, <2>6
<1>. QED
  BY <1>2, <1>3, <1>5 DEF Mirror

LEMMA SetupMirrors ==
  ASSUME IInv, Mirror, Setup
  PROVE  Mirror'
<1>. DEFINE k == First
            base == SnapshotOf(k)
<1>1. UNCHANGED <<req, view>> /\ Subs' = Subs /\ Index' = Index
  BY DEF Setup, Index, Subs
<1>2. CASE ResolveMode(Subs[k]) # "ON_CHANGE"
  <2>1. UNCHANGED <<onChange, prev, unsent>>
    BY <1>2 DEF Setup
  <2>. QED
    BY <1>1, <2>1 DEF Mirror, Watched, Sampled, Whole
<1>3. CASE ResolveMode(Subs[k]) = "ON_CHANGE"
  <2>1. /\ onChange' = onChange \cup {k}
        /\ prev' = [prev EXCEPT ![k] = base]
        /\ unsent' = (unsent \ Subs[k].sel)
                       \cup {p \in Subs[k].sel : view[p] # ValueOf(base[p])}
    BY <1>3 DEF Setup
  <2>2. k \in Index
    BY FirstFacts DEF Setup, IInv, Types
  <2>3. prev'[k] = base /\ \A j \in Index \ {k} : prev'[j] = prev[j]
    BY <2>1, <2>2 DEF IInv, Types
  <2>. HIDE DEF k, base
  <2>4. ASSUME NEW p \in Watched'
        PROVE  \/ p \in unsent'
               \/ \E j \in onChange' : p \in Subs[j].sel /\ view[p] = ValueOf(prev'[j][p])
    <3>1. CASE p \in Subs[k].sel
      BY <2>1, <2>3, <3>1
    <3>2. CASE p \notin Subs[k].sel
      <4>1. p \in Watched
        BY <1>1, <2>1, <3>2 DEF Watched, Sampled, Whole, ResolveMode
      <4>2. \/ p \in unsent
            \/ \E j \in onChange : p \in Subs[j].sel /\ view[p] = ValueOf(prev[j][p])
        BY <4>1 DEF Mirror
      <4>. QED
        BY <2>1, <2>3, <3>2, <4>2 DEF IInv, Buckets
    <3>. QED
      BY <3>1, <3>2
  <2>. QED
    BY <1>1, <2>4 DEF Mirror
<1>. QED
  BY <1>2, <1>3

\* Overlapping subscriptions, samples and heartbeats never disturb for good what
\* the diffs maintain: a leaf served by diff is, in the client's copy, what a
\* subscription that selects it saw last, unless the client was never told.
THEOREM DiffsMirror == Spec => []Mirror
<1>1. Init => Mirror
  BY DEF Init, Mirror, Watched
<1>2. IInv /\ Mirror /\ [Next]_vars => Mirror'
  <2> SUFFICES ASSUME IInv, Mirror, [Next]_vars PROVE Mirror'
    OBVIOUS
  <2>1. CASE BuildEmit
    <3>1. CASE pc = "sample"
      <4>1. UNCHANGED <<req, onChange, prev, unsent>>
            /\ view' = Receive(view, BuildFull(merged, Now))
        BY <2>1 DEF BuildEmit
      <4>2. Watched' = Watched /\ Subs' = Subs
        BY <4>1 DEF Watched, Sampled, Whole, Index, Subs
      <4>3. \A p \in Watched : view'[p] = view[p]
        BY <3>1, <4>1, SamplesApart
      <4>. QED
        BY <4>1, <4>2, <4>3 DEF Mirror
    <3>2. CASE pc # "sample"
      <4>1. onChange' = {}
        BY <2>1, <3>2 DEF BuildEmit, Building, IInv, Buckets
      <4>. QED
        BY <4>1 DEF Mirror, Watched
    <3>. QED
      BY <3>1, <3>2
  <2>2. CASE Setup \/ Poll
    BY <2>2, SetupMirrors, PollMirrors
  <2>3. CASE ~BuildEmit /\ ~Setup /\ ~Poll
    <3>1. UNCHANGED <<req, onChange, prev, view, unsent>>
      BY <2>3 DEF Next, Handler, Run, Check, BuildRefuse, BuildTake, Sync, Read, ReadEnd,
         SetupEnd, LoopStart, LoopEnd, Sleep, Commit, Cancel, Send, Close, Ended,
         vars, handlerVars, clientVars
    <3>. QED
      BY <3>1 DEF Mirror, Watched, Sampled, Whole, Index, Subs
  <2>. QED
    BY <2>1, <2>2, <2>3
<1>. QED
  BY <1>1, <1>2, Invariance, PTL DEF Spec
-----------------------------------------------------------------------------
(* The atomic records in the client's copy                                   *)

Intact(c) == (\A p \in GroupPaths(c) : Whole(p)) /\ ~Merged(c)

Known(c) == past[c] \cup {Record(Empty, c)}

\* The history follows the store, what is being merged comes from subscriptions
\* already visited, and no record is a mixture, neither there nor at the client.
Records ==
  /\ \A c \in Container : Record(Values(store), c) \in past[c]
  /\ Building => \A p \in Present(merged) : \E k \in Index \ todo : p \in Subs[k].sel
  /\ \A c \in Container : Intact(c) =>
       Record(Values(merged), c) \in Known(c) /\ Record(view, c) \in Known(c)

LEMMA SameRecord ==
  ASSUME NEW s, NEW t, NEW c, \A p \in GroupPaths(c) : s[p] = t[p]
  PROVE  Record(s, c) = Record(t, c)
BY DEF Record, GroupPaths

LEMMA EmptyRecord ==
  ASSUME NEW s \in Snapshot, NEW c, \A p \in GroupPaths(c) : s[p] = NoLeaf
  PROVE  Record(Values(s), c) = Record(Empty, c)
BY DEF Record, GroupPaths, Values, ValueOf, Empty

\* A subscription's snapshot has the record of the store, or nothing of it.
LEMMA SnapshotRecord ==
  ASSUME NEW k \in Index, NEW c \in Container, Intact(c)
  PROVE  \/ \A p \in GroupPaths(c) : p \in Subs[k].sel /\ SnapshotOf(k)[p] = store[p]
         \/ \A p \in GroupPaths(c) : p \notin Subs[k].sel /\ SnapshotOf(k)[p] = NoLeaf
BY FlatAssumption DEF Intact, Whole, GroupPaths, SnapshotOf

\* What the client is sent replaces a record as a whole or leaves it alone.
LEMMA TellsRecords ==
  ASSUME NEW s \in Snapshot, NEW t \in Snapshot, NEW v \in View, NEW beat \in BOOLEAN,
         NEW w, w = Receive(v, IF beat THEN BuildFull(t, Now) ELSE BuildChange(s, t, Now)),
         NEW c \in Container
  PROVE  Record(w, c) \in {Record(Values(t), c), Record(v, c)}
<1>1. CASE \E p \in GroupPaths(c) : p \in Told(s, t, beat)
  <2>1. ASSUME NEW p \in GroupPaths(c) PROVE p \in Told(s, t, beat)
    BY <1>1, FlatAssumption DEF Told, GroupPaths
  <2>2. \A p \in GroupPaths(c) : w[p] = Values(t)[p]
    BY <2>1, PollTells DEF GroupPaths, Values
  <2>. QED
    BY <2>2, SameRecord
<1>2. CASE \A p \in GroupPaths(c) : p \notin Told(s, t, beat)
  <2>1. \A p \in GroupPaths(c) : w[p] = v[p]
    BY <1>2, PollTells DEF GroupPaths
  <2>. QED
    BY <2>1, SameRecord
<1>. QED
  BY <1>1, <1>2

LEMMA TakeRecords ==
  ASSUME IInv, Records, BuildTake
  PROVE  Records'
<1>. DEFINE k == First
            cur == SnapshotOf(k)
<1>1. /\ k \in todo /\ k \in Index /\ cur \in Snapshot
      /\ merged \in Snapshot /\ Merge(merged, cur) \in Snapshot
  BY FirstFacts, SnapshotType, MergeType DEF BuildTake, IInv, Types
<1>2. UNCHANGED <<req, store, past, view, pc>> /\ merged' = Merge(merged, cur)
      /\ todo' = todo \ {k} /\ Building
  BY DEF BuildTake, envVars, clientVars
<1>3. \A c : (Intact(c) <=> Intact(c)') /\ Known(c)' = Known(c)
  BY <1>2 DEF Intact, Whole, Merged, Index, Subs, Known
<1>4. Index' = Index /\ Subs' = Subs
  BY <1>2 DEF Index, Subs
<1>. HIDE DEF k
<1>5. ASSUME NEW p \in Present(merged') PROVE \E j \in Index \ todo' : p \in Subs[j].sel
  <2>1. p \in Present(merged) \/ p \in Present(cur)
    BY <1>1, <1>2, MergeType
  <2>2. p \in Present(cur) => p \in Subs[k].sel
    BY <1>1, SnapshotType DEF Present, IInv, Types
  <2>. QED
    BY <1>1, <1>2, <2>1, <2>2 DEF Records
<1>6. ASSUME NEW c \in Container, Intact(c)
      PROVE  Record(Values(merged'), c) \in Known(c)
  <2>1. CASE \A p \in GroupPaths(c) : p \in Subs[k].sel /\ cur[p] = store[p]
    <3>1. ASSUME NEW p \in GroupPaths(c) PROVE merged[p] = NoLeaf
      <4>1. SUFFICES ASSUME merged[p] # NoLeaf PROVE FALSE
        OBVIOUS
      <4>2. PICK j \in Index \ todo : p \in Subs[j].sel
        BY <1>2, <4>1 DEF Records, Present, GroupPaths
      <4>3. Merged(c)
        BY <1>1, <2>1, <3>1, <4>2 DEF Merged
      <4>. QED
        BY <1>6, <4>3 DEF Intact
    <3>2. \A p \in GroupPaths(c) : Values(merged')[p] = Values(store)[p]
      BY <1>2, <2>1, <3>1 DEF Merge, Values, GroupPaths
    <3>3. Record(Values(merged'), c) = Record(Values(store), c)
      BY <3>2, SameRecord
    <3>. QED
      BY <3>3 DEF Records, Known
  <2>2. CASE \A p \in GroupPaths(c) : p \notin Subs[k].sel /\ cur[p] = NoLeaf
    <3>1. \A p \in GroupPaths(c) : Values(merged')[p] = Values(merged)[p]
      BY <1>2, <2>2 DEF Merge, Values, GroupPaths
    <3>2. Record(Values(merged'), c) = Record(Values(merged), c)
      BY <3>1, SameRecord
    <3>. QED
      BY <1>6, <3>2 DEF Records
  <2>. QED
    BY <1>1, <1>6, <2>1, <2>2, SnapshotRecord
<1>. QED
  BY <1>2, <1>3, <1>4, <1>5, <1>6 DEF Records

\* What is written to the client replaces records by whole records.
LEMMA WriteRecords ==
  ASSUME IInv, Records, BuildEmit \/ Poll
  PROVE  Records'
<1>1. UNCHANGED <<req, store, past>>
  BY DEF BuildEmit, Poll, envVars
<1>2. \A c : (Intact(c) <=> Intact(c)') /\ Known(c)' = Known(c)
  BY <1>1 DEF Intact, Whole, Merged, Index, Subs, Known
<1>3. merged' = Empty /\ ~Building'
  BY DEF BuildEmit, AfterEmit, Poll, Building, IInv, Phases
<1>4. ASSUME NEW c \in Container, Intact(c)
      PROVE  Record(view', c) \in Known(c)
  <2>1. Record(view, c) \in Known(c) /\ Record(Values(merged), c) \in Known(c)
    BY <1>4 DEF Records
  <2>2. CASE BuildEmit
    <3>1. view' = Receive(view, IF TRUE THEN BuildFull(merged, Now)
                                        ELSE BuildChange(Empty, merged, Now))
      BY <2>2 DEF BuildEmit
    <3>2. /\ TRUE \in BOOLEAN /\ Empty \in Snapshot
          /\ merged \in Snapshot /\ view \in View
      BY EmptyType DEF IInv, Types
    <3>3. Record(view', c) \in {Record(Values(merged), c), Record(view, c)}
      BY <3>1, <3>2, TellsRecords
    <3>. QED
      BY <2>1, <3>3
  <2>3. CASE Poll
    <3>1. /\ First \in Index /\ prev[First] \in Snapshot
          /\ SnapshotOf(First) \in Snapshot /\ HeartbeatDue(First) \in BOOLEAN
      BY <2>3, FirstFacts, SnapshotType DEF Poll, HeartbeatDue, IInv, Types
    <3>2. Record(Values(SnapshotOf(First)), c) \in Known(c)
      <4>1. CASE \A p \in GroupPaths(c) : SnapshotOf(First)[p] = store[p]
        <5>1. \A p \in GroupPaths(c) : Values(SnapshotOf(First))[p] = Values(store)[p]
          BY <4>1 DEF Values, GroupPaths
        <5>. QED
          BY <5>1, SameRecord DEF Records, Known
      <4>2. CASE \A p \in GroupPaths(c) : SnapshotOf(First)[p] = NoLeaf
        BY <3>1, <4>2, EmptyRecord DEF Known
      <4>. QED
        BY <1>4, <3>1, <4>1, <4>2, SnapshotRecord
    <3>3. Record(view', c) \in {Record(Values(SnapshotOf(First)), c), Record(view, c)}
      BY <2>3, <3>1, TellsRecords DEF Poll, IInv, Types
    <3>. QED
      BY <2>1, <3>2, <3>3
  <2>. QED
    BY <2>2, <2>3
<1>5. \A c : Record(Values(merged'), c) \in Known(c)
  BY <1>3, EmptyType, EmptyRecord DEF Known, Empty, GroupPaths
<1>. QED
  BY <1>1, <1>2, <1>3, <1>4, <1>5 DEF Records

\* A commit adds to the history; it changes nothing the handler or the client has.
LEMMA CommitRecords ==
  ASSUME IInv, Records, Commit
  PROVE  Records'
<1>1. UNCHANGED <<req, handlerVars, view>>
  BY DEF Commit, clientVars
<1>2. past' = [c \in Container |-> past[c] \cup {Record(Values(store'), c)}]
  BY DEF Commit
<1>3. \A c : Intact(c) <=> Intact(c)'
  BY <1>1 DEF Intact, Whole, Merged, Index, Subs
<1>4. \A c \in Container : Known(c) \subseteq Known(c)'
  BY <1>2 DEF Known
<1>. QED
  BY <1>1, <1>2, <1>3, <1>4 DEF Records, handlerVars, Building, Index, Subs

\* The atomic records of containers that one subscription selects are never
\* torn at the client: each is one that a commit left in the store.
THEOREM RecordsWhole == Spec => []RecordsNotTorn
<1>1. Init => Records
  <2> SUFFICES ASSUME Init PROVE Records
    OBVIOUS
  <2>1. merged = Empty /\ view = Empty /\ Present(merged) = {}
    BY EmptyType DEF Init
  <2>2. \A c : Record(Values(merged), c) = Record(Empty, c)
    BY <2>1, EmptyType, EmptyRecord DEF Empty, GroupPaths
  <2>. QED
    BY <2>1, <2>2 DEF Init, Records, Known
<1>2. IInv /\ Records /\ [Next]_vars => Records'
  <2> SUFFICES ASSUME IInv, Records, [Next]_vars PROVE Records'
    OBVIOUS
  <2>1. CASE BuildTake \/ BuildEmit \/ Poll \/ Commit
    BY <2>1, TakeRecords, WriteRecords, CommitRecords
  <2>2. CASE ~(BuildTake \/ BuildEmit \/ Poll \/ Commit)
    <3>1. UNCHANGED <<req, store, past, view>>
      BY <2>2 DEF Next, Handler, Run, Check, BuildRefuse, Sync, Read, ReadEnd, Setup,
         SetupEnd, LoopStart, LoopEnd, Sleep, Cancel, Send, Close, Ended,
         vars, clientVars, envVars
    <3>2. merged' \in {merged, Empty} /\ (Building' => merged' = Empty \/ UNCHANGED <<pc, todo>>)
      BY <2>2 DEF Next, Handler, Run, Check, BuildRefuse, Sync, Read, ReadEnd, Setup, IInv, Phases,
         SetupEnd, LoopStart, LoopEnd, Sleep, Cancel, Send, Close, Ended,
         vars, handlerVars, Building
    <3>3. \A c : (Intact(c) <=> Intact(c)') /\ Known(c)' = Known(c)
      BY <3>1 DEF Intact, Whole, Merged, Index, Subs, Known
    <3>4. Building' => \A p \in Present(merged') : \E k \in Index \ todo' : p \in Subs[k].sel
      BY <3>2, EmptyType DEF Records, Building
    <3>5. \A c \in Container : Intact(c) => Record(Values(merged'), c) \in Known(c)
      BY <3>2, EmptyType, EmptyRecord DEF Records, Known, Empty, GroupPaths
    <3>6. Index' = Index /\ Subs' = Subs
      BY <3>1 DEF Index, Subs
    <3>. QED
      BY <3>1, <3>3, <3>4, <3>5, <3>6 DEF Records
  <2>. QED
    BY <2>1, <2>2
<1>3. Records => RecordsNotTorn
  BY DEF Records, RecordsNotTorn, Intact, Known
<1>. QED
  BY <1>1, <1>2, <1>3, Invariance, PTL DEF Spec
-----------------------------------------------------------------------------
(* The answers to ONCE and to Polls                                          *)

Answering == req.mode \in {"ONCE", "POLL"} /\ asked = commits

\* The leaves of the subscriptions already visited.
Visited == {p \in Path : \E k \in Index \ todo : p \in Subs[k].sel}

Fresh ==
  \A p \in Selected :
    \/ view[p] = ValueOf(store[p])
    \/ store[p] = NoLeaf /\ \A q \in Selected \cap GroupPaths(GroupOf[p]) :
                             GroupOf[p] = Flat \/ store[q] = NoLeaf

\* As long as nothing is committed, what is merged is the store's, and so is
\* what was written.
Currency ==
  Answering =>
    /\ pc \in {"initial", "poll"} =>
         \A p \in Path : merged[p] = IF p \in Visited THEN store[p] ELSE NoLeaf
    /\ pc \in {"sync", "read"} \/ status = "OK" => Fresh

LEMMA TakeCurrent ==
  ASSUME IInv, Currency, BuildTake, Answering, pc \in {"initial", "poll"}, NEW p \in Path
  PROVE  merged'[p] = IF p \in Visited' THEN store[p] ELSE NoLeaf
<1>. DEFINE k == First
<1>1. k \in todo /\ k \in Index
  BY FirstFacts DEF BuildTake, IInv, Types
<1>2. UNCHANGED <<Index, Subs>> /\ todo' = todo \ {k}
      /\ merged' = Merge(merged, SnapshotOf(k))
  BY DEF BuildTake, Index, Subs
<1>. HIDE DEF k
<1>3. p \in Visited' <=> p \in Visited \/ p \in Subs[k].sel
  BY <1>1, <1>2 DEF Visited
<1>4. merged[p] = IF p \in Visited THEN store[p] ELSE NoLeaf
  BY DEF Currency
<1>5. merged'[p] = IF merged[p] # NoLeaf THEN merged[p]
                   ELSE IF p \in Subs[k].sel THEN store[p] ELSE NoLeaf
  BY <1>2 DEF Merge, SnapshotOf
<1>. QED
  BY <1>3, <1>4, <1>5

LEMMA EmitFresh ==
  ASSUME IInv, Currency, BuildEmit, Answering, pc \in {"initial", "poll"}
  PROVE  Fresh'
<1>1. UNCHANGED <<Index, Subs, store, Selected>> /\ view' = Receive(view, BuildFull(merged, Now))
      /\ todo = {}
  BY DEF BuildEmit, envVars, Index, Subs, Selected
<1>2. Selected \subseteq Path
  BY IndexFacts DEF Selected, Subscription, IInv, Types
<1>3. \A p \in Selected : merged[p] = store[p]
  BY <1>1, <1>2 DEF Currency, Visited, Selected
<1>4. ASSUME NEW p \in Selected
      PROVE  \/ view'[p] = ValueOf(store[p])
             \/ store[p] = NoLeaf /\ \A q \in Selected \cap GroupPaths(GroupOf[p]) :
                                      GroupOf[p] = Flat \/ store[q] = NoLeaf
  <2>1. p \in Path /\ merged[p] = store[p]
    BY <1>2, <1>3
  <2>2. /\ p \in Present(merged) => view'[p] = ValueOf(merged[p])
        /\ p \notin Present(merged) =>
             IF GroupOf[p] # Flat /\ Members(merged, GroupOf[p]) # {}
             THEN view'[p] = NoLeaf ELSE view'[p] = view[p]
    BY <1>1, <2>1, ReceiveFull DEF IInv, Types
  <2>3. CASE p \in Present(merged)
    BY <2>1, <2>2, <2>3
  <2>4. CASE p \notin Present(merged) /\ GroupOf[p] # Flat /\ Members(merged, GroupOf[p]) # {}
    BY <2>1, <2>2, <2>4 DEF Present, ValueOf
  <2>5. CASE p \notin Present(merged) /\ (GroupOf[p] = Flat \/ Members(merged, GroupOf[p]) = {})
    BY <1>3, <2>1, <2>5 DEF Present, Members, GroupPaths
  <2>. QED
    BY <2>3, <2>4, <2>5
<1>. QED
  BY <1>1, <1>4 DEF Fresh

\* What ends an RPC with OK, or waits for the next message, has been fresh before.
LEMMA CurrencyKept ==
  ASSUME IInv, Currency, [Next]_vars
  PROVE  Currency'
<1>1. CASE Commit
  <2>1. commits' = commits + 1 /\ asked' = asked /\ asked \in 0..commits
    BY <1>1 DEF Commit, readVars, IInv, Types
  <2>2. asked' # commits'
    BY <2>1 DEF IInv, Types
  <2>. QED
    BY <2>2 DEF Currency, Answering
<1>2. CASE BuildTake
  <2>1. UNCHANGED <<req, pc, store, view, status, asked, commits>>
    BY <1>2 DEF BuildTake, envVars, clientVars, readVars
  <2>2. Answering' = Answering /\ Fresh' = Fresh
    BY <2>1 DEF Answering, Fresh, Selected, Index, Subs
  <2>. QED
    BY <1>2, <2>1, <2>2, TakeCurrent DEF Currency
<1>3. CASE BuildEmit
  <2>1. UNCHANGED <<req, store, status, asked, commits>> /\ pc' = AfterEmit /\ Building
    BY <1>3 DEF BuildEmit, envVars, readVars
  <2>2. pc = "sample" => ~Answering
    BY DEF IInv, Phases, Answering
  <2>3. pc' \notin {"initial", "poll"}
    BY <2>1 DEF AfterEmit
  <2>. QED
    BY <1>3, <2>1, <2>2, <2>3, EmitFresh DEF Currency, Building, Answering
<1>4. CASE Run \/ Read
  <2>1. pc' \in {"check", "initial", "poll", "done"} /\ merged' = merged /\ merged = Empty
    BY <1>4 DEF Run, Read, End, IInv, Phases, Building
  <2>2. pc' \in {"initial", "poll"} => Visited' = {}
    BY <1>4 DEF Run, Read, Asked, Index, Subs, Visited, End
  <2>3. status' # "OK"
    BY <1>4 DEF Run, Read, End, IInv, Accepted
  <2>. QED
    BY <2>1, <2>2, <2>3 DEF Currency, Empty
<1>5. CASE Check \/ BuildRefuse \/ Setup \/ SetupEnd \/ LoopStart \/ LoopEnd \/ Poll \/ Sleep
  <2>1. req' = req /\ asked' = asked /\ commits' = commits
    BY <1>5 DEF Check, BuildRefuse, Setup, SetupEnd, LoopStart, LoopEnd, Poll, Sleep,
                envVars, readVars
  <2>2. CASE BuildRefuse
    <3>1. pc' = "done" /\ status' # "OK"
      BY <2>2, ErrorFacts DEF BuildRefuse, End, Errors
    <3>. QED
      BY <3>1 DEF Currency
  <2>3. CASE ~BuildRefuse
    <3>1. req.mode = "STREAM"
      BY <1>5, <2>3 DEF Check, Setup, SetupEnd, LoopStart, LoopEnd, Poll, Sleep, IInv, Phases
    <3>. QED
      BY <2>1, <3>1 DEF Currency, Answering
  <2>. QED
    BY <2>2, <2>3
<1>6. CASE Sync \/ ReadEnd
  <2>1. UNCHANGED <<req, store, view, asked, commits>> /\ pc \in {"sync", "read"}
        /\ pc' \notin {"initial", "poll"}
    BY <1>6 DEF Sync, ReadEnd, End, envVars, readVars, clientVars
  <2>2. Answering' = Answering /\ Fresh' = Fresh
    BY <2>1 DEF Answering, Fresh, Selected, Index, Subs
  <2>. QED
    BY <2>1, <2>2 DEF Currency
<1>7. CASE Cancel \/ Send \/ Close \/ Ended \/ UNCHANGED vars
  <2>1. UNCHANGED <<req, pc, todo, merged, store, view, status, asked, commits>>
    BY <1>7 DEF Cancel, Send, Close, Ended, vars, handlerVars, clientVars, envVars, readVars
  <2>2. Answering' = Answering /\ Fresh' = Fresh /\ Visited' = Visited
    BY <2>1 DEF Answering, Fresh, Visited, Selected, Index, Subs
  <2>. QED
    BY <2>1, <2>2 DEF Currency
<1>. QED
  BY <1>1, <1>2, <1>3, <1>4, <1>5, <1>6, <1>7 DEF Next, Handler

\* The answer to ONCE and to every Poll is current, if nothing was committed
\* since the client sent the message answered, for any requests and histories.
THEOREM AnswersCurrent == Spec => []AnswersAreCurrent
<1>1. Init => Currency
  BY DEF Init, Currency
<1>2. IInv /\ Currency => AnswersAreCurrent
  BY DEF Currency, Answering, Fresh, AnswersAreCurrent
<1>. QED
  BY <1>1, <1>2, CurrencyKept, Invariance, PTL DEF Spec
=============================================================================
