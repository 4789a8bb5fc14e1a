----------------------------- MODULE Subscribe -----------------------------
(***************************************************************************)
(* gnmi/subscribe.cpp: one Subscribe RPC, from its first message to its    *)
(* end, in each of its modes, while Set handlers and the simulator commit  *)
(* to the store.  A commit and the snapshot of one subscription are single *)
(* steps, which LeafStore justifies; the snapshots of several              *)
(* subscriptions are not.  The messages of one gRPC stream arrive in       *)
(* order: those of the client wait in `inbox', and what the handler writes *)
(* is in the client's copy, `view', as it is written.                      *)
(*                                                                         *)
(* Time is counted in passes of the 200 ms loop: age[k] is what the code    *)
(* has of it for subscription k, the time since lastHeartbeat or since the *)
(* time kept in chronomap; quiet[k] is what the client has seen of it.     *)
(***************************************************************************)
EXTENDS Emit, Integers, Sequences

LOCAL INSTANCE FiniteSetsExt

CONSTANTS
  Request,      \* the requests a client may send
  Start,        \* the contents of the stores when the RPC begins
  Batch,        \* net effects of the batches that may be committed
  Now,          \* the emission time of every Notification
  HalfRange,    \* 2^63 on the scale of the model: the first uint64 interval
                \* that is negative as a signed 64-bit count of nanoseconds
  MaxSlip,      \* the longest pass of the loop
  MaxAge,       \* ages stop here, above every interval requested
  MaxCommits,   \* bounds the commits of a run
  MaxMessages   \* bounds the messages the client sends after the first

Mode  == {"SAMPLE", "ON_CHANGE", "TARGET_DEFINED", "unknown"}
Owner == {"sensor", "system", "none"}   \* the provider whose prefix matches

\* A Subscription: the leaves its path selects, the provider it is routed to,
\* whether its path is well formed, and the fields the handler reads.
Subscription ==
  {s \in [sel : SUBSET Path, owner : Owner, valid : BOOLEAN, mode : Mode,
          sample : 0..(2 * HalfRange - 1), heartbeat : 0..(2 * HalfRange - 1)] :
     s.owner = "none" => s.sel = {}}

\* The first message: a SubscriptionList (hasList), with the fields the
\* handler reads, or something else, such as the end of the stream.
ASSUME RequestAssumption ==
  \A r \in Request : /\ r.hasList \in BOOLEAN
                     /\ r.extension \in BOOLEAN
                     /\ r.mode \in {"STREAM", "ONCE", "POLL", "unknown"}
                     /\ r.updatesOnly \in BOOLEAN
                     /\ r.encodingOk \in BOOLEAN
                     /\ r.subs \in Seq(Subscription)
ASSUME StoreAssumption ==
  /\ Start \subseteq Snapshot
  /\ \A b \in Batch : /\ DOMAIN b \subseteq Path
                      /\ \A p \in DOMAIN b : b[p] \in Leaf \cup {NoLeaf}
ASSUME BoundAssumption ==
  /\ HalfRange \in Nat /\ MaxSlip \in Nat /\ MaxAge \in Nat
  /\ MaxCommits \in Nat /\ MaxMessages \in Nat
  /\ \A r \in Request : \A k \in DOMAIN r.subs :
       /\ r.subs[k].sample < HalfRange => r.subs[k].sample < MaxAge
       /\ r.subs[k].heartbeat <= MaxAge

VARIABLES
  store,        \* the leaves of the providers' stores
  commits,      \* how many commits there were
  req,          \* the first message, kept by the handler
  message,      \* what the last message it read was
  pc,           \* where the handler is
  todo,         \* the subscriptions its current loop has still to visit
  merged,       \* buildSubscribeNotifications' snapshot
  chronomap,    \* the subscriptions served by timer
  onChange,     \* the subscriptions served by diff
  prev,         \* prev[k]: the last snapshot subscription k saw
  age,          \* age[k]: the time since the timer of k was restarted
  view,         \* the client's copy
  synced,       \* the client has had its sync_response
  status,       \* how the RPC ended
  cancelled,    \* the client has cancelled it
  inbox,        \* messages the client has sent and the handler has not read
  closed,       \* the client has finished sending
  sent,         \* how many messages it has sent after the first
  syncs,        \* history: how many sync_responses it has had
  asked,        \* history: the commits there were when the message that is
                \* being answered, or was answered last, was sent
  quiet,        \* history: quiet[k], the time since the client was last sent a
                \* heartbeat of k, or since its setup
  unsent,       \* history: leaves in some prev that the client was not told
  past          \* history: past[c], the contents container c has had

handlerVars == <<pc, todo, merged, chronomap, onChange, prev, age, quiet>>
clientVars  == <<view, synced, status, unsent, syncs>>
readVars    == <<message, inbox, asked>>
envVars     == <<store, commits, past, cancelled, closed, sent>>
vars        == <<req, handlerVars, clientVars, readVars, envVars>>

Subs  == req.subs
Index == DOMAIN Subs
First == Min(todo)

Errors == {"UNIMPLEMENTED", "INVALID_ARGUMENT", "UNKNOWN"}

\* What a client may send after its first message: a Poll, or anything else,
\* such as a second SubscriptionList.
Kind == {"poll", "other"}

\* The values of container c in a snapshot or in a view.
Record(s, c) == [p \in {q \in Path : GroupOf[q] = c} |-> s[p]]
Values(s)    == [p \in Path |-> ValueOf(s[p])]

TypeOK ==
  /\ store \in Snapshot /\ commits \in 0..MaxCommits
  /\ req \in Request
  /\ pc \in {"run", "check", "initial", "sync", "setup", "loop", "sample",
             "onchange", "read", "poll", "done"}
  /\ message \in {"first"} \cup Kind
  /\ inbox \in Seq([kind : Kind, seen : 0..commits]) /\ Len(inbox) <= sent
  /\ closed \in BOOLEAN /\ sent \in 0..MaxMessages
  /\ syncs \in 0..(MaxMessages + 1)
  /\ asked \in 0..commits
  /\ todo \subseteq Index /\ chronomap \subseteq Index /\ onChange \subseteq Index
  /\ chronomap \cap onChange = {}
  /\ pc = "sample" => todo \subseteq chronomap
  /\ pc = "onchange" => todo \subseteq onChange
  /\ pc = "loop" => todo = {} /\ merged = Empty
  /\ merged \in Snapshot
  /\ prev \in [Index -> Snapshot]
  /\ age \in [Index -> 0..MaxAge] /\ quiet \in [Index -> 0..MaxAge]
  /\ view \in View
  /\ synced \in BOOLEAN /\ cancelled \in BOOLEAN
  /\ status \in {"running", "OK"} \cup Errors
  /\ unsent \subseteq Path

Init ==
  /\ store \in Start
  /\ commits = 0
  /\ req \in Request
  /\ pc = "run" /\ todo = {} /\ merged = Empty
  /\ message = "first" /\ inbox = <<>> /\ closed = FALSE /\ sent = 0
  /\ syncs = 0 /\ asked = 0
  /\ chronomap = {} /\ onChange = {}
  /\ prev = [k \in Index |-> Empty]
  /\ age = [k \in Index |-> 0] /\ quiet = [k \in Index |-> 0]
  /\ view = Empty /\ synced = FALSE /\ status = "running" /\ cancelled = FALSE
  /\ unsent = {}
  /\ past = [c \in Container |-> {Record(Values(store), c)}]
-----------------------------------------------------------------------------
(* The registry, for one subscription                                        *)

SnapshotOf(k) == [p \in Path |-> IF p \in Subs[k].sel THEN store[p] ELSE NoLeaf]

\* The system configuration prefers ON_CHANGE, the sensors and the registry's
\* default are SAMPLE.
PreferredMode(owner) == IF owner = "system" THEN "ON_CHANGE" ELSE "SAMPLE"

ResolveMode(sub) ==
  IF sub.mode = "TARGET_DEFINED" THEN PreferredMode(sub.owner) ELSE sub.mode

\* std::map::merge keeps the leaf that is there already.
Merge(s, t) == [p \in Path |-> IF s[p] # NoLeaf THEN s[p] ELSE t[p]]

End(s) == pc' = "done" /\ status' = s /\ todo' = {}
-----------------------------------------------------------------------------
(* run, and handleStream up to its loop                                      *)

\* The first message decides which handler serves the RPC, if any; when there
\* is none to read, it looks like one without a SubscriptionList.
Run ==
  /\ pc = "run"
  /\ \/ cancelled /\ End("INVALID_ARGUMENT")
     \/ req.extension /\ End("UNIMPLEMENTED")
     \/ ~req.extension /\ ~req.hasList /\ End("INVALID_ARGUMENT")
     \/ /\ ~req.extension /\ req.hasList
        /\ \/ req.mode = "unknown" /\ End("UNKNOWN")
           \/ req.mode = "STREAM" /\ pc' = "check" /\ UNCHANGED <<todo, status>>
           \/ /\ req.mode \in {"ONCE", "POLL"}
              /\ pc' = "initial" /\ todo' = Index /\ UNCHANGED status
  /\ UNCHANGED <<req, merged, chronomap, onChange, prev, age, quiet, view, synced, unsent, syncs>>
  /\ UNCHANGED readVars /\ UNCHANGED envVars

Check ==
  /\ pc = "check"
  /\ IF \E k \in Index : Subs[k].sample > HalfRange - 1
       THEN End("INVALID_ARGUMENT")
     ELSE IF req.updatesOnly
       THEN pc' = "sync" /\ UNCHANGED <<todo, status>>
     ELSE pc' = "initial" /\ todo' = Index /\ UNCHANGED status
  /\ UNCHANGED <<req, merged, chronomap, onChange, prev, age, quiet, view, synced, unsent, syncs>>
  /\ UNCHANGED readVars /\ UNCHANGED envVars

\* A mutant of BuildError: paths are only validated once the loop runs.
BuildErrorLate ==
  IF ~req.encodingOk THEN "UNIMPLEMENTED"
  ELSE IF todo = {} \/ pc = "initial" THEN "none"
  ELSE IF ~Subs[First].valid THEN "INVALID_ARGUMENT"
  ELSE IF Subs[First].owner = "none" THEN "UNIMPLEMENTED"
  ELSE "none"

\* What buildSubscribeNotifications refuses next: the encoding first of all,
\* then a malformed or an unrouted path.
BuildError ==
  IF ~req.encodingOk THEN "UNIMPLEMENTED"
  ELSE IF todo = {} THEN "none"
  ELSE IF ~Subs[First].valid THEN "INVALID_ARGUMENT"
  ELSE IF Subs[First].owner = "none" THEN "UNIMPLEMENTED"
  ELSE "none"

\* A mutant of Polled: every subscription is polled.
PolledAll == Index

\* The subscriptions a pass of the loop polls.
Polled == onChange

Building == pc \in {"initial", "sample", "poll"}

BuildRefuse ==
  /\ Building /\ BuildError # "none"
  /\ End(BuildError)
  /\ merged' = Empty
  /\ UNCHANGED <<req, chronomap, onChange, prev, age, quiet, view, synced, unsent, syncs>>
  /\ UNCHANGED readVars /\ UNCHANGED envVars

BuildTake ==
  /\ Building /\ BuildError = "none" /\ todo # {}
  /\ merged' = Merge(merged, SnapshotOf(First))
  /\ todo' = todo \ {First}
  /\ UNCHANGED <<req, pc, chronomap, onChange, prev, age, quiet>>
  /\ UNCHANGED clientVars /\ UNCHANGED readVars /\ UNCHANGED envVars

\* A mutant of AfterEmit: a Poll is answered without a sync_response.
AfterEmitBare == IF pc = "sample" THEN "onchange"
                 ELSE IF pc = "poll" THEN "read" ELSE "sync"

\* A sampling pass goes on to the diffs, everything else is an answer that ends
\* with a sync_response.
AfterEmit == IF pc = "sample" THEN "onchange" ELSE "sync"

\* The merged snapshot is written.
BuildEmit ==
  /\ Building /\ BuildError = "none" /\ todo = {}
  /\ view' = Receive(view, BuildFull(merged, Now))
  /\ merged' = Empty
  /\ pc' = AfterEmit
  /\ todo' = IF pc = "sample" THEN Polled ELSE {}
  /\ UNCHANGED <<req, chronomap, onChange, prev, age, quiet, synced, status, unsent, syncs>>
  /\ UNCHANGED readVars /\ UNCHANGED envVars

\* The sync_response, with which ONCE ends.
Sync ==
  /\ pc = "sync"
  /\ synced' = TRUE /\ syncs' = syncs + 1
  /\ \/ /\ req.mode = "STREAM"
        /\ pc' = "setup" /\ todo' = Index /\ UNCHANGED status
     \/ req.mode = "ONCE" /\ End("OK")
     \/ req.mode = "POLL" /\ pc' = "read" /\ UNCHANGED <<todo, status>>
  /\ UNCHANGED <<req, merged, chronomap, onChange, prev, age, quiet, view, unsent>>
  /\ UNCHANGED readVars /\ UNCHANGED envVars

\* A mutant of Asked: the list is taken from the message that was read last.
AskedByMessage(m) == IF m = "first" THEN Index ELSE {}

\* What a Poll is answered with: the subscriptions of the first message.
Asked(m) == Index

\* handlePoll's loop: a Poll is answered, anything else ends the RPC.
Read ==
  /\ pc = "read" /\ inbox # <<>>
  /\ inbox' = Tail(inbox)
  /\ message' = Head(inbox).kind
  /\ asked' = Head(inbox).seen
  /\ IF Head(inbox).kind = "poll"
     THEN pc' = "poll" /\ todo' = Asked(message') /\ UNCHANGED status
     ELSE End("INVALID_ARGUMENT")
  /\ UNCHANGED <<req, merged, chronomap, onChange, prev, age, quiet, view, synced, unsent, syncs>>
  /\ UNCHANGED envVars

\* A mutant of Finished: the end of the messages is not noticed.
FinishedByCancel == cancelled

\* No message will come any more: the client has closed its side and all it
\* sent is read, or it has cancelled.
Finished == cancelled \/ (closed /\ inbox = <<>>)

ReadEnd ==
  /\ pc = "read" /\ Finished
  /\ End("OK")
  /\ UNCHANGED <<req, merged, chronomap, onChange, prev, age, quiet, view, synced, unsent, syncs>>
  /\ UNCHANGED readVars /\ UNCHANGED envVars

\* One subscription goes into its bucket, or into none when its mode is unknown.
\* ON_CHANGE takes its baseline, which the client has not been told where it
\* differs from the client's copy.
Setup ==
  LET k == First
      base == SnapshotOf(k)
  IN
  /\ pc = "setup" /\ todo # {}
  /\ todo' = todo \ {k}
  /\ \/ /\ ResolveMode(Subs[k]) = "SAMPLE"
        /\ chronomap' = chronomap \cup {k}
        /\ UNCHANGED <<onChange, prev, unsent>>
     \/ /\ ResolveMode(Subs[k]) = "ON_CHANGE"
        /\ onChange' = onChange \cup {k}
        /\ prev' = [prev EXCEPT ![k] = base]
        /\ unsent' = (unsent \ Subs[k].sel)
                       \cup {p \in Subs[k].sel : view[p] # ValueOf(base[p])}
        /\ UNCHANGED chronomap
     \/ /\ ResolveMode(Subs[k]) = "unknown"
        /\ UNCHANGED <<chronomap, onChange, prev, unsent>>
  /\ UNCHANGED <<req, pc, merged, age, quiet, view, synced, status, syncs>>
  /\ UNCHANGED readVars /\ UNCHANGED envVars

SetupEnd ==
  /\ pc = "setup" /\ todo = {}
  /\ pc' = "loop"
  /\ UNCHANGED <<req, todo, merged, chronomap, onChange, prev, age, quiet>>
  /\ UNCHANGED clientVars /\ UNCHANGED readVars /\ UNCHANGED envVars
-----------------------------------------------------------------------------
(* The loop                                                                  *)

\* A mutant of CancelSeen: a stream with ON_CHANGE entries does not look.
CancelSeenBySamplers == cancelled /\ onChange = {}

CancelSeen == cancelled

LoopEnd ==
  /\ pc = "loop" /\ CancelSeen
  /\ End("OK")
  /\ UNCHANGED <<req, merged, chronomap, onChange, prev, age, quiet, view, synced, unsent, syncs>>
  /\ UNCHANGED readVars /\ UNCHANGED envVars

Aged(d) == [k \in Index |-> Min({age[k] + d, MaxAge})]

\* A pass begins some time after the last one did, and collects the samples
\* that are due.
LoopStart ==
  /\ pc = "loop" /\ ~CancelSeen
  /\ \E d \in 1..MaxSlip :
       LET due == {k \in chronomap : Aged(d)[k] > Subs[k].sample}
       IN  /\ age' = [k \in Index |-> IF k \in due THEN 0 ELSE Aged(d)[k]]
           /\ quiet' = [k \in Index |-> IF k \in onChange THEN Min({quiet[k] + d, MaxAge})
                                                         ELSE quiet[k]]
           /\ IF due = {} THEN pc' = "onchange" /\ todo' = Polled
                          ELSE pc' = "sample" /\ todo' = due
  /\ UNCHANGED <<req, merged, chronomap, onChange, prev>>
  /\ UNCHANGED clientVars /\ UNCHANGED readVars /\ UNCHANGED envVars

\* static_cast<long long> of a uint64.
Signed(n) == IF n < HalfRange THEN n ELSE n - 2 * HalfRange

\* A mutant of HeartbeatDue: the test for an interval of 0 inverted.
HeartbeatInverted(k) ==
  /\ Subs[k].heartbeat = 0
  /\ age[k] >= Signed(Subs[k].heartbeat)

HeartbeatDue(k) ==
  /\ Subs[k].heartbeat # 0
  /\ age[k] >= Signed(Subs[k].heartbeat)

\* Leaves that went from s to t without a word to the client: a heartbeat
\* sends what there is.
Silent(s, t, beat) ==
  {p \in Removed(s, t) : beat /\ (GroupOf[p] = Flat \/ Members(t, GroupOf[p]) = {})}

\* Leaves about which a poll says something, a member of an atomic container
\* with all the others.
Told(s, t, beat) ==
  LET S == IF beat THEN Present(t) ELSE Changed(s, t)
  IN  S \cup {p \in Path : GroupOf[p] # Flat /\ \E q \in S : GroupOf[q] = GroupOf[p]}

\* A mutant of Remembered: the baseline is never moved on.
RememberedFirst(k, cur) == prev[k]

Remembered(k, cur) == cur

\* A mutant of Restarted: lastHeartbeat is not set after a heartbeat.
RestartedNever(k, beat) == age[k]

\* The heartbeat timer of k after a poll.
Restarted(k, beat) == IF beat THEN 0 ELSE age[k]

\* One subscriber of the poll-and-diff loop.
Poll ==
  LET k == First
      cur == SnapshotOf(k)
      beat == HeartbeatDue(k)
  IN
  /\ pc = "onchange" /\ todo # {}
  /\ view' = Receive(view, IF beat THEN BuildFull(cur, Now)
                                   ELSE BuildChange(prev[k], cur, Now))
  /\ age' = [age EXCEPT ![k] = Restarted(k, beat)]
  /\ quiet' = [quiet EXCEPT ![k] = IF beat THEN 0 ELSE @]
  /\ prev' = [prev EXCEPT ![k] = Remembered(k, cur)]
  /\ unsent' = (unsent \ (Told(prev[k], cur, beat) \cap Subs[k].sel))
                 \cup {p \in Silent(prev[k], cur, beat) : view[p] # NoLeaf}
  /\ todo' = todo \ {k}
  /\ UNCHANGED <<req, pc, merged, chronomap, onChange, synced, status, syncs>>
  /\ UNCHANGED readVars /\ UNCHANGED envVars

\* The pass is over and the handler sleeps.
Sleep ==
  /\ pc = "onchange" /\ todo = {}
  /\ pc' = "loop"
  /\ UNCHANGED <<req, todo, merged, chronomap, onChange, prev, age, quiet>>
  /\ UNCHANGED clientVars /\ UNCHANGED readVars /\ UNCHANGED envVars
-----------------------------------------------------------------------------
(* The store's writers and the client                                        *)

Commit ==
  /\ commits < MaxCommits
  /\ commits' = commits + 1
  /\ \E b \in Batch :
       store' = [p \in Path |-> IF p \in DOMAIN b THEN b[p] ELSE store[p]]
  /\ past' = [c \in Container |-> past[c] \cup {Record(Values(store'), c)}]
  /\ UNCHANGED <<req, cancelled, closed, sent>>
  /\ UNCHANGED handlerVars /\ UNCHANGED clientVars /\ UNCHANGED readVars

Cancel ==
  /\ ~cancelled /\ pc # "done"
  /\ cancelled' = TRUE
  /\ UNCHANGED <<req, store, commits, past, closed, sent>>
  /\ UNCHANGED handlerVars /\ UNCHANGED clientVars /\ UNCHANGED readVars

\* Messages and the end of the messages, which only handlePoll reads.
Talking == req.mode = "POLL" /\ pc # "done" /\ ~cancelled /\ ~closed

Send ==
  /\ Talking /\ sent < MaxMessages
  /\ \E m \in Kind : inbox' = Append(inbox, [kind |-> m, seen |-> commits])
  /\ sent' = sent + 1
  /\ UNCHANGED <<req, message, asked, store, commits, past, cancelled, closed>>
  /\ UNCHANGED handlerVars /\ UNCHANGED clientVars

Close ==
  /\ Talking
  /\ closed' = TRUE
  /\ UNCHANGED <<req, store, commits, past, cancelled, sent>>
  /\ UNCHANGED handlerVars /\ UNCHANGED clientVars /\ UNCHANGED readVars

Ended == pc = "done" /\ UNCHANGED vars

Handler == \/ Run \/ Check
           \/ BuildRefuse \/ BuildTake \/ BuildEmit \/ Sync
           \/ Read \/ ReadEnd
           \/ Setup \/ SetupEnd \/ LoopStart \/ LoopEnd \/ Poll \/ Sleep

Next == Handler \/ Commit \/ Cancel \/ Send \/ Close \/ Ended

Spec == Init /\ [][Next]_vars

\* The thread of the RPC is scheduled; nobody has to write or to cancel.
FairSpec == Spec /\ WF_vars(Handler)
-----------------------------------------------------------------------------
(* Which leaves a property can speak of                                      *)

GroupPaths(g) == {p \in Path : GroupOf[p] = g}

\* No subscription of the request takes a part of p's container.
Whole(p) == \A k \in Index : GroupOf[p] = Flat
                             \/ GroupPaths(GroupOf[p]) \subseteq Subs[k].sel
                             \/ GroupPaths(GroupOf[p]) \cap Subs[k].sel = {}

Sampled(p) == \E k \in Index : p \in Subs[k].sel /\ ResolveMode(Subs[k]) = "SAMPLE"

\* Leaves served by diff alone, and with their whole containers.
Watched == {p \in Path : /\ \E k \in onChange : p \in Subs[k].sel
                         /\ ~Sampled(p) /\ Whole(p)}

\* Leaves that a timer re-sends: a sample, or a heartbeat.
Refreshed == {p \in Path : /\ Whole(p)
                           /\ \E k \in chronomap \cup onChange :
                                /\ p \in Subs[k].sel
                                /\ k \in chronomap \/ Subs[k].heartbeat # 0}

Merged(c) == \E j, k \in Index : /\ j # k
                                 /\ GroupPaths(c) \cap Subs[j].sel # {}
                                 /\ GroupPaths(c) \cap Subs[k].sel # {}
-----------------------------------------------------------------------------
(* Properties                                                                *)

\* A leaf served by diff is, in the client's copy, what some subscription that
\* selects it saw last, unless the client was never told: a change between the
\* initial emit and the baseline, the baseline of updates_only, or a removal
\* that a heartbeat swallowed.  In particular overlapping subscriptions do not
\* disturb each other for good, and nothing else is ever lost by the loop.
Mirror ==
  \A p \in Watched :
    \/ p \in unsent
    \/ \E k \in onChange : p \in Subs[k].sel /\ view[p] = ValueOf(prev[k][p])

\* An atomic record in the client's copy is one that a commit left in the
\* store, never a mixture of two, when one subscription selects it.
RecordsNotTorn ==
  \A c \in Container :
    (\A p \in GroupPaths(c) : Whole(p)) /\ ~Merged(c) =>
      Record(view, c) \in past[c] \cup {Record(Empty, c)}

\* The same, whichever subscriptions the request has: what set.cpp and
\* data_provider.hpp promise of atomic containers without reservation.
RecordsNeverTorn ==
  \A c \in Container : Record(view, c) \in past[c] \cup {Record(Empty, c)}

\* An RPC that has told its client it is in sync is not refused afterwards,
\* except a stream that asked for updates only, whose paths nobody has looked
\* at, and a client that sends something else than a Poll.
RefusedBeforeSync ==
  synced /\ status \in Errors =>
    \/ req.mode = "STREAM" /\ req.updatesOnly
    \/ req.mode = "POLL" /\ message \notin {"first", "poll"}

\* The answer to a Poll, and to ONCE, is current: if nothing was committed since
\* the client sent the message that was answered last, its copy agrees with the
\* store on every leaf it selects, for an atomic record on the leaves that are
\* gone as well.  (A flat leaf that is gone is not deleted: handlePoll sends
\* what there is.)
Selected == UNION {Subs[k].sel : k \in Index}

AnswersAreCurrent ==
  req.mode \in {"ONCE", "POLL"} /\ (pc = "read" \/ status = "OK") /\ asked = commits =>
    \A p \in Selected :
      \/ view[p] = ValueOf(store[p])
      \/ store[p] = NoLeaf /\ \A q \in Selected \cap GroupPaths(GroupOf[p]) :
                               GroupOf[p] = Flat \/ store[q] = NoLeaf

\* The client can tell which message a sync_response answers: the first message
\* and every Poll have one each (DESIGN.md, POLL sync_response: MUST).
OneSyncPerPoll ==
  /\ syncs <= 1 + sent - Len(inbox)
  /\ pc = "read" => syncs = 1 + sent - Len(inbox)

\* Every message of a polling client is answered, or has ended the RPC, whether
\* the client then waits, writes on, closes its side or cancels; and when it has
\* closed its side the RPC ends once everything is answered.
PollsAreAnswered ==
  /\ \A n \in 1..MaxMessages : sent >= n ~> syncs > n \/ pc = "done"
  /\ closed ~> pc = "done"

\* When the writers stop, the client's copy comes to agree with the store on
\* every leaf served by diff that it was not left in the dark about.
Converges ==
  <>[](\/ pc = "done"
       \/ \A p \in Watched : p \in unsent \/ view[p] = ValueOf(store[p]))

\* A timer repairs what the diffs leave out: when the writers stop, the client
\* has the value of every existing leaf that is sampled or has a heartbeat.
TimersRepair ==
  <>[](\/ pc = "done"
       \/ \A p \in Refreshed : store[p] # NoLeaf => view[p] = ValueOf(store[p]))

\* An ON_CHANGE entry with a heartbeat interval is re-sent in full once per
\* interval (gnmi.proto, Subscription.heartbeat_interval; DESIGN.md), as its client
\* sees it: two heartbeats are at least the interval apart, however long the
\* passes between them, and no pass ends with one overdue; without an interval
\* there is none.  Intervals from 2^63 on are excepted: their cast is negative.
HeartbeatsOncePerInterval ==
  [][\A k \in onChange : Subs[k].heartbeat < HalfRange =>
       /\ quiet'[k] = 0 /\ quiet[k] # 0 => /\ Subs[k].heartbeat # 0
                                         /\ quiet[k] >= Subs[k].heartbeat
       /\ pc' = "loop" /\ Subs[k].heartbeat # 0 => quiet'[k] < Subs[k].heartbeat]_vars

\* A cancelled RPC ends, whatever it is doing.
CancelEnds == cancelled ~> pc = "done"

\* A Set is turned into ON_CHANGE notifications (set.h): when the writers stop,
\* the client that asked for the initial state has the current one.
SetReachesClient ==
  <>[](\/ pc = "done" \/ req.updatesOnly
       \/ \A p \in Watched : view[p] = ValueOf(store[p]))

\* A leaf that has gone since the last poll is deleted at the client by this
\* one, an emptied container with its prefix (subscribe_emit.h).
RemovalsAreSent ==
  [][\A k \in onChange : \A p \in Watched \cap Subs[k].sel :
       prev[k][p] # NoLeaf /\ prev'[k][p] = NoLeaf => view'[p] = NoLeaf]_vars

\* A request with a path that is malformed or that no provider owns, or in an
\* encoding that is not served, ends with an error (DESIGN.md, the table of path
\* errors); a stream that asked for updates only may stay open instead.
BadIsRefused ==
  (/\ ~(req.mode = "STREAM" /\ req.updatesOnly)
   /\ ~req.encodingOk \/ \E k \in Index : ~Subs[k].valid \/ Subs[k].owner = "none")
    ~> pc = "done" /\ (cancelled \/ status \in Errors)

\* In ONCE and POLL modes updates_only asks for nothing but the sync message
\* (gnmi.proto, SubscriptionList).
UpdatesOnlyIsSilent ==
  req.mode \in {"ONCE", "POLL"} /\ req.updatesOnly => view = Empty
=============================================================================
