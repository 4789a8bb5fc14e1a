---------------------------- MODULE MCSubscribe ----------------------------
(* A flat leaf of the sensors and a container of two leaves of the system   *)
(* configuration, two values each.  Every cfg chooses a set of requests.    *)
EXTENDS Subscribe, TLC

CONSTANTS f, x, y, c, v1, v2

MCGroupOf == f :> Flat @@ x :> c @@ y :> c

\* Subscriptions: to the sensor leaf, the container, one of its leaves, and all.
Sub(sel, owner, mode, sample, heartbeat) ==
  [sel |-> sel, owner |-> owner, valid |-> TRUE, mode |-> mode,
   sample |-> sample, heartbeat |-> heartbeat]

Sensor(mode, sample, heartbeat) == Sub({f}, "sensor", mode, sample, heartbeat)
System(mode, sample, heartbeat) == Sub({x, y}, "system", mode, sample, heartbeat)
Part(mode, sample, heartbeat)   == Sub({x}, "system", mode, sample, heartbeat)
Unrouted(mode) == Sub({}, "none", mode, 0, 0)
Malformed(mode) == [Sensor(mode, 0, 0) EXCEPT !.valid = FALSE]

Ask(subs) == [hasList |-> TRUE, extension |-> FALSE, mode |-> "STREAM",
              updatesOnly |-> FALSE, encodingOk |-> TRUE, subs |-> subs]
AskUpdates(subs) == [Ask(subs) EXCEPT !.updatesOnly = TRUE]
AskMode(mode, subs) == [Ask(subs) EXCEPT !.mode = mode]
AskProto(subs) == [Ask(subs) EXCEPT !.encodingOk = FALSE]

\* Diffs alone: one leaf, one container, the same container twice, both in
\* turn, and updates only.
DiffRequests ==
  { Ask(<<System("ON_CHANGE", 0, 0), System("ON_CHANGE", 0, 0)>>),
    Ask(<<System("TARGET_DEFINED", 0, 0), Sensor("ON_CHANGE", 0, 0)>>),
    Ask(<<Part("ON_CHANGE", 0, 0), System("ON_CHANGE", 0, 0)>>),
    AskUpdates(<<System("ON_CHANGE", 0, 0), Sensor("ON_CHANGE", 0, 0)>>) }

\* Timers: samples beside diffs, heartbeats, a sample and a diff of one leaf.
TimerRequests ==
  { Ask(<<System("ON_CHANGE", 0, 2), Sensor("TARGET_DEFINED", 1, 0)>>),
    Ask(<<Sensor("ON_CHANGE", 0, 2), Sensor("ON_CHANGE", 0, 0)>>),
    Ask(<<System("ON_CHANGE", 0, 0), System("SAMPLE", 1, 0)>>),
    AskUpdates(<<System("ON_CHANGE", 0, 1), Sensor("unknown", 0, 0)>>) }

\* Requests that are refused, or would be.
RefusedRequests ==
  { Ask(<<Sensor("SAMPLE", 0, 0), Unrouted("SAMPLE")>>),
    Ask(<<Sensor("SAMPLE", 0, 0), Malformed("ON_CHANGE")>>),
    Ask(<<Sensor("SAMPLE", HalfRange, 0)>>),
    AskProto(<<Sensor("SAMPLE", 0, 0)>>),
    AskUpdates(<<Unrouted("ON_CHANGE"), Unrouted("SAMPLE")>>),
    AskUpdates(<<System("ON_CHANGE", 0, 0), Malformed("SAMPLE")>>) }

\* ONCE and POLL, and first messages that no handler serves.
PollRequests ==
  { AskMode("POLL", <<System("SAMPLE", 0, 0), Sensor("SAMPLE", 0, 0)>>),
    AskMode("ONCE", <<Part("ON_CHANGE", 0, 0), System("SAMPLE", HalfRange, 0)>>),
    AskMode("POLL", <<Sensor("SAMPLE", 0, 0), Unrouted("SAMPLE")>>),
    [AskMode("ONCE", <<Malformed("SAMPLE")>>) EXCEPT !.updatesOnly = TRUE],
    AskMode("unknown", <<Sensor("SAMPLE", 0, 0)>>),
    [Ask(<<Sensor("SAMPLE", 0, 0)>>) EXCEPT !.extension = TRUE],
    [Ask(<<>>) EXCEPT !.hasList = FALSE] }

AllRequests == DiffRequests \cup TimerRequests \cup RefusedRequests \cup PollRequests

\* Requests of the runs that a claim of the documentation fails.
PlainRequests == { Ask(<<System("ON_CHANGE", 0, 0)>>), Ask(<<Sensor("ON_CHANGE", 0, 0)>>) }
HeartbeatRequests == { Ask(<<Sensor("ON_CHANGE", 0, 2)>>), Ask(<<System("ON_CHANGE", 0, 2)>>) }
SplitRequests == { Ask(<<Part("ON_CHANGE", 0, 0), Sub({y}, "system", "ON_CHANGE", 0, 0)>>),
                   Ask(<<Part("SAMPLE", 0, 0), System("SAMPLE", 0, 0)>>) }
SilentRequests == { [AskMode(m, <<System("SAMPLE", 0, 0)>>) EXCEPT !.updatesOnly = TRUE] :
                      m \in {"ONCE", "POLL"} }

L(v) == [val |-> v, ts |-> 1]

\* A leaf set, the whole record set at once, deletes of a leaf and of the record.
MCBatch ==
  {f :> L(v) : v \in {v1, v2}} \cup {x :> L(v) @@ y :> L(v) : v \in {v1, v2}}
    \cup {x :> L(v1), f :> NoLeaf, y :> NoLeaf, x :> NoLeaf @@ y :> NoLeaf}

\* The contents at the start: all values of all leaves, or one of each.
AllLeaves == {s \in Snapshot : \A p \in Path : s[p] # NoLeaf}
OneStart  == {s \in AllLeaves : \A p \in Path : s[p] = L(v1)}
=============================================================================
