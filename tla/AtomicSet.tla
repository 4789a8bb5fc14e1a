----------------------------- MODULE AtomicSet -----------------------------
(***************************************************************************)
(* What Set promises (set.cpp: "a transaction: validate every operation    *)
(* first and apply none if any fails"): a request is either applied as a   *)
(* whole in one step, deletes before replacements before updates, or       *)
(* refused without effect with the code of its first bad entry.  Whether   *)
(* it is refused depends on the request alone, never on what the store     *)
(* holds.                                                                  *)
(***************************************************************************)
EXTENDS SetData

CONSTANTS
  Handler,      \* RPC threads, each serving one Set
  Request,      \* the requests clients may send
  Sensor        \* the leaves the simulator writes

VARIABLES
  store,        \* the leaves of all providers
  asked,        \* asked[h]: the request of h
  outcome       \* "none" until the Set takes effect, then its status

avars == <<store, asked, outcome>>

\* The status a request deserves.
Verdict(r) ==
  LET bad == {i \in DOMAIN Ordered(r) : WriteError(Ordered(r)[i]) # "none"}
  IN  IF r.extension THEN "UNIMPLEMENTED"
      ELSE IF bad = {} THEN "OK"
      ELSE WriteError(Ordered(r)[CHOOSE i \in bad : \A j \in bad : i <= j])

\* The entries of a list that name leaf p, and the last of them.
Naming(list, p) == {i \in DOMAIN list : Canon[list[i].xpath] = p}

Last(list, p) ==
  list[CHOOSE i \in Naming(list, p) : \A j \in Naming(list, p) : j <= i]

\* The leaf an entry leaves behind.
Written(item, ts) ==
  [val |-> item.val, ts |-> ts, type |-> SchemaType(Canon[item.xpath])]

\* The store after request r at time ts: for each leaf the last update decides,
\* then the last replacement, then the deletes.
Final(s, r, ts) ==
  [p \in Path |->
     IF Naming(r.update, p) # {} THEN Written(Last(r.update, p), ts)
     ELSE IF Naming(r.replace, p) # {} THEN Written(Last(r.replace, p), ts)
     ELSE IF Naming(r.delete, p) # {} THEN NoLeaf
     ELSE s[p]]

AInit == /\ store \in Content
         /\ asked \in [Handler -> Request]
         /\ outcome = [h \in Handler |-> "none"]

ARefuse(h) == /\ outcome[h] = "none"
              /\ Verdict(asked[h]) # "OK"
              /\ outcome' = [outcome EXCEPT ![h] = Verdict(asked[h])]
              /\ UNCHANGED <<store, asked>>

AApply(h) == /\ outcome[h] = "none"
             /\ Verdict(asked[h]) = "OK"
             /\ outcome' = [outcome EXCEPT ![h] = "OK"]
             /\ \E ts \in 0..MaxClock : store' = Final(store, asked[h], ts)
             /\ UNCHANGED asked

ATick == /\ \E ts \in 0..MaxClock, v \in [Sensor -> Val] :
              store' = [p \in Path |->
                          IF p \in Sensor
                          THEN [val |-> v[p], ts |-> ts, type |-> SchemaType(p)]
                          ELSE store[p]]
         /\ UNCHANGED <<asked, outcome>>

ANext == \/ \E h \in Handler : ARefuse(h) \/ AApply(h)
         \/ ATick

ASpec == AInit /\ [][ANext]_avars
=============================================================================
