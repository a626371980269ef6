---------------------------- MODULE ArmInitProofs ----------------------------
(* Proofs about ArmInit for any sequence of operator, GUI and region-of-   *)
(* interest events, however many, and any loss and lag of the packets.     *)
EXTENDS ArmInit, FiniteSetTheorems, TLAPS

(* The request ids given out before id n. *)
Below(n) == {i \in Nat : i < n}

Latch(n) == [on: BOOLEAN, ext: BOOLEAN, fail: BOOLEAN, done: BOOLEAN, rid: Below(n)]
Exec(n) == [status: Status, arms: SUBSET Arms, id: [Arms -> Below(n)]]
Tares == {"accepted", "awaiting", "settling", "invalid"}
Seen(n) == [status: Status, id: Below(n), tare: Tares]

(* Every id in the system has been given out, a Done anywhere is one of    *)
(* the request whose id it carries, and an arm that is under way has no    *)
(* zero, as the server and as the last published state have it.            *)
TypeInv ==
    /\ nextId \in Nat /\ nextId > 0 /\ auto \in BOOLEAN
    /\ latch \in [Arms -> Latch(nextId)]
    /\ wire = None \/ wire \in [Arms -> [kind: {"init", "hold", "policy"}, id: Below(nextId)]]
    /\ exec \in [Arms -> Exec(nextId)]
    /\ tare \in [Arms -> Tares]
    /\ snap \in [status: [Arms -> Status], id: [Arms -> Below(nextId)], tare: [Arms -> Tares],
                 outside: SUBSET Arms]

ServerInv ==
    \A e \in Arms : \A a \in exec[e].arms :
       /\ exec[e].status = "done" => exec[e].id[a] \in finished[a] \cup {0}
       /\ exec[e].status \in Moving => tare[a] = "awaiting"

SnapInv ==
    \A a \in Arms :
       /\ snap.status[a] = "done" => snap.id[a] \in finished[a] \cup {0}
       /\ snap.status[a] \in Moving => snap.tare[a] = "awaiting"

LatchInv ==
    \A a \in Arms : latch[a].on /\ latch[a].done => latch[a].rid \in finished[a] \cup {0}

IInv == TypeInv /\ ServerInv /\ SnapInv /\ LatchInv

(* Ids given out stay given out. *)
LEMMA BelowGrows ==
    ASSUME NEW m \in Nat, NEW n \in Nat, m <= n
    PROVE  Below(m) \subseteq Below(n) /\ Latch(m) \subseteq Latch(n) /\ Exec(m) \subseteq Exec(n)
<1>1. Below(m) \subseteq Below(n)
  BY DEF Below
<1>2. [Arms -> Below(m)] \subseteq [Arms -> Below(n)]
  BY <1>1, Zenon
<1> QED BY <1>1, <1>2, Zenon DEF Latch, Exec

(* A new latch, field by field. *)
LEMMA NewLatch ==
    ASSUME NEW id
    PROVE  newLatch(id) = [on |-> TRUE, ext |-> FALSE, fail |-> FALSE, done |-> FALSE, rid |-> id]
<1>0. /\ offLatch \in [on: BOOLEAN, ext: BOOLEAN, fail: BOOLEAN, done: BOOLEAN, rid: {0}]
      /\ offLatch.ext = FALSE /\ offLatch.fail = FALSE /\ offLatch.done = FALSE
  BY Zenon DEF offLatch
<1>1. PICK o \in [on: BOOLEAN, ext: BOOLEAN, fail: BOOLEAN, done: BOOLEAN, rid: {0}] :
         o = offLatch /\ o.ext = FALSE /\ o.fail = FALSE /\ o.done = FALSE
  BY <1>0, Zenon
<1>2. PICK s : s = [o EXCEPT !.on = TRUE, !.rid = id]
  BY Zenon
<1>3. s = [on |-> TRUE, ext |-> FALSE, fail |-> FALSE, done |-> FALSE, rid |-> id]
  BY <1>1, <1>2, Zenon
<1> QED BY <1>1, <1>2, <1>3, Zenon DEF newLatch

(* The sets of arms have at most two members. *)
LEMMA ArmCount ==
    ASSUME NEW S \in SUBSET Arms
    PROVE  /\ Cardinality(S) \in Nat
           /\ S # {} => Cardinality(S) >= 1
           /\ S = Arms => Cardinality(S) = 2
<1>1. IsFiniteSet({"left"}) /\ Cardinality({"left"}) = 1
  BY FS_Singleton, Zenon
<1>2. IsFiniteSet(Arms) /\ Cardinality(Arms) = 2
  <2>1. Arms = {"left"} \cup {"right"} /\ "right" \notin {"left"}
    BY Zenon DEF Arms
  <2> QED BY <1>1, <2>1, FS_AddElement
<1>3. IsFiniteSet(S)
  BY <1>2, FS_Subset, Zenon
<1>4. Cardinality(S) \in Nat /\ (Cardinality(S) = 0 <=> S = {})
  BY <1>3, FS_CardinalityType, FS_EmptySet, Zenon
<1> QED BY <1>2, <1>4

(* What one look at the state does to a latch. *)
LEMMA ProgressFacts ==
    ASSUME NEW n \in Nat, NEW r \in Latch(n), NEW s \in Seen(n), NEW u, u = progressed(adopted(r, s), s)
    PROVE  /\ u \in Latch(n)
           /\ u.on /\ u.done => \/ r.on /\ r.done /\ u.rid = r.rid
                                \/ s.status = "done" /\ u.rid = s.id
           /\ r.on /\ ~u.on => s.tare = "accepted" /\ (r.done \/ (s.status = "done" /\ s.id = r.rid))
           /\ s.status \in Moving /\ s.tare # "accepted" => u.on
           /\ r.on /\ r.fail => \/ u.on /\ u.fail
                                \/ r.ext /\ s.status \in Moving /\ s.id # r.rid
<1>1. /\ r.on \in BOOLEAN /\ r.ext \in BOOLEAN /\ r.fail \in BOOLEAN /\ r.done \in BOOLEAN
      /\ r.rid \in Below(n) /\ s.id \in Below(n) /\ s.status \in Status /\ s.tare \in Tares
  BY Zenon DEF Latch, Seen
<1>2. 0 \in Below(n)
  BY <1>1 DEF Below
<1>3. CASE s.status \in Moving /\ (~r.on \/ (r.ext /\ s.id # r.rid))
  <2>1. adopted(r, s) = [newLatch(s.id) EXCEPT !.ext = TRUE]
    BY <1>3, Zenon DEF adopted
  <2>2. PICK v : v = [newLatch(s.id) EXCEPT !.ext = TRUE]
    BY Zenon
  <2>3. v = [on |-> TRUE, ext |-> TRUE, fail |-> FALSE, done |-> FALSE, rid |-> s.id]
    BY <2>2, NewLatch, Zenon
  <2>4. progressed(v, s) = v
    BY <1>3, <2>3, Zenon DEF progressed, Moving
  <2>5. u = v
    BY <2>1, <2>2, <2>4, Zenon
  <2> QED BY <1>1, <1>3, <2>3, <2>5 DEF Latch
<1>4. CASE ~(s.status \in Moving /\ (~r.on \/ (r.ext /\ s.id # r.rid)))
  <2>1. u = progressed(r, s)
    BY <1>4, Zenon DEF adopted
  <2>2. CASE ~r.on \/ (~r.done /\ s.id # r.rid) \/ (r.fail /\ s.status # "failed")
             \/ (s.status \notin {"failed", "done"} /\ ~r.done)
    <3>1. u = r
      <4>1. CASE ~r.on \/ (~r.done /\ s.id # r.rid)
        BY <2>1, <4>1, Zenon DEF progressed
      <4>2. CASE r.on /\ r.fail /\ s.status # "failed"
        BY <2>1, <4>2, Zenon DEF progressed
      <4>3. CASE s.status \notin {"failed", "done"} /\ ~r.done
        BY <2>1, <4>3, Zenon DEF progressed
      <4> QED BY <1>1, <2>2, <4>1, <4>2, <4>3, Zenon
    <3> QED BY <1>1, <1>4, <2>2, <3>1, Zenon
  <2>3. CASE r.on /\ (r.done \/ s.id = r.rid) /\ s.status = "failed"
    <3>1. u = [r EXCEPT !.fail = TRUE, !.done = FALSE]
      BY <1>1, <2>1, <2>3, Zenon DEF progressed
    <3>2. u = [on |-> TRUE, ext |-> r.ext, fail |-> TRUE, done |-> FALSE, rid |-> r.rid]
      BY <1>1, <2>3, <3>1, Zenon DEF Latch
    <3> QED BY <1>1, <2>3, <3>2 DEF Latch, Moving
  <2>4. CASE r.on /\ (r.done \/ s.id = r.rid) /\ ~r.fail /\ s.status # "failed" /\ (s.status = "done" \/ r.done)
    <3>1. u = markDone(r, s)
      BY <1>1, <2>1, <2>4, Zenon DEF progressed
    <3>2. CASE s.tare = "accepted"
      <4>1. u = [on |-> FALSE, ext |-> FALSE, fail |-> FALSE, done |-> FALSE, rid |-> 0]
        BY <3>1, <3>2, Zenon DEF markDone, offLatch
      <4> QED BY <1>1, <1>2, <2>4, <3>2, <4>1 DEF Latch
    <3>3. CASE s.tare # "accepted"
      <4>1. u = [r EXCEPT !.done = TRUE]
        BY <3>1, <3>3, Zenon DEF markDone
      <4>2. u = [on |-> r.on, ext |-> r.ext, fail |-> r.fail, done |-> TRUE, rid |-> r.rid]
        BY <4>1, Zenon DEF Latch
      <4> QED BY <1>1, <2>4, <3>3, <4>2 DEF Latch
    <3> QED BY <3>2, <3>3, Zenon
  <2> QED BY <1>1, <2>2, <2>3, <2>4, Zenon
<1> QED BY <1>3, <1>4, Zenon

(* The latches after the snapshot is looked at. *)
LEMMA UpdateFacts ==
    ASSUME IInv, NEW n \in Nat, n >= nextId, NEW l \in [Arms -> Latch(n)], NEW u, u = updateFromSnapshot(l)
    PROVE  /\ u \in [Arms -> Latch(n)]
           /\ \A a \in Arms :
                 /\ u[a].on /\ u[a].done => \/ l[a].on /\ l[a].done /\ u[a].rid = l[a].rid
                                            \/ u[a].rid \in finished[a] \cup {0}
                 /\ l[a].on /\ ~u[a].on =>
                       /\ snap.tare[a] = "accepted"
                       /\ l[a].done \/ (snap.id[a] = l[a].rid /\ snap.id[a] \in finished[a] \cup {0})
                 /\ snap.status[a] \in Moving => u[a].on
                 /\ l[a].on /\ l[a].fail => \/ u[a].on /\ u[a].fail
                                            \/ l[a].ext /\ snap.status[a] \in Moving /\ snap.id[a] # l[a].rid
<1> DEFINE s(a) == [status |-> snap.status[a], id |-> snap.id[a], tare |-> snap.tare[a]]
<1>1. u = [a \in Arms |-> progressed(adopted(l[a], s(a)), s(a))]
  BY Zenon DEF updateFromSnapshot
<1>2. ASSUME NEW a \in Arms
      PROVE  /\ u[a] \in Latch(n)
             /\ u[a].on /\ u[a].done => \/ l[a].on /\ l[a].done /\ u[a].rid = l[a].rid
                                        \/ snap.status[a] = "done" /\ u[a].rid = snap.id[a]
             /\ l[a].on /\ ~u[a].on =>
                   snap.tare[a] = "accepted" /\ (l[a].done \/ (snap.status[a] = "done" /\ snap.id[a] = l[a].rid))
             /\ snap.status[a] \in Moving /\ snap.tare[a] # "accepted" => u[a].on
             /\ l[a].on /\ l[a].fail => \/ u[a].on /\ u[a].fail
                                        \/ l[a].ext /\ snap.status[a] \in Moving /\ snap.id[a] # l[a].rid
  <2>1. snap.status[a] \in Status /\ snap.id[a] \in Below(n) /\ snap.tare[a] \in Tares
    BY BelowGrows, Zenon DEF IInv, TypeInv
  <2>2. PICK t : t = s(a)
    BY Zenon
  <2>3. t \in Seen(n) /\ t.status = snap.status[a] /\ t.id = snap.id[a] /\ t.tare = snap.tare[a]
    BY <2>1, <2>2, Zenon DEF Seen
  <2>4. u[a] = progressed(adopted(l[a], t), t) /\ l[a] \in Latch(n)
    BY <1>1, <2>2, Zenon
  <2> HIDE DEF s
  <2> QED BY <2>3, <2>4, ProgressFacts
<1>3. u \in [Arms -> Latch(n)]
  BY <1>1, <1>2, Zenon
<1>4. \A a \in Arms : /\ snap.status[a] = "done" => snap.id[a] \in finished[a] \cup {0}
                      /\ snap.status[a] \in Moving => snap.tare[a] # "accepted"
  BY Zenon DEF IInv, SnapInv
<1> HIDE DEF s
<1> QED BY <1>2, <1>3, <1>4

(* The recoveries started take the next ids. *)
LEMMA RoiFacts ==
    ASSUME NEW n \in Nat, n > 0, NEW l \in [Arms -> Latch(n)], NEW poses, NEW recover \in BOOLEAN,
           NEW u, u = roiStarts(l, poses, recover, n),
           NEW m, m = n + Cardinality({a \in Arms : u[a] # l[a]})
    PROVE  /\ m \in Nat /\ m >= n /\ u \in [Arms -> Latch(m)]
           /\ \A a \in Arms : u[a] # l[a] => ~l[a].on /\ u[a].on /\ ~u[a].done /\ ~u[a].ext
<1> DEFINE starts == IF recover THEN {a \in roiExits(tracker) : ~l[a].on /\ a \in poses} ELSE {}
           id(a) == IF a = "right" /\ "left" \in starts THEN n + 1 ELSE n
           changed == {a \in Arms : u[a] # l[a]}
<1>1. u = [a \in Arms |-> IF a \in starts THEN newLatch(id(a)) ELSE l[a]]
  BY Zenon DEF roiStarts
<1>2. \A a \in starts : ~l[a].on
  BY Zenon
<1>3. m \in Nat /\ m >= n /\ (changed # {} => m >= n + 1) /\ (changed = Arms => m = n + 2)
  <2>1. changed \in SUBSET Arms
    BY Zenon
  <2>2. m = n + Cardinality(changed)
    BY Zenon
  <2> HIDE DEF changed
  <2> QED BY <2>1, <2>2, ArmCount
<1> HIDE DEF starts
<1>4. ASSUME NEW a \in Arms
      PROVE  /\ u[a] \in Latch(m)
             /\ u[a] # l[a] => ~l[a].on /\ u[a].on /\ ~u[a].done /\ ~u[a].ext
  <2>1. CASE a \notin starts
    BY <1>1, <1>3, <2>1, BelowGrows, Zenon
  <2>2. CASE a \in starts
    <3>1. u[a] = [on |-> TRUE, ext |-> FALSE, fail |-> FALSE, done |-> FALSE, rid |-> id(a)]
      BY <1>1, <2>2, NewLatch, Zenon
    <3>2. \A b \in Arms : b \in starts => u[b] # l[b]
      <4>1. ASSUME NEW b \in Arms, b \in starts PROVE u[b].on
        <5>1. u[b] = [on |-> TRUE, ext |-> FALSE, fail |-> FALSE, done |-> FALSE, rid |-> id(b)]
          BY <1>1, <4>1, NewLatch, Zenon
        <5> QED BY <5>1
      <4> QED BY <1>2, <4>1, Zenon
    <3>3. id(a) \in Below(m)
      <4>1. CASE a = "right" /\ "left" \in starts
        <5>1. changed = Arms
          BY <2>2, <3>2, <4>1, Zenon DEF Arms
        <5> QED BY <1>3, <4>1, <5>1 DEF Below
      <4>2. CASE ~(a = "right" /\ "left" \in starts)
        <5>1. changed # {}
          BY <2>2, <3>2, Zenon
        <5>2. id(a) = n
          BY <4>2, Zenon
        <5> QED BY <1>3, <5>1, <5>2 DEF Below
      <4> QED BY <4>1, <4>2, Zenon
    <3> HIDE DEF id
    <3> QED BY <1>2, <2>2, <3>1, <3>3 DEF Latch
  <2> QED BY <2>1, <2>2, Zenon
<1>5. u \in [Arms -> Latch(m)]
  BY <1>1, <1>4, Zenon
<1> HIDE DEF changed
<1> QED BY <1>3, <1>4, <1>5, Zenon

(* A packet carries ids of latches, and one with no init of ours is sent   *)
(* only when no latch is external.                                         *)
LEMMA ComposeFacts ==
    ASSUME NEW n \in Nat, n > 0, NEW l \in [Arms -> Latch(n)], NEW w, w = composeIntent(l)
    PROVE  /\ w = None \/ w \in [Arms -> [kind: {"init", "hold", "policy"}, id: Below(n)]]
           /\ w # None /\ (\A a \in Arms : w[a].kind # "init") => \A a \in Arms : ~(l[a].on /\ l[a].ext)
<1> DEFINE ours == {a \in Arms : l[a].on /\ ~l[a].ext /\ ~l[a].fail /\ ~l[a].done}
           payload(a) == IF a \in ours THEN [kind |-> "init", id |-> l[a].rid]
                         ELSE IF l[a].on \/ external(l) THEN [kind |-> "hold", id |-> 0]
                         ELSE [kind |-> "policy", id |-> 0]
<1>1. w = IF external(l) /\ ours = {} THEN None ELSE [a \in Arms |-> payload(a)]
  BY Zenon DEF composeIntent
<1>2. \A a \in Arms : payload(a) \in [kind: {"init", "hold", "policy"}, id: Below(n)]
  <2>1. \A a \in Arms : l[a].rid \in Below(n)
    BY Zenon DEF Latch
  <2>2. 0 \in Below(n)
    BY Zenon DEF Below
  <2> HIDE DEF ours
  <2> QED BY <2>1, <2>2, Zenon
<1>3. \A a \in Arms : a \in ours => payload(a).kind = "init"
  <2> HIDE DEF ours
  <2> QED BY Zenon
<1> HIDE DEF payload
<1>4. w = None \/ w \in [Arms -> [kind: {"init", "hold", "policy"}, id: Below(n)]]
  BY <1>1, <1>2
<1>5. ASSUME w # None, \A a \in Arms : w[a].kind # "init"
      PROVE  ~external(l)
  <2>1. w = [a \in Arms |-> payload(a)] /\ ~(external(l) /\ ours = {})
    BY <1>1, <1>5, Zenon
  <2>2. ours = {}
    BY <1>3, <1>5, <2>1, Zenon
  <2> QED BY <2>1, <2>2, Zenon
<1> QED BY <1>4, <1>5, Zenon DEF external

(* A tick keeps the invariant, releases no latch but a finished one, lets  *)
(* no failed one go, and sends nothing that would cancel an init it sees.  *)
LEMMA TickFacts ==
    ASSUME IInv, NEW n \in Nat, n >= nextId, NEW l0 \in [Arms -> Latch(n)], NEW poses,
           NEW recover \in BOOLEAN,
           \A a \in Arms : l0[a] = latch[a] \/ ~l0[a].on \/ (~l0[a].done /\ l0[a].rid = nextId),
           tick(l0, poses, recover, n), UNCHANGED <<serverVars, snap>>
    PROVE  /\ IInv'
           /\ \A a \in doneArms' : latch[a].rid \in finished[a] \cup {0} /\ snap.tare[a] = "accepted"
           /\ wire' # None /\ (\A b \in Arms : wire'[b].kind # "init") =>
                 \A a \in Arms : snap.status[a] \in Moving => latch'[a].on /\ ~latch'[a].ext
           /\ l0 = latch => \A a \in Arms : latch[a].on /\ latch[a].fail =>
                                \/ latch'[a].on /\ latch'[a].fail
                                \/ latch[a].ext /\ snap.status[a] \in Moving /\ snap.id[a] # latch[a].rid
<1>1. PICK l1 : l1 = updateFromSnapshot(l0)
  BY Zenon
<1>2. PICK l2 : l2 = roiStarts(l1, poses, recover, n)
  BY Zenon
<1>3. /\ latch' = l2 /\ auto' = recover /\ doneArms' = {a \in Arms : l0[a].on /\ ~l1[a].on}
      /\ nextId' = n + Cardinality({a \in Arms : l2[a] # l1[a]})
      /\ wire' = composeIntent(l2)
      /\ exec' = exec /\ tare' = tare /\ finished' = finished /\ snap' = snap
  BY <1>1, <1>2, Zenon DEF tick, serverVars
<1>4. nextId \in Nat /\ nextId > 0 /\ n > 0
  BY DEF IInv, TypeInv
<1>5. /\ l1 \in [Arms -> Latch(n)]
      /\ \A a \in Arms :
            /\ l1[a].on /\ l1[a].done => \/ l0[a].on /\ l0[a].done /\ l1[a].rid = l0[a].rid
                                         \/ l1[a].rid \in finished[a] \cup {0}
            /\ l0[a].on /\ ~l1[a].on =>
                  /\ snap.tare[a] = "accepted"
                  /\ l0[a].done \/ (snap.id[a] = l0[a].rid /\ snap.id[a] \in finished[a] \cup {0})
            /\ snap.status[a] \in Moving => l1[a].on
            /\ l0[a].on /\ l0[a].fail => \/ l1[a].on /\ l1[a].fail
                                         \/ l0[a].ext /\ snap.status[a] \in Moving /\ snap.id[a] # l0[a].rid
  BY <1>1, UpdateFacts
<1>6. /\ nextId' \in Nat /\ nextId' >= n /\ l2 \in [Arms -> Latch(nextId')]
      /\ \A a \in Arms : l2[a] # l1[a] => ~l1[a].on /\ l2[a].on /\ ~l2[a].done /\ ~l2[a].ext
  BY <1>2, <1>3, <1>4, <1>5, RoiFacts
<1>7. /\ wire' = None \/ wire' \in [Arms -> [kind: {"init", "hold", "policy"}, id: Below(nextId')]]
      /\ wire' # None /\ (\A a \in Arms : wire'[a].kind # "init") => \A a \in Arms : ~(l2[a].on /\ l2[a].ext)
  <2>1. nextId' > 0
    BY <1>4, <1>6
  <2>2. PICK m \in Nat : m = nextId'
    BY <1>6, Zenon
  <2>3. PICK w : w = wire'
    BY Zenon
  <2>4. m > 0 /\ l2 \in [Arms -> Latch(m)] /\ w = composeIntent(l2)
    BY <1>3, <1>6, <2>1, <2>2, <2>3, Zenon
  <2>5. /\ w = None \/ w \in [Arms -> [kind: {"init", "hold", "policy"}, id: Below(m)]]
        /\ w # None /\ (\A a \in Arms : w[a].kind # "init") => \A a \in Arms : ~(l2[a].on /\ l2[a].ext)
    BY <2>4, ComposeFacts, Zenon
  <2> QED BY <2>2, <2>3, <2>5, Zenon
<1>8. TypeInv'
  <2>1. Below(nextId) \subseteq Below(nextId') /\ Exec(nextId) \subseteq Exec(nextId')
    BY <1>4, <1>6, BelowGrows, Zenon
  <2>2. exec' \in [Arms -> Exec(nextId')] /\ tare' \in [Arms -> Tares]
    BY <1>3, <2>1, Zenon DEF IInv, TypeInv
  <2>3. snap' \in [status: [Arms -> Status], id: [Arms -> Below(nextId')], tare: [Arms -> Tares],
                   outside: SUBSET Arms]
    <3>1. [Arms -> Below(nextId)] \subseteq [Arms -> Below(nextId')]
      BY <2>1, Zenon
    <3> QED BY <1>3, <3>1, Zenon DEF IInv, TypeInv
  <2>4. nextId' > 0
    BY <1>4, <1>6
  <2> QED BY <1>3, <1>6, <1>7, <2>2, <2>3, <2>4, Zenon DEF TypeInv
<1>9. ServerInv' /\ SnapInv'
  <2>1. ServerInv /\ SnapInv
    BY Zenon DEF IInv
  <2>2. ServerInv'
    BY <1>3, <2>1, Zenon DEF ServerInv
  <2>3. SnapInv'
    BY <1>3, <2>1, Zenon DEF SnapInv
  <2> QED BY <2>2, <2>3, Zenon
<1>10. LatchInv'
  <2> SUFFICES ASSUME NEW a \in Arms, l2[a].on, l2[a].done PROVE l2[a].rid \in finished[a] \cup {0}
    BY <1>3, Zenon DEF LatchInv
  <2>1. l2[a] = l1[a]
    BY <1>6, Zenon
  <2>2. l0[a].on /\ l0[a].done /\ l1[a].rid = l0[a].rid => l0[a] = latch[a]
    BY Zenon
  <2>3. latch[a].on /\ latch[a].done => latch[a].rid \in finished[a] \cup {0}
    BY Zenon DEF IInv, LatchInv
  <2> QED BY <1>5, <2>1, <2>2, <2>3
<1>11. \A a \in doneArms' : latch[a].rid \in finished[a] \cup {0} /\ snap.tare[a] = "accepted"
  <2> SUFFICES ASSUME NEW a \in Arms, l0[a].on, ~l1[a].on
               PROVE  latch[a].rid \in finished[a] \cup {0} /\ snap.tare[a] = "accepted"
    BY <1>3, Zenon
  <2>1. /\ snap.tare[a] = "accepted"
        /\ l0[a].done \/ (snap.id[a] = l0[a].rid /\ snap.id[a] \in finished[a] \cup {0})
    BY <1>5, Zenon
  <2>2. snap.id[a] # nextId
    BY <1>4 DEF IInv, TypeInv, Below
  <2>3. l0[a] = latch[a]
    BY <2>1, <2>2, Zenon
  <2>4. latch[a].on /\ latch[a].done => latch[a].rid \in finished[a] \cup {0}
    BY Zenon DEF IInv, LatchInv
  <2> QED BY <2>1, <2>3, <2>4, Zenon
<1>12. ASSUME wire' # None, \A b \in Arms : wire'[b].kind # "init"
       PROVE  \A a \in Arms : snap.status[a] \in Moving => latch'[a].on /\ ~latch'[a].ext
  <2>1. \A a \in Arms : snap.status[a] \in Moving => l2[a].on
    BY <1>5, <1>6, Zenon
  <2> QED BY <1>3, <1>7, <1>12, <2>1, Zenon
<1>13. ASSUME l0 = latch, NEW a \in Arms, latch[a].on, latch[a].fail
       PROVE  \/ latch'[a].on /\ latch'[a].fail
              \/ latch[a].ext /\ snap.status[a] \in Moving /\ snap.id[a] # latch[a].rid
  <2>1. l1[a].on => l2[a] = l1[a]
    BY <1>6, Zenon
  <2> QED BY <1>3, <1>5, <1>13, <2>1, Zenon
<1> QED BY <1>8, <1>9, <1>10, <1>11, <1>12, <1>13, Zenon DEF IInv

(* The next id moves on if one of the arms has taken it. *)
NextIds(l, arms, n) ==
    n \in {nextId, nextId + 1} /\ (n = nextId => \A a \in arms : ~(l[a].on /\ l[a].rid = nextId))

(* Latches that are as they were, off, or of a new request. *)
Commanded(l, n) ==
    /\ n \in Nat /\ n >= nextId /\ l \in [Arms -> Latch(n)]
    /\ \A a \in Arms : l[a] = latch[a] \/ ~l[a].on \/ (~l[a].done /\ l[a].rid = nextId)

(* What a command may do to a latch: nothing, turn it off, or start a      *)
(* request with the next id.                                               *)
LEMMA CommandFacts ==
    ASSUME IInv, NEW arms \in SUBSET Arms, NEW action \in {"start", "cancel", "toggle"}, NEW poses,
           NEW l0, l0 = handleCommand(latch, arms, action, poses),
           NEW n, NextIds(l0, arms, n)
    PROVE  Commanded(l0, n)
<1> USE DEF NextIds, Commanded
<1>1. nextId \in Nat /\ nextId > 0 /\ latch \in [Arms -> Latch(nextId)]
  BY Zenon DEF IInv, TypeInv
<1>2. n \in Nat /\ n >= nextId /\ Latch(nextId) \subseteq Latch(n)
  BY <1>1, BelowGrows
<1>3. CASE l0 = latch
  BY <1>1, <1>2, <1>3, Zenon
<1>4. CASE l0 = cancelArms(latch, arms)
  <2>1. offLatch \in Latch(n) /\ ~offLatch.on
    <3>1. 0 \in Below(n)
      BY <1>1, <1>2 DEF Below
    <3> QED BY <3>1, Zenon DEF offLatch, Latch
  <2> QED BY <1>1, <1>2, <1>4, <2>1, Zenon DEF cancelArms
<1>5. CASE l0 = [a \in Arms |-> IF a \in arms THEN newLatch(nextId) ELSE latch[a]]
  <2>1. PICK v : v = newLatch(nextId)
    BY Zenon
  <2>2. v = [on |-> TRUE, ext |-> FALSE, fail |-> FALSE, done |-> FALSE, rid |-> nextId]
    BY <2>1, NewLatch, Zenon
  <2>3. v.on /\ ~v.done /\ v.rid = nextId
    BY <2>2, Zenon
  <2>4. l0 = [a \in Arms |-> IF a \in arms THEN v ELSE latch[a]]
    BY <1>5, <2>1, Zenon
  <2>5. CASE arms = {}
    BY <1>1, <1>2, <2>4, <2>5, Zenon
  <2>6. CASE arms # {}
    <3>1. n = nextId + 1
      BY <2>3, <2>4, <2>6, Zenon
    <3>2. nextId \in Below(n)
      BY <1>1, <3>1 DEF Below
    <3>3. v \in Latch(n)
      BY <2>2, <3>2, Zenon DEF Latch
    <3> QED BY <1>1, <1>2, <2>3, <2>4, <3>3, Zenon
  <2> QED BY <2>5, <2>6, Zenon
<1> QED BY <1>3, <1>4, <1>5, Zenon DEF handleCommand, startArms

(* The three ticks. *)
LEMMA TicksFacts ==
    ASSUME IInv, events \in Nat, Tick \/ TickWithCommand \/ TickWithConfig
    PROVE  /\ IInv'
           /\ \A a \in doneArms' : latch[a].rid \in finished[a] \cup {0} /\ snap.tare[a] = "accepted"
           /\ wire' # None /\ (\A b \in Arms : wire'[b].kind # "init") =>
                 \A a \in Arms : snap.status[a] \in Moving => latch'[a].on /\ ~latch'[a].ext
           /\ events' = events => \A a \in Arms : latch[a].on /\ latch[a].fail =>
                                     \/ latch'[a].on /\ latch'[a].fail
                                     \/ latch[a].ext /\ snap.status[a] \in Moving /\ snap.id[a] # latch[a].rid
<1>1. nextId \in Nat /\ nextId >= nextId /\ latch \in [Arms -> Latch(nextId)] /\ auto \in BOOLEAN
  BY DEF IInv, TypeInv
<1>2. CASE Tick
  BY <1>1, <1>2, TickFacts, Zenon DEF Tick
<1>3. CASE TickWithConfig
  <2>1. tick(latch, posed \cup Arms, ~auto, nextId) /\ UNCHANGED <<serverVars, snap>>
    BY <1>3, Zenon DEF TickWithConfig
  <2> QED BY <1>1, <2>1, TickFacts, Zenon
<1>4. CASE TickWithCommand
  <2>1. PICK arms \in Presses, action \in {"start", "cancel", "toggle"}, poses \in {posed, Arms} :
           LET l0 == handleCommand(latch, arms, action, poses)
               pressed == \E a \in arms : l0[a].on /\ l0[a].rid = nextId
           IN tick(l0, poses, auto, IF pressed THEN nextId + 1 ELSE nextId)
    BY <1>4, Zenon DEF TickWithCommand
  <2>2. PICK l0 : l0 = handleCommand(latch, arms, action, poses)
    BY Zenon
  <2>3. PICK n : n = IF \E a \in arms : l0[a].on /\ l0[a].rid = nextId THEN nextId + 1 ELSE nextId
    BY Zenon
  <2>4. tick(l0, poses, auto, n)
    BY <2>1, <2>2, <2>3, Zenon
  <2>5. UNCHANGED <<serverVars, snap>>
    BY <1>4, Zenon DEF TickWithCommand
  <2>8. events' # events
    <3>1. events' = events + 1
      BY <1>4, Zenon DEF TickWithCommand
    <3> QED BY <3>1
  <2>6. arms \in SUBSET Arms
    BY ArmsAssumption, Zenon
  <2>9. NextIds(l0, arms, n)
    BY <1>1, <2>3 DEF NextIds
  <2>7. Commanded(l0, n)
    BY <2>2, <2>6, <2>9, CommandFacts, Zenon
  <2> QED BY <1>1, <2>4, <2>5, <2>7, <2>8, TickFacts, Zenon DEF Commanded
<1> QED BY <1>2, <1>3, <1>4, Zenon

(* x is y or has given arms up. *)
Narrowed(x, y) == x.status = "idle" \/ (x.status = y.status /\ x.arms \subseteq y.arms /\ x.id = y.id)

(* An idle exec. *)
LEMMA IdleExec ==
    ASSUME NEW n \in Nat, n > 0
    PROVE  idleExec \in Exec(n) /\ idleExec.status = "idle"
<1>1. 0 \in Below(n)
  BY Zenon DEF Below
<1> QED BY <1>1, Zenon DEF idleExec, Exec, Status

(* release_init_motion_arm gives arms up. *)
LEMMA ReleaseFacts ==
    ASSUME NEW n \in Nat, n > 0, NEW y \in Exec(n), NEW a \in Arms, NEW x, x = released(y, a)
    PROVE  x \in Exec(n) /\ Narrowed(x, y)
<1>1. y.status \in Status /\ y.arms \in SUBSET Arms /\ y.id \in [Arms -> Below(n)]
  BY Zenon DEF Exec
<1>2. CASE x = y
  BY <1>2, Zenon DEF Narrowed
<1>3. CASE x = idleExec
  BY <1>3, IdleExec, Zenon DEF Narrowed
<1>4. CASE x = [y EXCEPT !.arms = @ \ {a}]
  <2>1. x = [status |-> y.status, arms |-> y.arms \ {a}, id |-> y.id]
    BY <1>4, Zenon DEF Exec
  <2> QED BY <1>1, <2>1 DEF Exec, Narrowed
<1> QED BY <1>2, <1>3, <1>4, Zenon DEF released

(* A request that is not fresh changes nothing. *)
LEMMA LaunchFacts ==
    ASSUME NEW n \in Nat, NEW y \in Exec(n), NEW foot \in SUBSET Arms, NEW id \in [Arms -> Below(n)],
           n > 0, NEW x, x = launched(y, foot, id)
    PROVE  x \in Exec(n) /\ (x = y \/ x.status = "planning")
<1>1. CASE isFresh(y, foot, id)
  <2>1. x = [status |-> "planning", arms |-> foot, id |-> [a \in Arms |-> IF a \in foot THEN id[a] ELSE 0]]
    BY <1>1, Zenon DEF launched
  <2>2. 0 \in Below(n)
    BY Zenon DEF Below
  <2>3. [a \in Arms |-> IF a \in foot THEN id[a] ELSE 0] \in [Arms -> Below(n)]
    BY <2>2, Zenon
  <2> QED BY <2>1, <2>3 DEF Exec, Status
<1>2. CASE ~isFresh(y, foot, id)
  BY <1>2, Zenon DEF launched
<1> QED BY <1>1, <1>2, Zenon

(* A request narrows execs or launches one. *)
LEMMA RequestFacts ==
    ASSUME NEW n \in Nat, n > 0, NEW y \in [Arms -> Exec(n)], NEW arms \in SUBSET Arms,
           NEW id \in [Arms -> Below(n)], NEW x, x = requested(y, arms, id)
    PROVE  x \in [Arms -> Exec(n)] /\ \A e \in Arms : Narrowed(x[e], y[e]) \/ x[e].status = "planning"
<1> DEFINE combined == arms = Arms /\ (id["left"] = id["right"] \/ \E a \in Arms : id[a] = 0)
           left == IF ~combined /\ "right" \in arms THEN released(y["left"], "right") ELSE y["left"]
           right == IF combined THEN idleExec
                    ELSE IF "left" \in arms THEN released(y["right"], "left") ELSE y["right"]
           onLeft == IF "left" \in arms THEN launched(left, IF combined THEN Arms ELSE {"left"}, id) ELSE left
           onRight == IF "right" \in arms /\ ~combined THEN launched(right, {"right"}, id) ELSE right
<1>1. x = [e \in Arms |-> IF e = "left" THEN onLeft ELSE onRight]
  BY Zenon DEF requested
<1>2. "left" \in Arms /\ "right" \in Arms /\ {"left"} \in SUBSET Arms /\ {"right"} \in SUBSET Arms
  BY Zenon DEF Arms
<1>3. /\ idleExec \in Exec(n) /\ Narrowed(idleExec, y["right"])
      /\ Narrowed(y["left"], y["left"]) /\ Narrowed(y["right"], y["right"])
  BY IdleExec, Zenon DEF Narrowed
<1> HIDE DEF combined
<1>4. left \in Exec(n) /\ Narrowed(left, y["left"])
  BY <1>2, <1>3, ReleaseFacts, Zenon
<1>5. right \in Exec(n) /\ Narrowed(right, y["right"])
  BY <1>2, <1>3, ReleaseFacts, Zenon
<1> HIDE DEF left, right
<1>6. onLeft \in Exec(n) /\ (onLeft = left \/ onLeft.status = "planning")
  <2>1. CASE "left" \in arms
    <3>1. PICK foot \in SUBSET Arms : onLeft = launched(left, foot, id)
      BY <1>2, <2>1, Zenon
    <3> QED BY <1>4, <3>1, LaunchFacts
  <2> QED BY <1>4, <2>1, Zenon
<1>7. onRight \in Exec(n) /\ (onRight = right \/ onRight.status = "planning")
  <2>1. CASE "right" \in arms /\ ~combined
    <3>1. onRight = launched(right, {"right"}, id)
      BY <2>1, Zenon
    <3> QED BY <1>2, <1>5, <3>1, LaunchFacts, Zenon
  <2> QED BY <1>5, <2>1, Zenon
<1> HIDE DEF onLeft, onRight
<1>8. x["left"] = onLeft /\ x["right"] = onRight /\ x \in [Arms -> Exec(n)]
  BY <1>1, <1>2, <1>6, <1>7, Zenon
<1> QED BY <1>4, <1>5, <1>6, <1>7, <1>8, Zenon DEF Arms

(* A step of the server keeps the invariant if a Done is of the request it *)
(* carries and an arm under way has no zero yet.                           *)
LEMMA ServerStep ==
    ASSUME IInv, NEW x \in [Arms -> Exec(nextId)], runs(x),
           \A a \in Arms : finished[a] \subseteq finished'[a],
           \A e \in Arms : \A a \in x[e].arms :
              /\ x[e].status = "done" => x[e].id[a] \in finished'[a] \cup {0}
              /\ x[e].status = "executing" => tare[a] = "awaiting",
           wire' = wire \/ wire' = None, UNCHANGED <<latch, auto, snap, nextId>>
    PROVE  IInv'
<1>1. exec' = x /\ tare' = tareAfter(x)
  BY Zenon DEF runs
<1>2. TypeInv'
  <2>1. tare \in [Arms -> Tares]
    BY Zenon DEF IInv, TypeInv
  <2>2. tare' \in [Arms -> Tares]
    BY <1>1, <2>1, Zenon DEF tareAfter, Tares
  <2> QED BY <1>1, <2>2, Zenon DEF IInv, TypeInv
<1>3. ServerInv'
  <2> SUFFICES ASSUME NEW e \in Arms, NEW a \in x[e].arms
               PROVE  /\ x[e].status = "done" => x[e].id[a] \in finished'[a] \cup {0}
                      /\ x[e].status \in Moving => tare'[a] = "awaiting"
    BY <1>1, Zenon DEF ServerInv
  <2>1. a \in Arms
    BY Zenon DEF Exec
  <2>2. CASE x[e].status = "planning"
    <3>1. owns(x, e, a) /\ x[e].status \in {"planning"}
      BY <2>2, Zenon DEF owns
    <3> QED BY <1>1, <2>1, <2>2, <3>1, Zenon DEF tareAfter
  <2>3. CASE x[e].status = "executing"
    <3>1. owns(x, e, a) /\ x[e].status \in {"executing"} /\ tare[a] = "awaiting"
      BY <2>3, Zenon DEF owns
    <3> QED BY <1>1, <2>1, <2>3, <3>1, Zenon DEF tareAfter
  <2> QED BY <2>2, <2>3, Zenon DEF Moving
<1>4. SnapInv'
  <2>1. SnapInv
    BY Zenon DEF IInv
  <2> QED BY <2>1, Zenon DEF SnapInv
<1>5. LatchInv'
  <2>1. LatchInv
    BY Zenon DEF IInv
  <2> QED BY <2>1, Zenon DEF LatchInv
<1> QED BY <1>2, <1>3, <1>4, <1>5, Zenon DEF IInv

(* Packets and GUI commands. *)
LEMMA RequestsKeep == IInv /\ (Deliver \/ GuiCommand) => IInv'
<1> SUFFICES ASSUME IInv, Deliver \/ GuiCommand PROVE IInv'
  BY Zenon
<1>1. nextId \in Nat /\ nextId > 0 /\ exec \in [Arms -> Exec(nextId)]
  BY Zenon DEF IInv, TypeInv
<1>2. ASSUME NEW x, runs(x), finished' = finished, wire' = wire \/ wire' = None,
             UNCHANGED <<latch, auto, snap, nextId>>,
             x \in [Arms -> Exec(nextId)],
             \A e \in Arms : Narrowed(x[e], exec[e]) \/ x[e].status = "planning"
      PROVE  IInv'
  <2>1. ASSUME NEW e \in Arms, NEW a \in x[e].arms
        PROVE  /\ x[e].status = "done" => x[e].id[a] \in finished'[a] \cup {0}
               /\ x[e].status = "executing" => tare[a] = "awaiting"
    <3>1. ServerInv
      BY Zenon DEF IInv
    <3>2. CASE x[e].status \in {"done", "executing"}
      <4>1. x[e].status = exec[e].status /\ a \in exec[e].arms /\ x[e].id = exec[e].id
        BY <1>2, <3>2, Zenon DEF Narrowed
      <4> QED BY <1>2, <3>1, <4>1 DEF ServerInv, Moving
    <3> QED BY <3>2, Zenon
  <2> QED BY <1>2, <2>1, ServerStep, Zenon
<1>3. PICK idle : idle = [e \in Arms |-> idleExec]
  BY Zenon
<1>4. idle \in [Arms -> Exec(nextId)] /\ \A e \in Arms : Narrowed(idle[e], exec[e])
  BY <1>1, <1>3, IdleExec, Zenon DEF Narrowed
<1>5. CASE Deliver
  <2>1. /\ wire # None /\ wire' = None /\ finished' = finished /\ UNCHANGED <<latch, auto, snap, nextId>>
        /\ LET arms == {a \in Arms : wire[a].kind = "init"}
           IN runs(IF arms = {} THEN [e \in Arms |-> idleExec]
                   ELSE requested(exec, arms, [a \in Arms |-> wire[a].id]))
    BY <1>5, Zenon DEF Deliver
  <2>2. PICK arms \in SUBSET Arms : arms = {a \in Arms : wire[a].kind = "init"}
    BY Zenon
  <2>3. PICK ids : ids = [a \in Arms |-> wire[a].id]
    BY Zenon
  <2>4. ids \in [Arms -> Below(nextId)]
    BY <2>1, <2>3, Zenon DEF IInv, TypeInv
  <2>5. PICK x : x = requested(exec, arms, ids)
    BY Zenon
  <2>6. x \in [Arms -> Exec(nextId)] /\ \A e \in Arms : Narrowed(x[e], exec[e]) \/ x[e].status = "planning"
    BY <1>1, <2>4, <2>5, RequestFacts
  <2>7. runs(idle) \/ runs(x)
    BY <1>3, <2>1, <2>2, <2>3, <2>5, Zenon
  <2> QED BY <1>2, <1>4, <2>1, <2>6, <2>7
<1>6. CASE GuiCommand
  <2>1. /\ wire' = wire /\ finished' = finished /\ UNCHANGED <<latch, auto, snap, nextId>>
        /\ \/ runs([e \in Arms |-> idleExec])
           \/ \E arms \in Presses : runs(requested(exec, arms, [a \in Arms |-> 0]))
    BY <1>6, Zenon DEF GuiCommand
  <2>2. CASE runs([e \in Arms |-> idleExec])
    BY <1>2, <1>3, <1>4, <2>1, <2>2
  <2>3. ASSUME NEW arms \in Presses, runs(requested(exec, arms, [a \in Arms |-> 0])) PROVE IInv'
    <3>1. PICK ids : ids = [a \in Arms |-> 0]
      BY ZenonT(30)
    <3>2. ids \in [Arms -> Below(nextId)] /\ arms \in SUBSET Arms
      BY <1>1, <3>1, ArmsAssumption, Zenon DEF Below
    <3>3. PICK x : x = requested(exec, arms, ids)
      BY Zenon
    <3>4. x \in [Arms -> Exec(nextId)] /\ \A e \in Arms : Narrowed(x[e], exec[e]) \/ x[e].status = "planning"
      BY <1>1, <3>2, <3>3, RequestFacts
    <3>5. runs(x)
      BY <2>3, <3>1, <3>3, Zenon
    <3> QED BY <1>2, <2>1, <3>4, <3>5
  <2> QED BY <2>1, <2>2, <2>3, Zenon
<1> QED BY <1>5, <1>6, Zenon

(* The planner's answers and the ends of moves. *)
LEMMA ExecStepsKeep ==
    ASSUME IInv, NEW e \in Arms, exec[e].status \in Moving,
           NEW st \in {"executing", "done", "failed"}, execStep(e, st)
    PROVE  IInv'
<1>1. /\ nextId \in Nat /\ exec \in [Arms -> Exec(nextId)] /\ ServerInv
  BY Zenon DEF IInv, TypeInv
<1>2. PICK y : y = exec[e]
  BY Zenon
<1>3. y \in Exec(nextId) /\ y.status \in Moving
  BY <1>1, <1>2, Zenon
<1>4. PICK z : z = [y EXCEPT !.status = st]
  BY Zenon
<1>5. z = [status |-> st, arms |-> y.arms, id |-> y.id]
  BY <1>3, <1>4, Zenon DEF Exec
<1>6. z \in Exec(nextId) /\ z.status = st /\ z.arms = y.arms /\ z.id = y.id
  BY <1>3, <1>5, Zenon DEF Exec, Status
<1>7. PICK x : x = [exec EXCEPT ![e] = z]
  BY Zenon
<1>8. runs(x)
  <2>1. [exec EXCEPT ![e].status = st] = [exec EXCEPT ![e] = [exec[e] EXCEPT !.status = st]]
    BY Zenon
  <2> QED BY <1>2, <1>4, <1>7, <2>1, Zenon DEF execStep
<1>9. x \in [Arms -> Exec(nextId)] /\ x[e] = z /\ \A f \in Arms : f # e => x[f] = exec[f]
  BY <1>1, <1>6, <1>7, Zenon
<1>10. /\ finished' = [a \in Arms |-> IF st = "done" /\ a \in y.arms
                                      THEN finished[a] \cup ({y.id[a]} \ {0}) ELSE finished[a]]
       /\ wire' = wire /\ UNCHANGED <<latch, auto, snap, nextId>>
  BY <1>2, Zenon DEF execStep
<1>11. \A a \in Arms : finished[a] \subseteq finished'[a]
  BY <1>10, Zenon
<1>12. ASSUME NEW f \in Arms, NEW a \in x[f].arms
       PROVE  /\ x[f].status = "done" => x[f].id[a] \in finished'[a] \cup {0}
              /\ x[f].status = "executing" => tare[a] = "awaiting"
  <2>1. a \in Arms
    BY <1>9, Zenon DEF Exec
  <2>2. CASE f = e
    <3>1. a \in y.arms /\ x[f].id = y.id /\ x[f].status = st
      BY <1>6, <1>9, <2>2
    <3>2. tare[a] = "awaiting"
      BY <1>1, <1>2, <1>3, <3>1 DEF ServerInv
    <3>3. st = "done" => y.id[a] \in finished'[a] \cup {0}
      BY <1>10, <2>1, <3>1
    <3> QED BY <3>1, <3>2, <3>3, Zenon
  <2>3. CASE f # e
    <3>1. x[f] = exec[f]
      BY <1>9, <2>3, Zenon
    <3> QED BY <1>1, <1>11, <2>1, <3>1 DEF ServerInv, Moving
  <2> QED BY <2>2, <2>3, Zenon
<1> QED BY <1>8, <1>9, <1>10, <1>11, <1>12, ServerStep, Zenon

(* The zero of a settled arm, a lost packet and the published state. *)
LEMMA OthersKeep ==
    IInv /\ (Lose \/ SrvPublish \/ \E a \in Arms : SrvTare(a)) => IInv'
<1> SUFFICES ASSUME IInv, Lose \/ SrvPublish \/ \E a \in Arms : SrvTare(a) PROVE IInv'
  BY Zenon
<1>1. TypeInv /\ ServerInv /\ SnapInv /\ LatchInv
  BY Zenon DEF IInv
<1>2. CASE Lose
  <2>1. /\ wire' = None
        /\ UNCHANGED <<latch, auto, exec, tare, finished, snap, nextId>>
    BY <1>2, Zenon DEF Lose, serverVars
  <2>2. TypeInv'
    BY <1>1, <2>1, Zenon DEF TypeInv
  <2>3. ServerInv'
    BY <1>1, <2>1 DEF ServerInv
  <2>4. SnapInv' /\ LatchInv'
    BY <1>1, <2>1, Zenon DEF SnapInv, LatchInv
  <2> QED BY <2>2, <2>3, <2>4 DEF IInv
<1>3. ASSUME NEW a \in Arms, SrvTare(a) PROVE IInv'
  <2>1. PICK t \in {"accepted", "invalid"} : tare' = [tare EXCEPT ![a] = t]
    BY <1>3, ZenonT(30) DEF SrvTare
  <2>2. tare[a] = "settling" /\ UNCHANGED <<latch, auto, wire, exec, finished, snap, nextId>>
    BY <1>3, Zenon DEF SrvTare
  <2>3. TypeInv'
    BY <1>1, <2>1, <2>2, Zenon DEF TypeInv, Tares
  <2>4. ServerInv'
    BY <1>1, <2>1, <2>2, Zenon DEF ServerInv, TypeInv, Exec
  <2>5. SnapInv' /\ LatchInv'
    BY <1>1, <2>2, Zenon DEF SnapInv, LatchInv
  <2> QED BY <2>3, <2>4, <2>5, Zenon DEF IInv
<1>4. CASE SrvPublish
  <2> DEFINE owner(a) == IF owns(exec, "left", a) THEN exec["left"]
                         ELSE IF owns(exec, "right", a) THEN exec["right"] ELSE idleExec
  <2>1. PICK out \in SUBSET RoiArms :
           snap' = [status |-> [a \in Arms |-> owner(a).status], id |-> [a \in Arms |-> owner(a).id[a]],
                    tare |-> tare, outside |-> out]
    BY <1>4, ZenonT(30) DEF SrvPublish
  <2>2. UNCHANGED <<latch, auto, wire, exec, tare, finished, nextId>>
    BY <1>4, ZenonT(30) DEF SrvPublish, serverVars
  <2>3. ASSUME NEW a \in Arms
        PROVE  /\ owner(a) \in Exec(nextId)
               /\ owner(a).status = "done" => owner(a).id[a] \in finished[a] \cup {0}
               /\ owner(a).status \in Moving => tare[a] = "awaiting"
    <3>1. idleExec \in Exec(nextId) /\ idleExec.status = "idle"
      BY <1>1, IdleExec, Zenon DEF TypeInv
    <3>2. "left" \in Arms /\ "right" \in Arms
      BY Zenon DEF Arms
    <3> QED BY <1>1, <3>1, <3>2, Zenon DEF owns, ServerInv, TypeInv, Moving
  <2> HIDE DEF owner
  <2>4. \A a \in Arms : owner(a).status \in Status /\ owner(a).id[a] \in Below(nextId)
    BY <2>3 DEF Exec
  <2>5. TypeInv'
    <3>1. out \in SUBSET Arms
      BY ArmsAssumption, Zenon
    <3>2. snap' \in [status: [Arms -> Status], id: [Arms -> Below(nextId)], tare: [Arms -> Tares],
                     outside: SUBSET Arms]
      BY <1>1, <2>1, <2>4, <3>1 DEF TypeInv
    <3> QED BY <1>1, <2>2, <3>2, Zenon DEF TypeInv
  <2>6. ServerInv' /\ LatchInv'
    <3>1. ServerInv'
      BY <1>1, <2>2, SMTT(30) DEF ServerInv
    <3>2. LatchInv'
      BY <1>1, <2>2, Zenon DEF LatchInv
    <3> QED BY <3>1, <3>2, Zenon
  <2>7. SnapInv'
    <3>1. \A a \in Arms : snap'.status[a] = owner(a).status /\ snap'.id[a] = owner(a).id[a]
                          /\ snap'.tare[a] = tare[a]
      BY <2>1, Zenon
    <3> QED BY <2>2, <2>3, <3>1, Zenon DEF SnapInv
  <2> QED BY <2>5, <2>6, <2>7, SMTT(30) DEF IInv
<1> QED BY <1>2, <1>3, <1>4, Zenon

(* A step that is not a tick. *)
Other ==
    \/ Deliver \/ GuiCommand \/ Lose \/ SrvPublish
    \/ \E a \in Arms : SrvPlanned(a) \/ SrvMoved(a) \/ SrvTare(a)

(* It keeps the invariant, touches no latch, ends none, and sends nothing. *)
LEMMA OtherFacts ==
    ASSUME IInv, Other
    PROVE  IInv' /\ latch' = latch /\ doneArms' = {} /\ (wire' = wire \/ wire' = None)
<1>1. ASSUME NEW e \in Arms, SrvPlanned(e) \/ SrvMoved(e)
      PROVE  IInv' /\ latch' = latch /\ doneArms' = {} /\ wire' = wire
  <2>1. PICK st \in {"executing", "done", "failed"} : execStep(e, st)
    BY <1>1, Zenon DEF SrvPlanned, SrvMoved
  <2>2. exec[e].status \in Moving
    BY <1>1 DEF SrvPlanned, SrvMoved, Moving
  <2>3. latch' = latch /\ doneArms' = {} /\ wire' = wire
    BY <2>1, Zenon DEF execStep
  <2> QED BY <2>1, <2>2, <2>3, ExecStepsKeep
<1>2. CASE Deliver \/ GuiCommand
  <2>1. latch' = latch /\ doneArms' = {} /\ (wire' = wire \/ wire' = None)
    BY <1>2, Zenon DEF Deliver, GuiCommand
  <2> QED BY <1>2, <2>1, RequestsKeep, Zenon
<1>3. CASE Lose \/ SrvPublish \/ \E a \in Arms : SrvTare(a)
  <2>1. latch' = latch /\ doneArms' = {} /\ (wire' = wire \/ wire' = None)
    BY <1>3 DEF Lose, SrvPublish, SrvTare
  <2> QED BY <1>3, <2>1, OthersKeep, Zenon
<1> QED BY <1>1, <1>2, <1>3 DEF Other

(* The two kinds of steps. *)
LEMMA StepKinds == Next => Tick \/ TickWithCommand \/ TickWithConfig \/ Other
BY SMTT(30) DEF Next, Other

(* The bound on events counts up. *)
LEMMA EventsCount == events \in Nat /\ [Next]_vars => events' \in Nat
<1> SUFFICES ASSUME events \in Nat, [Next]_vars PROVE events' = events \/ events' = events + 1
  OBVIOUS
<1> QED BY ZenonT(30) DEF Next, Tick, TickWithCommand, TickWithConfig, Deliver, Lose, GuiCommand, SrvPlanned, SrvMoved,
               execStep, SrvTare, SrvPublish, vars

(* The inductive invariant. *)
Inv == IInv /\ events \in Nat

(* It holds at the start. *)
LEMMA InvInit == Init => Inv
<1> SUFFICES ASSUME Init PROVE IInv /\ events \in Nat
  BY Zenon DEF Inv
<1>1. 0 \in Below(1) /\ nextId = 1 /\ 1 \in Nat /\ 1 > 0
  BY DEF Below, Init
<1>2. idleExec \in Exec(1) /\ idleExec.status = "idle"
  BY <1>1, IdleExec, Zenon
<1>3. offLatch \in Latch(1) /\ ~offLatch.on
  BY <1>1, Zenon DEF offLatch, Latch
<1>4. /\ latch = [a \in Arms |-> offLatch] /\ exec = [e \in Arms |-> idleExec]
      /\ snap = [status |-> [a \in Arms |-> "idle"], id |-> [a \in Arms |-> 0],
                 tare |-> [a \in Arms |-> "accepted"], outside |-> {}]
      /\ tare = [a \in Arms |-> "accepted"] /\ auto = FALSE /\ wire = None /\ events = 0
  BY Zenon DEF Init
<1>5. TypeInv
  BY <1>1, <1>2, <1>3, <1>4, Zenon DEF TypeInv, Status, Tares
<1>6. ServerInv
  BY <1>2, <1>4 DEF ServerInv, Moving
<1>7. SnapInv /\ LatchInv
  BY <1>3, <1>4, Zenon DEF SnapInv, LatchInv, Moving
<1> QED BY <1>4, <1>5, <1>6, <1>7, Zenon DEF IInv

(* It is kept by every step. *)
LEMMA InvKept == Inv /\ [Next]_vars => Inv'
<1> SUFFICES ASSUME IInv, events \in Nat, [Next]_vars PROVE IInv'
  BY EventsCount, Zenon DEF Inv
<1>1. CASE Next
  BY <1>1, StepKinds, TicksFacts, OtherFacts, Zenon
<1>2. CASE UNCHANGED vars
  <2>1. UNCHANGED <<latch, auto, wire, exec, tare, finished, snap, nextId>>
    BY <1>2, Zenon DEF vars, runnerVars, serverVars
  <2>2. TypeInv'
    BY <2>1, Zenon DEF IInv, TypeInv
  <2>3. ServerInv'
    BY <2>1, Zenon DEF IInv, ServerInv
  <2>4. SnapInv' /\ LatchInv'
    BY <2>1, Zenon DEF IInv, SnapInv, LatchInv
  <2> QED BY <2>2, <2>3, <2>4, Zenon DEF IInv
<1> QED BY <1>1, <1>2, Zenon

(* update_from_snapshot: neither an earlier press, a foreign init, a lost  *)
(* packet nor a stale state releases a latch; only the end of its own      *)
(* request does, with an accepted zero.                                    *)
THEOREM ReleaseIsEarned == Spec => ReleasedWhenReady
<1>1. Inv /\ [Next]_vars =>
        [\A a \in doneArms' : latch[a].rid \in finished[a] \cup {0} /\ snap.tare[a] = "accepted"]_vars
  <2> SUFFICES ASSUME IInv, events \in Nat, Next
               PROVE  \A a \in doneArms' : latch[a].rid \in finished[a] \cup {0} /\ snap.tare[a] = "accepted"
    BY Zenon DEF Inv
  <2>1. CASE Tick \/ TickWithCommand \/ TickWithConfig
    BY <2>1, TicksFacts, Zenon
  <2>2. CASE Other
    BY <2>2, OtherFacts, Zenon
  <2> QED BY <2>1, <2>2, StepKinds, Zenon
<1> QED BY <1>1, InvInit, InvKept, PTL DEF Spec, ReleasedWhenReady

(* update_from_snapshot: a failed latch is let go by nobody but an         *)
(* operator, or a later init of another client.                            *)
THEOREM FailureIsHeld == Spec => FailedLatchHolds
<1>1. Inv /\ [Next]_vars =>
        [\A a \in Arms :
           latch[a].on /\ latch[a].fail /\ events' = events =>
              \/ latch'[a].on /\ latch'[a].fail
              \/ latch[a].ext /\ snap.status[a] \in Moving /\ snap.id[a] # latch[a].rid]_vars
  <2> SUFFICES ASSUME IInv, events \in Nat, Next, NEW a \in Arms, latch[a].on, latch[a].fail, events' = events
               PROVE  \/ latch'[a].on /\ latch'[a].fail
                      \/ latch[a].ext /\ snap.status[a] \in Moving /\ snap.id[a] # latch[a].rid
    BY Zenon DEF Inv
  <2>1. CASE Tick \/ TickWithCommand \/ TickWithConfig
    BY <2>1, TicksFacts, Zenon
  <2>2. CASE Other
    BY <2>2, OtherFacts, Zenon
  <2> QED BY <2>1, <2>2, StepKinds, Zenon
<1> QED BY <1>1, InvInit, InvKept, PTL DEF Spec, FailedLatchHolds

(* compose_intent: no packet of the runner cancels an init that the state  *)
(* shows and that is not its own.                                          *)
THEOREM ForeignInitIsSpared == Spec => SparesObservedInit
<1>1. Inv /\ [Next]_vars =>
        [\A a \in Arms :
           /\ wire' # wire /\ wire' # None /\ \A b \in Arms : wire'[b].kind # "init"
           /\ snap.status[a] \in Moving
           => latch'[a].on /\ ~latch'[a].ext]_vars
  <2> SUFFICES ASSUME IInv, events \in Nat, Next, NEW a \in Arms, wire' # wire, wire' # None,
                      \A b \in Arms : wire'[b].kind # "init", snap.status[a] \in Moving
               PROVE  latch'[a].on /\ ~latch'[a].ext
    BY Zenon DEF Inv
  <2>1. CASE Tick \/ TickWithCommand \/ TickWithConfig
    BY <2>1, TicksFacts, Zenon
  <2>2. CASE Other
    BY <2>2, OtherFacts, Zenon
  <2> QED BY <2>1, <2>2, StepKinds, Zenon
<1> QED BY <1>1, InvInit, InvKept, PTL DEF Spec, SparesObservedInit
=============================================================================
