----------------------- MODULE PreviewExecutionProofs -----------------------
(***************************************************************************)
(* Proofs about the preview executor, for every timing, number of mailbox  *)
(* slots and set of inputs: plans are spliced onto the path they continue, *)
(* and a stop is bounded.                                                  *)
(***************************************************************************)
EXTENDS PreviewExecution, TLAPS

(* How the parts of an executor fit together. *)
Shape(e) ==
    /\ parent(e) <= e.rid
    /\ e.init = FALSE => e.active = None /\ e.brake = None /\ e.staged = None /\ ~halting(e)
    /\ e.faulted = TRUE => e.init = FALSE
    /\ e.brake # None => /\ e.active = None /\ e.planId = e.brake.id
                         /\ e.brake.origin <= e.last

(* A plan on its way still knows its place: along one epoch the plan that  *)
(* is continued has rising identities, so one that names the present       *)
(* parent continues the present path.                                      *)
Fits(e, p) ==
    /\ p.parent < p.id /\ p.id <= e.rid
    /\ p.epoch <= e.epoch
    /\ e.init = FALSE => p.epoch < e.epoch
    /\ p.epoch = e.epoch => p.parent <= parent(e)
    /\ (p.epoch = e.epoch /\ p.parent = parent(e)) => p.basis = e.path

Base(e) == e \in Executor /\ Shape(e) /\ (e.staged # None => Fits(e, e.staged))

Good(e) == Base(e) /\ (halting(e) => e.brake # None)

(* What no operation of the executor undoes: plans on their way keep their *)
(* place, and a stop its brake.                                            *)
Carries(e, f) == \A p \in Plan : Fits(e, p) => Fits(f, p)

Follows(e, f) ==
    /\ Carries(e, f)
    /\ f.epoch >= e.epoch
    /\ (halting(e) /\ f.epoch = e.epoch) =>
          halting(f) /\ f.brake = e.brake /\ f.acc = e.acc
    /\ f.active = None \/ (f.active = e.active /\ f.gauge = e.gauge)

LEMMA FollowsSelf == ASSUME NEW e \in Executor PROVE Follows(e, e)
BY DEF Follows, Carries, Executor

LEMMA FollowsChain ==
    ASSUME NEW e \in Executor, NEW f \in Executor, NEW g \in Executor,
           Follows(e, f), Follows(f, g)
    PROVE  Follows(e, g)
<1>1. e.epoch \in Nat /\ f.epoch \in Nat /\ g.epoch \in Nat
  BY Zenon DEF Executor
<1>2. g.epoch = e.epoch => f.epoch = e.epoch
  BY <1>1 DEF Follows
<1> QED BY <1>1, <1>2 DEF Follows, Carries

LEMMA ParentType == ASSUME NEW e \in Executor PROVE parent(e) \in Nat
BY NoneAssumption, Zenon DEF parent, Executor, Plan, Brake

(* reset starts a new epoch unless there is nothing to forget. *)
LEMMA ResetStep ==
    ASSUME NEW e, Base(e)
    PROVE  /\ Good(reset(e)) /\ Follows(e, reset(e)) /\ ~halting(reset(e))
           /\ reset(e).init = FALSE /\ reset(e).faulted = FALSE
           /\ reset(e).last = e.last /\ reset(e).path = e.path
           /\ reset(e).active = None
           /\ (e.init \/ e.faulted) => reset(e).epoch > e.epoch
<1>1. PICK d : d = (e.init \/ e.staged # None \/ hasPlan(e) \/ e.faulted)
  BY Zenon
<1>2. PICK n : n = (IF d THEN e.epoch + 1 ELSE e.epoch)
  BY Zenon
<1>3. PICK m : m = (IF d THEN e.gate + 1 ELSE e.gate)
  BY Zenon
<1>4. e \in Executor /\ n \in Nat /\ m \in Nat
  BY <1>2, <1>3 DEF Base, Executor
<1>5. PICK f : f = reset(e)
  BY Zenon
<1>6. f = [e EXCEPT !.epoch = n, !.gate = m,
              !.init = FALSE, !.faulted = FALSE, !.stopping = FALSE, !.recov = FALSE,
              !.stopFault = FALSE, !.seed = FALSE, !.gauge = 0, !.planId = 0, !.starved = 0,
              !.active = None, !.staged = None, !.brake = None, !.acc = None]
  BY <1>1, <1>2, <1>3, <1>5, Zenon DEF reset
<1>7. f \in Executor
  BY <1>4, <1>6, ZenonT(90) DEF Executor
<1>8. /\ f.epoch = n /\ f.init = FALSE /\ f.faulted = FALSE /\ f.stopping = FALSE
      /\ f.recov = FALSE /\ f.active = None /\ f.staged = None /\ f.brake = None
      /\ f.rid = e.rid /\ f.path = e.path /\ f.last = e.last
  BY <1>4, <1>6, Zenon DEF Executor
<1>9. parent(f) = 0 /\ ~halting(f)
  BY <1>8, Zenon DEF parent, halting
<1>10. e.epoch \in Nat /\ e.rid \in Nat /\ n >= e.epoch /\ (e.init \/ e.faulted => n > e.epoch)
  BY <1>1, <1>2, <1>4 DEF Executor
<1>11. Good(f)
  BY <1>7, <1>8, <1>9, <1>10 DEF Good, Base, Shape
<1>12. Carries(e, f)
  <2> SUFFICES ASSUME NEW p \in Plan, Fits(e, p) PROVE Fits(f, p)
    BY Zenon DEF Carries
  <2>1. p.epoch \in Nat /\ p.parent \in Nat /\ p.id \in Nat
    BY Zenon DEF Plan
  <2>2. p.epoch < n
    BY <2>1, <1>10, <1>4 DEF Fits, Executor
  <2> QED BY <2>1, <2>2, <1>4, <1>8, <1>10 DEF Fits
<1>13. Follows(e, f)
  <2>1. halting(e) => n > e.epoch
    BY <1>10, <1>4, Zenon DEF Base, Shape, Executor
  <2> QED BY <2>1, <1>8, <1>10, <1>12, <1>4 DEF Follows
<1> QED BY <1>5, <1>8, <1>9, <1>10, <1>11, <1>13, Zenon

(* fail is a reset that is remembered. *)
LEMMA FailStep ==
    ASSUME NEW e, Base(e)
    PROVE  /\ Good(fail(e)) /\ Follows(e, fail(e)) /\ ~halting(fail(e))
           /\ fail(e).init = FALSE /\ fail(e).faulted = TRUE
           /\ fail(e).last = e.last /\ fail(e).path = e.path
           /\ fail(e).active = None
           /\ (e.init \/ e.faulted) => fail(e).epoch > e.epoch
<1>1. PICK r : r = reset(e)
  BY Zenon
<1>2. PICK f : f = fail(e)
  BY Zenon
<1>3. /\ Good(r) /\ Follows(e, r) /\ ~halting(r) /\ r.init = FALSE
      /\ r.last = e.last /\ r.path = e.path /\ r.active = None
      /\ (e.init \/ e.faulted) => r.epoch > e.epoch
  BY <1>1, ResetStep, Zenon
<1>4. r \in Executor
  BY <1>3, Zenon DEF Good, Base
<1>5. f = [r EXCEPT !.faulted = TRUE]
  BY <1>1, <1>2, Zenon DEF fail
<1>6. f \in Executor
  BY <1>4, <1>5, ZenonT(30) DEF Executor
<1>7. /\ f.faulted = TRUE /\ f.init = r.init /\ f.active = r.active /\ f.brake = r.brake
      /\ f.staged = r.staged /\ f.stopping = r.stopping /\ f.recov = r.recov
      /\ f.rid = r.rid /\ f.path = r.path /\ f.last = r.last /\ f.epoch = r.epoch
      /\ f.planId = r.planId
  BY <1>4, <1>5, Zenon DEF Executor
<1>8. parent(f) = parent(r) /\ (halting(f) <=> halting(r))
  BY <1>7, Zenon DEF parent, halting
<1>9. Shape(f) /\ (\A p : Fits(r, p) => Fits(f, p))
  BY <1>3, <1>7, <1>8, Zenon DEF Good, Base, Shape, Fits
<1>10. Good(f)
  BY <1>3, <1>6, <1>7, <1>8, <1>9, Zenon DEF Good, Base, Shape
<1>11. Follows(e, f)
  BY <1>3, <1>7, <1>8, <1>9, Zenon DEF Follows, Carries
<1> QED BY <1>2, <1>3, <1>7, <1>8, <1>10, <1>11, Zenon

(* An executor that goes on along the same path keeps every plan's place. *)
LEMMA SamePath ==
    ASSUME NEW e, Base(e), NEW f \in Executor,
           f.epoch = e.epoch, f.path = e.path, f.planId = e.planId,
           f.active = e.active, f.brake = e.brake, f.init = e.init, f.faulted = e.faulted,
           f.rid >= e.rid, f.last >= e.last, f.staged = e.staged \/ f.staged = None,
           f.init = FALSE => ~halting(f)
    PROVE  Base(f) /\ Carries(e, f) /\ parent(f) = parent(e)
<1>1. e \in Executor /\ Shape(e)
  BY Zenon DEF Base
<1>2. parent(f) = parent(e) /\ parent(e) \in Nat
  BY ParentType, <1>1, Zenon DEF parent
<1>3. e.rid \in Nat /\ f.rid \in Nat /\ e.last \in Nat /\ f.last \in Nat
  BY <1>1, Zenon DEF Executor
<1>4. e.brake # None => e.brake.origin \in Nat
  BY <1>1, Zenon DEF Executor, Brake
<1>5. Shape(f)
  BY <1>1, <1>2, <1>3, <1>4 DEF Shape
<1>6. Carries(e, f)
  <2> SUFFICES ASSUME NEW p \in Plan, Fits(e, p) PROVE Fits(f, p)
    BY Zenon DEF Carries
  <2>1. p.id \in Nat
    BY Zenon DEF Plan
  <2> QED BY <2>1, <1>2, <1>3 DEF Fits
<1>7. e.staged # None => e.staged \in Plan
  BY <1>1, Zenon DEF Executor
<1> QED BY <1>2, <1>5, <1>6, <1>7, Zenon DEF Base, Carries

(* A brake replaces the path under an identity of its own, fails, or runs   *)
(* on if there is one.                                                     *)
Braked(e, f) ==
    \/ f = fail(e)
    \/ /\ f.faulted = FALSE /\ f.init = TRUE /\ f.brake # None
       /\ f.epoch = e.epoch /\ f.stopping = e.stopping /\ f.recov = e.recov
       /\ f.acc = e.acc /\ f.last = e.last /\ f.gauge = e.gauge
       /\ e.brake # None => f = e

LEMMA BrakeStep ==
    ASSUME NEW e, Base(e), e.init = TRUE, NEW dur \in (0..MaxBrake) \cup {None}
    PROVE  LET f == beginBrake(e, dur) IN
           Base(f) /\ Carries(e, f) /\ Braked(e, f)
<1>1. PICK f : f = beginBrake(e, dur)
  BY Zenon
<1>2. e \in Executor /\ Shape(e) /\ e.faulted = FALSE
  BY Zenon DEF Base, Shape, Executor
<1>3. CASE e.brake # None
  BY <1>1, <1>2, <1>3, Zenon DEF beginBrake, Braked, Carries
<1>4. CASE e.brake = None /\ f = fail(e)
  BY <1>1, <1>4, FailStep, Zenon DEF Good, Follows, Braked
<1>5. CASE e.brake = None /\ f # fail(e)
  <2>1. PICK o : o = (IF e.acc # None THEN e.acc.time ELSE e.last)
    BY Zenon
  <2>3. o \in Nat /\ e.rid \in Nat /\ e.rid + 1 \in Nat /\ e.last \in Nat /\ e.path + 1 \in Nat
    BY <1>2, <2>1 DEF Executor
  <2>2. o <= e.last /\ dur # None
    BY <1>1, <1>5, <2>1, <2>3 DEF beginBrake, startBrake
  <2>4. PICK k : k = [id |-> e.rid + 1, origin |-> o, dur |-> dur]
    BY Zenon
  <2>5. k \in Brake /\ k # None
    BY <2>2, <2>3, <2>4, NoneAssumption DEF Brake
  <2>6. f = [e EXCEPT !.rid = e.rid + 1, !.planId = e.rid + 1, !.nextReq = e.last,
                      !.path = e.path + 1, !.active = None, !.staged = None, !.brake = k]
    BY <1>1, <1>2, <1>5, <2>1, <2>4, Zenon DEF beginBrake, startBrake
  <2>7. f \in Executor
    BY <1>2, <2>3, <2>5, <2>6, ZenonT(30) DEF Executor
  <2>8. /\ f.rid = e.rid + 1 /\ f.planId = e.rid + 1 /\ f.active = None /\ f.staged = None
        /\ f.brake = k /\ f.init = TRUE /\ f.faulted = FALSE /\ f.last = e.last
        /\ f.epoch = e.epoch /\ f.stopping = e.stopping /\ f.recov = e.recov
        /\ f.acc = e.acc /\ f.gauge = e.gauge
    BY <1>2, <2>3, <2>6, Zenon DEF Executor
  <2>9. parent(f) = e.rid + 1 /\ k.id = e.rid + 1 /\ k.origin = o
    BY <2>4, <2>5, <2>8 DEF parent
  <2>10. Base(f)
    BY <2>2, <2>3, <2>5, <2>7, <2>8, <2>9 DEF Base, Shape
  <2>11. Carries(e, f)
    <3> SUFFICES ASSUME NEW p \in Plan, Fits(e, p) PROVE Fits(f, p)
      BY Zenon DEF Carries
    <3>1. p.id \in Nat /\ p.parent \in Nat /\ p.epoch \in Nat
      BY Zenon DEF Plan
    <3> QED BY <3>1, <2>3, <2>8, <2>9 DEF Fits
  <2>12. Braked(e, f)
    BY <1>5, <2>5, <2>8, Zenon DEF Braked
  <2> QED BY <1>1, <2>10, <2>11, <2>12, Zenon
<1> QED BY <1>3, <1>4, <1>5, Zenon

(* The same of an executor that gives up its staged plan first, to stop. *)
LEMMA StopStep ==
    ASSUME NEW e, Good(e), NEW dur \in (0..MaxBrake) \cup {None}
    PROVE  LET f == requestStop(e, dur) IN
           Good(f) /\ Follows(e, f) /\ f.last = e.last
<1>1. PICK f : f = requestStop(e, dur)
  BY Zenon
<1>2. e \in Executor /\ Base(e) /\ Shape(e)
  BY Zenon DEF Good, Base
<1>3. CASE e.stopping \/ ~e.init \/ e.faulted
  <2>1. f = e
    BY <1>1, <1>3, Zenon DEF requestStop
  <2> QED BY <1>1, <1>2, <2>1, FollowsSelf, Zenon
<1>4. CASE ~(e.stopping \/ ~e.init \/ e.faulted)
  <2>1. PICK t : t = [e EXCEPT !.recov = FALSE, !.stopFault = FALSE,
                               !.gate = e.gate + 1, !.staged = None]
    BY Zenon
  <2>2. t \in Executor
    <3>1. e.gate + 1 \in Nat
      BY <1>2 DEF Executor
    <3> QED BY <1>2, <2>1, <3>1, ZenonT(30) DEF Executor
  <2>3. /\ t.epoch = e.epoch /\ t.path = e.path /\ t.planId = e.planId /\ t.active = e.active
        /\ t.brake = e.brake /\ t.init = e.init /\ t.faulted = e.faulted /\ t.rid = e.rid
        /\ t.last = e.last /\ t.staged = None /\ t.acc = e.acc /\ t.recov = FALSE
        /\ t.stopping = e.stopping /\ t.gauge = e.gauge
    BY <1>2, <2>1, Zenon DEF Executor
  <2>4. e.init = TRUE /\ e.rid \in Nat /\ e.last \in Nat /\ e.epoch \in Nat
    BY <1>2, <1>4, Zenon DEF Executor
  <2>5. Base(t) /\ Carries(e, t)
    <3>1. t.rid >= e.rid /\ t.last >= e.last /\ (t.init = FALSE => ~halting(t))
      BY <2>3, <2>4
    <3> QED BY <1>2, <2>2, <2>3, <3>1, SamePath, Zenon
  <2>6. PICK b : b = beginBrake(t, dur)
    BY Zenon
  <2>7. Base(b) /\ Carries(t, b) /\ Braked(t, b)
    BY <2>3, <2>4, <2>5, <2>6, BrakeStep, Zenon
  <2>8. f = IF b.faulted THEN b ELSE [b EXCEPT !.stopping = TRUE]
    BY <1>1, <1>4, <2>1, <2>6, Zenon DEF requestStop
  <2>9. CASE b = fail(t)
    <3>1. /\ Good(b) /\ ~halting(b) /\ b.faulted = TRUE /\ b.last = t.last /\ b.active = None
          /\ b.epoch > t.epoch
      BY <2>3, <2>4, <2>5, <2>9, FailStep, Zenon
    <3>2. b.epoch \in Nat
      BY <3>1, Zenon DEF Good, Base, Executor
    <3> QED BY <1>1, <2>3, <2>4, <2>5, <2>7, <2>8, <3>1, <3>2 DEF Follows, Carries
  <2>10. CASE b # fail(t)
    <3>1. /\ b.faulted = FALSE /\ b.init = TRUE /\ b.brake # None
          /\ b.epoch = t.epoch /\ b.acc = t.acc /\ b.last = t.last
          /\ t.brake # None => b = t
      BY <2>7, <2>10, Zenon DEF Braked
    <3>2. f = [b EXCEPT !.stopping = TRUE] /\ b \in Executor
      BY <2>7, <2>8, <3>1, Zenon DEF Base
    <3>3. f \in Executor /\ f.stopping = TRUE
      BY <3>2, Zenon DEF Executor
    <3>4. /\ f.epoch = b.epoch /\ f.path = b.path /\ f.planId = b.planId /\ f.active = b.active
          /\ f.brake = b.brake /\ f.init = b.init /\ f.faulted = b.faulted /\ f.rid = b.rid
          /\ f.last = b.last /\ f.staged = b.staged /\ f.acc = b.acc
      BY <3>2, Zenon DEF Executor
    <3>5. b.rid \in Nat /\ b.last \in Nat
      BY <3>2, Zenon DEF Executor
    <3>6. Base(f) /\ Carries(b, f)
      <4>1. f.rid >= b.rid /\ f.last >= b.last /\ (f.init = FALSE => ~halting(f))
        BY <3>1, <3>4, <3>5
      <4> QED BY <2>7, <3>3, <3>4, <4>1, SamePath, Zenon
    <3>7. Good(f) /\ halting(f)
      BY <3>1, <3>3, <3>4, <3>6, Zenon DEF Good, halting
    <3>8. f.active = None
      BY <3>1, <3>4, <3>6, Zenon DEF Base, Shape
    <3>9. halting(e) => f.brake = e.brake /\ f.acc = e.acc
      BY <2>3, <3>1, <3>4 DEF Good
    <3> QED BY <1>1, <2>3, <2>4, <2>5, <2>7, <3>1, <3>4, <3>6, <3>7, <3>8, <3>9 DEF Follows, Carries
  <2> QED BY <2>9, <2>10, Zenon
<1> QED BY <1>3, <1>4, Zenon

(* And to recover. *)
LEMMA RecoveryStep ==
    ASSUME NEW e, Good(e), NEW dur \in (0..MaxBrake) \cup {None}
    PROVE  LET f == requestRecovery(e, dur) IN
           Good(f) /\ Follows(e, f) /\ f.last = e.last
<1>1. PICK f : f = requestRecovery(e, dur)
  BY Zenon
<1>2. e \in Executor /\ Base(e) /\ Shape(e)
  BY Zenon DEF Good, Base
<1>3. CASE ~setup.recovery \/ ~e.init \/ e.faulted \/ e.recov
  <2>1. f = e
    BY <1>1, <1>3, Zenon DEF requestRecovery
  <2> QED BY <1>1, <1>2, <2>1, FollowsSelf, Zenon
<1>4. CASE ~(~setup.recovery \/ ~e.init \/ e.faulted \/ e.recov)
  <2>1. PICK t : t = [e EXCEPT !.recov = TRUE, !.stopFault = FALSE,
                               !.gate = e.gate + 1, !.staged = None]
    BY Zenon
  <2>2. t \in Executor
    <3>1. e.gate + 1 \in Nat
      BY <1>2 DEF Executor
    <3> QED BY <1>2, <2>1, <3>1, ZenonT(30) DEF Executor
  <2>3. /\ t.epoch = e.epoch /\ t.path = e.path /\ t.planId = e.planId /\ t.active = e.active
        /\ t.brake = e.brake /\ t.init = e.init /\ t.faulted = e.faulted /\ t.rid = e.rid
        /\ t.last = e.last /\ t.staged = None /\ t.acc = e.acc /\ t.recov = TRUE
    BY <1>2, <2>1, Zenon DEF Executor
  <2>4. e.init = TRUE /\ e.rid \in Nat /\ e.last \in Nat /\ e.epoch \in Nat
    BY <1>2, <1>4, Zenon DEF Executor
  <2>5. Base(t) /\ Carries(e, t)
    <3>1. t.rid >= e.rid /\ t.last >= e.last /\ (t.init = FALSE => ~halting(t))
      BY <2>3, <2>4
    <3> QED BY <1>2, <2>2, <2>3, <3>1, SamePath, Zenon
  <2>6. f = beginBrake(t, dur)
    BY <1>1, <1>4, <2>1, Zenon DEF requestRecovery
  <2>7. Base(f) /\ Carries(t, f) /\ Braked(t, f)
    BY <2>3, <2>4, <2>5, <2>6, BrakeStep, Zenon
  <2>8. CASE f = fail(t)
    <3>1. Good(f) /\ ~halting(f) /\ f.last = t.last /\ f.active = None /\ f.epoch > t.epoch
      BY <2>3, <2>4, <2>5, <2>8, FailStep, Zenon
    <3>2. f.epoch \in Nat
      BY <3>1, Zenon DEF Good, Base, Executor
    <3> QED BY <1>1, <2>3, <2>4, <2>5, <2>7, <3>1, <3>2 DEF Follows, Carries
  <2>9. CASE f # fail(t)
    <3>1. /\ f.brake # None /\ f.epoch = t.epoch /\ f.acc = t.acc /\ f.last = t.last
          /\ f.recov = TRUE /\ (t.brake # None => f = t)
      BY <2>3, <2>7, <2>9, Zenon DEF Braked
    <3>2. Good(f) /\ halting(f)
      BY <2>7, <3>1, Zenon DEF Good, halting
    <3>3. f.active = None
      BY <2>7, <3>1, Zenon DEF Base, Shape
    <3>4. halting(e) => f.brake = e.brake /\ f.acc = e.acc
      BY <2>3, <3>1, Zenon DEF Good
    <3> QED BY <1>1, <2>3, <2>4, <2>5, <2>7, <3>1, <3>2, <3>3, <3>4 DEF Follows, Carries
  <2> QED BY <2>8, <2>9, Zenon
<1> QED BY <1>3, <1>4, Zenon

(* A cold start: nothing in flight belongs to the epoch yet. *)
LEMMA ColdStart ==
    ASSUME NEW e, Good(e), e.init = FALSE, e.faulted = FALSE, NEW f \in Executor,
           f.epoch = e.epoch, f.init = TRUE, f.faulted = FALSE, f.rid = e.rid,
           f.active = None, f.brake = None, f.staged = None,
           f.stopping = e.stopping, f.recov = e.recov
    PROVE  Good(f) /\ Follows(e, f)
<1>1. e \in Executor /\ ~halting(e) /\ ~halting(f) /\ parent(f) = 0
  BY Zenon DEF Good, Base, Shape, halting, parent
<1>2. e.rid \in Nat /\ e.epoch \in Nat
  BY <1>1, Zenon DEF Executor
<1>3. Good(f)
  BY <1>1, <1>2 DEF Good, Base, Shape
<1>4. Carries(e, f)
  <2> SUFFICES ASSUME NEW p \in Plan, Fits(e, p) PROVE Fits(f, p)
    BY Zenon DEF Carries
  <2>1. p.epoch \in Nat
    BY Zenon DEF Plan
  <2> QED BY <2>1, <1>2 DEF Fits
<1> QED BY <1>1, <1>2, <1>3, <1>4 DEF Follows

LEMMA SeedStep ==
    ASSUME NEW e, Good(e), NEW now \in Nat, NEW in \in Input, e.last <= now,
           e.init = TRUE => e.last = now
    PROVE  LET f == seedStationaryRecovery(e, now, in) IN
           Good(f) /\ Follows(e, f) /\ f.last <= now /\ (f.init = TRUE => f.last = now)
<1>1. PICK f : f = seedStationaryRecovery(e, now, in)
  BY Zenon
<1>2. e \in Executor
  BY Zenon DEF Good, Base
<1>3. CASE ~setup.recovery \/ e.init \/ e.faulted \/ ~in.still
  <2>1. f = e
    BY <1>1, <1>3, Zenon DEF seedStationaryRecovery
  <2> QED BY <1>1, <1>2, <2>1, FollowsSelf, Zenon
<1>4. CASE ~(~setup.recovery \/ e.init \/ e.faulted \/ ~in.still)
  <2>1. PICK t : t = [e EXCEPT !.init = TRUE, !.initAt = now, !.last = now, !.path = e.path + 1]
    BY Zenon
  <2>2. e.init = FALSE /\ e.faulted = FALSE /\ e.path + 1 \in Nat
    BY <1>2, <1>4 DEF Executor
  <2>3. t \in Executor
    BY <1>2, <2>1, <2>2, ZenonT(30) DEF Executor
  <2>4. /\ t.init = TRUE /\ t.last = now /\ t.epoch = e.epoch /\ t.faulted = e.faulted
        /\ t.rid = e.rid /\ t.active = e.active /\ t.brake = e.brake /\ t.staged = e.staged
        /\ t.stopping = e.stopping /\ t.recov = e.recov
    BY <1>2, <2>1, Zenon DEF Executor
  <2>5. e.active = None /\ e.brake = None /\ e.staged = None
    BY <2>2, Zenon DEF Good, Base, Shape
  <2>6. Good(t) /\ Follows(e, t)
    BY <2>2, <2>3, <2>4, <2>5, ColdStart, Zenon
  <2>7. f = requestRecovery(t, in.brake) /\ in.brake \in (0..MaxBrake) \cup {None}
    BY <1>1, <1>4, <2>1, Zenon DEF seedStationaryRecovery, Input
  <2>8. Good(f) /\ Follows(t, f) /\ f.last = now
    BY <2>4, <2>6, <2>7, RecoveryStep, Zenon
  <2>9. f \in Executor
    BY <2>8, Zenon DEF Good, Base
  <2> QED BY <1>1, <1>2, <2>3, <2>6, <2>8, <2>9, FollowsChain
<1> QED BY <1>3, <1>4, Zenon

(* Sampling the brake fails or only moves the clock. *)
LEMMA BrakeOutputStep ==
    ASSUME NEW e, Good(e), NEW now \in Nat, e.last <= now
    PROVE  LET f == brakeOutput(e, now) IN
           Good(f) /\ Follows(e, f) /\ f.last <= now /\ (f.init = TRUE => f.last = now)
<1>1. PICK f : f = brakeOutput(e, now)
  BY Zenon
<1>2. e \in Executor /\ Base(e)
  BY Zenon DEF Good, Base
<1>3. CASE e.faulted \/ now >= e.last + MaxAge
  <2>1. f = fail(e)
    BY <1>1, <1>3, Zenon DEF brakeOutput
  <2> QED BY <1>1, <1>2, <2>1, FailStep, Zenon
<1>4. CASE ~(e.faulted \/ now >= e.last + MaxAge)
  <2>1. f = [e EXCEPT !.last = now]
    BY <1>1, <1>4, Zenon DEF brakeOutput
  <2>2. f \in Executor /\ e.epoch \in Nat /\ e.rid \in Nat
    BY <1>2, <2>1 DEF Executor
  <2>3. /\ f.epoch = e.epoch /\ f.path = e.path /\ f.planId = e.planId /\ f.active = e.active
        /\ f.brake = e.brake /\ f.init = e.init /\ f.faulted = e.faulted /\ f.rid = e.rid
        /\ f.last = now /\ f.staged = e.staged /\ f.acc = e.acc /\ f.stopping = e.stopping
        /\ f.recov = e.recov /\ f.gauge = e.gauge
    BY <1>2, <2>1, Zenon DEF Executor
  <2>4. (halting(f) <=> halting(e)) /\ (e.init = FALSE => ~halting(e))
    BY <1>2, <2>3, Zenon DEF halting, Base, Shape
  <2>5. Base(f) /\ Carries(e, f)
    <3>1. f.rid >= e.rid /\ f.last >= e.last /\ (f.init = FALSE => ~halting(f))
      BY <2>2, <2>3, <2>4
    <3> QED BY <1>2, <2>2, <2>3, <3>1, SamePath, Zenon
  <2>6. Good(f) /\ Follows(e, f)
    BY <2>2, <2>3, <2>4, <2>5 DEF Good, Follows
  <2> QED BY <1>1, <2>3, <2>6
<1> QED BY <1>3, <1>4, Zenon
-----------------------------------------------------------------------------
(* Executors that differ in their staged plan and their timers only. *)
Alike(e, f) ==
    /\ f.epoch = e.epoch /\ f.rid = e.rid /\ f.path = e.path /\ f.planId = e.planId
    /\ f.active = e.active /\ f.brake = e.brake /\ f.init = e.init /\ f.faulted = e.faulted
    /\ f.last = e.last /\ f.acc = e.acc /\ f.stopping = e.stopping /\ f.recov = e.recov
    /\ f.gauge = e.gauge

LEMMA AlikeStep ==
    ASSUME NEW e, Good(e), NEW f \in Executor, Alike(e, f), e.init = TRUE,
           f.staged = None \/ Fits(e, f.staged)
    PROVE  Good(f) /\ Follows(e, f) /\ parent(f) = parent(e) /\ (halting(f) <=> halting(e))
<1>1. parent(f) = parent(e) /\ (halting(f) <=> halting(e))
  BY Zenon DEF Alike, parent, halting
<1>2. \A p : Fits(e, p) => Fits(f, p)
  BY <1>1, Zenon DEF Fits, Alike
<1>3. Good(f)
  BY <1>1, <1>2, Zenon DEF Good, Base, Shape, Alike
<1>4. e.epoch \in Nat
  BY Zenon DEF Good, Base, Executor
<1> QED BY <1>1, <1>2, <1>3, <1>4 DEF Follows, Carries, Alike

LEMMA FrameOfPlan ==
    ASSUME NEW e \in Executor, NEW p \in Plan
    PROVE  LET q == inFrame(e, p) IN
           /\ q \in Plan /\ q # None /\ q.gauge = e.gauge
           /\ q.id = p.id /\ q.parent = p.parent /\ q.epoch = p.epoch /\ q.gate = p.gate
           /\ q.src = p.src /\ q.basis = p.basis /\ q.splice = p.splice /\ q.until = p.until
BY NoneAssumption DEF inFrame, Plan, Executor

(* A fresh answer is staged if it is current. *)
LEMMA TakeStep ==
    ASSUME NEW e, Good(e), e.init = TRUE, NEW now, NEW r,
           r # None => r.plan \in Plan /\ Fits(e, r.plan)
    PROVE  LET f == take(e, now, r) IN
           f \in Executor /\ Alike(e, f) /\ (f.staged = None \/ Fits(e, f.staged))
<1>1. PICK f : f = take(e, now, r)
  BY Zenon
<1>2. e \in Executor /\ (e.staged = None \/ Fits(e, e.staged))
  BY Zenon DEF Good, Base
<1>3. CASE f = e
  BY <1>1, <1>2, <1>3, Zenon DEF Alike
<1>4. CASE f # e
  <2>1. r # None /\ f = [e EXCEPT !.staged = inFrame(e, r.plan)]
    BY <1>1, <1>4, Zenon DEF take
  <2>2. r.plan \in Plan
    BY <2>1, Zenon
  <2>3. PICK q : q = inFrame(e, r.plan)
    BY Zenon
  <2>4. q \in Plan /\ q.id = r.plan.id /\ q.parent = r.plan.parent /\ q.epoch = r.plan.epoch
        /\ q.basis = r.plan.basis
    BY <1>2, <2>2, <2>3, FrameOfPlan, Zenon
  <2>5. f \in Executor /\ f.staged = q
    BY <1>2, <2>1, <2>3, <2>4 DEF Executor
  <2>6. Alike(e, f)
    BY <1>2, <2>1, Zenon DEF Executor, Alike
  <2>7. Fits(e, q)
    BY <2>1, <2>4, Zenon DEF Fits
  <2> QED BY <1>1, <2>5, <2>6, <2>7, Zenon
<1> QED BY <1>3, <1>4, Zenon

(* A staged plan that is kept continues the present path. *)
LEMMA DropStep ==
    ASSUME NEW e, Good(e), e.init = TRUE
    PROVE  LET f == dropForeign(e) IN
           /\ f \in Executor /\ Alike(e, f)
           /\ f.staged = None \/ (Fits(e, f.staged) /\ f.staged.epoch = e.epoch
                                   /\ f.staged.parent = parent(e))
<1>1. PICK f : f = dropForeign(e)
  BY Zenon
<1>2. e \in Executor /\ (e.staged = None \/ Fits(e, e.staged))
  BY Zenon DEF Good, Base
<1>3. CASE e.staged # None /\ ~current(e, e.staged)
  <2>1. f = [e EXCEPT !.staged = None]
    BY <1>1, <1>3, Zenon DEF dropForeign
  <2>2. f \in Executor /\ f.staged = None
    BY <1>2, <2>1 DEF Executor
  <2>3. Alike(e, f)
    BY <1>2, <2>1, Zenon DEF Executor, Alike
  <2> QED BY <1>1, <2>2, <2>3, Zenon
<1>4. CASE ~(e.staged # None /\ ~current(e, e.staged))
  <2>1. f = e
    BY <1>1, <1>4, Zenon DEF dropForeign
  <2> QED BY <1>1, <1>2, <1>4, <2>1, Zenon DEF Alike, current
<1> QED BY <1>3, <1>4, Zenon

LEMMA TransportStep ==
    ASSUME NEW e, Good(e), e.init = TRUE, NEW now,
           e.staged = None \/ (e.staged.epoch = e.epoch /\ e.staged.parent = parent(e))
    PROVE  LET f == transport(e, now) IN
           /\ f \in Executor /\ Alike(e, f)
           /\ f.staged = None \/ (Fits(e, f.staged) /\ f.staged.epoch = e.epoch
                 /\ f.staged.parent = parent(e)
                 /\ (now < f.staged.until => f.staged.gauge = e.gauge))
<1>1. PICK f : f = transport(e, now)
  BY Zenon
<1>2. e \in Executor /\ (e.staged = None \/ Fits(e, e.staged)) /\ e.staged \in Plan \cup {None}
  BY Zenon DEF Good, Base, Executor
<1>3. CASE e.staged # None /\ now < e.staged.until
  <2>1. PICK q : q = inFrame(e, e.staged)
    BY Zenon
  <2>2. /\ q \in Plan /\ q.id = e.staged.id /\ q.parent = e.staged.parent
        /\ q.epoch = e.staged.epoch /\ q.basis = e.staged.basis /\ q.gauge = e.gauge
    BY <1>2, <1>3, <2>1, FrameOfPlan, Zenon
  <2>3. f = [e EXCEPT !.staged = q]
    BY <1>1, <1>3, <2>1, Zenon DEF transport
  <2>4. f \in Executor /\ f.staged = q
    BY <1>2, <2>2, <2>3 DEF Executor
  <2>5. Alike(e, f)
    BY <1>2, <2>3, Zenon DEF Executor, Alike
  <2>6. Fits(e, q)
    BY <1>2, <1>3, <2>2, Zenon DEF Fits
  <2> QED BY <1>1, <1>3, <2>2, <2>4, <2>5, <2>6, Zenon
<1>4. CASE ~(e.staged # None /\ now < e.staged.until)
  <2>1. f = e
    BY <1>1, <1>4, Zenon DEF transport
  <2> QED BY <1>1, <1>2, <1>4, <2>1, Zenon DEF Alike
<1> QED BY <1>3, <1>4, Zenon

(* What the active plan may become in a step. *)
Spliced(e, f) ==
    \/ f.active = None
    \/ f.active = e.active
    \/ f.active.basis = e.path /\ f.active.gauge = f.gauge

(* Admission: the identity of the path rises, so that no other plan on its *)
(* way names the new one.                                                  *)
LEMMA AdmitStep ==
    ASSUME NEW e, Good(e), ~halting(e), e.init = TRUE, NEW now \in Nat, NEW in \in Input,
           e.staged = None \/ (e.staged.epoch = e.epoch /\ e.staged.parent = parent(e)
                               /\ (now < e.staged.until => e.staged.gauge = e.gauge))
    PROVE  LET f == admit(e, now, in) IN
           /\ Good(f) /\ Carries(e, f) /\ f.epoch = e.epoch /\ ~halting(f) /\ f.init = TRUE
           /\ f.last = e.last /\ f.gauge = e.gauge /\ Spliced(e, f)
<1>1. PICK f : f = admit(e, now, in)
  BY Zenon
<1>2. e \in Executor /\ Shape(e) /\ (e.staged = None \/ Fits(e, e.staged))
  BY Zenon DEF Good, Base
<1>3. CASE f = e
  BY <1>1, <1>2, <1>3, Zenon DEF Carries, Spliced
<1>4. CASE f = [e EXCEPT !.staged = None]
  <2>1. f \in Executor /\ f.staged = None
    BY <1>2, <1>4 DEF Executor
  <2>2. Alike(e, f)
    BY <1>2, <1>4, Zenon DEF Executor, Alike
  <2>3. Good(f) /\ Follows(e, f) /\ ~halting(f)
    BY <2>1, <2>2, AlikeStep, Zenon
  <2> QED BY <1>1, <2>2, <2>3, Zenon DEF Follows, Alike, Spliced
<1>5. CASE f # e /\ f # [e EXCEPT !.staged = None]
  <2>1. PICK q : q = e.staged
    BY Zenon
  <2>2. /\ q # None /\ ~(now < q.splice) /\ ~(now >= q.until)
        /\ f = [e EXCEPT !.active = q, !.staged = None, !.brake = None,
                         !.planId = q.id, !.starved = 0, !.path = e.path + 1]
    BY <1>1, <1>5, <2>1, Zenon DEF admit
  <2>3. q \in Plan /\ Fits(e, q) /\ q.epoch = e.epoch /\ q.parent = parent(e)
    BY <1>2, <2>1, <2>2, Zenon DEF Executor
  <2>4. /\ q.id \in Nat /\ q.until \in Nat /\ q.parent \in Nat
        /\ e.path + 1 \in Nat /\ e.rid \in Nat /\ e.epoch \in Nat
    BY <1>2, <2>3 DEF Plan, Executor
  <2>5. f \in Executor
    BY <1>2, <2>2, <2>3, <2>4, ZenonT(30) DEF Executor
  <2>6. /\ f.active = q /\ f.staged = None /\ f.brake = None /\ f.init = e.init
        /\ f.faulted = e.faulted /\ f.epoch = e.epoch /\ f.rid = e.rid /\ f.last = e.last
        /\ f.stopping = e.stopping /\ f.recov = e.recov /\ f.gauge = e.gauge
    BY <1>2, <2>2, Zenon DEF Executor
  <2>7. parent(f) = q.id /\ ~halting(f)
    BY <2>2, <2>6, Zenon DEF parent, halting
  <2>8. Good(f)
    BY <1>2, <2>3, <2>5, <2>6, <2>7, Zenon DEF Good, Base, Shape, Fits
  <2>9. Carries(e, f)
    <3> SUFFICES ASSUME NEW p \in Plan, Fits(e, p) PROVE Fits(f, p)
      BY Zenon DEF Carries
    <3>1. p.id \in Nat /\ p.parent \in Nat /\ p.epoch \in Nat
      BY Zenon DEF Plan
    <3>2. p.epoch = e.epoch => p.parent < q.id
      BY <2>3, <2>4, <3>1 DEF Fits
    <3> QED BY <2>4, <2>6, <2>7, <3>1, <3>2 DEF Fits
  <2>10. q.basis = e.path /\ q.gauge = e.gauge
    BY <2>1, <2>2, <2>3, <2>4 DEF Fits
  <2> QED BY <1>1, <2>6, <2>7, <2>8, <2>9, <2>10, Zenon DEF Spliced
<1> QED BY <1>3, <1>4, <1>5, Zenon

(* A brake of an executor that is not stopping. *)
LEMMA OwnBrakeStep ==
    ASSUME NEW e, Good(e), ~halting(e), e.init = TRUE, NEW dur \in (0..MaxBrake) \cup {None}
    PROVE  LET f == beginBrake(e, dur) IN
           Good(f) /\ Follows(e, f) /\ ~halting(f) /\ f.last = e.last
<1>1. PICK f : f = beginBrake(e, dur)
  BY Zenon
<1>2. Base(e) /\ Base(f) /\ Carries(e, f) /\ Braked(e, f)
  BY <1>1, BrakeStep, Zenon DEF Good
<1>3. e.epoch \in Nat
  BY <1>2, Zenon DEF Base, Executor
<1>4. CASE f = fail(e)
  BY <1>1, <1>2, <1>4, FailStep, Zenon
<1>5. CASE f # fail(e)
  <2>1. /\ f.brake # None /\ f.epoch = e.epoch /\ f.stopping = e.stopping
        /\ f.recov = e.recov /\ f.last = e.last
    BY <1>2, <1>5, Zenon DEF Braked
  <2>2. ~halting(f) /\ f.active = None
    BY <1>2, <2>1, Zenon DEF halting, Base, Shape
  <2> QED BY <1>1, <1>2, <1>3, <2>1, <2>2 DEF Good, Follows
<1> QED BY <1>4, <1>5, Zenon

LEMMA ExpireStep ==
    ASSUME NEW e, Good(e), ~halting(e), e.init = TRUE, NEW now \in Nat, NEW in \in Input
    PROVE  LET f == expire(e, now, in) IN
           Good(f) /\ Follows(e, f) /\ ~halting(f) /\ f.last = e.last
<1>1. PICK f : f = expire(e, now, in)
  BY Zenon
<1>2. e \in Executor /\ (e.staged = None \/ Fits(e, e.staged))
  BY Zenon DEF Good, Base
<1>3. CASE f = e
  BY <1>1, <1>2, <1>3, FollowsSelf, Zenon
<1>4. CASE f # e
  <2>1. PICK n : n = IF e.starved = 0 THEN now ELSE e.starved
    BY Zenon
  <2>2. n \in Nat
    BY <1>2, <2>1, Zenon DEF Executor
  <2>3. PICK t : t = [e EXCEPT !.starved = n]
    BY Zenon
  <2>4. t \in Executor /\ t.staged = e.staged
    BY <1>2, <2>2, <2>3 DEF Executor
  <2>5. Alike(e, t)
    BY <1>2, <2>3, Zenon DEF Executor, Alike
  <2>6. Good(t) /\ Follows(e, t) /\ ~halting(t) /\ t.init = TRUE /\ t.last = e.last
    <3>1. t.staged = None \/ Fits(e, t.staged)
      BY <1>2, <2>4, Zenon
    <3>2. Good(t) /\ Follows(e, t) /\ (halting(t) <=> halting(e))
      BY <2>4, <2>5, <3>1, AlikeStep, Zenon
    <3> QED BY <2>5, <3>2, Zenon DEF Alike
  <2>7. f = beginBrake(t, in.brake) /\ in.brake \in (0..MaxBrake) \cup {None}
    BY <1>1, <1>4, <2>1, <2>3, Zenon DEF expire, Input
  <2>8. Good(f) /\ Follows(t, f) /\ ~halting(f) /\ f.last = e.last
    BY <2>6, <2>7, OwnBrakeStep, Zenon
  <2>9. f \in Executor
    BY <2>8, Zenon DEF Good, Base
  <2> QED BY <1>1, <1>2, <2>4, <2>6, <2>8, <2>9, FollowsChain, Zenon
<1> QED BY <1>3, <1>4, Zenon

(* The stops a step asks for itself. *)
LEMMA SelfStopStep ==
    ASSUME NEW e, Good(e), ~halting(e), NEW now \in Nat, NEW in \in Input
    PROVE  LET f == selfStop(e, now, in) IN
           Good(f) /\ Follows(e, f) /\ f.last = e.last
<1>1. PICK f : f = selfStop(e, now, in)
  BY Zenon
<1>2. e \in Executor /\ Base(e) /\ in.brake \in (0..MaxBrake) \cup {None}
  BY Zenon DEF Good, Base, Input
<1>3. CASE f = e
  BY <1>1, <1>2, <1>3, FollowsSelf, Zenon
<1>4. CASE f = fail(e)
  <2>1. Good(fail(e)) /\ Follows(e, fail(e)) /\ fail(e).last = e.last
    BY <1>2, FailStep, Zenon
  <2> QED BY <1>1, <1>4, <2>1, Zenon
<1>5. CASE f = requestRecovery(e, in.brake)
  BY <1>1, <1>2, <1>5, RecoveryStep, Zenon
<1>6. CASE f # e /\ f # fail(e) /\ f # requestRecovery(e, in.brake)
  <2>1. PICK b : b = beginBrake(e, in.brake)
    BY Zenon
  <2>2. ~e.faulted /\ f = IF b.faulted THEN b ELSE [b EXCEPT !.stopFault = TRUE]
    BY <1>1, <1>6, <2>1, Zenon DEF selfStop
  <2>3. CASE e.init = FALSE
    <3>1. b = fail(e) /\ b.faulted = TRUE
      <4>1. e.brake = None
        BY <1>2, <2>3, Zenon DEF Base, Shape
      <4>2. b = fail(e)
        BY <2>1, <2>3, <4>1, Zenon DEF beginBrake, startBrake
      <4> QED BY <1>2, <4>2, FailStep, Zenon
    <3> QED BY <1>6, <2>2, <3>1, Zenon
  <2>4. CASE e.init = TRUE
    <3>1. Good(b) /\ Follows(e, b) /\ ~halting(b) /\ b.last = e.last
      BY <1>2, <2>1, <2>4, OwnBrakeStep, Zenon
    <3>2. CASE f = b
      BY <1>1, <3>1, <3>2, Zenon
    <3>3. CASE f # b
      <4>1. f = [b EXCEPT !.stopFault = TRUE] /\ b \in Executor /\ ~b.faulted
        BY <2>2, <3>1, <3>3, Zenon DEF Good, Base
      <4>2. f \in Executor /\ f.staged = b.staged
        BY <4>1, Zenon DEF Executor
      <4>3. Alike(b, f)
        BY <4>1, Zenon DEF Executor, Alike
      <4>4. b.init = TRUE
        <5>1. Braked(e, b)
          BY <1>2, <2>1, <2>4, BrakeStep, Zenon
        <5>2. b # fail(e)
          BY <1>2, <4>1, FailStep, Zenon
        <5> QED BY <5>1, <5>2, Zenon DEF Braked
      <4>5. Good(f) /\ Follows(b, f)
        <5>1. f.staged = None \/ Fits(b, f.staged)
          BY <3>1, <4>2, Zenon DEF Good, Base
        <5> QED BY <3>1, <4>2, <4>3, <4>4, <5>1, AlikeStep, Zenon
      <4>6. f.last = e.last
        BY <3>1, <4>3, Zenon DEF Alike
      <4> QED BY <1>1, <1>2, <3>1, <4>1, <4>2, <4>5, <4>6, FollowsChain, Zenon
    <3> QED BY <3>2, <3>3, Zenon
  <2> QED BY <1>2, <2>3, <2>4, Zenon DEF Executor
<1> QED BY <1>3, <1>4, <1>5, <1>6, Zenon

(* One tick of the executor, before its dispatch is observed. *)
Moves(e, f) ==
    /\ Carries(e, f)
    /\ f.epoch >= e.epoch
    /\ (halting(e) /\ f.epoch = e.epoch) =>
          halting(f) /\ f.brake = e.brake /\ f.acc = e.acc
    /\ Spliced(e, f)

LEMMA MovesOn ==
    ASSUME NEW e \in Executor, NEW f \in Executor, NEW g \in Executor,
           Moves(e, f), Follows(f, g)
    PROVE  Moves(e, g)
<1>1. e.epoch \in Nat /\ f.epoch \in Nat /\ g.epoch \in Nat
  BY Zenon DEF Executor
<1>2. g.epoch >= e.epoch /\ (g.epoch = e.epoch => f.epoch = e.epoch /\ g.epoch = f.epoch)
  BY <1>1 DEF Moves, Follows
<1>3. Spliced(e, g)
  BY Zenon DEF Moves, Follows, Spliced
<1> QED BY <1>2, <1>3, Zenon DEF Moves, Follows, Carries

LEMMA FollowsMoves ==
    ASSUME NEW e, NEW f, Follows(e, f) PROVE Moves(e, f)
BY Zenon DEF Follows, Moves, Spliced

(* The part of step after its clock. *)
Body(e, now, in, r) ==
    selfStop(expire(admit(transport(dropForeign(take(e, now, r)), now), now, in), now, in),
             now, in)

LEMMA BodyStep ==
    ASSUME NEW e, Good(e), ~halting(e), e.init = TRUE, NEW now \in Nat, NEW in \in Input,
           NEW r, r # None => r.plan \in Plan /\ Fits(e, r.plan)
    PROVE  LET f == Body(e, now, in, r) IN
           Good(f) /\ Moves(e, f) /\ f.last = e.last
<1>1. PICK a : a = take(e, now, r)
  BY Zenon
<1>2. a \in Executor /\ Alike(e, a) /\ (a.staged = None \/ Fits(e, a.staged))
  BY <1>1, TakeStep, Zenon
<1>3. Good(a) /\ ~halting(a) /\ Follows(e, a) /\ a.init = TRUE
  <2>1. Good(a) /\ Follows(e, a) /\ (halting(a) <=> halting(e))
    BY <1>2, AlikeStep, Zenon
  <2> QED BY <1>2, <2>1, Zenon DEF Alike
<1>4. PICK b : b = dropForeign(a)
  BY Zenon
<1>5. /\ b \in Executor /\ Alike(a, b)
      /\ b.staged = None \/ (Fits(a, b.staged) /\ b.staged.epoch = a.epoch
                               /\ b.staged.parent = parent(a))
  BY <1>3, <1>4, DropStep, Zenon
<1>6. /\ Good(b) /\ ~halting(b) /\ Follows(a, b) /\ b.init = TRUE
      /\ b.staged = None \/ (b.staged.epoch = b.epoch /\ b.staged.parent = parent(b))
  <2>1. b.staged = None \/ Fits(a, b.staged)
    BY <1>5, Zenon
  <2>2. Good(b) /\ Follows(a, b) /\ parent(b) = parent(a) /\ (halting(b) <=> halting(a))
    BY <1>3, <1>5, <2>1, AlikeStep, Zenon
  <2> QED BY <1>3, <1>5, <2>2, Zenon DEF Alike
<1>7. PICK c : c = transport(b, now)
  BY Zenon
<1>8. /\ c \in Executor /\ Alike(b, c)
      /\ c.staged = None \/ (Fits(b, c.staged) /\ c.staged.epoch = b.epoch
            /\ c.staged.parent = parent(b)
            /\ (now < c.staged.until => c.staged.gauge = b.gauge))
  BY <1>6, <1>7, TransportStep, ZenonT(30)
<1>9. /\ Good(c) /\ ~halting(c) /\ Follows(b, c) /\ c.init = TRUE
      /\ c.staged = None \/ (c.staged.epoch = c.epoch /\ c.staged.parent = parent(c)
            /\ (now < c.staged.until => c.staged.gauge = c.gauge))
  <2>1. c.staged = None \/ Fits(b, c.staged)
    BY <1>8, Zenon
  <2>2. Good(c) /\ Follows(b, c) /\ parent(c) = parent(b) /\ (halting(c) <=> halting(b))
    BY <1>6, <1>8, <2>1, AlikeStep, Zenon
  <2> QED BY <1>6, <1>8, <2>2, Zenon DEF Alike
<1>10. PICK d : d = admit(c, now, in)
  BY Zenon
<1>11. /\ Good(d) /\ Carries(c, d) /\ d.epoch = c.epoch /\ ~halting(d) /\ d.init = TRUE
       /\ d.last = c.last /\ d.gauge = c.gauge /\ Spliced(c, d)
  BY <1>9, <1>10, AdmitStep, Zenon
<1>12. PICK h : h = expire(d, now, in)
  BY Zenon
<1>13. Good(h) /\ Follows(d, h) /\ ~halting(h) /\ h.last = d.last
  BY <1>11, <1>12, ExpireStep, ZenonT(30)
<1>14. PICK f : f = selfStop(h, now, in)
  BY Zenon
<1>15. Good(f) /\ Follows(h, f) /\ f.last = h.last
  BY <1>13, <1>14, SelfStopStep, ZenonT(30)
<1>16. e \in Executor /\ d \in Executor /\ h \in Executor /\ f \in Executor
  BY <1>11, <1>13, <1>15, Zenon DEF Good, Base
<1>17. Moves(e, d)
  <2>1. d.epoch = e.epoch /\ e.epoch \in Nat
    BY <1>2, <1>5, <1>8, <1>11, <1>16, SMTT(30) DEF Alike, Executor
  <2>2. c.path = e.path /\ c.active = e.active
    BY <1>2, <1>5, <1>8, Zenon DEF Alike
  <2>3. Spliced(e, d)
    BY <1>11, <2>2, ZenonT(30) DEF Spliced
  <2>4. Carries(e, d)
    BY <1>3, <1>6, <1>9, <1>11, Zenon DEF Follows, Carries
  <2> QED BY <2>1, <2>3, <2>4, SMTT(30) DEF Moves
<1>18. Moves(e, f)
  <2>1. Moves(e, h)
    BY <1>13, <1>16, <1>17, MovesOn, ZenonT(30)
  <2> QED BY <1>15, <1>16, <2>1, MovesOn, Zenon
<1>19. f.last = e.last
  BY <1>2, <1>5, <1>8, <1>11, <1>13, <1>15, Zenon DEF Alike
<1>20. f = Body(e, now, in, r)
  BY <1>1, <1>4, <1>7, <1>10, <1>12, <1>14, Zenon DEF Body
<1> QED BY <1>15, <1>18, <1>19, <1>20, Zenon

(* At a cold start no plan of the epoch can have been requested, so the    *)
(* path it starts is not replaced at once.                                 *)
LEMMA StepStep ==
    ASSUME NEW e, Good(e), ~halting(e), e.faulted = FALSE, NEW now \in Nat, e.last <= now,
           NEW in \in Input, NEW r, r # None => r.plan \in Plan /\ Fits(e, r.plan)
    PROVE  LET f == step(e, now, in, r) IN
           Good(f) /\ Moves(e, f) /\ f.last <= now /\ (f.init = TRUE => f.last = now)
<1>1. PICK f : f = step(e, now, in, r)
  BY Zenon
<1>2. PICK b : b = begin(e, now, in)
  BY Zenon
<1>3. e \in Executor /\ Base(e) /\ e.epoch \in Nat
  BY Zenon DEF Good, Base, Executor
<1>4. CASE e.init = FALSE /\ b = e
  <2>1. f = e
    BY <1>1, <1>2, <1>4, Zenon DEF step
  <2> QED BY <1>1, <1>3, <1>4, <2>1, FollowsSelf, FollowsMoves, Zenon
<1>5. CASE e.init = FALSE /\ b # e
  <2>1. b = [e EXCEPT !.init = TRUE, !.initAt = now, !.last = now, !.nextReq = now,
                      !.seed = FALSE, !.path = e.path + 1]
    BY <1>2, <1>5, Zenon DEF begin
  <2>2. e.path + 1 \in Nat
    BY <1>3 DEF Executor
  <2>3. b \in Executor
    BY <1>3, <2>1, <2>2, ZenonT(30) DEF Executor
  <2>4. /\ b.init = TRUE /\ b.last = now /\ b.epoch = e.epoch /\ b.faulted = e.faulted
        /\ b.rid = e.rid /\ b.active = e.active /\ b.brake = e.brake /\ b.staged = e.staged
        /\ b.stopping = e.stopping /\ b.recov = e.recov
    BY <1>3, <2>1, Zenon DEF Executor
  <2>5. e.active = None /\ e.brake = None /\ e.staged = None
    BY <1>5, Zenon DEF Good, Base, Shape
  <2>6. Good(b) /\ Follows(e, b) /\ ~halting(b)
    BY <1>5, <2>3, <2>4, <2>5, ColdStart, Zenon DEF halting
  <2>7. r # None => r.plan \in Plan /\ Fits(b, r.plan)
    BY <2>6, ZenonT(30) DEF Follows, Carries
  <2>8. f = Body(b, now, in, r)
    BY <1>1, <1>2, <2>4, Zenon DEF step, Body
  <2>9. Good(f) /\ Moves(b, f) /\ f.last = now
    BY <2>4, <2>6, <2>7, <2>8, BodyStep, ZenonT(90)
  <2>10. f.active = None
    <3>1. take(b, now, r) = b
      <4>1. r # None => r.plan.epoch \in Nat /\ r.plan.epoch < e.epoch
        BY <1>5, Zenon DEF Fits, Plan
      <4>2. r # None => ~current(b, r.plan)
        BY <1>3, <2>4, <4>1 DEF current
      <4> QED BY <4>2, Zenon DEF take
    <3>2. dropForeign(b) = b /\ transport(b, now) = b /\ admit(b, now, in) = b
      BY <2>4, <2>5, Zenon DEF dropForeign, transport, admit
    <3>3. PICK h : h = expire(b, now, in)
      BY Zenon
    <3>4. Good(h) /\ Follows(b, h) /\ ~halting(h)
      BY <2>4, <2>6, <3>3, ExpireStep, Zenon
    <3>5. Follows(h, f)
      <4>1. f = selfStop(h, now, in)
        BY <2>8, <3>1, <3>2, <3>3, Zenon DEF Body
      <4> QED BY <3>4, <4>1, SelfStopStep, Zenon
    <3> QED BY <2>4, <2>5, <3>4, <3>5, Zenon DEF Follows
  <2>11. Moves(e, f)
    <3>1. f.epoch \in Nat /\ b.epoch \in Nat
      BY <2>3, <2>9, Zenon DEF Good, Base, Executor
    <3> QED BY <1>3, <2>4, <2>6, <2>9, <2>10, <3>1, Zenon DEF Moves, Follows, Carries, Spliced
  <2> QED BY <1>1, <2>9, <2>11
<1>6. CASE e.init = TRUE /\ b = fail(e)
  <2>1. /\ Good(b) /\ Follows(e, b) /\ b.init = FALSE /\ b.last = e.last
    BY <1>3, <1>6, FailStep, Zenon
  <2>2. f = b
    BY <1>1, <1>2, <2>1, Zenon DEF step
  <2> QED BY <1>1, <2>1, <2>2, FollowsMoves, Zenon
<1>7. CASE e.init = TRUE /\ b # fail(e)
  <2>1. b = brakeOutput(e, now) /\ b = [e EXCEPT !.last = now]
    BY <1>2, <1>7, Zenon DEF begin, brakeOutput
  <2>2. /\ Good(b) /\ Follows(e, b)
    BY <2>1, BrakeOutputStep, ZenonT(30)
  <2>3. /\ b.init = TRUE /\ b.last = now /\ b.epoch = e.epoch /\ b.path = e.path
        /\ b.active = e.active /\ b.stopping = e.stopping /\ b.recov = e.recov
    BY <1>3, <1>7, <2>1 DEF Executor
  <2>4. ~halting(b) /\ (r # None => r.plan \in Plan /\ Fits(b, r.plan))
    BY <2>2, <2>3, Zenon DEF halting, Follows, Carries
  <2>5. f = Body(b, now, in, r)
    BY <1>1, <1>2, <2>3, Zenon DEF step, Body
  <2>6. Good(f) /\ Moves(b, f) /\ f.last = now
    BY <2>2, <2>3, <2>4, <2>5, BodyStep, ZenonT(90)
  <2>7. Moves(e, f)
    BY <2>2, <2>3, <2>6, Zenon DEF Moves, Follows, Carries, Spliced
  <2> QED BY <1>1, <2>6, <2>7
<1> QED BY <1>3, <1>4, <1>5, <1>6, <1>7, Zenon DEF Executor
-----------------------------------------------------------------------------
(* A tick keeps the executor's clock at the loop's. *)
OnTime(e, now) == e.last <= now /\ (e.init = TRUE => e.last = now)

LEMMA StreamedStep ==
    ASSUME NEW e, Good(e), NEW now \in Nat, e.last <= now, NEW in \in Input,
           NEW r, r # None => r.plan \in Plan /\ Fits(e, r.plan)
    PROVE  LET f == streamed(e, now, in, r) IN Good(f) /\ Moves(e, f) /\ OnTime(f, now)
<1>1. PICK f : f = streamed(e, now, in, r)
  BY Zenon
<1>2. e \in Executor /\ Base(e)
  BY Zenon DEF Good, Base
<1>3. CASE steps(e)
  <2>1. f = step(e, now, in, r) /\ ~halting(e) /\ e.faulted = FALSE
    BY <1>1, <1>2, <1>3, Zenon DEF streamed, steps, halting, Executor
  <2>2. Good(f) /\ Moves(e, f) /\ f.last <= now /\ (f.init = TRUE => f.last = now)
    BY <2>1, StepStep, Zenon
  <2> QED BY <1>1, <2>2, Zenon DEF OnTime
<1>4. CASE ~steps(e) /\ f = reset(e)
  <2>1. Good(f) /\ Follows(e, f) /\ f.init = FALSE /\ f.last = e.last
    BY <1>2, <1>4, ResetStep, Zenon
  <2> QED BY <1>1, <2>1, FollowsMoves, Zenon DEF OnTime
<1>5. CASE ~steps(e) /\ f = brakeOutput(e, now)
  <2>1. Good(f) /\ Follows(e, f) /\ f.last <= now /\ (f.init = TRUE => f.last = now)
    BY <1>5, BrakeOutputStep, Zenon
  <2> QED BY <1>1, <2>1, FollowsMoves, Zenon DEF OnTime
<1>6. CASE ~steps(e) /\ f # reset(e) /\ f # brakeOutput(e, now)
  <2>1. f = e /\ e.faulted
    BY <1>1, <1>6, Zenon DEF streamed
  <2>2. e.init = FALSE
    BY <1>2, <2>1, Zenon DEF Base, Shape, Executor
  <2> QED BY <1>1, <1>2, <2>1, <2>2, FollowsSelf, FollowsMoves, Zenon DEF OnTime
<1> QED BY <1>3, <1>4, <1>5, <1>6, Zenon

(* A submission raises the request's identity only; the request fits. *)
LEMMA SubmitStep ==
    ASSUME NEW e, Good(e), NEW now \in Nat, OnTime(e, now), wantsPlan(e, now), src \in Nat
    PROVE  LET f == submitted(e, now) IN
           /\ Good(f) /\ Follows(e, f) /\ OnTime(f, now)
           /\ planRequest(e, now) \in Plan /\ Fits(f, planRequest(e, now))
<1>1. PICK f : f = submitted(e, now)
  BY Zenon
<1>2. e \in Executor /\ Base(e) /\ Shape(e) /\ e.init = TRUE /\ ~halting(e)
  BY Zenon DEF Good, Base, wantsPlan, halting, Executor
<1>3. PICK n : n = IF busySlots < Slots THEN now + ReplanPeriod ELSE e.nextReq
  BY ZenonT(30)
<1>4. n \in Nat /\ e.rid \in Nat /\ e.rid + 1 \in Nat /\ e.last \in Nat /\ e.epoch \in Nat
  BY <1>2, <1>3, TimingAssumption DEF Executor
<1>5. f = [e EXCEPT !.rid = e.rid + 1, !.nextReq = n]
  BY <1>1, <1>2, <1>3, Zenon DEF submitted, Executor
<1>6. f \in Executor
  BY <1>2, <1>4, <1>5, ZenonT(30) DEF Executor
<1>7. /\ f.epoch = e.epoch /\ f.path = e.path /\ f.planId = e.planId /\ f.active = e.active
      /\ f.brake = e.brake /\ f.init = e.init /\ f.faulted = e.faulted /\ f.rid = e.rid + 1
      /\ f.last = e.last /\ f.staged = e.staged /\ f.stopping = e.stopping
      /\ f.recov = e.recov /\ f.gauge = e.gauge
  BY <1>2, <1>5, Zenon DEF Executor
<1>8. ~halting(f)
  BY <1>2, <1>7, Zenon DEF halting
<1>9. Base(f) /\ Carries(e, f) /\ parent(f) = parent(e)
  <2>1. f.rid >= e.rid /\ f.last >= e.last /\ (f.init = FALSE => ~halting(f))
    BY <1>4, <1>7, <1>8, SMTT(30)
  <2> QED BY <1>2, <1>6, <1>7, <2>1, SamePath, ZenonT(30)
<1>10. Good(f) /\ Follows(e, f) /\ OnTime(f, now)
  BY <1>2, <1>4, <1>7, <1>8, <1>9 DEF Good, Follows, OnTime
<1>11. PICK p : p = planRequest(e, now)
  BY Zenon
<1>12. PICK z : z = IF e.active # None THEN e.active.splice + Horizon ELSE now + SpliceLead
  BY Zenon
<1>13. /\ z \in Nat /\ parent(e) \in Nat /\ now + SpliceLead \in Nat /\ now + MaxAge \in Nat
       /\ e.gate \in Nat /\ e.gauge \in Nat /\ e.path \in Nat
  BY <1>2, <1>12, TimingAssumption, ParentType DEF Executor, Plan
<1>14. p = [epoch |-> e.epoch, gate |-> e.gate, src |-> src, parent |-> parent(e),
            id |-> e.rid + 1, gauge |-> e.gauge, splice |-> now + SpliceLead,
            until |-> now + MaxAge, basis |-> e.path, reach |-> z]
  BY <1>11, <1>12, ZenonT(30) DEF planRequest
<1>15. p \in Plan
  BY <1>4, <1>13, <1>14, Zenon DEF Plan
<1>16. p.epoch = e.epoch /\ p.parent = parent(e) /\ p.id = e.rid + 1 /\ p.basis = e.path
  BY <1>14, ZenonT(30)
<1>17. parent(e) <= e.rid
  BY <1>2, Zenon DEF Shape
<1>18. Fits(f, p)
  BY <1>2, <1>4, <1>7, <1>9, <1>13, <1>16, <1>17 DEF Fits
<1> QED BY <1>1, <1>10, <1>11, <1>15, <1>18, Zenon

LEMMA CoordinatedStep ==
    ASSUME NEW e, Good(e), NEW now \in Nat, OnTime(e, now), NEW in \in Input
    PROVE  LET f == coordinated(e, now, in) IN Good(f) /\ Follows(e, f) /\ OnTime(f, now)
<1>1. PICK f : f = coordinated(e, now, in)
  BY Zenon
<1>2. e \in Executor /\ in.brake \in (0..MaxBrake) \cup {None} /\ e.last <= now
  BY Zenon DEF Good, Base, Input, OnTime
<1>3. PICK q : q = IF ~in.peer THEN e
                  ELSE IF e.init THEN requestRecovery(e, in.brake)
                  ELSE seedStationaryRecovery(e, now, in)
  BY Zenon
<1>4. Good(q) /\ Follows(e, q) /\ OnTime(q, now)
  <2>1. CASE ~in.peer
    BY <1>2, <1>3, <2>1, FollowsSelf, Zenon
  <2>2. CASE in.peer /\ e.init
    <3>1. q = requestRecovery(e, in.brake) /\ e.init = TRUE
      BY <1>2, <1>3, <2>2, Zenon DEF Executor
    <3>2. Good(q) /\ Follows(e, q) /\ q.last = e.last
      BY <1>2, <3>1, RecoveryStep, Zenon
    <3> QED BY <3>1, <3>2, Zenon DEF OnTime
  <2>3. CASE in.peer /\ ~e.init
    <3>1. q = seedStationaryRecovery(e, now, in)
      BY <1>3, <2>3, Zenon
    <3>2. e.last <= now /\ (e.init = TRUE => e.last = now)
      BY Zenon DEF OnTime
    <3>3. Good(q) /\ Follows(e, q) /\ q.last <= now /\ (q.init = TRUE => q.last = now)
      BY <3>1, <3>2, SeedStep, Zenon
    <3> QED BY <3>3, Zenon DEF OnTime
  <2> QED BY <2>1, <2>2, <2>3, Zenon
<1>5. f = IF q.recov THEN brakeOutput(q, now) ELSE q
  BY <1>1, <1>3, Zenon DEF coordinated
<1>6. CASE q.recov
  <2>1. f = brakeOutput(q, now) /\ q.last <= now
    BY <1>4, <1>5, <1>6, Zenon DEF OnTime
  <2>2. Good(f) /\ Follows(q, f) /\ f.last <= now /\ (f.init = TRUE => f.last = now)
    BY <1>4, <2>1, BrakeOutputStep, ZenonT(30)
  <2>3. q \in Executor /\ f \in Executor
    BY <1>4, <2>2, Zenon DEF Good, Base
  <2>4. Follows(e, f)
    BY <1>2, <1>4, <2>2, <2>3, FollowsChain, Zenon
  <2> QED BY <1>1, <2>2, <2>4, Zenon DEF OnTime
<1>7. CASE ~q.recov
  BY <1>1, <1>4, <1>5, <1>7, Zenon
<1> QED BY <1>6, <1>7, Zenon

LEMMA HeldStep ==
    ASSUME NEW e, Good(e), NEW now \in Nat, e.last <= now,
           NEW dur \in (0..MaxBrake) \cup {None}
    PROVE  LET f == held(e, now, dur) IN Good(f) /\ Follows(e, f) /\ OnTime(f, now)
<1>1. PICK f : f = held(e, now, dur)
  BY Zenon
<1>2. e \in Executor /\ Base(e)
  BY Zenon DEF Good, Base
<1>3. CASE ~e.init \/ stopComplete(e)
  <2>1. f = reset(e)
    BY <1>1, <1>3, Zenon DEF held
  <2>2. Good(f) /\ Follows(e, f) /\ f.init = FALSE /\ f.last = e.last
    BY <1>2, <2>1, ResetStep, Zenon
  <2> QED BY <1>1, <2>2, Zenon DEF OnTime
<1>4. CASE ~(~e.init \/ stopComplete(e))
  <2>1. PICK t : t = requestStop(e, dur)
    BY Zenon
  <2>2. Good(t) /\ Follows(e, t) /\ t.last = e.last
    BY <2>1, StopStep, Zenon
  <2>3. f = IF t.faulted THEN t ELSE brakeOutput(t, now)
    BY <1>1, <1>4, <2>1, Zenon DEF held
  <2>4. CASE t.faulted
    <3>1. t.init = FALSE
      BY <2>2, <2>4, Zenon DEF Good, Base, Shape, Executor
    <3> QED BY <1>1, <2>2, <2>3, <2>4, <3>1, ZenonT(30) DEF OnTime
  <2>5. CASE ~t.faulted
    <3>1. f = brakeOutput(t, now) /\ t.last <= now
      BY <2>2, <2>3, <2>5, Zenon
    <3>2. Good(f) /\ Follows(t, f) /\ f.last <= now /\ (f.init = TRUE => f.last = now)
      BY <2>2, <3>1, BrakeOutputStep, Zenon
    <3>3. t \in Executor /\ f \in Executor
      BY <2>2, <3>2, Zenon DEF Good, Base
    <3>4. Follows(e, f)
      BY <1>2, <2>2, <3>2, <3>3, FollowsChain, Zenon
    <3> QED BY <1>1, <3>2, <3>4, Zenon DEF OnTime
  <2> QED BY <2>4, <2>5, Zenon
<1> QED BY <1>3, <1>4, Zenon

Tx == [epoch: Nat, plan: Nat, time: Nat]

LEMMA TransactionType ==
    ASSUME NEW e, Good(e)
    PROVE  /\ transaction(e) \in Tx \cup {None}
           /\ halting(e) => transaction(e) = [epoch |-> e.epoch, plan |-> e.brake.id,
                                              time |-> e.last]
           /\ halting(e) => e.init = TRUE /\ transaction(e) \in Tx /\ transaction(e) # None
<1>1. e \in Executor /\ Shape(e)
  BY Zenon DEF Good, Base
<1>2. PICK t : t = [epoch |-> e.epoch, plan |-> e.planId, time |-> e.last]
  BY ZenonT(30)
<1>3. t \in Tx /\ t # None
  BY <1>1, <1>2, NoneAssumption DEF Executor, Tx
<1>4. transaction(e) = t \/ transaction(e) = None
  BY <1>2, Zenon DEF transaction
<1>5. ASSUME halting(e) PROVE e.init = TRUE /\ transaction(e) = t /\ e.planId = e.brake.id
  <2>1. e.init = TRUE /\ e.brake # None
    BY <1>1, <1>5, Zenon DEF Shape, Good, Executor
  <2>2. e.faulted = FALSE /\ e.planId = e.brake.id
    BY <1>1, <2>1, Zenon DEF Shape, Executor
  <2> QED BY <1>2, <2>1, <2>2, Zenon DEF transaction, hasPlan
<1> QED BY <1>2, <1>3, <1>4, <1>5, Zenon

(* Learning what was sent fails or moves the accepted state. *)
Observed(e, t, f) ==
    /\ Good(f) /\ Carries(e, f) /\ f.epoch >= e.epoch
    /\ f.path = e.path /\ f.last = e.last
    /\ f.active = None \/ (f.active = e.active /\ f.gauge = e.gauge)
    /\ (halting(e) /\ f.epoch = e.epoch) => halting(f)
    /\ halting(f) => /\ halting(e) /\ f.epoch = e.epoch /\ f.brake = e.brake
                     /\ (t # None /\ t.epoch = e.epoch) =>
                           f.acc = [time |-> t.time, plan |-> t.plan]

LEMMA ObserveStep ==
    ASSUME NEW e, Good(e), NEW t \in Tx \cup {None}, NEW sent
    PROVE  Observed(e, t, observeDispatch(e, t, sent))
<1>1. PICK f : f = observeDispatch(e, t, sent)
  BY Zenon
<1>2. e \in Executor /\ Base(e) /\ e.epoch \in Nat
  BY ZenonT(30) DEF Good, Base, Executor
<1>3. CASE t = None \/ t.epoch # e.epoch
  <2>1. f = e
    BY <1>1, <1>3, ZenonT(30) DEF observeDispatch
  <2>2. Carries(e, e) /\ ~(t # None /\ t.epoch = e.epoch)
    BY <1>3, Zenon DEF Carries
  <2>3. e.epoch >= e.epoch
    BY <1>2, SMTT(30)
  <2> QED BY <1>1, <2>1, <2>2, <2>3, ZenonT(30) DEF Observed
<1>4. CASE t # None /\ t.epoch = e.epoch /\ f = fail(e)
  <2>1. /\ Good(f) /\ Follows(e, f) /\ ~halting(f) /\ f.last = e.last /\ f.path = e.path
        /\ f.active = None /\ (e.init \/ e.faulted => f.epoch > e.epoch)
    BY <1>2, <1>4, FailStep, Zenon
  <2>2. halting(e) => f.epoch # e.epoch
    <3>1. f.epoch \in Nat
      BY <2>1, Zenon DEF Good, Base, Executor
    <3>2. halting(e) => e.init
      BY <1>2, ZenonT(30) DEF Base, Shape, Executor
    <3> QED BY <1>2, <2>1, <3>1, <3>2
  <2> QED BY <1>1, <2>1, <2>2, Zenon DEF Observed, Follows
<1>5. CASE t # None /\ t.epoch = e.epoch /\ f # fail(e)
  <2>1. PICK a : a = [time |-> t.time, plan |-> t.plan]
    BY Zenon
  <2>2. a \in [time: Nat, plan: Nat]
    BY <1>5, <2>1, Zenon DEF Tx
  <2>3. f = [e EXCEPT !.acc = a]
    BY <1>1, <1>5, <2>1, Zenon DEF observeDispatch
  <2>4. f \in Executor
    BY <1>2, <2>2, <2>3 DEF Executor
  <2>5. /\ f.epoch = e.epoch /\ f.path = e.path /\ f.planId = e.planId /\ f.active = e.active
        /\ f.brake = e.brake /\ f.init = e.init /\ f.faulted = e.faulted /\ f.rid = e.rid
        /\ f.last = e.last /\ f.staged = e.staged /\ f.stopping = e.stopping
        /\ f.recov = e.recov /\ f.gauge = e.gauge /\ f.acc = a
    BY <1>2, <2>3, ZenonT(30) DEF Executor
  <2>6. (halting(f) <=> halting(e)) /\ (e.init = FALSE => ~halting(e))
    BY <1>2, <2>5, Zenon DEF halting, Base, Shape
  <2>7. Base(f) /\ Carries(e, f)
    <3>1. f.rid >= e.rid /\ f.last >= e.last /\ (f.init = FALSE => ~halting(f))
      BY <1>2, <2>5, <2>6 DEF Executor
    <3> QED BY <1>2, <2>4, <2>5, <3>1, SamePath, ZenonT(30)
  <2>8. Good(f)
    BY <2>5, <2>6, <2>7, Zenon DEF Good
  <2> QED BY <1>1, <1>2, <2>1, <2>5, <2>6, <2>7, <2>8 DEF Observed
<1> QED BY <1>3, <1>4, <1>5, Zenon

(* A fold moves the frame of the executor and of its active plan. *)
LEMMA ShiftStep ==
    ASSUME NEW e, Good(e)
    PROVE  LET f == shiftCommonFrame(e) IN
           /\ Good(f) /\ Carries(e, f) /\ (halting(f) <=> halting(e))
           /\ f.last = e.last /\ f.epoch = e.epoch /\ f.brake = e.brake /\ f.acc = e.acc
           /\ f.active # None => f.active.id = parent(e)
<1>1. PICK f : f = shiftCommonFrame(e)
  BY Zenon
<1>2. e \in Executor /\ Base(e) /\ Shape(e) /\ e.gauge + 1 \in Nat
  BY DEF Good, Base, Executor
<1>3. e.active # None => e.active.id = parent(e)
  BY <1>2, Zenon DEF Shape, parent
<1>4. CASE f = e
  BY <1>1, <1>3, <1>4, Zenon DEF Carries
<1>5. CASE f # e
  <2>1. PICK g : g = [e EXCEPT !.gauge = e.gauge + 1]
    BY Zenon
  <2>2. f = IF g.active = None THEN g ELSE [g EXCEPT !.active = inFrame(g, g.active)]
    BY <1>1, <1>2, <1>5, <2>1, Zenon DEF shiftCommonFrame, Executor
  <2>3. g \in Executor /\ g.active = e.active
    BY <1>2, <2>1 DEF Executor
  <2>4. g.active # None => inFrame(g, g.active) \in Plan /\ inFrame(g, g.active) # None
                           /\ inFrame(g, g.active).id = e.active.id
    <3>1. g.active # None => g.active \in Plan
      BY <2>3, Zenon DEF Executor
    <3> QED BY <2>3, <3>1, FrameOfPlan
  <2>5. PICK a : a = IF g.active = None THEN None ELSE inFrame(g, g.active)
    BY Zenon
  <2>6. a \in Plan \cup {None} /\ (a = None <=> e.active = None)
        /\ (a # None => a.id = e.active.id)
    BY <2>3, <2>4, <2>5, Zenon
  <2>7. f = [e EXCEPT !.gauge = e.gauge + 1, !.active = a]
    BY <1>2, <2>1, <2>2, <2>3, <2>5, Zenon DEF Executor
  <2>8. f \in Executor
    BY <1>2, <2>6, <2>7, Zenon DEF Executor
  <2>9. /\ f.epoch = e.epoch /\ f.path = e.path /\ f.planId = e.planId /\ f.active = a
        /\ f.brake = e.brake /\ f.init = e.init /\ f.faulted = e.faulted /\ f.rid = e.rid
        /\ f.last = e.last /\ f.staged = e.staged /\ f.stopping = e.stopping
        /\ f.recov = e.recov /\ f.acc = e.acc
    BY <1>2, <2>7, Zenon DEF Executor
  <2>10. parent(f) = parent(e) /\ (halting(f) <=> halting(e))
    BY <2>6, <2>9, Zenon DEF parent, halting
  <2>11. \A q : Fits(e, q) => Fits(f, q)
    BY <2>9, <2>10, Zenon DEF Fits
  <2>12. Good(f)
    BY <1>2, <2>6, <2>8, <2>9, <2>10, <2>11, ZenonT(30) DEF Good, Base, Shape
  <2> QED BY <1>1, <1>3, <2>6, <2>9, <2>10, <2>11, <2>12, Zenon DEF Carries
<1> QED BY <1>4, <1>5, Zenon

LEMMA RestartStep ==
    ASSUME NEW e, Good(e)
    PROVE  LET f == restartRecovery(e) IN
           Good(f) /\ Carries(e, f) /\ ~halting(f) /\ f.last = e.last /\ f.active = None
<1>1. PICK f : f = restartRecovery(e)
  BY Zenon
<1>2. PICK r : r = reset(e)
  BY Zenon
<1>3. /\ Good(r) /\ Follows(e, r) /\ ~halting(r) /\ r.init = FALSE /\ r.last = e.last
      /\ r.active = None
  BY <1>2, ResetStep, Zenon DEF Good
<1>4. r \in Executor /\ f = [r EXCEPT !.seed = TRUE]
  BY <1>1, <1>2, <1>3, Zenon DEF restartRecovery, Good, Base
<1>5. f \in Executor
  BY <1>4, ZenonT(30) DEF Executor
<1>6. /\ f.epoch = r.epoch /\ f.path = r.path /\ f.planId = r.planId /\ f.active = r.active
      /\ f.brake = r.brake /\ f.init = r.init /\ f.faulted = r.faulted /\ f.rid = r.rid
      /\ f.last = r.last /\ f.staged = r.staged /\ f.stopping = r.stopping
      /\ f.recov = r.recov
  BY <1>4, Zenon DEF Executor
<1>7. ~halting(f)
  BY <1>3, <1>6, Zenon DEF halting
<1>8. Base(f) /\ Carries(r, f)
  <2>1. f.rid >= r.rid /\ f.last >= r.last /\ (f.init = FALSE => ~halting(f)) /\ Base(r)
    BY <1>3, <1>4, <1>6, <1>7, SMTT(30) DEF Executor, Good
  <2> QED BY <1>5, <1>6, <2>1, SamePath, Zenon
<1> QED BY <1>1, <1>3, <1>6, <1>7, <1>8, Zenon DEF Good, Follows, Carries
-----------------------------------------------------------------------------
(* While a stop lasts, the loop has sampled its brake on every tick, and   *)
(* what it sampled has been sent, or goes out at the top of the next tick. *)
StopInv ==
    halting(x) =>
       /\ since <= clock /\ x.last = clock /\ x.brake.origin <= since
       /\ IF setup.top
          THEN /\ tx = [epoch |-> x.epoch, plan |-> x.brake.id, time |-> clock]
               /\ clock > since => /\ x.acc # None /\ x.acc.plan = x.brake.id
                                   /\ x.acc.time + MaxGap >= clock
          ELSE x.acc = [time |-> clock, plan |-> x.brake.id]

LoopInv ==
    /\ clock \in Nat /\ since \in Nat /\ src \in Nat /\ tx \in Tx \cup {None}
    /\ Good(x) /\ x.last <= clock
    /\ StopInv

FlightInv ==
    /\ \A p \in requests : p \in Plan /\ Fits(x, p)
    /\ \A r \in results : r.plan \in Plan /\ Fits(x, r.plan)
    /\ wpc \in {"start", "solve"} => job \in Plan /\ Fits(x, job)

Inv == LoopInv /\ FlightInv

SpliceStep ==
    (x'.active # None /\ x'.active.id # parent(x)) =>
       x'.active.basis = x.path /\ x'.active.gauge = x'.gauge

(* The top of a tick. *)
LEMMA TopStep ==
    ASSUME LoopInv, NEW sent
    PROVE  LET e == atTop(sent) IN
           /\ Good(e) /\ Carries(x, e) /\ e.epoch >= x.epoch
           /\ e.path = x.path /\ e.last <= clock
           /\ e.active = None \/ e.active = x.active
           /\ (halting(x) /\ e.epoch = x.epoch) =>
                /\ halting(e) /\ e.brake = x.brake
                /\ setup.top => e.acc = [time |-> clock, plan |-> x.brake.id]
<1>1. PICK e : e = atTop(sent)
  BY ZenonT(30)
<1>2. CASE setup.top
  <2>1. e = observeDispatch(x, tx, sent) /\ Good(x) /\ tx \in Tx \cup {None} /\ x.last <= clock
    BY <1>1, <1>2, Zenon DEF atTop, LoopInv
  <2>2. Observed(x, tx, e)
    BY <2>1, ObserveStep, Zenon
  <2>3. ASSUME halting(x)
        PROVE  tx # None /\ tx.epoch = x.epoch /\ tx.time = clock /\ tx.plan = x.brake.id
    <3>1. tx = [epoch |-> x.epoch, plan |-> x.brake.id, time |-> clock]
      BY <1>2, <2>3, Zenon DEF LoopInv, StopInv
    <3>2. x.epoch \in Nat /\ x.brake.id \in Nat /\ clock \in Nat
      BY <2>1, <2>3, Zenon DEF Good, Base, Executor, Brake, LoopInv
    <3>3. tx \in Tx
      BY <3>1, <3>2, Zenon DEF Tx
    <3>4. tx # None
      BY <3>3, NoneAssumption, ZenonT(30) DEF Tx
    <3> QED BY <3>1, <3>4, Zenon
  <2> QED BY <1>1, <2>1, <2>2, <2>3, Zenon DEF Observed
<1>3. CASE ~setup.top
  <2>1. e = x
    BY <1>1, <1>3, Zenon DEF atTop
  <2>2. Good(x) /\ x.last <= clock /\ x.epoch \in Nat
    BY ZenonT(30) DEF LoopInv, Good, Base, Executor
  <2> QED BY <1>1, <1>3, <2>1, <2>2 DEF Carries
<1> QED BY <1>2, <1>3, Zenon

(* The end of a tick. *)
LEMMA EndStep ==
    ASSUME LoopInv, NEW now \in Nat, clock < now, now <= clock + MaxGap, NEW sent, NEW f,
           Good(f), Moves(atTop(sent), f), OnTime(f, now), setup' = setup, src' \in Nat,
           EndTick(f, now, sent)
    PROVE  LoopInv' /\ Carries(f, x') /\ SpliceStep
<1>1. PICK e : e = atTop(sent)
  BY ZenonT(30)
<1>2. /\ Good(e) /\ Carries(x, e) /\ e.epoch >= x.epoch
      /\ e.path = x.path /\ e.last <= clock
      /\ e.active = None \/ e.active = x.active
      /\ (halting(x) /\ e.epoch = x.epoch) =>
           /\ halting(e) /\ e.brake = x.brake
           /\ setup.top => e.acc = [time |-> clock, plan |-> x.brake.id]
  BY <1>1, TopStep, Zenon
<1>14. /\ f.epoch >= e.epoch /\ Spliced(e, f)
       /\ (halting(e) /\ f.epoch = e.epoch) => f.brake = e.brake /\ f.acc = e.acc
  BY <1>1, Zenon DEF Moves
<1>3. PICK t : t = transaction(f)
  BY Zenon
<1>4. /\ t \in Tx \cup {None}
      /\ halting(f) => /\ t = [epoch |-> f.epoch, plan |-> f.brake.id, time |-> f.last]
                       /\ f.init = TRUE /\ t # None
  BY <1>3, TransactionType, Zenon
<1>5. PICK y : y = x'
  BY Zenon
<1>6. y = (IF setup.top THEN f ELSE observeDispatch(f, t, sent))
      /\ tx' = (IF setup.top THEN t ELSE None) /\ clock' = now
  BY <1>3, <1>5, Zenon DEF EndTick
<1>7. /\ Good(y) /\ Carries(f, y) /\ y.epoch >= f.epoch
      /\ y.last = f.last
      /\ y.active = None \/ (y.active = f.active /\ y.gauge = f.gauge)
      /\ halting(y) => /\ halting(f) /\ y.epoch = f.epoch /\ y.brake = f.brake
                       /\ IF setup.top THEN y.acc = f.acc
                          ELSE y.acc = [time |-> f.last, plan |-> f.brake.id]
  <2>1. f \in Executor /\ f.epoch \in Nat
    BY ZenonT(30) DEF Good, Base, Executor
  <2>2. CASE setup.top
    BY <1>6, <2>1, <2>2, SMTT(30) DEF Carries
  <2>3. CASE ~setup.top
    <3>1. y = observeDispatch(f, t, sent)
      BY <1>6, <2>3, Zenon
    <3>2. Observed(f, t, y)
      BY <1>4, <3>1, ObserveStep, Zenon
    <3>3. halting(f) => t # None /\ t.epoch = f.epoch /\ t.time = f.last /\ t.plan = f.brake.id
      BY <1>4, SMTT(30)
    <3> QED BY <2>3, <3>2, <3>3, Zenon DEF Observed
  <2> QED BY <2>2, <2>3, Zenon
<1>8. /\ x.epoch \in Nat /\ e.epoch \in Nat /\ f.epoch \in Nat /\ y.epoch \in Nat
      /\ clock \in Nat /\ since \in Nat
  BY <1>2, <1>7, Zenon DEF LoopInv, Good, Base, Executor
<1>9. since' = IF ~halting(y) THEN 0 ELSE IF halting(x) /\ y.epoch = x.epoch THEN since ELSE now
  BY <1>5, Zenon DEF EndTick
<1>10. since' \in Nat /\ tx' \in Tx \cup {None} /\ y.last <= now
  BY <1>4, <1>6, <1>7, <1>8, <1>9, ZenonT(30) DEF OnTime
<1>11. ASSUME halting(y)
       PROVE  /\ since' <= now /\ y.last = now /\ y.brake.origin <= since'
              /\ IF setup.top
                 THEN /\ tx' = [epoch |-> y.epoch, plan |-> y.brake.id, time |-> now]
                      /\ now > since' => /\ y.acc # None /\ y.acc.plan = y.brake.id
                                         /\ y.acc.time + MaxGap >= now
                 ELSE y.acc = [time |-> now, plan |-> y.brake.id]
  <2>1. halting(f) /\ y.epoch = f.epoch /\ y.brake = f.brake /\ f.last = now /\ y.last = now
    BY <1>4, <1>7, <1>11, Zenon DEF OnTime
  <2>2. y.brake # None /\ y.brake \in Brake /\ y.brake.origin <= now
    BY <1>7, <1>11, <2>1, Zenon DEF Good, Base, Shape, Executor
  <2>3. setup.top => tx' = [epoch |-> y.epoch, plan |-> y.brake.id, time |-> now]
    BY <1>4, <1>6, <2>1, Zenon
  <2>4. ~setup.top => y.acc = [time |-> now, plan |-> y.brake.id]
    BY <1>7, <1>11, <2>1, Zenon
  <2>5. CASE halting(x) /\ y.epoch = x.epoch
    <3>1. since' = since /\ since <= clock /\ x.brake.origin <= since
      BY <1>9, <1>11, <2>5, ZenonT(30) DEF LoopInv, StopInv
    <3>2. e.epoch = x.epoch /\ f.epoch = e.epoch
      <4>1. e.epoch >= x.epoch /\ f.epoch >= e.epoch /\ f.epoch = x.epoch
        BY <1>2, <1>14, <2>1, <2>5, Zenon
      <4> QED BY <1>8, <4>1, SMTT(30)
    <3>3. f.brake = x.brake /\ f.acc = e.acc
      BY <1>2, <1>14, <2>5, <3>2, Zenon
    <3>4. setup.top => y.acc = [time |-> clock, plan |-> y.brake.id]
      BY <1>2, <1>7, <1>11, <2>1, <2>5, <3>2, <3>3, ZenonT(30)
    <3>5. setup.top => /\ y.acc # None /\ y.acc.plan = y.brake.id
                       /\ y.acc.time + MaxGap >= now
      <4>1. y.brake.id \in Nat
        BY <2>2, ZenonT(30) DEF Brake
      <4>2. [time |-> clock, plan |-> y.brake.id] \in [time: Nat, plan: Nat]
        BY <1>8, <4>1, Zenon
      <4>3. [time |-> clock, plan |-> y.brake.id] # None
        BY <4>2, NoneAssumption, Zenon
      <4>4. clock + MaxGap >= now
        BY <1>8, BoundAssumption, Zenon
      <4>5. ASSUME setup.top
            PROVE  y.acc # None /\ y.acc.plan = y.brake.id /\ y.acc.time = clock
        <5>1. PICK r : r = y.acc
          BY Zenon
        <5>2. r = [time |-> clock, plan |-> y.brake.id]
          BY <3>4, <4>5, <5>1, Zenon
        <5>3. r.plan = y.brake.id /\ r.time = clock /\ r # None
          BY <4>3, <5>2, Zenon
        <5> QED BY <5>1, <5>3, Zenon
      <4> QED BY <4>4, <4>5, Zenon
    <3>6. since' <= now
      BY <1>8, <3>1, SMTT(30)
    <3> QED BY <2>1, <2>3, <2>4, <3>1, <3>3, <3>5, <3>6, Zenon
  <2>6. CASE ~(halting(x) /\ y.epoch = x.epoch)
    <3>1. since' = now
      BY <1>9, <1>11, <2>6, Zenon
    <3> QED BY <2>1, <2>2, <2>3, <2>4, <3>1
  <2> QED BY <2>5, <2>6, Zenon
<1>12. LoopInv'
  <2>1. StopInv'
    BY <1>5, <1>6, <1>11, Zenon DEF StopInv, halting
  <2>2. Good(x')
    BY <1>5, <1>7, Zenon
  <2> QED BY <1>5, <1>6, <1>10, <2>1, <2>2, Zenon DEF LoopInv
<1>13. SpliceStep
  <2>1. Spliced(e, f)
    BY <1>14, Zenon
  <2>2. Good(x)
    BY ZenonT(30) DEF LoopInv
  <2>3. x.active # None => x.active.id = parent(x)
    BY <2>2, Zenon DEF Good, Base, Shape, parent
  <2> QED BY <1>2, <1>5, <1>7, <2>1, <2>3, ZenonT(30) DEF Spliced, SpliceStep
<1> QED BY <1>5, <1>7, <1>12, <1>13, Zenon

(* What is on its way stays so, or is new and fits. *)
LEMMA FlightStep ==
    ASSUME FlightInv, Carries(x, x'), workerVars' = workerVars, results' \subseteq results,
           \A p \in requests' : p \in requests \/ (p \in Plan /\ Fits(x', p))
    PROVE  FlightInv'
<1>1. \A p \in requests' : p \in Plan /\ Fits(x', p)
  BY Zenon DEF FlightInv, Carries
<1>2. \A r \in results' : r.plan \in Plan /\ Fits(x', r.plan)
  BY Zenon DEF FlightInv, Carries
<1>3. wpc' \in {"start", "solve"} => job' \in Plan /\ Fits(x', job')
  BY Zenon DEF FlightInv, Carries, workerVars
<1> QED BY <1>1, <1>2, <1>3, Zenon DEF FlightInv

LEMMA StreamStep ==
    ASSUME Inv, NEW dt \in 1..MaxGap, NEW in \in Inputs, StreamTick(dt, in)
    PROVE  Inv' /\ SpliceStep
<1>1. PICK now : now = clock + dt
  BY Zenon
<1>2. /\ clock \in Nat /\ now \in Nat /\ clock < now /\ now <= clock + MaxGap
      /\ in \in Input /\ LoopInv /\ FlightInv /\ src \in Nat
  BY <1>1, BoundAssumption, InputAssumption DEF Inv, LoopInv
<1>3. PICK e : e = atTop(in.sent)
  BY ZenonT(30)
<1>4. Good(e) /\ Carries(x, e) /\ e.last <= clock
  BY <1>2, <1>3, TopStep, Zenon
<1>5. e.last <= now /\ e \in Executor
  <2>1. e \in Executor /\ e.last \in Nat
    BY <1>4, Zenon DEF Good, Base, Executor
  <2> QED BY <1>2, <1>4, <2>1
<1>6. PICK taking : taking = (steps(e) /\ begin(e, now, in).init)
  BY Zenon
<1>7. PICK r \in (IF taking THEN newest(results) ELSE {None}) : Streams(e, now, in, taking, r)
  BY <1>1, <1>3, <1>6, Zenon DEF StreamTick
<1>8. r # None => r.plan \in Plan /\ Fits(e, r.plan)
  <2>1. r # None => r \in results
    BY <1>7, Zenon DEF newest
  <2> QED BY <1>2, <1>4, <2>1, ZenonT(30) DEF FlightInv, Carries
<1>9. PICK s : s = streamed(e, now, in, r)
  BY Zenon
<1>10. Good(s) /\ Moves(e, s) /\ OnTime(s, now)
  BY <1>2, <1>4, <1>5, <1>8, <1>9, StreamedStep, Zenon
<1>11. PICK asks : asks = (taking /\ wantsPlan(s, now))
  BY Zenon
<1>12. PICK g : g = IF asks THEN submitted(s, now) ELSE s
  BY ZenonT(30)
<1>13. s \in Executor
  BY <1>10, Zenon DEF Good, Base
<1>14. /\ Good(g) /\ Follows(s, g) /\ OnTime(g, now)
       /\ asks => planRequest(s, now) \in Plan /\ Fits(g, planRequest(s, now))
  <2>1. CASE asks
    <3>1. wantsPlan(s, now) /\ g = submitted(s, now)
      BY <1>11, <1>12, <2>1, Zenon
    <3> QED BY <1>2, <1>10, <3>1, SubmitStep, Zenon
  <2>2. CASE ~asks
    BY <1>10, <1>12, <1>13, <2>2, FollowsSelf
  <2> QED BY <2>1, <2>2, Zenon
<1>15. PICK f : f = coordinated(g, now, in)
  BY Zenon
<1>16. Good(f) /\ Follows(g, f) /\ OnTime(f, now)
  BY <1>2, <1>14, <1>15, CoordinatedStep, ZenonT(30)
<1>17. g \in Executor /\ f \in Executor
  BY <1>14, <1>16, Zenon DEF Good, Base
<1>18. Moves(e, f)
  <2>1. Moves(e, g)
    BY <1>5, <1>10, <1>13, <1>14, <1>17, MovesOn
  <2> QED BY <1>5, <1>16, <1>17, <2>1, MovesOn, Zenon
<1>19. /\ requests' = IF asks /\ busySlots < Slots
                      THEN requests \cup {planRequest(s, now)} ELSE requests
       /\ EndTick(f, now, in.sent)
  BY <1>7, <1>9, <1>11, <1>12, <1>15, Zenon DEF Streams
<1>20. setup' = setup /\ src' \in Nat /\ workerVars' = workerVars /\ results' \subseteq results
  BY <1>2, Zenon DEF StreamTick
<1>21. LoopInv' /\ Carries(f, x') /\ SpliceStep
  BY <1>2, <1>3, <1>16, <1>18, <1>19, <1>20, EndStep, ZenonT(30)
<1>22. Carries(x, x')
  BY <1>4, <1>18, <1>21, Zenon DEF Moves, Carries
<1>23. \A p \in requests' : p \in requests \/ (p \in Plan /\ Fits(x', p))
  <2>1. asks => planRequest(s, now) \in Plan /\ Fits(x', planRequest(s, now))
    BY <1>14, <1>16, <1>21, Zenon DEF Follows, Carries
  <2> QED BY <1>19, <2>1, Zenon
<1>24. FlightInv'
  BY <1>2, <1>20, <1>22, <1>23, FlightStep
<1> QED BY <1>21, <1>24, Zenon DEF Inv

(* A tick without a plan request. *)
LEMMA OtherTickStep ==
    ASSUME Inv, NEW dt \in 1..MaxGap, NEW sent, NEW f, Good(f), Follows(atTop(sent), f),
           OnTime(f, clock + dt), EndTick(f, clock + dt, sent),
           UNCHANGED <<setup, src, requests, results, workerVars>>
    PROVE  Inv' /\ SpliceStep
<1>1. PICK now : now = clock + dt
  BY Zenon
<1>2. /\ clock \in Nat /\ now \in Nat /\ clock < now /\ now <= clock + MaxGap
      /\ LoopInv /\ FlightInv /\ src' \in Nat /\ setup' = setup
  BY <1>1, BoundAssumption DEF Inv, LoopInv
<1>3. Moves(atTop(sent), f)
  BY FollowsMoves, Zenon
<1>4. Carries(x, atTop(sent))
  BY <1>2, TopStep, Zenon
<1>5. LoopInv' /\ Carries(f, x') /\ SpliceStep
  BY <1>1, <1>2, <1>3, EndStep, Zenon
<1>6. Carries(x, x')
  BY <1>3, <1>4, <1>5, Zenon DEF Moves, Carries
<1>7. FlightInv'
  BY <1>2, <1>6, FlightStep, Zenon
<1> QED BY <1>5, <1>7, Zenon DEF Inv

LEMMA TickStep ==
    ASSUME Inv, Tick PROVE Inv' /\ SpliceStep
<1>1. PICK dt \in 1..MaxGap :
         \/ \E in \in Inputs : StreamTick(dt, in)
         \/ \E dur \in {in.brake : in \in Inputs}, sent \in Sent : HoldTick(dt, dur, sent)
         \/ \E sent \in Sent : ResetTick(dt, sent)
  BY Zenon DEF Tick
<1>2. clock \in Nat /\ clock + dt \in Nat /\ clock <= clock + dt /\ LoopInv
  BY BoundAssumption DEF Inv, LoopInv
<1>3. ASSUME NEW in \in Inputs, StreamTick(dt, in) PROVE Inv' /\ SpliceStep
  BY <1>3, StreamStep, Zenon
<1>4. ASSUME NEW sent
      PROVE  Good(atTop(sent)) /\ atTop(sent).last <= clock + dt
  <2>1. Good(atTop(sent)) /\ atTop(sent).last <= clock
    BY <1>2, TopStep, Zenon
  <2>2. atTop(sent).last \in Nat
    BY <2>1, Zenon DEF Good, Base, Executor
  <2> QED BY <1>2, <2>1, <2>2, SMTT(30)
<1>5. ASSUME NEW dur \in {in.brake : in \in Inputs}, NEW sent \in Sent, HoldTick(dt, dur, sent)
      PROVE  Inv' /\ SpliceStep
  <2>1. dur \in (0..MaxBrake) \cup {None}
    BY InputAssumption, Zenon DEF Input
  <2>2. PICK f : f = held(atTop(sent), clock + dt, dur)
    BY Zenon
  <2>3. Good(f) /\ Follows(atTop(sent), f) /\ OnTime(f, clock + dt)
    BY <1>2, <1>4, <2>1, <2>2, HeldStep, Zenon
  <2>4. EndTick(f, clock + dt, sent) /\ UNCHANGED <<setup, src, requests, results, workerVars>>
    BY <1>5, <2>2, ZenonT(30) DEF HoldTick
  <2> QED BY <2>3, <2>4, OtherTickStep, Zenon
<1>6. ASSUME NEW sent \in Sent, ResetTick(dt, sent) PROVE Inv' /\ SpliceStep
  <2>1. PICK f : f = reset(atTop(sent))
    BY Zenon
  <2>2. Good(f) /\ Follows(atTop(sent), f) /\ f.init = FALSE /\ f.last = atTop(sent).last
    BY <1>4, <2>1, ResetStep, Zenon DEF Good
  <2>3. OnTime(f, clock + dt)
    BY <1>4, <2>2, Zenon DEF OnTime
  <2>4. EndTick(f, clock + dt, sent) /\ UNCHANGED <<setup, src, requests, results, workerVars>>
    BY <1>6, <2>1, Zenon DEF ResetTick
  <2> QED BY <2>2, <2>3, <2>4, OtherTickStep
<1> QED BY <1>1, <1>3, <1>5, <1>6, Zenon

LEMMA WorkerStep ==
    ASSUME Inv, Worker PROVE Inv' /\ SpliceStep
<1>1. UNCHANGED <<setup, servoVars>>
  BY Zenon DEF Worker, WorkerSelect, WorkerStart, WorkerSolve
<1>2. LoopInv'
  BY <1>1, ZenonT(30) DEF Inv, LoopInv, StopInv, servoVars, Good, Base, Shape, Fits, parent, halting
<1>3. SpliceStep
  <2>1. x.active # None => x.active.id = parent(x)
    BY Zenon DEF Inv, LoopInv, Good, Base, Shape, parent
  <2> QED BY <1>1, <2>1, Zenon DEF SpliceStep, servoVars
<1>4. x' = x
  BY <1>1, Zenon DEF servoVars
<1>5. ASSUME NEW k, wpc \in {"start", "solve"}, publish(k), requests' \subseteq requests
      PROVE  FlightInv'
  <2>1. \A q \in results' : q \in results \/ q = [plan |-> job, solved |-> k]
    BY <1>5, Zenon DEF publish
  <2>2. \A q \in results' : q.plan \in Plan /\ Fits(x', q.plan)
    BY <1>4, <1>5, <2>1 DEF Inv, FlightInv
  <2>3. \A p \in requests' : p \in Plan /\ Fits(x', p)
    BY <1>4, <1>5, Zenon DEF Inv, FlightInv
  <2>4. wpc' \notin {"start", "solve"}
    BY <1>5, Zenon DEF publish
  <2> QED BY <2>2, <2>3, <2>4, Zenon DEF FlightInv
<1>6. CASE WorkerSelect
  <2>1. job' \in requests /\ requests' \subseteq requests /\ results' = results
    BY <1>6, Zenon DEF WorkerSelect
  <2>2. FlightInv'
    BY <1>4, <2>1, Zenon DEF Inv, FlightInv
  <2> QED BY <1>2, <1>3, <2>2, Zenon DEF Inv
<1>7. CASE WorkerStart
  <2>1. requests' \subseteq requests /\ wpc \in {"start", "solve"}
    BY <1>7 DEF WorkerStart
  <2>2. CASE publish(FALSE)
    <3>1. PICK k : k = FALSE
      BY Zenon
    <3>2. publish(k)
      BY <2>2, <3>1, Zenon
    <3>3. FlightInv'
      BY <1>5, <2>1, <3>2
    <3> QED BY <1>2, <1>3, <3>3, Zenon DEF Inv
  <2>3. CASE ~publish(FALSE)
    <3>1. results' = results /\ job' = job
      BY <1>7, <2>3, Zenon DEF WorkerStart
    <3>2. FlightInv'
      BY <1>4, <2>1, <3>1, Zenon DEF Inv, FlightInv
    <3> QED BY <1>2, <1>3, <3>2, Zenon DEF Inv
  <2> QED BY <2>2, <2>3, Zenon
<1>8. CASE WorkerSolve
  <2>1. wpc \in {"start", "solve"} /\ requests' \subseteq requests
    BY <1>8, Zenon DEF WorkerSolve
  <2>2. PICK ok \in BOOLEAN : publish(ok /\ clock < job.splice)
    BY <1>8, Zenon DEF WorkerSolve
  <2>3. PICK k : k = (ok /\ clock < job.splice)
    BY Zenon
  <2>4. publish(k)
    BY <2>2, <2>3, Zenon
  <2>5. FlightInv'
    BY <1>5, <2>1, <2>4
  <2> QED BY <1>2, <1>3, <2>5, Zenon DEF Inv
<1> QED BY <1>6, <1>7, <1>8, Zenon DEF Worker

(* The steps that no tick is part of. *)
LEMMA BetweenStep ==
    ASSUME Inv, Frame \/ Restart \/ Fold PROVE Inv' /\ SpliceStep
<1>1. LoopInv /\ FlightInv /\ Good(x) /\ x \in Executor /\ clock \in Nat
  BY Zenon DEF Inv, LoopInv, Good, Base
<1>2. x.active # None => x.active.id = parent(x)
  BY <1>1, Zenon DEF Good, Base, Shape, parent
<1>3. CASE Frame
  <2>1. UNCHANGED <<setup, clock, x, tx, since, requests, results, workerVars>> /\ src' = src + 1
    BY <1>3, Zenon DEF Frame
  <2>2. Carries(x, x')
    BY <2>1, Zenon DEF Carries
  <2>3. FlightInv'
    BY <1>1, <2>1, <2>2, FlightStep
  <2>4. src' \in Nat
    BY <1>1, <2>1, SMTT(30) DEF LoopInv
  <2>5. Good(x') /\ StopInv'
    BY <1>1, <2>1, Zenon DEF LoopInv, StopInv, halting
  <2>6. LoopInv'
    BY <1>1, <2>1, <2>4, <2>5, ZenonT(30) DEF LoopInv
  <2> QED BY <1>2, <2>1, <2>3, <2>6 DEF Inv, SpliceStep
<1>4. CASE Restart
  <2>1. /\ UNCHANGED <<setup, clock, src, tx, requests, results, workerVars>>
        /\ x' = restartRecovery(x) /\ since' = 0
    BY <1>4, Zenon DEF Restart
  <2>2. Good(x') /\ Carries(x, x') /\ ~halting(x') /\ x'.last = x.last /\ x'.active = None
    BY <1>1, <2>1, RestartStep, Zenon
  <2>3. FlightInv'
    BY <1>1, <2>1, <2>2, FlightStep, ZenonT(30)
  <2>4. StopInv'
    BY <2>2, Zenon DEF StopInv, halting
  <2>5. LoopInv'
    BY <1>1, <2>1, <2>2, <2>4, ZenonT(30) DEF LoopInv
  <2> QED BY <2>2, <2>3, <2>5, Zenon DEF Inv, SpliceStep
<1>5. CASE Fold
  <2>1. /\ UNCHANGED <<setup, clock, src, tx, since, requests, results, workerVars>>
        /\ x' = shiftCommonFrame(x)
    BY <1>5, Zenon DEF Fold
  <2>2. /\ Good(x') /\ Carries(x, x') /\ (halting(x') <=> halting(x))
        /\ x'.last = x.last /\ x'.epoch = x.epoch /\ x'.brake = x.brake /\ x'.acc = x.acc
        /\ x'.active # None => x'.active.id = parent(x)
    BY <1>1, <2>1, ShiftStep, Zenon
  <2>3. FlightInv'
    BY <1>1, <2>1, <2>2, FlightStep, Zenon
  <2>4. StopInv'
    BY <1>1, <2>1, <2>2, Zenon DEF LoopInv, StopInv, halting
  <2>5. LoopInv'
    BY <1>1, <2>1, <2>2, <2>4, Zenon DEF LoopInv
  <2> QED BY <2>2, <2>3, <2>5, Zenon DEF Inv, SpliceStep
<1> QED BY <1>3, <1>4, <1>5, Zenon

LEMMA InvInit == Init => Inv
<1> SUFFICES ASSUME Init PROVE Inv
  BY Zenon
<1>1. x \in Executor
  BY Zenon DEF Init, Executor
<1>2. /\ x.init = FALSE /\ x.faulted = FALSE /\ x.stopping = FALSE /\ x.recov = FALSE
      /\ x.active = None /\ x.staged = None /\ x.brake = None /\ x.rid = 0 /\ x.last = 0
  BY Zenon DEF Init
<1>3. parent(x) = 0 /\ ~halting(x)
  BY <1>2, ZenonT(30) DEF parent, halting
<1>4. Good(x)
  BY <1>1, <1>2, <1>3, SMTT(30) DEF Good, Base, Shape
<1>5. LoopInv
  BY <1>2, <1>3, <1>4, SMTT(30) DEF Init, LoopInv, StopInv
<1>6. FlightInv
  BY Zenon DEF Init, FlightInv
<1> QED BY <1>5, <1>6, Zenon DEF Inv

LEMMA InvStep ==
    ASSUME Inv, [Next]_vars PROVE Inv' /\ (SpliceStep \/ UNCHANGED vars)
<1>1. CASE UNCHANGED vars
  <2>1. UNCHANGED <<setup, clock, x, src, tx, since, requests, results, wpc, job>>
    BY <1>1, ZenonT(30) DEF vars, servoVars, workerVars
  <2>2. Good(x') /\ StopInv'
    BY <2>1, Zenon DEF Inv, LoopInv, StopInv, halting
  <2>3. LoopInv'
    BY <2>1, <2>2, Zenon DEF Inv, LoopInv
  <2>4. FlightInv'
    BY <2>1, Zenon DEF Inv, FlightInv
  <2> QED BY <1>1, <2>3, <2>4, Zenon DEF Inv
<1>2. CASE Next
  BY <1>2, TickStep, BetweenStep, WorkerStep, ZenonT(30) DEF Next
<1> QED BY <1>1, <1>2

(* The invariant gives the bound: the accepted sample trails the clock by  *)
(* one tick at most.                                                       *)
LEMMA InvBounds == Inv => StopIsBounded
<1> SUFFICES ASSUME Inv, halting(x), clock >= since + MaxBrake + MaxGap PROVE terminalSent(x)
  BY Zenon DEF StopIsBounded
<1>1. x \in Executor /\ x.brake # None /\ clock \in Nat /\ since \in Nat
  BY Zenon DEF Inv, LoopInv, Good, Base
<1>2. x.brake \in Brake /\ x.brake.origin \in Nat /\ x.brake.id \in Nat
      /\ x.brake.dur \in Nat /\ x.brake.dur <= MaxBrake
  BY <1>1, BoundAssumption, SMTT(30) DEF Executor, Brake
<1>3. clock > since /\ x.brake.origin <= since /\ MaxGap \in Nat /\ MaxBrake \in Nat
  BY <1>1, BoundAssumption DEF Inv, LoopInv, StopInv
<1>4. x.acc # None /\ x.acc.plan = x.brake.id /\ x.acc.time + MaxGap >= clock
  <2>1. CASE setup.top
    BY <1>3, <2>1, ZenonT(30) DEF Inv, LoopInv, StopInv
  <2>2. CASE ~setup.top
    <3>1. x.acc = [time |-> clock, plan |-> x.brake.id]
      BY <2>2, ZenonT(30) DEF Inv, LoopInv, StopInv
    <3>2. x.acc \in [time: Nat, plan: Nat]
      BY <1>1, <1>2, <3>1
    <3>3. x.acc # None
      BY <3>2, NoneAssumption, Zenon
    <3> QED BY <1>1, <1>3, <3>1, <3>3, SMTT(30)
  <2> QED BY <2>1, <2>2, Zenon
<1>5. x.acc.time \in Nat
  BY <1>1, <1>4, Zenon DEF Executor
<1>6. x.acc.time >= x.brake.origin + x.brake.dur
  BY <1>1, <1>2, <1>3, <1>4, <1>5
<1> QED BY <1>1, <1>4, <1>6, Zenon DEF terminalSent

(* Every stop ends within the longest brake and one tick (requestStop,     *)
(* requestRecovery, beginBrake), whatever the timing, the failures and the *)
(* answers of the worker.                                                  *)
THEOREM StopBounded == Spec => []StopIsBounded
<1>1. Inv /\ [Next]_vars => Inv'
  BY InvStep, Zenon
<1> QED BY <1>1, InvInit, InvBounds, PTL DEF Spec

(* No plan is spliced onto a path or a frame it was not computed for       *)
(* (stagedCurrent, validatePreviewExecutionResult and the transport of a   *)
(* staged plan), for every splice lead, result age and number of slots.    *)
THEOREM SpliceContinuous == Spec => SpliceIsContinuous
<1>1. Inv /\ [Next]_vars => Inv'
  BY InvStep, Zenon
<1>2. Inv /\ [Next]_vars =>
        [(x'.active # None /\ x'.active.id # parent(x)) =>
            x'.active.basis = x.path /\ x'.active.gauge = x'.gauge]_vars
  BY InvStep, Zenon DEF SpliceStep
<1> QED BY <1>1, <1>2, InvInit, PTL DEF Spec, SpliceIsContinuous
=============================================================================
