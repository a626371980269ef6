------------------------ MODULE PreviewRecoveryProofs ------------------------
(* Proofs about the chunk stream composed with the loop's preview recovery *)
(* for every horizon, scheduler, delay and number of recoveries, resets    *)
(* and suspensions.                                                        *)
EXTENDS PreviewRecovery, TLAPS

(* What the policy's two threads and the loop share has its type. *)
LoopInv == srv \in Block /\ snap \in Block /\ fences \in Nat

PolicyType ==
    /\ chunk \in Active \cup {None} /\ index \in Nat /\ advanced \in BOOLEAN
    /\ request \in Plan \cup {None} /\ next \in Plan \cup {None} /\ wreq \in Plan \cup {None}
    /\ pending \in BOOLEAN /\ resume \in BOOLEAN /\ published = resume
    /\ recov \in Block \cup {None}

(* The worker has a request in its hands exactly between taking it and     *)
(* publishing its result.                                                  *)
WorkerInv == wpc \in {"sample", "infer", "publish"} <=> wreq # None

(* Every plan of this generation was requested in the recovery epoch the   *)
(* command thread has last seen.                                           *)
EpochInv ==
    \A plan \in {chunk, next, request, wreq} \ {None} :
       plan.cur => recov # None /\ plan.epoch = recov.epoch

(* Rows are played only while that epoch's state is tracking. *)
PcInv ==
    /\ pc \in {"recover", "request", "tick", "take", "boundary", "kick"} => recov # None
    /\ pc \in {"tick", "take", "boundary", "kick"} => recov.state = "tracking"

(* The row at index has been played, unless it is about to be: the chunk   *)
(* has just been activated, or is the recovery candidate.                  *)
RowInv ==
    /\ resume => chunk # None /\ index = 0 /\ pc \in {"idle", "reanchored", "recover", "tick"}
    /\ pc = "take" => chunk # None
    /\ chunk # None =>
          chunk.age = chunk.start + index + (IF resume \/ (pc = "kick" /\ advanced) THEN 0 ELSE 1)

PolicyInv == PolicyType /\ NoStalePlan /\ PendingIsBacked /\ WorkerInv /\ EpochInv /\ PcInv /\ RowInv

policyVars == <<pc, advanced, chunk, index, recov, published, resume, request, pending, next, wpc, wreq>>

(* PolicyInv is about these variables alone. *)
LEMMA PolicyKept == PolicyInv /\ UNCHANGED policyVars => PolicyInv'
<1> SUFFICES ASSUME PolicyInv, UNCHANGED policyVars PROVE PolicyInv'
  BY Zenon
<1> USE DEF policyVars, PolicyInv
<1>1. PolicyType'
  BY Zenon DEF PolicyType
<1>2. NoStalePlan' /\ PendingIsBacked'
  BY Zenon DEF NoStalePlan, PendingIsBacked
<1>3. WorkerInv' /\ EpochInv'
  BY Zenon DEF WorkerInv, EpochInv
<1>4. RowInv' /\ PcInv'
  BY Zenon DEF RowInv, PcInv
<1> QED BY <1>1, <1>2, <1>3, <1>4, Zenon

(* A new request is a plan of this generation and this epoch. *)
LEMMA NewRequestFacts ==
    ASSUME recov \in Block, NEW h
    PROVE  /\ newRequest(h) \in Plan
           /\ newRequest(h).cur = TRUE /\ newRequest(h).age = 0 /\ newRequest(h).epoch = recov.epoch
           /\ newRequest(h).stamp = 0
<1>1. PICK i : i = CHOOSE j \in Id : j \notin inUse \cup h \/ Id \subseteq inUse \cup h
  BY Zenon
<1>2. i \in Id
  <2>1. 1 \in Id
    BY KeepAssumption DEF Id
  <2>2. \E j \in Id : j \notin inUse \cup h \/ Id \subseteq inUse \cup h
    BY <2>1, Zenon
  <2> QED BY <1>1, <2>2, Zenon
<1>3. newRequest(h) = [id |-> i, cur |-> TRUE, age |-> 0, epoch |-> recov.epoch, stamp |-> 0, frozen |-> 0]
  BY <1>1, Zenon DEF newRequest
<1>4. recov.epoch \in Nat
  BY Zenon DEF Block
<1> QED BY <1>2, <1>3, <1>4 DEF Plan

(* What an invalidation leaves in the worker's hands. *)
LEMMA OutdatedFacts ==
    ASSUME NEW p \in Plan \cup {None}
    PROVE  /\ outdated(p) \in Plan \cup {None}
           /\ outdated(p) = None <=> p = None
           /\ outdated(p) # None => /\ outdated(p).cur = FALSE
                                    /\ outdated(p).id = p.id /\ outdated(p).stamp = p.stamp
<1>1. CASE p = None
  BY <1>1, Zenon DEF outdated
<1>2. CASE p # None
  <2>1. PICK q : q = [p EXCEPT !.cur = FALSE]
    BY Zenon
  <2>2. p \in Plan
    BY <1>2, Zenon
  <2>3. q = [id |-> p.id, cur |-> FALSE, age |-> p.age, epoch |-> p.epoch, stamp |-> p.stamp, frozen |-> p.frozen]
    BY <2>1, <2>2, Zenon DEF Plan
  <2>4. q \in Plan /\ q.cur = FALSE /\ q.id = p.id /\ q.stamp = p.stamp
    BY <2>2, <2>3, Zenon DEF Plan
  <2>5. q # None
    BY <2>4, NoneAssumption, Zenon
  <2> QED BY <1>2, <2>1, <2>4, <2>5, Zenon DEF outdated
<1> QED BY <1>1, <1>2, Zenon

(* A row played makes every plan one row older. *)
LEMMA AgedPlan ==
    ASSUME NEW p \in Plan \cup {None}
    PROVE  /\ aged(p) \in Plan \cup {None}
           /\ aged(p) = None <=> p = None
           /\ p # None => /\ aged(p).cur = p.cur /\ aged(p).epoch = p.epoch
                          /\ aged(p).id = p.id /\ aged(p).stamp = p.stamp
<1>1. CASE p = None
  BY <1>1, Zenon DEF aged
<1>2. CASE p # None
  <2>1. PICK q : q = [p EXCEPT !.age = p.age + 1]
    BY Zenon
  <2>2. p \in Plan
    BY <1>2, Zenon
  <2>3. q = [id |-> p.id, cur |-> p.cur, age |-> p.age + 1, epoch |-> p.epoch, stamp |-> p.stamp, frozen |-> p.frozen]
    BY <2>1, <2>2, Zenon DEF Plan
  <2>4. p.age + 1 \in Nat
    BY <2>2 DEF Plan
  <2>5. q \in Plan /\ q.cur = p.cur /\ q.epoch = p.epoch /\ q.id = p.id /\ q.stamp = p.stamp
    BY <2>2, <2>3, <2>4, Zenon DEF Plan
  <2>6. q # None
    BY <2>5, NoneAssumption, Zenon
  <2> QED BY <1>2, <2>1, <2>5, <2>6, Zenon DEF aged
<1> QED BY <1>1, <1>2, Zenon

(* So it does the plan being played. *)
LEMMA AgedActive ==
    ASSUME NEW p \in Active \cup {None}
    PROVE  /\ aged(p) \in Active \cup {None}
           /\ aged(p) = None <=> p = None
           /\ p # None => /\ aged(p).cur = p.cur /\ aged(p).epoch = p.epoch /\ aged(p).start = p.start
                          /\ aged(p).age = p.age + 1 /\ aged(p).id = p.id
<1>1. CASE p = None
  BY <1>1, Zenon DEF aged
<1>2. CASE p # None
  <2>1. PICK q : q = [p EXCEPT !.age = p.age + 1]
    BY Zenon
  <2>2. p \in Active
    BY <1>2, Zenon
  <2>3. q = [id |-> p.id, cur |-> p.cur, age |-> p.age + 1, epoch |-> p.epoch, start |-> p.start]
    BY <2>1, <2>2, Zenon DEF Active
  <2>4. p.age + 1 \in Nat
    BY <2>2 DEF Active
  <2>5. /\ q \in Active /\ q.cur = p.cur /\ q.epoch = p.epoch /\ q.start = p.start /\ q.age = p.age + 1
        /\ q.id = p.id
    BY <2>2, <2>3, <2>4, Zenon DEF Active
  <2>6. q # None
    BY <2>5, NoneAssumption, Zenon
  <2> QED BY <1>2, <2>1, <2>5, <2>6, Zenon DEF aged
<1> QED BY <1>1, <1>2, Zenon

(* An activated plan starts at its first row that has not been played. *)
LEMMA ActivateFacts ==
    ASSUME NEW plan \in Plan, activateChunk(plan)
    PROVE  /\ index' = 0 /\ chunk' \in Active \cup {None}
           /\ chunk' # None => /\ chunk'.cur = plan.cur /\ chunk'.epoch = plan.epoch
                               /\ chunk'.age = chunk'.start
<1>1. index' = 0
  BY Zenon DEF activateChunk
<1>2. CASE plan.age >= Horizon
  BY <1>1, <1>2, Zenon DEF activateChunk
<1>3. CASE ~(plan.age >= Horizon)
  <2>1. chunk' = [id |-> plan.id, cur |-> plan.cur, age |-> plan.age, epoch |-> plan.epoch, start |-> plan.age]
    BY <1>3, Zenon DEF activateChunk
  <2> QED BY <1>1, <2>1, Zenon DEF Plan, Active
<1> QED BY <1>2, <1>3, Zenon

(* An invalidation leaves no plan of the new generation. *)
LEMMA InvalidateKeeps ==
    ASSUME PolicyInv, invalidatePolicyChunks, wpc' = wpc, recov' \in Block \cup {None},
           advanced' \in BOOLEAN, pc' # "take", PcInv'
    PROVE  PolicyInv'
<1>1. /\ chunk' = None /\ index' = 0 /\ published' = FALSE /\ resume' = FALSE
      /\ request' = None /\ pending' = FALSE /\ next' = None /\ wreq' = outdated(wreq)
  BY Zenon DEF invalidatePolicyChunks
<1>2. wreq \in Plan \cup {None}
  BY Zenon DEF PolicyInv, PolicyType
<1>3. wreq' \in Plan \cup {None} /\ (wreq' = None <=> wreq = None) /\ (wreq' # None => wreq'.cur = FALSE)
  BY <1>1, <1>2, OutdatedFacts, Zenon
<1>4. PolicyType'
  BY <1>1, <1>3, Zenon DEF PolicyType
<1>5. NoStalePlan' /\ PendingIsBacked'
  BY <1>1, <1>3, Zenon DEF NoStalePlan, PendingIsBacked
<1>6. WorkerInv'
  BY <1>3, Zenon DEF PolicyInv, WorkerInv
<1>7. EpochInv' /\ RowInv'
  BY <1>1, <1>3, Zenon DEF EpochInv, RowInv
<1> QED BY <1>4, <1>5, <1>6, <1>7, Zenon DEF PolicyInv

(* A step of the command thread that only takes the waiting result or      *)
(* moves in its chunk.                                                     *)
LEMMA CommandStep ==
    ASSUME PolicyInv, recov' = recov, request' = request, pending' = pending, wpc' = wpc, wreq' = wreq,
           next' \in {next, None}, chunk' \in Active \cup {None},
           chunk' # None => chunk'.cur /\ recov # None /\ chunk'.epoch = recov.epoch,
           index' \in Nat, advanced' \in BOOLEAN, resume' \in BOOLEAN, published' = resume',
           PcInv', RowInv'
    PROVE  PolicyInv'
<1>1. PolicyType'
  BY Zenon DEF PolicyInv, PolicyType
<1>2. NoStalePlan'
  BY Zenon DEF PolicyInv, NoStalePlan
<1>3. PendingIsBacked'
  BY Zenon DEF PolicyInv, PendingIsBacked
<1>4. WorkerInv' /\ EpochInv'
  BY Zenon DEF PolicyInv, WorkerInv, EpochInv
<1> QED BY <1>1, <1>2, <1>3, <1>4, Zenon DEF PolicyInv

(* The facts of PolicyInv that such a step needs. *)
LEMMA CommandFacts ==
    ASSUME PolicyInv
    PROVE  /\ chunk \in Active \cup {None} /\ index \in Nat /\ advanced \in BOOLEAN
           /\ resume \in BOOLEAN /\ published = resume
           /\ chunk # None => chunk.cur /\ recov # None /\ chunk.epoch = recov.epoch
           /\ next # None => next \in Plan /\ next.cur /\ recov # None /\ next.epoch = recov.epoch
           /\ chunk # None => chunk.age \in Nat /\ chunk.start \in Nat
<1>1. chunk # None => chunk.cur
  BY Zenon DEF PolicyInv, NoStalePlan
<1>2. next # None => next.cur
  BY Zenon DEF PolicyInv, NoStalePlan
<1>3. chunk \in Active \cup {None}
  BY Zenon DEF PolicyInv, PolicyType
<1>4. chunk # None => chunk.age \in Nat /\ chunk.start \in Nat
  BY <1>3, Zenon DEF Active
<1> QED BY <1>1, <1>2, <1>3, <1>4, Zenon DEF PolicyInv, PolicyType, EpochInv

(* The start of a tick. *)
LEMMA ObserveKeeps == ASSUME PolicyInv, LoopInv, Observe(snap) PROVE PolicyInv'
<1>1. snap \in Block /\ snap # None /\ recov' = snap
  BY BlockAssumption, Zenon DEF LoopInv, Observe
<1>2. pc' = IF snap.state = "tracking" THEN "tick" ELSE "recover"
  BY Zenon DEF Observe
<1>3. PcInv'
  BY <1>1, <1>2, Zenon DEF PcInv
<1>4. wpc' = wpc /\ advanced' = advanced /\ advanced \in BOOLEAN /\ pc = "idle"
  BY CommandFacts, Zenon DEF Observe
<1>5. CASE invalidatePolicyChunks
  BY <1>1, <1>2, <1>3, <1>4, <1>5, InvalidateKeeps, Zenon
<1>6. CASE ~mustRecover(snap) /\ keepChunks
  <2>1. UNCHANGED <<chunk, index, published, resume, request, pending, next, wreq>>
    BY <1>6, Zenon DEF keepChunks
  <2>2. recov # None => snap.epoch = recov.epoch
    BY <1>6, Zenon DEF mustRecover
  <2>3. PolicyType'
    BY <1>1, <1>4, <2>1, Zenon DEF PolicyInv, PolicyType
  <2>4. NoStalePlan' /\ PendingIsBacked' /\ WorkerInv'
    BY <1>4, <2>1, Zenon DEF PolicyInv, NoStalePlan, PendingIsBacked, WorkerInv
  <2>5. EpochInv'
    BY <1>1, <2>1, <2>2, Zenon DEF PolicyInv, EpochInv
  <2>6. RowInv'
    BY <1>2, <1>4, <2>1, Zenon DEF PolicyInv, RowInv
  <2> QED BY <1>3, <2>3, <2>4, <2>5, <2>6, Zenon DEF PolicyInv
<1> QED BY <1>5, <1>6, Zenon DEF Observe

(* The hooks of an arm-init override. *)
LEMMA OverrideKeeps ==
    ASSUME PolicyInv,
           on_arm_init_override_start \/ on_arm_init_override_failed \/ InvalidateReanchored
    PROVE  PolicyInv'
<1>1. /\ invalidatePolicyChunks /\ wpc' = wpc /\ recov' = recov /\ advanced' = advanced
      /\ pc' = "idle"
  BY Zenon DEF on_arm_init_override_start, on_arm_init_override_failed, InvalidateReanchored
<1>2. PcInv'
  BY <1>1, Zenon DEF PcInv
<1>3. recov' \in Block \cup {None} /\ advanced' \in BOOLEAN
  BY <1>1, Zenon DEF PolicyInv, PolicyType
<1> QED BY <1>1, <1>2, <1>3, InvalidateKeeps, Zenon

(* Its first half leaves the chunks alone. *)
LEMMA ReanchorKeeps == ASSUME PolicyInv, ReanchorArms PROVE PolicyInv'
<1>1. /\ pc = "idle" /\ pc' = "reanchored"
      /\ UNCHANGED <<advanced, chunk, index, recov, published, resume, request, pending, next, wpc, wreq>>
  BY Zenon DEF ReanchorArms, observedVars, lockVars, workerVars
<1>2. PcInv'
  BY <1>1, Zenon DEF PcInv
<1>3. RowInv'
  BY <1>1, Zenon DEF PolicyInv, RowInv
<1> QED BY <1>1, <1>2, <1>3, CommandFacts, CommandStep, Zenon

(* A tick of the recovery. *)
LEMMA RecoverKeeps == ASSUME PolicyInv, RecoverTick PROVE PolicyInv'
<1>1. /\ pc = "recover" /\ recov # None
      /\ UNCHANGED <<advanced, recov, request, pending, wpc, wreq>>
  BY Zenon DEF RecoverTick, workerVars, PolicyInv, PcInv
<1>2. pc' \in {"idle", "request"} => PcInv'
  BY <1>1, Zenon DEF PcInv
<1>3. CASE pc' = "idle" /\ UNCHANGED <<chunk, index, published, resume, next>>
  <2>1. RowInv'
    BY <1>1, <1>3, Zenon DEF PolicyInv, RowInv
  <2> QED BY <1>1, <1>2, <1>3, <2>1, CommandFacts, CommandStep, Zenon
<1>4. CASE /\ ~published /\ next' = None /\ next # None /\ activateChunk(next)
           /\ published' = (chunk' # None) /\ resume' = (chunk' # None)
           /\ pc' = IF chunk' # None THEN "idle" ELSE "request"
  <2>1. next \in Plan /\ next.cur /\ next.epoch = recov.epoch
    BY <1>4, CommandFacts, Zenon
  <2>2. /\ index' = 0 /\ chunk' \in Active \cup {None}
        /\ chunk' # None => chunk'.cur = next.cur /\ chunk'.epoch = next.epoch /\ chunk'.age = chunk'.start
    BY <1>4, <2>1, ActivateFacts, Zenon
  <2>3. chunk' # None => chunk'.start \in Nat
    BY <2>2, Zenon DEF Active
  <2>4. RowInv'
    <3>1. CASE chunk' = None
      <4>1. resume' = FALSE /\ pc' = "request"
        BY <1>4, <3>1, Zenon
      <4> QED BY <3>1, <4>1, Zenon DEF RowInv
    <3>2. CASE chunk' # None
      <4>1. resume' = TRUE /\ pc' = "idle"
        BY <1>4, <3>2, Zenon
      <4> QED BY <2>2, <2>3, <3>2, <4>1 DEF RowInv
    <3> QED BY <3>1, <3>2, Zenon
  <2> QED BY <1>1, <1>2, <1>4, <2>1, <2>2, <2>4, CommandFacts, CommandStep, Zenon
<1>5. CASE ~published /\ next' = None /\ pc' = "request" /\ UNCHANGED <<chunk, index, published, resume>>
  <2>1. resume = FALSE
    BY <1>5, CommandFacts
  <2>2. RowInv'
    BY <1>1, <1>5, <2>1, Zenon DEF PolicyInv, RowInv
  <2> QED BY <1>1, <1>2, <1>5, <2>2, CommandFacts, CommandStep, Zenon
<1> QED BY <1>3, <1>4, <1>5, Zenon DEF RecoverTick, takePrefetched

(* A row that becomes the next to be played. *)
LEMMA NextRowFacts ==
    ASSUME PolicyInv, pc \in {"tick", "take"}, ~resume, chunk # None, nextRow, recov' = recov,
           chunk' = chunk, resume' = resume
    PROVE  /\ index' \in Nat /\ advanced' \in BOOLEAN /\ PcInv' /\ RowInv'
<1>1. /\ index \in Nat /\ advanced \in BOOLEAN /\ chunk.age \in Nat /\ chunk.start \in Nat
      /\ recov # None /\ recov.state = "tracking"
      /\ chunk.age = chunk.start + index + 1
  <2>1. /\ index \in Nat /\ advanced \in BOOLEAN /\ chunk.age \in Nat /\ chunk.start \in Nat
    BY CommandFacts, Zenon
  <2>2. recov # None /\ recov.state = "tracking"
    BY Zenon DEF PolicyInv, PcInv
  <2>3. chunk.age = chunk.start + index + 1
    BY Zenon DEF PolicyInv, RowInv
  <2> QED BY <2>1, <2>2, <2>3, Zenon
<1>2. CASE index' = index + 1 /\ advanced' = TRUE /\ pc' = "kick"
  <2>1. PcInv'
    BY <1>1, <1>2, Zenon DEF PcInv
  <2>2. RowInv'
    BY <1>1, <1>2 DEF RowInv
  <2> QED BY <1>1, <1>2, <2>1, <2>2
<1>3. CASE UNCHANGED <<index, advanced>> /\ pc' = "boundary"
  <2>1. PcInv'
    BY <1>1, <1>3, Zenon DEF PcInv
  <2>2. RowInv'
    BY <1>1, <1>3, Zenon DEF RowInv
  <2> QED BY <1>1, <1>3, <2>1, <2>2, Zenon
<1> QED BY <1>2, <1>3, Zenon DEF nextRow

(* A waiting plan that is activated, its first row to be played. *)
LEMMA SwapFacts ==
    ASSUME PolicyInv, pc \in {"tick", "take", "boundary"}, next # None, activateChunk(next),
           advanced' = TRUE, pc' = "kick", recov' = recov, resume' = FALSE
    PROVE  /\ index' \in Nat /\ chunk' \in Active \cup {None}
           /\ chunk' # None => chunk'.cur /\ recov # None /\ chunk'.epoch = recov.epoch
           /\ PcInv' /\ RowInv'
<1>1. next \in Plan /\ next.cur /\ recov # None /\ next.epoch = recov.epoch
  BY CommandFacts, Zenon
<1>2. /\ index' = 0 /\ chunk' \in Active \cup {None}
      /\ chunk' # None => chunk'.cur = next.cur /\ chunk'.epoch = next.epoch /\ chunk'.age = chunk'.start
  BY <1>1, ActivateFacts, Zenon
<1>3. chunk' # None => chunk'.start \in Nat
  BY <1>2, Zenon DEF Active
<1>4. RowInv'
  BY <1>2, <1>3 DEF RowInv
<1>5. PcInv'
  BY Zenon DEF PolicyInv, PcInv
<1> QED BY <1>1, <1>2, <1>4, <1>5, Zenon

(* The first row of the recovery candidate. *)
LEMMA ResumeKeeps == ASSUME PolicyInv, ResumeRow PROVE PolicyInv'
<1>1. /\ pc = "tick" /\ resume /\ chunk # None
      /\ resume' = FALSE /\ published' = FALSE /\ index' = 0 /\ advanced' = TRUE /\ pc' = "kick"
      /\ UNCHANGED <<chunk, recov, request, pending, next, wpc, wreq>>
  BY Zenon DEF ResumeRow, lockVars, workerVars
<1>2. PcInv'
  BY <1>1, Zenon DEF PolicyInv, PcInv
<1>3. RowInv'
  BY <1>1, Zenon DEF PolicyInv, RowInv
<1> QED BY <1>1, <1>2, <1>3, CommandFacts, CommandStep, Zenon

(* With no chunk the waiting one is taken, or one is asked for. *)
LEMMA AcquireKeeps == ASSUME PolicyInv, AcquireChunk PROVE PolicyInv'
<1>1. /\ pc = "tick" /\ chunk = None /\ next' = None
      /\ UNCHANGED <<recov, published, resume, request, pending, wpc, wreq>>
  BY Zenon DEF AcquireChunk, takePrefetched, observedVars, workerVars
<1>2. resume = FALSE
  BY <1>1, CommandFacts, Zenon DEF PolicyInv, RowInv
<1>3. CASE pc' = "request" /\ UNCHANGED <<advanced, chunk, index>>
  <2>1. PcInv'
    BY <1>1, <1>3, Zenon DEF PolicyInv, PcInv
  <2>2. RowInv'
    BY <1>1, <1>2, <1>3, Zenon DEF RowInv
  <2> QED BY <1>1, <1>3, <2>1, <2>2, CommandFacts, CommandStep, Zenon
<1>4. CASE next # None /\ activateChunk(next) /\ advanced' = TRUE /\ pc' = "kick"
  <2>1. /\ index' \in Nat /\ chunk' \in Active \cup {None}
        /\ chunk' # None => chunk'.cur /\ recov # None /\ chunk'.epoch = recov.epoch
        /\ PcInv' /\ RowInv'
    BY <1>1, <1>2, <1>4, SwapFacts, Zenon
  <2> QED BY <1>1, <1>2, <1>4, <2>1, CommandFacts, CommandStep, Zenon
<1> QED BY <1>3, <1>4, Zenon DEF AcquireChunk

(* Between two rows. *)
LEMMA BetweenKeeps == ASSUME PolicyInv, BetweenRows PROVE PolicyInv'
<1>1. /\ pc = "tick" /\ ~resume /\ chunk # None /\ advanced' = FALSE /\ pc' = "kick"
      /\ UNCHANGED <<chunk, index, recov, published, resume, request, pending, next, wpc, wreq>>
  BY Zenon DEF BetweenRows, observedVars, lockVars, workerVars
<1>2. PcInv'
  BY <1>1, Zenon DEF PolicyInv, PcInv
<1>3. RowInv'
  BY <1>1, Zenon DEF PolicyInv, RowInv
<1> QED BY <1>1, <1>2, <1>3, CommandFacts, CommandStep, Zenon

(* A row deadline. *)
LEMMA DeadlineKeeps == ASSUME PolicyInv, RowDeadline PROVE PolicyInv'
<1>1. /\ pc = "tick" /\ ~resume /\ chunk # None
      /\ UNCHANGED <<chunk, recov, published, resume, request, pending, next, wpc, wreq>>
  BY Zenon DEF RowDeadline, observedVars, lockVars, workerVars
<1>2. CASE nextRow
  <2>1. index' \in Nat /\ advanced' \in BOOLEAN /\ PcInv' /\ RowInv'
    BY <1>1, <1>2, NextRowFacts, Zenon
  <2> QED BY <1>1, <2>1, CommandFacts, CommandStep, Zenon
<1>3. CASE pc' = "take" /\ UNCHANGED <<index, advanced>>
  <2>1. PcInv'
    BY <1>1, <1>3, Zenon DEF PolicyInv, PcInv
  <2>2. RowInv'
    BY <1>1, <1>3, Zenon DEF PolicyInv, RowInv
  <2> QED BY <1>1, <1>3, <2>1, <2>2, CommandFacts, CommandStep, Zenon
<1> QED BY <1>2, <1>3, Zenon DEF RowDeadline

(* The second half of _try_ready_event_activation; a chunk is active, for  *)
(* only RowDeadline leads here.                                            *)
LEMMA TakeKeeps == ASSUME PolicyInv, ReadyEventTake PROVE PolicyInv'
<1>1. /\ pc = "take" /\ next' = None
      /\ UNCHANGED <<recov, published, resume, request, pending, wpc, wreq>>
  BY Zenon DEF ReadyEventTake, takePrefetched, observedVars, workerVars
<1>2. resume = FALSE /\ chunk # None
  BY <1>1, CommandFacts, Zenon DEF PolicyInv, RowInv
<1>3. CASE next # None /\ activateChunk(next) /\ advanced' = TRUE /\ pc' = "kick"
  <2>1. /\ index' \in Nat /\ chunk' \in Active \cup {None}
        /\ chunk' # None => chunk'.cur /\ recov # None /\ chunk'.epoch = recov.epoch
        /\ PcInv' /\ RowInv'
    BY <1>1, <1>2, <1>3, SwapFacts, Zenon
  <2> QED BY <1>1, <1>2, <1>3, <2>1, CommandFacts, CommandStep, Zenon
<1>4. CASE nextRow /\ chunk' = chunk
  <2>1. index' \in Nat /\ advanced' \in BOOLEAN /\ PcInv' /\ RowInv'
    BY <1>1, <1>2, <1>4, NextRowFacts, Zenon
  <2> QED BY <1>1, <1>4, <2>1, CommandFacts, CommandStep, Zenon
<1> QED BY <1>3, <1>4, Zenon DEF ReadyEventTake

(* The end of the executable window. *)
LEMMA BoundaryKeeps == ASSUME PolicyInv, Boundary PROVE PolicyInv'
<1>1. /\ pc = "boundary" /\ next' = None
      /\ UNCHANGED <<recov, published, resume, request, pending, wpc, wreq>>
  BY Zenon DEF Boundary, takePrefetched, observedVars, workerVars
<1>2. resume = FALSE
  BY <1>1, CommandFacts, Zenon DEF PolicyInv, RowInv
<1>3. CASE next # None /\ activateChunk(next) /\ advanced' = TRUE /\ pc' = "kick"
  <2>1. /\ index' \in Nat /\ chunk' \in Active \cup {None}
        /\ chunk' # None => chunk'.cur /\ recov # None /\ chunk'.epoch = recov.epoch
        /\ PcInv' /\ RowInv'
    BY <1>1, <1>2, <1>3, SwapFacts, Zenon
  <2> QED BY <1>1, <1>2, <1>3, <2>1, CommandFacts, CommandStep, Zenon
<1>4. CASE chunk' = None /\ pc' = "request" /\ UNCHANGED <<index, advanced>>
  <2>1. PcInv'
    BY <1>1, <1>4, Zenon DEF PolicyInv, PcInv
  <2>2. RowInv'
    BY <1>1, <1>2, <1>4, Zenon DEF RowInv
  <2> QED BY <1>1, <1>4, <2>1, <2>2, CommandFacts, CommandStep, Zenon
<1> QED BY <1>3, <1>4, Zenon DEF Boundary

(* A request of this generation, when one may be made. *)
LEMMA MayRequestFacts ==
    ASSUME PolicyInv, mayRequest
    PROVE  pending = FALSE /\ request = None /\ next = None /\ (wreq # None => ~wreq.cur)
BY Zenon DEF PolicyInv, PolicyType, PendingIsBacked, mayRequest

(* The request at the end of a tick without a row. *)
LEMMA HoldKeeps == ASSUME PolicyInv, NEW h, HoldAndRequest(h) PROVE PolicyInv'
<1>1. /\ pc = "request" /\ pc' = "idle"
      /\ pending' = (pending \/ mayRequest)
      /\ request' = IF mayRequest THEN newRequest(h) ELSE request
      /\ UNCHANGED <<advanced, chunk, index, recov, published, resume, next, wpc, wreq>>
  BY Zenon DEF HoldAndRequest, observedVars, workerVars
<1>2. recov \in Block
  BY <1>1, Zenon DEF PolicyInv, PolicyType, PcInv
<1>3. PcInv'
  BY <1>1, Zenon DEF PcInv
<1>4. RowInv'
  BY <1>1, Zenon DEF PolicyInv, RowInv
<1>5. CASE mayRequest
  <2>1. pending = FALSE /\ request = None /\ next = None /\ (wreq # None => ~wreq.cur)
    BY <1>5, MayRequestFacts, Zenon
  <2>2. PICK r : r = newRequest(h)
    BY Zenon
  <2>3. r \in Plan /\ r.cur = TRUE /\ r.epoch = recov.epoch
    BY <1>2, <2>2, NewRequestFacts, Zenon
  <2>4. r # None /\ request' = r /\ pending' = TRUE
    BY <1>1, <1>5, <2>2, <2>3, NoneAssumption, Zenon
  <2>5. PolicyType'
    BY <1>1, <2>3, <2>4, Zenon DEF PolicyInv, PolicyType
  <2>6. NoStalePlan' /\ PendingIsBacked'
    BY <1>1, <2>1, <2>3, <2>4, Zenon DEF PolicyInv, NoStalePlan, PendingIsBacked
  <2>7. WorkerInv' /\ EpochInv'
    BY <1>1, <1>2, <2>3, <2>4, BlockAssumption, Zenon DEF PolicyInv, WorkerInv, EpochInv
  <2> QED BY <1>3, <1>4, <2>5, <2>6, <2>7, Zenon DEF PolicyInv
<1>6. CASE ~mayRequest
  <2>1. pending' = pending /\ request' = request
    BY <1>1, <1>6, Zenon DEF PolicyInv, PolicyType
  <2> QED BY <1>1, <1>3, <1>4, <2>1, CommandFacts, CommandStep, Zenon
<1> QED BY <1>5, <1>6, Zenon

(* The end of a tick with a row. *)
LEMMA KickKeeps == ASSUME PolicyInv, NEW h, KickAndEmit(h) PROVE PolicyInv'
<1> DEFINE kick == chunk # None /\ index >= prefetchAt /\ mayRequest
           plays == advanced /\ chunk # None
           asked == IF kick THEN newRequest(h) ELSE request
<1>1. /\ pc = "kick" /\ pc' = "idle" /\ advanced' = FALSE
      /\ UNCHANGED <<index, recov, published, resume, wpc>>
      /\ pending' = (pending \/ kick)
      /\ request' = IF plays THEN aged(asked) ELSE asked
      /\ next' = IF plays THEN aged(next) ELSE next
      /\ wreq' = IF plays THEN aged(wreq) ELSE wreq
      /\ chunk' = IF plays THEN aged(chunk) ELSE chunk
  BY Zenon DEF KickAndEmit, observedVars
<1>2. recov \in Block /\ recov # None
  BY <1>1, BlockAssumption, Zenon DEF PolicyInv, PolicyType, PcInv
<1>3. /\ chunk \in Active \cup {None} /\ index \in Nat /\ pending \in BOOLEAN
      /\ request \in Plan \cup {None} /\ next \in Plan \cup {None} /\ wreq \in Plan \cup {None}
  BY Zenon DEF PolicyInv, PolicyType
<1>4. kick => pending = FALSE /\ request = None /\ next = None /\ (wreq # None => ~wreq.cur)
  BY MayRequestFacts, Zenon
<1>5. kick \in BOOLEAN /\ plays \in BOOLEAN /\ pending' \in BOOLEAN
  BY <1>1, <1>3, Zenon
<1> HIDE DEF kick
<1>6. /\ asked \in Plan \cup {None} /\ (kick => asked # None /\ asked.cur /\ asked.epoch = recov.epoch)
      /\ ~kick => asked = request
  <2>1. CASE kick
    <3>1. newRequest(h) \in Plan /\ newRequest(h).cur = TRUE /\ newRequest(h).epoch = recov.epoch
      BY <1>2, NewRequestFacts, Zenon
    <3> QED BY <2>1, <3>1, NoneAssumption, Zenon
  <2>2. CASE ~kick
    BY <1>3, <2>2, Zenon
  <2> QED BY <2>1, <2>2, Zenon
<1> HIDE DEF asked, plays
<1>7. /\ request' \in Plan \cup {None} /\ (request' = None <=> asked = None)
      /\ asked # None => request'.cur = asked.cur /\ request'.epoch = asked.epoch
  BY <1>1, <1>6, AgedPlan, Zenon
<1>8. /\ next' \in Plan \cup {None} /\ (next' = None <=> next = None)
      /\ next # None => next'.cur = next.cur /\ next'.epoch = next.epoch
  BY <1>1, <1>3, AgedPlan, Zenon
<1>9. /\ wreq' \in Plan \cup {None} /\ (wreq' = None <=> wreq = None)
      /\ wreq # None => wreq'.cur = wreq.cur /\ wreq'.epoch = wreq.epoch
  BY <1>1, <1>3, AgedPlan, Zenon
<1>10. /\ chunk' \in Active \cup {None} /\ (chunk' = None <=> chunk = None)
       /\ chunk # None => /\ chunk'.cur = chunk.cur /\ chunk'.epoch = chunk.epoch /\ chunk'.start = chunk.start
                          /\ chunk'.age = IF plays THEN chunk.age + 1 ELSE chunk.age
  BY <1>1, <1>3, AgedActive, Zenon
<1>11. PolicyType'
  BY <1>1, <1>5, <1>7, <1>8, <1>9, <1>10, Zenon DEF PolicyInv, PolicyType
<1>12. NoStalePlan'
  BY <1>6, <1>7, <1>8, <1>10, Zenon DEF PolicyInv, NoStalePlan
<1>13. PendingIsBacked'
  <2>1. CASE kick
    BY <1>1, <1>4, <1>6, <1>7, <1>8, <1>9, <2>1, Zenon DEF PendingIsBacked
  <2>2. CASE ~kick
    <3>1. pending' = pending /\ asked = request
      BY <1>1, <1>3, <1>6, <2>2, Zenon
    <3> QED BY <1>7, <1>8, <1>9, <3>1, Zenon DEF PolicyInv, PendingIsBacked
  <2> QED BY <2>1, <2>2, Zenon
<1>14. WorkerInv'
  BY <1>1, <1>9, Zenon DEF PolicyInv, WorkerInv
<1>15. EpochInv'
  <2>1. \A plan \in {chunk, next, request, wreq} \ {None} :
           plan.cur => recov # None /\ plan.epoch = recov.epoch
    BY Zenon DEF PolicyInv, EpochInv
  <2>2. asked # None /\ asked.cur => asked.epoch = recov.epoch
    BY <1>6, <2>1, Zenon
  <2> QED BY <1>1, <1>2, <1>7, <1>8, <1>9, <1>10, <2>1, <2>2 DEF EpochInv
<1>16. PcInv'
  BY <1>1, Zenon DEF PcInv
<1>17. RowInv'
  <2>1. resume = FALSE /\ resume' = FALSE
    BY <1>1, CommandFacts, Zenon DEF PolicyInv, RowInv
  <2>2. CASE chunk = None
    BY <1>1, <1>10, <2>1, <2>2, Zenon DEF RowInv
  <2>3. CASE chunk # None
    <3>1. /\ chunk.age \in Nat /\ chunk.start \in Nat
          /\ chunk.age = chunk.start + index + (IF advanced THEN 0 ELSE 1)
      BY <1>1, <2>1, <2>3, CommandFacts, Zenon DEF PolicyInv, RowInv
    <3>2. plays = advanced
      BY <1>5, <2>3, CommandFacts, Zenon DEF plays
    <3>3. chunk'.age = chunk'.start + index' + 1
      <4>1. CASE advanced
        BY <1>1, <1>3, <1>10, <2>3, <3>1, <3>2, <4>1
      <4>2. CASE ~advanced
        BY <1>1, <1>3, <1>10, <2>3, <3>1, <3>2, <4>2, Zenon
      <4> QED BY <4>1, <4>2, Zenon
    <3> QED BY <1>1, <1>10, <2>1, <2>3, <3>3, Zenon DEF RowInv
  <2> QED BY <2>2, <2>3, Zenon
<1> QED BY <1>11, <1>12, <1>13, <1>14, <1>15, <1>16, <1>17, Zenon DEF PolicyInv

(* The worker's steps. *)
LEMMA WorkerKeeps == ASSUME PolicyInv, LoopInv, Worker PROVE PolicyInv'
<1>0. /\ request \in Plan \cup {None} /\ wreq \in Plan \cup {None} /\ PendingIsBacked /\ WorkerInv
  BY Zenon DEF PolicyInv, PolicyType
<1>1. CASE WorkerTake
  <2>1. /\ wpc = "wait" /\ request # None /\ wreq' = request /\ request' = None /\ wpc' = "sample"
        /\ UNCHANGED <<pc, advanced, chunk, index, recov, published, resume, pending, next>>
    BY <1>1, Zenon DEF WorkerTake, commandVars, observedVars
  <2>2. wreq = None /\ request.cur
    BY <1>0, <2>1, Zenon DEF WorkerInv, PolicyInv, NoStalePlan
  <2>3. PolicyType' /\ NoStalePlan'
    BY <2>1, Zenon DEF PolicyInv, PolicyType, NoStalePlan
  <2>4. PendingIsBacked' /\ WorkerInv'
    BY <1>0, <2>1, <2>2, Zenon DEF PendingIsBacked, WorkerInv
  <2>5. EpochInv' /\ PcInv' /\ RowInv'
    BY <2>1, Zenon DEF PolicyInv, EpochInv, PcInv, RowInv
  <2> QED BY <2>3, <2>4, <2>5, Zenon DEF PolicyInv
<1>2. CASE WorkerExit
  <2>1. /\ wpc = "wait" /\ wpc' = "exit"
        /\ UNCHANGED <<pc, advanced, chunk, index, recov, published, resume, request, pending, next, wreq>>
    BY <1>2, Zenon DEF WorkerExit, commandVars, observedVars, lockVars
  <2>2. PolicyType' /\ NoStalePlan' /\ PendingIsBacked' /\ WorkerInv'
    BY <2>1, Zenon DEF PolicyInv, PolicyType, NoStalePlan, PendingIsBacked, WorkerInv
  <2>3. EpochInv' /\ PcInv' /\ RowInv'
    BY <2>1, Zenon DEF PolicyInv, EpochInv, PcInv, RowInv
  <2> QED BY <2>2, <2>3, Zenon DEF PolicyInv
<1>3. ASSUME NEW stamp \in {fences - 1, fences} \cap Nat, WorkerSample(stamp) PROVE PolicyInv'
  <2>1. /\ wpc = "sample" /\ wpc' = "infer"
        /\ UNCHANGED <<pc, advanced, chunk, index, recov, published, resume, request, pending, next>>
    BY <1>3, Zenon DEF WorkerSample, commandVars, observedVars, lockVars
  <2>2. PICK delay \in Nat : wreq' = [wreq EXCEPT !.stamp = stamp, !.frozen = delay]
    <3>1. PICK d \in IF prev = None THEN {0} ELSE 1..MaxDelay :
             wreq' = [wreq EXCEPT !.stamp = stamp, !.frozen = d]
      BY <1>3, Zenon DEF WorkerSample
    <3>2. d \in Nat
      BY <3>1, DelayAssumption
    <3> QED BY <3>1, <3>2, ZenonT(30)
  <2>3. wreq \in Plan
    BY <1>0, <2>1, Zenon DEF WorkerInv
  <2>4. wreq' = [id |-> wreq.id, cur |-> wreq.cur, age |-> wreq.age, epoch |-> wreq.epoch,
                 stamp |-> stamp, frozen |-> delay]
    <3>1. PICK w \in Plan : w = wreq
      BY <2>3, Zenon
    <3>2. PICK v : v = [w EXCEPT !.stamp = stamp, !.frozen = delay]
      BY Zenon
    <3>3. v = [id |-> w.id, cur |-> w.cur, age |-> w.age, epoch |-> w.epoch, stamp |-> stamp, frozen |-> delay]
      BY <3>2, Zenon DEF Plan
    <3> QED BY <2>2, <3>1, <3>2, <3>3, Zenon
  <2>5. wreq' \in Plan /\ wreq'.cur = wreq.cur /\ wreq'.epoch = wreq.epoch
    BY <2>3, <2>4, Zenon DEF Plan
  <2>6. wreq # None /\ wreq' # None
    BY <2>3, <2>5, NoneAssumption, Zenon
  <2>7. PolicyType' /\ NoStalePlan'
    BY <2>1, <2>5, Zenon DEF PolicyInv, PolicyType, NoStalePlan
  <2>8. PendingIsBacked' /\ WorkerInv'
    BY <1>0, <2>1, <2>5, <2>6, Zenon DEF PendingIsBacked, WorkerInv
  <2>9. EpochInv' /\ PcInv' /\ RowInv'
    BY <2>1, <2>5, <2>6, Zenon DEF PolicyInv, EpochInv, PcInv, RowInv
  <2> QED BY <2>7, <2>8, <2>9, Zenon DEF PolicyInv
<1>4. ASSUME NEW ok \in BOOLEAN, WorkerInferred(ok) PROVE PolicyInv'
  <2>1. /\ wpc = "infer" /\ wpc' = "publish"
        /\ UNCHANGED <<pc, advanced, chunk, index, recov, published, resume, request, pending, next, wreq>>
    BY <1>4, Zenon DEF WorkerInferred, commandVars, observedVars, lockVars
  <2>2. PolicyType' /\ NoStalePlan' /\ PendingIsBacked' /\ WorkerInv'
    BY <2>1, Zenon DEF PolicyInv, PolicyType, NoStalePlan, PendingIsBacked, WorkerInv
  <2>3. EpochInv' /\ PcInv' /\ RowInv'
    BY <2>1, Zenon DEF PolicyInv, EpochInv, PcInv, RowInv
  <2> QED BY <2>2, <2>3, Zenon DEF PolicyInv
<1>5. CASE WorkerPublish
  <2>1. /\ wpc = "publish" /\ wpc' = "wait" /\ wreq' = None
        /\ UNCHANGED <<pc, advanced, chunk, index, recov, published, resume, request>>
    BY <1>5, Zenon DEF WorkerPublish, commandVars, observedVars
  <2>2. wreq # None
    BY <1>0, <2>1, Zenon DEF WorkerInv
  <2>3. \/ ~wreq.cur /\ next' = next /\ pending' = pending
        \/ wreq.cur /\ next' \in {wreq, None} /\ pending' = FALSE
    BY <1>5, Zenon DEF WorkerPublish
  <2>4. PolicyType' /\ NoStalePlan'
    BY <2>1, <2>3, Zenon DEF PolicyInv, PolicyType, NoStalePlan
  <2>5. PendingIsBacked' /\ WorkerInv'
    BY <1>0, <2>1, <2>2, <2>3 DEF PendingIsBacked, WorkerInv
  <2>6. EpochInv' /\ PcInv' /\ RowInv'
    BY <2>1, <2>3, Zenon DEF PolicyInv, EpochInv, PcInv, RowInv
  <2> QED BY <2>4, <2>5, <2>6, Zenon DEF PolicyInv
<1> QED BY <1>1, <1>2, <1>3, <1>4, <1>5, Zenon DEF Worker

(* The command thread's steps. *)
LEMMA CommandKeeps == ASSUME PolicyInv, LoopInv, Command PROVE PolicyInv'
<1>1. CASE close
  BY <1>1, PolicyKept, Zenon DEF close, policyVars, commandVars, observedVars, workerVars
<1>2. CASE ~close
  BY <1>2, ObserveKeeps, OverrideKeeps, ReanchorKeeps, RecoverKeeps, HoldKeeps, ResumeKeeps,
     AcquireKeeps, BetweenKeeps, DeadlineKeeps, TakeKeeps, BoundaryKeeps, KickKeeps, Zenon
     DEF Command
<1> QED BY <1>1, <1>2, Zenon

(* The loop's steps leave the policy alone. *)
LEMMA ServerKeeps == ASSUME PolicyInv, LoopInv, Server PROVE PolicyInv' /\ LoopInv'
<1>1. UNCHANGED policyVars
  BY Zenon DEF Server, SrvBrake, SrvStopped, SrvFreshTimeout, SrvBudgetReset, SrvReceive, SrvExamine,
         SrvEngaged, SrvInitMotion, SrvPublish, SrvFreedrive, policyVars, streamVars, commandVars,
         observedVars, lockVars, workerVars
<1>2. ASSUME NEW b \in Block, NEW s \in States, NEW f \in Nat
      PROVE  [b EXCEPT !.state = s] \in Block /\ [b EXCEPT !.state = s, !.fence = f] \in Block
  BY ZenonT(30) DEF Block
<1>3. ASSUME NEW s \in States, NEW e \in Nat
      PROVE  [state |-> s, epoch |-> e + 1, fence |-> 0] \in Block
  BY DEF Block
<1>4. srv \in Block /\ snap \in Block /\ fences \in Nat /\ srv.epoch \in Nat /\ fences + 1 \in Nat
  BY DEF LoopInv, Block
<1>5. {"tracking", "braking", "waiting_fresh", "starting", "paused"} = States
  BY Zenon DEF States
<1>6. LoopInv'
  <2>1. CASE SrvBrake \/ SrvInitMotion
    BY <2>1, <1>3, <1>4, <1>5, Zenon DEF LoopInv, SrvBrake, SrvInitMotion
  <2>2. CASE SrvStopped \/ SrvBudgetReset
    <3>1. snap' = snap /\ \E s \in {"paused", "waiting_fresh"} : raiseFence(s)
      BY <2>2, Zenon DEF SrvStopped, SrvBudgetReset
    <3>2. PICK s \in States : raiseFence(s)
      BY <3>1, <1>5, Zenon
    <3>3. fences' = fences + 1 /\ srv' = [srv EXCEPT !.state = s, !.fence = fences + 1]
      BY <3>2, Zenon DEF raiseFence
    <3>4. [srv EXCEPT !.state = s, !.fence = fences + 1] \in Block
      BY <1>2, <1>4, Zenon
    <3> QED BY <1>4, <3>1, <3>3, <3>4, Zenon DEF LoopInv
  <2>3. CASE SrvFreshTimeout \/ SrvExamine \/ SrvEngaged \/ SrvFreedrive
    <3>1. /\ snap' = snap /\ fences' = fences
          /\ srv' = srv \/ \E s \in {"paused", "starting", "tracking"} : srv' = [srv EXCEPT !.state = s]
      BY <2>3, Zenon DEF SrvFreshTimeout, SrvExamine, SrvEngaged, SrvFreedrive
    <3> QED BY <3>1, <1>2, <1>4, <1>5, Zenon DEF LoopInv
  <2>4. CASE SrvReceive \/ SrvPublish
    BY <2>4, <1>4, Zenon DEF LoopInv, SrvReceive, SrvPublish
  <2> QED BY <2>1, <2>2, <2>3, <2>4, Zenon DEF Server
<1> QED BY <1>1, <1>6, PolicyKept, Zenon

(* The inductive invariant. *)
Inv == PolicyInv /\ LoopInv

(* It holds before the policy's first tick. *)
LEMMA InvInit == Init => Inv
<1> SUFFICES ASSUME Init PROVE Inv
  BY Zenon
<1>1. LoopInv
  BY Zenon DEF Init, LoopInv, Block, States
<1>2. PolicyType /\ NoStalePlan /\ PendingIsBacked
  BY Zenon DEF Init, StreamInit, PolicyType, NoStalePlan, PendingIsBacked
<1>3. WorkerInv /\ EpochInv /\ PcInv /\ RowInv
  BY Zenon DEF Init, StreamInit, WorkerInv, EpochInv, PcInv, RowInv
<1> QED BY <1>1, <1>2, <1>3, Zenon DEF Inv, PolicyInv

(* Every step of the command thread, the worker and the loop keeps it. *)
LEMMA InvNext == Inv /\ [Next]_vars => Inv'
<1> SUFFICES ASSUME Inv, [Next]_vars PROVE Inv'
  BY Zenon
<1>1. PolicyInv /\ LoopInv
  BY Zenon DEF Inv
<1>2. CASE Command
  <2>1. UNCHANGED <<srv, snap, fences>>
    BY <1>2, Zenon DEF Command, serverVars
  <2> QED BY <1>1, <1>2, <2>1, CommandKeeps, Zenon DEF Inv, LoopInv
<1>3. CASE Worker
  <2>1. UNCHANGED <<srv, snap, fences>>
    BY <1>3, Zenon DEF Worker, serverVars
  <2> QED BY <1>1, <1>3, <2>1, WorkerKeeps, Zenon DEF Inv, LoopInv
<1>4. CASE Server
  BY <1>1, <1>4, ServerKeeps, Zenon DEF Inv
<1>5. CASE UNCHANGED vars
  <2>1. UNCHANGED policyVars /\ UNCHANGED <<srv, snap, fences>>
    BY <1>5, Zenon DEF vars, streamVars, serverVars, policyVars, commandVars, observedVars, lockVars, workerVars
  <2> QED BY <1>1, <2>1, PolicyKept, Zenon DEF Inv, LoopInv
<1> QED BY <1>2, <1>3, <1>4, <1>5, Zenon DEF Next

(* Hence it always holds. *)
LEMMA InvAlways == Spec => []Inv
BY InvInit, InvNext, PTL DEF Spec

(* No plan of an older generation is active, waiting to be taken or        *)
(* queued: what an override, a reset or a recovery has overtaken never     *)
(* reaches the robot, however late the inference completes.                *)
THEOREM StalePlansAreDropped == Spec => []NoStalePlan
<1>1. Inv => NoStalePlan
  BY Zenon DEF Inv, PolicyInv
<1> QED BY <1>1, InvAlways, PTL

(* _stream_pending is raised exactly while a request of this generation is *)
(* queued or with the worker, and then no result waits: the stream never   *)
(* stalls on a lost request and never has two of them.                     *)
THEOREM PendingIsNeverLost == Spec => []PendingIsBacked
<1>1. Inv => PendingIsBacked
  BY Zenon DEF Inv, PolicyInv
<1> QED BY <1>1, InvAlways, PTL

(* The row about to be played is the one that as many played rows precede  *)
(* in its plan, whichever scheduler activated it and however many rows it  *)
(* dropped as already executed.                                            *)
THEOREM RowsStayAligned == Spec => []RowAligned
<1>1. Inv => RowAligned
  <2> SUFFICES ASSUME Inv, pc = "kick", advanced, chunk # None
               PROVE  chunk.age = chunk.start + index
    BY Zenon DEF RowAligned
  <2>1. /\ chunk \in Active /\ index \in Nat
        /\ chunk.age = chunk.start + index + (IF resume \/ (pc = "kick" /\ advanced) THEN 0 ELSE 1)
    BY Zenon DEF Inv, PolicyInv, PolicyType, RowInv
  <2>2. chunk.start \in Nat
    BY <2>1, Zenon DEF Active
  <2> QED BY <2>1, <2>2
<1> QED BY <1>1, InvAlways, PTL

(* A row is played only while the last snapshot shows the loop tracking,   *)
(* from a plan requested in the epoch it shows.                            *)
THEOREM RowsAreOfThisEpoch == Spec => []RowsOfThisEpoch
<1>1. Inv => RowsOfThisEpoch
  <2> SUFFICES ASSUME Inv, pc = "kick", advanced, chunk # None
               PROVE  recov.state = "tracking" /\ chunk.epoch = recov.epoch
    BY Zenon DEF RowsOfThisEpoch
  <2>1. recov.state = "tracking"
    BY Zenon DEF Inv, PolicyInv, PcInv
  <2>2. chunk.cur
    BY Zenon DEF Inv, PolicyInv, NoStalePlan
  <2>3. chunk.epoch = recov.epoch
    BY <2>2, Zenon DEF Inv, PolicyInv, EpochInv
  <2> QED BY <2>1, <2>3, Zenon
<1> QED BY <1>1, InvAlways, PTL
-----------------------------------------------------------------------------
(* The policy as the loop sees it: the groundwork of the resumption below. *)

(* The last plan stashed for promotion. *)
newest(plan) == pend # <<>> /\ pend[Len(pend)] = plan.id

(* An override leaves nothing of this generation behind, and the loop has  *)
(* started over before the override ends.                                  *)
SuspendedInv ==
    /\ suspended => /\ chunk = None /\ next = None /\ request = None /\ ~resume
                    /\ wreq # None => ~wreq.cur
                    /\ pc \in {"idle", "reanchored"}
    /\ initSeen => suspended /\ srv.state = "tracking" /\ srv.fence = 0
    /\ pc = "reanchored" => initSeen

(* The result that waits, or is about to, is the newest stash. *)
RtcInv ==
    /\ pend \in Seq(Id) /\ wok \in BOOLEAN
    /\ next # None => wreq = None /\ newest(next)
    /\ wpc = "publish" /\ wreq.cur /\ wok => newest(wreq)
    /\ RtcPrevIsPlayed

(* A step that neither stashes nor promotes. *)
LEMMA RtcQuiet ==
    ASSUME RtcInv, WorkerInv, UNCHANGED <<prev, pend, wok, wpc>>,
           next' # None => next # None /\ next'.id = next.id,
           wreq' = None <=> wreq = None,
           wreq # None => wreq'.id = wreq.id /\ (wreq'.cur => wreq.cur),
           chunk' # None => chunk # None /\ chunk'.id = chunk.id
    PROVE  RtcInv'
<1>1. next' # None => wreq' = None /\ newest(next)'
  BY Zenon DEF RtcInv, newest
<1>2. wpc' = "publish" /\ wreq'.cur /\ wok' => newest(wreq)'
  BY Zenon DEF RtcInv, WorkerInv, newest
<1>3. RtcPrevIsPlayed'
  BY Zenon DEF RtcInv, RtcPrevIsPlayed
<1> QED BY <1>1, <1>2, <1>3, Zenon DEF RtcInv

(* A reset of RTC when nothing of this generation is on its way. *)
LEMMA RtcReset ==
    ASSUME RtcInv, resetRtc, wok' \in BOOLEAN, next' = None,
           wpc' = "publish" => ~wreq'.cur
    PROVE  RtcInv'
<1>1. prev' = None /\ pend' = <<>>
  BY Zenon DEF resetRtc
<1>2. pend' \in Seq(Id)
  BY <1>1
<1> QED BY <1>1, <1>2, Zenon DEF RtcInv, RtcPrevIsPlayed

(* An invalidation, with or without a reset of RTC. *)
LEMMA RtcInvalidate ==
    ASSUME PolicyInv, RtcInv, invalidatePolicyChunks, resetRtc \/ keepRtc, wpc' = wpc, wok' = wok
    PROVE  RtcInv'
<1>1. chunk' = None /\ next' = None /\ wreq' = outdated(wreq) /\ wreq \in Plan \cup {None} /\ WorkerInv
  BY Zenon DEF invalidatePolicyChunks, PolicyInv, PolicyType
<1>2. (wreq' = None <=> wreq = None) /\ (wreq' # None => wreq'.cur = FALSE)
  BY <1>1, OutdatedFacts, Zenon
<1>3. wpc' = "publish" => ~wreq'.cur
  BY <1>1, <1>2, Zenon DEF WorkerInv
<1>4. CASE resetRtc
  BY <1>1, <1>3, <1>4, RtcReset, Zenon DEF RtcInv
<1>5. CASE keepRtc
  BY <1>1, <1>3, <1>5, Zenon DEF keepRtc, RtcInv, RtcPrevIsPlayed
<1> QED BY <1>4, <1>5, Zenon

(* Forgetting a plan leaves ids. *)
LEMMA DiscardKeepsType ==
    ASSUME pend \in Seq(Id), NEW plan, rtcDiscarded(plan)
    PROVE  pend' \in Seq(Id)
<1>1. CASE pend' = pend
  BY <1>1, Zenon
<1>2. ASSUME NEW i \in DOMAIN pend, pend' = SubSeq(pend, 1, i - 1) \o SubSeq(pend, i + 1, Len(pend))
      PROVE  pend' \in Seq(Id)
  <2>1. i \in 1..Len(pend) /\ Len(pend) \in Nat
    BY <1>2
  <2>2. SubSeq(pend, 1, i - 1) \in Seq(Id) /\ SubSeq(pend, i + 1, Len(pend)) \in Seq(Id)
    BY <2>1
  <2>3. \A s, t \in Seq(Id) : s \o t \in Seq(Id)
    OBVIOUS
  <2> QED BY <1>2, <2>2, <2>3, Zenon
<1> QED BY <1>1, <1>2, Zenon DEF rtcDiscarded

(* The plan that is activated was stashed, so it becomes the previous one. *)
LEMMA RtcActivate ==
    ASSUME PolicyInv, RtcInv, next # None, activateChunk(next), next' = None, UNCHANGED <<wok, wpc, wreq>>
    PROVE  RtcInv'
<1>1. /\ wreq = None /\ pend \in Seq(Id) /\ pend # <<>> /\ pend[Len(pend)] = next.id /\ next \in Plan
      /\ wpc # "publish"
  BY Zenon DEF RtcInv, newest, PolicyInv, PolicyType, WorkerInv
<1>2. Len(pend) \in DOMAIN pend
  BY <1>1
<1>3. next.id \in promotable
  BY <1>1, <1>2, Zenon DEF promotable
<1>4. CASE next.age >= Horizon
  <2>1. chunk' = None /\ rtcDiscarded(next)
    BY <1>4, Zenon DEF activateChunk
  <2>2. pend' \in Seq(Id)
    BY <1>1, <2>1, DiscardKeepsType, Zenon
  <2> QED BY <1>1, <2>1, <2>2, Zenon DEF RtcInv, RtcPrevIsPlayed
<1>5. CASE ~(next.age >= Horizon)
  <2>1. rtcActivated(next) /\ chunk' = [id |-> next.id, cur |-> next.cur, age |-> next.age, epoch |-> next.epoch, start |-> next.age]
    BY <1>5, Zenon DEF activateChunk
  <2>2. PICK i \in DOMAIN pend : prev' = [id |-> next.id, cur |-> next.cur] /\ pend' = SubSeq(pend, i + 1, Len(pend))
    BY <1>3, <2>1, Zenon DEF rtcActivated
  <2>3. pend' \in Seq(Id)
    BY <1>1, <2>2
  <2>4. prev'.id = chunk'.id
    BY <2>1, <2>2, Zenon
  <2> QED BY <1>1, <2>3, <2>4, Zenon DEF RtcInv, RtcPrevIsPlayed
<1> QED BY <1>4, <1>5, Zenon

(* The worker's steps. *)
LEMMA RtcWorker ==
    ASSUME PolicyInv, RtcInv, Worker
    PROVE  RtcInv'
<1>0. /\ request \in Plan \cup {None} /\ wreq \in Plan \cup {None} /\ PendingIsBacked /\ WorkerInv
      /\ pend \in Seq(Id) /\ wok \in BOOLEAN
  BY Zenon DEF PolicyInv, PolicyType, RtcInv
<1>1. CASE WorkerTake
  <2>1. /\ request # None /\ wpc' = "sample" /\ UNCHANGED <<chunk, next, wok, prev, pend>>
    BY <1>1, Zenon DEF WorkerTake, commandVars, rtcVars
  <2>2. next = None
    BY <1>0, <2>1, Zenon DEF PendingIsBacked
  <2> QED BY <2>1, <2>2, Zenon DEF RtcInv, RtcPrevIsPlayed
<1>2. CASE WorkerExit
  <2>1. /\ wpc' = "exit" /\ UNCHANGED <<chunk, next, wreq, wok, prev, pend>>
    BY <1>2, Zenon DEF WorkerExit, commandVars, lockVars, rtcVars
  <2> QED BY <2>1, Zenon DEF RtcInv, RtcPrevIsPlayed, newest
<1>3. ASSUME NEW stamp, WorkerSample(stamp) PROVE RtcInv'
  <2>1. /\ wpc = "sample" /\ wpc' = "infer" /\ UNCHANGED <<chunk, next, wok, prev, pend>>
    BY <1>3, Zenon DEF WorkerSample, commandVars, lockVars, rtcVars
  <2>2. next = None
    BY <1>0, <2>1, Zenon DEF WorkerInv, RtcInv
  <2> QED BY <2>1, <2>2, Zenon DEF RtcInv, RtcPrevIsPlayed
<1>4. ASSUME NEW ok \in BOOLEAN, WorkerInferred(ok) PROVE RtcInv'
  <2>1. /\ wpc = "infer" /\ wpc' = "publish" /\ wok' = ok /\ UNCHANGED <<chunk, next, wreq, prev>>
    BY <1>4, Zenon DEF WorkerInferred, commandVars, lockVars
  <2>2. next = None /\ wreq \in Plan /\ wreq.id \in Id
    BY <1>0, <2>1, Zenon DEF WorkerInv, RtcInv, Plan
  <2>3. CASE ~ok
    <3>1. pend' = pend
      BY <1>4, <2>3, Zenon DEF WorkerInferred
    <3> QED BY <2>1, <2>2, <2>3, <3>1, Zenon DEF RtcInv, RtcPrevIsPlayed
  <2>4. CASE ok
    <3>1. PICK kept : kept = Append(pend, wreq.id)
      BY Zenon
    <3>2. PICK n \in {1, 2} : pend' = SubSeq(kept, n, Len(kept)) /\ (n = 2 => Len(kept) > KeepPending)
      BY <1>4, <2>4, <3>1 DEF WorkerInferred
    <3>3. kept \in Seq(Id) /\ Len(kept) \in Nat /\ Len(kept) >= 1 /\ kept[Len(kept)] = wreq.id
      BY <1>0, <2>2, <3>1
    <3>4. n <= Len(kept)
      BY <3>2, <3>3, KeepAssumption
    <3>5. pend' \in Seq(Id) /\ Len(pend') = Len(kept) - n + 1 /\ pend'[Len(kept) - n + 1] = kept[Len(kept)]
      BY <3>2, <3>3, <3>4
    <3>6. pend' # <<>> /\ pend'[Len(pend')] = wreq.id
      BY <3>2, <3>3, <3>4, <3>5
    <3> QED BY <2>1, <2>2, <3>5, <3>6, Zenon DEF RtcInv, RtcPrevIsPlayed, newest
  <2> QED BY <2>3, <2>4, Zenon
<1>5. CASE WorkerPublish
  <2>1. /\ wpc = "publish" /\ wpc' = "wait" /\ wreq' = None /\ wok' = FALSE /\ chunk' = chunk /\ wreq # None
    BY <1>0, <1>5, Zenon DEF WorkerPublish, commandVars, WorkerInv
  <2>2. next = None
    BY <1>0, <2>1, Zenon DEF RtcInv
  <2>3. CASE ~wreq.cur
    BY <1>5, <2>1, <2>2, <2>3, RtcReset, Zenon DEF WorkerPublish
  <2>4. CASE wreq.cur
    <3>1. next' = (IF wok THEN wreq ELSE None) /\ UNCHANGED <<prev, pend>>
      BY <1>5, <2>4, Zenon DEF WorkerPublish, rtcVars
    <3>2. wok => newest(wreq)
      BY <2>1, <2>4, Zenon DEF RtcInv
    <3> QED BY <2>1, <3>1, <3>2, Zenon DEF RtcInv, RtcPrevIsPlayed, newest
  <2> QED BY <2>3, <2>4, Zenon
<1> QED BY <1>1, <1>2, <1>3, <1>4, <1>5, Zenon DEF Worker

(* What a step of the policy means to the loop: it sees the snapshot, an   *)
(* override begins or ends, it sends the frame of a plan it publishes or   *)
(* plays, or it does nothing the loop would notice.                        *)
Sees ==
    /\ ~suspended /\ recov' = snap /\ moved' = FALSE /\ UNCHANGED <<wire, suspended, initSeen>>
    /\ \/ resume' = FALSE /\ (mustRecover(snap) \/ moved)
       \/ resume' = resume /\ chunk' = chunk /\ ~mustRecover(snap) /\ ~moved

Suspends == suspended' = TRUE /\ resume' = FALSE /\ UNCHANGED <<recov, moved, wire, initSeen>>

Reanchors ==
    initSeen /\ suspended' = FALSE /\ initSeen' = FALSE /\ resume' = FALSE /\ UNCHANGED <<recov, moved, wire>>

frameOf(plan) == [id |-> plan.id, epoch |-> plan.epoch, stamp |-> plan.stamp]

Publishes ==
    /\ ~suspended /\ ~resume /\ recov.state = "waiting_fresh"
    /\ resume' = TRUE /\ chunk'.id = next.id
    /\ UNCHANGED <<recov, moved, suspended, initSeen>>

Plays ==
    /\ ~suspended /\ recov.state = "tracking" /\ resume' = FALSE
    /\ UNCHANGED <<recov, moved, suspended, initSeen>>

Sends ==
    /\ next # None /\ recov # None /\ next.epoch = recov.epoch /\ wire' = frameOf(next)
    /\ Publishes \/ Plays

Rests ==
    /\ UNCHANGED <<recov, moved, wire, suspended, initSeen>>
    /\ resume' => resume /\ chunk'.id = chunk.id
    /\ recov # None /\ recov.state = "waiting_fresh" => resume' = resume

(* No plan is observed behind a fence that has not been raised. *)
PlanStamps == \A p \in {next, request, wreq} \ {None} : p.stamp <= fences

(* Every step of the policy. *)
PolicyMoves ==
    /\ UNCHANGED <<srv, fences, cache, candidate, retired, bumped, snap>>
    /\ Sees \/ Suspends \/ Reanchors \/ Sends \/ Rests

(* What the policy's side of the invariant says. *)
StreamInv == PolicyInv /\ LoopInv /\ RtcInv /\ SuspendedInv /\ PlanStamps

(* What a step of the policy keeps and does. *)
StreamStep == RtcInv' /\ SuspendedInv' /\ PlanStamps' /\ PolicyMoves

(* A step outside an override. *)
LEMMA NotSuspended ==
    ASSUME SuspendedInv, ~suspended, UNCHANGED <<suspended, initSeen>>, pc' # "reanchored"
    PROVE  SuspendedInv'
BY Zenon DEF SuspendedInv

(* The server's stamps when plans only move from hand to hand. *)
LEMMA StampsKept ==
    ASSUME PlanStamps, fences' = fences, next' \in {next, None}, request' \in {request, None}, wreq' = wreq
    PROVE  PlanStamps'
BY Zenon DEF PlanStamps

(* Outdating what is under way raises no stamp. *)
LEMMA InvalidateStamps ==
    ASSUME PolicyInv, PlanStamps, fences' = fences, invalidatePolicyChunks
    PROVE  PlanStamps'
<1>1. next' = None /\ request' = None /\ wreq' = outdated(wreq) /\ wreq \in Plan \cup {None}
  BY Zenon DEF invalidatePolicyChunks, PolicyInv, PolicyType
<1>2. wreq' # None => wreq # None /\ wreq'.stamp = wreq.stamp
  BY <1>1, OutdatedFacts, Zenon
<1> QED BY <1>1, <1>2, Zenon DEF PlanStamps

(* Seeing a snapshot. *)
LEMMA ObserveMoves == ASSUME StreamInv, Observe(snap), UNCHANGED serverVars PROVE StreamStep
<1>1. /\ pc = "idle" /\ ~suspended /\ recov' = snap /\ moved' = FALSE /\ pc' # "reanchored"
      /\ UNCHANGED <<suspended, wpc, wok, wire>>
      /\ UNCHANGED <<srv, fences, cache, candidate, retired, bumped, snap, initSeen>>
  BY Zenon DEF Observe, serverVars
<1>2. SuspendedInv'
  BY <1>1, NotSuspended, Zenon DEF StreamInv
<1>3. CASE invalidatePolicyChunks /\ (resetRtc \/ keepRtc) /\ (mustRecover(snap) \/ moved)
  <2>1. RtcInv'
    BY <1>1, <1>3, RtcInvalidate, Zenon DEF StreamInv
  <2>2. resume' = FALSE /\ PlanStamps'
    BY <1>1, <1>3, InvalidateStamps, Zenon DEF StreamInv, invalidatePolicyChunks
  <2> QED BY <1>1, <1>2, <1>3, <2>1, <2>2, Zenon DEF StreamStep, PolicyMoves, Sees
<1>4. CASE ~mustRecover(snap) /\ ~moved /\ keepChunks
  <2>1. UNCHANGED <<chunk, resume, request, next, wreq, prev, pend>>
    BY <1>4, Zenon DEF keepChunks, rtcVars
  <2>2. RtcInv'
    BY <1>1, <2>1, RtcQuiet, Zenon DEF StreamInv, PolicyInv
  <2>3. PlanStamps'
    BY <1>1, <2>1, StampsKept, Zenon DEF StreamInv
  <2> QED BY <1>1, <1>2, <1>4, <2>1, <2>2, <2>3, Zenon DEF StreamStep, PolicyMoves, Sees
<1> QED BY <1>3, <1>4, Zenon DEF Observe

(* The two ways an override begins. *)
LEMMA OverrideMoves ==
    ASSUME StreamInv, UNCHANGED serverVars, on_arm_init_override_start \/ on_arm_init_override_failed
    PROVE  StreamStep
<1>1. /\ invalidatePolicyChunks /\ keepRtc /\ pc = "idle" /\ pc' = "idle" /\ suspended' = TRUE
      /\ UNCHANGED <<recov, moved, wpc, wok, wire>>
      /\ UNCHANGED <<srv, fences, cache, candidate, retired, bumped, snap, initSeen>>
  BY Zenon DEF on_arm_init_override_start, on_arm_init_override_failed, serverVars, StreamInv, SuspendedInv
<1>2. RtcInv' /\ PlanStamps'
  BY <1>1, RtcInvalidate, InvalidateStamps, Zenon DEF StreamInv
<1>3. /\ chunk' = None /\ next' = None /\ request' = None /\ resume' = FALSE /\ wreq' = outdated(wreq)
      /\ wreq \in Plan \cup {None}
  BY <1>1, Zenon DEF invalidatePolicyChunks, StreamInv, PolicyInv, PolicyType
<1>4. wreq' # None => ~wreq'.cur
  BY <1>3, OutdatedFacts, Zenon
<1>5. SuspendedInv'
  BY <1>1, <1>3, <1>4, Zenon DEF StreamInv, SuspendedInv
<1> QED BY <1>1, <1>2, <1>3, <1>5, Zenon DEF StreamStep, PolicyMoves, Suspends

(* The arms are re-anchored after an override. *)
LEMMA ReanchorMoves ==
    ASSUME StreamInv, UNCHANGED serverVars, initSeen, ReanchorArms
    PROVE  StreamStep
<1>1. /\ suspended /\ resetRtc /\ pc' = "reanchored"
      /\ UNCHANGED <<chunk, suspended, moved, recov, resume, request, next, wpc, wreq, wok, wire>>
      /\ UNCHANGED <<srv, fences, cache, candidate, retired, bumped, snap, initSeen>>
  BY Zenon DEF ReanchorArms, serverVars, observedVars, lockVars, workerVars
<1>2. chunk = None /\ next = None /\ request = None /\ (wreq # None => ~wreq.cur)
  BY <1>1, Zenon DEF StreamInv, SuspendedInv
<1>3. wpc' = "publish" => ~wreq'.cur
  BY <1>1, <1>2, Zenon DEF StreamInv, PolicyInv, WorkerInv
<1>4. RtcInv'
  BY <1>1, <1>2, <1>3, RtcReset, Zenon DEF StreamInv, RtcInv
<1>5. SuspendedInv'
  BY <1>1, <1>2, Zenon DEF StreamInv, SuspendedInv
<1>6. PlanStamps'
  BY <1>1, StampsKept, Zenon DEF StreamInv
<1>7. Rests
  BY <1>1, <1>2, Zenon DEF Rests, StreamInv, SuspendedInv
<1> QED BY <1>1, <1>4, <1>5, <1>6, <1>7, Zenon DEF StreamStep, PolicyMoves

(* The end of an override. *)
LEMMA InvalidateMoves ==
    ASSUME StreamInv, InvalidateReanchored, initSeen' = FALSE,
           UNCHANGED <<srv, attempts, exhausted, fences, cache, candidate, retired, bumped, snap>>
    PROVE  StreamStep
<1>1. /\ invalidatePolicyChunks /\ keepRtc /\ pc = "reanchored" /\ pc' = "idle" /\ suspended' = FALSE
      /\ UNCHANGED <<recov, moved, wpc, wok, wire>>
  BY Zenon DEF InvalidateReanchored
<1>2. RtcInv' /\ PlanStamps' /\ resume' = FALSE
  BY <1>1, RtcInvalidate, InvalidateStamps, Zenon DEF StreamInv, invalidatePolicyChunks
<1>3. initSeen /\ SuspendedInv'
  BY <1>1, Zenon DEF StreamInv, SuspendedInv
<1> QED BY <1>1, <1>2, <1>3, Zenon DEF StreamStep, PolicyMoves, Reanchors

-----------------------------------------------------------------------------
(* What the policy and the loop agree on when a recovery ends: the plan    *)
(* the policy plays on from is the one the loop has accepted, and RTC      *)
(* continues the plan that is played.  The inductive invariant relates the *)
(* block the policy has seen, the snapshot, and the loop.                  *)

(* Activating the waiting plan sends its frame, unless none of it is left. *)
LEMMA ActivateSends ==
    ASSUME StreamInv, next # None, activateChunk(next)
    PROVE  /\ next \in Plan /\ recov # None /\ next.epoch = recov.epoch
           /\ \/ chunk' = None /\ wire' = wire
              \/ chunk' # None /\ chunk'.id = next.id /\ wire' = frameOf(next)
<1>1. next \in Plan /\ recov # None /\ next.epoch = recov.epoch
  BY CommandFacts, Zenon DEF StreamInv
<1>2. CASE next.age >= Horizon
  BY <1>1, <1>2, Zenon DEF activateChunk
<1>3. CASE ~(next.age >= Horizon)
  <2>1. chunk' = [id |-> next.id, cur |-> next.cur, age |-> next.age, epoch |-> next.epoch, start |-> next.age]
    BY <1>3, Zenon DEF activateChunk
  <2>2. chunk' \in Active /\ chunk'.id = next.id
    BY <1>1, <2>1, Zenon DEF Active, Plan
  <2>3. chunk' # None
    BY <2>2, NoneAssumption, Zenon
  <2> QED BY <1>1, <1>3, <2>2, <2>3, Zenon DEF activateChunk, frameOf
<1> QED BY <1>2, <1>3, Zenon

(* The tick of a recovery publishes the waiting plan. *)
LEMMA RecoverMoves == ASSUME StreamInv, UNCHANGED serverVars, RecoverTick PROVE StreamStep
<1>1. /\ pc = "recover" /\ recov # None /\ published = resume /\ resume \in BOOLEAN /\ ~suspended /\ pc' # "reanchored"
      /\ UNCHANGED <<recov, suspended, moved, request, wpc, wreq, wok>>
      /\ UNCHANGED <<srv, fences, cache, candidate, retired, bumped, snap, initSeen>>
  BY Zenon DEF RecoverTick, workerVars, StreamInv, PolicyInv, PolicyType, PcInv, SuspendedInv, serverVars
<1>2. SuspendedInv'
  BY <1>1, NotSuspended, Zenon DEF StreamInv
<1>3. CASE UNCHANGED <<chunk, resume, next, prev, pend, wire>>
  <2>1. RtcInv'
    BY <1>1, <1>3, RtcQuiet, Zenon DEF StreamInv, PolicyInv
  <2>2. PlanStamps'
    BY <1>1, <1>3, StampsKept, Zenon DEF StreamInv
  <2> QED BY <1>1, <1>2, <1>3, <2>1, <2>2, Zenon DEF StreamStep, PolicyMoves, Rests
<1>4. CASE /\ recov.state = "waiting_fresh" /\ ~published /\ next' = None /\ next # None /\ activateChunk(next)
           /\ resume' = (chunk' # None)
  <2>1. RtcInv'
    BY <1>1, <1>4, RtcActivate, Zenon DEF StreamInv
  <2>2. PlanStamps'
    BY <1>1, <1>4, StampsKept, Zenon DEF StreamInv
  <2>3. /\ next.epoch = recov.epoch
        /\ \/ chunk' = None /\ wire' = wire
           \/ chunk' # None /\ chunk'.id = next.id /\ wire' = frameOf(next)
    BY <1>4, ActivateSends, Zenon
  <2>4. CASE chunk' = None /\ wire' = wire
    BY <1>1, <1>2, <1>4, <2>1, <2>2, <2>4, Zenon DEF StreamStep, PolicyMoves, Rests
  <2>5. CASE chunk' # None /\ chunk'.id = next.id /\ wire' = frameOf(next)
    BY <1>1, <1>2, <1>4, <2>1, <2>2, <2>3, <2>5, Zenon DEF StreamStep, PolicyMoves, Sends, Publishes
  <2> QED BY <2>3, <2>4, <2>5, Zenon
<1>5. CASE next' = None /\ UNCHANGED <<chunk, resume, prev, pend, wire>>
  <2>1. RtcInv'
    BY <1>1, <1>5, RtcQuiet, Zenon DEF StreamInv, PolicyInv
  <2>2. PlanStamps'
    BY <1>1, <1>5, StampsKept, Zenon DEF StreamInv
  <2> QED BY <1>1, <1>2, <1>5, <2>1, <2>2, Zenon DEF StreamStep, PolicyMoves, Rests
<1> QED BY <1>3, <1>4, <1>5, Zenon DEF RecoverTick, takePrefetched, rtcVars

(* A step of a tick that neither stashes, promotes nor sends. *)
LEMMA QuietMoves ==
    ASSUME StreamInv, UNCHANGED serverVars, pc \notin {"idle", "reanchored"}, pc' # "reanchored",
           UNCHANGED <<prev, pend, wok, wpc, recov, moved, suspended, wire>>,
           next' # None => next # None /\ next'.id = next.id /\ next'.stamp = next.stamp,
           request' # None => request'.stamp = 0 \/ (request # None /\ request'.stamp = request.stamp),
           wreq' = None <=> wreq = None,
           wreq # None => wreq'.id = wreq.id /\ (wreq'.cur => wreq.cur) /\ wreq'.stamp = wreq.stamp,
           chunk' # None => chunk # None /\ chunk'.id = chunk.id,
           resume' => resume /\ chunk' # None,
           recov.state = "waiting_fresh" => resume' = resume
    PROVE  StreamStep
<1>1. ~suspended /\ UNCHANGED <<srv, fences, cache, candidate, retired, bumped, snap, initSeen>>
  BY Zenon DEF StreamInv, SuspendedInv, serverVars
<1>2. SuspendedInv'
  BY <1>1, NotSuspended, Zenon DEF StreamInv
<1>3. RtcInv'
  BY RtcQuiet, Zenon DEF StreamInv, PolicyInv
<1>4. PlanStamps'
  <2>1. fences \in Nat
    BY Zenon DEF StreamInv, LoopInv
  <2>2. 0 <= fences
    BY <2>1
  <2> QED BY <1>1, <2>2, Zenon DEF StreamInv, PlanStamps
<1>5. Rests
  BY <1>1, Zenon DEF Rests
<1> QED BY <1>1, <1>2, <1>3, <1>4, <1>5, Zenon DEF StreamStep, PolicyMoves

(* A step of a tick that activates the waiting plan to play it. *)
LEMMA SwapMoves ==
    ASSUME StreamInv, UNCHANGED serverVars, pc \in {"tick", "take", "boundary"}, pc' # "reanchored",
           next # None, next' = None, activateChunk(next), resume = FALSE, resume' = FALSE,
           UNCHANGED <<recov, moved, suspended, request, wpc, wreq, wok>>
    PROVE  StreamStep
<1>1. /\ ~suspended /\ recov # None /\ recov.state = "tracking"
      /\ UNCHANGED <<srv, fences, cache, candidate, retired, bumped, snap, initSeen>>
  BY Zenon DEF StreamInv, SuspendedInv, PolicyInv, PcInv, serverVars
<1>2. SuspendedInv'
  BY <1>1, NotSuspended, Zenon DEF StreamInv
<1>3. RtcInv'
  BY RtcActivate, Zenon DEF StreamInv
<1>4. PlanStamps'
  BY <1>1, StampsKept, Zenon DEF StreamInv
<1>5. /\ next.epoch = recov.epoch
      /\ wire' = wire \/ wire' = frameOf(next)
  BY ActivateSends, Zenon
<1>6. Rests \/ Sends
  BY <1>1, <1>5, Zenon DEF Rests, Sends, Plays
<1> QED BY <1>1, <1>2, <1>3, <1>4, <1>6, Zenon DEF StreamStep, PolicyMoves

(* The first row after a recovery. *)
LEMMA ResumeMoves == ASSUME StreamInv, UNCHANGED serverVars, ResumeRow PROVE StreamStep
<1>1. /\ pc = "tick" /\ pc' = "kick" /\ resume' = FALSE
      /\ UNCHANGED <<chunk, suspended, moved, recov, request, next, wpc, wreq, wok, prev, pend, wire>>
  BY Zenon DEF ResumeRow, lockVars, workerVars, rtcVars
<1>2. recov.state = "tracking"
  BY <1>1, Zenon DEF StreamInv, PolicyInv, PcInv
<1> QED BY <1>1, <1>2, QuietMoves, Zenon

(* A plan is acquired. *)
LEMMA AcquireMoves == ASSUME StreamInv, UNCHANGED serverVars, AcquireChunk PROVE StreamStep
<1>1. /\ pc = "tick" /\ chunk = None /\ next' = None /\ pc' # "reanchored"
      /\ UNCHANGED <<suspended, moved, recov, resume, request, wpc, wreq, wok>>
  BY Zenon DEF AcquireChunk, takePrefetched, observedVars, workerVars
<1>2. resume = FALSE
  BY <1>1, CommandFacts, Zenon DEF StreamInv, PolicyInv, RowInv
<1>3. CASE UNCHANGED <<chunk, prev, pend, wire>>
  BY <1>1, <1>2, <1>3, QuietMoves, Zenon
<1>4. CASE next # None /\ activateChunk(next)
  BY <1>1, <1>2, <1>4, SwapMoves, Zenon
<1> QED BY <1>3, <1>4, Zenon DEF AcquireChunk, rtcVars

(* A tick between two rows. *)
LEMMA BetweenMoves == ASSUME StreamInv, UNCHANGED serverVars, BetweenRows PROVE StreamStep
<1>1. /\ pc = "tick" /\ pc' = "kick" /\ chunk # None
      /\ UNCHANGED <<chunk, suspended, moved, recov, resume, request, next, wpc, wreq, wok, prev, pend, wire>>
  BY Zenon DEF BetweenRows, observedVars, lockVars, workerVars, rtcVars
<1> QED BY <1>1, QuietMoves, Zenon

(* A row is due. *)
LEMMA DeadlineMoves == ASSUME StreamInv, UNCHANGED serverVars, RowDeadline PROVE StreamStep
<1>1. /\ pc = "tick" /\ pc' # "reanchored" /\ chunk # None
      /\ UNCHANGED <<chunk, suspended, moved, recov, resume, request, next, wpc, wreq, wok, prev, pend, wire>>
  BY Zenon DEF RowDeadline, nextRow, observedVars, lockVars, workerVars, rtcVars
<1> QED BY <1>1, QuietMoves, Zenon

(* A ready plan is taken. *)
LEMMA TakeMoves == ASSUME StreamInv, UNCHANGED serverVars, ReadyEventTake PROVE StreamStep
<1>1. /\ pc = "take" /\ next' = None /\ pc' # "reanchored"
      /\ UNCHANGED <<suspended, moved, recov, resume, request, wpc, wreq, wok>>
  BY Zenon DEF ReadyEventTake, takePrefetched, nextRow, observedVars, workerVars
<1>2. resume = FALSE /\ chunk # None
  BY <1>1, CommandFacts, Zenon DEF StreamInv, PolicyInv, RowInv
<1>3. CASE next # None /\ activateChunk(next)
  BY <1>1, <1>2, <1>3, SwapMoves, Zenon
<1>4. CASE UNCHANGED <<chunk, wire, prev, pend>>
  BY <1>1, <1>2, <1>4, QuietMoves, Zenon
<1>5. CASE next # None /\ rtcDiscarded(next) /\ UNCHANGED <<chunk, wire>>
  <2>1. ~suspended /\ UNCHANGED <<srv, fences, cache, candidate, retired, bumped, snap, initSeen>>
    BY <1>1, Zenon DEF StreamInv, SuspendedInv, serverVars
  <2>2. SuspendedInv'
    BY <1>1, <2>1, NotSuspended, Zenon DEF StreamInv
  <2>3. /\ pend \in Seq(Id) /\ wreq = None /\ wpc # "publish" /\ prev' = prev
    BY <1>5, Zenon DEF StreamInv, RtcInv, PolicyInv, WorkerInv, rtcDiscarded
  <2>4. pend' \in Seq(Id)
    BY <1>5, <2>3, DiscardKeepsType, Zenon
  <2>5. RtcInv'
    BY <1>1, <1>5, <2>3, <2>4, Zenon DEF StreamInv, RtcInv, RtcPrevIsPlayed
  <2>6. PlanStamps'
    BY <1>1, <2>1, StampsKept, Zenon DEF StreamInv
  <2>7. Rests
    BY <1>1, <1>2, <1>5, <2>1, Zenon DEF Rests
  <2> QED BY <2>1, <2>2, <2>5, <2>6, <2>7, Zenon DEF StreamStep, PolicyMoves
<1> QED BY <1>3, <1>4, <1>5, Zenon DEF ReadyEventTake, rtcVars

(* The plan runs out. *)
LEMMA BoundaryMoves == ASSUME StreamInv, UNCHANGED serverVars, Boundary PROVE StreamStep
<1>1. /\ pc = "boundary" /\ next' = None /\ pc' # "reanchored"
      /\ UNCHANGED <<suspended, moved, recov, resume, request, wpc, wreq, wok>>
  BY Zenon DEF Boundary, takePrefetched, observedVars, workerVars
<1>2. resume = FALSE
  BY <1>1, CommandFacts, Zenon DEF StreamInv, PolicyInv, RowInv
<1>3. CASE next # None /\ activateChunk(next)
  BY <1>1, <1>2, <1>3, SwapMoves, Zenon
<1>4. CASE chunk' = None /\ UNCHANGED <<prev, pend, wire>>
  BY <1>1, <1>2, <1>4, QuietMoves, Zenon
<1> QED BY <1>3, <1>4, Zenon DEF Boundary, rtcVars

(* A hold that requests a plan. *)
LEMMA HoldMoves == ASSUME StreamInv, UNCHANGED serverVars, NEW h, HoldAndRequest(h) PROVE StreamStep
<1>1. /\ pc = "request" /\ pc' = "idle"
      /\ request' = request \/ request' = newRequest(h)
      /\ UNCHANGED <<chunk, suspended, moved, recov, resume, next, wpc, wreq, wok, prev, pend, wire>>
  BY Zenon DEF HoldAndRequest, observedVars, workerVars, rtcVars
<1>2. recov \in Block /\ resume = FALSE
  BY <1>1, Zenon DEF StreamInv, PolicyInv, PolicyType, PcInv, RowInv
<1>3. newRequest(h).stamp = 0
  BY <1>2, NewRequestFacts, Zenon
<1> QED BY <1>1, <1>2, <1>3, QuietMoves, Zenon

(* The end of a tick requests a plan and plays the row. *)
LEMMA KickMoves == ASSUME StreamInv, UNCHANGED serverVars, NEW h, KickAndEmit(h) PROVE StreamStep
<1> DEFINE played(p) == IF advanced /\ chunk # None THEN aged(p) ELSE p
<1>1. /\ pc = "kick" /\ pc' = "idle"
      /\ request' = played(request) \/ request' = played(newRequest(h))
      /\ next' = played(next) /\ wreq' = played(wreq) /\ chunk' = played(chunk)
      /\ UNCHANGED <<suspended, moved, recov, resume, wpc, wok, prev, pend, wire>>
  BY Zenon DEF KickAndEmit, observedVars, rtcVars
<1>2. /\ recov \in Block /\ resume = FALSE /\ chunk \in Active \cup {None}
      /\ request \in Plan \cup {None} /\ next \in Plan \cup {None} /\ wreq \in Plan \cup {None}
  BY <1>1, Zenon DEF StreamInv, PolicyInv, PolicyType, PcInv, RowInv
<1>3. ASSUME NEW p \in Plan \cup {None}
      PROVE  /\ played(p) = None <=> p = None
             /\ p # None => /\ played(p).id = p.id /\ played(p).cur = p.cur
                            /\ played(p).stamp = p.stamp
  BY <1>3, AgedPlan, Zenon
<1>4. newRequest(h) \in Plan /\ newRequest(h).stamp = 0 /\ newRequest(h) # None
  BY <1>2, NewRequestFacts, NoneAssumption, Zenon
<1>5. (played(chunk) = None <=> chunk = None) /\ (chunk # None => played(chunk).id = chunk.id)
  BY <1>2, AgedActive, Zenon
<1>6. request' # None => request'.stamp = 0 \/ (request # None /\ request'.stamp = request.stamp)
  <2>1. CASE request' = played(request)
    BY <1>2, <1>3, <2>1, Zenon
  <2>2. CASE request' = played(newRequest(h))
    BY <1>3, <1>4, <2>2, Zenon
  <2> QED BY <1>1, <2>1, <2>2, Zenon
<1>7. next' # None => next # None /\ next'.id = next.id /\ next'.stamp = next.stamp
  BY <1>1, <1>2, <1>3, Zenon
<1>8. /\ wreq' = None <=> wreq = None
      /\ wreq # None => wreq'.id = wreq.id /\ (wreq'.cur => wreq.cur) /\ wreq'.stamp = wreq.stamp
  BY <1>1, <1>2, <1>3, Zenon
<1>9. chunk' # None => chunk # None /\ chunk'.id = chunk.id
  BY <1>1, <1>5, Zenon
<1> QED BY <1>1, <1>2, <1>6, <1>7, <1>8, <1>9, QuietMoves, Zenon

(* Shutting down. *)
LEMMA CloseMoves == ASSUME StreamInv, UNCHANGED serverVars, close PROVE StreamStep
<1>1. /\ UNCHANGED <<pc, chunk, suspended, moved, recov, resume, request, next, wpc, wreq, wok, prev, pend, wire>>
      /\ UNCHANGED <<srv, fences, cache, candidate, retired, bumped, snap, initSeen>>
  BY Zenon DEF close, commandVars, observedVars, workerVars, rtcVars, serverVars
<1>2. RtcInv'
  BY <1>1, RtcQuiet, Zenon DEF StreamInv, PolicyInv
<1>3. SuspendedInv'
  BY <1>1, Zenon DEF StreamInv, SuspendedInv
<1>4. PlanStamps'
  BY <1>1, StampsKept, Zenon DEF StreamInv
<1>5. Rests
  BY <1>1, Zenon DEF Rests
<1> QED BY <1>1, <1>2, <1>3, <1>4, <1>5, Zenon DEF StreamStep, PolicyMoves

(* Every step of the command thread. *)
LEMMA CommandMoves == ASSUME StreamInv, Command PROVE StreamStep
<1>1. CASE InvalidateReanchored /\ initSeen' = FALSE
           /\ UNCHANGED <<srv, attempts, exhausted, fences, cache, candidate, retired, bumped, snap>>
  BY <1>1, InvalidateMoves, Zenon
<1>2. CASE UNCHANGED serverVars /\ (Observe(snap) \/ on_arm_init_override_start \/ on_arm_init_override_failed
           \/ (initSeen /\ ReanchorArms))
  BY <1>2, ObserveMoves, OverrideMoves, ReanchorMoves, Zenon
<1>3. CASE UNCHANGED serverVars /\ (RecoverTick \/ HoldAndRequest(held) \/ ResumeRow \/ AcquireChunk \/ BetweenRows)
  BY <1>3, RecoverMoves, HoldMoves, ResumeMoves, AcquireMoves, BetweenMoves, Zenon
<1>4. CASE UNCHANGED serverVars /\ (RowDeadline \/ ReadyEventTake \/ Boundary \/ KickAndEmit(held) \/ close)
  BY <1>4, DeadlineMoves, TakeMoves, BoundaryMoves, KickMoves, CloseMoves, Zenon
<1> QED BY <1>1, <1>2, <1>3, <1>4, Zenon DEF Command

(* The worker's steps are rests to the loop. *)
LEMMA WorkerMoves == ASSUME StreamInv, Worker PROVE StreamStep
<1>1. /\ UNCHANGED <<srv, fences, cache, candidate, retired, bumped, snap, initSeen>>
      /\ UNCHANGED <<pc, chunk, suspended, moved, recov, resume, wire>>
  BY Zenon DEF Worker, WorkerTake, WorkerExit, WorkerSample, WorkerInferred, WorkerPublish, serverVars,
         commandVars, observedVars
<1>2. RtcInv'
  BY RtcWorker, Zenon DEF StreamInv
<1>3. Rests
  BY <1>1, Zenon DEF Rests
<1>4. /\ fences \in Nat /\ wreq \in Plan \cup {None} /\ WorkerInv
  BY Zenon DEF StreamInv, LoopInv, PolicyInv, PolicyType
<1>5. ASSUME NEW p \in {next', request', wreq'} \ {None}, p \notin {next, request, wreq}
      PROVE  p.stamp <= fences /\ (p = wreq' => p.cur = wreq.cur) /\ wreq # None /\ p = wreq'
  <2>1. PICK stamp \in {fences - 1, fences} \cap Nat : WorkerSample(stamp)
    BY <1>5, Zenon DEF Worker, WorkerTake, WorkerExit, WorkerInferred, WorkerPublish, lockVars
  <2>2. wpc = "sample" /\ UNCHANGED <<next, request>>
    BY <2>1, Zenon DEF WorkerSample, lockVars
  <2>3. wreq \in Plan /\ wreq # None
    BY <1>4, <2>2, Zenon DEF WorkerInv
  <2>4. PICK delay : wreq' = [wreq EXCEPT !.stamp = stamp, !.frozen = delay]
    BY <2>1, Zenon DEF WorkerSample
  <2>5. wreq'.stamp = stamp /\ wreq'.cur = wreq.cur
    BY <2>3, <2>4, Zenon DEF Plan
  <2>6. stamp <= fences
    BY <1>4
  <2> QED BY <1>5, <2>2, <2>3, <2>5, <2>6, Zenon
<1>6. PlanStamps'
  BY <1>1, <1>5, Zenon DEF StreamInv, PlanStamps
<1>7. SuspendedInv'
  <2>1. CASE ~suspended
    <3>1. pc' # "reanchored"
      BY <1>1, <2>1, Zenon DEF StreamInv, SuspendedInv
    <3> QED BY <1>1, <2>1, <3>1, NotSuspended, Zenon DEF StreamInv
  <2>2. CASE suspended
    <3>1. chunk = None /\ next = None /\ request = None /\ ~resume /\ (wreq # None => ~wreq.cur)
      BY <2>2, Zenon DEF StreamInv, SuspendedInv
    <3>2. ~WorkerTake
      BY <3>1, Zenon DEF WorkerTake
    <3>3. next' = None /\ request' = None
      <4>1. CASE WorkerPublish
        <5>1. wreq # None
          BY <1>4, <4>1, Zenon DEF WorkerPublish, WorkerInv
        <5> QED BY <3>1, <4>1, <5>1, Zenon DEF WorkerPublish
      <4>2. CASE ~WorkerPublish
        BY <3>1, <3>2, <4>2, Zenon DEF Worker, WorkerExit, WorkerSample, WorkerInferred, lockVars
      <4> QED BY <4>1, <4>2, Zenon
    <3>4. wreq' # None => ~wreq'.cur
      BY <1>5, <3>1, Zenon
    <3> QED BY <1>1, <3>1, <3>3, <3>4, Zenon DEF StreamInv, SuspendedInv
  <2> QED BY <2>1, <2>2, Zenon
<1> QED BY <1>1, <1>2, <1>3, <1>6, <1>7, Zenon DEF StreamStep, PolicyMoves

(* Block a was published no later than block b: a recovery moves forward,  *)
(* and within one epoch the loop goes back to waiting only behind a newer  *)
(* fence.                                                                  *)
Behind(a, b) ==
    /\ a.epoch <= b.epoch
    /\ a.epoch = b.epoch =>
          /\ a.fence <= b.fence
          /\ a.state = "tracking" => b.state = "tracking"
          /\ a.state = "starting" => b.state \in {"starting", "tracking", "paused"}
          /\ a.state = "paused" /\ a.fence = b.fence => b.state = "paused"
          /\ a.state = "waiting_fresh" /\ b.state = "waiting_fresh" => a.fence = b.fence

(* A recovery has raised a fence exactly when its arms have stopped. *)
Fenced(b, n) ==
    /\ b.fence <= n
    /\ b.state = "braking" => b.fence = 0
    /\ b.state \in {"waiting_fresh", "starting"} => b.fence > 0

(* The policy has seen no later block than the snapshot shows, and the     *)
(* snapshot no later one than the loop is in.                              *)
ViewInv ==
    /\ Fenced(srv, fences) /\ Fenced(snap, fences) /\ Behind(snap, srv)
    /\ recov # None => Fenced(recov, fences) /\ Behind(recov, snap) /\ Behind(recov, srv)
    /\ resume => recov # None /\ recov.fence > 0

(* A motion_epoch that has advanced under a recovery has ended its waiting.*)
MovedInv ==
    /\ retired => srv.state = "paused"
    /\ bumped /\ snap.epoch = srv.epoch => srv.state = "tracking" \/ retired
    /\ moved /\ recov # None /\ recov.epoch = snap.epoch =>
          \/ snap.state = "tracking"
          \/ snap.state = "paused" /\ (snap.epoch = srv.epoch => retired)

(* A frame of a plan as the loop receives it. *)
Frame == [id: Id, epoch: Nat, stamp: Nat]

(* No frame is from a later epoch than the loop's, nor observed behind a   *)
(* fence it has not raised.                                                *)
StampInv ==
    \A f \in {wire, cache} \ {None} : f \in Frame /\ f.epoch <= srv.epoch /\ f.stamp <= fences

(* The policy has seen the loop's epoch and fence. *)
Following == recov # None /\ recov.epoch = srv.epoch /\ recov.fence = srv.fence

(* A frame the loop would accept is the plan the policy has published for  *)
(* this very wait.                                                         *)
FrameInv ==
    \A f \in {wire, cache} \ {None} :
       srv.state = "waiting_fresh" /\ fresh(f) =>
          suspended \/ (Following /\ recov.state = "waiting_fresh" /\ resume /\ f.id = chunk.id)

(* Once it is accepted, the policy's candidate is the loop's. *)
AcceptInv ==
    srv.state \in {"starting", "tracking"} /\ srv.fence > 0 =>
       suspended \/ /\ Following
                    /\ recov.state = "waiting_fresh" => resume
                    /\ resume => candidate = chunk.id

(* The policy and the loop together. *)
WaitInv == ViewInv /\ MovedInv /\ StampInv /\ FrameInv /\ AcceptInv

(* A block is not later than itself. *)
LEMMA BehindSelf == ASSUME NEW a \in Block PROVE Behind(a, a)
BY DEF Behind, Block

(* A snapshot between two views of one wait is a view of that wait. *)
LEMMA Sandwich ==
    ASSUME ViewInv, srv \in Block, snap \in Block, recov \in Block, Following, recov # None
    PROVE  /\ snap.epoch = srv.epoch /\ snap.fence = srv.fence
           /\ srv.state = "waiting_fresh" => snap.state = "waiting_fresh"
           /\ snap.state = "waiting_fresh" => recov.state = "waiting_fresh"
<1>1. /\ srv.epoch \in Nat /\ srv.fence \in Nat /\ snap.epoch \in Nat /\ snap.fence \in Nat
      /\ recov.epoch \in Nat /\ recov.fence \in Nat
      /\ snap.state \in States /\ recov.state \in States
  BY Zenon DEF Block
<1>2. snap.epoch = srv.epoch
  BY <1>1 DEF ViewInv, Behind, Following
<1>3. snap.fence = srv.fence
  BY <1>1, <1>2 DEF ViewInv, Behind, Following
<1>4. srv.state = "waiting_fresh" => snap.state = "waiting_fresh"
  <2>1. SUFFICES ASSUME srv.state = "waiting_fresh" PROVE snap.state = "waiting_fresh"
    BY Zenon
  <2>2. srv.fence # 0
    BY <1>1, <2>1 DEF ViewInv, Fenced
  <2>3. snap.state # "tracking" /\ snap.state # "starting" /\ snap.state # "paused"
    BY <1>2, <1>3, <2>1, Zenon DEF ViewInv, Behind
  <2>4. snap.state # "braking"
    BY <1>3, <2>2, Zenon DEF ViewInv, Fenced
  <2> QED BY <1>1, <2>3, <2>4, Zenon DEF States
<1>5. snap.state = "waiting_fresh" => recov.state = "waiting_fresh"
  <2>1. SUFFICES ASSUME snap.state = "waiting_fresh" PROVE recov.state = "waiting_fresh"
    BY Zenon
  <2>2. snap.fence # 0
    BY <1>1, <2>1 DEF ViewInv, Fenced
  <2>3. recov.epoch = snap.epoch /\ recov.fence = snap.fence
    BY <1>2, <1>3, Zenon DEF Following
  <2>4. recov.state # "tracking" /\ recov.state # "starting" /\ recov.state # "paused"
    BY <2>1, <2>3, Zenon DEF ViewInv, Behind
  <2>5. recov.state # "braking"
    BY <2>2, <2>3, Zenon DEF ViewInv, Fenced
  <2> QED BY <1>1, <2>4, <2>5, Zenon DEF States
<1> QED BY <1>2, <1>3, <1>4, <1>5, Zenon

(* A snapshot of the same wait keeps the published plan. *)
LEMMA SameWait ==
    ASSUME WaitInv, srv \in Block, snap \in Block, recov \in Block, recov # None, Following,
           snap.state = "waiting_fresh"
    PROVE  ~mustRecover(snap) /\ ~moved
<1>1. snap.epoch = srv.epoch /\ recov.epoch = snap.epoch
  BY Sandwich, Zenon DEF WaitInv, Following
<1> QED BY <1>1, Zenon DEF mustRecover, WaitInv, MovedInv

(* Seeing a snapshot: a newer wait drops the plan, the same one keeps it. *)
LEMMA SeesKeeps ==
    ASSUME StreamInv, WaitInv, Sees, UNCHANGED <<srv, fences, cache, candidate, retired, bumped, snap>>
    PROVE  WaitInv'
<1>1. /\ srv \in Block /\ snap \in Block /\ recov \in Block \cup {None} /\ snap # None
      /\ resume \in BOOLEAN
  BY BlockAssumption, Zenon DEF StreamInv, LoopInv, PolicyInv, PolicyType
<1>2. recov' = snap /\ moved' = FALSE /\ ~suspended /\ UNCHANGED <<wire, suspended>>
  BY Zenon DEF Sees
<1>3. Behind(snap, snap)
  BY <1>1, BehindSelf, Zenon
<1>4. resume' => /\ resume /\ chunk' = chunk /\ ~mustRecover(snap) /\ ~moved
  BY Zenon DEF Sees
<1>5. ViewInv'
  <2>1. resume' => snap.fence > 0
    <3>1. SUFFICES ASSUME resume' PROVE snap.fence > 0
      BY Zenon
    <3>2. recov # None /\ recov.fence > 0 /\ Behind(recov, snap) /\ snap.epoch = recov.epoch
      BY <1>4, <3>1, Zenon DEF WaitInv, ViewInv, mustRecover
    <3>3. recov \in Block
      BY <1>1, <3>2, Zenon
    <3> QED BY <1>1, <3>2, <3>3 DEF Behind, Block
  <2>2. Fenced(srv, fences) /\ Fenced(snap, fences) /\ Behind(snap, srv)
    BY Zenon DEF WaitInv, ViewInv
  <2> QED BY <1>1, <1>2, <1>3, <2>1, <2>2, Zenon DEF ViewInv
<1>6. MovedInv'
  BY <1>2, Zenon DEF WaitInv, MovedInv
<1>7. StampInv'
  BY <1>2, Zenon DEF WaitInv, StampInv
<1>8. Following => Following'
  BY <1>1, <1>2, Sandwich, Zenon DEF WaitInv, Following
<1>9. FrameInv'
  <2>1. SUFFICES ASSUME NEW f \in {wire, cache} \ {None}, srv.state = "waiting_fresh", fresh(f)
                 PROVE  Following' /\ snap.state = "waiting_fresh" /\ resume' /\ f.id = chunk'.id
    BY <1>2, Zenon DEF FrameInv, fresh
  <2>2. Following /\ recov.state = "waiting_fresh" /\ resume /\ f.id = chunk.id
    BY <1>2, <2>1, Zenon DEF WaitInv, FrameInv
  <2>3. recov \in Block /\ recov # None
    BY <1>1, <2>2, Zenon DEF Following
  <2>4. snap.state = "waiting_fresh"
    BY <1>1, <2>1, <2>2, <2>3, Sandwich, Zenon DEF WaitInv
  <2>5. ~mustRecover(snap) /\ ~moved
    BY <1>1, <2>2, <2>3, <2>4, SameWait, Zenon
  <2>6. resume' = resume /\ chunk' = chunk
    BY <2>5, Zenon DEF Sees
  <2> QED BY <1>8, <2>2, <2>4, <2>6, Zenon
<1>10. AcceptInv'
  <2>1. SUFFICES ASSUME srv.state \in {"starting", "tracking"}, srv.fence > 0
                 PROVE  /\ Following' /\ (snap.state = "waiting_fresh" => resume')
                        /\ resume' => candidate = chunk'.id
    BY <1>2, Zenon DEF AcceptInv
  <2>2. Following /\ (recov.state = "waiting_fresh" => resume) /\ (resume => candidate = chunk.id)
    BY <1>2, <2>1, Zenon DEF WaitInv, AcceptInv
  <2>3. recov \in Block /\ recov # None
    BY <1>1, <2>2, Zenon DEF Following
  <2>4. ASSUME snap.state = "waiting_fresh" PROVE resume'
    <3>1. recov.state = "waiting_fresh"
      BY <1>1, <2>2, <2>3, <2>4, Sandwich, Zenon DEF WaitInv
    <3>2. ~mustRecover(snap) /\ ~moved
      BY <1>1, <2>2, <2>3, <2>4, SameWait, Zenon
    <3> QED BY <2>2, <3>1, <3>2, ZenonT(30) DEF Sees
  <2> QED BY <1>4, <1>8, <2>2, <2>4, Zenon
<1> QED BY <1>5, <1>6, <1>7, <1>9, <1>10, Zenon DEF WaitInv

(* An override begins or ends. *)
LEMMA OverrideKeepsWait ==
    ASSUME StreamInv, WaitInv, Suspends \/ Reanchors,
           UNCHANGED <<srv, fences, cache, candidate, retired, bumped, snap>>
    PROVE  WaitInv'
<1>1. resume' = FALSE /\ UNCHANGED <<recov, moved, wire>>
  BY Zenon DEF Suspends, Reanchors
<1>2. ViewInv' /\ MovedInv' /\ StampInv'
  BY <1>1, Zenon DEF WaitInv, ViewInv, MovedInv, StampInv
<1>3. suspended' \/ (srv.state = "tracking" /\ srv.fence = 0)
  BY Zenon DEF Suspends, Reanchors, StreamInv, SuspendedInv
<1>4. FrameInv' /\ AcceptInv'
  BY <1>3 DEF FrameInv, AcceptInv
<1> QED BY <1>2, <1>4, Zenon DEF WaitInv

(* A frame leaves: of the plan published for the wait the policy has seen, *)
(* or of one it plays, which a waiting loop does not accept.               *)
LEMMA SendsKeeps ==
    ASSUME StreamInv, WaitInv, Sends, UNCHANGED <<srv, fences, cache, candidate, retired, bumped, snap>>
    PROVE  WaitInv'
<1>1. /\ srv \in Block /\ snap \in Block /\ recov \in Block /\ next \in Plan /\ recov # None
      /\ fences \in Nat
  BY Zenon DEF Sends, StreamInv, LoopInv, PolicyInv, PolicyType
<1>2. /\ ~suspended /\ UNCHANGED <<recov, moved, suspended>>
      /\ next # None /\ next.epoch = recov.epoch
  BY Zenon DEF Sends, Publishes, Plays
<1>3. PICK g : g = frameOf(next)
  BY Zenon
<1>4. /\ wire' = g /\ g \in Frame /\ g.id = next.id /\ g.epoch = recov.epoch /\ g.stamp = next.stamp
  BY <1>1, <1>2, <1>3, Zenon DEF Sends, frameOf, Frame, Plan
<1>5. g.epoch <= srv.epoch /\ g.stamp <= fences
  BY <1>1, <1>2, <1>4, ZenonT(30) DEF WaitInv, ViewInv, Behind, StreamInv, PlanStamps
<1>6. StampInv'
  BY <1>4, <1>5, Zenon DEF WaitInv, StampInv
<1>7. MovedInv'
  BY <1>2, Zenon DEF WaitInv, MovedInv
<1>8. CASE Publishes
  <2>1. recov.state = "waiting_fresh" /\ ~resume /\ resume' = TRUE /\ chunk'.id = next.id
    BY <1>8, Zenon DEF Publishes
  <2>2. ViewInv'
    BY <1>1, <1>2, <2>1, Zenon DEF WaitInv, ViewInv, Fenced
  <2>3. FrameInv'
    <3>1. SUFFICES ASSUME NEW f \in {g, cache} \ {None}, srv.state = "waiting_fresh", fresh(f)
                   PROVE  Following /\ f.id = next.id
      BY <1>2, <1>4, <2>1, Zenon DEF FrameInv, fresh, Following
    <3>2. f # cache
      BY <1>2, <2>1, <3>1, Zenon DEF WaitInv, FrameInv
    <3>3. f = g
      BY <3>1, <3>2, Zenon
    <3>4. recov.epoch = srv.epoch
      BY <1>4, <3>1, <3>3, Zenon DEF fresh
    <3>5. recov.fence = srv.fence
      BY <1>1, <2>1, <3>1, <3>4, ZenonT(30) DEF WaitInv, ViewInv, Behind
    <3> QED BY <1>1, <1>4, <3>3, <3>4, <3>5, Zenon DEF Following
  <2>4. AcceptInv'
    BY <1>2, <2>1, Zenon DEF WaitInv, AcceptInv
  <2> QED BY <1>6, <1>7, <2>2, <2>3, <2>4, Zenon DEF WaitInv
<1>9. CASE Plays
  <2>1. recov.state = "tracking" /\ resume' = FALSE
    BY <1>9, Zenon DEF Plays
  <2>2. ViewInv'
    BY <1>2, <2>1, Zenon DEF WaitInv, ViewInv
  <2>3. FrameInv'
    <3>1. SUFFICES ASSUME NEW f \in {g, cache} \ {None}, srv.state = "waiting_fresh", fresh(f)
                   PROVE  FALSE
      BY <1>2, <1>4, ZenonT(30) DEF FrameInv, fresh
    <3>2. f # cache
      BY <1>2, <2>1, <3>1, ZenonT(30) DEF WaitInv, FrameInv
    <3>3. recov.epoch = srv.epoch
      BY <1>4, <3>1, <3>2, Zenon DEF fresh
    <3> QED BY <1>1, <2>1, <3>1, <3>3, Zenon DEF WaitInv, ViewInv, Behind
  <2>4. AcceptInv'
    BY <1>2, <2>1, Zenon DEF WaitInv, AcceptInv, Following
  <2> QED BY <1>6, <1>7, <2>2, <2>3, <2>4, Zenon DEF WaitInv
<1> QED BY <1>8, <1>9, Zenon DEF Sends

(* A step the loop does not notice. *)
LEMMA RestsKeeps ==
    ASSUME StreamInv, WaitInv, Rests, UNCHANGED <<srv, fences, cache, candidate, retired, bumped, snap>>
    PROVE  WaitInv'
<1>1. /\ UNCHANGED <<recov, moved, wire, suspended>>
      /\ resume' => resume /\ chunk'.id = chunk.id
      /\ recov # None /\ recov.state = "waiting_fresh" => resume' = resume
      /\ resume \in BOOLEAN
  BY Zenon DEF Rests, StreamInv, PolicyInv, PolicyType
<1>2. ViewInv' /\ MovedInv' /\ StampInv'
  BY <1>1, ZenonT(30) DEF WaitInv, ViewInv, MovedInv, StampInv
<1>3. Following' <=> Following
  BY <1>1, Zenon DEF Following
<1>4. FrameInv'
  <2>1. SUFFICES ASSUME NEW f \in {wire, cache} \ {None}, srv.state = "waiting_fresh", fresh(f), ~suspended
                 PROVE  Following /\ recov.state = "waiting_fresh" /\ resume' /\ f.id = chunk'.id
    BY <1>1, <1>3, Zenon DEF FrameInv, fresh
  <2>2. Following /\ recov.state = "waiting_fresh" /\ resume /\ f.id = chunk.id
    BY <2>1, Zenon DEF WaitInv, FrameInv
  <2> QED BY <1>1, <2>2, Zenon DEF Following
<1>5. AcceptInv'
  <2>1. SUFFICES ASSUME srv.state \in {"starting", "tracking"}, srv.fence > 0, ~suspended
                 PROVE  /\ Following /\ (recov.state = "waiting_fresh" => resume')
                        /\ resume' => candidate = chunk'.id
    BY <1>1, <1>3, Zenon DEF AcceptInv
  <2>2. Following /\ (recov.state = "waiting_fresh" => resume) /\ (resume => candidate = chunk.id)
    BY <2>1, Zenon DEF WaitInv, AcceptInv
  <2> QED BY <1>1, <2>2, Zenon DEF Following
<1> QED BY <1>2, <1>4, <1>5, Zenon DEF WaitInv

(* Every step of the policy keeps what relates it to the loop. *)
LEMMA PolicyKeepsWait == ASSUME StreamInv, WaitInv, PolicyMoves PROVE WaitInv'
BY SeesKeeps, OverrideKeepsWait, SendsKeeps, RestsKeeps, Zenon DEF PolicyMoves

(* What only the policy writes. *)
streamSide == <<pc, chunk, suspended, recov, resume, request, next, wpc, wreq, wok, prev, pend>>

(* The loop's steps leave the stream alone. *)
LEMMA ServerQuiet == ASSUME Server PROVE UNCHANGED streamSide
BY Zenon DEF Server, SrvBrake, SrvStopped, SrvFreshTimeout, SrvBudgetReset, SrvReceive, SrvExamine, SrvEngaged,
       SrvInitMotion, SrvPublish, SrvFreedrive, raiseFence, streamVars, commandVars, observedVars, lockVars,
       workerVars, rtcVars, streamSide

(* They keep the policy's side of the invariant. *)
LEMMA ServerKeepsStream ==
    ASSUME StreamInv, Server
    PROVE  RtcInv' /\ SuspendedInv' /\ PlanStamps'
<1>1. UNCHANGED <<pc, chunk, suspended, recov, resume, request, next, wpc, wreq, wok, prev, pend>>
  BY ServerQuiet, Zenon DEF streamSide
<1>2. RtcInv'
  BY <1>1, RtcQuiet, Zenon DEF StreamInv, PolicyInv
<1>3. fences \in Nat /\ fences' \in {fences, fences + 1}
  BY Zenon DEF StreamInv, LoopInv, Server, SrvBrake, SrvStopped, SrvFreshTimeout, SrvBudgetReset, SrvReceive,
         SrvExamine, SrvEngaged, SrvInitMotion, SrvPublish, SrvFreedrive, raiseFence
<1>4. PlanStamps'
  <2>1. ASSUME NEW p \in {next, request, wreq} \ {None} PROVE p.stamp <= fences'
    <3>1. p \in Plan /\ p.stamp <= fences
      BY Zenon DEF StreamInv, PolicyInv, PolicyType, PlanStamps
    <3>2. p.stamp \in Nat
      BY <3>1, Zenon DEF Plan
    <3> QED BY <1>3, <3>1, <3>2
  <2> QED BY <1>1, <2>1, Zenon DEF PlanStamps
<1>5. initSeen' => suspended /\ srv'.state = "tracking" /\ srv'.fence = 0
  <2>1. CASE SrvInitMotion
    BY <2>1, Zenon DEF SrvInitMotion
  <2>2. CASE UNCHANGED <<srv, initSeen>>
    BY <2>2, Zenon DEF StreamInv, SuspendedInv
  <2>3. CASE SrvBrake \/ SrvStopped \/ SrvFreshTimeout \/ SrvBudgetReset \/ SrvExamine \/ SrvEngaged
    BY <2>3, Zenon DEF StreamInv, SuspendedInv, SrvBrake, SrvStopped, SrvFreshTimeout, SrvBudgetReset, SrvExamine,
                SrvEngaged
  <2>4. CASE SrvFreedrive
    BY <2>4, Zenon DEF StreamInv, SuspendedInv, SrvFreedrive
  <2> QED BY <2>1, <2>2, <2>3, <2>4, Zenon DEF Server, SrvReceive, SrvPublish
<1>6. pc = "reanchored" => initSeen'
  BY Zenon DEF StreamInv, SuspendedInv, Server, SrvBrake, SrvStopped, SrvFreshTimeout, SrvBudgetReset, SrvReceive,
         SrvExamine, SrvEngaged, SrvInitMotion, SrvPublish, SrvFreedrive
<1>7. SuspendedInv'
  BY <1>1, <1>5, <1>6, Zenon DEF StreamInv, SuspendedInv
<1> QED BY <1>2, <1>4, <1>7, Zenon

(* Views of the loop as it moves on. *)
NewEpoch == /\ srv'.epoch = srv.epoch + 1 /\ srv'.fence = 0 /\ srv'.state \in {"braking", "tracking"}
            /\ fences' = fences
NewFence == /\ srv'.epoch = srv.epoch /\ srv'.fence = fences + 1 /\ fences' = fences + 1
            /\ srv'.state \in {"waiting_fresh", "paused"} /\ srv.state \in {"braking", "paused"}
SameFence == /\ srv'.epoch = srv.epoch /\ srv'.fence = srv.fence /\ fences' = fences
             /\ \/ srv'.state = srv.state
                \/ srv.state # "tracking" /\ srv'.state = "paused"
                \/ srv.state = "waiting_fresh" /\ srv'.state = "starting"
                \/ srv.state = "starting" /\ srv'.state = "tracking"

(* What was seen before stays behind. *)
LEMMA StaysBehind ==
    ASSUME srv \in Block, srv' \in Block, fences \in Nat, Fenced(srv, fences),
           NEW x \in Block, Fenced(x, fences), Behind(x, srv),
           NewEpoch \/ NewFence \/ SameFence,
           NewFence /\ srv.state = "paused" /\ x.epoch = srv.epoch => x.state = "paused"
    PROVE  Behind(x, srv') /\ Fenced(x, fences')
<1>1. /\ srv.epoch \in Nat /\ srv.fence \in Nat /\ x.epoch \in Nat /\ x.fence \in Nat
      /\ srv.state \in States /\ x.state \in States
  BY Zenon DEF Block
<1>2. CASE NewEpoch
  BY <1>1, <1>2 DEF NewEpoch, Behind, Fenced
<1>3. CASE NewFence
  <2>1. Fenced(x, fences')
    BY <1>1, <1>3 DEF NewFence, Fenced
  <2>2. CASE x.epoch = srv.epoch
    <3>1. x.fence < srv'.fence
      BY <1>1, <1>3 DEF NewFence, Fenced
    <3>2. x.state \in {"braking", "paused"}
      <4>1. CASE srv.state = "paused"
        BY <1>3, <2>2, <4>1, Zenon
      <4>2. CASE srv.state = "braking"
        <5>1. x.fence = 0
          BY <1>1, <2>2, <4>2 DEF Behind, Fenced
        <5>2. x.state # "tracking" /\ x.state # "starting" /\ x.state # "waiting_fresh"
          BY <1>1, <2>2, <4>2, <5>1 DEF Behind, Fenced
        <5> QED BY <1>1, <5>2, Zenon DEF States
      <4> QED BY <1>3, <4>1, <4>2, Zenon DEF NewFence
    <3>3. srv'.epoch = srv.epoch
      BY <1>3, Zenon DEF NewFence
    <3>4. x.fence <= srv'.fence /\ x.fence # srv'.fence
      BY <1>1, <1>3, <3>1, SMTT(30) DEF NewFence
    <3> QED BY <1>1, <2>1, <2>2, <3>2, <3>3, <3>4, Zenon DEF Behind
  <2>3. CASE x.epoch # srv.epoch
    BY <1>1, <1>3, <2>1, <2>3, Zenon DEF NewFence, Behind
  <2> QED BY <2>2, <2>3, Zenon
<1>4. CASE SameFence
  <2>1. Fenced(x, fences')
    BY <1>4, Zenon DEF SameFence, Fenced
  <2>2. CASE x.epoch = srv.epoch
    <3>1. srv'.epoch = srv.epoch /\ srv'.fence = srv.fence
      BY <1>4, Zenon DEF SameFence
    <3>2. /\ x.state = "tracking" => srv'.state = "tracking"
          /\ x.state = "starting" => srv'.state \in {"starting", "tracking", "paused"}
          /\ x.state = "paused" /\ x.fence = srv.fence => srv'.state = "paused"
          /\ x.state = "waiting_fresh" /\ srv'.state = "waiting_fresh" => x.fence = srv.fence
      BY <1>4, <2>2, Zenon DEF SameFence, Behind
    <3> QED BY <2>1, <2>2, <3>1, <3>2, Zenon DEF Behind
  <2>3. CASE x.epoch # srv.epoch
    BY <1>4, <2>1, <2>3, Zenon DEF SameFence, Behind
  <2> QED BY <2>2, <2>3, Zenon
<1> QED BY <1>2, <1>3, <1>4, Zenon

(* A step of the loop that publishes nothing. *)
LEMMA ViewKept ==
    ASSUME StreamInv, ViewInv, srv' \in Block, UNCHANGED <<snap, recov, resume>>,
           NewEpoch \/ NewFence \/ SameFence,
           NewFence /\ srv.state = "paused" => recov = srv
    PROVE  ViewInv'
<1>1. /\ srv \in Block /\ snap \in Block /\ fences \in Nat /\ recov \in Block \cup {None}
  BY Zenon DEF StreamInv, LoopInv, PolicyInv, PolicyType
<1>2. /\ srv.epoch \in Nat /\ srv.fence \in Nat /\ snap.epoch \in Nat /\ snap.fence \in Nat
  BY <1>1, Zenon DEF Block
<1>3. Fenced(srv', fences')
  BY <1>1, <1>2 DEF ViewInv, Fenced, NewEpoch, NewFence, SameFence
<1>4. NewFence /\ srv.state = "paused" /\ snap.epoch = srv.epoch => snap.state = "paused"
  <2>1. SUFFICES ASSUME recov = srv, srv.state = "paused", snap.epoch = srv.epoch PROVE snap.state = "paused"
    BY Zenon
  <2>2. recov # None /\ Behind(srv, snap) /\ Behind(snap, srv)
    BY <1>1, <2>1, BlockAssumption, Zenon DEF ViewInv
  <2>3. srv.fence = snap.fence
    BY <1>2, <2>1, <2>2 DEF Behind
  <2> QED BY <2>1, <2>2, <2>3, Zenon DEF Behind
<1>5. Behind(snap, srv') /\ Fenced(snap, fences')
  BY <1>1, <1>4, StaysBehind, Zenon DEF ViewInv
<1>6. recov # None => Behind(recov, srv') /\ Fenced(recov, fences')
  <2>1. SUFFICES ASSUME recov # None PROVE Behind(recov, srv') /\ Fenced(recov, fences')
    BY Zenon
  <2>2. recov \in Block /\ Fenced(recov, fences) /\ Behind(recov, srv) /\ Fenced(srv, fences)
    BY <1>1, <2>1, Zenon DEF ViewInv
  <2>3. NewFence /\ srv.state = "paused" /\ recov.epoch = srv.epoch => recov.state = "paused"
    BY Zenon
  <2> QED BY <1>1, <2>2, <2>3, StaysBehind, Zenon
<1> QED BY <1>3, <1>5, <1>6, Zenon DEF ViewInv

(* The types the loop's steps need. *)
LEMMA LoopFacts ==
    ASSUME StreamInv, Server
    PROVE  /\ srv \in Block /\ srv' \in Block /\ snap \in Block /\ fences \in Nat
           /\ srv.epoch \in Nat /\ srv.fence \in Nat /\ snap.epoch \in Nat /\ fences + 1 \in Nat
           /\ UNCHANGED <<chunk, suspended, recov, resume>>
<1>1. LoopInv /\ LoopInv'
  BY ServerKeeps, Zenon DEF StreamInv
<1>2. UNCHANGED <<chunk, suspended, recov, resume>>
  BY ServerQuiet, Zenon DEF streamSide
<1> QED BY <1>1, <1>2 DEF LoopInv, Block

(* What the state of a block updated in part is. *)
LEMMA BlockUpdate ==
    ASSUME NEW b \in Block, NEW s, NEW f
    PROVE  /\ [b EXCEPT !.state = s].state = s /\ [b EXCEPT !.state = s].epoch = b.epoch
           /\ [b EXCEPT !.state = s].fence = b.fence
           /\ [b EXCEPT !.state = s, !.fence = f].state = s
           /\ [b EXCEPT !.state = s, !.fence = f].epoch = b.epoch
           /\ [b EXCEPT !.state = s, !.fence = f].fence = f
BY Zenon DEF Block

(* A recovery begins, or an init motion ends one. *)
LEMMA NewEpochKeeps ==
    ASSUME StreamInv, WaitInv, SrvBrake \/ SrvInitMotion
    PROVE  WaitInv'
<1>0. Server
  BY Zenon DEF Server
<1>1. /\ srv \in Block /\ srv' \in Block /\ snap \in Block /\ srv.epoch \in Nat /\ snap.epoch \in Nat
      /\ fences \in Nat /\ UNCHANGED <<chunk, suspended, recov, resume>>
  BY <1>0, LoopFacts, Zenon
<1>2. /\ NewEpoch /\ srv'.epoch = srv.epoch + 1 /\ cache' \in {cache, None}
      /\ UNCHANGED <<fences, wire, moved, snap, bumped>>
      /\ retired' => retired /\ srv.state \in {"tracking", "starting"}
  BY DEF SrvBrake, SrvInitMotion, NewEpoch, observedVars, streamVars
<1>3. ViewInv'
  BY <1>1, <1>2, ViewKept, Zenon DEF WaitInv, NewEpoch, NewFence
<1>4. snap.epoch # srv'.epoch /\ ~retired'
  BY <1>1, <1>2 DEF WaitInv, ViewInv, Behind, MovedInv
<1>5. MovedInv'
  BY <1>1, <1>2, <1>4, Zenon DEF WaitInv, MovedInv
<1>6. StampInv'
  <2>1. ASSUME NEW f \in {wire, cache} \ {None} PROVE f \in Frame /\ f.epoch <= srv'.epoch /\ f.stamp <= fences
    <3>1. f \in Frame /\ f.epoch <= srv.epoch /\ f.stamp <= fences
      BY Zenon DEF WaitInv, StampInv
    <3>2. f.epoch \in Nat
      BY <3>1, Zenon DEF Frame
    <3> QED BY <1>1, <1>2, <3>1, <3>2
  <2> QED BY <1>2, <2>1, Zenon DEF StampInv
<1>7. srv'.state \notin {"waiting_fresh", "starting"} /\ srv'.fence = 0
  BY <1>2, Zenon DEF NewEpoch
<1>8. FrameInv'
  BY <1>7, Zenon DEF FrameInv
<1>9. AcceptInv'
  BY <1>7 DEF AcceptInv
<1> QED BY <1>3, <1>5, <1>6, <1>8, <1>9, Zenon DEF WaitInv

(* The loop raises a fence: every frame under way is from before it. *)
LEMMA NewFenceKeeps ==
    ASSUME StreamInv, WaitInv, SrvStopped \/ SrvBudgetReset
    PROVE  WaitInv'
<1>0. Server
  BY Zenon DEF Server
<1>1. /\ srv \in Block /\ srv' \in Block /\ snap \in Block /\ srv.epoch \in Nat /\ snap.epoch \in Nat
      /\ fences \in Nat /\ UNCHANGED <<chunk, suspended, recov, resume>>
  BY <1>0, LoopFacts, Zenon
<1>2. /\ srv.state = "braking" \/ (srv.state = "paused" /\ ~retired /\ recov = srv)
      /\ UNCHANGED <<cache, wire, moved, snap, bumped, retired>>
  BY Zenon DEF SrvStopped, SrvBudgetReset, observedVars, streamVars
<1>3. PICK s \in {"waiting_fresh", "paused"} : raiseFence(s)
  BY Zenon DEF SrvStopped, SrvBudgetReset
<1>4. fences' = fences + 1 /\ srv' = [srv EXCEPT !.state = s, !.fence = fences + 1]
  BY <1>3, Zenon DEF raiseFence
<1>5. srv'.epoch = srv.epoch /\ srv'.state = s /\ srv'.fence = fences + 1
  BY <1>1, <1>4, BlockUpdate
<1>6. NewFence
  BY <1>2, <1>4, <1>5, Zenon DEF NewFence
<1>7. ViewInv'
  BY <1>1, <1>2, <1>6, ViewKept, Zenon DEF WaitInv
<1>8. ~retired /\ ~(bumped /\ snap.epoch = srv.epoch)
  BY <1>2, Zenon DEF WaitInv, MovedInv
<1>9. MovedInv'
  BY <1>1, <1>2, <1>5, <1>8, Zenon DEF WaitInv, MovedInv
<1>10. ASSUME NEW f \in {wire, cache} \ {None}
       PROVE  f \in Frame /\ f.epoch <= srv'.epoch /\ f.stamp <= fences' /\ ~(f.stamp >= srv'.fence)
  <2>1. f \in Frame /\ f.epoch <= srv.epoch /\ f.stamp <= fences
    BY Zenon DEF WaitInv, StampInv
  <2>2. f.stamp \in Nat
    BY <2>1, Zenon DEF Frame
  <2> QED BY <1>1, <1>4, <1>5, <2>1, <2>2
<1>11. StampInv' /\ FrameInv'
  BY <1>2, <1>10, Zenon DEF StampInv, FrameInv, fresh
<1>12. AcceptInv'
  BY <1>5, Zenon DEF AcceptInv
<1> QED BY <1>7, <1>9, <1>11, <1>12, Zenon DEF WaitInv

(* The loop stops waiting, or starts tracking what it has accepted. *)
LEMMA LeavesWaitKeeps ==
    ASSUME StreamInv, WaitInv, SrvFreshTimeout \/ SrvEngaged
    PROVE  WaitInv'
<1>0. Server
  BY Zenon DEF Server
<1>1. /\ srv \in Block /\ srv' \in Block /\ snap \in Block /\ srv.epoch \in Nat /\ snap.epoch \in Nat
      /\ fences \in Nat /\ UNCHANGED <<chunk, suspended, recov, resume>>
  BY <1>0, LoopFacts, Zenon
<1>2. UNCHANGED <<cache, wire, moved, snap, bumped, retired, fences, candidate>>
  BY Zenon DEF SrvFreshTimeout, SrvEngaged, observedVars, streamVars
<1>3. PICK s : /\ srv' = [srv EXCEPT !.state = s]
               /\ \/ srv.state = "waiting_fresh" /\ s = "paused"
                  \/ srv.state = "starting" /\ s = "tracking"
  BY Zenon DEF SrvFreshTimeout, SrvEngaged
<1>4. srv'.epoch = srv.epoch /\ srv'.state = s /\ srv'.fence = srv.fence
  BY <1>1, <1>3, BlockUpdate
<1>5. SameFence
  BY <1>2, <1>3, <1>4, Zenon DEF SameFence
<1>6. ViewInv'
  <2>1. ~NewFence
    BY <1>1, <1>2 DEF NewFence
  <2> QED BY <1>1, <1>2, <1>5, <2>1, ViewKept, Zenon DEF WaitInv
<1>7. MovedInv'
  <2>1. ~retired /\ ~(bumped /\ snap.epoch = srv.epoch)
    BY <1>3, Zenon DEF WaitInv, MovedInv
  <2> QED BY <1>1, <1>2, <1>4, <2>1, Zenon DEF WaitInv, MovedInv
<1>8. StampInv'
  BY <1>2, <1>4, Zenon DEF WaitInv, StampInv
<1>9. FrameInv'
  BY <1>3, <1>4, Zenon DEF FrameInv
<1>10. AcceptInv'
  BY <1>1, <1>2, <1>3, <1>4, Zenon DEF WaitInv, AcceptInv, Following
<1> QED BY <1>6, <1>7, <1>8, <1>9, <1>10, Zenon DEF WaitInv

(* The loop accepts the plan the policy has published for this wait. *)
LEMMA ExamineKeeps ==
    ASSUME StreamInv, WaitInv, SrvExamine
    PROVE  WaitInv'
<1>0. Server
  BY Zenon DEF Server
<1>1. /\ srv \in Block /\ srv' \in Block /\ snap \in Block /\ srv.epoch \in Nat /\ snap.epoch \in Nat
      /\ fences \in Nat /\ UNCHANGED <<chunk, suspended, recov, resume>>
  BY <1>0, LoopFacts, Zenon
<1>2. /\ srv.state = "waiting_fresh" /\ ~suspended /\ cache # None /\ cache' = None
      /\ UNCHANGED <<wire, moved, snap, bumped, retired, fences>>
  BY Zenon DEF SrvExamine, observedVars, streamVars
<1>3. CASE fresh(cache)
  <2>1. srv' = [srv EXCEPT !.state = "starting"] /\ candidate' = cache.id
    BY <1>3, Zenon DEF SrvExamine
  <2>2. srv'.epoch = srv.epoch /\ srv'.state = "starting" /\ srv'.fence = srv.fence
    BY <1>1, <2>1, BlockUpdate
  <2>3. SameFence /\ ~NewFence
    BY <1>1, <1>2, <2>2, Zenon DEF SameFence, NewFence
  <2>4. ViewInv'
    BY <1>1, <1>2, <2>3, ViewKept, Zenon DEF WaitInv
  <2>5. ~retired /\ ~(bumped /\ snap.epoch = srv.epoch)
    BY <1>2, Zenon DEF WaitInv, MovedInv
  <2>6. MovedInv'
    BY <1>1, <1>2, <2>2, <2>5, Zenon DEF WaitInv, MovedInv
  <2>7. StampInv' /\ FrameInv'
    BY <1>2, <2>2, ZenonT(30) DEF WaitInv, StampInv, FrameInv
  <2>8. Following /\ recov.state = "waiting_fresh" /\ resume /\ cache.id = chunk.id
    BY <1>2, <1>3, Zenon DEF WaitInv, FrameInv
  <2>9. AcceptInv'
    BY <1>1, <2>1, <2>2, <2>8, Zenon DEF AcceptInv, Following
  <2> QED BY <2>4, <2>6, <2>7, <2>9, Zenon DEF WaitInv
<1>4. CASE ~fresh(cache)
  <2>1. UNCHANGED <<srv, candidate>>
    BY <1>4, Zenon DEF SrvExamine
  <2>2. ViewInv' /\ MovedInv' /\ StampInv'
    BY <1>1, <1>2, <2>1, Zenon DEF WaitInv, ViewInv, MovedInv, StampInv
  <2>3. FrameInv' /\ AcceptInv'
    BY <1>1, <1>2, <2>1, Zenon DEF WaitInv, FrameInv, AcceptInv, Following, fresh
  <2> QED BY <2>2, <2>3, Zenon DEF WaitInv
<1> QED BY <1>3, <1>4, Zenon

(* A frame arrives, or is lost. *)
LEMMA ReceiveKeeps ==
    ASSUME StreamInv, WaitInv, SrvReceive
    PROVE  WaitInv'
<1>1. /\ {wire', cache'} \ {None} \subseteq {wire, cache} \ {None}
      /\ UNCHANGED <<chunk, suspended, recov, resume, moved, srv, fences, candidate, retired, bumped, snap>>
  BY Zenon DEF SrvReceive, commandVars, observedVars
<1>2. ViewInv' /\ MovedInv'
  BY <1>1, Zenon DEF WaitInv, ViewInv, MovedInv
<1>3. StampInv'
  BY <1>1, Zenon DEF WaitInv, StampInv
<1>4. FrameInv'
  BY <1>1, ZenonT(30) DEF WaitInv, FrameInv, Following, fresh
<1>5. AcceptInv'
  BY <1>1, Zenon DEF WaitInv, AcceptInv, Following
<1> QED BY <1>2, <1>3, <1>4, <1>5, Zenon DEF WaitInv

(* Free-drive pauses a recovery and retires its executors. *)
LEMMA FreedriveKeeps ==
    ASSUME StreamInv, WaitInv, SrvFreedrive
    PROVE  WaitInv'
<1>0. Server
  BY Zenon DEF Server
<1>1. /\ srv \in Block /\ srv' \in Block /\ snap \in Block /\ srv.epoch \in Nat /\ snap.epoch \in Nat
      /\ fences \in Nat /\ UNCHANGED <<chunk, suspended, recov, resume>>
  BY <1>0, LoopFacts, Zenon
<1>2. UNCHANGED <<cache, wire, moved, snap, fences, candidate>>
  BY Zenon DEF SrvFreedrive, observedVars
<1>3. CASE srv.state = "tracking" /\ UNCHANGED <<srv, retired>>
  <2>1. ViewInv' /\ StampInv'
    BY <1>1, <1>2, <1>3, Zenon DEF WaitInv, ViewInv, StampInv
  <2>2. MovedInv'
    BY <1>1, <1>2, <1>3, Zenon DEF WaitInv, MovedInv
  <2>3. FrameInv' /\ AcceptInv'
    BY <1>1, <1>2, <1>3, Zenon DEF WaitInv, FrameInv, AcceptInv, Following
  <2> QED BY <2>1, <2>2, <2>3, Zenon DEF WaitInv
<1>4. CASE srv.state # "tracking" /\ srv' = [srv EXCEPT !.state = "paused"] /\ retired' = TRUE
  <2>1. srv'.epoch = srv.epoch /\ srv'.state = "paused" /\ srv'.fence = srv.fence
    BY <1>1, <1>4, BlockUpdate
  <2>2. SameFence /\ ~NewFence
    BY <1>1, <1>2, <1>4, <2>1 DEF SameFence, NewFence
  <2>3. ViewInv'
    BY <1>1, <1>2, <2>2, ViewKept, Zenon DEF WaitInv
  <2>4. MovedInv'
    BY <1>1, <1>2, <1>4, <2>1, Zenon DEF WaitInv, MovedInv
  <2>5. StampInv'
    BY <1>2, <2>1, Zenon DEF WaitInv, StampInv
  <2>6. FrameInv' /\ AcceptInv'
    BY <2>1, Zenon DEF FrameInv, AcceptInv
  <2> QED BY <2>3, <2>4, <2>5, <2>6, Zenon DEF WaitInv
<1> QED BY <1>3, <1>4, ZenonT(30) DEF SrvFreedrive

(* A snapshot. *)
LEMMA PublishKeeps ==
    ASSUME StreamInv, WaitInv, SrvPublish
    PROVE  WaitInv'
<1>1. /\ snap' = srv /\ moved' = (moved \/ bumped) /\ bumped' = FALSE
      /\ UNCHANGED <<chunk, suspended, recov, resume, wire, cache, srv, fences, candidate, retired>>
  BY Zenon DEF SrvPublish, commandVars
<1>2. /\ srv \in Block /\ snap \in Block /\ recov \in Block \cup {None}
  BY Zenon DEF StreamInv, LoopInv, PolicyInv, PolicyType
<1>3. Behind(srv, srv)
  BY <1>2, BehindSelf, Zenon
<1>4. ViewInv'
  BY <1>1, <1>3, Zenon DEF WaitInv, ViewInv
<1>5. StampInv' /\ FrameInv' /\ AcceptInv'
  BY <1>1, Zenon DEF WaitInv, StampInv, FrameInv, AcceptInv, Following, fresh
<1>6. MovedInv'
  <2>1. SUFFICES ASSUME moved \/ bumped, recov # None, recov.epoch = srv.epoch
                 PROVE  srv.state = "tracking" \/ (srv.state = "paused" /\ retired)
    BY <1>1, Zenon DEF MovedInv, WaitInv
  <2>2. recov \in Block /\ Behind(recov, snap) /\ Behind(snap, srv)
    BY <1>2, <2>1, Zenon DEF WaitInv, ViewInv
  <2>3. recov.epoch = snap.epoch /\ snap.epoch = srv.epoch
    BY <1>2, <2>1, <2>2, SMTT(30) DEF Behind, Block
  <2>4. CASE bumped
    BY <2>3, <2>4, Zenon DEF WaitInv, MovedInv
  <2>5. CASE moved
    <3>1. snap.state = "tracking" \/ retired
      BY <2>1, <2>3, <2>5, Zenon DEF WaitInv, MovedInv
    <3>2. snap.state = "tracking" => srv.state = "tracking"
      BY <2>2, <2>3, Zenon DEF Behind
    <3> QED BY <3>1, <3>2, Zenon DEF WaitInv, MovedInv
  <2> QED BY <2>1, <2>4, <2>5, Zenon
<1> QED BY <1>4, <1>5, <1>6, Zenon DEF WaitInv

(* Every step of the loop keeps what relates it to the policy. *)
LEMMA ServerKeepsWait == ASSUME StreamInv, WaitInv, Server PROVE WaitInv'
BY NewEpochKeeps, NewFenceKeeps, LeavesWaitKeeps, ExamineKeeps, ReceiveKeeps, FreedriveKeeps, PublishKeeps, Zenon
   DEF Server

(* The inductive invariant of the composition. *)
FullInv == StreamInv /\ WaitInv

(* It holds at the start, *)
LEMMA FullInvInit == Init => FullInv
<1> SUFFICES ASSUME Init PROVE FullInv
  BY Zenon
<1>1. PolicyInv /\ LoopInv
  BY InvInit, Zenon DEF Inv
<1>2. /\ srv = [state |-> "tracking", epoch |-> 0, fence |-> 0] /\ snap = srv /\ fences = 0
      /\ cache = None /\ initSeen = FALSE /\ retired = FALSE /\ bumped = FALSE
      /\ pc = "idle" /\ suspended = FALSE /\ chunk = None /\ recov = None /\ moved = FALSE /\ resume = FALSE
      /\ request = None /\ next = None /\ wpc = "wait" /\ wreq = None /\ wok = FALSE
      /\ prev = None /\ pend = <<>> /\ wire = None
  BY Zenon DEF Init, StreamInit
<1>3. RtcInv
  <2>1. pend \in Seq(Id)
    BY <1>2
  <2> QED BY <1>2, <2>1, ZenonT(30) DEF RtcInv, RtcPrevIsPlayed
<1>4. SuspendedInv /\ PlanStamps
  BY <1>2, Zenon DEF SuspendedInv, PlanStamps
<1>5. Behind(srv, snap) /\ srv.state = "tracking" /\ srv.fence = 0
  BY <1>1, <1>2, BehindSelf, Zenon DEF LoopInv
<1>6. ViewInv
  BY <1>2, <1>5, SMTT(30) DEF ViewInv, Fenced
<1>7. MovedInv /\ StampInv /\ FrameInv /\ AcceptInv
  BY <1>2, <1>5 DEF MovedInv, StampInv, FrameInv, AcceptInv
<1> QED BY <1>1, <1>3, <1>4, <1>6, <1>7, Zenon DEF FullInv, StreamInv, WaitInv

(* and every step keeps it. *)
LEMMA FullInvNext == FullInv /\ [Next]_vars => FullInv'
<1> SUFFICES ASSUME FullInv, [Next]_vars PROVE FullInv'
  BY Zenon
<1>1. StreamInv /\ WaitInv
  BY Zenon DEF FullInv
<1>2. PolicyInv' /\ LoopInv'
  BY <1>1, InvNext, Zenon DEF Inv, StreamInv
<1>3. CASE Command \/ Worker
  <2>1. StreamStep
    BY <1>1, <1>3, CommandMoves, WorkerMoves, Zenon
  <2>2. WaitInv'
    BY <1>1, <2>1, PolicyKeepsWait, Zenon DEF StreamStep
  <2> QED BY <1>2, <2>1, <2>2, Zenon DEF StreamStep, FullInv, StreamInv
<1>4. CASE Server
  <2>1. RtcInv' /\ SuspendedInv' /\ PlanStamps'
    BY <1>1, <1>4, ServerKeepsStream, Zenon
  <2>2. WaitInv'
    BY <1>1, <1>4, ServerKeepsWait, Zenon
  <2> QED BY <1>2, <2>1, <2>2, Zenon DEF FullInv, StreamInv
<1>5. CASE UNCHANGED vars
  <2>1. /\ UNCHANGED <<pc, chunk, suspended, moved, recov, resume, request, next, wpc, wreq, wok, prev, pend, wire>>
        /\ UNCHANGED <<srv, fences, cache, candidate, initSeen, retired, bumped, snap>>
    BY <1>5, Zenon DEF vars, streamVars, serverVars, commandVars, observedVars, lockVars, workerVars, rtcVars
  <2>2. RtcInv'
    BY <1>1, <2>1, RtcQuiet, Zenon DEF StreamInv, PolicyInv
  <2>3. SuspendedInv' /\ PlanStamps'
    BY <1>1, <2>1, Zenon DEF StreamInv, SuspendedInv, PlanStamps
  <2>4. PolicyMoves
    BY <2>1, Zenon DEF PolicyMoves, Rests
  <2>5. WaitInv'
    BY <1>1, <2>4, PolicyKeepsWait, Zenon
  <2> QED BY <1>2, <2>2, <2>3, <2>5, Zenon DEF FullInv, StreamInv
<1> QED BY <1>3, <1>4, <1>5, Zenon DEF Next

(* It holds throughout. *)
LEMMA FullInvAlways == Spec => []FullInv
BY FullInvInit, FullInvNext, PTL DEF Spec

(* The previous plan the next inference is frozen to is the one being      *)
(* played: whichever results are stashed, promoted, discarded or outdated  *)
(* meanwhile, rtcActivated promotes the very plan that is activated.       *)
THEOREM RtcContinuesThePlayedPlan == Spec => []RtcPrevIsPlayed
<1>1. FullInv => RtcPrevIsPlayed
  BY Zenon DEF FullInv, StreamInv, RtcInv
<1> QED BY <1>1, FullInvAlways, PTL

(* After a recovery the policy resumes the plan the loop has restarted its *)
(* executors from: whatever frames are lost and however late snapshots are *)
(* seen, a plan accepted behind the fence is the one published for it.     *)
THEOREM RecoveryResumesTheAcceptedPlan == Spec => []ResumesAcceptedPlan
<1>1. FullInv => ResumesAcceptedPlan
  <2> SUFFICES ASSUME FullInv, pc = "tick", resume, recov.epoch = srv.epoch
               PROVE  candidate = chunk.id
    BY Zenon DEF ResumesAcceptedPlan
  <2>1. recov # None /\ recov.state = "tracking" /\ recov.fence > 0 /\ ~suspended
    BY Zenon DEF FullInv, StreamInv, PolicyInv, PcInv, SuspendedInv, WaitInv, ViewInv
  <2>2. srv.state = "tracking" /\ recov.fence <= srv.fence
    BY <2>1, Zenon DEF FullInv, WaitInv, ViewInv, Behind
  <2>3. srv.fence > 0
    <3>1. recov \in Block /\ srv \in Block
      BY <2>1, Zenon DEF FullInv, StreamInv, LoopInv, PolicyInv, PolicyType
    <3> QED BY <2>1, <2>2, <3>1 DEF Block
  <2> QED BY <2>1, <2>2, <2>3, Zenon DEF FullInv, WaitInv, AcceptInv
<1> QED BY <1>1, FullInvAlways, PTL
==============================================================================
