---------------------------- MODULE SessionProofs ----------------------------
(***************************************************************************)
(* Proofs about the sessions an operator begins and ends.                  *)
(*                                                                         *)
(* Freedrive: the direct teaching of one arm, for every range of poses,    *)
(* capacity of the backend's queue, and refusal, loss, delay or timeout of *)
(* the worker's calls.  A teaching session the loop has heard of is        *)
(* undone, and the wire stays quiet while an arm is guided by hand and     *)
(* resumes from where the hand left it.                                    *)
(*                                                                         *)
(* Recording: what the policy runner makes of the start and stop commands  *)
(* of rb_gui, for any cameras and shapes, any number of rows and episodes, *)
(* and any lost commands, failing writes, exits and kills.                 *)
(***************************************************************************)
EXTENDS Freedrive, Recording, TLAPS

(* What no step of the loop's command and advance phases touches. *)
Elsewhere == <<seen, suppressed, mailbox, workerVars, robotVars, releaseSeen, unheard>>

(* The loop makes a call. *)
Issue(on, then, next) ==
    /\ callBackend(on, [then |-> then, next |-> next])
    /\ UNCHANGED <<stage, held, clean, Elsewhere>>

(* The loop ends a session without a call. *)
Stop(confirmed, next) ==
    /\ resyncAndStop(confirmed) /\ pc' = next
    /\ UNCHANGED <<offTried, after, queue, result, Elsewhere>>

(* The loop goes on, in the same stage or in another. *)
Go(to, next) ==
    /\ stage' = to /\ pc' = next
    /\ UNCHANGED <<held, clean, offTried, after, queue, result, Elsewhere>>

(* What the handling of a command and the advance of a stage can come to.  *)
Phases ==
    \/ stage = "Active" /\ pc = "command" /\ Issue(FALSE, "exiting", "advance")
    \/ stage = "Confirm" /\ \E next \in {"advance", "suppress"} : Issue(FALSE, "abort", next)
    \/ stage = "Quiesce" /\ Issue(TRUE, "confirm", "suppress")
    \/ stage = "Quiesce" /\ \E next \in {"advance", "suppress"} : Stop(FALSE, next)
    \/ stage = "Exiting" /\ Stop(~seen.on, "suppress")
    \/ stage = "Off" /\ Go("Quiesce", "advance")
    \/ stage = "Confirm" /\ seen.on /\ Go("Active", "suppress")
    \/ pc = "command" /\ Go(stage, "advance")
    \/ pc = "advance" /\ Go(stage, "suppress")

(* Every command and every advance of the stage is one of these. *)
LEMMA PhaseKinds ==
    ASSUME TypeOK, Command \/ AdvanceFreedrive
    PROVE  pc \in {"command", "advance"} /\ Phases
<1> USE DEF Issue, Stop, Go, Elsewhere, historyVars, sharedVars
<1>1. CASE RequestOn
  BY <1>1, Zenon DEF RequestOn, Phases
<1>2. CASE RequestOff
  <2>1. CASE stage = "Active"
    BY <1>2, <2>1, Zenon DEF RequestOff, Phases
  <2>2. CASE stage = "Quiesce"
    BY <1>2, <2>2, Zenon DEF RequestOff, Phases, abortFreedrive
  <2>3. CASE stage = "Confirm"
    BY <1>2, <2>3, Zenon DEF RequestOff, Phases, abortFreedrive
  <2>4. CASE stage \in {"Off", "Exiting"}
    BY <1>2, <2>4, Zenon DEF RequestOff, Phases
  <2> QED BY <2>1, <2>2, <2>3, <2>4, Zenon DEF TypeOK, Stages
<1>3. CASE MotionCommand
  BY <1>3, Zenon DEF MotionCommand, Phases
<1>4. CASE NoCommand
  BY <1>4, Zenon DEF NoCommand, Phases
<1>5. CASE AdvanceFreedrive
  <2>1. CASE AdvanceQuiesce
    BY <1>5, <2>1, Zenon DEF AdvanceFreedrive, AdvanceQuiesce, abortFreedrive, Phases
  <2>2. CASE AdvanceConfirm
    BY <1>5, <2>2, Zenon DEF AdvanceFreedrive, AdvanceConfirm, abortFreedrive, Phases
  <2>3. CASE AdvanceExiting
    BY <1>5, <2>3, Zenon DEF AdvanceFreedrive, AdvanceExiting, Phases
  <2>4. CASE AdvanceWait
    BY <1>5, <2>4, Zenon DEF AdvanceFreedrive, AdvanceWait, Phases
  <2> QED BY <1>5, <2>1, <2>2, <2>3, <2>4, Zenon DEF AdvanceFreedrive
<1> QED BY <1>1, <1>2, <1>3, <1>4, <1>5, Zenon DEF Command

(* What a longer queue holds. *)
LEMMA Longer ==
    ASSUME NEW q \in Seq(Call), NEW c \in Call
    PROVE  /\ Append(q, c) \in Seq(Call) /\ Len(Append(q, c)) = Len(q) + 1
           /\ \A i \in 1..Len(q) : Append(q, c)[i] = q[i]
           /\ Append(q, c)[Len(q) + 1] = c
OBVIOUS

(* What a queue holds whose first call has been taken. *)
LEMMA Shorter ==
    ASSUME NEW q \in Seq(Call), q # <<>>
    PROVE  /\ Head(q) = q[1] /\ Head(q) \in Call
           /\ Tail(q) \in Seq(Call) /\ Len(Tail(q)) = Len(q) - 1 /\ Len(q) \in Nat \ {0}
           /\ \A i \in 1..Len(Tail(q)) : Tail(q)[i] = q[i + 1]
<1>1. Len(q) \in Nat \ {0}
  OBVIOUS
<1>2. Head(q) = q[1] /\ Head(q) \in Call
  BY <1>1
<1>3. Tail(q) \in Seq(Call) /\ Len(Tail(q)) = Len(q) - 1
  BY <1>1
<1>4. \A i \in 1..Len(Tail(q)) : Tail(q)[i] = q[i + 1]
  BY <1>1, <1>3
<1> QED BY <1>1, <1>2, <1>3, <1>4, Zenon

(* What the queue holds once its calls have all expired. *)
LEMMA Expired ==
    ASSUME queue \in Seq(Call), CallTimesOut
    PROVE  /\ queue' \in Seq(Call) /\ Len(queue') = Len(queue)
           /\ \A i \in 1..Len(queue) : queue'[i].on = queue[i].on /\ ~queue'[i].live
<1>1. Len(queue) \in Nat /\ \A i \in 1..Len(queue) : queue[i] \in Call
  OBVIOUS
<1>2. queue' = [i \in 1..Len(queue) |-> [queue[i] EXCEPT !.live = FALSE]]
  BY Zenon DEF CallTimesOut
<1>3. \A i \in 1..Len(queue) : queue'[i] \in Call /\ queue'[i].on = queue[i].on /\ ~queue'[i].live
  BY <1>1, <1>2, Zenon DEF Call
<1>4. queue' \in Seq(Call) /\ Len(queue') = Len(queue)
  BY <1>1, <1>2, <1>3
<1> QED BY <1>3, <1>4, Zenon

(* The variables have their types, and a loop that waits knows what for. *)
TypeInv == TypeOK /\ (pc = "wait" => after \in After)

(* The variables keep their types. *)
LEMMA TypeStep == TypeInv /\ Next => TypeInv'
<1> SUFFICES ASSUME TypeOK, pc = "wait" => after \in After, Next
             PROVE  TypeOK' /\ (pc' = "wait" => after' \in After)
  BY Zenon DEF TypeInv
<1> USE CapacityAssumption, MaxPoseAssumption
<1>1. CASE Command \/ AdvanceFreedrive
  <2>1. armed' \in BOOLEAN
    BY <1>1, Zenon DEF TypeOK, Command, RequestOn, RequestOff, MotionCommand, NoCommand, AdvanceFreedrive
  <2>2. Phases /\ pc \in {"command", "advance"}
    BY <1>1, PhaseKinds, Zenon
  <2>3. ASSUME NEW on \in BOOLEAN, NEW then \in {"confirm", "exiting", "abort"},
               NEW next \in {"advance", "suppress"}, Issue(on, then, next)
        PROVE  TypeOK' /\ (pc' = "wait" => after' \in After)
    <3>1. queue' \in Seq(Call) /\ Len(queue') <= Capacity
      <4>1. [on |-> on, live |-> TRUE] \in Call
        BY Zenon DEF Call
      <4>2. Len(queue) \in Nat /\ Len(queue) <= Capacity /\ Capacity \in Nat /\ queue \in Seq(Call)
        BY DEF TypeOK
      <4>3. CASE queue' = queue
        BY <4>2, <4>3, Zenon
      <4>4. CASE Len(queue) < Capacity /\ queue' = Append(queue, [on |-> on, live |-> TRUE])
        BY <4>1, <4>2, <4>4, Longer
      <4> QED BY <2>3, <4>3, <4>4, Zenon DEF Issue, callBackend
    <3>2. result' \in Results \cup {None} /\ after' \in After /\ offTried' \in BOOLEAN
      BY <2>3, Zenon DEF TypeOK, Issue, callBackend, Results, After
    <3> QED BY <2>1, <2>3, <3>1, <3>2 DEF TypeOK, Issue, callBackend, Elsewhere, workerVars, robotVars
  <2>4. ASSUME NEW confirmed \in BOOLEAN, NEW next \in {"advance", "suppress"}, Stop(confirmed, next)
        PROVE  TypeOK' /\ (pc' = "wait" => after' \in After)
    BY <2>1, <2>4 DEF TypeOK, Stop, resyncAndStop, Elsewhere, workerVars, robotVars, Sample, Stages
  <2>5. ASSUME NEW to \in Stages, NEW next \in {"advance", "suppress"}, Go(to, next)
        PROVE  TypeOK' /\ (pc' = "wait" => after' \in After)
    BY <2>1, <2>5 DEF TypeOK, Go, Elsewhere, workerVars, robotVars
  <2>6. stage \in Stages /\ seen.on \in BOOLEAN
    BY Zenon DEF TypeOK, Sample
  <2> QED BY <2>2, <2>3, <2>4, <2>5, <2>6, Zenon DEF Phases, Stages
<1>0. ASSUME CallReturns \/ CallTimesOut
      PROVE  /\ pc' \in {"advance", "suppress"} /\ after' = None
             /\ stage' \in Stages /\ held' \in 0..MaxPose /\ clean' \in BOOLEAN
             /\ UNCHANGED <<armed, seen, suppressed, mailbox, offTried, releaseSeen, unheard,
                            wpc, suppressedPrev, last, job, cached, robotVars>>
  <2>1. pc' \in {"advance", "suppress"} /\ after' = None
    BY <1>0, Zenon DEF CallReturns, CallTimesOut, continueWith, After
  <2>2. stage' \in Stages
    BY <1>0, Zenon DEF CallReturns, CallTimesOut, continueWith, resyncAndStop, Stages
  <2>3. held' \in 0..MaxPose /\ clean' \in BOOLEAN
    BY <1>0, Zenon DEF CallReturns, CallTimesOut, continueWith, resyncAndStop, TypeOK, Sample
  <2>4. UNCHANGED <<armed, seen, suppressed, mailbox, offTried, releaseSeen, unheard,
                    wpc, suppressedPrev, last, job, cached, robotVars>>
    BY <1>0, Zenon DEF CallReturns, CallTimesOut, continueWith
  <2> QED BY <2>1, <2>2, <2>3, <2>4, Zenon
<1>2. CASE CallReturns
  <2>1. result' = None /\ UNCHANGED <<queue, call>>
    BY <1>2, Zenon DEF CallReturns
  <2> QED BY <1>0, <1>2, <2>1 DEF TypeOK, robotVars
<1>3. CASE CallTimesOut
  <2>1. queue' \in Seq(Call) /\ Len(queue') <= Capacity
    BY <1>3, Expired, Zenon DEF CallTimesOut, TypeOK
  <2>2. call' \in Call \cup {None}
    BY <1>3, Zenon DEF CallTimesOut, TypeOK, Call
  <2>3. result' = result
    BY <1>3, Zenon DEF CallTimesOut
  <2> QED BY <1>0, <1>3, <2>1, <2>2, <2>3 DEF TypeOK, robotVars
<1>4. CASE ReadState
  BY <1>4 DEF TypeOK, ReadState, sharedVars, workerVars, robotVars, historyVars
<1>5. CASE PublishSuppression
  BY <1>5 DEF TypeOK, PublishSuppression, workerVars, robotVars
<1>6. CASE SendTarget
  BY <1>6 DEF TypeOK, SendTarget, workerVars, robotVars, historyVars, Setpoint
<1>7. CASE WorkerPick
  <2>1. mailbox' \in Setpoint /\ last' \in Setpoint /\ job' \in Setpoint
    BY <1>7, Zenon DEF TypeOK, WorkerPick, Setpoint
  <2>2. queue' \in Seq(Call) /\ Len(queue') <= Capacity /\ call' \in Call \cup {None}
    BY <1>7, Shorter DEF TypeOK, WorkerPick
  <2>3. wpc' = "act" /\ releaseSeen' \in BOOLEAN /\ suppressedPrev' \in BOOLEAN
    BY <1>7, Zenon DEF TypeOK, WorkerPick
  <2> QED BY <1>7, <2>1, <2>2, <2>3 DEF TypeOK, WorkerPick, loopVars, robotVars
<1>8. CASE WorkerLifecycle
  <2>1. teach' \in BOOLEAN /\ latch' \in BOOLEAN /\ result' \in Results \cup {None}
    BY <1>8, Zenon DEF TypeOK, WorkerLifecycle, executeCall, executeExpiredCall, Call, Results
  <2>2. offTried' \in BOOLEAN /\ unheard' \in BOOLEAN /\ call' = None /\ wpc' = "state"
    BY <1>8, <2>1, Zenon DEF TypeOK, WorkerLifecycle
  <2> QED BY <1>8, <2>1, <2>2 DEF TypeOK, WorkerLifecycle, loopVars
<1>9. CASE WorkerSend
  BY <1>9 DEF TypeOK, WorkerSend, loopVars, sharedVars, historyVars, Setpoint
<1>10. CASE WorkerQuiet
  <2>1. moving' \in BOOLEAN
    BY <1>10, Zenon DEF TypeOK, WorkerQuiet
  <2> QED BY <1>10, <2>1 DEF TypeOK, WorkerQuiet, loopVars, sharedVars, historyVars
<1>11. CASE WorkerReadState
  BY <1>11 DEF TypeOK, WorkerReadState, loopVars, sharedVars, robotVars, historyVars, Sample
<1>12. CASE HandGuide
  BY <1>12 DEF TypeOK, HandGuide, loopVars, sharedVars, workerVars, historyVars
<1> QED BY <1>1, <1>2, <1>3, <1>4, <1>5, <1>6, <1>7, <1>8, <1>9, <1>10, <1>11, <1>12, Zenon
      DEF Next, LoopStep, WorkerStep

(* The loop waits for the call c and has no result of it yet. *)
Awaited(c) == pc = "wait" /\ result = None /\ c.on = (after.then = "confirm")

(* The worker has no call of the loop.                                     *)
NoCalls == Len(queue) = 0 /\ call = None

(* Of the worker's calls only the last is waited for, and once it has      *)
(* succeeded there is none.                                                *)
CallInv ==
    /\ result # None => pc = "wait"
    /\ pc = "wait" =>
          \/ after.then = "confirm" /\ stage = "Quiesce" /\ after.next = "suppress"
          \/ after.then = "exiting" /\ stage = "Active"
          \/ after.then = "abort" /\ stage = "Confirm"
    /\ \A i \in 1..Len(queue) : queue[i].live => i = Len(queue) /\ Awaited(queue[i])
    /\ call # None => wpc = "act" /\ job = None
    /\ call # None /\ call.live => Awaited(call) /\ Len(queue) = 0
    /\ result = "ok" => NoCalls

(* A loop that goes on after its wait. *)
LEMMA Resumes ==
    ASSUME TypeInv, CallReturns \/ CallTimesOut
    PROVE  /\ pc = "wait" /\ pc' = after.next /\ pc' \in {"advance", "suppress"} /\ result' = None
           /\ UNCHANGED <<seen, suppressed, mailbox, offTried, releaseSeen, unheard,
                          wpc, suppressedPrev, last, job, cached, teach, moving, latch, pose>>
           /\ \/ after.then = "confirm" /\ result = "ok" /\ stage' = "Confirm" /\ UNCHANGED <<held, clean>>
              \/ after.then = "confirm" /\ result # "ok" /\ stage' = "Off" /\ clean' = FALSE
              \/ after.then = "exiting" /\ stage' = "Exiting" /\ UNCHANGED <<held, clean>>
              \/ after.then = "abort" /\ stage' = "Off" /\ clean' = FALSE
<1>1. pc = "wait" /\ pc' = after.next /\ result' = None
  BY Zenon DEF CallReturns, CallTimesOut, continueWith
<1>2. pc' \in {"advance", "suppress"}
  BY <1>1, Zenon DEF TypeInv, After
<1>3. UNCHANGED <<seen, suppressed, mailbox, offTried, releaseSeen, unheard,
                  wpc, suppressedPrev, last, job, cached, teach, moving, latch, pose>>
  BY Zenon DEF CallReturns, CallTimesOut, continueWith, robotVars
<1>4. CASE CallReturns
  BY <1>1, <1>2, <1>3, <1>4, Zenon DEF CallReturns, continueWith, resyncAndStop
<1>5. CASE CallTimesOut
  <2>1. result # "ok"
    BY <1>5, NoneAssumption, Zenon DEF CallTimesOut, Results
  <2> QED BY <1>1, <1>2, <1>3, <1>5, <2>1, Zenon DEF CallTimesOut, continueWith, resyncAndStop
<1> QED BY <1>4, <1>5, Zenon

(* What it leaves behind are calls that nobody waits for. *)
LEMMA Abandoned ==
    ASSUME TypeInv, CallInv, CallReturns \/ CallTimesOut
    PROVE  /\ Len(queue') = Len(queue)
           /\ \A i \in 1..Len(queue) : queue'[i].on = queue[i].on /\ ~queue'[i].live
           /\ call' = None <=> call = None
           /\ call # None => call'.on = call.on /\ ~call'.live
<1>1. CASE CallReturns
  <2>1. result # None /\ UNCHANGED <<queue, call>>
    BY <1>1, Zenon DEF CallReturns
  <2>2. (\A i \in 1..Len(queue) : ~queue[i].live) /\ (call # None => ~call.live)
    BY <2>1, Zenon DEF CallInv, Awaited
  <2> QED BY <2>1, <2>2, Zenon
<1>2. CASE CallTimesOut
  <2>1. Len(queue') = Len(queue) /\ \A i \in 1..Len(queue) : queue'[i].on = queue[i].on /\ ~queue'[i].live
    BY <1>2, Expired, Zenon DEF TypeInv, TypeOK
  <2>2. call' = IF call = None THEN None ELSE [call EXCEPT !.live = FALSE]
    BY <1>2, Zenon DEF CallTimesOut
  <2>3. CASE call = None
    BY <2>1, <2>2, <2>3, Zenon
  <2>4. CASE call # None
    <3>1. call \in Call
      BY <2>4, Zenon DEF TypeInv, TypeOK
    <3>2. call' \in Call /\ call'.on = call.on /\ ~call'.live
      BY <2>2, <2>4, <3>1, Zenon DEF Call
    <3> QED BY <2>1, <2>4, <3>2, NoneAssumption, Zenon
  <2> QED BY <2>3, <2>4, Zenon
<1> QED BY <1>1, <1>2, Zenon

(* The steps of the loop and of the worker keep the last call awaited.     *)
LEMMA CallStep == TypeInv /\ CallInv /\ Next => CallInv'
<1> SUFFICES ASSUME TypeInv, CallInv, Next PROVE CallInv'
  BY Zenon
<1>1. CASE Command \/ AdvanceFreedrive
  <2>1. pc \in {"command", "advance"} /\ Phases
    BY <1>1, PhaseKinds, Zenon DEF TypeInv
  <2>2. /\ result = None /\ UNCHANGED <<wpc, call, job>> /\ result # "ok"
        /\ \A i \in 1..Len(queue) : ~queue[i].live
        /\ call # None => ~call.live
    <3>1. result = None /\ result # "ok"
      BY <2>1, NoneAssumption, Zenon DEF CallInv, Results
    <3>2. (\A i \in 1..Len(queue) : ~queue[i].live) /\ (call # None => ~call.live)
      BY <2>1, Zenon DEF CallInv, Awaited
    <3>3. UNCHANGED <<wpc, call, job>>
      BY <2>1, Zenon DEF Phases, Issue, Stop, Go, Elsewhere, workerVars
    <3> QED BY <3>1, <3>2, <3>3, Zenon
  <2>3. ASSUME NEW next \in {"advance", "suppress"}, pc' = next, UNCHANGED <<queue, result>>
        PROVE  CallInv'
    BY <2>2, <2>3, Zenon DEF CallInv, Awaited, NoCalls
  <2>4. ASSUME NEW on \in BOOLEAN, NEW then, NEW next, Issue(on, then, next), on = (then = "confirm"),
               \/ then = "confirm" /\ stage = "Quiesce" /\ next = "suppress"
               \/ then = "exiting" /\ stage = "Active"
               \/ then = "abort" /\ stage = "Confirm"
        PROVE  CallInv'
    <3>1. pc' = "wait" /\ after'.then = then /\ after'.next = next /\ stage' = stage
      BY <2>4, Zenon DEF Issue, callBackend
    <3>2. CASE queue' = queue /\ result' = "fail"
      BY <2>2, <2>4, <3>1, <3>2, Zenon DEF CallInv
    <3>3. CASE queue' = Append(queue, [on |-> on, live |-> TRUE]) /\ result' = None
      <4>1. [on |-> on, live |-> TRUE] \in Call /\ queue \in Seq(Call)
        BY Zenon DEF Call, TypeInv, TypeOK
      <4>2. /\ Len(queue') = Len(queue) + 1 /\ Len(queue) \in Nat
            /\ \A i \in 1..Len(queue) : queue'[i] = queue[i]
            /\ queue'[Len(queue) + 1].on = on
        BY <3>3, <4>1, Longer
      <4>3. \A i \in 1..Len(queue') : queue'[i].live => i = Len(queue') /\ Awaited(queue[i])'
        BY <2>2, <2>4, <3>1, <3>3, <4>2 DEF Awaited
      <4> QED BY <2>2, <2>4, <3>1, <3>3, <4>3, NoneAssumption, Zenon DEF CallInv, Results
    <3> QED BY <2>4, <3>2, <3>3, Zenon DEF Issue, callBackend
  <2>5. CASE \E confirmed \in BOOLEAN, next \in {"advance", "suppress"} : Stop(confirmed, next)
    BY <2>3, <2>5, Zenon DEF Stop
  <2>6. CASE \E to \in Stages, next \in {"advance", "suppress"} : Go(to, next)
    BY <2>3, <2>6, Zenon DEF Go
  <2>7. stage \in Stages /\ seen.on \in BOOLEAN
    BY Zenon DEF TypeInv, TypeOK, Sample
  <2> QED BY <2>1, <2>4, <2>5, <2>6, <2>7, Zenon DEF Phases, Stages
<1>2. CASE CallReturns \/ CallTimesOut
  BY <1>2, Resumes, Abandoned, NoneAssumption, Zenon DEF CallInv, Awaited, Results
<1>3. CASE ReadState \/ PublishSuppression \/ SendTarget
  BY <1>3, Zenon DEF CallInv, Awaited, NoCalls, ReadState, PublishSuppression, SendTarget, sharedVars, workerVars
<1>4. CASE WorkerPick
  <2>1. UNCHANGED <<pc, stage, after, result>> /\ wpc' = "act" /\ call = None
    BY <1>4, Zenon DEF WorkerPick, loopVars, CallInv
  <2>2. CASE queue = <<>>
    BY <1>4, <2>1, <2>2, Zenon DEF WorkerPick, CallInv, NoCalls, Awaited
  <2>3. CASE queue # <<>>
    <3>1. call' = Head(queue) /\ queue' = Tail(queue) /\ job' = None
      BY <1>4, <2>3, Zenon DEF WorkerPick
    <3>2. /\ call' = queue[1] /\ Len(queue') = Len(queue) - 1 /\ Len(queue) \in Nat \ {0}
          /\ \A i \in 1..Len(queue') : queue'[i] = queue[i + 1]
      BY <2>3, <3>1, Shorter, Zenon DEF TypeInv, TypeOK
    <3>3. \A i \in 1..Len(queue') : queue'[i].live => i = Len(queue') /\ Awaited(queue[i])'
      BY <2>1, <3>2 DEF CallInv, Awaited
    <3>4. call'.live => Awaited(call)' /\ Len(queue') = 0
      BY <2>1, <3>2 DEF CallInv, Awaited
    <3>5. result # "ok"
      BY <3>2, Zenon DEF CallInv, NoCalls
    <3> QED BY <2>1, <3>1, <3>2, <3>3, <3>4, <3>5, Zenon DEF CallInv
  <2> QED BY <2>2, <2>3, Zenon
<1>5. CASE WorkerLifecycle
  <2>1. UNCHANGED <<pc, stage, after, queue, job>> /\ call' = None /\ call # None /\ wpc' = "state"
    BY <1>5, Zenon DEF WorkerLifecycle, loopVars
  <2>2. CASE executeExpiredCall
    BY <2>1, <2>2, Zenon DEF executeExpiredCall, CallInv, Awaited, NoCalls
  <2>3. CASE executeCall
    <3>1. call.live /\ result' \in {"ok", "fail"}
      BY <2>3, Zenon DEF executeCall
    <3>2. pc = "wait" /\ Len(queue) = 0
      BY <2>1, <3>1, Zenon DEF CallInv, Awaited
    <3> QED BY <2>1, <3>1, <3>2 DEF CallInv, NoCalls
  <2> QED BY <1>5, <2>2, <2>3, Zenon DEF WorkerLifecycle
<1>6. CASE WorkerSend \/ WorkerQuiet \/ WorkerReadState
  BY <1>6, Zenon DEF CallInv, Awaited, NoCalls, WorkerSend, WorkerQuiet, WorkerReadState, loopVars, sharedVars
<1>7. CASE HandGuide
  BY <1>7, Zenon DEF CallInv, Awaited, NoCalls, HandGuide, loopVars, sharedVars, workerVars
<1> QED BY <1>1, <1>2, <1>3, <1>4, <1>5, <1>6, <1>7, Zenon DEF Next, LoopStep, WorkerStep

(* teach_on has been issued and acknowledged. *)
Issued == stage \in {"Confirm", "Active", "Exiting"}

(* It has, and the loop has not asked for teach_off yet. *)
Engaged ==
    \/ stage \in {"Confirm", "Active"} /\ pc # "wait"
    \/ result = "ok" /\ after.then = "confirm"

(* Whatever is still with the worker asks for teach_off.                   *)
OnlyOff ==
    /\ \A i \in 1..Len(queue) : ~queue[i].on
    /\ call # None => ~call.on

(* From the acknowledgement of teach_on to the request of teach_off the    *)
(* arm is in teaching, the backend refuses setpoints (teach latch) and no  *)
(* call is under way. After it, and until the loop has resynchronised,     *)
(* only teach_off calls are under way, and the worker's setpoints are      *)
(* refused by the latch or suppressed by the flag.                         *)
StageInv ==
    /\ Engaged => NoCalls /\ teach /\ latch /\ ~moving
    /\ Issued => ~moving /\ (latch \/ (suppressed /\ job = None)) /\ OnlyOff
    /\ Issued /\ ~(stage = "Confirm" /\ pc = "suppress") => suppressed
    /\ Issued /\ (call # None \/ ~teach) => suppressed /\ suppressedPrev /\ job = None

(* The worker looks at the suppression flag and takes the next call. *)
LEMMA Picks ==
    ASSUME TypeInv, WorkerPick
    PROVE  /\ suppressedPrev' = suppressed /\ (suppressed => job' = None)
           /\ UNCHANGED <<loopVars, suppressed, result, cached, robotVars, offTried, clean, unheard>>
           /\ Len(queue) = 0 => UNCHANGED <<queue, call>>
           /\ Len(queue) # 0 =>
                 /\ call' = queue[1] /\ Len(queue') = Len(queue) - 1 /\ job' = None /\ 1 \in 1..Len(queue)
                 /\ \A i \in 1..Len(queue') : queue'[i] = queue[i + 1] /\ i + 1 \in 1..Len(queue)
<1>1. /\ suppressedPrev' = suppressed /\ (suppressed => job' = None)
      /\ UNCHANGED <<loopVars, suppressed, result, cached, robotVars, offTried, clean, unheard>>
  BY Zenon DEF WorkerPick
<1>2. queue \in Seq(Call)
  BY Zenon DEF TypeInv, TypeOK
<1>3. CASE queue = <<>>
  <2>1. UNCHANGED <<queue, call>> /\ Len(queue) = 0
    BY <1>3, Zenon DEF WorkerPick
  <2> QED BY <1>1, <2>1, Zenon
<1>4. CASE queue # <<>>
  <2>1. call' = Head(queue) /\ queue' = Tail(queue) /\ job' = None
    BY <1>4, Zenon DEF WorkerPick
  <2>2. /\ call' = queue[1] /\ Len(queue') = Len(queue) - 1 /\ Len(queue) \in Nat \ {0}
        /\ \A i \in 1..Len(queue') : queue'[i] = queue[i + 1]
    BY <1>2, <1>4, <2>1, Shorter, Zenon
  <2>3. 1 \in 1..Len(queue) /\ \A i \in 1..Len(queue') : i + 1 \in 1..Len(queue)
    BY <2>2
  <2> QED BY <1>1, <2>1, <2>2, <2>3, Zenon
<1> QED BY <1>3, <1>4, Zenon

(* Every step keeps it.                                                    *)
LEMMA StageStep == TypeInv /\ CallInv /\ StageInv /\ Next => StageInv'
<1> SUFFICES ASSUME TypeInv, CallInv, StageInv, Next PROVE StageInv'
  BY Zenon
<1>1. CASE Command \/ AdvanceFreedrive
  <2>1. pc \in {"command", "advance"} /\ Phases
    BY <1>1, PhaseKinds, Zenon DEF TypeInv
  <2>2. result # "ok" /\ UNCHANGED <<suppressed, suppressedPrev, call, job, teach, moving, latch>>
    <3>1. result # "ok"
      BY <2>1, NoneAssumption, Zenon DEF CallInv, Results
    <3>2. UNCHANGED <<suppressed, suppressedPrev, call, job, teach, moving, latch>>
      BY <2>1, Zenon DEF Phases, Issue, Stop, Go, Elsewhere, workerVars, robotVars
    <3> QED BY <3>1, <3>2, Zenon
  <2>3. CASE stage' = "Off" /\ result' = result
    BY <2>2, <2>3, Zenon DEF StageInv, Engaged, Issued
  <2>4. CASE stage = "Quiesce" /\ Issue(TRUE, "confirm", "suppress")
    <3>1. stage' = "Quiesce" /\ result' # "ok"
      BY <2>4, NoneAssumption, Zenon DEF Issue, callBackend, Results
    <3> QED BY <3>1, Zenon DEF StageInv, Engaged, Issued
  <2>5. ASSUME NEW then, NEW next, Issue(FALSE, then, next), stage \in {"Confirm", "Active"}
        PROVE  StageInv'
    <3>1. stage' = stage /\ result' # "ok" /\ pc' = "wait"
      BY <2>5, NoneAssumption, Zenon DEF Issue, callBackend, Results
    <3>2. NoCalls /\ ~moving /\ latch /\ teach /\ suppressed
      BY <2>1, <2>5, Zenon DEF StageInv, Engaged, Issued
    <3>3. OnlyOff'
      <4>1. queue \in Seq(Call) /\ [on |-> FALSE, live |-> TRUE] \in Call
        BY Zenon DEF TypeInv, TypeOK, Call
      <4>2. queue' = queue \/ queue' = Append(queue, [on |-> FALSE, live |-> TRUE])
        BY <2>5, Zenon DEF Issue, callBackend
      <4>3. \A i \in 1..Len(queue') : ~queue'[i].on
        BY <3>2, <4>1, <4>2, Longer DEF NoCalls
      <4> QED BY <2>2, <3>2, <4>3, Zenon DEF OnlyOff, NoCalls
    <3> QED BY <2>2, <3>1, <3>2, <3>3, Zenon DEF StageInv, Engaged, Issued, NoCalls
  <2>6. ASSUME NEW to, NEW next \in {"advance", "suppress"}, Go(to, next),
               to = stage \/ to = "Quiesce" \/ (stage = "Confirm" /\ to = "Active")
        PROVE  StageInv'
    <3>1. stage' = to /\ pc' = next /\ UNCHANGED <<queue, result, after>>
      BY <2>6, Zenon DEF Go
    <3> QED BY <2>1, <2>2, <2>6, <3>1, Zenon DEF StageInv, Engaged, Issued, NoCalls, OnlyOff
  <2> QED BY <2>1, <2>3, <2>4, <2>5, <2>6, Zenon DEF Phases, Stop, resyncAndStop
<1>2. CASE CallReturns \/ CallTimesOut
  <2>1. CASE stage' = "Off"
    BY <1>2, <2>1, Resumes, NoneAssumption, ZenonT(30) DEF StageInv, Engaged, Issued, Results
  <2>2. CASE stage' = "Confirm"
    BY <1>2, <2>2, Resumes, Abandoned, NoneAssumption
       DEF StageInv, Engaged, Issued, Results, CallInv, NoCalls, OnlyOff
  <2>3. CASE stage' = "Exiting"
    BY <1>2, <2>3, Resumes, Abandoned, NoneAssumption
       DEF StageInv, Engaged, Issued, Results, CallInv, NoCalls, OnlyOff
  <2> QED BY <1>2, <2>1, <2>2, <2>3, Resumes, Zenon
<1>3. CASE ReadState \/ SendTarget
  BY <1>3 DEF StageInv, Engaged, Issued, NoCalls, OnlyOff, ReadState, SendTarget,
              sharedVars, workerVars, robotVars
<1>4. CASE PublishSuppression
  BY <1>4, Zenon DEF StageInv, Engaged, Issued, NoCalls, OnlyOff, PublishSuppression, workerVars, robotVars
<1>5. CASE WorkerPick
  <2>1. UNCHANGED <<stage, pc, after, result, suppressed, teach, latch, moving>>
    BY <1>5, Zenon DEF WorkerPick, loopVars, robotVars
  <2>2. CASE Len(queue) = 0
    BY <1>5, <2>1, <2>2, Picks, Zenon DEF StageInv, Engaged, Issued, NoCalls, OnlyOff
  <2>3. CASE Len(queue) # 0
    <3>1. ~Engaged /\ ~Engaged'
      BY <2>1, <2>3, Zenon DEF StageInv, NoCalls, Engaged
    <3>2. OnlyOff => OnlyOff'
      BY <1>5, <2>3, Picks, Zenon DEF OnlyOff
    <3>3. Issued => suppressed
      BY <3>1, Zenon DEF StageInv, Engaged, Issued
    <3> QED BY <1>5, <2>1, <2>3, <3>1, <3>2, <3>3, Picks, Zenon DEF StageInv, Issued
  <2> QED BY <2>2, <2>3, Zenon
<1>6. CASE WorkerLifecycle
  <2>1. /\ UNCHANGED <<stage, pc, after, queue, suppressed, suppressedPrev, job, moving>>
        /\ call' = None /\ call # None
    BY <1>6, Zenon DEF WorkerLifecycle, loopVars
  <2>2. ~Engaged
    BY <2>1, Zenon DEF StageInv, NoCalls
  <2>3. Engaged' => NoCalls' /\ teach' /\ latch' /\ ~moving'
    <3>1. CASE executeExpiredCall
      BY <2>1, <2>2, <3>1, Zenon DEF executeExpiredCall, Engaged
    <3>2. CASE executeCall /\ result' = "ok"
      <4>1. call.live /\ Awaited(call) /\ Len(queue) = 0
        BY <2>1, <3>2, Zenon DEF executeCall, CallInv
      <4>2. after.then = "confirm" => call.on /\ ~moving /\ teach' /\ latch'
        BY <3>2, <4>1, NoneAssumption, Zenon DEF executeCall, Awaited
      <4> QED BY <2>1, <2>2, <4>1, <4>2, Zenon DEF Engaged, NoCalls
    <3>3. CASE executeCall /\ result' # "ok"
      BY <2>1, <2>2, <3>3, Zenon DEF Engaged
    <3> QED BY <1>6, <3>1, <3>2, <3>3, Zenon DEF WorkerLifecycle
  <2>4. Issued => suppressed /\ suppressedPrev /\ job = None /\ OnlyOff /\ ~moving
    BY <2>1, Zenon DEF StageInv
  <2> QED BY <2>1, <2>3, <2>4, Zenon DEF StageInv, Issued, OnlyOff
<1>7. CASE WorkerSend
  BY <1>7, Zenon DEF StageInv, Engaged, Issued, NoCalls, OnlyOff, WorkerSend, loopVars, sharedVars
<1>8. CASE WorkerQuiet
  <2>1. ~moving => ~moving'
    BY <1>8, Zenon DEF WorkerQuiet
  <2> QED BY <1>8, <2>1, Zenon
        DEF StageInv, Engaged, Issued, NoCalls, OnlyOff, WorkerQuiet, loopVars, sharedVars
<1>9. CASE WorkerReadState
  BY <1>9, Zenon DEF StageInv, Engaged, Issued, NoCalls, OnlyOff, WorkerReadState, loopVars, sharedVars, robotVars
<1>10. CASE HandGuide
  BY <1>10, Zenon DEF StageInv, Engaged, Issued, NoCalls, OnlyOff, HandGuide, loopVars, sharedVars, workerVars
<1> QED BY <1>1, <1>2, <1>3, <1>4, <1>5, <1>6, <1>7, <1>8, <1>9, <1>10, Zenon
      DEF Next, LoopStep, WorkerStep

(* An arm in teaching after an acknowledged teach_on refuses setpoints,    *)
(* and as long as no teach_off has been tried the loop knows of the        *)
(* session.                                                                *)
TeachInv ==
    /\ unheard => teach
    /\ teach /\ ~unheard => latch /\ ~moving
    /\ pc = "wait" /\ after.then # "confirm" => offTried
    /\ teach /\ ~offTried /\ ~unheard =>
          stage \in {"Confirm", "Active"} \/ (result = "ok" /\ after.then = "confirm")

(* What a call the worker executes does to the arm. *)
LEMMA Executes ==
    ASSUME TypeInv, CallInv, WorkerLifecycle
    PROVE  /\ call # None /\ call' = None /\ job = None
           /\ UNCHANGED <<pc, stage, after, held, seen, suppressed, mailbox, queue, suppressedPrev,
                          last, job, cached, moving, pose, clean, releaseSeen>>
           /\ teach' = teach \/ teach' = call.on
           /\ unheard' = (teach' /\ (unheard \/ (call.on /\ result' # "ok")))
           /\ offTried' = (offTried /\ ~(teach' /\ ~teach))
           /\ \/ /\ call.live /\ result' = "ok" /\ teach' = call.on /\ latch' = call.on
                 /\ call.on => ~moving
              \/ result' # "ok" /\ (~call.on => (latch' = latch \/ ~teach'))
           /\ call.live => result' # None /\ Len(queue) = 0 /\ pc = "wait" /\ call.on = (after.then = "confirm")
           /\ ~call.live => result' = result
<1>1. /\ call # None /\ call' = None /\ wpc = "act"
      /\ UNCHANGED <<pc, stage, after, held, seen, suppressed, mailbox, queue, suppressedPrev,
                     last, job, cached, moving, pose, clean, releaseSeen>>
      /\ unheard' = (teach' /\ (unheard \/ (call.on /\ result' # "ok")))
      /\ offTried' = (offTried /\ ~(teach' /\ ~teach))
  BY Zenon DEF WorkerLifecycle, loopVars
<1>2. job = None
  BY <1>1, Zenon DEF CallInv
<1>3. teach' = teach \/ teach' = call.on
  BY Zenon DEF WorkerLifecycle, executeCall, executeExpiredCall
<1>4. CASE executeCall
  <2>1. call.live /\ Awaited(call) /\ Len(queue) = 0
    BY <1>1, <1>4, Zenon DEF executeCall, CallInv
  <2>2. \/ /\ result' = "ok" /\ teach' = call.on /\ latch' = call.on
           /\ call.on => ~moving
        \/ result' = "fail" /\ (~call.on => (latch' = latch \/ ~teach'))
    BY <1>4, Zenon DEF executeCall
  <2>3. result' # None
    BY <2>2, NoneAssumption, Zenon DEF Results
  <2> QED BY <1>1, <1>2, <1>3, <2>1, <2>2, <2>3, Zenon DEF Awaited
<1>5. CASE executeExpiredCall
  <2>1. ~call.live /\ result' = result /\ (~call.on => (latch' = latch \/ ~teach'))
    BY <1>5, Zenon DEF executeExpiredCall
  <2>2. result # "ok"
    BY <1>1, Zenon DEF CallInv, NoCalls
  <2> QED BY <1>1, <1>2, <1>3, <2>1, <2>2, Zenon
<1> QED BY <1>4, <1>5, Zenon DEF WorkerLifecycle

(* Every step keeps this.                                                  *)
LEMMA TeachStep == TypeInv /\ CallInv /\ StageInv /\ TeachInv /\ Next => TeachInv'
<1> SUFFICES ASSUME TypeInv, CallInv, StageInv, TeachInv, Next PROVE TeachInv'
  BY Zenon
<1>1. CASE Command \/ AdvanceFreedrive
  <2>1. pc \in {"command", "advance"} /\ Phases
    BY <1>1, PhaseKinds, Zenon DEF TypeInv
  <2>2. UNCHANGED <<teach, latch, moving, unheard>>
    BY <2>1, Zenon DEF Phases, Issue, Stop, Go, Elsewhere, robotVars
  <2>3. result # "ok"
    BY <2>1, NoneAssumption, Zenon DEF CallInv, Results
  <2>4. ASSUME NEW next \in {"advance", "suppress"}, Stop(TRUE, next) \/ Stop(FALSE, next) \/ Stop(~seen.on, next),
               stage \in {"Quiesce", "Exiting"}
        PROVE  TeachInv'
    <3>1. pc' = next /\ stage' = "Off" /\ UNCHANGED <<offTried, after, result>>
      BY <2>4, Zenon DEF Stop, resyncAndStop
    <3> QED BY <2>2, <2>3, <2>4, <3>1, Zenon DEF TeachInv
  <2>5. ASSUME NEW to, NEW next \in {"advance", "suppress"}, Go(to, next),
               to = stage \/ (stage = "Off" /\ to = "Quiesce") \/ to = "Active"
        PROVE  TeachInv'
    <3>1. pc' = next /\ stage' = to /\ UNCHANGED <<offTried, after, result>>
      BY <2>5, Zenon DEF Go
    <3> QED BY <2>2, <2>3, <2>5, <3>1, Zenon DEF TeachInv
  <2>6. ASSUME NEW then, NEW next, Issue(FALSE, then, next)
        PROVE  TeachInv'
    <3>1. offTried'
      BY <2>6, Zenon DEF Issue, callBackend
    <3> QED BY <2>2, <3>1, Zenon DEF TeachInv
  <2>7. CASE stage = "Quiesce" /\ Issue(TRUE, "confirm", "suppress")
    <3>1. offTried' = offTried /\ stage' = stage /\ after'.then = "confirm"
      BY <2>7, Zenon DEF Issue, callBackend, TypeInv, TypeOK
    <3> QED BY <2>2, <2>3, <2>7, <3>1, Zenon DEF TeachInv
  <2> QED BY <2>1, <2>4, <2>5, <2>6, <2>7, Zenon DEF Phases
<1>2. CASE CallReturns \/ CallTimesOut
  <2>1. pc' # "wait" /\ UNCHANGED <<teach, latch, moving, offTried, unheard>>
    BY <1>2, Resumes, Zenon
  <2>2. stage' # "Confirm" => offTried' \/ ~teach \/ unheard
    BY <1>2, Resumes, Zenon DEF TeachInv, CallInv
  <2>3. stage' = "Confirm" \/ stage' \in {"Off", "Exiting"}
    BY <1>2, Resumes, Zenon
  <2> QED BY <2>1, <2>2, <2>3, Zenon DEF TeachInv
<1>3. CASE ReadState \/ SendTarget \/ PublishSuppression
  BY <1>3 DEF TeachInv, ReadState, SendTarget, PublishSuppression, sharedVars, workerVars, robotVars, historyVars
<1>4. CASE WorkerPick
  BY <1>4, Zenon DEF TeachInv, WorkerPick, loopVars, robotVars
<1>5. CASE WorkerLifecycle
  <2>1. (unheard => teach)'
    BY <1>5, Executes, Zenon
  <2>2. (teach /\ ~unheard => latch /\ ~moving)'
    BY <1>5, Executes, Zenon DEF TeachInv
  <2>3. (pc = "wait" /\ after.then # "confirm" => offTried)'
    <3>1. SUFFICES ASSUME pc = "wait", after.then # "confirm" PROVE offTried'
      BY <1>5, Executes, Zenon
    <3>2. stage \in {"Active", "Confirm"} /\ offTried
      BY <3>1, Zenon DEF CallInv, TeachInv
    <3>3. ~call.on
      BY <1>5, <3>2, Executes, Zenon DEF StageInv, Issued, OnlyOff
    <3>4. teach' => teach
      BY <1>5, <3>3, Executes, Zenon
    <3> QED BY <1>5, <3>2, <3>4, Executes, Zenon
  <2>4. (teach /\ ~offTried /\ ~unheard =>
          stage \in {"Confirm", "Active"} \/ (result = "ok" /\ after.then = "confirm"))'
    BY <1>5, Executes, Zenon DEF TeachInv, CallInv, NoCalls
  <2> QED BY <2>1, <2>2, <2>3, <2>4, Zenon DEF TeachInv
<1>6. CASE WorkerSend
  BY <1>6, ZenonT(30) DEF TeachInv, WorkerSend, loopVars, sharedVars, historyVars
<1>7. CASE WorkerQuiet
  <2>1. ~moving => ~moving'
    BY <1>7, Zenon DEF WorkerQuiet
  <2> QED BY <1>7, <2>1, Zenon DEF TeachInv, WorkerQuiet, loopVars, sharedVars, historyVars
<1>8. CASE WorkerReadState \/ HandGuide
  BY <1>8 DEF TeachInv, WorkerReadState, HandGuide, loopVars, sharedVars, robotVars, historyVars
<1> QED BY <1>1, <1>2, <1>3, <1>4, <1>5, <1>6, <1>7, <1>8, Zenon DEF Next, LoopStep, WorkerStep

(* A sample of an arm out of teaching shows where the arm is. *)
Final(s) == ~s.on => ~teach /\ s.pose = pose

(* What the loop reads of a session it has seen engaged: the first sample  *)
(* out of teaching is taken once the arm has left it for good.             *)
SampleInv ==
    /\ stage = "Confirm" /\ pc \in {"command", "advance"} /\ seen.on => cached.on
    /\ stage = "Active" => seen.on
    /\ stage = "Active" /\ pc # "wait" => cached.on
    /\ stage \in {"Active", "Exiting"} => Final(seen) /\ Final(cached)

(* Every step keeps the samples in order.                                  *)
LEMMA SampleStep == TypeInv /\ CallInv /\ StageInv /\ SampleInv /\ Next => SampleInv'
<1> SUFFICES ASSUME TypeInv, CallInv, StageInv, SampleInv, Next PROVE SampleInv'
  BY Zenon
<1>1. CASE Command \/ AdvanceFreedrive
  <2>1. pc \in {"command", "advance"} /\ Phases
    BY <1>1, PhaseKinds, Zenon DEF TypeInv
  <2>2. UNCHANGED <<seen, cached, teach, pose>>
    BY <2>1, Zenon DEF Phases, Issue, Stop, Go, Elsewhere, workerVars, robotVars
  <2>3. CASE stage' \in {"Off", "Quiesce"}
    BY <2>3, Zenon DEF SampleInv
  <2>4. CASE stage' = stage /\ pc' \in {"wait", "advance", "suppress"}
    BY <2>1, <2>2, <2>4, Zenon DEF SampleInv, Final
  <2>5. CASE stage = "Confirm" /\ seen.on /\ stage' = "Active" /\ pc' = "suppress"
    <3>1. cached.on /\ seen.on
      BY <2>1, <2>5, Zenon DEF SampleInv
    <3> QED BY <2>2, <2>5, <3>1, Zenon DEF SampleInv, Final
  <2> QED BY <2>1, <2>3, <2>4, <2>5, Zenon DEF Phases, Issue, callBackend, Stop, resyncAndStop, Go
<1>2. CASE CallReturns \/ CallTimesOut
  <2>1. UNCHANGED <<seen, cached, teach, pose>> /\ pc' \in {"advance", "suppress"}
    BY <1>2, Resumes, Zenon
  <2>2. CASE stage' = "Off"
    BY <2>2, Zenon DEF SampleInv
  <2>3. CASE stage' = "Confirm" /\ pc' = "suppress"
    BY <2>1, <2>3, Zenon DEF SampleInv
  <2>4. CASE stage = "Active" /\ stage' = "Exiting"
    BY <2>1, <2>4, Zenon DEF SampleInv, Final
  <2> QED BY <1>2, <2>2, <2>3, <2>4, Resumes, Zenon DEF CallInv
<1>3. CASE ReadState
  BY <1>3, Zenon DEF SampleInv, Final, ReadState, workerVars, robotVars
<1>4. CASE SendTarget \/ PublishSuppression
  BY <1>4, SMTT(30) DEF SampleInv, Final, SendTarget, PublishSuppression, workerVars, robotVars
<1>5. CASE WorkerPick
  BY <1>5, Zenon DEF SampleInv, Final, WorkerPick, loopVars, robotVars
<1>6. CASE WorkerLifecycle
  <2>1. UNCHANGED <<stage, pc, seen, cached, pose>> /\ call # None
    BY <1>6, Executes, Zenon
  <2>2. stage \in {"Active", "Exiting"} => (teach' => teach)
    <3>1. stage \in {"Active", "Exiting"} => ~call.on
      BY <2>1, Zenon DEF StageInv, Issued, OnlyOff
    <3> QED BY <1>6, <3>1, Executes, Zenon
  <2> QED BY <2>1, <2>2, Zenon DEF SampleInv, Final
<1>7. CASE WorkerSend \/ WorkerQuiet
  <2>1. UNCHANGED <<stage, pc, seen, cached, teach, pose>>
    BY <1>7, Zenon DEF WorkerSend, WorkerQuiet, loopVars
  <2> QED BY <2>1, Zenon DEF SampleInv, Final
<1>8. CASE WorkerReadState
  <2>1. cached'.on = teach /\ cached'.pose = pose /\ UNCHANGED <<stage, pc, seen, teach, pose>>
    BY <1>8, Zenon DEF WorkerReadState, loopVars, robotVars
  <2>2. stage \in {"Confirm", "Active"} /\ pc # "wait" => teach
    BY Zenon DEF StageInv, Engaged
  <2> QED BY <2>1, <2>2, Zenon DEF SampleInv, Final
<1>9. CASE HandGuide
  BY <1>9, Zenon DEF SampleInv, Final, HandGuide, loopVars, workerVars
<1> QED BY <1>1, <1>2, <1>3, <1>4, <1>5, <1>6, <1>7, <1>8, <1>9, Zenon DEF Next, LoopStep, WorkerStep

(* No call behind the loop's back can put the arm into teaching. *)
OnIsLive ==
    /\ \A i \in 1..Len(queue) : queue[i].on => queue[i].live
    /\ call # None /\ call.on => call.live

(* A setpoint that does not move the arm. *)
Here(x) == x = None \/ x = pose

(* After a clean exit the arm is out of teaching until the next session,   *)
(* the loop's held target is the arm's pose, and so is every setpoint on   *)
(* its way to the controller: a worker that has seen the suppression flag  *)
(* has dropped the older ones.                                             *)
SetpointInv ==
    /\ pc = "send" => suppressed = (stage # "Off")
    /\ releaseSeen /\ suppressed /\ suppressedPrev => mailbox = None /\ last = None
    /\ clean /\ stage = "Off" => ~teach /\ OnlyOff
    /\ clean /\ stage = "Quiesce" => OnIsLive /\ (teach => result # None /\ NoCalls)
    /\ clean /\ stage \in {"Off", "Quiesce"} /\ ~teach => held = pose
    /\ clean /\ releaseSeen /\ stage \in {"Off", "Quiesce"} /\ ~teach =>
          Here(mailbox) /\ Here(last) /\ Here(job)

(* Every step keeps the setpoints at the pose.                             *)
LEMMA SetpointStep ==
    TypeInv /\ CallInv /\ StageInv /\ TeachInv /\ SampleInv /\ SetpointInv /\ Next => SetpointInv'
<1> SUFFICES ASSUME TypeInv, CallInv, StageInv, TeachInv, SampleInv, SetpointInv, Next
             PROVE  SetpointInv'
  BY Zenon
<1>1. CASE Command \/ AdvanceFreedrive
  <2>1. pc \in {"command", "advance"} /\ Phases
    BY <1>1, PhaseKinds, Zenon DEF TypeInv
  <2>2. /\ UNCHANGED <<suppressed, suppressedPrev, mailbox, last, job, call, teach, pose, releaseSeen>>
        /\ pc' # "send"
    BY <2>1, Zenon DEF Phases, Issue, callBackend, Stop, Go, Elsewhere, workerVars, robotVars
  <2>3. result = None
    BY <2>1, Zenon DEF CallInv
  <2>4. CASE stage' = "Off" /\ clean' = FALSE
    BY <2>2, <2>4, Zenon DEF SetpointInv
  <2>5. CASE stage' = stage /\ UNCHANGED <<held, clean, queue, result>>
    BY <2>2, <2>5, Zenon DEF SetpointInv, OnlyOff, OnIsLive, NoCalls, Here
  <2>6. CASE stage = "Off" /\ Go("Quiesce", "advance")
    <3>1. stage' = "Quiesce" /\ UNCHANGED <<held, clean, queue, result>>
      BY <2>6, Zenon DEF Go
    <3> QED BY <2>2, <2>6, <3>1, Zenon DEF SetpointInv, OnlyOff, OnIsLive, Here
  <2>7. CASE stage' \in {"Confirm", "Active"}
    BY <2>2, <2>7, Zenon DEF SetpointInv
  <2>8. CASE stage = "Quiesce" /\ Issue(TRUE, "confirm", "suppress")
    <3>1. stage' = "Quiesce" /\ UNCHANGED <<held, clean>>
      BY <2>8, Zenon DEF Issue
    <3>2. clean => ~teach /\ OnIsLive
      BY <2>3, <2>8, Zenon DEF SetpointInv
    <3>3. OnIsLive => OnIsLive'
      <4>1. queue \in Seq(Call) /\ [on |-> TRUE, live |-> TRUE] \in Call
        BY Zenon DEF TypeInv, TypeOK, Call
      <4>2. CASE queue' = queue
        BY <2>2, <4>2, Zenon DEF OnIsLive
      <4>3. CASE queue' = Append(queue, [on |-> TRUE, live |-> TRUE])
        <5>1. /\ Len(queue') = Len(queue) + 1 /\ Len(queue) \in Nat
              /\ \A i \in 1..Len(queue) : queue'[i] = queue[i]
              /\ queue'[Len(queue) + 1].live
          BY <4>1, <4>3, Longer
        <5> QED BY <2>2, <5>1 DEF OnIsLive
      <4> QED BY <2>8, <4>2, <4>3, Zenon DEF Issue, callBackend
    <3> QED BY <2>2, <2>8, <3>1, <3>2, <3>3, Zenon DEF SetpointInv, Here
  <2>9. CASE stage = "Exiting" /\ Stop(~seen.on, "suppress")
    <3>1. stage' = "Off" /\ held' = seen.pose /\ clean' = ~seen.on /\ queue' = queue
      BY <2>9, Zenon DEF Stop, resyncAndStop
    <3>2. OnlyOff' /\ suppressed
      BY <2>2, <2>9, <3>1, Zenon DEF StageInv, Issued, OnlyOff
    <3>3. ~seen.on => ~teach /\ seen.pose = pose
      BY <2>9, Zenon DEF SampleInv, Final
    <3>4. ~teach => suppressedPrev /\ job = None
      BY <2>9, Zenon DEF StageInv, Issued
    <3> QED BY <2>2, <3>1, <3>2, <3>3, <3>4, Zenon DEF SetpointInv, Here
  <2> QED BY <2>1, <2>4, <2>5, <2>6, <2>7, <2>8, <2>9, Zenon
        DEF Phases, Issue, callBackend, Stop, resyncAndStop, Go
<1>2. CASE CallReturns \/ CallTimesOut
  <2>1. /\ UNCHANGED <<suppressed, suppressedPrev, mailbox, last, releaseSeen>> /\ pc' # "send"
        /\ stage' \in {"Confirm", "Exiting"} \/ ~clean'
    BY <1>2, Resumes, ZenonT(30)
  <2> QED BY <2>1, Zenon DEF SetpointInv
<1>3. CASE ReadState
  BY <1>3, Zenon DEF SetpointInv, OnlyOff, OnIsLive, NoCalls, Here, ReadState,
              sharedVars, workerVars, robotVars, historyVars
<1>4. CASE PublishSuppression
  <2>1. /\ UNCHANGED <<stage, held, mailbox, last, job, queue, call, result, suppressedPrev, teach, pose, clean>>
        /\ suppressed' = (stage # "Off")
        /\ releaseSeen' = (releaseSeen /\ ~(stage # "Off" /\ ~suppressed /\ suppressedPrev))
    BY <1>4, Zenon DEF PublishSuppression, workerVars, robotVars
  <2> QED BY <2>1, Zenon DEF SetpointInv, OnlyOff, OnIsLive, NoCalls, Here
<1>5. CASE SendTarget
  <2>1. /\ UNCHANGED <<stage, held, last, job, queue, call, result, suppressed, suppressedPrev, teach, pose,
                       clean, releaseSeen>>
        /\ pc' = "read" /\ pc = "send"
        /\ mailbox' = mailbox \/ (stage = "Off" /\ mailbox' = held)
    BY <1>5, Zenon DEF SendTarget, workerVars, robotVars, historyVars
  <2> QED BY <2>1, Zenon DEF SetpointInv, OnlyOff, OnIsLive, NoCalls, Here
<1>6. CASE WorkerPick
  <2>1. UNCHANGED <<stage, pc, held, suppressed, result, teach, pose, clean>> /\ suppressedPrev' = suppressed
    BY <1>6, Zenon DEF WorkerPick, loopVars, robotVars
  <2>2. (OnlyOff => OnlyOff') /\ (OnIsLive => OnIsLive') /\ (NoCalls => NoCalls')
    BY <1>6, Picks, Zenon DEF OnlyOff, OnIsLive, NoCalls
  <2>3. (releaseSeen /\ suppressed /\ suppressedPrev => mailbox = None /\ last = None)'
    BY <1>6, ZenonT(30) DEF WorkerPick, SetpointInv
  <2>4. ASSUME Here(mailbox), Here(last)
        PROVE  Here(mailbox)' /\ Here(last)' /\ Here(job)'
    BY <1>6, <2>1, <2>4, Zenon DEF WorkerPick, Here
  <2>5. CASE suppressed /\ ~suppressedPrev
    <3>1. mailbox' = None /\ last' = None /\ job' = None
      BY <1>6, <2>5, Zenon DEF WorkerPick
    <3> QED BY <2>1, <2>2, <2>3, <3>1, Zenon DEF SetpointInv, Here
  <2>6. CASE ~(suppressed /\ ~suppressedPrev)
    <3>1. releaseSeen' = releaseSeen
      BY <1>6, <2>6, Zenon DEF WorkerPick, TypeInv, TypeOK
    <3> QED BY <2>1, <2>2, <2>3, <2>4, <3>1, Zenon DEF SetpointInv
  <2> QED BY <2>5, <2>6, Zenon
<1>7. CASE WorkerLifecycle
  <2>1. /\ UNCHANGED <<stage, pc, held, suppressed, suppressedPrev, queue, mailbox, last, job, pose, clean, releaseSeen>>
        /\ call' = None /\ call # None
    BY <1>7, Executes, Zenon
  <2>2. clean /\ stage = "Off" => ~teach'
    BY <1>7, Executes, Zenon DEF SetpointInv, OnlyOff
  <2>3. clean /\ stage = "Quiesce" => ~teach
    BY <2>1, Zenon DEF SetpointInv, NoCalls
  <2>4. clean /\ stage = "Quiesce" /\ teach' => result' # None /\ Len(queue) = 0
    <3>1. SUFFICES ASSUME clean, stage = "Quiesce", teach' PROVE result' # None /\ Len(queue) = 0
      BY Zenon
    <3>2. call.on /\ call.live
      BY <1>7, <2>1, <2>3, <3>1, Executes, ZenonT(30) DEF SetpointInv, OnIsLive
    <3> QED BY <1>7, <3>2, Executes, Zenon
  <2> QED BY <2>1, <2>2, <2>3, <2>4, Zenon DEF SetpointInv, OnlyOff, OnIsLive, NoCalls, Here
<1>8. CASE WorkerSend
  BY <1>8, Zenon DEF SetpointInv, OnlyOff, OnIsLive, NoCalls, Here, WorkerSend, loopVars, sharedVars, historyVars
<1>9. CASE WorkerQuiet
  BY <1>9, Zenon DEF SetpointInv, OnlyOff, OnIsLive, NoCalls, Here, WorkerQuiet, loopVars, sharedVars, historyVars
<1>10. CASE WorkerReadState
  BY <1>10, Zenon DEF SetpointInv, OnlyOff, OnIsLive, NoCalls, Here, WorkerReadState, loopVars, sharedVars,
               robotVars, historyVars
<1>11. CASE HandGuide
  BY <1>11, Zenon DEF SetpointInv, OnlyOff, OnIsLive, NoCalls, HandGuide, loopVars, sharedVars, workerVars, historyVars
<1> QED BY <1>1, <1>2, <1>3, <1>4, <1>5, <1>6, <1>7, <1>8, <1>9, <1>10, <1>11, Zenon
      DEF Next, LoopStep, WorkerStep

(* The inductive invariant.                                                *)
FInv == TypeInv /\ CallInv /\ StageInv /\ TeachInv /\ SampleInv /\ SetpointInv

(* It holds at start-up.                                                   *)
LEMMA FInvInit == Init => FInv
<1> SUFFICES ASSUME Init PROVE FInv
  BY Zenon
<1>1. TypeInv
  <2>1. pc = "read" /\ stage \in Stages /\ held \in 0..MaxPose /\ pose \in 0..MaxPose
    BY MaxPoseAssumption DEF Init, Stages
  <2>2. seen \in Sample /\ cached \in Sample
    BY MaxPoseAssumption DEF Init, Sample
  <2>3. queue \in Seq(Call) /\ Len(queue) <= Capacity
    BY CapacityAssumption DEF Init
  <2> QED BY <2>1, <2>2, <2>3, Zenon DEF Init, TypeInv, TypeOK, Setpoint
<1>2. CallInv /\ StageInv /\ TeachInv
  BY NoneAssumption DEF Init, CallInv, StageInv, TeachInv, Engaged, Issued, Results
<1>3. SampleInv /\ SetpointInv
  BY DEF Init, SampleInv, SetpointInv, OnlyOff, Here
<1> QED BY <1>1, <1>2, <1>3, Zenon DEF FInv

(* Every step keeps it, so it always holds.                                *)
LEMMA FInvAlways == Spec => []FInv
<1>1. FInv /\ [Next]_vars => FInv'
  <2> SUFFICES ASSUME FInv, [Next]_vars PROVE FInv'
    BY Zenon
  <2>1. CASE Next
    BY <2>1, TypeStep, CallStep, StageStep, TeachStep, SampleStep, SetpointStep, Zenon DEF FInv
  <2>2. CASE UNCHANGED vars
    <3>1. UNCHANGED loopVars /\ UNCHANGED sharedVars /\ UNCHANGED workerVars /\ UNCHANGED robotVars /\ UNCHANGED historyVars
      BY <2>2, Zenon DEF vars
    <3> USE DEF loopVars, sharedVars, workerVars, robotVars, historyVars
    <3>2. TypeInv'
      BY <3>1, SMTT(30) DEF FInv, TypeInv, TypeOK
    <3>3. CallInv' /\ StageInv'
      BY <3>1, Zenon DEF FInv, CallInv, Awaited, NoCalls, StageInv, Engaged, Issued, OnlyOff
    <3>4. TeachInv' /\ SampleInv'
      BY <3>1, Zenon DEF FInv, TeachInv, SampleInv, Final
    <3>5. OnlyOff' = OnlyOff /\ OnIsLive' = OnIsLive /\ NoCalls' = NoCalls
      BY <3>1, Zenon DEF OnlyOff, OnIsLive, NoCalls
    <3>6. SetpointInv'
      BY <3>1, <3>5, Zenon DEF FInv, SetpointInv, Here
    <3> QED BY <3>2, <3>3, <3>4, <3>6, Zenon DEF FInv
  <2> QED BY <2>1, <2>2, Zenon
<1> QED BY <1>1, FInvInit, PTL DEF Spec

(* The loop never drops to Off with the arm hand-guidable and no teach_off *)
(* tried, unless teach_on was obeyed without the loop hearing of it: so    *)
(* for any number of sessions, refused, expired or lost calls, and worker  *)
(* queue (abortFreedrive, advanceFreedrive).                               *)
THEOREM HeardTeachingIsAlwaysUndone == Spec => []HeardTeachingIsUndone
<1>1. FInv => HeardTeachingIsUndone
  BY NoneAssumption, Zenon DEF FInv, TeachInv, CallInv, HeardTeachingIsUndone, Results
<1> QED BY <1>1, FInvAlways, PTL

(* Only sendServoJ writes. *)
LEMMA WritesAreSends ==
    ASSUME FInv, Next, Written
    PROVE  WorkerSend /\ ~(latch /\ ~moving)
<1>1. wpc = "act" /\ job # None /\ wpc' = "state" /\ moving' /\ call = None
  BY Zenon DEF Written, FInv, CallInv
<1>2. ~(Command \/ AdvanceFreedrive)
  <2>1. SUFFICES ASSUME Command \/ AdvanceFreedrive PROVE wpc' = wpc
    BY <1>1, Zenon
  <2>2. Phases
    BY <2>1, PhaseKinds, Zenon DEF FInv, TypeInv
  <2> QED BY <2>2, Zenon DEF Phases, Issue, Stop, Go, Elsewhere, workerVars
<1>3. ~(CallReturns \/ CallTimesOut)
  BY <1>1, Resumes, Zenon DEF FInv
<1>4. ~(ReadState \/ PublishSuppression \/ SendTarget \/ HandGuide)
  BY <1>1, Zenon DEF ReadState, PublishSuppression, SendTarget, HandGuide, workerVars
<1>5. ~(WorkerPick \/ WorkerLifecycle \/ WorkerQuiet \/ WorkerReadState)
  BY <1>1, Zenon DEF WorkerPick, WorkerLifecycle, WorkerQuiet, WorkerReadState
<1>6. WorkerSend
  BY <1>2, <1>3, <1>4, <1>5, Zenon DEF Next, LoopStep, WorkerStep
<1>7. moving' = (moving \/ ~latch)
  BY <1>6, Zenon DEF WorkerSend
<1> QED BY <1>1, <1>6, <1>7, Zenon

(* No servo_j is written while the loop reports an active session: the     *)
(* suppression flag, the worker's mailbox and the backend's latch together *)
(* leave no setpoint a way to the controller.                              *)
THEOREM TeachingKeepsTheWireQuiet == Spec => WireQuietWhileTeaching
<1>1. FInv /\ [Next]_vars => [Written => stage # "Active"]_vars
  <2> SUFFICES ASSUME FInv, Next, Written, stage = "Active" PROVE FALSE
    BY Zenon
  <2>1. ~(latch /\ ~moving)
    BY WritesAreSends, Zenon
  <2>2. latch /\ ~moving
    BY Zenon DEF FInv, StageInv, Issued, Written
  <2> QED BY <2>1, <2>2, Zenon
<1> QED BY <1>1, FInvAlways, PTL DEF Spec, WireQuietWhileTeaching

(* Every servo_j written from a confirmed exit to the next session         *)
(* commands the pose the hand left the arm in. (Excepted, as in the        *)
(* property: a session that began before the worker had seen the end of    *)
(* the one before, and an arm in teaching by a call nobody heard           *)
(* answered.)                                                              *)
THEOREM ExitHoldsThePose == Spec => NoSnapAfterExit
<1>1. FInv /\ [Next]_vars => [(Written /\ clean /\ releaseSeen /\ ~unheard) => job = pose]_vars
  <2> SUFFICES ASSUME FInv, Next, Written, clean, releaseSeen, ~unheard PROVE job = pose
    BY Zenon
  <2>1. ~(latch /\ ~moving)
    BY WritesAreSends, Zenon
  <2>2. ~Issued
    BY <2>1, Zenon DEF FInv, StageInv, Written
  <2>3. stage \in {"Off", "Quiesce"}
    BY <2>2, Zenon DEF FInv, TypeInv, TypeOK, Stages, Issued
  <2>4. ~teach
    BY <2>1, Zenon DEF FInv, TeachInv
  <2> QED BY <2>3, <2>4, Zenon DEF FInv, SetpointInv, Here, Written
<1> QED BY <1>1, FInvAlways, PTL DEF Spec, NoSnapAfterExit
-----------------------------------------------------------------------------
(* Recording. *)

(* The episodes of the session folder are numbered without a gap, and the  *)
(* one in memory has the next number.                                      *)
Numbered(d, e) ==
    \E n \in Nat : DOMAIN d = {i \in Nat : i < n} /\ (e # Nothing => e.id = n)

(* A camera without a shape has no images; without a cut frame the images  *)
(* of a camera are those of the last rows.                                 *)
Aligned(e) ==
    \A c \in Cameras :
        /\ e.shape[c] = Nothing => e.images[c] = <<>>
        /\ ~e.spoilt =>
              \A i \in 1..Len(e.images[c]) : e.images[c][i] = e.rows - Len(e.images[c]) + i

(* What is true of an episode and the folder. *)
Sound(e, d) ==
    /\ e \in Episodes \cup {Nothing}
    /\ Numbered(d, e)
    /\ e # Nothing => Aligned(e)

(* The inductive invariant. *)
RecordingInv == takes \in Nat /\ error \in BOOLEAN /\ Sound(episode, disk)

(* The files there stay as they are. *)
Keeps(d, w) == \A i \in DOMAIN d : i \in DOMAIN w /\ w[i] = d[i]

(* State packs the recorder's variables. *)
LEMMA StateFields ==
    /\ State.episode = episode /\ State.error = error /\ State.disk = disk /\ State.takes = takes
    /\ recording(State) <=> episode # Nothing
BY Zenon DEF State, recording

(* _next_episode_id returns the first number that is free. *)
LEMMA NextIdFacts ==
    ASSUME NEW n \in Nat, DOMAIN disk = {i \in Nat : i < n}
    PROVE  nextEpisodeId(State) = n
<1>1. CASE n = 0
  <2>1. DOMAIN disk = {}
    BY <1>1
  <2> QED BY <1>1, <2>1, StateFields, Zenon DEF nextEpisodeId
<1>2. CASE n # 0
  <2> DEFINE D == {i \in Nat : i < n}
             m == CHOOSE m \in D : \A i \in D : i <= m
  <2>1. n - 1 \in D /\ \A i \in D : i <= n - 1
    BY <1>2
  <2>2. m \in D /\ \A i \in D : i <= m
    BY <2>1, Zenon
  <2>3. m = n - 1
    BY <2>1, <2>2
  <2>4. nextEpisodeId(State) = m + 1
    <3>1. DOMAIN disk # {}
      BY <2>1, Zenon
    <3> QED BY <3>1, StateFields, Zenon DEF nextEpisodeId
  <2> HIDE DEF m
  <2> QED BY <2>3, <2>4
<1> QED BY <1>1, <1>2, Zenon

(* RecordingSupervisor.start keeps an episode there is and begins a sound  *)
(* one with a free number.                                                 *)
LEMMA StartFacts ==
    ASSUME RecordingInv, NEW ok \in BOOLEAN, NEW s, s = start(State, ok)
    PROVE  /\ s.disk = disk /\ s.takes \in Nat /\ s.error \in BOOLEAN
           /\ Sound(s.episode, disk)
           /\ episode # Nothing => s.episode = episode
<1>1. takes \in Nat /\ error \in BOOLEAN /\ Sound(episode, disk)
  BY Zenon DEF RecordingInv
<1>2. CASE episode # Nothing
  <2>1. s = State
    BY <1>2, StateFields, Zenon DEF start
  <2> QED BY <1>1, <2>1, StateFields, Zenon
<1>3. CASE episode = Nothing /\ ~ok
  <2>1. s = [State EXCEPT !.error = TRUE]
    BY <1>3, StateFields, Zenon DEF start
  <2>2. s.disk = disk /\ s.takes = takes /\ s.error = TRUE /\ s.episode = episode
    BY <2>1, Zenon DEF State
  <2> QED BY <1>1, <1>3, <2>2, Zenon
<1>4. CASE episode = Nothing /\ ok
  <2> DEFINE e == [id |-> nextEpisodeId(State), take |-> State.takes + 1, rows |-> 0,
                   counted |-> 0, spoilt |-> FALSE,
                   shape |-> [c \in Cameras |-> Nothing],
                   images |-> [c \in Cameras |-> <<>>]]
  <2>1. s = [State EXCEPT !.error = FALSE, !.takes = @ + 1, !.episode = e]
    BY <1>4, StateFields, Zenon DEF start
  <2>2. PICK n \in Nat : DOMAIN disk = {i \in Nat : i < n}
    BY <1>1, Zenon DEF Sound, Numbered
  <2>3. nextEpisodeId(State) = n /\ State.takes + 1 \in Nat
    <3>1. nextEpisodeId(State) = n
      BY <2>2, NextIdFacts, Zenon
    <3>2. takes + 1 \in Nat
      BY <1>1
    <3> QED BY <3>1, <3>2, StateFields, Zenon
  <2>4. e \in Episodes
    BY <2>3 DEF Episodes
  <2>5. e.id = n /\ e.images = [c \in Cameras |-> <<>>]
    BY <2>3, Zenon
  <2> HIDE DEF e
  <2>6. s.disk = disk /\ s.takes = takes + 1 /\ s.error = FALSE /\ s.episode = e
    BY <2>1, Zenon DEF State
  <2>7. Aligned(e)
    <3>1. \A c \in Cameras : e.images[c] = <<>> /\ Len(e.images[c]) = 0
      BY <2>5
    <3>2. \A c \in Cameras : \A i \in 1..Len(e.images[c]) : FALSE
      BY <3>1
    <3> QED BY <3>1, <3>2, Zenon DEF Aligned
  <2>8. Numbered(disk, e)
    BY <2>2, <2>5, Zenon DEF Numbered
  <2>9. takes + 1 \in Nat
    BY <1>1
  <2> QED BY <1>4, <2>4, <2>6, <2>7, <2>8, <2>9, Zenon DEF Sound
<1> QED BY <1>2, <1>3, <1>4, Zenon

(* end_episode adds one file and leaves the others. *)
LEMMA WrittenFacts ==
    ASSUME RecordingInv, episode # Nothing, NEW whole
    PROVE  /\ Numbered(written(State, whole), Nothing)
           /\ Keeps(disk, written(State, whole))
           /\ episode.id \in DOMAIN written(State, whole)
           /\ written(State, whole)[episode.id] = [take |-> episode.take, whole |-> whole]
<1> DEFINE D == DOMAIN disk \cup {episode.id}
           w == [i \in D |-> IF i = episode.id THEN [take |-> episode.take, whole |-> whole]
                             ELSE disk[i]]
<1>1. written(State, whole) = w
  BY StateFields, Zenon DEF written
<1>2. PICK n \in Nat : DOMAIN disk = {i \in Nat : i < n} /\ episode.id = n
  BY Zenon DEF RecordingInv, Sound, Numbered
<1>3. D = {i \in Nat : i < n + 1} /\ n + 1 \in Nat /\ episode.id \notin DOMAIN disk
  BY <1>2
<1>4. DOMAIN w = D
  BY Zenon
<1>5. Numbered(w, Nothing)
  BY <1>3, <1>4, Zenon DEF Numbered
<1>6. Keeps(disk, w)
  <2>1. ASSUME NEW i \in DOMAIN disk PROVE i \in D /\ w[i] = disk[i]
    BY <1>3, Zenon
  <2> QED BY <1>4, <2>1, Zenon DEF Keeps
<1>7. episode.id \in D /\ w[episode.id] = [take |-> episode.take, whole |-> whole]
  BY Zenon
<1> QED BY <1>1, <1>4, <1>5, <1>6, <1>7, Zenon

(* The image of the next row extends a gapless run of images. *)
LEMMA NextRowFollows ==
    ASSUME NEW n \in Nat, NEW u \in Seq(Nat), \A k \in 1..Len(u) : u[k] = n - Len(u) + k,
           NEW m, m = n + 1, NEW v, v = Append(u, n + 1)
    PROVE  \A i \in 1..Len(v) : v[i] = m - Len(v) + i
<1> SUFFICES ASSUME NEW i \in 1..Len(v) PROVE v[i] = m - Len(v) + i
  BY Zenon
<1>1. /\ Len(v) = Len(u) + 1 /\ Len(u) \in Nat /\ v[Len(u) + 1] = n + 1
      /\ \A k \in 1..Len(u) : v[k] = u[k]
  OBVIOUS
<1>2. CASE i = Len(u) + 1
  BY <1>1, <1>2
<1>3. CASE i \in 1..Len(u)
  BY <1>1, <1>3
<1> QED BY <1>1, <1>2, <1>3

(* A row more: each camera gets one image, or none while it has no shape,  *)
(* or the frame is cut short.                                              *)
LEMMA CameraFacts ==
    ASSUME NEW e \in Episodes, Aligned(e), NEW frames \in Bundles,
           NEW f, f = [e EXCEPT !.rows = @ + 1], NEW r, r = recordCameraFrame(f, frames)
    PROVE  r \in Episodes /\ r.id = e.id /\ Aligned(r)
<1> DEFINE done == Reached(f, frames)
           sh(c) == IF c \in done /\ frames[c] # Nothing THEN frames[c] ELSE f.shape[c]
           im(c) == IF c \in done /\ sh(c) # Nothing THEN Append(f.images[c], f.rows) ELSE f.images[c]
<1>1. /\ e.id \in Nat /\ e.take \in Nat /\ e.rows \in Nat /\ e.counted \in Nat
      /\ e.spoilt \in BOOLEAN /\ e.shape \in [Cameras -> Shapes \cup {Nothing}]
      /\ e.images \in [Cameras -> Seq(Nat)] /\ e.rows + 1 \in Nat
  BY DEF Episodes
<1>2. /\ f.id = e.id /\ f.take = e.take /\ f.rows = e.rows + 1 /\ f.counted = e.counted
      /\ f.spoilt = e.spoilt /\ f.shape = e.shape /\ f.images = e.images /\ f \in Episodes
  BY <1>1, Zenon DEF Episodes
<1>3. r = [f EXCEPT !.shape = [c \in Cameras |-> sh(c)],
                    !.images = [c \in Cameras |-> im(c)],
                    !.spoilt = @ \/ done # Cameras,
                    !.counted = IF done = Cameras THEN f.rows ELSE @]
  BY Zenon DEF recordCameraFrame
<1>4. \A c \in Cameras : sh(c) \in Shapes \cup {Nothing} /\ im(c) \in Seq(Nat)
  <2>1. \A c \in Cameras : frames[c] \in Shapes \cup {Nothing} /\ f.shape[c] \in Shapes \cup {Nothing}
    BY <1>1, <1>2, Zenon DEF Bundles
  <2>2. \A c \in Cameras : f.images[c] \in Seq(Nat) /\ Append(f.images[c], f.rows) \in Seq(Nat)
    BY <1>1, <1>2
  <2> QED BY <2>1, <2>2, Zenon
<1> HIDE DEF done, sh, im
<1>5. /\ r.id = f.id /\ r.take = f.take /\ r.rows = f.rows /\ r.spoilt = (f.spoilt \/ done # Cameras)
      /\ r.shape = [c \in Cameras |-> sh(c)] /\ r.images = [c \in Cameras |-> im(c)]
      /\ r.counted = (IF done = Cameras THEN f.rows ELSE f.counted)
  BY <1>2, <1>3, Zenon DEF Episodes
<1>6. r \in Episodes
  <2>1. /\ [c \in Cameras |-> sh(c)] \in [Cameras -> Shapes \cup {Nothing}]
        /\ [c \in Cameras |-> im(c)] \in [Cameras -> Seq(Nat)]
    BY <1>4, Zenon
  <2>2. (f.spoilt \/ done # Cameras) \in BOOLEAN /\ (IF done = Cameras THEN f.rows ELSE f.counted) \in Nat
    BY <1>1, <1>2, Zenon
  <2> QED BY <1>2, <1>3, <2>1, <2>2, Zenon DEF Episodes
<1>7. ASSUME NEW c \in Cameras
      PROVE  /\ r.shape[c] = Nothing => r.images[c] = <<>>
             /\ ~r.spoilt =>
                   \A i \in 1..Len(r.images[c]) : r.images[c][i] = r.rows - Len(r.images[c]) + i
  <2>1. /\ r.shape[c] = sh(c) /\ r.images[c] = im(c) /\ r.rows = e.rows + 1
        /\ ~r.spoilt => c \in done /\ ~e.spoilt
    <3>1. r.shape[c] = sh(c) /\ r.images[c] = im(c) /\ r.rows = e.rows + 1
      <4>1. [x \in Cameras |-> sh(x)][c] = sh(c) /\ [x \in Cameras |-> im(x)][c] = im(c)
        BY Zenon
      <4>2. r.shape[c] = sh(c)
        BY <1>5, <4>1, Zenon
      <4>3. r.images[c] = im(c)
        BY <1>5, <4>1, Zenon
      <4>4. r.rows = e.rows + 1
        BY <1>2, <1>5, Zenon
      <4> QED BY <4>2, <4>3, <4>4, Zenon
    <3>2. ASSUME ~r.spoilt PROVE c \in done /\ ~e.spoilt
      <4>1. ~(f.spoilt \/ done # Cameras)
        BY <1>5, <3>2, Zenon
      <4> QED BY <1>2, <4>1, Zenon
    <3> QED BY <3>1, <3>2, Zenon
  <2>2. /\ e.shape[c] = Nothing => e.images[c] = <<>>
        /\ ~e.spoilt =>
              \A i \in 1..Len(e.images[c]) : e.images[c][i] = e.rows - Len(e.images[c]) + i
    BY Zenon DEF Aligned
  <2>3. CASE sh(c) = Nothing
    <3>1. e.shape[c] = Nothing /\ im(c) = e.images[c]
      BY <1>2, <2>3, Zenon DEF sh, im
    <3>2. im(c) = <<>> /\ \A i \in 1..Len(<<>>) : FALSE
      BY <2>2, <3>1
    <3> QED BY <2>1, <3>2, Zenon
  <2>4. CASE sh(c) # Nothing
    <3>1. ASSUME ~r.spoilt
          PROVE  \A i \in 1..Len(r.images[c]) : r.images[c][i] = r.rows - Len(r.images[c]) + i
      <4>1. r.images[c] = Append(e.images[c], e.rows + 1)
        BY <1>2, <2>1, <2>4, <3>1, Zenon DEF im
      <4>2. e.images[c] \in Seq(Nat) /\ e.rows \in Nat
        BY <1>1, Zenon
      <4>3. \A k \in 1..Len(e.images[c]) : e.images[c][k] = e.rows - Len(e.images[c]) + k
        BY <2>1, <2>2, <3>1, Zenon
      <4>4. r.rows = e.rows + 1
        BY <2>1, Zenon
      <4> DEFINE n == e.rows
                 u == e.images[c]
                 m == r.rows
                 v == r.images[c]
      <4> HIDE DEF n, u, m, v
      <4>5. /\ n \in Nat /\ u \in Seq(Nat) /\ m = n + 1 /\ v = Append(u, n + 1)
            /\ \A k \in 1..Len(u) : u[k] = n - Len(u) + k
        BY <4>1, <4>2, <4>3, <4>4, Zenon DEF n, u, m, v
      <4>6. \A i \in 1..Len(v) : v[i] = m - Len(v) + i
        BY <4>5, NextRowFollows
      <4> QED BY <4>6, Zenon DEF m, v
    <3> QED BY <2>1, <2>4, <3>1, Zenon
  <2> QED BY <2>3, <2>4, Zenon
<1> QED BY <1>2, <1>5, <1>6, <1>7, Zenon DEF Aligned

(* record_frame keeps the episode, its number and its alignment. *)
LEMMA RecordFacts ==
    ASSUME RecordingInv, NEW frames \in Bundles \cup {Nothing}, NEW s, s = recordFrame(State, frames)
    PROVE  /\ s.disk = disk /\ s.takes = takes /\ s.error \in BOOLEAN
           /\ Sound(s.episode, disk)
           /\ episode # Nothing => s.episode # Nothing
<1>1. takes \in Nat /\ error \in BOOLEAN /\ Sound(episode, disk)
  BY Zenon DEF RecordingInv
<1>2. CASE episode = Nothing
  <2>1. s = State
    BY <1>2, StateFields, Zenon DEF recordFrame
  <2> QED BY <1>1, <1>2, <2>1, StateFields, Zenon
<1>3. CASE episode # Nothing
  <2>1. /\ episode \in Episodes /\ Aligned(episode) /\ Numbered(disk, episode)
        /\ Nothing \notin Episodes
    BY <1>1, <1>3, NothingAssumption, Zenon DEF Sound
  <2>2. ASSUME NEW r, r \in Episodes, r.id = episode.id, Aligned(r)
        PROVE  Sound(r, disk) /\ r # Nothing
    BY <2>1, <2>2, Zenon DEF Sound, Numbered
  <2>3. CASE frames = Nothing \/ episode.rows >= MaxRows
    <3> DEFINE r == [episode EXCEPT !.counted = episode.rows]
    <3>1. s = [State EXCEPT !.episode = r]
      BY <1>3, <2>3, StateFields, Zenon DEF recordFrame, State
    <3>2. /\ r \in Episodes /\ r.id = episode.id /\ r.rows = episode.rows /\ r.spoilt = episode.spoilt
          /\ r.shape = episode.shape /\ r.images = episode.images
      BY <2>1, Zenon DEF Episodes
    <3> HIDE DEF r
    <3>3. Aligned(r)
      <4> SUFFICES ASSUME NEW c \in Cameras
                   PROVE  /\ r.shape[c] = Nothing => r.images[c] = <<>>
                          /\ ~r.spoilt =>
                                \A i \in 1..Len(r.images[c]) :
                                    r.images[c][i] = r.rows - Len(r.images[c]) + i
        BY Zenon DEF Aligned
      <4>1. /\ episode.shape[c] = Nothing => episode.images[c] = <<>>
            /\ ~episode.spoilt =>
                  \A i \in 1..Len(episode.images[c]) :
                      episode.images[c][i] = episode.rows - Len(episode.images[c]) + i
        BY <2>1, Zenon DEF Aligned
      <4> QED BY <3>2, <4>1, Zenon
    <3>4. s.disk = disk /\ s.takes = takes /\ s.error = error /\ s.episode = r
      BY <3>1, Zenon DEF State
    <3> QED BY <1>1, <2>2, <3>2, <3>3, <3>4, Zenon
  <2>4. CASE ~(frames = Nothing \/ episode.rows >= MaxRows)
    <3> DEFINE f == [episode EXCEPT !.rows = @ + 1]
               r == recordCameraFrame(f, frames)
               b == error \/ Reached(f, frames) # Cameras
    <3>1. s = [State EXCEPT !.episode = r, !.error = b]
      BY <1>3, <2>4, StateFields, Zenon DEF recordFrame, State
    <3>2. frames \in Bundles
      BY <2>4, Zenon
    <3>3. r \in Episodes /\ r.id = episode.id /\ Aligned(r)
      BY <2>1, <3>2, CameraFacts, Zenon
    <3>4. b \in BOOLEAN
      BY <1>1, Zenon
    <3> HIDE DEF r, b
    <3>5. s.disk = disk /\ s.takes = takes /\ s.error = b /\ s.episode = r
      BY <3>1, Zenon DEF State
    <3> QED BY <2>2, <3>3, <3>4, <3>5, Zenon
  <2> QED BY <2>3, <2>4, Zenon
<1> QED BY <1>2, <1>3, Zenon

(* What a step may do to the folder and the episode. *)
Safely ==
    /\ RecordingInv'
    /\ Keeps(disk, disk')
    /\ episode # Nothing /\ episode' = Nothing /\ up' =>
          \/ error'
          \/ /\ episode.id \in DOMAIN disk'
             /\ disk'[episode.id] = [take |-> episode.take, whole |-> TRUE]

(* The end of an episode, by a stop or at the exit, adds its file. *)
LEMMA StopSafely ==
    ASSUME RecordingInv, NEW ok \in BOOLEAN, becomes(stop(State, ok))
    PROVE  Safely
<1> DEFINE s == stop(State, ok)
<1>1. takes \in Nat /\ error \in BOOLEAN /\ Sound(episode, disk)
  BY Zenon DEF RecordingInv
<1>2. episode' = s.episode /\ error' = s.error /\ disk' = s.disk /\ takes' = s.takes
  BY Zenon DEF becomes
<1>3. CASE episode = Nothing
  <2>1. s = State
    BY <1>3, StateFields, Zenon DEF stop
  <2>2. UNCHANGED <<episode, error, disk, takes>>
    BY <1>2, <2>1, StateFields, Zenon
  <2> QED BY <1>1, <1>3, <2>2, Zenon DEF Safely, RecordingInv, Keeps
<1>4. CASE episode # Nothing
  <2> DEFINE w == written(State, ok)
  <2>1. s = [State EXCEPT !.episode = Nothing, !.error = @ \/ ~ok, !.disk = w]
    BY <1>4, StateFields, Zenon DEF stop
  <2>2. /\ Numbered(w, Nothing) /\ Keeps(disk, w) /\ episode.id \in DOMAIN w
        /\ w[episode.id] = [take |-> episode.take, whole |-> ok]
    BY <1>4, WrittenFacts, Zenon
  <2> HIDE DEF w
  <2>3. s.episode = Nothing /\ s.error = (error \/ ~ok) /\ s.disk = w /\ s.takes = takes
    BY <2>1, Zenon DEF State
  <2>4. episode' = Nothing /\ error' = (error \/ ~ok) /\ disk' = w /\ takes' = takes
    BY <1>2, <2>3, Zenon
  <2>5. RecordingInv'
    BY <1>1, <2>2, <2>4, Zenon DEF RecordingInv, Sound
  <2>6. ok = TRUE \/ error' = TRUE
    BY <1>1, <2>4, Zenon
  <2> QED BY <2>2, <2>4, <2>5, <2>6, Zenon DEF Safely
<1> QED BY <1>3, <1>4, Zenon

(* Every step is safe. *)
LEMMA RecordingStep == RecordingInv /\ [RecordingNext]_recordingVars => Safely
<1> SUFFICES ASSUME RecordingInv, [RecordingNext]_recordingVars PROVE Safely
  BY Zenon
<1>1. takes \in Nat /\ error \in BOOLEAN /\ Sound(episode, disk)
  BY Zenon DEF RecordingInv
<1>2. ASSUME UNCHANGED recorderVars PROVE Safely
  BY <1>1, <1>2, Zenon DEF recorderVars, Safely, RecordingInv, Keeps
<1>3. ASSUME NEW ok \in BOOLEAN, Dispatch(ok) PROVE Safely
  <2>1. CASE Head(batch) = "start"
    <3> DEFINE s == start(State, ok)
    <3>1. episode' = s.episode /\ error' = s.error /\ disk' = s.disk /\ takes' = s.takes
      BY <1>3, <2>1, Zenon DEF Dispatch, handleCommand, becomes
    <3>2. /\ s.disk = disk /\ s.takes \in Nat /\ s.error \in BOOLEAN /\ Sound(s.episode, disk)
          /\ episode # Nothing => s.episode = episode
      BY StartFacts, Zenon
    <3> HIDE DEF s
    <3> QED BY <3>1, <3>2, Zenon DEF Safely, RecordingInv, Keeps
  <2>2. CASE Head(batch) # "start"
    BY <1>3, <2>2, StopSafely, Zenon DEF Dispatch, handleCommand
  <2> QED BY <2>1, <2>2, Zenon
<1>4. ASSUME NEW frames \in Bundles \cup {Nothing}, NEW due \in BOOLEAN, FinishTick(frames, due)
      PROVE  Safely
  <2> DEFINE s == recordFrame(State, frames)
  <2>1. episode' = s.episode /\ error' = s.error /\ disk' = s.disk /\ takes' = s.takes
    BY <1>4, Zenon DEF FinishTick, becomes
  <2>2. /\ s.disk = disk /\ s.takes = takes /\ s.error \in BOOLEAN /\ Sound(s.episode, disk)
        /\ episode # Nothing => s.episode # Nothing
    BY RecordFacts, Zenon
  <2> HIDE DEF s
  <2> QED BY <1>1, <2>1, <2>2, Zenon DEF Safely, RecordingInv, Keeps
<1>5. ASSUME NEW ok \in BOOLEAN, Exit(ok) PROVE Safely
  BY <1>5, StopSafely, Zenon DEF Exit
<1>6. ASSUME NEW writing \in BOOLEAN, Kill(writing) PROVE Safely
  <2>1. ~up' /\ episode' = Nothing /\ error' = FALSE /\ takes' = takes
    BY <1>6, Zenon DEF Kill
  <2>2. CASE writing /\ episode # Nothing
    <3>1. disk' = written(State, FALSE)
      BY <1>6, <2>2, Zenon DEF Kill
    <3>2. Numbered(written(State, FALSE), Nothing) /\ Keeps(disk, written(State, FALSE))
      BY <2>2, WrittenFacts, Zenon
    <3> QED BY <1>1, <2>1, <3>1, <3>2, Zenon DEF Safely, RecordingInv, Sound
  <2>3. CASE ~(writing /\ episode # Nothing)
    <3>1. disk' = disk
      BY <1>6, <2>3, Zenon DEF Kill
    <3> QED BY <1>1, <2>1, <3>1, Zenon DEF Safely, RecordingInv, Sound, Numbered, Keeps
  <2> QED BY <2>2, <2>3, Zenon
<1>7. CASE Restart
  <2>1. episode' = episode /\ disk' = disk /\ takes' = takes /\ error' = FALSE
    BY <1>7, Zenon DEF Restart
  <2> QED BY <1>1, <2>1, Zenon DEF Safely, RecordingInv, Keeps
<1>8. ASSUME \/ Drain \/ (\E ok \in BOOLEAN : Toggle(ok)) \/ StatusArrives \/ StatusLost \/ OtherStatus
             \/ UNCHANGED recordingVars
      PROVE  UNCHANGED recorderVars
  BY <1>8, Zenon DEF Drain, Toggle, StatusArrives, StatusLost, OtherStatus, recordingVars, runnerVars
<1> QED BY <1>2, <1>3, <1>4, <1>5, <1>6, <1>7, <1>8, Zenon DEF RecordingNext

(* A new session folder is empty and no episode is in memory. *)
LEMMA RecordingStart == RecordingInit => RecordingInv
<1> SUFFICES ASSUME RecordingInit PROVE RecordingInv
  BY Zenon
<1>1. episode = Nothing /\ error = FALSE /\ disk = <<>> /\ takes = 0
  BY Zenon DEF RecordingInit
<1>2. DOMAIN disk = {i \in Nat : i < 0} /\ 0 \in Nat
  BY <1>1
<1>3. Numbered(disk, episode)
  BY <1>1, <1>2, Zenon DEF Numbered
<1> QED BY <1>1, <1>2, <1>3, Zenon DEF RecordingInv, Sound

(* recorder.py: whatever the cameras deliver or leave out, the images of a *)
(* camera are those of the last rows of the episode, one to each, unless a *)
(* changed shape has cut a frame short.                                    *)
THEOREM ImagesStayAligned == RecordingSpec => []ImagesContiguous
<1>1. RecordingInv => ImagesContiguous
  BY Zenon DEF RecordingInv, Sound, Aligned, ImagesContiguous
<1>2. RecordingInv /\ [RecordingNext]_recordingVars => RecordingInv'
  BY RecordingStep, Zenon DEF Safely
<1> QED BY <1>1, <1>2, RecordingStart, PTL DEF RecordingSpec

(* recorder.py: no file of the session folder, whole or broken, is ever    *)
(* written over, through any number of exits, kills and restarts.          *)
THEOREM FilesAreKept == RecordingSpec => NeverOverwrites
<1> DEFINE A == \A i \in DOMAIN disk : i \in DOMAIN disk' /\ disk'[i] = disk[i]
<1>1. RecordingInv /\ [RecordingNext]_recordingVars => RecordingInv' /\ [A]_recordingVars
  BY RecordingStep, Zenon DEF Safely, Keeps
<1> QED BY <1>1, RecordingStart, PTL DEF RecordingSpec, NeverOverwrites

(* record_control.py: an episode that ends while the runner lives is on    *)
(* disk as a whole, or the supervisor shows an error.                      *)
THEOREM NoSilentLoss == RecordingSpec => LossIsReported
<1> DEFINE A == episode # Nothing /\ episode' = Nothing /\ up' =>
                    \/ error'
                    \/ /\ episode.id \in DOMAIN disk'
                       /\ disk'[episode.id] = [take |-> episode.take, whole |-> TRUE]
<1>1. RecordingInv /\ [RecordingNext]_recordingVars => RecordingInv' /\ [A]_recordingVars
  BY RecordingStep, Zenon DEF Safely
<1> QED BY <1>1, RecordingStart, PTL DEF RecordingSpec, LossIsReported
=============================================================================
