------------------------------- MODULE ArmInit -------------------------------
(***************************************************************************)
(* Sending an arm to its init pose while a policy runs.                    *)
(*                                                                         *)
(* policy_runner owns a latch per arm (ArmInitOverrideController).  A tick *)
(* of its loop takes the operator's commands, updates the latches from the *)
(* latest state of the server, starts a recovery for an arm that has left  *)
(* the region of interest, and composes one packet: an init_motion request *)
(* for a latched arm, Hold for one that is done or failed, the policy's    *)
(* target for the others.  The tick is one step: it is one thread, and it  *)
(* reads the state once.                                                   *)
(*                                                                         *)
(* rb_servo_server runs the requests (applyInitMotionSequencer) and takes  *)
(* the zero of the force sensor after each (the auto-tare).  rb_gui may    *)
(* also ask the server directly.  Packets may be lost, and the state the   *)
(* runner sees lags behind.                                                *)
(***************************************************************************)
EXTENDS Naturals, FiniteSets

CONSTANTS
    MaxEvents,    \* bound on commands to the runner, commands of rb_gui to the server
                  \* and exits from the region of interest
    Presses,      \* the sets of arms an operator may ask for
    RoiArms,      \* arms that may be seen outside the region of interest
    None

Arms == {"left", "right"}

ASSUME BoundsAssumption == MaxEvents \in Nat
ASSUME ArmsAssumption == RoiArms \subseteq Arms /\ Presses \subseteq (SUBSET Arms) \ {{}}

VARIABLES
    latch,      \* per arm: on, ext(ernal), fail, done (motion_done), rid (request_id)
    posed,      \* arms whose init pose is known
    auto,       \* auto_roi_recover
    tracker,    \* per arm: outside, streak (RoiExitTracker)
    doneArms,   \* done transitions of the last tick
    wire,       \* the packet under way
    exec,       \* the server's two execs: status, arms they drive, request ids
    tare,       \* per arm: state of the zero of its force sensor
    snap,       \* state last published: status, id and tare per arm, arms outside
    events, nextId, finished

runnerVars == <<latch, posed, auto, tracker, doneArms>>
serverVars == <<exec, tare, finished>>
vars == <<runnerVars, wire, serverVars, snap, events, nextId>>

Status == {"idle", "planning", "executing", "done", "failed"}
Moving == {"planning", "executing"}

(* The other fields of a latch that is off are never looked at. *)
offLatch == [on |-> FALSE, ext |-> FALSE, fail |-> FALSE, done |-> FALSE, rid |-> 0]
newLatch(id) == [offLatch EXCEPT !.on = TRUE, !.rid = id]
idleExec == [status |-> "idle", arms |-> {}, id |-> [a \in Arms |-> 0]]

Init ==
    /\ latch = [a \in Arms |-> offLatch]
    /\ posed = {} /\ auto = FALSE
    /\ tracker = [a \in Arms |-> [outside |-> FALSE, streak |-> 0]]
    /\ doneArms = {} /\ wire = None
    /\ exec = [e \in Arms |-> idleExec]
    /\ tare = [a \in Arms |-> "accepted"]
    /\ snap = [status |-> [a \in Arms |-> "idle"], id |-> [a \in Arms |-> 0],
               tare |-> [a \in Arms |-> "accepted"], outside |-> {}]
    /\ events = 0 /\ nextId = 1
    /\ finished = [a \in Arms |-> {}]
-----------------------------------------------------------------------------
(* The latches. *)

(* _start_arms: one new id for every arm of the press, unless a pose is    *)
(* missing.                                                                *)
startArms(l, arms, poses) ==
    IF arms \subseteq poses
    THEN [a \in Arms |-> IF a \in arms
                         THEN newLatch(nextId) ELSE l[a]]
    ELSE l

cancelArms(l, arms) == [a \in Arms |-> IF a \in arms THEN offLatch ELSE l[a]]

(* handle_command, with allow_manual_cancel_after_failed. *)
handleCommand(l, arms, action, poses) ==
    CASE action = "start"  -> startArms(l, arms, poses)
      [] action = "cancel" -> cancelArms(l, arms)
      [] action = "toggle" -> IF \E a \in arms : l[a].on THEN cancelArms(l, arms)
                              ELSE startArms(l, arms, poses)
      [] OTHER -> l

(* update_from_snapshot: an init in flight that is not ours is adopted as  *)
(* external; nothing of another request is looked at before our own motion *)
(* is done; a failure holds the latch, and the zero must be accepted       *)
(* before a finished one is released.                                      *)
adopted(r, s) ==
    IF s.status \in Moving /\ (~r.on \/ (r.ext /\ s.id # r.rid))
    THEN [newLatch(s.id) EXCEPT !.ext = TRUE]
    ELSE r

markDone(r, s) ==
    IF s.tare = "accepted" THEN offLatch ELSE [r EXCEPT !.done = TRUE]

(* Mutant: any Done or Failed is taken for the latch's own. *)
progressedAnyRequest(r, s) ==
    IF ~r.on THEN r
    ELSE IF s.status = "failed" THEN [r EXCEPT !.fail = TRUE, !.done = FALSE]
    ELSE IF ~r.fail /\ (s.status = "done" \/ r.done) THEN markDone(r, s)
    ELSE r

(* Mutant: a later state revives a failed request. *)
progressedRevives(r, s) ==
    IF ~r.on \/ (~r.done /\ s.id # r.rid) THEN r
    ELSE IF s.status = "failed" THEN [r EXCEPT !.fail = TRUE, !.done = FALSE]
    ELSE IF s.status = "done" \/ r.done THEN markDone(r, s)
    ELSE [r EXCEPT !.fail = FALSE]

progressed(r, s) ==
    IF ~r.on \/ (~r.done /\ s.id # r.rid) THEN r
    ELSE IF s.status = "failed" THEN [r EXCEPT !.fail = TRUE, !.done = FALSE]
    ELSE IF ~r.fail /\ (s.status = "done" \/ r.done) THEN markDone(r, s)
    ELSE r

updateFromSnapshot(l) ==
    [a \in Arms |->
        LET s == [status |-> snap.status[a], id |-> snap.id[a], tare |-> snap.tare[a]]
        IN progressed(adopted(l[a], s), s)]

(* RoiExitTracker.update, called at every tick that auto_roi_recover is on.*)
tracked(t, out) ==
    CASE ~out -> [outside |-> FALSE, streak |-> 0]
      [] out /\ t.outside -> t
      [] out /\ ~t.outside /\ t.streak = 0 -> [t EXCEPT !.streak = 1]
      [] OTHER -> [outside |-> TRUE, streak |-> 0]

roiExits(t) == {a \in RoiArms : tracked(t[a], a \in snap.outside).outside /\ ~t[a].outside}

(* Each recovery is a request of its own. *)
roiStarts(l, poses, recover, ids) ==
    LET starts == IF recover THEN {a \in roiExits(tracker) : ~l[a].on /\ a \in poses} ELSE {}
        id(a) == IF a = "right" /\ "left" \in starts THEN ids + 1 ELSE ids
    IN [a \in Arms |-> IF a \in starts THEN newLatch(id(a)) ELSE l[a]]
-----------------------------------------------------------------------------
(* The packet. *)

external(l) == \E a \in Arms : l[a].on /\ l[a].ext

(* Mutant: another client's init does not suspend the policy. *)
composeIntentAlways(l) ==
    [a \in Arms |->
        IF l[a].on /\ ~l[a].ext /\ ~l[a].fail /\ ~l[a].done THEN [kind |-> "init", id |-> l[a].rid]
        ELSE [kind |-> IF l[a].on THEN "hold" ELSE "policy", id |-> 0]]

(* compose_intent and _external_init_intent: while another client's init   *)
(* is in flight only a packet with an init of ours may be sent, for any    *)
(* other would cancel it.                                                  *)
composeIntent(l) ==
    LET ours == {a \in Arms : l[a].on /\ ~l[a].ext /\ ~l[a].fail /\ ~l[a].done}
        payload(a) == IF a \in ours THEN [kind |-> "init", id |-> l[a].rid]
                      ELSE IF l[a].on \/ external(l) THEN [kind |-> "hold", id |-> 0]
                      ELSE [kind |-> "policy", id |-> 0]
    IN IF external(l) /\ ours = {} THEN None ELSE [a \in Arms |-> payload(a)]

(* One tick of run(): commands, snapshot, recoveries, packet. *)
tick(l0, poses, recover, ids) ==
    LET l1 == updateFromSnapshot(l0)
        l2 == roiStarts(l1, poses, recover, ids)
    IN /\ latch' = l2 /\ posed' = poses /\ auto' = recover
       /\ doneArms' = {a \in Arms : l0[a].on /\ ~l1[a].on}
       /\ nextId' = ids + Cardinality({a \in Arms : l2[a] # l1[a]})
       /\ tracker' = IF recover THEN [a \in Arms |-> tracked(tracker[a], a \in snap.outside)]
                     ELSE tracker
       /\ wire' = composeIntent(l2)

Tick ==
    /\ tick(latch, posed, auto, nextId)
    /\ UNCHANGED <<serverVars, snap, events>>

TickWithCommand ==
    /\ events < MaxEvents /\ events' = events + 1
    /\ \E arms \in Presses, action \in {"start", "cancel", "toggle"},
          poses \in {posed, Arms} :
          LET l0 == handleCommand(latch, arms, action, poses)
              pressed == \E a \in arms : l0[a].on /\ l0[a].rid = nextId
          IN tick(l0, poses, auto, IF pressed THEN nextId + 1 ELSE nextId)
    /\ UNCHANGED <<serverVars, snap>>

TickWithConfig ==
    /\ events < MaxEvents /\ events' = events + 1
    /\ tick(latch, posed \cup Arms, ~auto, nextId)
    /\ UNCHANGED <<serverVars, snap>>
-----------------------------------------------------------------------------
(* The server. *)

owns(x, e, a) == x[e].status # "idle" /\ a \in x[e].arms

(* release_init_motion_arm: hand an arm of an exec over to another. *)
released(x, a) ==
    IF x.status = "idle" \/ a \notin x.arms THEN x
    ELSE IF x.arms = {a} THEN idleExec
    ELSE [x EXCEPT !.arms = @ \ {a}]

(* initMotionRequestIsFresh, for requests with the same goal; seen holds   *)
(* exactly for an exec that is not idle.                                   *)
isFresh(x, foot, id) ==
    \/ x.status = "idle"
    \/ /\ \A a \in foot : id[a] # 0
       /\ x.arms # foot \/ \E a \in foot : x.id[a] # id[a]
    \/ /\ \E a \in foot : id[a] = 0
       /\ x.status \notin Moving \/ x.arms # foot

launched(x, foot, id) ==
    IF isFresh(x, foot, id)
    THEN [status |-> "planning", arms |-> foot, id |-> [a \in Arms |-> IF a \in foot THEN id[a] ELSE 0]]
    ELSE x

(* applyInitMotionSequencer for a packet with init_motion on arms: a press *)
(* of both arms is one exec, two presses sharing a packet are two.         *)
requested(x, arms, id) ==
    LET combined == arms = Arms /\ (id["left"] = id["right"] \/ \E a \in Arms : id[a] = 0)
        left == IF ~combined /\ "right" \in arms THEN released(x["left"], "right") ELSE x["left"]
        right == IF combined THEN idleExec
                 ELSE IF "left" \in arms THEN released(x["right"], "left") ELSE x["right"]
    IN [e \in Arms |->
          IF e = "left"
          THEN IF "left" \in arms THEN launched(left, IF combined THEN Arms ELSE {"left"}, id) ELSE left
          ELSE IF "right" \in arms /\ ~combined THEN launched(right, {"right"}, id) ELSE right]

(* armAutoTareAfterInit and stepAutoTareAfterInit: a launch invalidates    *)
(* the zero; once the arm is parked a new one is taken; an init that fails *)
(* or is dropped leaves none.                                              *)
tareAfter(x) ==
    [a \in Arms |->
        LET owned(S) == \E e \in Arms : owns(x, e, a) /\ x[e].status \in S
        IN CASE owned({"planning"}) -> "awaiting"
             [] ~owned({"planning"}) /\ tare[a] # "awaiting" -> tare[a]
             [] OTHER -> IF owned({"executing"}) THEN "awaiting"
                         ELSE IF owned({"done"}) THEN "settling" ELSE "invalid"]

runs(x) == exec' = x /\ tare' = tareAfter(x)

(* A packet arrives: one without init_motion resets every exec. *)
Deliver ==
    /\ wire # None /\ wire' = None
    /\ LET arms == {a \in Arms : wire[a].kind = "init"}
       IN runs(IF arms = {} THEN [e \in Arms |-> idleExec]
               ELSE requested(exec, arms, [a \in Arms |-> wire[a].id]))
    /\ doneArms' = {}
    /\ UNCHANGED <<latch, posed, auto, tracker, finished, snap, events, nextId>>

Lose ==
    /\ wire # None /\ wire' = None
    /\ doneArms' = {}
    /\ UNCHANGED <<latch, posed, auto, tracker, serverVars, snap, events, nextId>>

(* rb_gui's one-shot, which has no request id, or another command of its.  *)
GuiCommand ==
    /\ events < MaxEvents /\ events' = events + 1
    /\ \/ runs([e \in Arms |-> idleExec])
       \/ \E arms \in Presses : runs(requested(exec, arms, [a \in Arms |-> 0]))
    /\ doneArms' = {}
    /\ UNCHANGED <<latch, posed, auto, tracker, wire, finished, snap, nextId>>

(* The planner answers or the move ends: planned, done, timed out. *)
execStep(e, status) ==
    /\ runs([exec EXCEPT ![e].status = status])
    /\ finished' = [a \in Arms |-> IF status = "done" /\ a \in exec[e].arms
                                   THEN finished[a] \cup ({exec[e].id[a]} \ {0}) ELSE finished[a]]
    /\ doneArms' = {}
    /\ UNCHANGED <<latch, posed, auto, tracker, wire, snap, events, nextId>>

SrvPlanned(e) == exec[e].status = "planning" /\ \E s \in {"executing", "done", "failed"} : execStep(e, s)
SrvMoved(e) == exec[e].status = "executing" /\ \E s \in {"done", "failed"} : execStep(e, s)

(* The settled arm's zero is accepted or rejected. *)
SrvTare(a) ==
    /\ tare[a] = "settling"
    /\ \E t \in {"accepted", "invalid"} : tare' = [tare EXCEPT ![a] = t]
    /\ doneArms' = {}
    /\ UNCHANGED <<latch, posed, auto, tracker, wire, exec, finished, snap, events, nextId>>

(* The state fan-out: per arm its first exec that is not idle. *)
SrvPublish ==
    LET owner(a) == IF owns(exec, "left", a) THEN exec["left"]
                    ELSE IF owns(exec, "right", a) THEN exec["right"] ELSE idleExec
    IN /\ \E out \in SUBSET RoiArms :
             /\ out \subseteq snap.outside \/ events < MaxEvents
             /\ events' = IF out \subseteq snap.outside THEN events ELSE events + 1
             /\ snap' = [status |-> [a \in Arms |-> owner(a).status], id |-> [a \in Arms |-> owner(a).id[a]],
                         tare |-> tare, outside |-> out]
       /\ doneArms' = {}
       /\ UNCHANGED <<latch, posed, auto, tracker, wire, serverVars, nextId>>

Next ==
    \/ Tick
    \/ TickWithCommand
    \/ TickWithConfig
    \/ Deliver
    \/ Lose
    \/ GuiCommand
    \/ \E e \in Arms : SrvPlanned(e) \/ SrvMoved(e)
    \/ \E a \in Arms : SrvTare(a)
    \/ SrvPublish

Spec == Init /\ [][Next]_vars
-----------------------------------------------------------------------------
(* Every variable has its type. *)
TypeOK ==
    /\ latch \in [Arms -> [on: BOOLEAN, ext: BOOLEAN, fail: BOOLEAN, done: BOOLEAN, rid: Nat]]
    /\ posed \subseteq Arms /\ auto \in BOOLEAN /\ doneArms \subseteq Arms
    /\ tracker \in [Arms -> [outside: BOOLEAN, streak: 0..1]]
    /\ wire = None \/ wire \in [Arms -> [kind: {"init", "hold", "policy"}, id: Nat]]
    /\ exec \in [Arms -> [status: Status, arms: SUBSET Arms, id: [Arms -> Nat]]]
    /\ tare \in [Arms -> {"accepted", "awaiting", "settling", "invalid"}]

(* A latch is released as done only by the completion of its own request,  *)
(* and only when the state shows an accepted zero: neither the Done of an  *)
(* earlier press nor an unfinished tare lets the policy drive the arm.     *)
ReleasedWhenReady ==
    [][\A a \in doneArms' : latch[a].rid \in finished[a] \cup {0} /\ snap.tare[a] = "accepted"]_vars

(* A failed latch holds its arm until somebody asks for another init.      *)
FailedLatchHolds ==
    [][\A a \in Arms :
         latch[a].on /\ latch[a].fail /\ events' = events =>
            \/ latch'[a].on /\ latch'[a].fail
            \/ latch[a].ext /\ snap.status[a] \in Moving /\ snap.id[a] # latch[a].rid]_vars

(* The runner never sends a packet that cancels an init it can see and did *)
(* not ask for.                                                            *)
SparesObservedInit ==
    [][\A a \in Arms :
         /\ wire' # wire /\ wire' # None /\ \A b \in Arms : wire'[b].kind # "init"
         /\ snap.status[a] \in Moving
         => latch'[a].on /\ ~latch'[a].ext]_vars
=============================================================================
