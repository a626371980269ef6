----------------------------- MODULE RunnerLease -----------------------------
(***************************************************************************)
(* How policy_runner's main loop gets, uses, loses and returns the         *)
(* command-source lease, against the server's arbitration of it.           *)
(*                                                                         *)
(* The runner asks for the lease with its first motion intent and blocks   *)
(* in the readback until the state stream shows it as owner, arms once,    *)
(* streams, notices in the state that the lease is gone, gives it back     *)
(* after a second without motion and on exit.  Packets go to the server in *)
(* order and may be lost; the state it reads lags behind.  rb_gui is the   *)
(* other client.  Leases are enforced.  Times are abstracted to the        *)
(* moments the code compares with: backoff over, idle period over, lease   *)
(* expired, state stale.                                                   *)
(***************************************************************************)
EXTENDS Naturals, Sequences

CONSTANTS
    MaxEvents,   \* bound on what the surroundings do: losses, expiries, rb_gui, the source
    MaxInFlight, \* bound on the packets under way when a tick sends more
    None

ASSUME BoundAssumption == MaxEvents \in Nat /\ MaxInFlight \in Nat

VARIABLES
    pc,        \* "tick", "readback" (in wait_for_active_lease), "exited"
    intent,    \* what the source asks for
    held,      \* lease_acquired
    token,     \* the client's lease_token; 0 for none
    armed,     \* armed_for_motion
    backoff,   \* now < lease_retry_after
    quiet,     \* last_motion_intent_time: "never", "recent", or "idle" for long enough
    wire,      \* packets under way to the server
    lease,     \* active_lease_
    shown,     \* the lease of the command the servo loop reads, which the state carries
    counter,   \* lease_counter_
    snap,      \* the state the runner has last received: lease, latched, fresh
    latched,   \* fault_latched of the server
    events,
    served,    \* history: a motion packet has just been accepted
    astray     \* history: the runner may have lost track of a lease it asked for

runnerVars == <<pc, held, token, armed, backoff, quiet>>
serverVars == <<lease, shown, counter>>
vars == <<runnerVars, intent, wire, serverVars, snap, latched, events, served, astray>>

(* "refused": a motion intent the safety gate refuses.  "unarmable": one   *)
(* it allows although it would refuse ArmMotion, because an arm-init       *)
(* packet is exempt from the requirements of the source.                   *)
Intents == {"none", "hold", "motion", "refused", "unarmable"}
Motion == {"motion", "refused", "unarmable"}

Lease == [active: BOOLEAN, owner: {"none", "runner", "gui"}, token: Nat]
DefaultLease == [active |-> FALSE, owner |-> "none", token |-> 0]

Init ==
    /\ pc = "tick" /\ intent = "none" /\ held = FALSE /\ token = 0 /\ armed = FALSE
    /\ backoff = FALSE /\ quiet = "never" /\ wire = <<>>
    /\ lease = DefaultLease /\ shown = DefaultLease /\ counter = 0
    /\ snap = None /\ latched = FALSE
    /\ events = 0 /\ served = FALSE /\ astray = FALSE
-----------------------------------------------------------------------------
(* The runner. *)

packet(kind, t) == [kind |-> kind, token |-> t]

(* Mutant: the token is not compared. *)
matchesOwner(l, t) == l.active /\ l.owner = "runner"

(* CommandSourceLeaseReadback.matches *)
matches(l, t) == l.active /\ l.owner = "runner" /\ (t = 0 \/ l.token = t)

(* Mutant: only a takeover counts as a loss, not an expiry. *)
lossReasonTakeover == IF snap.lease.active /\ snap.lease.owner # "runner" THEN "foreign" ELSE None

(* _active_lease_loss_reason: "foreign" when somebody else has it. *)
lossReason == IF matches(snap.lease, token) THEN None
              ELSE IF snap.lease.active /\ snap.lease.owner # "runner" THEN "foreign" ELSE "lost"

(* SafetyGate.evaluate on the state of this tick. *)
gateAllows(kind) == snap.fresh /\ ~snap.latched /\ kind \notin {"refused", "none"}

(* The end of a tick that has the lease or needs none: arm once, send. *)
armAndSend(kind, a, t, w) ==
    LET arms == kind \in Motion /\ ~a
    IN IF arms /\ kind = "unarmable"
       THEN armed' = a /\ wire' = w
       ELSE /\ armed' = (a \/ arms)
            /\ wire' = w \o (IF arms THEN <<packet("arm", t)>> ELSE <<>>)
                         \o <<packet(IF kind = "hold" THEN "hold" ELSE "motion", t)>>

(* Mutant: the lease is left to expire. *)
leavesLease == pc' = "exited" /\ held' = FALSE /\ token' = (IF held THEN 0 ELSE token)
               /\ UNCHANGED wire

(* The finally block of run(): the lease is released if it is held. *)
leaves == pc' = "exited" /\ wire' = (IF held THEN Append(wire, packet("release", token)) ELSE wire)
          /\ held' = FALSE /\ token' = IF held THEN 0 ELSE token

(* A tick of run(): the abort on a latched fault, the lease lost, the idle *)
(* release, and the packet of the intent, which may first need the lease.  *)
TickAborts ==
    /\ pc = "tick" /\ snap # None /\ snap.latched
    /\ leaves
    /\ served' = FALSE
    /\ UNCHANGED <<armed, backoff, quiet, intent, serverVars, snap, latched, events, astray>>

Tick ==
    /\ pc = "tick" /\ snap # None /\ ~snap.latched /\ Len(wire) <= MaxInFlight
    /\ LET lost == held /\ lossReason # None
           kept == held /\ ~lost
           moves == intent \in Motion
           gives == kept /\ ~moves /\ quiet = "idle"
           w == IF gives THEN Append(wire, packet("release", token)) ELSE wire
           h == kept /\ ~gives
           t == IF lost \/ gives THEN 0 ELSE token
           a == armed /\ ~lost
           b == IF lost THEN lossReason = "foreign" ELSE backoff /\ ~gives
           sends == gateAllows(intent)
           acquires == sends /\ moves /\ ~h /\ ~b
       IN /\ quiet' = IF moves THEN "recent" ELSE quiet
          /\ held' = h /\ token' = t /\ backoff' = b
          /\ astray' = (astray \/ lost)
          /\ pc' = IF acquires THEN "readback" ELSE "tick"
          /\ IF acquires THEN wire' = Append(w, packet("acquire", t)) /\ armed' = a
             ELSE IF sends /\ (h \/ ~moves) THEN armAndSend(intent, a, t, w)
             ELSE wire' = w /\ armed' = a
    /\ served' = FALSE
    /\ UNCHANGED <<intent, serverVars, snap, latched, events>>

(* wait_for_active_lease: any state received that shows us as the owner    *)
(* ends it, then the tick goes on with what it had checked before.         *)
ReadbackMatches ==
    /\ pc = "readback" /\ matches(snap.lease, 0)
    /\ pc' = "tick" /\ held' = TRUE /\ token' = snap.lease.token
    /\ astray' = FALSE
    /\ armAndSend(intent, armed, snap.lease.token, wire)
    /\ served' = FALSE
    /\ UNCHANGED <<backoff, quiet, intent, serverVars, snap, latched, events>>

ReadbackTimesOut ==
    /\ pc = "readback" /\ ~matches(snap.lease, 0)
    /\ pc' = "tick" /\ backoff' = TRUE /\ astray' = TRUE
    /\ served' = FALSE
    /\ UNCHANGED <<held, token, armed, quiet, intent, wire, serverVars, snap, latched, events>>

BackoffEnds ==
    /\ backoff /\ backoff' = FALSE
    /\ served' = FALSE
    /\ UNCHANGED <<pc, held, token, armed, quiet, intent, wire, serverVars, snap, latched, events, astray>>

IdlePeriodEnds ==
    /\ pc = "tick" /\ quiet = "recent" /\ intent \notin Motion /\ quiet' = "idle"
    /\ served' = FALSE
    /\ UNCHANGED <<pc, held, token, armed, backoff, intent, wire, serverVars, snap, latched, events, astray>>
-----------------------------------------------------------------------------
(* The server's arbitration (parseMessage), for the two clients. *)

owns(who) == lease.active /\ lease.owner = who
tokenMatches(t) == t = 0 \/ (lease.active /\ t = lease.token)

passesLeaseCheck(who, p) ==
    /\ owns(who) => tokenMatches(p.token)
    /\ p.kind \in {"acquire", "arm"} => (lease.active => owns(who))
    /\ p.kind = "motion" => owns(who) /\ tokenMatches(p.token)
    /\ p.kind = "release" => (lease.active => owns(who))

grantedLease(who, p) ==
    [active |-> TRUE, owner |-> who,
     token |-> IF p.token # 0 THEN p.token
               ELSE IF lease.owner = who /\ lease.token # 0 THEN lease.token ELSE counter + 1]

(* A lifecycle command (ArmMotion) replaces the streaming command by a     *)
(* Hold that carries no lease.                                             *)
receive(who, p) ==
    LET grants == p.kind \in {"acquire", "arm", "motion"}
        l == IF grants THEN grantedLease(who, p) ELSE IF p.kind = "release" THEN DefaultLease ELSE lease
    IN IF passesLeaseCheck(who, p)
       THEN /\ lease' = l
            /\ shown' = IF p.kind = "arm" THEN DefaultLease ELSE l
            /\ counter' = IF l.token > counter THEN l.token ELSE counter
       ELSE UNCHANGED serverVars

Deliver ==
    /\ wire # <<>> /\ wire' = Tail(wire)
    /\ receive("runner", Head(wire))
    /\ LET passes == passesLeaseCheck("runner", Head(wire))
       IN /\ served' = (passes /\ Head(wire).kind = "motion")
          /\ astray' = (astray \/ (~passes /\ Head(wire).kind = "release"))
    /\ UNCHANGED <<runnerVars, intent, snap, latched, events>>

Publish ==
    /\ snap' = [lease |-> shown, latched |-> latched, fresh |-> TRUE]
    /\ served' = FALSE
    /\ UNCHANGED <<runnerVars, intent, wire, serverVars, latched, events, astray>>
-----------------------------------------------------------------------------
(* The surroundings. *)

event == events < MaxEvents /\ events' = events + 1 /\ served' = FALSE

Lose ==
    /\ event
    /\ wire # <<>> /\ wire' = Tail(wire) /\ astray' = TRUE
    /\ UNCHANGED <<runnerVars, intent, serverVars, snap, latched>>

Expire ==
    /\ lease.active /\ served' = FALSE
    /\ events' = IF lease.owner = "runner" /\ pc # "exited" THEN events + 1 ELSE events
    /\ events' <= MaxEvents
    /\ lease' = [lease EXCEPT !.active = FALSE] /\ shown' = [shown EXCEPT !.active = FALSE]
    /\ UNCHANGED <<runnerVars, intent, wire, counter, snap, latched, astray>>

GuiCommand ==
    /\ event
    /\ \E kind \in {"acquire", "arm", "release"} : receive("gui", packet(kind, 0))
    /\ UNCHANGED <<runnerVars, intent, wire, snap, latched, astray>>

SourceAsks ==
    /\ event /\ pc = "tick"
    /\ intent' \in Intents \ {intent}
    /\ UNCHANGED <<runnerVars, wire, serverVars, snap, latched, astray>>

StateGoesStale ==
    /\ event /\ snap # None /\ snap' = [snap EXCEPT !.fresh = FALSE]
    /\ UNCHANGED <<runnerVars, intent, wire, serverVars, latched, astray>>

FaultLatches ==
    /\ event /\ ~latched /\ latched' = TRUE
    /\ UNCHANGED <<runnerVars, intent, wire, serverVars, snap, astray>>

(* KeyboardInterrupt, wherever the loop is, and the end of the source      *)
(* (terminal_abort_reason, completion_reason).                             *)
Interrupt ==
    /\ event /\ pc # "exited"
    /\ leaves
    /\ astray' = (astray \/ pc = "readback")
    /\ UNCHANGED <<armed, backoff, quiet, intent, serverVars, snap, latched>>

Next ==
    \/ TickAborts \/ Tick \/ ReadbackMatches \/ ReadbackTimesOut \/ BackoffEnds \/ IdlePeriodEnds
    \/ Deliver \/ Publish
    \/ Lose \/ Expire \/ GuiCommand \/ SourceAsks \/ StateGoesStale \/ FaultLatches \/ Interrupt

Spec == Init /\ [][Next]_vars

(* The loop, the network and the state stream go on; every timeout passes. *)
FairSpec ==
    /\ Spec
    /\ WF_vars(Tick) /\ WF_vars(TickAborts) /\ WF_vars(ReadbackMatches) /\ WF_vars(BackoffEnds)
    /\ WF_vars(ReadbackTimesOut) /\ WF_vars(Deliver) /\ WF_vars(Publish)
    /\ WF_vars(Expire /\ lease.owner = "gui")
-----------------------------------------------------------------------------
(* Every variable has its type. *)
TypeOK ==
    /\ pc \in {"tick", "readback", "exited"} /\ intent \in Intents
    /\ held \in BOOLEAN /\ token \in Nat /\ armed \in BOOLEAN /\ backoff \in BOOLEAN
    /\ quiet \in {"never", "recent", "idle"}
    /\ wire \in Seq([kind: {"acquire", "release", "arm", "hold", "motion"}, token: Nat])
    /\ lease \in Lease /\ shown \in Lease /\ counter \in Nat
    /\ snap = None \/ snap \in [lease: Lease, latched: BOOLEAN, fresh: BOOLEAN]
    /\ held => token # 0

(* A runner that has exited does not keep the lease: once its packets have *)
(* arrived the server has it back, unless a packet was lost or the runner  *)
(* had, by a timeout or a misleading state, lost track of its request.     *)
LeaseReturned ==
    pc = "exited" /\ wire = <<>> /\ ~astray => ~owns("runner")

(* A token taken from a state that predates a release is noticed and       *)
(* replaced; the runner does not go on sending what the server rejects.    *)
StaleTokenDropped ==
    (held /\ token # lease.token) ~> (~held \/ token = lease.token)

(* As long as the source asks for motion, motion packets are accepted      *)
(* again and again, whatever was lost, expired or taken over before.       *)
MotionGetsThrough ==
    <>[](intent = "motion" /\ pc # "exited" /\ ~latched) => []<>served
=============================================================================
