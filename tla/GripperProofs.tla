--------------------------- MODULE GripperProofs ---------------------------
(***************************************************************************)
(* Proofs about the gripper server, for every contact-close configuration, *)
(* every step period and any number of commands and failing writes.        *)
(***************************************************************************)
EXTENDS Gripper, TLAPS

States == {"idle", "seeking", "holding", "empty"}

(* The target of the last command, its age and its deadman. *)
Target == effectiveTarget(cmd, cmdAge, deadman)

(* The state of ContactCloseController. *)
Contact == [state: States, seek: Int, latch: Int \cup {None}, hold: 0..Sustain, samples: 0..Sustain]

(* The accumulated time over the threshold is backed by samples, and a     *)
(* search that has ended has its latch.                                    *)
Backed(c) ==
    /\ c.hold <= c.samples * MaxDt
    /\ c.state = "holding" => c.samples * MaxDt >= Sustain
    /\ c.state \in {"holding", "empty"} => c.latch \in Int

(* The inductive invariant: Backed for the controller's state, and while   *)
(* contact-close is engaged the target is inside the band and the drive is *)
(* what the controller makes of it.                                        *)
GInv ==
    /\ settings \in [onStale: {"hold", "open", "close"}, contact: BOOLEAN]
    /\ cmd \in Openings \cup {None}
    /\ Here \in Contact /\ Backed(Here)
    /\ settings.contact /\ state = "seeking" => seek >= MinOpening
    /\ settings.contact /\ state # "idle" =>
          Target \in Openings /\ Target <= ArmBelow + Hysteresis /\ drive = contactTarget(Here, Target)

(* The constants are numbers. *)
LEMMA Numbers ==
    /\ Full \in Nat /\ Stop \in Nat /\ ArmBelow \in Nat /\ Hysteresis \in Nat /\ MinOpening \in Nat
    /\ Squeeze \in Nat /\ Sustain \in Nat /\ Creep \in Nat /\ MaxDt \in Nat /\ MaxDt > 0
    /\ Readings \subseteq Int \cup {None}
BY NumberAssumption, RangeAssumption

(* One more sample is backed by one more step of the longest length. *)
LEMMA OneMoreSample ==
    ASSUME NEW n \in Nat, NEW m \in Nat
    PROVE  (n + 1) * m = n * m + m /\ n * m \in Nat
OBVIOUS

(* As many samples as units of time are enough. *)
LEMMA ManySamples ==
    ASSUME NEW n \in Nat, NEW m \in Nat, m > 0
    PROVE  n * m >= n
OBVIOUS

(* effective_targets returns a target or none. *)
LEMMA TargetType ==
    ASSUME NEW c \in Openings \cup {None}, NEW age, NEW dead
    PROVE  effectiveTarget(c, age, dead) \in Openings \cup {None}
BY Numbers DEF effectiveTarget, Openings

(* A search that begins. *)
Seeking(h, t) == [h EXCEPT !.state = "seeking", !.seek = t, !.hold = 0]

(* Its state, as armedBy leaves it. *)
LEMMA SeekFacts ==
    ASSUME NEW h \in Contact, NEW t \in Int
    PROVE  Seeking(h, t) \in Contact /\ Seeking(h, t).state = "seeking" /\ Seeking(h, t).hold = 0
<1>1. /\ h.state \in States /\ h.seek \in Int /\ h.latch \in Int \cup {None}
      /\ h.hold \in 0..Sustain /\ h.samples \in 0..Sustain
  BY Zenon DEF Contact
<1>2. PICK s : s = [h EXCEPT !.state = "seeking", !.seek = t, !.hold = 0]
  BY Zenon
<1>3. s = [state |-> "seeking", seek |-> t, latch |-> h.latch, hold |-> 0, samples |-> h.samples]
  BY <1>2, Zenon DEF Contact
<1>4. s \in Contact /\ s.state = "seeking" /\ s.hold = 0
  BY <1>1, <1>3, Numbers DEF Contact, States
<1> QED BY <1>2, <1>4, Zenon DEF Seeking

(* What looking at the command does to the controller. *)
LEMMA ArmedFacts ==
    ASSUME GInv, NEW t \in Openings \cup {None}
    PROVE  /\ armedBy(t) \in Contact /\ Backed(armedBy(t))
           /\ armedBy(t).state # "idle" => t \in Openings /\ t <= ArmBelow + Hysteresis
           /\ armedBy(t).state \in {"holding", "empty"} => armedBy(t) = Here
           /\ state # "idle" /\ armedBy(t).state # "idle" => armedBy(t) = Here
<1> USE Numbers
<1>1. Here \in Contact /\ Backed(Here) /\ Here.state = state
  BY Zenon DEF GInv, Here
<1>2. Idle \in Contact /\ Backed(Idle) /\ Idle.state = "idle"
  <2>1. 0 * MaxDt = 0
    OBVIOUS
  <2> QED BY <1>1, <2>1 DEF Idle, Contact, Backed, Here, States
<1>3. CASE t = None
  BY <1>2, <1>3, Zenon DEF armedBy
<1>4. CASE t # None /\ state = "idle" /\ t <= ArmBelow
  <2> DEFINE s == Seeking(Here, t)
  <2>1. armedBy(t) = s
    BY <1>4 DEF armedBy, Openings, Seeking
  <2>2. s \in Contact /\ s.state = "seeking" /\ s.hold = 0
    BY <1>1, <1>4, SeekFacts DEF Openings
  <2> HIDE DEF s
  <2>3. Backed(s)
    <3>1. s.samples \in Nat
      BY <2>2 DEF Contact
    <3> QED BY <2>2, <3>1, OneMoreSample DEF Backed
  <2> QED BY <1>4, <2>1, <2>2, <2>3 DEF Openings
<1>5. CASE t # None /\ state = "idle" /\ ~(t <= ArmBelow)
  BY <1>1, <1>5 DEF armedBy, Openings
<1>6. CASE t # None /\ state # "idle" /\ t <= ArmBelow + Hysteresis
  BY <1>1, <1>6 DEF armedBy, Openings
<1>7. CASE t # None /\ state # "idle" /\ ~(t <= ArmBelow + Hysteresis)
  BY <1>2, <1>7 DEF armedBy, Openings
<1> QED BY <1>3, <1>4, <1>5, <1>6, <1>7, Zenon

(* One step of the search: a latch has its samples behind it, and short of *)
(* one the jaw only creeps on.                                             *)
LEMMA SearchFacts ==
    ASSUME NEW c \in Contact, c.state = "seeking", c.hold <= c.samples * MaxDt,
           NEW over \in BOOLEAN, NEW m \in Int \cup {None}, NEW dt \in 0..MaxDt,
           NEW s, s = searched(c, over, m, dt)
    PROVE  /\ s \in Contact /\ Backed(s)
           /\ s.state \in {"seeking", "holding", "empty"}
           /\ s.seek \in Int
           /\ s.state # "holding" => s.seek >= MinOpening /\ (c.seek >= MinOpening => s.seek <= c.seek)
           /\ s.state = "empty" => s.latch = MinOpening
<1> USE Numbers
<1> DEFINE h == IF over THEN min(c.hold + dt, Sustain) ELSE 0
           n == IF over THEN min(c.samples + 1, Sustain) ELSE 0
           sought == max(MinOpening, c.seek - Creep * dt)
           empty == sought <= MinOpening /\ m # None /\ m <= MinOpening + 1
           closed == max(MinOpening, (IF m # None THEN m ELSE c.seek) - Squeeze)
<1>1. /\ c.state \in States /\ c.seek \in Int /\ c.latch \in Int \cup {None}
      /\ c.hold \in 0..Sustain /\ c.samples \in 0..Sustain
  BY Zenon DEF Contact
<1>2. h \in 0..Sustain /\ n \in 0..Sustain
  BY <1>1 DEF min
<1>3. h <= n * MaxDt
  <2>1. CASE ~over
    BY <2>1, OneMoreSample
  <2>2. CASE over /\ c.samples + 1 <= Sustain
    <3>1. n = c.samples + 1 /\ h <= c.hold + dt
      BY <1>1, <2>2 DEF min
    <3>2. (c.samples + 1) * MaxDt = c.samples * MaxDt + MaxDt /\ c.samples * MaxDt \in Nat
      BY <1>1, OneMoreSample
    <3> HIDE DEF h, n
    <3> QED BY <1>1, <1>2, <3>1, <3>2
  <2>3. CASE over /\ ~(c.samples + 1 <= Sustain)
    <3>1. n = Sustain /\ h <= Sustain
      BY <1>1, <2>3 DEF min
    <3>2. Sustain * MaxDt >= Sustain /\ Sustain * MaxDt \in Nat
      BY ManySamples, OneMoreSample, Zenon
    <3> HIDE DEF h, n
    <3> QED BY <1>2, <3>1, <3>2
  <2> QED BY <2>1, <2>2, <2>3, Zenon
<1>4. /\ sought \in Int /\ sought >= MinOpening
      /\ c.seek >= MinOpening => sought <= c.seek
  <2>1. Creep * dt \in Nat
    BY OneMoreSample
  <2> QED BY <1>1, <2>1 DEF max
<1>5. closed \in Int
  BY <1>1 DEF max
<1>6. n * MaxDt \in Nat
  BY <1>2, OneMoreSample
<1>7. CASE over /\ h >= Sustain
  <2>1. s = [c EXCEPT !.state = "holding", !.hold = h, !.samples = n, !.latch = closed]
    BY <1>7, Zenon DEF searched
  <2> HIDE DEF h, n, sought, empty, closed
  <2>2. s = [state |-> "holding", seek |-> c.seek, latch |-> closed, hold |-> h, samples |-> n]
    BY <2>1, Zenon DEF Contact
  <2>3. s \in Contact
    BY <1>1, <1>2, <1>5, <2>2 DEF Contact, States
  <2>4. Backed(s)
    <3>1. h \in Int /\ Sustain \in Int /\ h >= Sustain
      BY <1>2, <1>7
    <3>2. n * MaxDt >= Sustain
      BY <3>1, <1>3, <1>6
    <3> QED BY <1>3, <1>5, <3>2, <2>2 DEF Backed
  <2> QED BY <1>1, <2>2, <2>3, <2>4
<1>8. CASE ~(over /\ h >= Sustain)
  <2>1. s = [c EXCEPT !.hold = h, !.seek = sought, !.samples = n,
                      !.state = IF empty THEN "empty" ELSE @,
                      !.latch = IF empty THEN MinOpening ELSE @]
    BY <1>8, Zenon DEF searched
  <2> HIDE DEF h, n, sought, empty, closed
  <2>2. s = [state |-> IF empty THEN "empty" ELSE c.state, seek |-> sought,
             latch |-> IF empty THEN MinOpening ELSE c.latch, hold |-> h, samples |-> n]
    BY <2>1, Zenon DEF Contact
  <2>3. s \in Contact
    BY <1>1, <1>2, <1>4, <2>2 DEF Contact, States
  <2>4. Backed(s)
    BY <1>3, <2>2 DEF Backed
  <2> QED BY <1>1, <1>4, <2>2, <2>3, <2>4
<1> QED BY <1>7, <1>8, Zenon

(* The controller after one step towards target t. *)
After(t, over, m, passed) ==
    IF armedBy(t).state = "seeking" THEN searched(armedBy(t), over, m, passed) ELSE armedBy(t)

(* It is well formed and backed; an engaged controller has its target in   *)
(* the band, and a seek target that is not below the floor.                *)
LEMMA AfterFacts ==
    ASSUME GInv, NEW t \in Openings \cup {None}, NEW over \in BOOLEAN, NEW m \in Int \cup {None},
           NEW passed \in 0..MaxDt, NEW s, s = After(t, over, m, passed)
    PROVE  /\ s \in Contact /\ Backed(s)
           /\ s.state = "seeking" => s.seek >= MinOpening
           /\ s.state # "idle" => t \in Openings /\ t <= ArmBelow + Hysteresis
<1> DEFINE a == armedBy(t)
<1>1. /\ a \in Contact /\ Backed(a)
      /\ a.state # "idle" => t \in Openings /\ t <= ArmBelow + Hysteresis
  BY ArmedFacts, Zenon
<1> HIDE DEF a
<1>2. CASE a.state = "seeking"
  <2>1. s = searched(a, over, m, passed)
    BY <1>2, Zenon DEF After, a
  <2>2. a.hold <= a.samples * MaxDt
    BY <1>1, Zenon DEF Backed
  <2> QED BY <1>1, <1>2, <2>1, <2>2, SearchFacts, Zenon
<1>3. CASE a.state # "seeking"
  <2>1. s = a
    BY <1>3, Zenon DEF After, a
  <2> QED BY <1>1, <1>3, <2>1, Zenon
<1> QED BY <1>2, <1>3, Zenon

(* What a step of the server does, whichever of the three it is. *)
LEMMA StepFacts ==
    ASSUME GInv, NEW dt \in 1..MaxDt, NEW packet \in Packets \cup {None}, NEW over \in BOOLEAN,
           NEW m \in Readings, NEW works \in BOOLEAN, step(dt, packet, over, m, works)
    PROVE  /\ settings' = settings /\ cmd' \in Openings \cup {None} /\ Target' \in Openings \cup {None}
           /\ ~settings.contact => Here' = Here
           /\ settings.contact =>
                 /\ drive' = contactTarget(Here', Target')
                 /\ \E passed \in 0..MaxDt : Here' = After(Target', over, m, passed)
<1> DEFINE c == IF packet # None THEN packet.target ELSE cmd
           age == IF packet # None THEN 0 ELSE min(cmdAge + dt, StaleTimeout + 1)
           dead == IF packet # None THEN packet.deadman ELSE deadman
           t == effectiveTarget(c, age, dead)
           passed == IF first THEN 0 ELSE dt
           s == IF settings.contact THEN After(t, over, m, passed) ELSE Here
<1>1. /\ cmd' = c /\ cmdAge' = age /\ deadman' = dead /\ settings' = settings
      /\ state' = s.state /\ seek' = s.seek /\ latch' = s.latch /\ hold' = s.hold /\ samples' = s.samples
      /\ drive' = IF settings.contact THEN contactTarget(s, t) ELSE t
  BY ZenonT(30) DEF step, After
<1>2. c \in Openings \cup {None}
  BY Zenon DEF GInv, Packets
<1>3. t \in Openings \cup {None}
  BY <1>2, TargetType, Zenon
<1>4. passed \in 0..MaxDt /\ m \in Int \cup {None}
  BY Numbers
<1> HIDE DEF c, age, dead, passed
<1>5. Target' = t
  BY <1>1, Zenon DEF Target, effectiveTarget
<1> HIDE DEF t
<1>6. s \in Contact
  <2>1. Here \in Contact
    BY Zenon DEF GInv
  <2>2. CASE settings.contact
    BY <1>3, <1>4, <2>2, AfterFacts, Zenon
  <2> QED BY <2>1, <2>2, Zenon
<1> HIDE DEF s
<1>7. Here' = s
  BY <1>1, <1>6, Zenon DEF Here, Contact
<1>8. ~settings.contact => s = Here
  BY Zenon DEF s
<1>9. settings.contact => s = After(t, over, m, passed)
  BY Zenon DEF s
<1> QED BY <1>1, <1>2, <1>3, <1>4, <1>5, <1>7, <1>8, <1>9, SMTT(30)

(* Every step of the server is one of StepFacts. *)
LEMMA NextFacts ==
    ASSUME GInv, GripperNext
    PROVE  \E over \in BOOLEAN, m \in Int \cup {None} :
           /\ settings' = settings /\ cmd' \in Openings \cup {None} /\ Target' \in Openings \cup {None}
           /\ ~settings.contact => Here' = Here
           /\ settings.contact =>
                 /\ drive' = contactTarget(Here', Target')
                 /\ \E passed \in 0..MaxDt : Here' = After(Target', over, m, passed)
<1>1. PICK dt \in 1..MaxDt, packet \in Packets \cup {None}, over \in BOOLEAN, m \in Readings, works \in BOOLEAN :
         step(dt, packet, over, m, works)
  BY Zenon DEF GripperNext, Step, StepWithCommand, StepWriteFails
<1>2. m \in Int \cup {None}
  BY Numbers, Zenon
<1> QED BY <1>1, <1>2, StepFacts

(* GInv is inductive. *)
LEMMA GInvInductive == GInv /\ [GripperNext]_gripperVars => GInv'
<1> SUFFICES ASSUME GInv, [GripperNext]_gripperVars PROVE GInv'
  BY Zenon
<1>1. CASE UNCHANGED gripperVars
  BY <1>1 DEF GInv, gripperVars, contactVars, Here, Backed, Target, effectiveTarget, contactTarget
<1>2. CASE GripperNext
  <2>1. PICK over \in BOOLEAN, m \in Int \cup {None} :
           /\ settings' = settings /\ cmd' \in Openings \cup {None} /\ Target' \in Openings \cup {None}
           /\ ~settings.contact => Here' = Here
           /\ settings.contact =>
                 /\ drive' = contactTarget(Here', Target')
                 /\ \E passed \in 0..MaxDt : Here' = After(Target', over, m, passed)
    BY <1>2, NextFacts, Zenon
  <2>2. Here'.state = state' /\ Here'.seek = seek'
    BY Zenon DEF Here
  <2>3. CASE settings.contact
    <3>1. /\ Here' \in Contact /\ Backed(Here')
          /\ Here'.state = "seeking" => Here'.seek >= MinOpening
          /\ Here'.state # "idle" => Target' \in Openings /\ Target' <= ArmBelow + Hysteresis
      BY <2>1, <2>3, AfterFacts, Zenon
    <3> QED BY <2>1, <2>2, <2>3, <3>1, Zenon DEF GInv
  <2>4. CASE ~settings.contact
    <3>1. Here' \in Contact /\ Backed(Here')
      BY <2>1, <2>4, Zenon DEF GInv
    <3> QED BY <2>1, <2>4, <3>1, Zenon DEF GInv
  <2> QED BY <2>3, <2>4, Zenon
<1> QED BY <1>1, <1>2, Zenon

(* And holds at the start. *)
LEMMA GInvInit == GripperInit => GInv
<1> SUFFICES ASSUME GripperInit PROVE GInv
  BY Zenon
<1>1. Here = [state |-> "idle", seek |-> 0, latch |-> None, hold |-> 0, samples |-> 0]
  BY Zenon DEF GripperInit, Here
<1>2. Here \in Contact
  BY <1>1, Numbers DEF Contact, States
<1>3. Backed(Here)
  <2>1. 0 * MaxDt = 0
    BY Numbers
  <2> QED BY <1>1, <2>1 DEF Backed
<1> QED BY <1>2, <1>3, Zenon DEF GripperInit, GInv

(* contact_close.py: whatever its settings and the sensors report, a grip  *)
(* is only latched on an unbroken run of samples over the threshold, long  *)
(* enough for sustain_ms.                                                  *)
THEOREM GripIsRealContact == GripperSpec => []GripIsSustained
<1>1. GInv => GripIsSustained
  BY Zenon DEF GInv, Backed, Here, GripIsSustained
<1> QED BY <1>1, GInvInit, GInvInductive, PTL DEF GripperSpec

(* contact_close.py: with contact-close engaged only a new target, or the  *)
(* moment of the latch, drives the jaw further open.                       *)
THEOREM NeverOpensByItself == GripperSpec => OnlyCommandOpens
<1> DEFINE Opens == settings.contact /\ state # "idle" /\ drive # None /\ drive' > drive =>
                       \/ effectiveTarget(cmd', cmdAge', deadman') # effectiveTarget(cmd, cmdAge, deadman)
                       \/ state = "seeking" /\ state' = "holding"
<1>1. GInv /\ [GripperNext]_gripperVars => [Opens]_gripperVars
  <2> SUFFICES ASSUME GInv, GripperNext, settings.contact, state # "idle",
                      effectiveTarget(cmd', cmdAge', deadman') = effectiveTarget(cmd, cmdAge, deadman),
                      ~(state = "seeking" /\ state' = "holding")
               PROVE  ~(drive' > drive)
    BY Zenon
  <2>1. PICK over \in BOOLEAN, m \in Int \cup {None} :
           /\ settings' = settings /\ Target' \in Openings \cup {None}
           /\ drive' = contactTarget(Here', Target')
           /\ \E passed \in 0..MaxDt : Here' = After(Target', over, m, passed)
    BY NextFacts, Zenon
  <2>2. PICK passed \in 0..MaxDt : Here' = After(Target', over, m, passed)
    BY <2>1, Zenon
  <2>3. Target' = Target
    BY <2>1, Zenon DEF Target, effectiveTarget
  <2>4. /\ Target \in Openings /\ Target <= ArmBelow + Hysteresis /\ drive = contactTarget(Here, Target)
        /\ Here \in Contact /\ Backed(Here)
        /\ state = "seeking" => seek >= MinOpening
    BY Zenon DEF GInv
  <2>5. /\ Here.state = state /\ Here.seek = seek /\ Here.latch = latch
        /\ Here'.state = state'
    BY Zenon DEF Here
  <2>6. Target \in Int
    BY <2>4, Numbers DEF Openings
  <2>t. PICK t \in Int : t = Target
    BY <2>6, Zenon
  <2>s. PICK s : s = Here'
    BY Zenon
  <2>7. drive' = contactTarget(s, t) /\ s = After(t, over, m, passed) /\ s.state = state'
    BY <2>1, <2>2, <2>3, <2>5, <2>t, <2>s, SMTT(30)
  <2>8. CASE t = None
    BY <2>4, <2>6, <2>t, <2>7, <2>8 DEF contactTarget
  <2>9. CASE t # None
    <3>1. armedBy(t) = Here
      BY <2>4, <2>6, <2>t, <2>9, Numbers DEF armedBy, Openings
    <3>2. CASE state = "seeking"
      <4>1. s = searched(Here, over, m, passed) /\ Here.hold <= Here.samples * MaxDt
        BY <2>4, <2>5, <2>7, <3>1, <3>2, Zenon DEF After, Backed
      <4>2. /\ s.state \in {"seeking", "empty"} /\ s.seek \in Int
            /\ s.seek >= MinOpening /\ s.seek <= seek
            /\ s.state = "empty" => s.latch = MinOpening
        BY <2>4, <2>5, <2>7, <3>2, <4>1, SearchFacts
      <4>3. drive = min(t, seek) /\ t \in Int /\ seek \in Int
        BY <2>4, <2>5, <2>6, <2>t, <2>9, <3>2, Zenon DEF contactTarget, Contact
      <4>4. drive' = min(t, IF s.state = "empty" THEN MinOpening ELSE s.seek)
        BY <2>7, <2>9, <4>2, Zenon DEF contactTarget
      <4> QED BY <4>2, <4>3, <4>4, Numbers DEF min
    <3>3. CASE state # "seeking"
      <4>1. s = Here
        BY <2>5, <2>7, <3>1, <3>3, Zenon DEF After
      <4>2. state \in {"holding", "empty"} /\ latch \in Int
        BY <2>4, <2>5, <3>3, Zenon DEF Contact, States, Backed
      <4>3. drive = min(t, latch) /\ drive' = min(t, latch) /\ t \in Int
        BY <2>4, <2>5, <2>6, <2>t, <2>7, <2>9, <4>1, <4>2, Zenon DEF contactTarget
      <4> QED BY <4>2, <4>3 DEF min
    <3> QED BY <3>2, <3>3, Zenon
  <2> QED BY <2>8, <2>9, Zenon
<1> QED BY <1>1, GInvInit, GInvInductive, PTL DEF GripperSpec, OnlyCommandOpens
=============================================================================
