------------------------ MODULE CameraPipelineProofs ------------------------
(***************************************************************************)
(* Proofs about the threads around one bundle group, for every number of   *)
(* cameras, buffer and queue size, timeout and number of retries.          *)
(*                                                                         *)
(* What is published: a frame on its way (in flight, queued) is always of  *)
(* the camera's latest pipeline, because the wait before a retry outlasts  *)
(* the lag of the metadata thread; and master frames reach the             *)
(* synchronizer in the order of their arrival, so the newest buffered one  *)
(* is either newer than the last bundle's or is that very frame, stopped   *)
(* by the gate.                                                            *)
(*                                                                         *)
(* That something is published: the frames of a running pipeline are       *)
(* numbered by the periods, so a gate set by it is below the number of     *)
(* the current period, and a frame taken in this period stays the last of  *)
(* its buffer until the bundle of the period is out.                       *)
(***************************************************************************)
EXTENDS CameraPipeline, WellFoundedInduction, TLAPS

(* Frames without the bound of the instance. *)
Taken == [cam: Cams, num: Nat, time: Nat, gen: Nat]

(* The newest frame of a buffer. *)
Last(s) == s[Len(s)]

(* A set of numbers has a least element. *)
LEMMA Least ==
    ASSUME NEW I, I \subseteq Nat, I # {}
    PROVE  \E x \in I : \A y \in I : x <= y
<1> DEFINE less == {p \in Nat \X Nat : p[1] < p[2]}
<1>1. IsWellFoundedOn(less, Nat)
  BY NatLessThanWellFounded, Zenon DEF OpToRel
<1> HIDE DEF less
<1>2. PICK x \in I : \A y \in I : <<y, x>> \notin less
  BY <1>1, WFMin, Zenon
<1>3. ASSUME NEW y \in I PROVE x <= y
  <2>1. x \in Nat /\ y \in Nat
    BY Zenon
  <2>2. y < x => <<y, x>> \in less
    BY <2>1, Zenon DEF less
  <2>3. ~(y < x)
    BY <1>2, <2>2, Zenon
  <2> QED BY <2>1, <2>3
<1> QED BY <1>3, Zenon

(* What an emitted bundle leaves in a buffer is a suffix of it: its last   *)
(* frame stays unless all of them go.                                      *)
LEMMA ConsumedFacts ==
    ASSUME NEW s \in Seq(Taken), NEW m, NEW complete
    PROVE  /\ consumed(s, m, complete) \in Seq(Taken)
           /\ \A k \in 1..Len(consumed(s, m, complete)) :
                 \E i \in 1..Len(s) : consumed(s, m, complete)[k] = s[i]
           /\ Len(consumed(s, m, complete)) # 0 =>
                 Last(consumed(s, m, complete)) = Last(s) /\ Len(s) # 0
<1> DEFINE I == {i \in DOMAIN s : ~obsolete(s[i], m, complete)}
           earliest == CHOOSE i \in I : \A j \in I : i <= j
<1>1. consumed(s, m, complete) = IF I = {} THEN <<>> ELSE SubSeq(s, earliest, Len(s))
  BY Zenon DEF consumed
<1>2. CASE I = {}
  BY <1>1, <1>2
<1>3. CASE I # {}
  <2>1. earliest \in 1..Len(s)
    <3>1. I \subseteq 1..Len(s) /\ I \subseteq Nat
      OBVIOUS
    <3> HIDE DEF I
    <3>2. \E i \in I : \A j \in I : i <= j
      BY <1>3, <3>1, Least, Zenon
    <3> QED BY <3>1, <3>2, Zenon
  <2> DEFINE u == SubSeq(s, earliest, Len(s))
  <2> HIDE DEF I, earliest
  <2>2. consumed(s, m, complete) = u
    BY <1>1, <1>3, <2>1, Zenon
  <2>3. /\ u \in Seq(Taken) /\ Len(u) = Len(s) - earliest + 1
        /\ \A k \in 1..Len(u) : u[k] = s[earliest + k - 1]
    BY <2>1
  <2>4. \A k \in 1..Len(u) : earliest + k - 1 \in 1..Len(s)
    BY <2>1, <2>3
  <2>5. Last(u) = Last(s) /\ Len(s) # 0
    BY <2>1, <2>3 DEF Last
  <2> QED BY <2>2, <2>3, <2>4, <2>5, Zenon
<1> QED BY <1>2, <1>3, Zenon

(* A pushed frame becomes the last of its buffer, whatever trim_buffer drops. *)
LEMMA TrimFacts ==
    ASSUME NEW s \in Seq(Taken), NEW f \in Taken
    PROVE  LET u == trim_buffer(Append(s, f))
           IN  /\ u \in Seq(Taken) /\ Len(u) # 0 /\ Last(u) = f
               /\ \A k \in 1..Len(u) : u[k] = f \/ \E i \in 1..Len(s) : u[k] = s[i]
<1> DEFINE v == Append(s, f)
           u == trim_buffer(v)
<1>1. v \in Seq(Taken) /\ Len(v) = Len(s) + 1 /\ v[Len(s) + 1] = f /\ \A i \in 1..Len(s) : v[i] = s[i]
  OBVIOUS
<1>2. CASE Len(v) > MaxBuffered
  <2>1. u = Tail(v) /\ Len(v) > 1
    BY <1>1, <1>2, LimitsAssumption DEF trim_buffer
  <2>2. u \in Seq(Taken) /\ Len(u) = Len(s) /\ Len(s) \in Nat \ {0} /\ \A k \in 1..Len(u) : u[k] = v[k + 1]
    BY <1>1, <2>1
  <2>3. Last(u) = f
    BY <1>1, <2>2 DEF Last
  <2>4. \A k \in 1..Len(u) : u[k] = f \/ \E i \in 1..Len(s) : u[k] = s[i]
    <3> TAKE k \in 1..Len(u)
    <3>1. CASE k = Len(s)
      BY <1>1, <2>2, <3>1, Zenon
    <3>2. CASE k # Len(s)
      BY <1>1, <2>2, <3>2
    <3> QED BY <3>1, <3>2, Zenon
  <2> QED BY <2>2, <2>3, <2>4, Zenon
<1>3. CASE ~(Len(v) > MaxBuffered)
  <2>1. u = v
    BY <1>3, Zenon DEF trim_buffer
  <2> QED BY <1>1, <2>1 DEF Last
<1> QED BY <1>2, <1>3, Zenon

(* A frame of camera c that was buffered, or is the one pushed. *)
From(f, c, g) == (c = f.cam /\ g = f) \/ \E i \in 1..Len(buffers[c]) : g = buffers[c][i]

(* The master frame that counts when f is pushed. *)
IsNewest(f, g) ==
    IF f.cam = Master THEN g = f ELSE Len(buffers[Master]) # 0 /\ g = Last(buffers[Master])

(* The frame paired with a master frame is one of the camera's buffer.     *)
LEMMA CandidateFacts ==
    ASSUME NEW s \in Seq(Taken), NEW m \in Taken, NEW c \in Cams, NEW buf, buf[c] = s, c # Master,
           NEW g \in candidates(buf, m, c)
    PROVE  \E i \in 1..Len(s) : g = s[i]
<1>1. CASE mode.hardware
  BY <1>1 DEF candidates, exact_frame_number
<1>2. CASE ~mode.hardware
  BY <1>2 DEF candidates, nearest_by_timestamp
<1> QED BY <1>1, <1>2, Zenon

(* What push_frame does: buffers and bundle only hold frames that were     *)
(* buffered or the one pushed, and a bundle takes the newest master frame, *)
(* which has a number above the gate and raises the gate to it.            *)
LEMMA PushFacts ==
    ASSUME buffers \in [Cams -> Seq(Taken)], NEW f \in Taken, push_frame(f)
    PROVE  /\ mode' = mode /\ buffers' \in [Cams -> Seq(Taken)]
           /\ \A c \in Cams : \A k \in 1..Len(buffers'[c]) : From(f, c, buffers'[c][k])
           /\ \/ /\ bundle' = NoBundle /\ lastEmitted' = lastEmitted
                 /\ IF f.cam = Master THEN Len(buffers'[Master]) # 0 /\ Last(buffers'[Master]) = f
                    ELSE buffers'[Master] = buffers[Master]
              \/ /\ bundle' # NoBundle
                 /\ DOMAIN bundle' \subseteq Cams /\ Master \in DOMAIN bundle'
                 /\ \A c \in DOMAIN bundle' : From(f, c, bundle'[c])
                 /\ IsNewest(f, bundle'[Master]) /\ bundle'[Master] \in Taken
                 /\ bundle'[Master].num > lastEmitted /\ lastEmitted' = bundle'[Master].num
                 /\ Len(buffers'[Master]) # 0 => Last(buffers'[Master]) = bundle'[Master]
<1> DEFINE buf == [buffers EXCEPT ![f.cam] = trim_buffer(Append(@, f))]
           master == Last(buf[Master])
           present == {c \in Cams : candidates(buf, master, c) # {}}
           selected == [c \in present |-> CHOOSE g \in candidates(buf, master, c) : TRUE]
           complete == /\ present = Cams
                       /\ \A c, d \in Cams : selected[c].time - selected[d].time <= MaxDiff
           emits == buf[Master] # <<>> /\ isPending(master) /\ (complete \/ mode.incomplete)
<1>1. /\ mode' = mode
      /\ IF emits
         THEN /\ bundle' = selected /\ lastEmitted' = master.num
              /\ buffers' = [c \in Cams |-> consumed(buf[c], master, complete)]
         ELSE buffers' = buf /\ bundle' = NoBundle /\ lastEmitted' = lastEmitted
  BY Zenon DEF push_frame, Last
<1>2. f.cam \in Cams /\ Master \in Cams
  BY GroupAssumption, Zenon DEF Taken
<1>3. /\ buf \in [Cams -> Seq(Taken)]
      /\ buf[f.cam] = trim_buffer(Append(buffers[f.cam], f))
      /\ \A c \in Cams \ {f.cam} : buf[c] = buffers[c]
  BY <1>2, TrimFacts, Zenon
<1>4. ASSUME NEW c \in Cams, NEW k \in 1..Len(buf[c]) PROVE From(f, c, buf[c][k])
  <2>1. CASE c = f.cam
    <3>1. buffers[c] \in Seq(Taken) /\ buf[c] = trim_buffer(Append(buffers[c], f))
      BY <1>3, <2>1, Zenon
    <3> HIDE DEF buf
    <3>2. buf[c][k] = f \/ \E i \in 1..Len(buffers[c]) : buf[c][k] = buffers[c][i]
      BY <3>1, TrimFacts
    <3> QED BY <2>1, <3>2, Zenon DEF From
  <2>2. CASE c # f.cam
    BY <1>3, <2>2, Zenon DEF From
  <2> QED BY <2>1, <2>2, Zenon
<1>5. IF f.cam = Master THEN Len(buf[Master]) # 0 /\ Last(buf[Master]) = f ELSE buf[Master] = buffers[Master]
  BY <1>2, <1>3, TrimFacts, ZenonT(30)
<1> HIDE DEF buf
<1>6. CASE ~emits
  BY <1>1, <1>3, <1>4, <1>5, <1>6, Zenon
<1>7. CASE emits
  <2>1. Len(buf[Master]) # 0 /\ master \in Taken /\ IsNewest(f, master)
    <3>1. buf[Master] \in Seq(Taken) /\ buf[Master] # <<>>
      BY <1>2, <1>3, <1>7, Zenon
    <3>2. Len(buf[Master]) \in Nat \ {0}
      BY <3>1
    <3> QED BY <1>5, <3>1, <3>2 DEF IsNewest, Last
  <2>2. master.num > lastEmitted
    BY <1>7, Zenon DEF isPending
  <2> HIDE DEF emits, complete
  <2>3. bundle' = selected /\ lastEmitted' = master.num
    BY <1>1, <1>7, Zenon
  <2>4. buffers' = [c \in Cams |-> consumed(buf[c], master, complete)]
    BY <1>1, <1>7, Zenon
  <2> HIDE DEF master
  <2>5. candidates(buf, master, Master) = {master}
    BY Zenon DEF candidates
  <2>6. Master \in present /\ present \subseteq Cams
    BY <1>2, <2>5, Zenon
  <2>7. ASSUME NEW c \in present PROVE selected[c] \in candidates(buf, master, c)
    BY Zenon
  <2>8. selected[Master] = master /\ DOMAIN selected = present
    BY <2>5, <2>6, <2>7, Zenon
  <2>9. ASSUME NEW c \in present PROVE From(f, c, selected[c])
    <3>1. CASE c = Master
      <4>1. Len(buf[Master]) \in Nat \ {0}
        BY <1>2, <1>3, <2>1
      <4>2. Len(buf[Master]) \in 1..Len(buf[Master])
        BY <4>1
      <4> QED BY <1>2, <1>4, <2>8, <3>1, <4>2, Zenon DEF master, Last
    <3>2. CASE c # Master
      <4>1. \E i \in 1..Len(buf[c]) : selected[c] = buf[c][i]
        <5>1. buf[c] \in Seq(Taken) /\ c \in Cams /\ selected[c] \in candidates(buf, master, c) /\ master \in Taken
          BY <1>3, <2>1, <2>6, <2>7, Zenon
        <5> HIDE DEF selected, present
        <5> QED BY <3>2, <5>1, CandidateFacts, SMTT(30)
      <4> QED BY <1>4, <2>6, <4>1, Zenon
    <3> QED BY <3>1, <3>2, Zenon
  <2> HIDE DEF selected, present
  <2>10. ASSUME NEW c \in Cams PROVE /\ buffers'[c] \in Seq(Taken)
                                     /\ \A k \in 1..Len(buffers'[c]) : From(f, c, buffers'[c][k])
                                     /\ Len(buffers'[c]) # 0 => Last(buffers'[c]) = Last(buf[c])
    <3>1. buf[c] \in Seq(Taken) /\ buffers'[c] = consumed(buf[c], master, complete)
      BY <1>3, <2>4, Zenon
    <3>2. \A k \in 1..Len(buffers'[c]) : \E i \in 1..Len(buf[c]) : buffers'[c][k] = buf[c][i]
      BY <3>1, ConsumedFacts
    <3>3. buffers'[c] \in Seq(Taken) /\ (Len(buffers'[c]) # 0 => Last(buffers'[c]) = Last(buf[c]))
      BY <3>1, ConsumedFacts
    <3>4. \A i \in 1..Len(buf[c]) : From(f, c, buf[c][i])
      BY <1>4, Zenon
    <3>5. \A k \in 1..Len(buffers'[c]) : From(f, c, buffers'[c][k])
      BY <3>2, <3>4, Zenon
    <3> QED BY <3>3, <3>5, Zenon
  <2>11. buffers' \in [Cams -> Seq(Taken)]
    BY <2>4, <2>10, Zenon
  <2>12. selected # NoBundle
    BY <2>6, <2>8 DEF NoBundle
  <2>13. Len(buffers'[Master]) # 0 => Last(buffers'[Master]) = master
    BY <1>2, <2>10, Zenon DEF master
  <2> QED BY <1>1, <2>1, <2>2, <2>3, <2>6, <2>8, <2>9, <2>10, <2>11, <2>12, <2>13, Zenon
<1> QED BY <1>6, <1>7, Zenon

(* The inductive invariant: types, then one definition per part.           *)
PipeType ==
    /\ buffers \in [Cams -> Seq(Taken)] /\ queue \in Seq(Taken) /\ inflight \in [Cams -> Taken]
    /\ now \in Nat \ {0} /\ lastTime \in Nat /\ lastEmitted \in Nat /\ delivered \subseteq Cams
    /\ number \in [Cams -> Nat] /\ gen \in [Cams -> Nat] /\ quiet \in [Cams -> Nat]
    /\ sup \in [Cams -> {"start", "watch", "stop", "wait", "exhausted"}]
    /\ alive \in [Cams -> BOOLEAN] /\ connected \in [Cams -> BOOLEAN] /\ recovery \in [Cams -> BOOLEAN]

(* The metadata thread takes a frame within MaxLag periods.                *)
Recent(f) == f.time # 0 /\ f.time <= now /\ now <= f.time + MaxLag

(* A device exists while its supervisor watches or stops it; a camera that *)
(* lost its pipeline is in recovery until it is connected again; a frame   *)
(* in flight is of the running pipeline.                                   *)
DeviceInv ==
    \A c \in Cams :
       /\ number[c] # 0 <=> sup[c] \in {"watch", "stop"}
       /\ sup[c] \in {"stop", "wait"} => recovery[c]
       /\ connected[c] => ~recovery[c]
       /\ inflight[c] # NoFrame => /\ inflight[c].cam = c /\ inflight[c].gen = gen[c] /\ Recent(inflight[c])
                                /\ number[c] # 0

(* A queued frame is of the camera's latest pipeline, and while the camera *)
(* waits for a retry the frame is as old as the wait.                      *)
QueueInv ==
    \A i \in 1..Len(queue) :
       /\ queue[i].gen = gen[queue[i].cam] /\ Recent(queue[i]) /\ sup[queue[i].cam] # "start"
       /\ sup[queue[i].cam] = "wait" => queue[i].time + quiet[queue[i].cam] <= now

(* The buffers of a camera not in recovery hold its latest pipeline only.  *)
BufferInv ==
    \A c \in Cams : ~recovery[c] =>
       /\ sup[c] = "start" => Len(buffers[c]) = 0
       /\ \A k \in 1..Len(buffers[c]) : buffers[c][k].gen = gen[c]

(* Every master frame on its way to the buffer is newer than t, and so is  *)
(* the next one to be delivered.                                           *)
Overtaken(t) ==
    /\ \A i \in 1..Len(queue) : queue[i].cam = Master => queue[i].time > t
    /\ inflight[Master] # NoFrame => inflight[Master].time > t
    /\ t <= now /\ (Master \notin delivered => t < now)

(* The frames of a camera are queued in the order they were delivered.     *)
OrderInv ==
    /\ \A i, j \in 1..Len(queue) : i < j /\ queue[i].cam = queue[j].cam => queue[i].time < queue[j].time
    /\ \A c \in Cams, i \in 1..Len(queue) : inflight[c] # NoFrame /\ queue[i].cam = c => queue[i].time < inflight[c].time
    /\ \A i \in 1..Len(queue) : queue[i].cam \notin delivered => queue[i].time < now
    /\ \A c \in Cams \ delivered : inflight[c] # NoFrame => inflight[c].time < now

(* A master frame newer than the last bundle's, or that very frame behind  *)
(* the gate.                                                               *)
Spent(l) == l.time > lastTime \/ (l.time = lastTime /\ l.num <= lastEmitted)

(* The last bundle's master frame and the newest one buffered are overtaken *)
(* by all that come, so a gate reset to 0 lets no frame through twice.     *)
MasterInv ==
    /\ Overtaken(lastTime)
    /\ Len(buffers[Master]) # 0 => Overtaken(Last(buffers[Master]).time) /\ Spent(Last(buffers[Master]))

PipeInv == PipeType /\ DeviceInv /\ QueueInv /\ BufferInv /\ OrderInv /\ MasterInv

(* The absent frame is a frame. *)
LEMMA NoFrameType == NoFrame \in Taken /\ NoFrame.time = 0 /\ Master \in Cams
BY GroupAssumption, Zenon DEF NoFrame, Taken

(* What is queued, in flight or buffered is a frame. *)
LEMMA MemberType ==
    ASSUME PipeType
    PROVE  /\ \A i \in 1..Len(queue) : /\ queue[i] \in Taken /\ queue[i].cam \in Cams
                                      /\ queue[i].time \in Nat /\ queue[i].gen \in Nat
           /\ \A c \in Cams : /\ inflight[c] \in Taken /\ inflight[c].time \in Nat
                              /\ \A k \in 1..Len(buffers[c]) : buffers[c][k] \in Taken
<1>1. queue \in Seq(Taken) /\ inflight \in [Cams -> Taken] /\ buffers \in [Cams -> Seq(Taken)]
  BY Zenon DEF PipeType
<1>2. \A i \in 1..Len(queue) : queue[i] \in Taken
  BY <1>1
<1>3. \A c \in Cams : inflight[c] \in Taken /\ \A k \in 1..Len(buffers[c]) : buffers[c][k] \in Taken
  BY <1>1
<1>4. \A f \in Taken : f.cam \in Cams /\ f.time \in Nat /\ f.gen \in Nat
  BY Zenon DEF Taken
<1> QED BY <1>2, <1>3, <1>4, Zenon

(* So is the newest buffered frame of the master. *)
LEMMA LastType ==
    ASSUME PipeType, Len(buffers[Master]) # 0
    PROVE  Last(buffers[Master]) \in Taken /\ Last(buffers[Master]).time \in Nat
<1>1. buffers[Master] \in Seq(Taken) /\ Len(buffers[Master]) \in Nat \ {0}
  BY NoFrameType DEF PipeType
<1>2. Last(buffers[Master]) \in Taken
  BY <1>1 DEF Last
<1> QED BY <1>2, Zenon DEF Taken

(* What no step but that of the metadata thread may do to the master's frames. *)
LEMMA MasterIdle ==
    ASSUME PipeInv, lastTime' = lastTime,
           (buffers' = buffers /\ lastEmitted' = lastEmitted) \/ Len(buffers'[Master]) = 0,
           \A x \in Nat : Overtaken(x) => Overtaken(x)'
    PROVE  MasterInv'
<1>1. Overtaken(lastTime)'
  BY Zenon DEF PipeInv, PipeType, MasterInv, Overtaken
<1>2. ASSUME buffers' = buffers, lastEmitted' = lastEmitted, Len(buffers[Master]) # 0
      PROVE  Overtaken(Last(buffers[Master]).time)' /\ Spent(Last(buffers[Master]))'
  <2> DEFINE l == Last(buffers[Master])
  <2>1. l.time \in Nat /\ Overtaken(l.time) /\ Spent(l) /\ l' = l
    BY <1>2, LastType, Zenon DEF PipeInv, MasterInv
  <2> HIDE DEF l
  <2>2. Overtaken(l.time)'
    BY <2>1, Zenon DEF Overtaken
  <2>3. Spent(l)'
    BY <1>2, <2>1, Zenon DEF Spent
  <2> QED BY <2>2, <2>3, Zenon DEF l
<1> QED BY <1>1, <1>2, Zenon DEF MasterInv

(* handle_frame stamps a frame of the running pipeline with a time later   *)
(* than that of every earlier frame of its camera.                         *)
LEMMA DeliverKeeps == ASSUME PipeInv, NEW c \in Cams, Deliver(c) PROVE PipeInv'
<1> DEFINE f == [cam |-> c, num |-> number[c], time |-> now, gen |-> gen[c]]
<1>1. /\ number[c] # 0 /\ c \notin delivered /\ inflight[c] = NoFrame
      /\ delivered' = delivered \cup {c}
      /\ alive' = [alive EXCEPT ![c] = TRUE] /\ quiet' = [quiet EXCEPT ![c] = 0]
      /\ inflight' = [inflight EXCEPT ![c] = f]
      /\ UNCHANGED <<buffers, lastEmitted, queue, now, number, lastTime, sup, gen, connected, recovery>>
  BY Zenon DEF Deliver, SyncIdle, supervisor
<1>2. f \in Taken /\ f.cam = c /\ f.gen = gen[c] /\ f.time = now
  BY Zenon DEF PipeInv, PipeType, Taken
<1> HIDE DEF f
<1>3. PipeType'
  BY <1>1, <1>2, Zenon DEF PipeInv, PipeType
<1>4. DeviceInv'
  BY <1>1, <1>2, TimesAssumption, SMTT(30) DEF PipeInv, PipeType, DeviceInv, Recent
<1>5. QueueInv'
  <2>1. sup[c] \in {"watch", "stop"}
    BY <1>1, Zenon DEF PipeInv, DeviceInv
  <2>2. \A d \in Cams : sup[d] = "wait" => quiet'[d] = quiet[d]
    BY <1>1, <2>1, Zenon DEF PipeInv, PipeType
  <2> QED BY <1>1, <2>2, MemberType, SMTT(30) DEF PipeInv, QueueInv, Recent
<1>6. BufferInv'
  BY <1>1, Zenon DEF PipeInv, BufferInv
<1>7. \A d \in Cams : inflight'[d] = IF d = c THEN f ELSE inflight[d]
  BY <1>1, Zenon DEF PipeInv, PipeType
<1>8. OrderInv'
  <2>1. \A i \in 1..Len(queue) : queue[i].cam = c => queue[i].time < f.time
    BY <1>1, <1>2, Zenon DEF PipeInv, OrderInv
  <2>2. \A d \in Cams, i \in 1..Len(queue) : inflight'[d] # NoFrame /\ queue[i].cam = d => queue[i].time < inflight'[d].time
    BY <1>7, <2>1, Zenon DEF PipeInv, OrderInv
  <2>3. \A d \in Cams \ delivered' : inflight'[d] # NoFrame => inflight'[d].time < now
    BY <1>1, <1>7, Zenon DEF PipeInv, OrderInv
  <2> QED BY <1>1, <2>2, <2>3, Zenon DEF PipeInv, OrderInv
<1>9. MasterInv'
  <2>1. \A x \in Nat : Overtaken(x) => Overtaken(x)'
    BY <1>1, <1>2, <1>7, NoFrameType, SMTT(30) DEF Overtaken
  <2> QED BY <1>1, <2>1, MasterIdle, Zenon
<1> QED BY <1>3, <1>4, <1>5, <1>6, <1>8, <1>9, Zenon DEF PipeInv

(* try_push_drop_oldest keeps the order of the queue, dropped frame or not. *)
LEMMA EnqueueKeeps == ASSUME PipeInv, NEW c \in Cams, Enqueue(c) PROVE PipeInv'
<1> DEFINE f == inflight[c]
           s == IF Len(queue) >= QueueSize THEN Tail(queue) ELSE queue
<1>1. /\ f # NoFrame /\ queue' = Append(s, f)
      /\ inflight' = [inflight EXCEPT ![c] = NoFrame]
      /\ UNCHANGED <<buffers, lastEmitted, now, number, alive, quiet, lastTime, delivered, sup, gen, connected, recovery>>
  BY Zenon DEF Enqueue, SyncIdle, supervisor, clock
<1>2. f \in Taken /\ f.cam = c /\ f.gen = gen[c] /\ Recent(f) /\ sup[c] \in {"watch", "stop"}
  BY <1>1, MemberType, Zenon DEF PipeInv, DeviceInv
<1>3. PICK d \in {0, 1} : /\ s \in Seq(Taken) /\ Len(s) = Len(queue) - d /\ Len(s) \in Nat
                          /\ \A i \in 1..Len(s) : s[i] = queue[i + d] /\ i + d \in 1..Len(queue)
  <2>1. queue \in Seq(Taken) /\ QueueSize \in Nat \ {0}
    BY TimesAssumption, Zenon DEF PipeInv, PipeType
  <2>2. CASE Len(queue) >= QueueSize
    <3>1. Len(queue) > 0 /\ s = Tail(queue)
      BY <2>1, <2>2
    <3>2. s \in Seq(Taken) /\ Len(s) = Len(queue) - 1 /\ \A i \in 1..Len(s) : s[i] = queue[i + 1] /\ i + 1 \in 1..Len(queue)
      BY <2>1, <3>1
    <3> QED BY <2>1, <3>2
  <2>3. CASE ~(Len(queue) >= QueueSize)
    BY <2>1, <2>3
  <2> QED BY <2>2, <2>3, Zenon
<1>4. Len(queue) \in Nat
  BY DEF PipeInv, PipeType
<1> HIDE DEF f, s
<1>5. /\ queue' \in Seq(Taken) /\ Len(queue') = Len(s) + 1 /\ queue'[Len(s) + 1] = f
      /\ \A i \in 1..Len(s) : queue'[i] = queue[i + d]
  BY <1>1, <1>2, <1>3, SMTT(30)
<1>6. \A i \in 1..Len(queue') : \/ i = Len(s) + 1 /\ queue'[i] = f
                                \/ i \in 1..Len(s) /\ queue'[i] = queue[i + d] /\ i + d \in 1..Len(queue)
  <2> TAKE i \in 1..Len(queue')
  <2>1. i = Len(s) + 1 \/ i \in 1..Len(s)
    BY <1>3, <1>5
  <2> QED BY <1>3, <1>5, <2>1, Zenon
<1>7. \A e \in Cams : inflight'[e] = IF e = c THEN NoFrame ELSE inflight[e]
  BY <1>1, Zenon DEF PipeInv, PipeType
<1>8. PipeType'
  BY <1>1, <1>5, NoFrameType, Zenon DEF PipeInv, PipeType
<1>9. DeviceInv'
  BY <1>1, <1>7, SMTT(30) DEF PipeInv, DeviceInv, Recent
<1>10. QueueInv'
  <2>1. ASSUME NEW i \in 1..Len(queue')
        PROVE  /\ queue'[i].gen = gen[queue'[i].cam] /\ Recent(queue'[i]) /\ sup[queue'[i].cam] # "start"
               /\ sup[queue'[i].cam] = "wait" => queue'[i].time + quiet[queue'[i].cam] <= now
    BY <1>2, <1>6, Zenon DEF PipeInv, QueueInv
  <2> QED BY <1>1, <2>1, Zenon DEF QueueInv, Recent
<1>11. BufferInv'
  BY <1>1, Zenon DEF PipeInv, BufferInv
<1>12. OrderInv'
  <2>1. \A i \in 1..Len(queue) : queue[i].cam = c => queue[i].time < f.time
    BY <1>1, Zenon DEF PipeInv, OrderInv, f
  <2>2. ASSUME NEW i \in 1..Len(queue'), NEW j \in 1..Len(queue'), i < j, queue'[i].cam = queue'[j].cam
        PROVE  queue'[i].time < queue'[j].time
    <3>1. i \in 1..Len(s) /\ queue'[i] = queue[i + d] /\ i + d \in 1..Len(queue)
      BY <1>3, <1>5, <1>6, <2>2, SMTT(30)
    <3>2. CASE j = Len(s) + 1
      BY <1>2, <1>5, <2>1, <2>2, <3>1, <3>2, Zenon
    <3>3. CASE j # Len(s) + 1
      <4>1. queue'[j] = queue[j + d] /\ j + d \in 1..Len(queue) /\ i + d < j + d
        BY <1>6, <2>2, <3>3, SMTT(30)
      <4> QED BY <2>2, <3>1, <4>1, Zenon DEF PipeInv, OrderInv
    <3> QED BY <3>2, <3>3, Zenon
  <2>3. ASSUME NEW e \in Cams, NEW i \in 1..Len(queue'), inflight'[e] # NoFrame, queue'[i].cam = e
        PROVE  queue'[i].time < inflight'[e].time
    <3>1. e # c /\ inflight'[e] = inflight[e]
      BY <1>7, <2>3, Zenon
    <3>2. queue'[i] = queue[i + d] /\ i + d \in 1..Len(queue)
      BY <1>2, <1>6, <2>3, <3>1, Zenon
    <3> QED BY <2>3, <3>1, <3>2, Zenon DEF PipeInv, OrderInv
  <2>4. c \notin delivered => f.time < now
    BY <1>1, Zenon DEF f, PipeInv, OrderInv
  <2>5. ASSUME NEW i \in 1..Len(queue'), queue'[i].cam \notin delivered
        PROVE  queue'[i].time < now
    BY <1>2, <1>6, <2>4, <2>5, Zenon DEF PipeInv, OrderInv
  <2>6. \A e \in Cams \ delivered : inflight'[e] # NoFrame => inflight'[e].time < now
    BY <1>7, Zenon DEF PipeInv, OrderInv
  <2> QED BY <1>1, <2>2, <2>3, <2>5, <2>6, Zenon DEF OrderInv
<1>13. MasterInv'
  <2>1. ASSUME NEW x \in Nat, Overtaken(x) PROVE Overtaken(x)'
    <3>1. c = Master => f.time > x
      BY <1>1, <2>1, Zenon DEF Overtaken, f
    <3>2. \A i \in 1..Len(queue') : queue'[i].cam = Master => queue'[i].time > x
      BY <1>2, <1>6, <2>1, <3>1, Zenon DEF Overtaken
    <3>3. inflight'[Master] # NoFrame => inflight'[Master].time > x
      BY <1>7, <2>1, NoFrameType, Zenon DEF Overtaken
    <3> QED BY <1>1, <2>1, <3>2, <3>3, Zenon DEF Overtaken
  <2> QED BY <1>1, <2>1, MasterIdle, Zenon
<1> QED BY <1>8, <1>9, <1>10, <1>11, <1>12, <1>13, Zenon DEF PipeInv

(* The metadata thread keeps the invariant, and what it publishes has both *)
(* properties: frames of the current pipelines, and a newer master frame.  *)
LEMMA ProcessKeeps ==
    ASSUME PipeInv, process_frame_metadata
    PROVE  /\ PipeInv' /\ NoPreReconnectFrame'
           /\ bundle' # NoBundle => bundle'[Master].time > lastTime
<1> DEFINE h == Head(queue)
           OvertakenNext(x) ==
              /\ \A i \in 1..Len(queue') : queue'[i].cam = Master => queue'[i].time > x
              /\ inflight[Master] # NoFrame => inflight[Master].time > x
              /\ x <= now /\ (Master \notin delivered => x < now)
           SpentNext(l) == l.time > lastTime' \/ (l.time = lastTime' /\ l.num <= lastEmitted')
<1>1. /\ queue # <<>> /\ queue' = Tail(queue) /\ push_frame(h)
      /\ lastTime' = IF bundle' = NoBundle THEN lastTime ELSE bundle'[Master].time
      /\ UNCHANGED <<inflight, delivered, now, number, alive, quiet, sup, gen, connected, recovery>>
  BY Zenon DEF process_frame_metadata, supervisor, clock
<1>2. /\ queue' \in Seq(Taken) /\ Len(queue) \in Nat \ {0} /\ Len(queue') = Len(queue) - 1
      /\ \A i \in 1..Len(queue') : queue'[i] = queue[i + 1] /\ i + 1 \in 1..Len(queue)
      /\ h = queue[1] /\ 1 \in 1..Len(queue)
  BY <1>1, SMTT(30) DEF PipeInv, PipeType
<1> HIDE DEF h
<1>3. /\ h \in Taken /\ h.cam \in Cams /\ h.time \in Nat /\ h.gen = gen[h.cam] /\ Recent(h)
      /\ sup[h.cam] # "start"
  BY <1>2, MemberType, Zenon DEF PipeInv, QueueInv
<1>4. buffers \in [Cams -> Seq(Taken)]
  BY Zenon DEF PipeInv, PipeType
<1>5. /\ buffers' \in [Cams -> Seq(Taken)]
      /\ \A c \in Cams : \A k \in 1..Len(buffers'[c]) : From(h, c, buffers'[c][k])
  BY <1>1, <1>3, <1>4, PushFacts, Zenon
<1>6. \/ /\ bundle' = NoBundle /\ lastEmitted' = lastEmitted
         /\ IF h.cam = Master THEN Len(buffers'[Master]) # 0 /\ Last(buffers'[Master]) = h
            ELSE buffers'[Master] = buffers[Master]
      \/ /\ bundle' # NoBundle
         /\ DOMAIN bundle' \subseteq Cams /\ Master \in DOMAIN bundle'
         /\ \A c \in DOMAIN bundle' : From(h, c, bundle'[c])
         /\ IsNewest(h, bundle'[Master]) /\ bundle'[Master] \in Taken
         /\ bundle'[Master].num > lastEmitted /\ lastEmitted' = bundle'[Master].num
         /\ Len(buffers'[Master]) # 0 => Last(buffers'[Master]) = bundle'[Master]
  BY <1>1, <1>3, <1>4, PushFacts, ZenonT(30)
<1>7. \A f \in Taken : f.num \in Nat /\ f.time \in Nat
  BY Zenon DEF Taken
<1>8. PipeType'
  BY <1>1, <1>2, <1>5, <1>6, <1>7, Zenon DEF PipeInv, PipeType
<1>9. DeviceInv'
  BY <1>1, Zenon DEF PipeInv, DeviceInv, Recent
<1>10. QueueInv'
  <2>1. ASSUME NEW i \in 1..Len(queue')
        PROVE  /\ queue'[i].gen = gen[queue'[i].cam] /\ Recent(queue'[i]) /\ sup[queue'[i].cam] # "start"
               /\ sup[queue'[i].cam] = "wait" => queue'[i].time + quiet[queue'[i].cam] <= now
    BY <1>2, SMTT(30) DEF PipeInv, QueueInv
  <2> QED BY <1>1, <2>1, Zenon DEF QueueInv, Recent
<1>11. ASSUME NEW c \in Cams, ~recovery[c], NEW g, From(h, c, g) PROVE g.gen = gen[c]
  BY <1>3, <1>11, Zenon DEF From, PipeInv, BufferInv
<1>12. BufferInv'
  <2>1. ASSUME NEW c \in Cams, ~recovery[c], sup[c] = "start" PROVE Len(buffers'[c]) = 0
    <3>1. SUFFICES ASSUME Len(buffers'[c]) # 0 PROVE FALSE
      BY Zenon
    <3>2. 1 \in 1..Len(buffers'[c])
      BY <1>5, <3>1
    <3>3. From(h, c, buffers'[c][1]) /\ h.cam # c
      BY <1>3, <1>5, <2>1, <3>2, Zenon
    <3>4. Len(buffers[c]) = 0
      BY <2>1, Zenon DEF PipeInv, BufferInv
    <3> QED BY <3>3, <3>4 DEF From
  <2>2. \A c \in Cams : ~recovery[c] => \A k \in 1..Len(buffers'[c]) : buffers'[c][k].gen = gen[c]
    BY <1>5, <1>11, Zenon
  <2> QED BY <1>1, <2>1, <2>2, Zenon DEF BufferInv
<1>13. NoPreReconnectFrame'
  <2>1. CASE bundle' = NoBundle
    BY <2>1 DEF NoPreReconnectFrame, NoBundle
  <2>2. CASE bundle' # NoBundle
    <3>1. ASSUME NEW c \in DOMAIN bundle', connected[c] PROVE bundle'[c].gen = gen[c]
      <4>1. c \in Cams /\ From(h, c, bundle'[c])
        BY <1>6, <2>2, Zenon
      <4>2. ~recovery[c]
        BY <3>1, <4>1, Zenon DEF PipeInv, DeviceInv
      <4> QED BY <1>11, <4>1, <4>2, Zenon
    <3> QED BY <1>1, <3>1, Zenon DEF NoPreReconnectFrame
  <2> QED BY <2>1, <2>2, Zenon
<1>14. OrderInv'
  <2>1. ASSUME NEW i \in 1..Len(queue'), NEW j \in 1..Len(queue'), i < j, queue'[i].cam = queue'[j].cam
        PROVE  queue'[i].time < queue'[j].time
    <3>1. i + 1 < j + 1
      BY <2>1
    <3> QED BY <1>2, <2>1, <3>1, Zenon DEF PipeInv, OrderInv
  <2>2. \A c \in Cams, i \in 1..Len(queue') : inflight[c] # NoFrame /\ queue'[i].cam = c => queue'[i].time < inflight[c].time
    BY <1>2 DEF PipeInv, OrderInv
  <2>3. \A i \in 1..Len(queue') : queue'[i].cam \notin delivered => queue'[i].time < now
    BY <1>2, Zenon DEF PipeInv, OrderInv
  <2> QED BY <1>1, <2>1, <2>2, <2>3, Zenon DEF PipeInv, OrderInv
<1>15. ASSUME NEW x \in Nat, Overtaken(x)
       PROVE  OvertakenNext(x) /\ (h.cam = Master => h.time > x)
  <2>1. \A i \in 1..Len(queue') : queue'[i].cam = Master => queue'[i].time > x
    BY <1>2, <1>15, Zenon DEF Overtaken
  <2> QED BY <1>1, <1>2, <1>15, <2>1, Zenon DEF Overtaken
<1>16. h.cam = Master => OvertakenNext(h.time)
  <2>1. SUFFICES ASSUME h.cam = Master PROVE OvertakenNext(h.time)
    BY Zenon
  <2>2. \A i \in 1..Len(queue') : queue'[i].cam = Master => queue'[i].time > h.time
    <3> SUFFICES ASSUME NEW i \in 1..Len(queue'), queue'[i].cam = Master PROVE queue'[i].time > h.time
      BY Zenon
    <3>1. queue'[i] = queue[i + 1] /\ i + 1 \in 1..Len(queue) /\ 1 < i + 1
      BY <1>2
    <3>2. queue[1].time < queue[i + 1].time
      BY <1>2, <2>1, <3>1, Zenon DEF PipeInv, OrderInv
    <3> QED BY <1>2, <1>3, <3>1, <3>2, MemberType, Zenon DEF PipeInv
  <2>3. inflight[Master] # NoFrame => inflight[Master].time > h.time
    BY <1>2, <1>3, <2>1, NoFrameType, MemberType, Zenon DEF PipeInv, OrderInv
  <2>4. h.time <= now /\ (Master \notin delivered => h.time < now)
    BY <1>2, <1>3, <2>1, Zenon DEF Recent, PipeInv, OrderInv
  <2> QED BY <1>1, <2>2, <2>3, <2>4, Zenon DEF Overtaken
<1>17. Overtaken(lastTime) /\ lastTime \in Nat /\ lastEmitted \in Nat
  BY Zenon DEF PipeInv, PipeType, MasterInv
<1>18. h.cam = Master => h.time > lastTime
  BY <1>15, <1>17, Zenon
<1>19. ASSUME Len(buffers[Master]) # 0
       PROVE  LET l == Last(buffers[Master]) IN
              l \in Taken /\ l.time \in Nat /\ Overtaken(l.time) /\ Spent(l)
  BY <1>19, LastType, Zenon DEF PipeInv, MasterInv
<1>20. ASSUME NEW g, IsNewest(h, g)
       PROVE  g \in Taken /\ OvertakenNext(g.time) /\ (g.num > lastEmitted => g.time > lastTime)
  <2>1. CASE h.cam = Master
    BY <1>3, <1>16, <1>18, <1>20, <2>1, Zenon DEF IsNewest
  <2>2. CASE h.cam # Master
    <3>1. g \in Taken /\ g.time \in Nat /\ Overtaken(g.time) /\ Spent(g)
      BY <1>19, <1>20, <2>2, Zenon DEF IsNewest
    <3>2. OvertakenNext(g.time)
      BY <1>15, <3>1, Zenon
    <3>3. g.num > lastEmitted => g.time > lastTime
      BY <1>7, <1>17, <3>1, SMTT(30) DEF Spent
    <3> QED BY <3>1, <3>2, <3>3, Zenon
  <2> QED BY <2>1, <2>2, Zenon
<1>21. CASE bundle' = NoBundle
  <2>1. lastTime' = lastTime /\ lastEmitted' = lastEmitted
    BY <1>1, <1>6, <1>21, Zenon
  <2>2. OvertakenNext(lastTime')
    BY <1>15, <1>17, <2>1, Zenon
  <2>3. ASSUME Len(buffers'[Master]) # 0
        PROVE  OvertakenNext(Last(buffers'[Master]).time) /\ SpentNext(Last(buffers'[Master]))
    <3>1. CASE h.cam = Master
      <4>1. Last(buffers'[Master]) = h
        BY <1>6, <1>21, <3>1, Zenon
      <4> QED BY <1>16, <1>18, <2>1, <3>1, <4>1, Zenon DEF Spent, Overtaken
    <3>2. CASE h.cam # Master
      <4>1. buffers'[Master] = buffers[Master]
        BY <1>6, <1>21, <3>2, Zenon
      <4> DEFINE l == Last(buffers[Master])
      <4>2. l \in Taken /\ l.time \in Nat /\ Overtaken(l.time) /\ Spent(l) /\ Last(buffers'[Master]) = l
        BY <1>19, <2>3, <4>1, Zenon
      <4> HIDE DEF l
      <4>3. OvertakenNext(l.time)
        BY <1>15, <4>2, Zenon
      <4> QED BY <2>1, <4>2, <4>3, Zenon DEF Spent, Overtaken
    <3> QED BY <3>1, <3>2, Zenon
  <2>4. MasterInv'
    BY <1>1, <2>2, <2>3, Zenon DEF MasterInv, Overtaken, Spent
  <2> QED BY <1>8, <1>9, <1>10, <1>12, <1>13, <1>14, <1>21, <2>4, Zenon DEF PipeInv
<1>22. CASE bundle' # NoBundle
  <2> DEFINE g == bundle'[Master]
  <2>1. /\ lastTime' = g.time /\ lastEmitted' = g.num /\ IsNewest(h, g) /\ g.num > lastEmitted
        /\ Len(buffers'[Master]) # 0 => Last(buffers'[Master]) = g
    BY <1>1, <1>6, <1>22, Zenon
  <2> HIDE DEF g
  <2>2. g \in Taken /\ OvertakenNext(g.time) /\ g.time > lastTime
    BY <1>20, <2>1, Zenon
  <2>3. OvertakenNext(lastTime')
    BY <2>1, <2>2, Zenon
  <2>4. Len(buffers'[Master]) # 0 =>
           OvertakenNext(Last(buffers'[Master]).time) /\ SpentNext(Last(buffers'[Master]))
    BY <1>7, <2>1, <2>2, SMTT(30) DEF Spent, Overtaken
  <2>5. MasterInv'
    BY <1>1, <2>3, <2>4, Zenon DEF MasterInv, Overtaken, Spent
  <2> QED BY <1>8, <1>9, <1>10, <1>12, <1>13, <1>14, <2>2, <2>5, Zenon DEF PipeInv, g
<1> QED BY <1>21, <1>22, Zenon

(* The supervisors' steps leave the frames alone. *)
LEMMA SupervisorOrder ==
    ASSUME PipeInv, UNCHANGED <<queue, inflight, delivered, now, lastTime>>,
           (buffers' = buffers /\ lastEmitted' = lastEmitted) \/ Len(buffers'[Master]) = 0
    PROVE  OrderInv' /\ MasterInv'
<1>1. OrderInv'
  BY Zenon DEF PipeInv, OrderInv
<1>2. \A x \in Nat : Overtaken(x) => Overtaken(x)'
  BY Zenon DEF Overtaken
<1> QED BY <1>1, <1>2, MasterIdle, Zenon

(* A pipeline starts when no frame of its camera is queued or in flight.   *)
LEMMA StartDeviceKeeps == ASSUME PipeInv, NEW c \in Cams, StartDevice(c) PROVE PipeInv'
<1>1. /\ sup[c] = "start" /\ sup' = [sup EXCEPT ![c] = "watch"]
      /\ alive' = [alive EXCEPT ![c] = FALSE] /\ quiet' = [quiet EXCEPT ![c] = 0]
      /\ connected' = [connected EXCEPT ![c] = FALSE]
      /\ number' = [number EXCEPT ![c] = 1] /\ gen' = [gen EXCEPT ![c] = @ + 1]
      /\ UNCHANGED <<buffers, lastEmitted, queue, inflight, delivered, now, lastTime, recovery>>
  BY Zenon DEF StartDevice, SyncIdle, frames
<1>2. inflight[c] = NoFrame /\ \A i \in 1..Len(queue) : queue[i].cam # c
  BY <1>1 DEF PipeInv, DeviceInv, QueueInv
<1>3. PipeType'
  BY <1>1 DEF PipeInv, PipeType
<1>4. \A d \in Cams \ {c} : /\ sup'[d] = sup[d] /\ quiet'[d] = quiet[d] /\ number'[d] = number[d]
                            /\ gen'[d] = gen[d] /\ connected'[d] = connected[d]
  BY <1>1, Zenon DEF PipeInv, PipeType
<1>5. sup'[c] = "watch" /\ number'[c] = 1 /\ ~connected'[c]
  BY <1>1, Zenon DEF PipeInv, PipeType
<1>6. DeviceInv'
  BY <1>1, <1>2, <1>4, <1>5, SMTT(30) DEF PipeInv, DeviceInv, Recent
<1>7. QueueInv'
  BY <1>1, <1>2, <1>4, MemberType, SMTT(30) DEF PipeInv, QueueInv, Recent
<1>8. BufferInv'
  <2>1. ~recovery[c] => Len(buffers[c]) = 0
    BY <1>1, Zenon DEF PipeInv, BufferInv
  <2> QED BY <1>1, <1>4, <1>5, <2>1, SMTT(30) DEF PipeInv, BufferInv
<1> QED BY <1>1, <1>3, <1>6, <1>7, <1>8, SupervisorOrder, Zenon DEF PipeInv

(* A failed start leaves the camera in recovery.                           *)
LEMMA StartFailsKeeps == ASSUME PipeInv, NEW c \in Cams, StartFails(c) PROVE PipeInv'
<1>1. /\ sup[c] = "start" /\ alive' = [alive EXCEPT ![c] = FALSE]
      /\ quiet' = [quiet EXCEPT ![c] = 0]
      /\ connected' = [connected EXCEPT ![c] = FALSE] /\ recovery' = [recovery EXCEPT ![c] = TRUE]
      /\ UNCHANGED <<buffers, lastEmitted, queue, inflight, delivered, now, lastTime, number, gen>>
  BY Zenon DEF StartFails, retryOrGiveUp, SyncIdle, frames
<1>2. PICK s \in {"exhausted", "wait"} : sup' = [sup EXCEPT ![c] = s]
  BY Zenon DEF StartFails, retryOrGiveUp
<1>3. inflight[c] = NoFrame /\ number[c] = 0 /\ \A i \in 1..Len(queue) : queue[i].cam # c
  BY <1>1 DEF PipeInv, DeviceInv, QueueInv
<1>4. PipeType'
  BY <1>1, <1>2, Zenon DEF PipeInv, PipeType
<1>5. \A d \in Cams \ {c} : /\ sup'[d] = sup[d] /\ quiet'[d] = quiet[d]
                            /\ recovery'[d] = recovery[d] /\ connected'[d] = connected[d]
  BY <1>1, <1>2, Zenon DEF PipeInv, PipeType
<1>6. sup'[c] \in {"exhausted", "wait"} /\ ~connected'[c] /\ recovery'[c]
  BY <1>1, <1>2, Zenon DEF PipeInv, PipeType
<1>7. DeviceInv'
  BY <1>1, <1>3, <1>5, <1>6, SMTT(30) DEF PipeInv, DeviceInv, Recent
<1>8. QueueInv'
  BY <1>1, <1>3, <1>5, MemberType, SMTT(30) DEF PipeInv, QueueInv, Recent
<1>9. BufferInv'
  BY <1>1, <1>5, <1>6 DEF PipeInv, BufferInv
<1> QED BY <1>1, <1>4, <1>7, <1>8, <1>9, SupervisorOrder, Zenon DEF PipeInv

(* When the wait is over the queue has no frame of the camera any more:    *)
(* the metadata thread lags less than the wait takes.                      *)
LEMMA RetryKeeps == ASSUME PipeInv, NEW c \in Cams, Retry(c) PROVE PipeInv'
<1>1. /\ sup[c] = "wait" /\ quiet[c] >= RetryDelay /\ sup' = [sup EXCEPT ![c] = "start"]
      /\ UNCHANGED <<buffers, lastEmitted, queue, inflight, delivered, now, lastTime, number, gen, alive, quiet,
                     connected, recovery>>
  BY Zenon DEF Retry, SyncIdle, frames, clock
<1>2. \A i \in 1..Len(queue) : queue[i].cam # c
  <2>1. SUFFICES ASSUME NEW i \in 1..Len(queue), queue[i].cam = c PROVE FALSE
    BY Zenon
  <2>2. /\ queue[i].time + quiet[c] <= now /\ now <= queue[i].time + MaxLag
        /\ queue[i].time \in Nat /\ quiet[c] \in Nat /\ now \in Nat
    BY <1>1, <2>1, MemberType, Zenon DEF PipeInv, PipeType, QueueInv, Recent
  <2> QED BY <1>1, <2>2, TimesAssumption
<1>3. number[c] = 0 /\ recovery[c]
  BY <1>1, Zenon DEF PipeInv, DeviceInv
<1>4. PipeType'
  BY <1>1, Zenon DEF PipeInv, PipeType
<1>5. sup'[c] = "start" /\ \A d \in Cams \ {c} : sup'[d] = sup[d]
  BY <1>1, Zenon DEF PipeInv, PipeType
<1>6. DeviceInv'
  BY <1>1, <1>3, <1>5, Zenon DEF PipeInv, DeviceInv, Recent
<1>7. QueueInv'
  BY <1>1, <1>2, <1>5, MemberType, SMTT(30) DEF PipeInv, QueueInv, Recent
<1>8. BufferInv'
  BY <1>1, <1>3, <1>5, Zenon DEF PipeInv, BufferInv
<1> QED BY <1>1, <1>4, <1>6, <1>7, <1>8, SupervisorOrder, Zenon DEF PipeInv

(* Stopping waits for the callback, so nothing of the camera is in flight. *)
LEMMA StopDeviceKeeps == ASSUME PipeInv, NEW c \in Cams, StopDevice(c) PROVE PipeInv'
<1>1. /\ sup[c] = "stop" /\ inflight[c] = NoFrame
      /\ number' = [number EXCEPT ![c] = 0] /\ quiet' = [quiet EXCEPT ![c] = 0]
      /\ UNCHANGED <<buffers, lastEmitted, queue, inflight, delivered, now, lastTime, gen, alive, connected, recovery>>
  BY Zenon DEF StopDevice, retryOrGiveUp, SyncIdle, frames
<1>2. PICK s \in {"exhausted", "wait"} : sup' = [sup EXCEPT ![c] = s]
  BY ZenonT(30) DEF StopDevice, retryOrGiveUp
<1>3. recovery[c]
  BY <1>1, Zenon DEF PipeInv, DeviceInv
<1>4. PipeType'
  BY <1>1, <1>2, Zenon DEF PipeInv, PipeType
<1>5. \A d \in Cams \ {c} : sup'[d] = sup[d] /\ quiet'[d] = quiet[d] /\ number'[d] = number[d]
  BY <1>1, <1>2, Zenon DEF PipeInv, PipeType
<1>6. sup'[c] \in {"exhausted", "wait"} /\ number'[c] = 0 /\ quiet'[c] = 0
  BY <1>1, <1>2, Zenon DEF PipeInv, PipeType
<1>7. DeviceInv'
  BY <1>1, <1>3, <1>5, <1>6, SMTT(30) DEF PipeInv, DeviceInv, Recent
<1>8. QueueInv'
  <2>1. ASSUME NEW i \in 1..Len(queue)
        PROVE  /\ sup'[queue[i].cam] # "start"
               /\ sup'[queue[i].cam] = "wait" => queue[i].time + quiet'[queue[i].cam] <= now
    <3>1. CASE queue[i].cam = c
      BY <1>6, <3>1, MemberType, SMTT(30) DEF PipeInv, QueueInv, Recent
    <3>2. CASE queue[i].cam # c
      BY <1>5, <3>2, MemberType, Zenon DEF PipeInv, QueueInv
    <3> QED BY <3>1, <3>2, Zenon
  <2> QED BY <1>1, <2>1, Zenon DEF PipeInv, QueueInv, Recent
<1>9. BufferInv'
  BY <1>1, <1>3, <1>5, SMTT(30) DEF PipeInv, BufferInv
<1> QED BY <1>1, <1>4, <1>7, <1>8, <1>9, SupervisorOrder, Zenon DEF PipeInv

(* A camera leaves recovery only with the reset that empties the buffers.  *)
LEMMA WatchKeeps == ASSUME PipeInv, NEW c \in Cams, Watch(c) PROVE PipeInv'
<1> DEFINE firstFrame == alive[c] /\ ~connected[c]
           timedOut == quiet[c] > Timeout
<1>1. /\ sup[c] = "watch" /\ (firstFrame \/ timedOut)
      /\ IF firstFrame /\ recovery[c] THEN reset_camera_generation(c) ELSE SyncIdle
      /\ connected' = [connected EXCEPT ![c] = ~timedOut] /\ recovery' = [recovery EXCEPT ![c] = timedOut]
      /\ sup' = [sup EXCEPT ![c] = IF timedOut THEN "stop" ELSE "watch"]
      /\ UNCHANGED <<queue, inflight, delivered, now, lastTime, number, gen, alive, quiet>>
  BY Zenon DEF Watch, frames, clock
<1>2. timedOut \in BOOLEAN
  OBVIOUS
<1>3. \/ /\ firstFrame /\ recovery[c] /\ buffers' = [d \in Cams |-> <<>>]
         /\ lastEmitted' = IF c = Master THEN 0 ELSE lastEmitted
      \/ ~(firstFrame /\ recovery[c]) /\ buffers' = buffers /\ lastEmitted' = lastEmitted
  BY <1>1, Zenon DEF reset_camera_generation, SyncIdle
<1> HIDE DEF firstFrame, timedOut
<1>4. PipeType'
  <2>1. buffers' \in [Cams -> Seq(Taken)] /\ lastEmitted' \in Nat
    <3>1. [d \in Cams |-> <<>>] \in [Cams -> Seq(Taken)]
      OBVIOUS
    <3>2. buffers \in [Cams -> Seq(Taken)] /\ lastEmitted \in Nat
      BY Zenon DEF PipeInv, PipeType
    <3>3. buffers' = buffers \/ buffers' = [d \in Cams |-> <<>>]
      BY <1>3, Zenon
    <3>4. lastEmitted' \in {0, lastEmitted}
      BY <1>3, Zenon
    <3>5. buffers' \in [Cams -> Seq(Taken)]
      BY <3>1, <3>2, <3>3, ZenonT(30)
    <3>6. lastEmitted' \in Nat
      BY <3>2, <3>4
    <3> QED BY <3>5, <3>6, Zenon
  <2>2. connected' \in [Cams -> BOOLEAN] /\ recovery' \in [Cams -> BOOLEAN]
    BY <1>1, <1>2, ZenonT(30) DEF PipeInv, PipeType
  <2>3. sup' \in [Cams -> {"start", "watch", "stop", "wait", "exhausted"}]
    BY <1>1, Zenon DEF PipeInv, PipeType
  <2> QED BY <1>1, <2>1, <2>2, <2>3, Zenon DEF PipeInv, PipeType
<1>5. \A d \in Cams \ {c} : sup'[d] = sup[d] /\ connected'[d] = connected[d] /\ recovery'[d] = recovery[d]
  BY <1>1, Zenon DEF PipeInv, PipeType
<1>6. sup'[c] = (IF timedOut THEN "stop" ELSE "watch") /\ (connected'[c] <=> ~timedOut) /\ (recovery'[c] <=> timedOut)
  BY <1>1, ZenonT(30) DEF PipeInv, PipeType
<1>7. DeviceInv'
  BY <1>1, <1>5, <1>6 DEF PipeInv, DeviceInv, Recent
<1>8. QueueInv'
  <2>1. \A d \in Cams : (sup[d] # "start" => sup'[d] # "start") /\ (sup'[d] = "wait" => sup[d] = "wait")
    BY <1>5, <1>6, Zenon
  <2> QED BY <1>1, <2>1, MemberType DEF PipeInv, QueueInv, Recent
<1>9. BufferInv'
  <2>1. CASE firstFrame /\ recovery[c]
    BY <1>3, <2>1, SMTT(30) DEF BufferInv
  <2>2. CASE ~(firstFrame /\ recovery[c])
    <3>1. recovery[c] => recovery'[c]
      BY <1>1, <1>6, <2>2, Zenon
    <3> QED BY <1>1, <1>3, <1>5, <1>6, <2>2, <3>1, SMTT(30) DEF PipeInv, BufferInv
  <2> QED BY <2>1, <2>2, Zenon
<1>10. (buffers' = buffers /\ lastEmitted' = lastEmitted) \/ Len(buffers'[Master]) = 0
  BY <1>3, NoFrameType, SMTT(30)
<1> QED BY <1>1, <1>4, <1>7, <1>8, <1>9, <1>10, SupervisorOrder, Zenon DEF PipeInv

(* A period passes only while no frame is due to be taken.                 *)
LEMMA TickKeeps == ASSUME PipeInv, Tick PROVE PipeInv'
<1>1. /\ \A f \in waiting : now - f.time < MaxLag
      /\ now' = now + 1 /\ delivered' = {}
      /\ number' = [c \in Cams |-> IF number[c] = 0 THEN 0 ELSE number[c] + 1]
      /\ quiet' = [c \in Cams |-> IF quiet[c] > Timeout /\ quiet[c] >= RetryDelay
                                  THEN quiet[c] ELSE quiet[c] + 1]
      /\ UNCHANGED <<buffers, lastEmitted, queue, inflight, lastTime, alive, sup, gen, connected, recovery>>
  BY Zenon DEF Tick, SyncIdle, supervisor
<1>2. \A c \in Cams : quiet'[c] \in Nat /\ quiet'[c] <= quiet[c] + 1
  <2> TAKE c \in Cams
  <2>1. quiet[c] \in Nat /\ quiet'[c] \in {quiet[c], quiet[c] + 1}
    BY <1>1, Zenon DEF PipeInv, PipeType
  <2> QED BY <2>1
<1>3. \A c \in Cams : number'[c] \in Nat /\ (number'[c] # 0 <=> number[c] # 0)
  BY <1>1 DEF PipeInv, PipeType
<1>4. PipeType'
  <2>1. quiet' \in [Cams -> Nat] /\ number' \in [Cams -> Nat]
    BY <1>1, <1>2, <1>3, ZenonT(30)
  <2>2. /\ now' = now + 1 /\ delivered' = {}
        /\ UNCHANGED <<buffers, lastEmitted, queue, inflight, lastTime, alive, sup, gen, connected, recovery>>
    BY <1>1, Zenon
  <2> QED BY <2>1, <2>2, SMTT(30) DEF PipeInv, PipeType
<1>5. now \in Nat /\ MaxLag \in Nat
  BY TimesAssumption, Zenon DEF PipeInv, PipeType
<1>6. ASSUME NEW f \in Taken, f \in waiting, Recent(f) PROVE Recent(f)'
  BY <1>1, <1>5, <1>6, SMTT(30) DEF Recent, Taken
<1>7. ASSUME NEW i \in 1..Len(queue) PROVE queue[i] \in Taken /\ Recent(queue[i])' /\ queue[i] \in waiting
  <2>1. queue[i] \in Taken /\ Recent(queue[i]) /\ queue[i] # NoFrame
    BY MemberType, NoFrameType, Zenon DEF PipeInv, QueueInv, Recent
  <2>2. queue[i] \in waiting
    BY <2>1, SMTT(30) DEF waiting
  <2>3. now < queue[i].time + MaxLag /\ queue[i].time \in Nat
    BY <1>1, <1>5, <2>1, <2>2, MemberType, SMTT(30) DEF PipeInv
  <2> QED BY <1>1, <1>5, <2>1, <2>2, <2>3, SMTT(30) DEF Recent
<1>8. ASSUME NEW c \in Cams, inflight[c] # NoFrame PROVE Recent(inflight[c])'
  <2>1. Recent(inflight[c]) /\ inflight[c].time \in Nat /\ inflight[c] \in waiting
    BY <1>8, MemberType, Zenon DEF PipeInv, DeviceInv, waiting
  <2>2. now < inflight[c].time + MaxLag
    BY <1>1, <1>5, <2>1, SMTT(30)
  <2> QED BY <1>1, <1>5, <2>1, <2>2, SMTT(30) DEF Recent
<1>9. DeviceInv'
  BY <1>1, <1>3, <1>8, Zenon DEF PipeInv, DeviceInv
<1>10. QueueInv'
  <2>1. ASSUME NEW i \in 1..Len(queue), sup[queue[i].cam] = "wait"
        PROVE  queue[i].time + quiet'[queue[i].cam] <= now'
    <3>1. queue[i].time + quiet[queue[i].cam] <= now /\ queue[i].cam \in Cams /\ queue[i].time \in Nat
      BY <2>1, MemberType, Zenon DEF PipeInv, QueueInv
    <3>2. now' = now + 1
      BY <1>1, Zenon
    <3>3. quiet[queue[i].cam] \in Nat /\ quiet'[queue[i].cam] \in Nat /\ quiet'[queue[i].cam] <= quiet[queue[i].cam] + 1
      BY <1>2, <3>1, Zenon DEF PipeInv, PipeType
    <3> QED BY <1>5, <3>1, <3>2, <3>3, SMTT(30)
  <2> QED BY <1>1, <1>7, <2>1, Zenon DEF PipeInv, QueueInv
<1>11. BufferInv'
  BY <1>1, Zenon DEF PipeInv, BufferInv
<1>12. OrderInv'
  <2>1. \A i \in 1..Len(queue) : queue[i].time < now'
    BY <1>1, <1>5, MemberType, SMTT(30) DEF PipeInv, QueueInv, Recent
  <2>2. \A c \in Cams : inflight[c] # NoFrame => inflight[c].time < now'
    BY <1>1, <1>5, MemberType, SMTT(30) DEF PipeInv, DeviceInv, Recent
  <2> QED BY <1>1, <2>1, <2>2, Zenon DEF PipeInv, OrderInv
<1>13. MasterInv'
  <2>1. \A x \in Nat : Overtaken(x) => Overtaken(x)'
    BY <1>1, <1>5 DEF Overtaken
  <2> QED BY <1>1, <2>1, MasterIdle, Zenon
<1> QED BY <1>4, <1>9, <1>10, <1>11, <1>12, <1>13, Zenon DEF PipeInv

(* Every step keeps the invariant and has both properties.                 *)
LEMMA PipelineInvariant == Spec => [](PipeInv /\ NoPreReconnectFrame) /\ MasterFramesInOrder
<1> DEFINE Order == bundle' # NoBundle => bundle'[Master].time > lastTime
<1>1. Init => PipeInv /\ NoPreReconnectFrame
  <2> SUFFICES ASSUME Init PROVE PipeInv /\ NoPreReconnectFrame
    BY Zenon
  <2>1. buffers = [c \in Cams |-> <<>>] /\ lastEmitted = 0 /\ bundle = <<>>
    BY Zenon DEF Init, SyncInit, NoBundle
  <2>2. PipeType
    BY <2>1, NoFrameType, SMTT(30) DEF Init, PipeType
  <2>3. DeviceInv /\ QueueInv /\ BufferInv
    BY <2>1, SMTT(30) DEF Init, DeviceInv, QueueInv, BufferInv
  <2>4. OrderInv
    BY DEF Init, OrderInv
  <2>5. MasterInv
    BY <2>1, NoFrameType DEF Init, MasterInv, Overtaken
  <2>6. NoPreReconnectFrame
    BY <2>1 DEF NoPreReconnectFrame
  <2> QED BY <2>2, <2>3, <2>4, <2>5, <2>6, Zenon DEF PipeInv
<1>2. PipeInv /\ NoPreReconnectFrame /\ [Next]_vars => (PipeInv /\ NoPreReconnectFrame)' /\ [Order]_vars
  <2> SUFFICES ASSUME PipeInv, NoPreReconnectFrame, [Next]_vars PROVE (PipeInv /\ NoPreReconnectFrame)' /\ [Order]_vars
    BY Zenon
  <2>1. bundle' = NoBundle => NoPreReconnectFrame' /\ Order
    BY DEF NoPreReconnectFrame, NoBundle
  <2>2. CASE Tick
    BY <2>1, <2>2, TickKeeps, Zenon DEF Tick, SyncIdle
  <2>3. CASE process_frame_metadata
    BY <2>3, ProcessKeeps, Zenon
  <2>4. ASSUME NEW c \in Cams, Deliver(c) PROVE PipeInv' /\ bundle' = NoBundle
    BY <2>4, DeliverKeeps, Zenon DEF Deliver, SyncIdle
  <2>5. ASSUME NEW c \in Cams, Enqueue(c) PROVE PipeInv' /\ bundle' = NoBundle
    BY <2>5, EnqueueKeeps, Zenon DEF Enqueue, SyncIdle
  <2>6. ASSUME NEW c \in Cams, StartDevice(c) PROVE PipeInv' /\ bundle' = NoBundle
    BY <2>6, StartDeviceKeeps, Zenon DEF StartDevice, SyncIdle
  <2>7. ASSUME NEW c \in Cams, StartFails(c) PROVE PipeInv' /\ bundle' = NoBundle
    BY <2>7, StartFailsKeeps, Zenon DEF StartFails, SyncIdle
  <2>8. ASSUME NEW c \in Cams, Retry(c) PROVE PipeInv' /\ bundle' = NoBundle
    BY <2>8, RetryKeeps, Zenon DEF Retry, SyncIdle
  <2>9. ASSUME NEW c \in Cams, Watch(c) PROVE PipeInv' /\ bundle' = NoBundle
    BY <2>9, WatchKeeps, ZenonT(30) DEF Watch, SyncIdle, reset_camera_generation
  <2>10. ASSUME NEW c \in Cams, StopDevice(c) PROVE PipeInv' /\ bundle' = NoBundle
    BY <2>10, StopDeviceKeeps, Zenon DEF StopDevice, SyncIdle
  <2>11. CASE UNCHANGED vars
    <3>1. /\ UNCHANGED <<buffers, lastEmitted, bundle, sup, gen, connected, recovery>>
          /\ UNCHANGED <<delivered, inflight, queue, now, number, alive, quiet, lastTime>>
      BY <2>11, Zenon DEF vars, supervisor, frames, clock
    <3>2. PipeType' /\ DeviceInv'
      BY <3>1, Zenon DEF PipeInv, PipeType, DeviceInv, Recent
    <3>3. QueueInv' /\ BufferInv'
      BY <3>1, Zenon DEF PipeInv, QueueInv, BufferInv, Recent
    <3>4. NoPreReconnectFrame'
      BY <3>1, Zenon DEF NoPreReconnectFrame
    <3> QED BY <2>11, <3>1, <3>2, <3>3, <3>4, SupervisorOrder, ZenonT(30) DEF PipeInv
  <2> HIDE DEF Order
  <2> QED BY <2>1, <2>2, <2>3, <2>4, <2>5, <2>6, <2>7, <2>8, <2>9, <2>10, <2>11, ZenonT(30) DEF Next, Order
<1> QED BY <1>1, <1>2, PTL DEF Spec, MasterFramesInOrder

(* A bundle published while a camera is declared connected holds no frame  *)
(* of a pipeline that its supervisor has replaced: reset_camera_generation *)
(* empties the buffers, and nothing of the old pipeline is queued by then. *)
THEOREM BundlesOfRunningPipelines == Spec => []NoPreReconnectFrame
BY PipelineInvariant, PTL

(* Each master frame is published at most once and in the order of the     *)
(* device, although a restart resets the numbers the gate compares.        *)
THEOREM MasterFrameAtMostOnce == Spec => MasterFramesInOrder
BY PipelineInvariant, PTL

(* The frames of a running pipeline are numbered by the periods.           *)
Counted(g, c) ==
    g.gen <= gen[c] /\ (number[c] # 0 /\ g.gen = gen[c] => g.num + now = number[c] + g.time)

CountInv ==
    /\ \A c \in Cams : \A k \in 1..Len(buffers[c]) : Counted(buffers[c][k], c)
    /\ \A i \in 1..Len(queue) : Counted(queue[i], queue[i].cam)
    /\ \A c \in Cams : inflight[c] # NoFrame => Counted(inflight[c], c)

(* Out of recovery the gate is 0 or has the number the running pipeline of *)
(* the master gave to the last bundle's frame.                             *)
GateInv ==
    ~recovery[Master] =>
       /\ sup[Master] = "start" => lastEmitted = 0
       /\ number[Master] # 0 /\ lastEmitted # 0 => lastEmitted + now = number[Master] + lastTime

(* A camera whose frame of this period was taken has no other one on its   *)
(* way, and none that is lost after that is back in the same period.       *)
TakenInv ==
    /\ \A c \in Cams : connected[c] => sup[c] = "watch"
    /\ \A c \in delivered : quiet[c] = 0
    /\ \A c \in taken : /\ c \in delivered /\ connected[c] /\ inflight[c] = NoFrame
                        /\ \A i \in 1..Len(queue) : queue[i].cam # c
    /\ taken # {} => \A c \in Cams : \/ connected[c] \/ sup[c] \in {"stop", "exhausted"}
                                     \/ sup[c] = "wait" /\ quiet[c] = 0

(* All cameras are connected and, in hardware mode, count alike.           *)
Ready ==
    /\ \A c \in Cams : connected[c]
    /\ mode.hardware => \A c \in Cams : number[c] = number[Master]

(* Until the bundle of this period is published, the frames taken are the  *)
(* last of their buffers and one is missing.                               *)
PairInv ==
    Ready /\ lastTime # now =>
       /\ taken # Cams
       /\ \A c \in taken : Len(buffers[c]) # 0 /\ Last(buffers[c]).time = now

PeriodInv == taken \subseteq Cams /\ CountInv /\ GateInv /\ TakenInv /\ PairInv

(* The newest frame of a camera when f is pushed. *)
Newest(f, c, g) == IF f.cam = c THEN g = f ELSE Len(buffers[c]) # 0 /\ g = Last(buffers[c])

(* The buffers with f, before anything is consumed. *)
Pushed(f) == [buffers EXCEPT ![f.cam] = trim_buffer(Append(@, f))]

LEMMA PushedFacts ==
    ASSUME buffers \in [Cams -> Seq(Taken)], NEW f \in Taken
    PROVE  /\ Pushed(f) \in [Cams -> Seq(Taken)]
           /\ \A c \in Cams : \A k \in 1..Len(Pushed(f)[c]) : From(f, c, Pushed(f)[c][k])
           /\ \A c \in Cams : \A g : Newest(f, c, g) =>
                 Len(Pushed(f)[c]) \in Nat \ {0} /\ Last(Pushed(f)[c]) = g
<1> DEFINE buf == Pushed(f)
<1>1. f.cam \in Cams
  BY Zenon DEF Taken
<1>2. /\ buf \in [Cams -> Seq(Taken)]
      /\ buf[f.cam] = trim_buffer(Append(buffers[f.cam], f))
      /\ \A c \in Cams \ {f.cam} : buf[c] = buffers[c]
  BY <1>1, TrimFacts, Zenon DEF Pushed
<1> HIDE DEF buf
<1>3. ASSUME NEW c \in Cams
      PROVE  /\ \A k \in 1..Len(buf[c]) : From(f, c, buf[c][k])
             /\ \A g : Newest(f, c, g) => Len(buf[c]) # 0 /\ Last(buf[c]) = g
  <2>1. CASE c = f.cam
    <3> DEFINE u == trim_buffer(Append(buffers[c], f))
    <3>1. buffers[c] \in Seq(Taken) /\ buf[c] = u
      BY <1>2, <2>1, Zenon
    <3>2. /\ Len(u) # 0 /\ Last(u) = f
          /\ \A k \in 1..Len(u) : u[k] = f \/ \E i \in 1..Len(buffers[c]) : u[k] = buffers[c][i]
      BY <3>1, TrimFacts, Zenon
    <3> HIDE DEF u
    <3> QED BY <2>1, <3>1, <3>2, Zenon DEF From, Newest
  <2>2. CASE c # f.cam
    BY <1>2, <2>2, Zenon DEF From, Newest
  <2> QED BY <2>1, <2>2, Zenon
<1>4. \A c \in Cams : Len(buf[c]) \in Nat
  BY <1>2
<1> QED BY <1>2, <1>3, <1>4, Zenon DEF buf

(* What is not obsolete at the end of a buffer stays there. *)
LEMMA ConsumedKeeps ==
    ASSUME NEW s \in Seq(Taken), NEW m, NEW complete, Len(s) # 0, ~obsolete(Last(s), m, complete)
    PROVE  Len(consumed(s, m, complete)) # 0 /\ Last(consumed(s, m, complete)) = Last(s)
<1> DEFINE I == {i \in DOMAIN s : ~obsolete(s[i], m, complete)}
           earliest == CHOOSE i \in I : \A j \in I : i <= j
<1>1. Len(s) \in Nat \ {0} /\ DOMAIN s = 1..Len(s)
  OBVIOUS
<1>2. Len(s) \in I
  <2>1. Len(s) \in DOMAIN s
    BY <1>1
  <2> QED BY <2>1, Zenon DEF Last
<1>3. consumed(s, m, complete) = SubSeq(s, earliest, Len(s))
  BY <1>2, Zenon DEF consumed
<1>4. I \subseteq 1..Len(s) /\ I \subseteq Nat
  BY <1>1
<1> HIDE DEF I
<1>5. earliest \in 1..Len(s)
  <2>1. \E i \in I : \A j \in I : i <= j
    BY <1>2, <1>4, Least, Zenon
  <2> QED BY <1>4, <2>1, Zenon
<1> HIDE DEF earliest
<1>6. Len(SubSeq(s, earliest, Len(s))) # 0
  BY <1>1, <1>5
<1> QED BY <1>3, <1>6, ConsumedFacts, Zenon

(* The newest frame of a camera stays in its buffer, unless the bundle     *)
(* published takes it or makes it obsolete.                                *)
LEMMA PushKeepsNewest ==
    ASSUME buffers \in [Cams -> Seq(Taken)], NEW f \in Taken, push_frame(f),
           NEW c \in Cams, NEW g \in Taken, Newest(f, c, g),
           bundle' # NoBundle =>
              LET m == bundle'[Master] IN
              /\ m \in Taken
              /\ IF mode.hardware THEN g.num > m.num ELSE g.time >= m.time - MaxDiff
    PROVE  Len(buffers'[c]) # 0 /\ Last(buffers'[c]) = g
<1> DEFINE buf == Pushed(f)
           master == Last(buf[Master])
           present == {d \in Cams : candidates(buf, master, d) # {}}
           selected == [d \in present |-> CHOOSE x \in candidates(buf, master, d) : TRUE]
           complete == /\ present = Cams
                       /\ \A d, e \in Cams : selected[d].time - selected[e].time <= MaxDiff
           emits == buf[Master] # <<>> /\ isPending(master) /\ (complete \/ mode.incomplete)
<1>1. /\ buf[c] \in Seq(Taken) /\ Len(buf[c]) # 0 /\ Last(buf[c]) = g
  BY PushedFacts, Zenon
<1>2. IF emits
      THEN /\ bundle' = selected
           /\ buffers' = [d \in Cams |-> consumed(buf[d], master, complete)]
      ELSE buffers' = buf /\ bundle' = NoBundle
  BY Zenon DEF push_frame, Last, Pushed
<1> HIDE DEF buf
<1>3. CASE ~emits
  BY <1>1, <1>2, <1>3, Zenon
<1>4. CASE emits
  <2> HIDE DEF emits, complete
  <2>1. bundle' = selected /\ buffers'[c] = consumed(buf[c], master, complete)
    BY <1>2, <1>4, Zenon
  <2>2. candidates(buf, master, Master) = {master} /\ Master \in Cams
    BY GroupAssumption, Zenon DEF candidates
  <2> HIDE DEF master
  <2>3. Master \in present
    BY <2>2, Zenon
  <2>4. selected[Master] \in candidates(buf, master, Master)
    BY <2>3, Zenon
  <2>5. Master \in DOMAIN selected /\ selected[Master] = master
    BY <2>2, <2>3, <2>4, Zenon
  <2> HIDE DEF selected, present
  <2>6. bundle' # NoBundle /\ bundle'[Master] = master
    BY <2>1, <2>5 DEF NoBundle
  <2>7. /\ master \in Taken
        /\ IF mode.hardware THEN g.num > master.num ELSE g.time >= master.time - MaxDiff
    BY <2>6, Zenon
  <2>8. g.num \in Nat /\ g.time \in Nat /\ master.num \in Nat /\ master.time \in Nat /\ MaxDiff \in Nat
    BY <2>7, LimitsAssumption, Zenon DEF Taken
  <2>9. ~obsolete(g, master, complete)
    <3>1. CASE mode.hardware
      <4>1. ~(g.num < master.num) /\ g.num # master.num
        BY <2>7, <2>8, <3>1
      <4> QED BY <3>1, <4>1, Zenon DEF obsolete
    <3>2. CASE ~mode.hardware
      <4>1. ~(g.time < master.time - MaxDiff)
        BY <2>7, <2>8, <3>2
      <4> QED BY <3>2, <4>1, Zenon DEF obsolete
    <3> QED BY <3>1, <3>2, Zenon
  <2>10. ~obsolete(Last(buf[c]), master, complete)
    BY <1>1, <2>9, Zenon
  <2>11. Len(consumed(buf[c], master, complete)) # 0 /\ Last(consumed(buf[c], master, complete)) = Last(buf[c])
    BY <1>1, <2>10, ConsumedKeeps, Zenon
  <2> QED BY <1>1, <2>1, <2>11, Zenon
<1> QED BY <1>3, <1>4, Zenon

(* The frame nearest to the last one's arrival arrived when that one did.  *)
LEMMA NearestToLast ==
    ASSUME NEW s \in Seq(Taken), NEW t \in Nat, Len(s) # 0, Last(s).time = t
    PROVE  /\ nearest_by_timestamp(s, t) # {}
           /\ \A x \in nearest_by_timestamp(s, t) : x.time = t
<1> DEFINE J == {i \in DOMAIN s : s[i].time = t}
<1>1. DOMAIN s = 1..Len(s) /\ Len(s) \in DOMAIN s /\ \A i \in DOMAIN s : s[i] \in Taken
  OBVIOUS
<1>2. \A i \in DOMAIN s : s[i].time \in Nat
  BY <1>1, Zenon DEF Taken
<1>3. Len(s) \in J /\ J \subseteq Nat
  BY <1>1 DEF Last
<1>4. PICK i \in J : \A j \in J : i <= j
  BY <1>3, Least, Zenon
<1>5. \A u \in Nat : diff(u, t) \in Nat /\ (diff(u, t) = 0 <=> u = t)
  BY DEF diff
<1>6. s[i] \in nearest_by_timestamp(s, t)
  <2>1. ASSUME NEW j \in DOMAIN s
        PROVE  \/ diff(s[i].time, t) < diff(s[j].time, t)
               \/ diff(s[i].time, t) = diff(s[j].time, t) /\ i <= j
    <3>1. CASE s[j].time = t
      BY <1>4, <3>1, Zenon
    <3>2. CASE s[j].time # t
      <4>1. diff(s[i].time, t) = 0 /\ diff(s[j].time, t) \in Nat \ {0}
        BY <1>2, <1>5, <3>2, Zenon
      <4> QED BY <4>1
    <3> QED BY <3>1, <3>2, Zenon
  <2> QED BY <2>1, Zenon DEF nearest_by_timestamp
<1>7. ASSUME NEW x \in nearest_by_timestamp(s, t) PROVE x.time = t
  <2>1. PICK k \in DOMAIN s : /\ x = s[k]
                              /\ \/ diff(s[k].time, t) < diff(s[Len(s)].time, t)
                                 \/ diff(s[k].time, t) = diff(s[Len(s)].time, t)
    BY <1>1, <1>7, Zenon DEF nearest_by_timestamp
  <2>2. diff(s[Len(s)].time, t) = 0
    BY <1>3, <1>5, Zenon
  <2>3. s[k].time \in Nat /\ diff(s[k].time, t) \in Nat
    BY <1>2, <1>5, Zenon
  <2>4. diff(s[k].time, t) = 0
    BY <2>1, <2>2, <2>3
  <2> QED BY <1>5, <2>1, <2>3, <2>4, Zenon
<1> QED BY <1>6, <1>7, Zenon

(* A buffer whose last frame has the number has a first such frame.        *)
LEMMA ExactOfLast ==
    ASSUME NEW s \in Seq(Taken), NEW n, Len(s) # 0, Last(s).num = n
    PROVE  /\ exact_frame_number(s, n) # {}
           /\ \A x \in exact_frame_number(s, n) : x.num = n /\ \E k \in 1..Len(s) : x = s[k]
<1> DEFINE J == {i \in DOMAIN s : s[i].num = n}
<1>1. DOMAIN s = 1..Len(s) /\ Len(s) \in DOMAIN s /\ Len(s) \in Nat
  OBVIOUS
<1>2. Len(s) \in J /\ J \subseteq Nat
  BY <1>1 DEF Last
<1>3. PICK i \in J : \A j \in J : i <= j
  BY <1>2, Least, Zenon
<1>4. \A j \in 1..(i - 1) : j \in DOMAIN s /\ ~(i <= j)
  BY <1>1
<1>5. \A j \in 1..(i - 1) : s[j].num # n
  BY <1>3, <1>4, Zenon
<1>6. s[i] \in exact_frame_number(s, n)
  BY <1>3, <1>5, Zenon DEF exact_frame_number
<1> QED BY <1>1, <1>6, Zenon DEF exact_frame_number

(* When the newest frames of all cameras arrived in one period (and, in    *)
(* hardware mode, have one number) and the gate is below the master's,     *)
(* push_frame publishes a bundle.                                          *)
LEMMA PushPublishes ==
    ASSUME buffers \in [Cams -> Seq(Taken)], NEW f \in Taken, push_frame(f),
           NEW t \in Nat, NEW n \in Nat, n > lastEmitted,
           \A c \in Cams : \E g \in Taken : /\ Newest(f, c, g) /\ g.time = t
                                            /\ c = Master \/ mode.hardware => g.num = n,
           mode.hardware => \A c \in Cams, g \in Taken : From(f, c, g) /\ g.num = n => g.time = t
    PROVE  bundle' # NoBundle
<1> DEFINE buf == Pushed(f)
           master == Last(buf[Master])
           present == {d \in Cams : candidates(buf, master, d) # {}}
           selected == [d \in present |-> CHOOSE x \in candidates(buf, master, d) : TRUE]
           complete == /\ present = Cams
                       /\ \A d, e \in Cams : selected[d].time - selected[e].time <= MaxDiff
           emits == buf[Master] # <<>> /\ isPending(master) /\ (complete \/ mode.incomplete)
<1>1. ASSUME NEW c \in Cams
      PROVE  /\ buf[c] \in Seq(Taken) /\ Len(buf[c]) \in Nat \ {0} /\ Last(buf[c]).time = t
             /\ c = Master \/ mode.hardware => Last(buf[c]).num = n
             /\ \A k \in 1..Len(buf[c]) : From(f, c, buf[c][k])
  BY PushedFacts, ZenonT(30)
<1>2. emits => bundle' = selected
  BY Zenon DEF push_frame, Last, Pushed
<1> HIDE DEF buf
<1>3. Master \in Cams /\ master.time = t /\ master.num = n
  BY <1>1, GroupAssumption, Zenon
<1> HIDE DEF master
<1>4. ASSUME NEW c \in Cams
      PROVE  candidates(buf, master, c) # {} /\ \A x \in candidates(buf, master, c) : x.time = t
  <2>1. CASE c = Master
    BY <1>3, <2>1, Zenon DEF candidates
  <2>2. CASE c # Master /\ mode.hardware
    <3>1. candidates(buf, master, c) = exact_frame_number(buf[c], n)
      BY <1>3, <2>2, Zenon DEF candidates
    <3>2. /\ exact_frame_number(buf[c], n) # {}
          /\ \A x \in exact_frame_number(buf[c], n) : x.num = n /\ \E k \in 1..Len(buf[c]) : x = buf[c][k]
      BY <1>1, <2>2, ExactOfLast, Zenon
    <3>3. \A k \in 1..Len(buf[c]) : buf[c][k] \in Taken
      BY <1>1
    <3>4. \A x \in exact_frame_number(buf[c], n) : x.time = t
      BY <1>1, <2>2, <3>2, <3>3, Zenon
    <3> QED BY <3>1, <3>2, <3>4, SMT
  <2>3. CASE c # Master /\ ~mode.hardware
    <3>1. candidates(buf, master, c) = nearest_by_timestamp(buf[c], t)
      BY <1>3, <2>3, Zenon DEF candidates
    <3>2. /\ nearest_by_timestamp(buf[c], t) # {}
          /\ \A x \in nearest_by_timestamp(buf[c], t) : x.time = t
      BY <1>1, NearestToLast, Zenon
    <3> QED BY <3>1, <3>2, SMT
  <2> QED BY <2>1, <2>2, <2>3, Zenon
<1>5. present = Cams
  BY <1>4, Zenon
<1>6. \A d \in Cams : selected[d].time = t
  <2> TAKE d \in Cams
  <2>1. selected[d] \in candidates(buf, master, d)
    BY <1>4, <1>5, Zenon
  <2> QED BY <1>4, <2>1, Zenon
<1>7. Master \in DOMAIN selected
  BY <1>3, <1>5, Zenon
<1> HIDE DEF present, selected
<1>8. t - t <= MaxDiff
  BY LimitsAssumption
<1>9. complete
  BY <1>5, <1>6, <1>8, Zenon
<1>10. buf[Master] # <<>>
  BY <1>1, <1>3
<1>11. isPending(master)
  BY <1>3, Zenon DEF isPending
<1>12. bundle' = selected
  BY <1>2, <1>9, <1>10, <1>11, Zenon
<1> QED BY <1>7, <1>12 DEF NoBundle

(* The metadata thread takes a frame: the bundle of the period comes with  *)
(* the last camera's frame at the latest.                                  *)
LEMMA ProcessPeriod == ASSUME PipeInv, PeriodInv, process_frame_metadata PROVE PeriodInv'
<1> DEFINE h == Head(queue)
<1>1. /\ queue # <<>> /\ queue' = Tail(queue) /\ push_frame(h)
      /\ taken' = IF h.time = now /\ \A c \in Cams : connected[c] THEN taken \cup {h.cam} ELSE taken
      /\ lastTime' = IF bundle' = NoBundle THEN lastTime ELSE bundle'[Master].time
      /\ UNCHANGED <<mode, inflight, delivered, now, number, quiet, sup, gen, connected, recovery>>
  BY Zenon DEF process_frame_metadata, push_frame, supervisor, clock
<1>2. /\ Len(queue) \in Nat \ {0} /\ h = queue[1] /\ 1 \in 1..Len(queue)
      /\ \A i \in 1..Len(queue') : queue'[i] = queue[i + 1] /\ i + 1 \in 1..Len(queue) /\ 1 < i + 1
  BY <1>1, SMTT(30) DEF PipeInv, PipeType
<1> HIDE DEF h
<1>3. /\ h \in Taken /\ h.cam \in Cams /\ h.time \in Nat /\ h.gen = gen[h.cam] /\ Recent(h)
      /\ sup[h.cam] # "start" /\ Counted(h, h.cam)
  BY <1>2, MemberType, Zenon DEF PipeInv, QueueInv, PeriodInv, CountInv
<1>4. /\ buffers \in [Cams -> Seq(Taken)] /\ now \in Nat \ {0} /\ lastTime \in Nat /\ lastEmitted \in Nat
      /\ number \in [Cams -> Nat] /\ gen \in [Cams -> Nat] /\ Master \in Cams
  BY NoFrameType, Zenon DEF PipeInv, PipeType
<1>5. \A f \in Taken : f.num \in Nat /\ f.time \in Nat /\ f.gen \in Nat /\ f.cam \in Cams
  BY Zenon DEF Taken
<1>6. /\ \A c \in Cams : \A k \in 1..Len(buffers'[c]) : From(h, c, buffers'[c][k])
      /\ bundle' = NoBundle => lastEmitted' = lastEmitted
      /\ bundle' # NoBundle => /\ From(h, Master, bundle'[Master]) /\ IsNewest(h, bundle'[Master])
                               /\ bundle'[Master] \in Taken /\ lastEmitted' = bundle'[Master].num
  BY <1>1, <1>3, <1>4, PushFacts, ZenonT(30)
<1>7. ASSUME NEW c \in Cams, NEW g, From(h, c, g)
      PROVE  /\ g \in Taken /\ Counted(g, c)
             /\ ~recovery[c] => g.gen = gen[c] /\ sup[c] # "start"
  <2>1. CASE h.cam = c /\ g = h
    BY <1>3, <2>1, Zenon
  <2>2. ASSUME NEW i \in 1..Len(buffers[c]), g = buffers[c][i]
        PROVE  g \in Taken /\ Counted(g, c) /\ (~recovery[c] => g.gen = gen[c] /\ sup[c] # "start")
    <3>1. g \in Taken /\ Counted(g, c) /\ (~recovery[c] => g.gen = gen[c])
      BY <2>2, MemberType, Zenon DEF PipeInv, PeriodInv, CountInv, BufferInv
    <3>2. Len(buffers[c]) # 0
      BY <1>4
    <3> QED BY <3>1, <3>2, Zenon DEF PipeInv, BufferInv
  <2> QED BY <1>7, <2>1, <2>2, Zenon DEF From
<1>8. CountInv'
  <2>1. \A c \in Cams : \A k \in 1..Len(buffers'[c]) : Counted(buffers'[c][k], c)
    BY <1>6, <1>7, Zenon
  <2>2. \A i \in 1..Len(queue') : Counted(queue'[i], queue'[i].cam)
    BY <1>2, Zenon DEF PeriodInv, CountInv
  <2> QED BY <1>1, <2>1, <2>2, Zenon DEF PeriodInv, CountInv, Counted
<1>9. GateInv'
  <2>1. SUFFICES ASSUME ~recovery[Master]
                 PROVE  /\ sup[Master] = "start" => lastEmitted' = 0
                        /\ number[Master] # 0 /\ lastEmitted' # 0 => lastEmitted' + now = number[Master] + lastTime'
    BY <1>1, Zenon DEF GateInv
  <2>2. CASE bundle' = NoBundle
    BY <1>1, <1>6, <2>1, <2>2, Zenon DEF PeriodInv, GateInv
  <2>3. CASE bundle' # NoBundle
    BY <1>1, <1>4, <1>6, <1>7, <2>1, <2>3, Zenon DEF Counted
  <2> QED BY <2>2, <2>3, Zenon
<1>10. h.cam \notin taken /\ taken' \subseteq Cams /\ taken \subseteq taken'
  BY <1>1, <1>2, <1>3, Zenon DEF PeriodInv, TakenInv
<1>11. \A c \in taken' \ taken : c = h.cam /\ h.time = now /\ \A d \in Cams : connected[d]
  BY <1>1, Zenon
<1>12. TakenInv'
  <2>1. ASSUME NEW c \in taken'
        PROVE  /\ c \in delivered /\ connected[c] /\ inflight[c] = NoFrame
               /\ \A i \in 1..Len(queue') : queue'[i].cam # c
    <3>1. CASE c \in taken
      <4>1. \A i \in 1..Len(queue) : queue[i].cam # c
        BY <3>1, Zenon DEF PeriodInv, TakenInv
      <4>2. \A i \in 1..Len(queue') : queue'[i].cam # c
        BY <1>2, <4>1, Zenon
      <4> QED BY <3>1, <4>2, Zenon DEF PeriodInv, TakenInv
    <3>2. CASE c \notin taken
      <4>1. c = h.cam /\ h.time = now /\ connected[c]
        BY <1>3, <1>11, <2>1, <3>2, Zenon
      <4>2. ~(now < now)
        BY <1>4
      <4>3. c \in delivered
        BY <1>2, <4>1, <4>2, Zenon DEF PipeInv, OrderInv
      <4>4. \A x \in Nat : x <= now => ~(now < x)
        BY <1>4
      <4>5. inflight[c] = NoFrame
        BY <1>2, <1>3, <4>1, <4>4, MemberType, Zenon DEF PipeInv, OrderInv, DeviceInv, Recent
      <4>6. \A i \in 1..Len(queue') : queue'[i].cam # c
        <5> SUFFICES ASSUME NEW i \in 1..Len(queue'), queue'[i].cam = c PROVE FALSE
          BY Zenon
        <5>1. queue[1].time < queue[i + 1].time
          BY <1>2, <4>1, Zenon DEF PipeInv, OrderInv
        <5>2. queue[i + 1].time \in Nat /\ queue[i + 1].time <= now
          BY <1>2, MemberType, Zenon DEF PipeInv, QueueInv, Recent
        <5> QED BY <1>2, <4>1, <4>4, <5>1, <5>2, Zenon
      <4> QED BY <4>1, <4>3, <4>5, <4>6, Zenon
    <3> QED BY <3>1, <3>2, Zenon
  <2>2. taken' # {} => \A c \in Cams : \/ connected[c] \/ sup[c] \in {"stop", "exhausted"}
                                       \/ sup[c] = "wait" /\ quiet[c] = 0
    BY <1>1, Zenon DEF PeriodInv, TakenInv
  <2> QED BY <1>1, <2>1, <2>2, Zenon DEF PeriodInv, TakenInv
<1>13. PairInv'
  <2> SUFFICES ASSUME Ready, lastTime' # now
               PROVE  /\ taken' # Cams
                      /\ \A c \in taken' : Len(buffers'[c]) # 0 /\ Last(buffers'[c]).time = now
    BY <1>1, Zenon DEF PairInv, Ready
  <2>1. bundle' # NoBundle => bundle'[Master].time > lastTime
    BY ProcessKeeps, Zenon
  <2>2. lastTime <= now /\ lastTime' <= now
    <3>1. PipeInv'
      BY ProcessKeeps, Zenon
    <3> QED BY <1>1, <3>1, Zenon DEF PipeInv, MasterInv, Overtaken
  <2>3. lastTime < now
    BY <1>1, <1>4, <1>5, <1>6, <2>1, <2>2, SMTT(30)
  <2>4. PairInv /\ ~(lastTime = now)
    BY <1>4, <2>3 DEF PeriodInv
  <2>5. \A c \in taken : Len(buffers[c]) # 0 /\ Last(buffers[c]).time = now
    BY <2>4, Zenon DEF PairInv
  <2>6. \A c \in Cams : connected[c] /\ ~recovery[c] /\ sup[c] = "watch" /\ number[c] # 0
    BY Zenon DEF Ready, PeriodInv, TakenInv, PipeInv, DeviceInv
  <2>7. ASSUME NEW c \in Cams, NEW g, From(h, c, g)
        PROVE  g \in Taken /\ g.num + now = number[c] + g.time
    BY <1>7, <2>6, <2>7, Zenon DEF Counted
  <2>8. ASSUME NEW c \in taken'
        PROVE  \E g \in Taken : Newest(h, c, g) /\ From(h, c, g) /\ g.time = now
    <3>1. CASE c \in taken
      <4> DEFINE g == Last(buffers[c])
      <4>1. c \in Cams /\ c # h.cam /\ Newest(h, c, g) /\ g.time = now
        BY <1>10, <2>5, <3>1, Zenon DEF Newest, PeriodInv
      <4>2. buffers[c] \in Seq(Taken) /\ Len(buffers[c]) # 0
        BY <1>4, <2>5, <3>1, <4>1, Zenon
      <4>3. Len(buffers[c]) \in 1..Len(buffers[c])
        BY <4>2
      <4>4. From(h, c, g)
        BY <4>3, Zenon DEF From, Last
      <4> QED BY <2>7, <4>1, <4>4, Zenon
    <3>2. CASE c \notin taken
      <4>1. c = h.cam /\ h.time = now
        BY <1>11, <2>8, <3>2, Zenon
      <4> QED BY <1>3, <4>1, Zenon DEF Newest, From
    <3> QED BY <3>1, <3>2, Zenon
  <2>9. ASSUME NEW c \in taken' PROVE Len(buffers'[c]) # 0 /\ Last(buffers'[c]).time = now
    <3>1. PICK g \in Taken : Newest(h, c, g) /\ From(h, c, g) /\ g.time = now
      BY <2>8, Zenon
    <3>2. c \in Cams
      BY <1>10, Zenon
    <3>3. ASSUME bundle' # NoBundle
          PROVE  LET m == bundle'[Master] IN
                 /\ m \in Taken
                 /\ IF mode.hardware THEN g.num > m.num ELSE g.time >= m.time - MaxDiff
      <4> DEFINE m == bundle'[Master]
      <4>1. m \in Taken /\ m.time # now /\ m.time <= now /\ m.num + now = number[Master] + m.time
        BY <1>1, <1>4, <1>6, <2>2, <2>7, <3>3, Zenon
      <4> HIDE DEF m
      <4>2. m.num \in Nat /\ m.time \in Nat /\ g.num \in Nat
        BY <1>5, <4>1, Zenon
      <4>3. g.num + now = number[c] + now /\ number[c] \in Nat /\ number[Master] \in Nat
        BY <1>4, <2>7, <3>1, <3>2, Zenon
      <4>4. mode.hardware => number[c] = number[Master]
        BY <3>2, Zenon DEF Ready
      <4>5. mode.hardware => g.num > m.num
        <5>1. now \in Nat
          BY <1>4
        <5>2. number[c] = number[Master] => g.num > m.num
          BY <4>1, <4>2, <4>3, <5>1
        <5> QED BY <4>4, <5>2, Zenon
      <4>6. g.time >= m.time - MaxDiff
        BY <1>4, <3>1, <4>1, <4>2, LimitsAssumption
      <4> QED BY <4>1, <4>5, <4>6, Zenon DEF m
    <3>4. Len(buffers'[c]) # 0 /\ Last(buffers'[c]) = g
      BY <1>1, <1>3, <1>4, <3>1, <3>2, <3>3, PushKeepsNewest, Zenon
    <3> QED BY <3>1, <3>4, Zenon
  <2>10. taken' # Cams
    <3> SUFFICES ASSUME taken' = Cams PROVE FALSE
      BY Zenon
    <3> DEFINE n == number[Master]
    <3>1. n \in Nat /\ n # 0 /\ now \in Nat
      BY <1>4, <2>6, Zenon
    <3>2. n > lastEmitted
      <4>1. lastEmitted # 0 => lastEmitted + now = n + lastTime
        BY <1>4, <2>6, Zenon DEF PeriodInv, GateInv
      <4> QED BY <1>4, <2>3, <3>1, <4>1
    <3>3. ASSUME NEW c \in Cams
          PROVE  /\ \A g \in Taken : From(h, c, g) /\ (c = Master \/ mode.hardware) => (g.num = n <=> g.time = now)
                 /\ \E g \in Taken : Newest(h, c, g) /\ From(h, c, g) /\ g.time = now
      <4>1. c = Master \/ mode.hardware => number[c] = n
        BY Zenon DEF Ready
      <4>2. ASSUME NEW g \in Taken, From(h, c, g), number[c] = n PROVE g.num = n <=> g.time = now
        <5>1. g.num \in Nat /\ g.time \in Nat /\ g.num + now = n + g.time
          BY <1>5, <2>7, <4>2, Zenon
        <5> QED BY <3>1, <5>1
      <4> QED BY <2>8, <4>1, <4>2, Zenon
    <3> HIDE DEF n
    <3>4. \A c \in Cams : \E g \in Taken : /\ Newest(h, c, g) /\ g.time = now
                                           /\ c = Master \/ mode.hardware => g.num = n
      BY <3>3, Zenon
    <3>5. mode.hardware => \A c \in Cams, g \in Taken : From(h, c, g) /\ g.num = n => g.time = now
      BY <3>3, Zenon
    <3>6. bundle' # NoBundle
      <4>1. /\ buffers \in [Cams -> Seq(Taken)] /\ h \in Taken /\ push_frame(h)
            /\ now \in Nat /\ n \in Nat /\ n > lastEmitted
        BY <1>1, <1>3, <1>4, <3>1, <3>2, Zenon
      <4> QED BY ONLY <4>1, <3>4, <3>5, PushPublishes, ZenonT(30)
    <3>7. PICK g \in Taken : Newest(h, Master, g) /\ g.time = now
      BY <1>4, <3>4, Zenon
    <3>8. bundle'[Master] = g
      BY <1>6, <3>6, <3>7, Zenon DEF Newest, IsNewest
    <3> QED BY <1>1, <3>6, <3>7, <3>8, Zenon
  <2> QED BY <2>9, <2>10, Zenon
<1> QED BY <1>8, <1>9, <1>10, <1>12, <1>13, Zenon DEF PeriodInv

(* Counted after a step. *)
CountedNext(g, c) ==
    g.gen <= gen'[c] /\ (number'[c] # 0 /\ g.gen = gen'[c] => g.num + now' = number'[c] + g.time)

(* A step that leaves the frames where they are and keeps their count.     *)
LEMMA CountKept ==
    ASSUME PipeInv, CountInv, UNCHANGED <<queue, inflight>>,
           buffers' = buffers \/ buffers' = [c \in Cams |-> <<>>],
           \A c \in Cams, g \in Taken : Counted(g, c) => CountedNext(g, c)
    PROVE  CountInv'
<1>1. \A c \in Cams : \A k \in 1..Len(buffers'[c]) : CountedNext(buffers'[c][k], c)
  <2>1. CASE buffers' = buffers
    <3>1. \A c \in Cams : \A k \in 1..Len(buffers[c]) : buffers[c][k] \in Taken /\ Counted(buffers[c][k], c)
      BY MemberType, Zenon DEF PipeInv, CountInv
    <3> QED BY <2>1, <3>1, Zenon
  <2>2. CASE buffers' = [c \in Cams |-> <<>>]
    BY <2>2, SMTT(30)
  <2> QED BY <2>1, <2>2, Zenon
<1>2. \A i \in 1..Len(queue) : CountedNext(queue[i], queue[i].cam)
  <2>1. \A i \in 1..Len(queue) : queue[i] \in Taken /\ queue[i].cam \in Cams /\ Counted(queue[i], queue[i].cam)
    BY MemberType, Zenon DEF PipeInv, CountInv
  <2> QED BY <2>1, Zenon
<1>3. \A c \in Cams : inflight[c] # NoFrame => CountedNext(inflight[c], c)
  <2>1. \A c \in Cams : inflight[c] \in Taken /\ (inflight[c] # NoFrame => Counted(inflight[c], c))
    BY MemberType, Zenon DEF PipeInv, CountInv
  <2> QED BY <2>1, Zenon
<1> QED BY <1>1, <1>2, <1>3, Zenon DEF CountInv, Counted, CountedNext

(* A frame is delivered with the number of the period. *)
LEMMA DeliverPeriod == ASSUME PipeInv, PeriodInv, NEW c \in Cams, Deliver(c) PROVE PeriodInv'
<1> DEFINE f == [cam |-> c, num |-> number[c], time |-> now, gen |-> gen[c]]
<1>1. /\ c \notin delivered /\ delivered' = delivered \cup {c}
      /\ quiet' = [quiet EXCEPT ![c] = 0] /\ inflight' = [inflight EXCEPT ![c] = f]
      /\ UNCHANGED <<mode, buffers, lastEmitted, queue, taken, now, number, lastTime, sup, gen, connected, recovery>>
  BY Zenon DEF Deliver, SyncIdle, supervisor
<1>2. Counted(f, c)
  BY DEF Counted, PipeInv, PipeType
<1> HIDE DEF f
<1>3. \A d \in Cams : /\ inflight'[d] = IF d = c THEN f ELSE inflight[d]
                      /\ quiet'[d] = IF d = c THEN 0 ELSE quiet[d]
  BY <1>1, Zenon DEF PipeInv, PipeType
<1>4. CountInv'
  <2>1. \A d \in Cams : inflight'[d] # NoFrame => Counted(inflight'[d], d)
    BY <1>2, <1>3, Zenon DEF PeriodInv, CountInv
  <2> QED BY <1>1, <2>1, Zenon DEF PeriodInv, CountInv, Counted
<1>5. TakenInv'
  <2>1. \A d \in delivered' : quiet'[d] = 0
    <3>1. \A d \in delivered : d \in Cams /\ quiet[d] = 0
      BY Zenon DEF PeriodInv, TakenInv, PipeInv, PipeType
    <3> QED BY <1>1, <1>3, <3>1, SMT
  <2>2. \A d \in taken : d \in delivered' /\ inflight'[d] = NoFrame
    <3>1. \A d \in taken : d \in Cams /\ d \in delivered /\ inflight[d] = NoFrame
      BY Zenon DEF PeriodInv, TakenInv
    <3> QED BY <1>1, <1>3, <3>1, SMT
  <2>3. \A d \in Cams : quiet[d] = 0 => quiet'[d] = 0
    BY <1>3, Zenon
  <2> QED BY <1>1, <2>1, <2>2, <2>3, Zenon DEF PeriodInv, TakenInv
<1>6. GateInv' /\ PairInv'
  BY <1>1, Zenon DEF PeriodInv, GateInv, PairInv, Ready
<1> QED BY <1>1, <1>4, <1>5, <1>6, Zenon DEF PeriodInv

(* A frame taken this period was the only one of its camera on its way.    *)
LEMMA EnqueuePeriod == ASSUME PipeInv, PeriodInv, NEW c \in Cams, Enqueue(c) PROVE PeriodInv'
<1> DEFINE f == inflight[c]
           s == IF Len(queue) >= QueueSize THEN Tail(queue) ELSE queue
<1>1. /\ f # NoFrame /\ queue' = Append(s, f)
      /\ inflight' = [inflight EXCEPT ![c] = NoFrame]
      /\ UNCHANGED <<mode, buffers, lastEmitted, taken, now, number, quiet, lastTime, delivered, sup, gen, connected,
                     recovery>>
  BY Zenon DEF Enqueue, SyncIdle, supervisor, clock
<1>2. f.cam = c /\ Counted(f, c) /\ f \in Taken
  BY <1>1, MemberType, Zenon DEF PipeInv, DeviceInv, PeriodInv, CountInv
<1>3. queue \in Seq(Taken) /\ QueueSize \in Nat \ {0}
  BY TimesAssumption, Zenon DEF PipeInv, PipeType
<1>4. s \in Seq(Taken) /\ \A i \in 1..Len(s) : \E j \in 1..Len(queue) : s[i] = queue[j]
  <2>1. CASE Len(queue) >= QueueSize
    <3>1. Len(queue) > 0 /\ s = Tail(queue)
      BY <1>3, <2>1
    <3>2. s \in Seq(Taken) /\ \A i \in 1..Len(s) : s[i] = queue[i + 1] /\ i + 1 \in 1..Len(queue)
      BY <1>3, <3>1
    <3> QED BY <3>2, Zenon
  <2>2. CASE ~(Len(queue) >= QueueSize)
    BY <1>3, <2>2, Zenon
  <2> QED BY <2>1, <2>2, Zenon
<1> HIDE DEF f, s
<1>5. \A i \in 1..Len(queue') : queue'[i] = f \/ \E j \in 1..Len(queue) : queue'[i] = queue[j]
  <2>1. \A i \in 1..Len(queue') : queue'[i] = f \/ (i \in 1..Len(s) /\ queue'[i] = s[i])
    BY <1>1, <1>2, <1>4, SMTT(30)
  <2> QED BY <1>4, <2>1, Zenon
<1>6. \A d \in Cams : inflight'[d] = IF d = c THEN NoFrame ELSE inflight[d]
  BY <1>1, Zenon DEF PipeInv, PipeType
<1>7. CountInv'
  <2>1. \A i \in 1..Len(queue') : Counted(queue'[i], queue'[i].cam)
    BY <1>2, <1>5, Zenon DEF PeriodInv, CountInv
  <2>2. \A d \in Cams : inflight'[d] # NoFrame => Counted(inflight'[d], d)
    BY <1>6, Zenon DEF PeriodInv, CountInv
  <2> QED BY <1>1, <2>1, <2>2, Zenon DEF PeriodInv, CountInv, Counted
<1>8. TakenInv'
  <2>1. ASSUME NEW d \in taken
        PROVE  inflight'[d] = NoFrame /\ \A i \in 1..Len(queue') : queue'[i].cam # d
    <3>1. d \in Cams /\ inflight[d] = NoFrame /\ \A j \in 1..Len(queue) : queue[j].cam # d
      BY Zenon DEF PeriodInv, TakenInv
    <3>2. d # c
      BY <1>1, <3>1, Zenon DEF f
    <3> QED BY <1>2, <1>5, <1>6, <3>1, <3>2, Zenon
  <2> QED BY <1>1, <2>1, Zenon DEF PeriodInv, TakenInv
<1>9. GateInv' /\ PairInv'
  BY <1>1, Zenon DEF PeriodInv, GateInv, PairInv, Ready
<1> QED BY <1>1, <1>7, <1>8, <1>9, Zenon DEF PeriodInv

(* No pipeline starts, and no wait ends, in a period whose frames are      *)
(* already taken with all cameras connected.                               *)
LEMMA NoneTaken ==
    ASSUME PipeInv, PeriodInv, NEW c \in Cams, ~connected[c],
           sup[c] \in {"start", "watch"} \/ (sup[c] = "wait" /\ quiet[c] # 0)
    PROVE  taken = {}
BY Zenon DEF PeriodInv, TakenInv

(* A new pipeline numbers its frames from 1, in a new generation. *)
LEMMA StartDevicePeriod == ASSUME PipeInv, PeriodInv, NEW c \in Cams, StartDevice(c) PROVE PeriodInv'
<1>1. /\ sup[c] = "start" /\ sup' = [sup EXCEPT ![c] = "watch"]
      /\ quiet' = [quiet EXCEPT ![c] = 0] /\ connected' = [connected EXCEPT ![c] = FALSE]
      /\ number' = [number EXCEPT ![c] = 1] /\ gen' = [gen EXCEPT ![c] = @ + 1]
      /\ UNCHANGED <<mode, buffers, lastEmitted, queue, inflight, delivered, taken, now, lastTime, recovery>>
  BY Zenon DEF StartDevice, SyncIdle, frames
<1>2. taken = {}
  <2>1. ~connected[c]
    BY <1>1, Zenon DEF PeriodInv, TakenInv
  <2> QED BY <1>1, <2>1, NoneTaken, Zenon
<1>3. \A d \in Cams \ {c} : /\ sup'[d] = sup[d] /\ quiet'[d] = quiet[d] /\ number'[d] = number[d]
                            /\ gen'[d] = gen[d] /\ connected'[d] = connected[d]
  BY <1>1, Zenon DEF PipeInv, PipeType
<1>4. sup'[c] = "watch" /\ quiet'[c] = 0 /\ ~connected'[c] /\ gen'[c] = gen[c] + 1
  BY <1>1, Zenon DEF PipeInv, PipeType
<1>5. CountInv'
  <2>1. ASSUME NEW d \in Cams, NEW g \in Taken, Counted(g, d) PROVE CountedNext(g, d)
    <3>1. CASE d = c
      <4>1. g.gen \in Nat /\ gen[c] \in Nat /\ g.gen <= gen[c]
        BY <2>1, <3>1, Zenon DEF Counted, Taken, PipeInv, PipeType
      <4>2. g.gen <= gen[c] + 1 /\ g.gen # gen[c] + 1
        BY <4>1
      <4> QED BY <1>4, <3>1, <4>2, Zenon DEF CountedNext
    <3>2. CASE d # c
      BY <1>1, <1>3, <2>1, <3>2, Zenon DEF Counted, CountedNext
    <3> QED BY <3>1, <3>2, Zenon
  <2> QED BY <1>1, <2>1, CountKept, Zenon DEF PeriodInv
<1>6. GateInv'
  <2>1. CASE c = Master
    BY <1>1, <1>4, <2>1, Zenon DEF PeriodInv, GateInv
  <2>2. CASE c # Master
    BY <1>1, <1>3, <2>2, NoFrameType, Zenon DEF PeriodInv, GateInv
  <2> QED BY <2>1, <2>2, Zenon
<1>7. TakenInv'
  <2>1. \A d \in Cams : connected'[d] => sup'[d] = "watch"
    BY <1>3, <1>4, Zenon DEF PeriodInv, TakenInv
  <2>2. \A d \in delivered : quiet'[d] = 0
    <3>1. \A d \in delivered : d \in Cams /\ quiet[d] = 0
      BY Zenon DEF PeriodInv, TakenInv, PipeInv, PipeType
    <3> QED BY <1>3, <1>4, <3>1, Zenon
  <2> QED BY <1>1, <1>2, <2>1, <2>2, Zenon DEF TakenInv
<1>8. PairInv'
  BY <1>4, Zenon DEF PairInv, Ready
<1> QED BY <1>1, <1>5, <1>6, <1>7, <1>8, Zenon DEF PeriodInv

(* A failed start is in recovery. *)
LEMMA StartFailsPeriod == ASSUME PipeInv, PeriodInv, NEW c \in Cams, StartFails(c) PROVE PeriodInv'
<1>1. /\ sup[c] = "start" /\ quiet' = [quiet EXCEPT ![c] = 0]
      /\ connected' = [connected EXCEPT ![c] = FALSE] /\ recovery' = [recovery EXCEPT ![c] = TRUE]
      /\ UNCHANGED <<mode, buffers, lastEmitted, queue, inflight, delivered, taken, now, lastTime, number, gen>>
  BY Zenon DEF StartFails, retryOrGiveUp, SyncIdle, frames
<1>2. \E s \in {"exhausted", "wait"} : sup' = [sup EXCEPT ![c] = s]
  BY Zenon DEF StartFails, retryOrGiveUp
<1>3. taken = {}
  <2>1. ~connected[c]
    BY <1>1, Zenon DEF PeriodInv, TakenInv
  <2> QED BY <1>1, <2>1, NoneTaken, Zenon
<1>4. \A d \in Cams \ {c} : /\ sup'[d] = sup[d] /\ quiet'[d] = quiet[d]
                            /\ recovery'[d] = recovery[d] /\ connected'[d] = connected[d]
  BY <1>1, <1>2, Zenon DEF PipeInv, PipeType
<1>5. quiet'[c] = 0 /\ ~connected'[c] /\ recovery'[c]
  BY <1>1, Zenon DEF PipeInv, PipeType
<1>6. CountInv'
  <2>1. \A d \in Cams, g \in Taken : Counted(g, d) => CountedNext(g, d)
    BY <1>1, Zenon DEF Counted, CountedNext
  <2> QED BY <1>1, <2>1, CountKept, Zenon DEF PeriodInv
<1>7. GateInv'
  BY <1>1, <1>4, <1>5, NoFrameType, Zenon DEF PeriodInv, GateInv
<1>8. TakenInv'
  <2>1. \A d \in Cams : connected'[d] => sup'[d] = "watch"
    BY <1>4, <1>5, Zenon DEF PeriodInv, TakenInv
  <2>2. \A d \in delivered : quiet'[d] = 0
    <3>1. \A d \in delivered : d \in Cams /\ quiet[d] = 0
      BY Zenon DEF PeriodInv, TakenInv, PipeInv, PipeType
    <3> QED BY <1>4, <1>5, <3>1, Zenon
  <2> QED BY <1>1, <1>3, <2>1, <2>2, Zenon DEF TakenInv
<1>9. PairInv'
  BY <1>5, Zenon DEF PairInv, Ready
<1> QED BY <1>1, <1>6, <1>7, <1>8, <1>9, Zenon DEF PeriodInv

(* A wait that ends is longer than a period. *)
LEMMA RetryPeriod == ASSUME PipeInv, PeriodInv, NEW c \in Cams, Retry(c) PROVE PeriodInv'
<1>1. /\ sup[c] = "wait" /\ quiet[c] >= RetryDelay /\ sup' = [sup EXCEPT ![c] = "start"]
      /\ UNCHANGED <<mode, buffers, lastEmitted, queue, inflight, delivered, taken, now, lastTime, number, gen, quiet,
                     connected, recovery>>
  BY Zenon DEF Retry, SyncIdle, frames, clock
<1>2. ~connected[c] /\ recovery[c]
  BY <1>1, Zenon DEF PeriodInv, TakenInv, PipeInv, DeviceInv
<1>3. quiet[c] # 0
  BY <1>1, TimesAssumption
<1>4. taken = {}
  BY <1>1, <1>2, <1>3, NoneTaken, Zenon
<1>5. \A d \in Cams \ {c} : sup'[d] = sup[d]
  BY <1>1, Zenon DEF PipeInv, PipeType
<1>6. CountInv'
  <2>1. \A d \in Cams, g \in Taken : Counted(g, d) => CountedNext(g, d)
    BY <1>1, Zenon DEF Counted, CountedNext
  <2> QED BY <1>1, <2>1, CountKept, Zenon DEF PeriodInv
<1>7. GateInv'
  BY <1>1, <1>2, <1>5, NoFrameType, Zenon DEF PeriodInv, GateInv
<1>8. TakenInv'
  BY <1>1, <1>2, <1>4, <1>5, Zenon DEF PeriodInv, TakenInv
<1>9. PairInv'
  BY <1>1, <1>2, Zenon DEF PairInv, Ready
<1> QED BY <1>1, <1>6, <1>7, <1>8, <1>9, Zenon DEF PeriodInv

(* A stopped device has no number, and its wait begins. *)
LEMMA StopDevicePeriod == ASSUME PipeInv, PeriodInv, NEW c \in Cams, StopDevice(c) PROVE PeriodInv'
<1>1. /\ sup[c] = "stop" /\ number' = [number EXCEPT ![c] = 0] /\ quiet' = [quiet EXCEPT ![c] = 0]
      /\ UNCHANGED <<mode, buffers, lastEmitted, queue, inflight, delivered, taken, now, lastTime, gen, connected,
                     recovery>>
  BY Zenon DEF StopDevice, retryOrGiveUp, SyncIdle, frames
<1>2. PICK s \in {"exhausted", "wait"} : sup' = [sup EXCEPT ![c] = s]
  BY ZenonT(30) DEF StopDevice, retryOrGiveUp
<1>3. ~connected[c]
  BY <1>1, Zenon DEF PeriodInv, TakenInv
<1>4. \A d \in Cams \ {c} : sup'[d] = sup[d] /\ quiet'[d] = quiet[d] /\ number'[d] = number[d]
  BY <1>1, <1>2, Zenon DEF PipeInv, PipeType
<1>5. sup'[c] \in {"exhausted", "wait"} /\ quiet'[c] = 0 /\ number'[c] = 0
  BY <1>1, <1>2, Zenon DEF PipeInv, PipeType
<1>6. CountInv'
  <2>1. \A d \in Cams, g \in Taken : Counted(g, d) => CountedNext(g, d)
    BY <1>1, <1>4, <1>5, Zenon DEF Counted, CountedNext
  <2> QED BY <1>1, <2>1, CountKept, Zenon DEF PeriodInv
<1>7. GateInv'
  <2>1. CASE c = Master
    BY <1>1, <1>5, <2>1, Zenon DEF GateInv
  <2>2. CASE c # Master
    BY <1>1, <1>4, <2>2, NoFrameType, Zenon DEF PeriodInv, GateInv
  <2> QED BY <2>1, <2>2, Zenon
<1>8. TakenInv'
  <2>1. \A d \in Cams : connected[d] => sup'[d] = "watch"
    BY <1>3, <1>4, Zenon DEF PeriodInv, TakenInv
  <2>2. \A d \in delivered : quiet'[d] = 0
    <3>1. \A d \in delivered : d \in Cams /\ quiet[d] = 0
      BY Zenon DEF PeriodInv, TakenInv, PipeInv, PipeType
    <3> QED BY <1>4, <1>5, <3>1, Zenon
  <2>3. taken # {} => \A d \in Cams : \/ connected[d] \/ sup'[d] \in {"stop", "exhausted"}
                                      \/ sup'[d] = "wait" /\ quiet'[d] = 0
    BY <1>4, <1>5, Zenon DEF PeriodInv, TakenInv
  <2>4. \A d \in taken : /\ d \in delivered /\ connected[d] /\ inflight[d] = NoFrame
                         /\ \A i \in 1..Len(queue) : queue[i].cam # d
    BY Zenon DEF PeriodInv, TakenInv
  <2> QED BY <1>1, <2>1, <2>2, <2>3, <2>4, Zenon DEF TakenInv
<1>9. PairInv'
  BY <1>1, <1>3, Zenon DEF PairInv, Ready
<1> QED BY <1>1, <1>6, <1>7, <1>8, <1>9, Zenon DEF PeriodInv

(* A camera that delivered in this period does not time out, and one that  *)
(* is connected only now finds no frame taken.                             *)
LEMMA WatchPeriod == ASSUME PipeInv, PeriodInv, NEW c \in Cams, Watch(c) PROVE PeriodInv'
<1> DEFINE firstFrame == alive[c] /\ ~connected[c]
           timedOut == quiet[c] > Timeout
<1>1. /\ sup[c] = "watch" /\ (firstFrame \/ timedOut)
      /\ IF firstFrame /\ recovery[c] THEN reset_camera_generation(c) ELSE SyncIdle
      /\ connected' = [connected EXCEPT ![c] = ~timedOut] /\ recovery' = [recovery EXCEPT ![c] = timedOut]
      /\ sup' = [sup EXCEPT ![c] = IF timedOut THEN "stop" ELSE "watch"]
      /\ UNCHANGED <<queue, inflight, delivered, taken, now, lastTime, number, gen, quiet>>
  BY Zenon DEF Watch, frames, clock
<1>2. /\ UNCHANGED mode
      /\ \/ /\ firstFrame /\ recovery[c] /\ buffers' = [d \in Cams |-> <<>>]
            /\ lastEmitted' = IF c = Master THEN 0 ELSE lastEmitted
         \/ ~(firstFrame /\ recovery[c]) /\ buffers' = buffers /\ lastEmitted' = lastEmitted
  BY <1>1, Zenon DEF reset_camera_generation, SyncIdle
<1>3. c \in delivered => ~timedOut
  <2>1. c \in delivered => quiet[c] = 0
    BY Zenon DEF PeriodInv, TakenInv
  <2> QED BY <2>1, TimesAssumption
<1>4. ~timedOut => taken = {}
  BY <1>1, NoneTaken, Zenon
<1> HIDE DEF firstFrame, timedOut
<1>5. \A d \in Cams \ {c} : sup'[d] = sup[d] /\ connected'[d] = connected[d] /\ recovery'[d] = recovery[d]
  BY <1>1, Zenon DEF PipeInv, PipeType
<1>6. sup'[c] = (IF timedOut THEN "stop" ELSE "watch") /\ (connected'[c] <=> ~timedOut) /\ (recovery'[c] <=> timedOut)
  BY <1>1, ZenonT(30) DEF PipeInv, PipeType
<1>7. CountInv'
  <2>1. \A d \in Cams, g \in Taken : Counted(g, d) => CountedNext(g, d)
    BY <1>1, Zenon DEF Counted, CountedNext
  <2> QED BY <1>1, <1>2, <2>1, CountKept, Zenon DEF PeriodInv
<1>8. GateInv'
  <2>1. SUFFICES ASSUME ~recovery'[Master]
                 PROVE  /\ sup'[Master] = "start" => lastEmitted' = 0
                        /\ number[Master] # 0 /\ lastEmitted' # 0 => lastEmitted' + now = number[Master] + lastTime
    BY <1>1, Zenon DEF GateInv
  <2>2. CASE c = Master
    <3>1. sup'[Master] # "start" /\ firstFrame
      BY <1>1, <1>6, <2>1, <2>2, Zenon
    <3>2. lastEmitted' = 0 \/ (~recovery[Master] /\ lastEmitted' = lastEmitted)
      BY <1>2, <2>2, <3>1, Zenon
    <3> QED BY <3>1, <3>2, Zenon DEF PeriodInv, GateInv
  <2>3. CASE c # Master
    <3>1. lastEmitted' = lastEmitted /\ sup'[Master] = sup[Master] /\ ~recovery[Master]
      BY <1>2, <1>5, <2>1, <2>3, NoFrameType, Zenon
    <3> QED BY <3>1, Zenon DEF PeriodInv, GateInv
  <2> QED BY <2>2, <2>3, Zenon
<1>9. TakenInv'
  <2>1. \A d \in Cams : connected'[d] => sup'[d] = "watch"
    BY <1>5, <1>6, Zenon DEF PeriodInv, TakenInv
  <2>2. ASSUME NEW d \in taken
        PROVE  /\ d \in delivered /\ connected'[d] /\ inflight[d] = NoFrame
               /\ \A i \in 1..Len(queue) : queue[i].cam # d
    <3>1. /\ d \in Cams /\ d \in delivered /\ connected[d] /\ inflight[d] = NoFrame
          /\ \A i \in 1..Len(queue) : queue[i].cam # d
      BY Zenon DEF PeriodInv, TakenInv
    <3>2. connected'[d]
      BY <1>3, <1>5, <1>6, <3>1, Zenon
    <3> QED BY <3>1, <3>2, Zenon
  <2>3. taken # {} => \A d \in Cams : \/ connected'[d] \/ sup'[d] \in {"stop", "exhausted"}
                                      \/ sup'[d] = "wait" /\ quiet[d] = 0
    BY <1>4, <1>5, <1>6, Zenon DEF PeriodInv, TakenInv
  <2>4. \A d \in delivered : quiet[d] = 0
    BY Zenon DEF PeriodInv, TakenInv
  <2> QED BY <1>1, <2>1, <2>2, <2>3, <2>4, Zenon DEF TakenInv
<1>10. PairInv'
  <2>1. CASE timedOut
    BY <1>6, <2>1, Zenon DEF PairInv, Ready
  <2>2. CASE ~timedOut
    BY <1>1, <1>4, <2>2, NoFrameType, Zenon DEF PairInv
  <2> QED BY <2>1, <2>2, Zenon
<1> QED BY <1>1, <1>7, <1>8, <1>9, <1>10, Zenon DEF PeriodInv

(* The running devices count the periods. *)
LEMMA TickPeriod == ASSUME PipeInv, PeriodInv, Tick PROVE PeriodInv'
<1>1. /\ now' = now + 1 /\ delivered' = {} /\ taken' = {}
      /\ number' = [c \in Cams |-> IF number[c] = 0 THEN 0 ELSE number[c] + 1]
      /\ UNCHANGED <<buffers, lastEmitted, queue, inflight, lastTime, sup, gen, connected, recovery>>
  BY Zenon DEF Tick, SyncIdle, supervisor
<1>2. now \in Nat /\ lastEmitted \in Nat /\ lastTime \in Nat /\ Master \in Cams /\ \A c \in Cams : number[c] \in Nat
  BY NoFrameType DEF PipeInv, PipeType
<1>3. \A c \in Cams : number'[c] # 0 => number[c] # 0 /\ number'[c] = number[c] + 1
  BY <1>1, Zenon
<1>4. CountInv'
  <2>1. ASSUME NEW c \in Cams, NEW g \in Taken, Counted(g, c) PROVE CountedNext(g, c)
    <3>1. g.num \in Nat /\ g.time \in Nat /\ number[c] \in Nat
      BY <1>2, Zenon DEF Taken
    <3>2. g.num + now = number[c] + g.time => g.num + (now + 1) = (number[c] + 1) + g.time
      BY <1>2, <3>1
    <3> QED BY <1>1, <1>3, <2>1, <3>2, Zenon DEF Counted, CountedNext
  <2> QED BY <1>1, <2>1, CountKept, Zenon DEF PeriodInv
<1>5. GateInv'
  <2>1. lastEmitted + now = number[Master] + lastTime => lastEmitted + (now + 1) = (number[Master] + 1) + lastTime
    BY <1>2
  <2> QED BY <1>1, <1>2, <1>3, <2>1, Zenon DEF PeriodInv, GateInv
<1>6. TakenInv'
  BY <1>1, Zenon DEF PeriodInv, TakenInv
<1>7. PairInv'
  BY <1>1, <1>2, Zenon DEF PairInv
<1> QED BY <1>1, <1>4, <1>5, <1>6, <1>7, Zenon DEF PeriodInv

(* "Every bundle group resumes": a period in which all cameras are         *)
(* connected and each has its frame taken from the queue publishes the     *)
(* bundle of its master frame, although restarted devices number theirs    *)
(* from 1; in hardware mode, when the cameras give the period one number.  *)
THEOREM GroupResumes == Spec => Resumes
<1> DEFINE Resumed == /\ now' # now /\ taken = Cams /\ lastTime # 0
                      /\ mode.hardware => \A c \in Cams : number[c] = number[Master]
                      => lastTime = now
<1>1. Init => PeriodInv
  <2> SUFFICES ASSUME Init PROVE PeriodInv
    BY Zenon
  <2>1. /\ buffers = [c \in Cams |-> <<>>] /\ queue = <<>> /\ inflight = [c \in Cams |-> NoFrame]
        /\ lastEmitted = 0 /\ taken = {} /\ delivered = {} /\ connected = [c \in Cams |-> FALSE]
    BY Zenon DEF Init, SyncInit
  <2>2. CountInv
    BY <2>1, SMTT(30) DEF CountInv
  <2>3. GateInv /\ TakenInv /\ PairInv
    BY <2>1, NoFrameType, Zenon DEF GateInv, TakenInv, PairInv
  <2> QED BY <2>1, <2>2, <2>3, Zenon DEF PeriodInv
<1>2. PipeInv /\ PeriodInv /\ [Next]_vars => PeriodInv'
  <2> SUFFICES ASSUME PipeInv, PeriodInv, [Next]_vars PROVE PeriodInv'
    BY Zenon
  <2>1. CASE Tick
    BY <2>1, TickPeriod, Zenon
  <2>2. CASE process_frame_metadata
    BY <2>2, ProcessPeriod, Zenon
  <2>3. ASSUME NEW c \in Cams, Deliver(c) \/ Enqueue(c) \/ StartDevice(c) \/ StartFails(c) PROVE PeriodInv'
    BY <2>3, DeliverPeriod, EnqueuePeriod, StartDevicePeriod, StartFailsPeriod, Zenon
  <2>4. ASSUME NEW c \in Cams, Retry(c) \/ Watch(c) \/ StopDevice(c) PROVE PeriodInv'
    BY <2>4, RetryPeriod, WatchPeriod, StopDevicePeriod, Zenon
  <2>5. CASE UNCHANGED vars
    <3>1. /\ UNCHANGED <<mode, buffers, lastEmitted, sup, gen, connected, recovery>>
          /\ UNCHANGED <<delivered, inflight, queue, taken, now, number, quiet, lastTime>>
      BY <2>5, Zenon DEF vars, supervisor, frames, clock
    <3>2. CountInv' /\ GateInv'
      BY <3>1, Zenon DEF PeriodInv, CountInv, Counted, GateInv
    <3>3. TakenInv' /\ PairInv'
      BY <3>1, Zenon DEF PeriodInv, TakenInv, PairInv, Ready
    <3> QED BY <3>1, <3>2, <3>3, Zenon DEF PeriodInv
  <2> QED BY <2>1, <2>2, <2>3, <2>4, <2>5, ZenonT(30) DEF Next
<1>3. PeriodInv => Resumed
  <2> SUFFICES ASSUME PeriodInv, taken = Cams,
                      mode.hardware => \A c \in Cams : number[c] = number[Master]
               PROVE  lastTime = now
    BY Zenon
  <2>1. \A c \in taken : connected[c]
    BY Zenon DEF PeriodInv, TakenInv
  <2>2. Ready
    BY <2>1, Zenon DEF Ready
  <2> QED BY <2>2, Zenon DEF PeriodInv, PairInv
<1> QED BY <1>1, <1>2, <1>3, PipelineInvariant, PTL DEF Spec, Resumes
=============================================================================
