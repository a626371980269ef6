--------------------------- MODULE CommandProofs ----------------------------
(***************************************************************************)
(* Proofs about the path of a command: CommandBuffer by itself, for every  *)
(* queue size, every set of commands and any length of time;               *)
(* CommandServer, for any set of clients, any packets and any timeouts;    *)
(* and MotionLifecycle, for every set of commands and configurations,      *)
(* every brake deadline and every debounce limit.                          *)
(***************************************************************************)
EXTENDS CommandServer, MotionLifecycle, Integers, TLAPS

(* Ids grow with arrival, so "older" and "younger" are comparisons of ids. *)
IdsOrdered ==
    /\ \A i \in 1..Len(accepted) : accepted[i].id < nextId
    /\ \A i, j \in 1..Len(accepted) : i < j => accepted[i].id < accepted[j].id

(* Only lifecycle commands enter the lifecycle queue.                      *)
OnlyLifecycle == \A i \in 1..Len(accepted) : isLifecycleCommand(accepted[i])

(* The inductive invariant: the queue is the tail of the accepted          *)
(* lifecycle commands, and whatever left it did so for a reason.           *)
IInv ==
    /\ TypeOK
    /\ IdsOrdered
    /\ OnlyLifecycle
    /\ NoTargetFromBeforeLifecycle
    /\ LifecycleNotLost
    /\ LifecycleInOrderOnce
    /\ \A t \in taken : t < nextId

(* A Hold made by the buffer is a command.                                 *)
LEMMA HoldType ==
    ASSUME NEW t \in Nat
    PROVE  makeHold(t) \in Command /\ isHold(makeHold(t)) /\ makeHold(t).id = 0
BY HoldTimeoutAssumption, LeaseAssumption, Zenon DEF makeHold, Command, isHold, Modes

(* The fields of a command have their types.                               *)
LEMMA CommandFields ==
    ASSUME NEW c \in Command
    PROVE  c.id \in Nat /\ c.host \in Nat /\ c.timeout \in Nat /\ c.lease \in Leases
BY Zenon DEF Command

(* A command a caller stores is a command, with the next id.               *)
LEMMA NewCommandType ==
    ASSUME TypeOK, NEW mp \in ModePairs, NEW t \in Timeouts, NEW l \in Leases
    PROVE  /\ NewCommand(mp, t, l) \in Command
           /\ NewCommand(mp, t, l).id = nextId
           /\ NewCommand(mp, t, l).host = now
BY TimeoutsAssumption, ModePairsAssumption, Zenon DEF NewCommand, Command, TypeOK

(* What pushLifecycle does to a queue: the new command is last, the others *)
(* keep their order, and only a full queue loses its first element.        *)
LEMMA PushFacts ==
    ASSUME NEW q \in Seq(Command), NEW c \in Command
    PROVE  \E d \in {0, 1} :
              /\ d = 1 <=> Len(q) >= MaxPending
              /\ pushLifecycle(q, c) \in Seq(Command)
              /\ Len(pushLifecycle(q, c)) = Len(q) + 1 - d
              /\ pushLifecycle(q, c)[Len(q) + 1 - d] = c
              /\ \A i \in 1..(Len(q) - d) : pushLifecycle(q, c)[i] = q[i + d]
<1>1. CASE Len(q) >= MaxPending
  <2>1. /\ pushLifecycle(q, c) \in Seq(Command)
        /\ Len(pushLifecycle(q, c)) = Len(q)
        /\ pushLifecycle(q, c)[Len(q)] = c
        /\ \A i \in 1..(Len(q) - 1) : pushLifecycle(q, c)[i] = q[i + 1]
    BY <1>1, MaxPendingAssumption DEF pushLifecycle
  <2>2. Len(q) + 1 - 1 = Len(q)
    OBVIOUS
  <2> QED BY <1>1, <2>1, <2>2, Zenon
<1>2. CASE ~(Len(q) >= MaxPending)
  <2>1. /\ pushLifecycle(q, c) \in Seq(Command)
        /\ Len(pushLifecycle(q, c)) = Len(q) + 1
        /\ pushLifecycle(q, c)[Len(q) + 1] = c
        /\ \A i \in 1..Len(q) : pushLifecycle(q, c)[i] = q[i]
    BY <1>2, MaxPendingAssumption DEF pushLifecycle
  <2>2. /\ Len(q) + 1 - 0 = Len(q) + 1 /\ Len(q) - 0 = Len(q)
        /\ \A i \in 1..Len(q) : i + 0 = i
    OBVIOUS
  <2> QED BY <1>2, <2>1, <2>2
<1> QED BY <1>1, <1>2, Zenon

(* The type invariant is inductive.                                        *)
LEMMA TypeStep == TypeOK /\ [Next]_vars => TypeOK'
<1> SUFFICES ASSUME TypeOK, [Next]_vars PROVE TypeOK'
  BY Zenon
<1>1. CASE SetCommand
  <2>1. PICK mp \in ModePairs, t \in Timeouts, l \in Leases : setCommand(NewCommand(mp, t, l))
    BY <1>1, Zenon DEF SetCommand
  <2> DEFINE c == NewCommand(mp, t, l)
  <2>2. c \in Command /\ c.host = now
    BY NewCommandType, Zenon
  <2>3. makeHold(c.host) \in Command
    BY <2>2, HoldType, Zenon DEF TypeOK
  <2>4. pushLifecycle(pending, c) \in Seq(Command)
    BY <2>2, PushFacts, Zenon DEF TypeOK
  <2> HIDE DEF c
  <2>5. setCommand(c)
    BY <2>1, Zenon DEF c
  <2>6. Append(accepted, c) \in Seq(Command)
    BY <2>2 DEF TypeOK
  <2>7. /\ latest' \in Command \cup {None}
        /\ pending' \in Seq(Command)
        /\ boxes' \in Command \cup {None}
        /\ accepted' \in Seq(Command)
        /\ UNCHANGED <<boxRx, out, taken>>
    BY <2>2, <2>3, <2>4, <2>5, <2>6, Zenon DEF TypeOK, setCommand
  <2>8. now' = now /\ nextId' = nextId + 1
    BY <1>1, Zenon DEF SetCommand
  <2> QED BY <2>7, <2>8 DEF TypeOK
<1>2. CASE UpdateLease
  <2>1. PICK l \in Leases : updateLease(l)
    BY <1>2, Zenon DEF UpdateLease
  <2>2. \A c \in Command : [c EXCEPT !.lease = l] \in Command
    BY Zenon DEF Command
  <2>3. latest' \in Command
    BY <2>1, <2>2, HoldType, Zenon DEF updateLease, TypeOK
  <2> QED BY <1>2, <2>1, <2>3 DEF TypeOK, UpdateLease, updateLease
<1>3. CASE NoteBoxes
  BY <1>3 DEF TypeOK, NoteBoxes, noteExternalBoxReceived
<1>4. CASE LatestOrHold
  <2>1. CASE takeLifecycle
    <3>1. PICK i \in usableAt : /\ out' = pending[i]
                                /\ pending' = SubSeq(pending, i + 1, Len(pending))
                                /\ taken' = taken \cup {pending[i].id}
                                /\ UNCHANGED <<latest, boxes, boxRx, accepted>>
      BY <2>1, Zenon DEF takeLifecycle
    <3>2. i \in 1..Len(pending) /\ pending[i] \in Command /\ pending[i].id \in Nat
      <4>1. i \in 1..Len(pending)
        BY Zenon DEF usableAt
      <4>2. pending[i] \in Command
        BY <4>1 DEF TypeOK
      <4> QED BY <4>1, <4>2, CommandFields, Zenon
    <3>3. SubSeq(pending, i + 1, Len(pending)) \in Seq(Command)
      BY <3>2 DEF TypeOK
    <3>4. UNCHANGED <<now, nextId>>
      BY <1>4, Zenon DEF LatestOrHold
    <3> QED BY <3>1, <3>2, <3>3, <3>4, Zenon DEF TypeOK
  <2>2. CASE takeLatest
    <3>1. \A c \in Command : [makeHold(now) EXCEPT !.lease = c.lease] \in Command
      BY HoldType, Zenon DEF Command, TypeOK
    <3>2. latestOrFallback \in Command
      BY <3>1, HoldType, Zenon DEF latestOrFallback, TypeOK
    <3> QED BY <1>4, <2>2, <3>2 DEF TypeOK, LatestOrHold, takeLatest
  <2> QED BY <1>4, <2>1, <2>2, Zenon DEF LatestOrHold, latestOrHold
<1>5. CASE ConsumeBoxes
  BY <1>5, Zenon DEF TypeOK, ConsumeBoxes, consumeLatestExternalBoxes
<1>6. CASE Advance
  BY <1>6 DEF TypeOK, Advance, bufferVars
<1>7. CASE UNCHANGED vars
  BY <1>7, Zenon DEF TypeOK, vars, bufferVars
<1> QED BY <1>1, <1>2, <1>3, <1>4, <1>5, <1>6, <1>7, Zenon DEF Next

LEMMA TypeInit == Init => TypeOK
BY HoldType DEF Init, TypeOK

(* Every variable of the buffer keeps its type: in particular the slot and *)
(* the queues only ever hold whole commands.                               *)
THEOREM TypeCorrect == Spec => []TypeOK
BY TypeInit, TypeStep, PTL DEF Spec

-----------------------------------------------------------------------------
(* A queued command is the accepted one at the matching place, and the     *)
(* place is unique because ids grow.                                       *)
LEMMA QueuedPlace ==
    ASSUME IInv, NEW j \in 1..Len(pending), NEW i \in 1..Len(accepted),
           pending[j] = accepted[i]
    PROVE  i = Len(accepted) - Len(pending) + j
<1>1. /\ Len(pending) \in Nat /\ Len(accepted) \in Nat
      /\ Len(pending) <= Len(accepted)
  BY DEF IInv, TypeOK, LifecycleInOrderOnce, PendingIsSuffix
<1> DEFINE k == Len(accepted) - Len(pending) + j
<1>2. k \in 1..Len(accepted) /\ pending[j] = accepted[k]
  BY <1>1 DEF IInv, LifecycleInOrderOnce, PendingIsSuffix
<1>3. accepted[i].id \in Nat /\ accepted[k].id \in Nat
  BY <1>2, CommandFields DEF IInv, TypeOK
<1> HIDE DEF k
<1>4. ~(i < k) /\ ~(k < i)
  <2>1. \A a, b \in 1..Len(accepted) : a < b => accepted[a].id < accepted[b].id
    BY Zenon DEF IInv, IdsOrdered
  <2>2. accepted[i].id = accepted[k].id
    BY <1>2, Zenon
  <2>3. i < k => accepted[i].id < accepted[k].id
    BY <1>2, <2>1, Zenon
  <2>4. k < i => accepted[k].id < accepted[i].id
    BY <1>2, <2>1, Zenon
  <2> QED BY <1>3, <2>2, <2>3, <2>4
<1> QED BY <1>1, <1>2, <1>4 DEF k

(* Ids grow along the queue.                                               *)
LEMMA QueueIdsGrow ==
    ASSUME IInv, NEW i \in 1..Len(pending), NEW j \in 1..Len(pending), i < j
    PROVE  pending[i].id < pending[j].id
<1> DEFINE d == Len(accepted) - Len(pending)
<1>1. d \in Nat /\ Len(pending) \in Nat /\ Len(accepted) \in Nat
  BY DEF IInv, TypeOK, LifecycleInOrderOnce, PendingIsSuffix
<1>2. pending[i] = accepted[d + i] /\ pending[j] = accepted[d + j]
  BY Zenon DEF IInv, LifecycleInOrderOnce, PendingIsSuffix
<1>3. d + i \in 1..Len(accepted) /\ d + j \in 1..Len(accepted) /\ d + i < d + j
  BY <1>1
<1> HIDE DEF d
<1> QED BY <1>2, <1>3, Zenon DEF IInv, IdsOrdered

(* Storing a lifecycle command keeps the invariant.                        *)
StoresLifecycle(c) ==
    /\ c.id = nextId
    /\ isLifecycleCommand(c)
    /\ pending' = pushLifecycle(pending, c)
    /\ latest' = makeHold(c.host)
    /\ accepted' = Append(accepted, c)
    /\ UNCHANGED <<now, taken>>
    /\ nextId' = nextId + 1

LEMMA StoreLifecycle ==
    ASSUME NEW c \in Command
    PROVE  IInv /\ TypeOK' /\ StoresLifecycle(c) => IInv'
<1>0. SUFFICES ASSUME IInv, TypeOK', StoresLifecycle(c) PROVE IInv'
  BY Zenon
<1> DEFINE n == Len(accepted)
           m == Len(pending)
<1>1. n \in Nat /\ m \in Nat /\ nextId \in Nat /\ m <= n /\ m <= MaxPending
  BY <1>0 DEF IInv, TypeOK, LifecycleInOrderOnce, PendingIsSuffix
<1>2. /\ Len(accepted') = n + 1 /\ accepted'[n + 1] = c
      /\ \A i \in 1..n : accepted'[i] = accepted[i]
  BY <1>0 DEF IInv, TypeOK, StoresLifecycle
<1>3. PICK d \in {0, 1} :
          /\ d = 1 <=> m >= MaxPending
          /\ Len(pending') = m + 1 - d
          /\ pending'[m + 1 - d] = c
          /\ \A i \in 1..(m - d) : pending'[i] = pending[i + d]
  <2>1. pending \in Seq(Command)
    BY <1>0, Zenon DEF IInv, TypeOK
  <2>2. pending' = pushLifecycle(pending, c)
    BY <1>0, Zenon DEF StoresLifecycle
  <2> HIDE DEF m
  <2>3. PICK d \in {0, 1} :
          /\ d = 1 <=> Len(pending) >= MaxPending
          /\ Len(pushLifecycle(pending, c)) = Len(pending) + 1 - d
          /\ pushLifecycle(pending, c)[Len(pending) + 1 - d] = c
          /\ \A i \in 1..(Len(pending) - d) : pushLifecycle(pending, c)[i] = pending[i + d]
    BY <2>1, PushFacts, Zenon
  <2> QED BY <2>2, <2>3, Zenon DEF m
<1>4. MaxPending \in Nat \ {0}
  BY MaxPendingAssumption, Zenon
<1>5. c.id = nextId /\ nextId' = nextId + 1 /\ now' = now /\ taken' = taken
  BY <1>0, Zenon DEF StoresLifecycle
<1>a. \A i \in 1..n : accepted[i].id < nextId /\ accepted[i].id \in Nat
  BY <1>0, CommandFields DEF IInv, IdsOrdered, TypeOK
<1>b. \A i \in 1..m : pending[i] = accepted[n - m + i]
  BY <1>0, Zenon DEF IInv, LifecycleInOrderOnce, PendingIsSuffix
<1>c. \A t \in taken : t \in Nat /\ t < nextId /\ \A i \in 1..m : t < pending[i].id
  BY <1>0, Zenon DEF IInv, TypeOK, LifecycleInOrderOnce
<1>d. \A i \in 1..n : \/ \E j \in 1..m : pending[j] = accepted[i]
                      \/ accepted[i].id \in taken'
                      \/ ~isUsableCommand(accepted[i], now')
                      \/ n - i >= MaxPending
  BY <1>0, <1>5, Zenon DEF IInv, LifecycleNotLost
<1>e. \A i \in 1..n : \A j \in 1..m : pending[j] = accepted[i] => i = n - m + j
  BY <1>0, QueuedPlace, Zenon
<1>f. \A i, j \in 1..n : i < j => accepted[i].id < accepted[j].id
  BY <1>0, Zenon DEF IInv, IdsOrdered
<1>6. NoTargetFromBeforeLifecycle'
  BY <1>0, HoldType, CommandFields, Zenon DEF NoTargetFromBeforeLifecycle, StoresLifecycle
<1> HIDE DEF n, m
<1>7. IdsOrdered'
  <2>1. \A i \in 1..(n + 1) : accepted'[i].id < nextId'
    BY <1>1, <1>2, <1>5, <1>a
  <2>2. \A i, j \in 1..(n + 1) : i < j => accepted'[i].id < accepted'[j].id
    BY <1>1, <1>2, <1>5, <1>a, <1>f
  <2> QED BY <1>2, <2>1, <2>2, Zenon DEF IdsOrdered
<1>8. LifecycleInOrderOnce'
  <2>1. Len(pending') <= MaxPending /\ Len(pending') <= Len(accepted')
    BY <1>1, <1>2, <1>3, <1>4
  <2>2. \A i \in 1..Len(pending') :
           pending'[i] = accepted'[Len(accepted') - Len(pending') + i]
    <3> TAKE i \in 1..Len(pending')
    <3>0. i \in 1..(m + 1 - d) /\ Len(accepted') - Len(pending') + i = n - m + d + i
      BY <1>1, <1>2, <1>3
    <3>1. CASE i = m + 1 - d
      <4>1. n - m + d + i = n + 1
        BY <3>1, <1>1
      <4> QED BY <3>0, <3>1, <4>1, <1>2, <1>3, Zenon
    <3>2. CASE i \in 1..(m - d)
      <4>1. pending'[i] = pending[i + d] /\ i + d \in 1..m
        BY <3>2, <1>1, <1>3
      <4>2. pending[i + d] = accepted[n - m + (i + d)]
        BY <4>1, <1>b, Zenon
      <4>3. n - m + (i + d) = n - m + d + i /\ n - m + d + i \in 1..n
        BY <4>1, <1>1
      <4> QED BY <3>0, <4>1, <4>2, <4>3, <1>2, Zenon
    <3> QED BY <3>0, <3>1, <3>2, <1>1
  <2>3. \A i \in 1..Len(pending') : \A t \in taken : t < pending'[i].id
    <3> TAKE i \in 1..Len(pending')
    <3>1. CASE i = m + 1 - d
      BY <3>1, <1>3, <1>5, <1>c, Zenon
    <3>2. CASE i \in 1..(m - d)
      <4>1. pending'[i] = pending[i + d] /\ i + d \in 1..m
        BY <3>2, <1>1, <1>3
      <4> QED BY <4>1, <1>c, Zenon
    <3> QED BY <3>1, <3>2, <1>1, <1>3
  <2> QED BY <1>5, <2>1, <2>2, <2>3, Zenon DEF LifecycleInOrderOnce, PendingIsSuffix
<1>9. LifecycleNotLost'
  <2>0. \A i \in 1..Len(accepted') :
            \/ \E j \in 1..Len(pending') : pending'[j] = accepted'[i]
            \/ accepted'[i].id \in taken'
            \/ ~isUsableCommand(accepted'[i], now')
            \/ Len(accepted') - i >= MaxPending
    <3> TAKE i \in 1..Len(accepted')
    <3>1. CASE i = n + 1
      <4>1. m + 1 - d \in 1..Len(pending')
        BY <1>1, <1>3, <1>4
      <4> QED BY <3>1, <4>1, <1>2, <1>3, Zenon
    <3>2. CASE i \in 1..n /\ \E j \in 1..m : pending[j] = accepted[i]
      <4>1. PICK j \in 1..m : pending[j] = accepted[i]
        BY <3>2, Zenon
      <4>2. i = n - m + j
        BY <4>1, <3>2, <1>e, Zenon
      <4>3. CASE j - d \in 1..(m - d)
        <5>1. pending'[j - d] = pending[j - d + d] /\ j - d + d = j
          BY <4>3, <1>1, <1>3
        <5>2. j - d \in 1..Len(pending')
          BY <4>3, <1>1, <1>3
        <5> QED BY <4>1, <3>2, <5>1, <5>2, <1>2, Zenon
      <4>4. CASE ~(j - d \in 1..(m - d))
        <5>1. j = 1 /\ d = 1
          BY <4>1, <4>4, <1>1
        <5>2. m >= MaxPending /\ Len(accepted') = n + 1 /\ i = n - m + 1
          BY <4>2, <5>1, <1>2, <1>3, Zenon
        <5>3. Len(accepted') - i >= MaxPending
          BY <5>2, <1>1, <1>4
        <5> QED BY <5>3, Zenon
      <4> QED BY <4>3, <4>4, Zenon
    <3>3. CASE i \in 1..n /\ ~\E j \in 1..m : pending[j] = accepted[i]
      BY <3>3, <1>1, <1>2, <1>4, <1>d
    <3> QED BY <1>1, <1>2, <3>1, <3>2, <3>3
  <2> QED BY <2>0, Zenon DEF LifecycleNotLost, isUsableCommand
<1>10. \A t \in taken' : t < nextId'
  BY <1>1, <1>5, <1>c
<1>11. OnlyLifecycle'
  <2>1. OnlyLifecycle /\ isLifecycleCommand(c)
    BY <1>0, Zenon DEF IInv, StoresLifecycle
  <2> QED BY <1>1, <1>2, <2>1 DEF OnlyLifecycle, isLifecycleCommand, n
<1> QED BY <1>0, <1>6, <1>7, <1>8, <1>9, <1>10, <1>11, Zenon DEF IInv

(* A step that leaves the queue and its history alone.                     *)
LEMMA QueueUntouched ==
    /\ IInv /\ TypeOK' /\ NoTargetFromBeforeLifecycle'
    /\ UNCHANGED <<pending, accepted, taken>>
    /\ nextId' >= nextId /\ now' >= now
    => IInv'
<1>0. SUFFICES ASSUME IInv, TypeOK', NoTargetFromBeforeLifecycle',
                      UNCHANGED <<pending, accepted, taken>>, nextId' >= nextId, now' >= now
               PROVE  IInv'
  BY Zenon
<1>1. /\ pending' = pending /\ accepted' = accepted /\ taken' = taken
      /\ nextId \in Nat /\ nextId' \in Nat /\ now \in Nat /\ now' \in Nat
      /\ taken \subseteq Nat /\ accepted \in Seq(Command)
      /\ nextId' >= nextId /\ now' >= now
  BY <1>0, Zenon DEF IInv, TypeOK
<1>2. IdsOrdered'
  <2>1. \A i \in 1..Len(accepted) : accepted[i].id \in Nat
    BY <1>1, CommandFields
  <2>2. IdsOrdered
    BY <1>0, Zenon DEF IInv
  <2>3. \A i \in 1..Len(accepted) : accepted[i].id < nextId
    BY <2>2, Zenon DEF IdsOrdered
  <2>4. \A i \in 1..Len(accepted) : accepted[i].id < nextId'
    BY <1>1, <2>1, <2>3
  <2> QED BY <1>1, <2>2, <2>4, Zenon DEF IdsOrdered
<1>3. LifecycleNotLost'
  <2>1. \A c \in Command : ~isUsableCommand(c, now) => ~isUsableCommand(c, now')
    BY <1>1, CommandFields DEF isUsableCommand
  <2>2. \A i \in 1..Len(accepted) : accepted[i] \in Command
    BY <1>1
  <2>3. LifecycleNotLost
    BY <1>0, Zenon DEF IInv
  <2>4. \A i \in 1..Len(accepted) :
            \/ \E j \in 1..Len(pending) : pending[j] = accepted[i]
            \/ accepted[i].id \in taken
            \/ ~isUsableCommand(accepted[i], now')
            \/ Len(accepted) - i >= MaxPending
    BY <2>1, <2>2, <2>3, Zenon DEF LifecycleNotLost
  <2> QED BY <1>1, <2>4, Zenon DEF LifecycleNotLost
<1>4. LifecycleInOrderOnce'
  <2>1. LifecycleInOrderOnce
    BY <1>0, Zenon DEF IInv
  <2> QED BY <1>1, <2>1, Zenon DEF LifecycleInOrderOnce, PendingIsSuffix
<1>5. \A t \in taken' : t < nextId'
  BY <1>0, <1>1 DEF IInv
<1>6. OnlyLifecycle'
  BY <1>0, <1>1, Zenon DEF IInv, OnlyLifecycle, isLifecycleCommand
<1> QED BY <1>0, <1>2, <1>3, <1>4, <1>5, <1>6, Zenon DEF IInv

(* Taking the first usable lifecycle command keeps the invariant: what is  *)
(* discarded in front of it has expired.                                   *)
LEMMA TakeLifecycleStep ==
    IInv /\ TypeOK' /\ takeLifecycle /\ UNCHANGED <<now, nextId>> => IInv'
<1>0. SUFFICES ASSUME IInv, TypeOK', takeLifecycle, UNCHANGED <<now, nextId>> PROVE IInv'
  BY Zenon
<1> DEFINE m == Len(pending)
           n == Len(accepted)
<1>1. PICK k \in usableAt : /\ \A j \in usableAt : k <= j
                            /\ pending' = SubSeq(pending, k + 1, Len(pending))
                            /\ taken' = taken \cup {pending[k].id}
                            /\ UNCHANGED <<latest, accepted>>
  BY <1>0, Zenon DEF takeLifecycle
<1>2. /\ m \in Nat /\ n \in Nat /\ m <= n /\ m <= MaxPending
      /\ pending \in Seq(Command) /\ nextId \in Nat
      /\ latest' = latest /\ accepted' = accepted /\ now' = now /\ nextId' = nextId
  BY <1>0, <1>1 DEF IInv, TypeOK, LifecycleInOrderOnce, PendingIsSuffix
<1>3. k \in 1..m /\ \A j \in 1..m : j < k => ~isUsableCommand(pending[j], now)
  BY <1>1, <1>2 DEF usableAt
<1>4. Len(pending') = m - k /\ \A i \in 1..(m - k) : pending'[i] = pending[k + i]
  BY <1>1, <1>2, <1>3
<1>5. \A i \in 1..m : pending[i].id \in Nat
  BY <1>2, CommandFields
<1>a. \A i \in 1..m : pending[i] = accepted[n - m + i]
  BY <1>0, Zenon DEF IInv, LifecycleInOrderOnce, PendingIsSuffix
<1>b. \A i, j \in 1..m : i < j => pending[i].id < pending[j].id
  BY <1>0, QueueIdsGrow, Zenon
<1>c. \A t \in taken : t < nextId /\ \A i \in 1..m : t < pending[i].id
  BY <1>0, Zenon DEF IInv, LifecycleInOrderOnce
<1>d. \A i \in 1..n : \/ \E j \in 1..m : pending[j] = accepted[i]
                      \/ accepted[i].id \in taken
                      \/ ~isUsableCommand(accepted[i], now)
                      \/ n - i >= MaxPending
  BY <1>0, Zenon DEF IInv, LifecycleNotLost
<1>e. \A i \in 1..n : accepted[i].id < nextId
  BY <1>0, Zenon DEF IInv, IdsOrdered
<1>6. NoTargetFromBeforeLifecycle' /\ IdsOrdered'
  <2>1. NoTargetFromBeforeLifecycle /\ IdsOrdered
    BY <1>0, Zenon DEF IInv
  <2> QED BY <1>2, <2>1, Zenon DEF NoTargetFromBeforeLifecycle, NewestLifecycle, IdsOrdered, isHold
<1> HIDE DEF m, n
<1>7. LifecycleInOrderOnce'
  <2>0. Len(accepted') = n
    BY <1>2, Zenon DEF n
  <2>1. Len(pending') <= MaxPending /\ Len(pending') <= Len(accepted')
    BY <1>2, <1>3, <1>4, <2>0, MaxPendingAssumption
  <2>2. \A i \in 1..Len(pending') :
           pending'[i] = accepted'[Len(accepted') - Len(pending') + i]
    <3> TAKE i \in 1..Len(pending')
    <3>1. pending'[i] = pending[k + i] /\ k + i \in 1..m
      BY <1>2, <1>3, <1>4
    <3>2. pending[k + i] = accepted[n - m + (k + i)]
      BY <3>1, <1>a, Zenon
    <3>3. n - m + (k + i) = Len(accepted') - Len(pending') + i
      BY <1>2, <1>3, <1>4, <2>0
    <3> QED BY <3>1, <3>2, <3>3, <1>2, Zenon
  <2>3. \A i \in 1..Len(pending') : \A t \in taken' : t < pending'[i].id
    <3> TAKE i \in 1..Len(pending')
    <3>1. pending'[i] = pending[k + i] /\ k + i \in 1..m /\ k < k + i
      BY <1>2, <1>3, <1>4
    <3>2. pending[k].id < pending[k + i].id
      BY <3>1, <1>3, <1>b, Zenon
    <3> QED BY <3>1, <3>2, <1>1, <1>c, Zenon
  <2> QED BY <2>1, <2>2, <2>3, Zenon DEF LifecycleInOrderOnce, PendingIsSuffix
<1>8. LifecycleNotLost'
  <2>0. Len(accepted') = n
    BY <1>2, Zenon DEF n
  <2>1. \A i \in 1..Len(accepted') :
            \/ \E j \in 1..Len(pending') : pending'[j] = accepted'[i]
            \/ accepted'[i].id \in taken'
            \/ ~isUsableCommand(accepted'[i], now')
            \/ Len(accepted') - i >= MaxPending
    <3> TAKE i \in 1..Len(accepted')
    <3>1. i \in 1..n /\ accepted'[i] = accepted[i]
      BY <1>2, <2>0, Zenon
    <3>2. CASE \E j \in 1..m : pending[j] = accepted[i]
      <4>1. PICK j \in 1..m : pending[j] = accepted[i]
        BY <3>2, Zenon
      <4>2. CASE j < k
        <5>1. ~isUsableCommand(accepted[i], now)
          BY <4>1, <4>2, <1>3, Zenon
        <5> QED BY <5>1, <3>1, <1>2, Zenon
      <4>3. CASE j = k
        BY <4>1, <4>3, <3>1, <1>1, Zenon
      <4>4. CASE j > k
        <5>1. j - k \in 1..Len(pending') /\ pending'[j - k] = pending[k + (j - k)]
          BY <4>4, <1>2, <1>3, <1>4
        <5>2. k + (j - k) = j
          BY <1>2, <1>3
        <5> QED BY <4>1, <5>1, <5>2, <3>1, Zenon
      <4> QED BY <4>2, <4>3, <4>4, <1>2, <1>3
    <3>3. CASE ~\E j \in 1..m : pending[j] = accepted[i]
      BY <3>1, <3>3, <1>1, <1>2, <1>d, <2>0, Zenon
    <3> QED BY <3>2, <3>3, Zenon
  <2> QED BY <2>1, Zenon DEF LifecycleNotLost, isUsableCommand
<1>9. \A t \in taken' : t < nextId'
  <2>1. n - m + k \in 1..n
    BY <1>2, <1>3
  <2>2. pending[k].id < nextId
    BY <2>1, <1>3, <1>a, <1>e, Zenon
  <2> QED BY <2>2, <1>1, <1>2, <1>c, Zenon
<1>10. OnlyLifecycle'
  BY <1>0, <1>2, Zenon DEF IInv, OnlyLifecycle, isLifecycleCommand
<1> QED BY <1>0, <1>6, <1>7, <1>8, <1>9, <1>10, Zenon DEF IInv

(* Draining a queue with nothing usable in it keeps the invariant.         *)
LEMMA TakeLatestStep ==
    IInv /\ TypeOK' /\ takeLatest /\ UNCHANGED <<now, nextId>> => IInv'
<1>0. SUFFICES ASSUME IInv, TypeOK', takeLatest, UNCHANGED <<now, nextId>> PROVE IInv'
  BY Zenon
<1>1. /\ pending' = <<>> /\ latest' = latest /\ accepted' = accepted
      /\ taken' = taken /\ now' = now /\ nextId' = nextId
      /\ \A j \in 1..Len(pending) : ~isUsableCommand(pending[j], now)
  BY <1>0, Zenon DEF takeLatest, usableAt
<1>2. NoTargetFromBeforeLifecycle' /\ IdsOrdered'
  <2>1. NoTargetFromBeforeLifecycle /\ IdsOrdered
    BY <1>0, Zenon DEF IInv
  <2> QED BY <1>1, <2>1, Zenon DEF NoTargetFromBeforeLifecycle, NewestLifecycle, IdsOrdered, isHold
<1>3. LifecycleNotLost'
  <2>1. \A i \in 1..Len(accepted') :
            \/ accepted'[i].id \in taken'
            \/ ~isUsableCommand(accepted'[i], now')
            \/ Len(accepted') - i >= MaxPending
    <3>1. LifecycleNotLost
      BY <1>0, Zenon DEF IInv
    <3> QED BY <1>1, <3>1, Zenon DEF LifecycleNotLost
  <2> QED BY <2>1, Zenon DEF LifecycleNotLost, isUsableCommand
<1>4. LifecycleInOrderOnce'
  <2>1. Len(pending') = 0 /\ accepted' \in Seq(Command)
    BY <1>0, <1>1, Zenon DEF TypeOK
  <2> QED BY <2>1, MaxPendingAssumption DEF LifecycleInOrderOnce, PendingIsSuffix
<1>5. \A t \in taken' : t < nextId'
  BY <1>0, <1>1, Zenon DEF IInv
<1>6. OnlyLifecycle'
  BY <1>0, <1>1, Zenon DEF IInv, OnlyLifecycle, isLifecycleCommand
<1> QED BY <1>0, <1>2, <1>3, <1>4, <1>5, <1>6, Zenon DEF IInv

(* The inductive step, one case per operation of the buffer.               *)
LEMMA InvStep == IInv /\ [Next]_vars => IInv'
<1> SUFFICES ASSUME IInv, [Next]_vars PROVE IInv'
  BY Zenon
<1>0. TypeOK' /\ TypeOK
  BY TypeStep, Zenon DEF IInv
<1>1. CASE SetCommand
  <2>1. PICK mp \in ModePairs, t \in Timeouts, l \in Leases : setCommand(NewCommand(mp, t, l))
    BY <1>1, Zenon DEF SetCommand
  <2> DEFINE c == NewCommand(mp, t, l)
  <2>2. c \in Command /\ c.id = nextId
    BY <1>0, NewCommandType, Zenon
  <2>3. setCommand(c)
    BY <2>1, Zenon
  <2> HIDE DEF c
  <2>4. now' = now /\ nextId' = nextId + 1 /\ taken' = taken
    BY <1>1, <2>3 DEF SetCommand, setCommand
  <2>5. nextId' >= nextId /\ now' >= now
    BY <1>0, <2>4 DEF TypeOK
  <2>6. CASE isExternalBoxesCommand(c)
    <3>1. UNCHANGED <<latest, pending, accepted, taken>>
      BY <2>3, <2>4, <2>6, Zenon DEF setCommand
    <3>2. NoTargetFromBeforeLifecycle
      BY Zenon DEF IInv
    <3>3. NoTargetFromBeforeLifecycle'
      BY <3>1, <3>2, Zenon DEF NoTargetFromBeforeLifecycle, NewestLifecycle, isHold
    <3> QED BY <1>0, <2>5, <3>1, <3>3, QueueUntouched, Zenon
  <2>7. CASE ~isExternalBoxesCommand(c) /\ isLifecycleCommand(c)
    <3>1. StoresLifecycle(c)
      BY <2>2, <2>3, <2>4, <2>7, Zenon DEF setCommand, StoresLifecycle
    <3> QED BY <1>0, <2>2, <3>1, StoreLifecycle, Zenon
  <2>8. CASE ~isExternalBoxesCommand(c) /\ ~isLifecycleCommand(c)
    <3>1. latest' = c /\ UNCHANGED <<pending, accepted, taken>>
      BY <2>3, <2>4, <2>8, Zenon DEF setCommand
    <3>2. NewestLifecycle < nextId
      <4>1. IdsOrdered
        BY Zenon DEF IInv
      <4> QED BY <1>0, <4>1 DEF NewestLifecycle, IdsOrdered, TypeOK
    <3>3. NoTargetFromBeforeLifecycle'
      <4>1. NewestLifecycle' = NewestLifecycle
        BY <3>1, Zenon DEF NewestLifecycle
      <4>2. latest'.id > NewestLifecycle'
        BY <2>2, <3>1, <3>2, <4>1, Zenon DEF NewestLifecycle
      <4> QED BY <4>2, Zenon DEF NoTargetFromBeforeLifecycle
    <3> QED BY <1>0, <2>5, <3>1, <3>3, QueueUntouched, Zenon
  <2> QED BY <2>6, <2>7, <2>8, Zenon
<1>2. CASE UpdateLease
  <2>1. PICK l \in Leases : updateLease(l)
    BY <1>2, Zenon DEF UpdateLease
  <2>2. UNCHANGED <<pending, accepted, taken, now>> /\ nextId' = nextId + 1
    BY <1>2, <2>1, Zenon DEF UpdateLease, updateLease
  <2>3. isHold(latest') \/ (/\ latest # None /\ latest'.id = latest.id
                            /\ latest'.left = latest.left /\ latest'.right = latest.right)
    BY <1>0, <2>1, Zenon DEF updateLease, makeHold, isHold, TypeOK, Command
  <2>4. NoTargetFromBeforeLifecycle
    BY Zenon DEF IInv
  <2>5. NoTargetFromBeforeLifecycle'
    BY <2>2, <2>3, <2>4, Zenon DEF NoTargetFromBeforeLifecycle, NewestLifecycle, isHold
  <2>6. nextId' >= nextId /\ now' >= now
    BY <1>0, <2>2 DEF TypeOK
  <2> QED BY <1>0, <2>2, <2>5, <2>6, QueueUntouched, Zenon
<1>3. CASE LatestOrHold
  BY <1>0, <1>3, TakeLifecycleStep, TakeLatestStep, Zenon DEF LatestOrHold, latestOrHold
<1>4. CASE NoteBoxes \/ ConsumeBoxes \/ Advance \/ UNCHANGED vars
  <2>1. UNCHANGED <<latest, pending, accepted, taken>> /\ nextId' >= nextId /\ now' >= now
    BY <1>0, <1>4 DEF NoteBoxes, ConsumeBoxes, Advance, noteExternalBoxReceived,
       consumeLatestExternalBoxes, bufferVars, vars, TypeOK
  <2>2. NoTargetFromBeforeLifecycle
    BY Zenon DEF IInv
  <2>3. NoTargetFromBeforeLifecycle'
    BY <2>1, <2>2, Zenon DEF NoTargetFromBeforeLifecycle, NewestLifecycle, isHold
  <2> QED BY <1>0, <2>1, <2>3, QueueUntouched, Zenon
<1> QED BY <1>1, <1>2, <1>3, <1>4, Zenon DEF Next

LEMMA InvInit == Init => IInv
<1> SUFFICES ASSUME Init PROVE IInv
  BY Zenon
<1>1. TypeOK
  BY TypeInit, Zenon
<1>2. Len(pending) = 0 /\ Len(accepted) = 0 /\ taken = {} /\ latest = None
  BY Zenon DEF Init
<1> QED BY <1>1, <1>2, MaxPendingAssumption DEF IInv, IdsOrdered, OnlyLifecycle,
        NoTargetFromBeforeLifecycle, LifecycleNotLost, LifecycleInOrderOnce, PendingIsSuffix

LEMMA Inductive == Spec => []IInv
BY InvInit, InvStep, PTL DEF Spec
-----------------------------------------------------------------------------
(* For any queue size a lifecycle command stored by setCommand is waiting, *)
(* was returned by latestOrHold, has expired, or was pushed out by         *)
(* MaxPending younger ones.                                                *)
THEOREM NoLifecycleCommandLost == Spec => []LifecycleNotLost
<1>1. IInv => LifecycleNotLost
  BY Zenon DEF IInv
<1> QED BY <1>1, Inductive, PTL

(* latestOrHold returns lifecycle commands in arrival order, each at most  *)
(* once, from a queue that respects its bound.                             *)
THEOREM LifecycleFifo == Spec => []LifecycleInOrderOnce
<1>1. IInv => LifecycleInOrderOnce
  BY Zenon DEF IInv
<1> QED BY <1>1, Inductive, PTL

(* latest_command_ never holds a target older than a lifecycle command.    *)
THEOREM TargetsAreFlushed == Spec => []NoTargetFromBeforeLifecycle
<1>1. IInv => NoTargetFromBeforeLifecycle
  BY Zenon DEF IInv
<1> QED BY <1>1, Inductive, PTL

(* latestOrHold hands out a target only when no lifecycle command waits,   *)
(* and then only one that is younger than all of them and not expired.     *)
THEOREM LifecycleFirst == Spec => LifecycleBeforeTarget
<1> DEFINE Good == LatestOrHold /\ ~isLifecycleCommand(out') =>
                      /\ pending' = <<>>
                      /\ ~isHold(out') => /\ out'.id > NewestLifecycle
                                          /\ isUsableCommand(out', now)
<1>1. IInv /\ [Next]_vars => [Good]_vars
  <2>1. SUFFICES ASSUME IInv, LatestOrHold, ~isLifecycleCommand(out')
                 PROVE  /\ pending' = <<>>
                        /\ ~isHold(out') => /\ out'.id > NewestLifecycle
                                            /\ isUsableCommand(out', now)
    BY Zenon
  <2>2. CASE takeLifecycle
    <3>1. PICK i \in 1..Len(pending) : out' = pending[i]
      BY <2>2, Zenon DEF takeLifecycle, usableAt
    <3>2. PICK j \in 1..Len(accepted) : out' = accepted[j]
      <4>1. /\ Len(pending) \in Nat /\ Len(accepted) \in Nat /\ Len(pending) <= Len(accepted)
            /\ pending[i] = accepted[Len(accepted) - Len(pending) + i]
        BY <2>1, <3>1 DEF IInv, TypeOK, LifecycleInOrderOnce, PendingIsSuffix
      <4>2. Len(accepted) - Len(pending) + i \in 1..Len(accepted)
        BY <3>1, <4>1
      <4> QED BY <3>1, <4>1, <4>2, Zenon
    <3>3. isLifecycleCommand(accepted[j])
      BY <2>1, Zenon DEF IInv, OnlyLifecycle
    <3> QED BY <2>1, <3>2, <3>3, Zenon DEF isLifecycleCommand
  <2>3. CASE takeLatest
    <3>1. pending' = <<>> /\ out' = latestOrFallback
      BY <2>3, Zenon DEF takeLatest
    <3>2. ~isHold(out') => latest # None /\ out' = latest /\ isUsableCommand(latest, now)
      BY <3>1, Zenon DEF latestOrFallback, isHold, makeHold
    <3> QED BY <2>1, <3>1, <3>2, Zenon DEF IInv, NoTargetFromBeforeLifecycle
  <2> QED BY <2>1, <2>2, <2>3, Zenon DEF LatestOrHold, latestOrHold
<1> QED BY <1>1, Inductive, PTL DEF Spec, LifecycleBeforeTarget
-----------------------------------------------------------------------------
(* The inductive invariant: the packets accepted of a source are in        *)
(* sequence, and the number kept for the source bounds them.               *)
SeqInv ==
    /\ lastSeq \in [Sources -> Nat]
    /\ origin \in Seq(Packet)
    /\ AcceptedInSequence
    /\ \A i \in 1..Len(origin) : origin[i].seq <= lastSeq[origin[i].src]

(* The fields of a packet have their types. *)
LEMMA PacketFields ==
    ASSUME NEW p \in Packet
    PROVE  p.src \in Sources /\ p.seq \in Nat /\ p.kind \in {"command", "acquire", "release"}
BY SeqTokenAssumption DEF Packet

(* What is accepted is last in the history. *)
LEMMA AcceptedIsLast ==
    ASSUME origin \in Seq(Packet), NEW p \in Packet, accept(p)
    PROVE  /\ origin' \in Seq(Packet)
           /\ Len(origin') = Len(origin) + 1
           /\ origin'[Len(origin')] = p
           /\ \A i \in 1..Len(origin) : origin'[i] = origin[i]
BY DEF accept

(* Every step accepts one packet or leaves lease and history alone. *)
LEMMA StepKinds ==
    ASSUME [ServerNext]_allVars
    PROVE  \/ \E p \in Packet : (ReleaseLease(p) \/ AcquireLease(p) \/ StoreCommand(p)) /\ accept(p)
           \/ UNCHANGED leaseVars
BY PacketAssumption, Zenon DEF ServerNext, Receive, NoteReceived, LoopRead, LoopBoxes, ServerAdvance,
       allVars, serverVars, ReleaseLease, AcquireLease, StoreCommand

(* Accepting a packet of a source advances the number kept for it. *)
LEMMA AcceptKeepsSequence ==
    ASSUME SeqInv, NEW p \in Packet, accept(p)
    PROVE  SeqInv'
<1> DEFINE n == Len(origin)
<1>1. /\ n \in Nat
      /\ origin' \in Seq(Packet)
      /\ Len(origin') = n + 1
      /\ origin'[n + 1] = p
      /\ \A i \in 1..n : origin'[i] = origin[i]
  BY AcceptedIsLast DEF SeqInv
<1>2. p.src \in Sources /\ p.seq \in Nat
  BY PacketFields, Zenon
<1>3. \A i \in 1..n : origin[i].src \in Sources /\ origin[i].seq \in Nat
  BY PacketFields DEF SeqInv
<1>4. /\ lastSeq' = [lastSeq EXCEPT ![p.src] = p.seq]
      /\ p.seq > lastSeq[p.src]
  BY Zenon DEF accept, isFreshSeq
<1>5. lastSeq' \in [Sources -> Nat]
  BY <1>2, <1>4, Zenon DEF SeqInv
<1>6. \A i \in 1..n : /\ origin[i].seq <= lastSeq'[origin[i].src]
                      /\ origin[i].src = p.src => origin[i].seq < p.seq
  BY <1>2, <1>3, <1>4 DEF SeqInv
<1>7. \A i \in 1..Len(origin') : origin'[i].seq <= lastSeq'[origin'[i].src]
  <2>1. lastSeq'[p.src] = p.seq
    BY <1>2, <1>4, Zenon DEF SeqInv
  <2> QED BY <2>1, <1>1, <1>2, <1>6
<1>8. AcceptedInSequence'
  <2> SUFFICES ASSUME NEW i \in 1..(n + 1), NEW j \in 1..(n + 1), i < j,
                      origin'[i].src = origin'[j].src
               PROVE  origin'[i].seq < origin'[j].seq
    BY <1>1, Zenon DEF AcceptedInSequence
  <2>1. CASE j = n + 1
    <3>1. i \in 1..n
      BY <2>1, <1>1
    <3>2. origin'[i] = origin[i] /\ origin'[j] = p
      BY <2>1, <3>1, <1>1, Zenon
    <3> QED BY <3>1, <3>2, <1>6, Zenon
  <2>2. CASE j # n + 1
    <3>1. i \in 1..n /\ j \in 1..n
      BY <2>2, <1>1
    <3>2. origin'[i] = origin[i] /\ origin'[j] = origin[j]
      BY <3>1, <1>1, Zenon
    <3> QED BY <3>1, <3>2, Zenon DEF SeqInv, AcceptedInSequence
  <2> QED BY <2>1, <2>2, Zenon
<1> QED BY <1>1, <1>5, <1>7, <1>8, Zenon DEF SeqInv

(* Every step of the server preserves the invariant. *)
LEMMA SeqInvStep ==
    ASSUME SeqInv, [ServerNext]_allVars
    PROVE  SeqInv'
<1>1. CASE UNCHANGED leaseVars
  BY <1>1, Zenon DEF SeqInv, AcceptedInSequence, leaseVars
<1>2. CASE \E p \in Packet : accept(p)
  BY <1>2, AcceptKeepsSequence, Zenon
<1> QED BY <1>1, <1>2, StepKinds, Zenon

(* The invariant holds in every reachable state. *)
LEMMA SeqInvAlways == ServerSpec => []SeqInv
<1>1. ServerInit => SeqInv
  BY DEF ServerInit, SeqInv, AcceptedInSequence
<1>2. SeqInv /\ [ServerNext]_allVars => SeqInv'
  BY SeqInvStep, Zenon
<1> QED BY <1>1, <1>2, PTL DEF ServerSpec

(* last_accepted_seq_by_source_: for any clients and packets, the accepted *)
(* packets of one source have growing sequence numbers.                    *)
THEOREM ReplaysAreDropped == ServerSpec => []AcceptedInSequence
<1>1. SeqInv => AcceptedInSequence
  BY Zenon DEF SeqInv
<1> QED BY <1>1, SeqInvAlways, PTL

(* Under an active lease the checks let only its owner change the lease.   *)
LEMMA ChangerOwns ==
    ASSUME EnforceLease, currentLeaseState.active, NEW p \in Packet, ~isEmergencyStop(p),
           ReleaseLease(p) \/ AcquireLease(p) \/ StoreCommand(p), lease' # lease
    PROVE  p.src = lease.src
<1>1. ownsLease(p)
  <2>1. CASE ReleaseLease(p)
    BY <2>1, Zenon DEF ReleaseLease
  <2>2. CASE AcquireLease(p)
    BY <2>2, Zenon DEF AcquireLease, passesLeaseCheck, requestsLease
  <2>3. CASE StoreCommand(p)
    <3>1. renewsLease(p)
      BY <2>3, Zenon DEF StoreCommand
    <3> QED BY <2>3, <3>1, Zenon DEF StoreCommand, passesLeaseCheck, renewsLease
  <2> QED BY <2>1, <2>2, <2>3, Zenon
<1>2. currentLeaseState.src = lease.src
  BY DEF currentLeaseState
<1> QED BY <1>1, <1>2, Zenon DEF ownsLease

(* While a client holds an unexpired lease, no packet of another client    *)
(* changes it (parseMessage).                                              *)
THEOREM LeaseIsHolders == ServerSpec => LeaseOnlyMovesFromHolder
<1> DEFINE A == (EnforceLease /\ currentLeaseState.active /\ lease' # lease) =>
                   LET p == origin'[Len(origin')] IN p.src = lease.src \/ isEmergencyStop(p)
<1>1. SeqInv /\ [ServerNext]_allVars => A
  <2> SUFFICES ASSUME SeqInv, [ServerNext]_allVars, EnforceLease, currentLeaseState.active,
                      lease' # lease
               PROVE  \/ origin'[Len(origin')].src = lease.src
                      \/ isEmergencyStop(origin'[Len(origin')])
    BY Zenon
  <2>1. PICK p \in Packet : (ReleaseLease(p) \/ AcquireLease(p) \/ StoreCommand(p)) /\ accept(p)
    BY StepKinds, Zenon DEF leaseVars
  <2>2. origin'[Len(origin')] = p
    BY <2>1, AcceptedIsLast, Zenon DEF SeqInv
  <2>3. p.src = lease.src \/ isEmergencyStop(p)
    BY <2>1, ChangerOwns, Zenon
  <2> QED BY <2>2, <2>3, Zenon
<1> QED BY <1>1, SeqInvAlways, PTL DEF ServerSpec, LeaseOnlyMovesFromHolder

(* A command that needs the lease is stored only for a sender that holds   *)
(* it or is being granted a free one (parseMessage).                       *)
THEOREM LeaseBeforeMotion == ServerSpec => LeasedTargetNeedsLease
<1> DEFINE A == (EnforceLease /\ Len(origin') > Len(origin)) =>
                   LET p == origin'[Len(origin')] IN
                   (p.kind = "command" /\ requiresLease(p)) =>
                       /\ lease'.active /\ lease'.src = p.src
                       /\ ownsLease(p) \/ (~currentLeaseState.active /\ requestsLease(p))
<1>1. SeqInv /\ [ServerNext]_allVars => A
  <2> SUFFICES ASSUME SeqInv, [ServerNext]_allVars, EnforceLease, Len(origin') > Len(origin),
                      NEW q, q = origin'[Len(origin')], q.kind = "command", requiresLease(q)
               PROVE  /\ lease'.active /\ lease'.src = q.src
                      /\ ownsLease(q) \/ (~currentLeaseState.active /\ requestsLease(q))
    BY Zenon
  <2>1. PICK p \in Packet : (ReleaseLease(p) \/ AcquireLease(p) \/ StoreCommand(p)) /\ accept(p)
    <3>1. ~UNCHANGED leaseVars
      BY DEF leaseVars, SeqInv
    <3> QED BY <3>1, StepKinds, Zenon
  <2>2. q = p
    BY <2>1, AcceptedIsLast, Zenon DEF SeqInv
  <2>3. StoreCommand(p)
    BY <2>1, <2>2, Zenon DEF ReleaseLease, AcquireLease
  <2>4. /\ requestsLease(p) => ~(currentLeaseState.active /\ ~ownsLease(p))
        /\ ~requestsLease(p) => ownsLease(p) /\ tokenMatches(p)
    BY <2>2, <2>3, Zenon DEF StoreCommand, passesLeaseCheck, requiresLease
  <2>5. lease' = grantedLease(p)
    BY <2>2, <2>3, <2>4, Zenon DEF StoreCommand, renewsLease, grantLease
  <2>6. lease'.active /\ lease'.src = p.src
    BY <2>5, Zenon DEF grantedLease
  <2>7. ownsLease(p) \/ (~currentLeaseState.active /\ requestsLease(p))
    BY <2>4, Zenon DEF ownsLease
  <2> QED BY <2>2, <2>6, <2>7, Zenon
<1> QED BY <1>1, SeqInvAlways, PTL DEF ServerSpec, LeasedTargetNeedsLease
-----------------------------------------------------------------------------
(* The types of what the server puts into the buffer. *)
ServerTypes ==
    /\ now \in Nat /\ counter \in Nat
    /\ lease \in LeaseState
    /\ stamp \in 0..now

(* The lease that a packet is granted is a lease state. *)
LEMMA GrantType ==
    ASSUME ServerTypes, NEW p \in Packet
    PROVE  currentLeaseState \in LeaseState /\ grantedLease(p) \in LeaseState
<1>1. p.src \in Sources /\ p.token \in Nat
  BY SeqTokenAssumption DEF Packet
<1>2. currentLeaseState \in LeaseState
  BY Zenon DEF ServerTypes, currentLeaseState, LeaseState
<1>3. PICK t : t = (IF p.token # 0 THEN p.token
                    ELSE IF keepsToken(p) THEN currentLeaseState.token ELSE counter + 1)
  BY Zenon
<1>4. PICK a : a = (IF lease.acquired = 0 \/ ~ownsLease(p) THEN now ELSE lease.acquired)
  BY Zenon
<1>5. t \in Nat /\ a \in Nat
  BY <1>1, <1>2, <1>3, <1>4 DEF ServerTypes, LeaseState
<1>6. grantedLease(p) = [active |-> TRUE, src |-> p.src, token |-> t, acquired |-> a,
                         expires |-> now + LeaseTimeout]
  BY <1>3, <1>4, Zenon DEF grantedLease
<1> QED BY <1>1, <1>2, <1>5, <1>6, LeaseTimeoutAssumption DEF ServerTypes, LeaseState

(* Every step keeps the types. *)
LEMMA ServerTypeStep ==
    ASSUME ServerTypes, [ServerNext]_allVars
    PROVE  ServerTypes'
<1>1. CASE Receive
  <2>1. PICK p \in Packet : ReleaseLease(p) \/ AcquireLease(p) \/ StoreCommand(p)
    BY <1>1, PacketAssumption, Zenon DEF Receive
  <2>2. now' = now /\ stamp' \in 0..now'
    BY <2>1 DEF ReleaseLease, AcquireLease, StoreCommand, accept, ServerTypes
  <2>3. lease' \in {lease, DefaultLease, grantedLease(p)} /\ counter' \in {counter, counter + 1}
    BY <2>1, Zenon DEF ReleaseLease, AcquireLease, StoreCommand, grantLease
  <2>4. DefaultLease \in LeaseState
    BY Zenon DEF DefaultLease, LeaseState
  <2> QED BY <2>2, <2>3, <2>4, GrantType DEF ServerTypes
<1>2. CASE NoteReceived
  BY <1>2 DEF NoteReceived, ServerTypes, leaseVars
<1>3. CASE LoopRead \/ LoopBoxes
  BY <1>3, Zenon DEF LoopRead, LoopBoxes, LatestOrHold, ConsumeBoxes, ServerTypes, serverVars, leaseVars
<1>4. CASE ServerAdvance
  BY <1>4 DEF ServerAdvance, Advance, ServerTypes, serverVars, leaseVars
<1>5. CASE UNCHANGED allVars
  BY <1>5, Zenon DEF allVars, vars, ServerTypes, serverVars, leaseVars
<1> QED BY <1>1, <1>2, <1>3, <1>4, <1>5, Zenon DEF ServerNext

(* Every step of the server is a step of the buffer, or none. *)
LEMMA BufferStep ==
    ASSUME LeaseState \subseteq Leases, CommandTimeout \in Timeouts,
           ServerTypes, [ServerNext]_allVars
    PROVE  [Next]_vars
<1>1. CASE Receive
  <2>1. PICK p \in Packet : ReleaseLease(p) \/ AcquireLease(p) \/ StoreCommand(p)
    BY <1>1, PacketAssumption, Zenon DEF Receive
  <2>2. nextId' = nextId + 1 /\ now' = now
    BY <2>1, Zenon DEF ReleaseLease, AcquireLease, StoreCommand, accept
  <2>3. currentLeaseState \in Leases /\ grantedLease(p) \in Leases /\ DefaultLease \in Leases
    <3>1. DefaultLease \in LeaseState
      BY Zenon DEF DefaultLease, LeaseState
    <3> QED BY <3>1, GrantType, Zenon
  <2>4. CASE ReleaseLease(p) \/ AcquireLease(p)
    BY <2>2, <2>3, <2>4, Zenon DEF ReleaseLease, AcquireLease, UpdateLease, Next
  <2>5. CASE StoreCommand(p)
    <3>1. p.modes \in ModePairs
      BY <2>5, Zenon DEF StoreCommand, Packet
    <3>2. PICK l \in Leases : setCommand(commandOf(p, l))
      BY <2>5, <2>3, Zenon DEF StoreCommand
    <3>3. commandOf(p, l) = NewCommand(p.modes, CommandTimeout, l)
      BY Zenon DEF commandOf, NewCommand
    <3> QED BY <2>2, <3>1, <3>2, <3>3, Zenon DEF SetCommand, Next
  <2> QED BY <2>1, <2>4, <2>5, Zenon
<1>2. CASE NoteReceived
  BY <1>2, Zenon DEF NoteReceived, ServerTypes, NoteBoxes, Next
<1>3. CASE LoopRead \/ LoopBoxes \/ ServerAdvance
  BY <1>3, Zenon DEF LoopRead, LoopBoxes, ServerAdvance, Next
<1>4. CASE UNCHANGED allVars
  BY <1>4, Zenon DEF allVars
<1> QED BY <1>1, <1>2, <1>3, <1>4, Zenon DEF ServerNext

(* The receive thread and the servo loop use the buffer as its own         *)
(* specification allows, so what is proved of the buffer alone holds of    *)
(* the server: command_server.cpp stores nothing but commands, leases and  *)
(* box times.                                                              *)
THEOREM ServerUsesBuffer ==
    ASSUME LeaseState \subseteq Leases, CommandTimeout \in Timeouts
    PROVE  ServerSpec => Spec
<1>1. ServerInit => ServerTypes
  BY DEF ServerInit, Init, ServerTypes, DefaultLease, LeaseState
<1>2. ServerTypes /\ [ServerNext]_allVars => ServerTypes'
  BY ServerTypeStep, Zenon
<1>3. ServerTypes /\ [ServerNext]_allVars => [Next]_vars
  BY BufferStep, Zenon
<1>4. ServerInit => Init
  BY Zenon DEF ServerInit
<1> QED BY <1>1, <1>2, <1>3, <1>4, PTL DEF ServerSpec, Spec
-----------------------------------------------------------------------------
(* The motion lifecycle. *)

(* How a step that neither latches, clears, brakes nor sends may relabel   *)
(* the motion state.                                                       *)
Relabels ==
    \/ motion' \in {motion, "ConnectedHold"}
    \/ ~latched /\ motion' \in {"ArmedHold", "Running"}

(* Sends and remaining brake ticks together stay below this many targets:  *)
(* a latch found at the end of a tick lets the target staged before it     *)
(* through at the top of the next one.                                     *)
Allowed ==
    IF config.sendAtTop
    THEN IF pc \in {"top", "send", "outcome"} THEN BrakeTicks ELSE BrakeTicks + 1
    ELSE IF pc = "send" THEN BrakeTicks - 1 ELSE BrakeTicks

(* The kinds of steps. *)
Quiet ==
    /\ UNCHANGED <<latched, cause, brake, brakeLeft, sends>>
    /\ Relabels
    /\ Allowed' >= Allowed

NewLatch ==
    /\ ~latched /\ latched'
    /\ \E s : /\ brake' = faultBrakeEligible(cause', s)
              /\ brakeLeft' = IF faultBrakeEligible(cause', s) THEN BrakeTicks ELSE 0
    /\ motion' = IF cause'.verdict = "EmergencyStop" THEN "EmergencyLatched" ELSE "FaultLatched"
    /\ Allowed' >= BrakeTicks
    /\ sends' = sends

Cleared == ~latched' /\ cause' = NoFault /\ motion' = "ConnectedHold" /\ sends' = 0
           /\ brakeLeft' = brakeLeft /\ latched

Sending(kind) ==
    /\ sendTargets(kind)
    /\ Allowed' = Allowed + 1
    /\ UNCHANGED faultVars

(* latchFault latches once and keeps the first cause. *)
LEMMA LatchKinds ==
    ASSUME NEW c, NEW s, latchWith(c, s), sends' = sends
    PROVE  \/ UNCHANGED <<motion, latched, cause, brake, brakeLeft, sends>>
           \/ /\ ~latched /\ latched'
              /\ \E t : /\ brake' = faultBrakeEligible(cause', t)
                        /\ brakeLeft' = IF faultBrakeEligible(cause', t) THEN BrakeTicks ELSE 0
              /\ motion' = IF cause'.verdict = "EmergencyStop" THEN "EmergencyLatched" ELSE "FaultLatched"
              /\ sends' = sends
<1>1. CASE latched
  BY <1>1, Zenon DEF latchWith, faultVars
<1>2. CASE ~latched
  BY <1>2, Zenon DEF latchWith
<1> QED BY <1>1, <1>2, Zenon

(* Every command of the dispatch chain. *)
LEMMA CommandKinds ==
    ASSUME HandleCommand
    PROVE  Quiet \/ NewLatch \/ Cleared
<1>1. PICK c \in Commands :
        \/ ReadOnlyBlocked(c) \/ EmergencyStop(c) \/ ResetFault(c) \/ Setting(c)
        \/ DisarmMotion(c) \/ ExplicitHold(c) \/ ArmMotion(c) \/ Freedrive(c)
        \/ MotionOrHold(c)
  BY Zenon DEF HandleCommand
<1>2. pc = "command" /\ pc' = "gates" /\ config' = config
  BY <1>1, Zenon DEF ReadOnlyBlocked, EmergencyStop, ResetFault, Setting, DisarmMotion, ExplicitHold,
              ArmMotion, Freedrive, MotionOrHold, dispatched
<1>3. Allowed' >= Allowed /\ Allowed' >= BrakeTicks
  BY <1>2, BrakeTicksAssumption DEF Allowed
<1>4. CASE ReadOnlyBlocked(c) \/ Setting(c) \/ DisarmMotion(c) \/ ExplicitHold(c)
           \/ ArmMotion(c) \/ Freedrive(c) \/ MotionOrHold(c)
  BY <1>3, <1>4, Zenon DEF Quiet, Relabels, ReadOnlyBlocked, Setting, DisarmMotion, ExplicitHold, ArmMotion,
                    Freedrive, MotionOrHold, setMotionState, faultVars
<1>5. CASE EmergencyStop(c)
  <2>1. /\ latchWith([verdict |-> "EmergencyStop", domain |-> "Emergency"], armed)
        /\ sends' = sends
    BY <1>5, Zenon DEF EmergencyStop, latchFault
  <2> QED BY <2>1, <1>3, LatchKinds, Zenon DEF Quiet, NewLatch, Relabels
<1>6. CASE ResetFault(c)
  BY <1>3, <1>6, Zenon DEF ResetFault, clearFaultLatch, setMotionState, Quiet, Relabels, Cleared, faultVars
<1> QED BY <1>1, <1>4, <1>5, <1>6, Zenon

(* Every step of the loop is of one of the kinds. *)
LEMMA LifecycleStepKinds ==
    ASSUME [LifecycleNext]_lifecycleVars
    PROVE  \/ Quiet \/ NewLatch \/ Cleared \/ FaultRamp
           \/ config.sendAtTop /\ Top /\ Sending(staged)
           \/ ~config.sendAtTop /\ StageOrSend /\ Sending(target)
<1>1. CASE Top
  BY <1>1, BrakeTicksAssumption DEF Top, Allowed, Quiet, Relabels, Sending, faultVars, wireVars
<1>2. CASE ReadStates
  BY <1>2, BrakeTicksAssumption DEF ReadStates, Allowed, Quiet, Relabels, faultVars, wireVars
<1>3. CASE AsyncSupervisionFault
  <2>1. /\ latchWith([verdict |-> "SendFailure", domain |-> "Backend"], armed)
        /\ sends' = sends
    BY <1>3, Zenon DEF AsyncSupervisionFault, latchFault, wireVars
  <2>2. Allowed' >= Allowed /\ Allowed' >= BrakeTicks
    BY <1>3, BrakeTicksAssumption DEF AsyncSupervisionFault, Allowed
  <2> QED BY <2>1, <2>2, LatchKinds, Zenon DEF Quiet, NewLatch, Relabels
<1>4. CASE HandleCommand
  BY <1>4, CommandKinds, Zenon
<1>5. CASE Gates
  <2>1. \/ UNCHANGED faultVars
        \/ latchWith([verdict |-> "RobotStateError", domain |-> "SafetyPolicy"], armed)
    BY <1>5, Zenon DEF Gates, latchFault
  <2>2. Allowed' >= Allowed /\ Allowed' >= BrakeTicks /\ sends' = sends
    BY <1>5, BrakeTicksAssumption DEF Gates, Allowed
  <2> QED BY <2>1, <2>2, LatchKinds, Zenon DEF Quiet, NewLatch, Relabels, faultVars
<1>6. CASE SelectTarget
  <2>1. Allowed' >= Allowed /\ Allowed' >= BrakeTicks /\ sends' = sends
    BY <1>6, BrakeTicksAssumption DEF SelectTarget, Allowed, wireVars
  <2>2. CASE BadStateTarget
    <3>1. UNCHANGED faultVars \/ latchWith(readFault, armed)
      BY <2>2, Zenon DEF BadStateTarget, latchFault
    <3> QED BY <3>1, <2>1, LatchKinds, Zenon DEF Quiet, NewLatch, Relabels, faultVars
  <2>3. CASE HoldTarget
    BY <2>1, <2>3, Zenon DEF HoldTarget, Quiet, Relabels, faultVars
  <2>4. CASE ComputeTarget
    <3>1. ~latched
      BY <2>4, Zenon DEF ComputeTarget
    <3>2. \/ setMotionState(IF wants = "motion" THEN "Running" ELSE motion)
          \/ setMotionState(IF wants = "motion" THEN "ArmedHold" ELSE motion)
          \/ latchWith([verdict |-> "Software", domain |-> "SafetyPolicy"], armed')
      BY <2>4, Zenon DEF ComputeTarget
    <3>3. CASE latchWith([verdict |-> "Software", domain |-> "SafetyPolicy"], armed')
      BY <3>3, <2>1, LatchKinds, Zenon DEF Quiet, NewLatch, Relabels
    <3> QED BY <3>1, <3>2, <3>3, <2>1, Zenon DEF setMotionState, Quiet, Relabels
  <2> QED BY <1>6, <2>2, <2>3, <2>4, Zenon DEF SelectTarget
<1>7. CASE FaultRamp
  BY <1>7, Zenon
<1>8. CASE StageOrSend
  BY <1>8, BrakeTicksAssumption DEF StageOrSend, Allowed, Quiet, Relabels, Sending, faultVars
<1>9. CASE SendOutcome
  <2>1. Allowed' >= Allowed /\ Allowed' >= BrakeTicks /\ sends' = sends
    BY <1>9, BrakeTicksAssumption DEF SendOutcome, Allowed, wireVars
  <2>2. UNCHANGED faultVars \/ \E c : latchWith(c, armed)
    BY <1>9, Zenon DEF SendOutcome, latchFault
  <2> QED BY <2>1, <2>2, LatchKinds, Zenon DEF Quiet, NewLatch, Relabels, faultVars
<1>10. CASE UNCHANGED lifecycleVars
  BY <1>10, BrakeTicksAssumption DEF lifecycleVars, faultVars, wireVars, Allowed, Quiet, Relabels
<1> QED BY <1>1, <1>2, <1>3, <1>4, <1>5, <1>6, <1>7, <1>8, <1>9, <1>10, Zenon DEF LifecycleNext
-----------------------------------------------------------------------------
(* No command, fault or order of ticks makes a latched loop look armed     *)
(* (setMotionState, latchFault).                                           *)
THEOREM NeverArmedWhileLatched == LifecycleSpec => []LatchedIsNotArmed
<1>1. LifecycleInit => LatchedIsNotArmed
  BY Zenon DEF LifecycleInit, LatchedIsNotArmed
<1>2. LatchedIsNotArmed /\ [LifecycleNext]_lifecycleVars => LatchedIsNotArmed'
  <2> SUFFICES ASSUME LatchedIsNotArmed, [LifecycleNext]_lifecycleVars
               PROVE  LatchedIsNotArmed'
    BY Zenon
  <2>1. CASE Quiet
    BY <2>1, Zenon DEF Quiet, Relabels, LatchedIsNotArmed
  <2>2. CASE NewLatch
    BY <2>2, Zenon DEF NewLatch, LatchedIsNotArmed
  <2>3. CASE Cleared
    BY <2>3, Zenon DEF Cleared, LatchedIsNotArmed
  <2>4. CASE FaultRamp
    BY <2>4, Zenon DEF FaultRamp, LatchedIsNotArmed
  <2>5. CASE UNCHANGED faultVars
    BY <2>5, Zenon DEF faultVars, LatchedIsNotArmed
  <2> QED BY <2>1, <2>2, <2>3, <2>4, <2>5, LifecycleStepKinds, Zenon DEF Sending
<1> QED BY <1>1, <1>2, PTL DEF LifecycleSpec
-----------------------------------------------------------------------------
(* An emergency latch has no brake. *)
EmergencyInv == cause.verdict = "EmergencyStop" => latched /\ ~brake

(* EmergencyInv is inductive. *)
LEMMA EmergencyInvAlways == LifecycleSpec => []EmergencyInv
<1>1. LifecycleInit => EmergencyInv
  BY DEF LifecycleInit, EmergencyInv, NoFault
<1>2. EmergencyInv /\ [LifecycleNext]_lifecycleVars => EmergencyInv'
  <2> SUFFICES ASSUME EmergencyInv, [LifecycleNext]_lifecycleVars
               PROVE  EmergencyInv'
    BY Zenon
  <2>1. CASE Quiet
    BY <2>1, Zenon DEF Quiet, EmergencyInv
  <2>2. CASE NewLatch
    BY <2>2, Zenon DEF NewLatch, EmergencyInv, faultBrakeEligible
  <2>3. CASE Cleared
    BY <2>3, Zenon DEF Cleared, EmergencyInv, NoFault
  <2>4. CASE FaultRamp
    BY <2>4, Zenon DEF FaultRamp, EmergencyInv
  <2>5. CASE UNCHANGED faultVars
    BY <2>5, Zenon DEF faultVars, EmergencyInv
  <2> QED BY <2>1, <2>2, <2>3, <2>4, <2>5, LifecycleStepKinds, Zenon DEF Sending
<1> QED BY <1>1, <1>2, PTL DEF LifecycleSpec

(* After an EmergencyStop nothing is delivered until a reset, whatever     *)
(* relabels the motion state in between (currentSendPolicy).               *)
THEOREM EmergencyStopIsSilent == LifecycleSpec => EmergencyIsSilent
<1>1. EmergencyInv /\ [LifecycleNext]_lifecycleVars => (Delivers => cause.verdict # "EmergencyStop")
  <2> SUFFICES ASSUME EmergencyInv, [LifecycleNext]_lifecycleVars, Delivers, cause.verdict = "EmergencyStop"
               PROVE  FALSE
    BY Zenon
  <2>1. ~sendPolicyDelivers
    BY Zenon DEF EmergencyInv, sendPolicyDelivers, currentSendPolicy
  <2>2. CASE config.sendAtTop
    <3>1. Top
      BY <2>2, ZenonT(30) DEF Delivers, LifecycleNext, Top, ReadStates, AsyncSupervisionFault, HandleCommand, Gates,
                  SelectTarget, FaultRamp, StageOrSend, SendOutcome, lifecycleVars, ReadOnlyBlocked,
                  EmergencyStop, ResetFault, Setting, DisarmMotion, ExplicitHold, ArmMotion,
                  Freedrive, MotionOrHold, dispatched
    <3> QED BY <2>1, <2>2, <3>1, Zenon DEF Top, sendTargets, Delivers
  <2>3. CASE ~config.sendAtTop
    <3>1. StageOrSend
      BY <2>3, Zenon DEF Delivers, LifecycleNext, Top, ReadStates, AsyncSupervisionFault, HandleCommand, Gates,
                  SelectTarget, FaultRamp, StageOrSend, SendOutcome, lifecycleVars, ReadOnlyBlocked,
                  EmergencyStop, ResetFault, Setting, DisarmMotion, ExplicitHold, ArmMotion,
                  Freedrive, MotionOrHold, dispatched
    <3> QED BY <2>1, <2>3, <3>1, Zenon DEF StageOrSend, sendTargets, Delivers
  <2> QED BY <2>2, <2>3, Zenon
<1> QED BY <1>1, EmergencyInvAlways, PTL DEF LifecycleSpec, EmergencyIsSilent
-----------------------------------------------------------------------------
(* The inductive invariant behind the refinement: a brake's sends and its  *)
(* remaining ticks stay within what is allowed at this point of the tick.  *)
BrakeInv ==
    /\ sends \in Nat /\ brakeLeft \in Nat
    /\ ~latched => sends = 0
    /\ latched /\ brake => motion # "EmergencyLatched" /\ sends + brakeLeft <= Allowed

(* Allowed is a number that leaves room for one more target. *)
LEMMA AllowedBound == Allowed \in Int /\ Allowed <= BrakeTicks + 1
BY BrakeTicksAssumption DEF Allowed

(* Before a dispatch there is room for the target it may send. *)
LEMMA SendBound ==
    ASSUME Allowed' = Allowed + 1
    PROVE  Allowed <= BrakeTicks
BY BrakeTicksAssumption DEF Allowed

(* Under a latch the send policy delivers only while the brake is on. *)
LEMMA SendingFacts ==
    ASSUME NEW kind, Sending(kind)
    PROVE  \/ sends' = sends
           \/ latched /\ brake /\ sends' = sends + 1
BY Zenon DEF Sending, sendTargets, sendPolicyDelivers, currentSendPolicy

(* What the ramp does to the deadline. *)
LEMMA RampFacts ==
    ASSUME FaultRamp, BrakeInv
    PROVE  /\ Allowed' = Allowed - 1
           /\ UNCHANGED <<latched, motion, sends>>
           /\ latched' /\ brake' => brake /\ brakeLeft > 0 /\ brakeLeft' = brakeLeft - 1
           /\ brakeLeft' \in Nat
<1>1. Allowed' = Allowed - 1
  BY BrakeTicksAssumption DEF FaultRamp, Allowed
<1>2. UNCHANGED <<latched, motion, sends>>
  BY Zenon DEF FaultRamp, wireVars
<1>3. brakeLeft \in Nat /\ (latched /\ brake => motion # "EmergencyLatched")
  BY Zenon DEF BrakeInv
<1>4. CASE latched /\ motion # "EmergencyLatched"
  <2>1. /\ brake' => brake /\ brakeLeft > 0
        /\ brakeLeft' = IF brakeLeft > 0 THEN brakeLeft - 1 ELSE 0
    BY <1>4, Zenon DEF FaultRamp
  <2> QED BY <1>1, <1>2, <1>3, <2>1
<1>5. CASE ~(latched /\ motion # "EmergencyLatched")
  <2>1. brake' = brake /\ brakeLeft' = brakeLeft
    BY <1>5, Zenon DEF FaultRamp
  <2>2. ~(latched' /\ brake')
    BY <1>2, <1>3, <1>5, <2>1, Zenon
  <2> QED BY <1>1, <1>2, <1>3, <2>1, <2>2, Zenon
<1> QED BY <1>4, <1>5, Zenon

(* A sum of naturals, for the first tick of a brake. *)
LEMMA NothingSent ==
    ASSUME NEW s \in Nat, s = 0, NEW b \in Nat, NEW a \in Int, b <= a
    PROVE  s + b <= a
OBVIOUS

(* Every step preserves BrakeInv. *)
LEMMA BrakeInvStep ==
    ASSUME BrakeInv, [LifecycleNext]_lifecycleVars
    PROVE  BrakeInv'
<1> USE AllowedBound, BrakeTicksAssumption
<1>0. Allowed' \in Int
  BY DEF Allowed
<1>1. CASE Quiet
  BY <1>0, <1>1 DEF Quiet, Relabels, BrakeInv
<1>2. CASE NewLatch
  <2>1. brake' => motion' # "EmergencyLatched"
    BY <1>2, Zenon DEF NewLatch, faultBrakeEligible
  <2>2. brakeLeft' \in Nat /\ brakeLeft' <= BrakeTicks
    BY <1>2 DEF NewLatch
  <2>3. sends' \in Nat /\ sends' = 0 /\ Allowed' >= BrakeTicks
    BY <1>2, Zenon DEF NewLatch, BrakeInv
  <2>4. latched'
    BY <1>2, Zenon DEF NewLatch
  <2>5. sends' + brakeLeft' <= Allowed' /\ sends' \in Nat
    <3>1. brakeLeft' <= Allowed'
      BY <1>0, <2>2, <2>3
    <3> QED BY <1>0, <2>2, <2>3, <3>1, NothingSent, Zenon
  <2> QED BY <2>1, <2>2, <2>4, <2>5, Zenon DEF BrakeInv
<1>3. CASE Cleared
  BY <1>3, Zenon DEF Cleared, BrakeInv
<1>4. CASE FaultRamp
  BY <1>0, <1>4, RampFacts DEF BrakeInv
<1>5. ASSUME NEW kind, Sending(kind)
      PROVE  BrakeInv'
  <2>1. UNCHANGED <<motion, latched, brake, brakeLeft>> /\ Allowed' = Allowed + 1
    BY <1>5, Zenon DEF Sending, faultVars
  <2> QED BY <1>0, <1>5, <2>1, SendingFacts DEF BrakeInv
<1> QED BY <1>1, <1>2, <1>3, <1>4, <1>5, LifecycleStepKinds, Zenon

(* The loop implements ServoLatch for every brake deadline: after any      *)
(* fault at most BrakeTicks + 1 targets reach the wire, then none until a  *)
(* reset.                                                                  *)
THEOREM LoopImplementsLatch == LifecycleSpec => ImplementsServoLatch
<1>1. LifecycleInit => L!LatchInit
  BY Zenon DEF LifecycleInit, L!LatchInit
<1>2. LifecycleInit => BrakeInv
  BY BrakeTicksAssumption DEF LifecycleInit, BrakeInv
<1>3. BrakeInv /\ [LifecycleNext]_lifecycleVars => BrakeInv'
  BY BrakeInvStep, Zenon
<1>4. BrakeInv /\ [LifecycleNext]_lifecycleVars => [L!LatchNext]_(L!latchVars)
  <2> SUFFICES ASSUME BrakeInv, [LifecycleNext]_lifecycleVars
               PROVE  [L!LatchNext]_(L!latchVars)
    BY Zenon
  <2>1. CASE Quiet
    BY <2>1, Zenon DEF Quiet, L!latchVars
  <2>2. CASE NewLatch
    <3>1. L!Latch
      BY <2>2, Zenon DEF NewLatch, BrakeInv, L!Latch
    <3> QED BY <3>1, Zenon DEF L!LatchNext
  <2>3. CASE Cleared
    <3>1. L!Reset
      BY <2>3, Zenon DEF Cleared, L!Reset
    <3> QED BY <3>1, Zenon DEF L!LatchNext
  <2>4. CASE FaultRamp
    <3>1. L!Silence \/ UNCHANGED L!latchVars
      BY <2>4, RampFacts DEF L!Silence, L!latchVars
    <3> QED BY <3>1, Zenon DEF L!LatchNext
  <2>5. ASSUME NEW kind, Sending(kind)
        PROVE  [L!LatchNext]_(L!latchVars)
    <3>1. UNCHANGED <<latched, brake>> /\ Allowed <= BrakeTicks
      BY <2>5, SendBound, Zenon DEF Sending, faultVars
    <3>2. CASE sends' = sends
      BY <3>1, <3>2, Zenon DEF L!latchVars
    <3>3. CASE latched /\ brake /\ sends' = sends + 1
      <4>1. sends < BrakeTicks + 1
        BY <3>1, <3>3, BrakeTicksAssumption, AllowedBound DEF BrakeInv
      <4>2. L!Brake
        BY <3>1, <3>3, <4>1, Zenon DEF L!Brake
      <4> QED BY <4>2, Zenon DEF L!LatchNext
    <3> QED BY <2>5, <3>2, <3>3, SendingFacts, Zenon
  <2> QED BY <2>1, <2>2, <2>3, <2>4, <2>5, LifecycleStepKinds, Zenon
<1> QED BY <1>1, <1>2, <1>3, <1>4, PTL DEF LifecycleSpec, ImplementsServoLatch, L!LatchSpec
=============================================================================
