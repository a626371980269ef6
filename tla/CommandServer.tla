---------------------------- MODULE CommandServer ----------------------------
(***************************************************************************)
(* rb_servo_server/src/network/command_server.cpp: one thread receives UDP *)
(* packets from several clients, arbitrates the command-source lease and   *)
(* the per-source sequence number, and stores what it accepts in the       *)
(* command buffer; the servo loop reads the buffer concurrently.  Packets  *)
(* are arbitrary members of a set, so any loss, duplication or reordering  *)
(* by the network is covered.  A malformed packet changes nothing and is   *)
(* left out; so are source priorities and the allowlist of addresses.      *)
(***************************************************************************)
EXTENDS CommandBuffer

CONSTANTS
    Sources,         \* (source_id, session_id) pairs
    NoSource,        \* the empty pair of a default lease
    EnforceLease,    \* command_source.enforce_lease
    LeaseTimeout,    \* command_source.lease_timeout_sec
    CommandTimeout,  \* timeout_sec of the packets
    MaxSeq,          \* largest packet sequence number
    MaxToken,        \* largest lease token a packet names
    Packets          \* the packets clients send

ASSUME SourceAssumption == NoSource \notin Sources
ASSUME EnforceAssumption == EnforceLease \in BOOLEAN
ASSUME LeaseTimeoutAssumption == LeaseTimeout \in Nat
ASSUME CommandTimeoutAssumption == CommandTimeout \in Nat \ {0}
ASSUME SeqTokenAssumption == MaxSeq \in Nat /\ MaxToken \in Nat

VARIABLES
    lease,     \* active_lease_
    lastSeq,   \* last_accepted_seq_by_source_; 0 when the source is unknown
    counter,   \* lease_counter_
    stamp,     \* receive time of a box packet still to be noted, 0 for none
    origin     \* history: the accepted packets; origin[i] is the one with id i

leaseVars == <<lease, lastSeq, counter, origin>>
serverVars == <<leaseVars, stamp>>
allVars == <<vars, serverVars>>

(* Token 0 is the empty token.  Acquire and Release packets are            *)
(* lease-admin packets; the arms of one hold.                              *)
Packet ==
    [src: Sources, seq: 1..MaxSeq, token: 0..MaxToken, kind: {"command"},
     modes: ModePairs]
    \cup
    [src: Sources, seq: 1..MaxSeq, token: 0..MaxToken, kind: {"acquire", "release"},
     modes: {<<"Hold", "Hold">>}]

ASSUME PacketAssumption == Packets \subseteq Packet

LeaseState ==
    [active: BOOLEAN, src: Sources \cup {NoSource}, token: Nat, acquired: Nat, expires: Nat]

DefaultLease == [active |-> FALSE, src |-> NoSource, token |-> 0, acquired |-> 0, expires |-> 0]

LeasedModes ==
    {"ArmMotion", "DisarmMotion", "JointTarget", "TcpPoseTarget", "TcpLinearMove",
     "ResetFault", "Freedrive"}

(* A lease past its expiry time is reported inactive but keeps its owner   *)
(* and token.                                                              *)
currentLeaseState ==
    IF lease.active /\ lease.expires > 0 /\ now > lease.expires
    THEN [lease EXCEPT !.active = FALSE] ELSE lease

modesOf(p) == {p.modes[1], p.modes[2]}

isEmergencyStop(p) == "EmergencyStop" \in modesOf(p)

ownsLease(p) == currentLeaseState.active /\ currentLeaseState.src = p.src

tokenMatches(p) ==
    p.token = 0 \/ (currentLeaseState.active /\ p.token = currentLeaseState.token)

requestsLease(p) == p.kind = "acquire" \/ "ArmMotion" \in modesOf(p)

requiresLease(p) == ~isEmergencyStop(p) /\ modesOf(p) \cap LeasedModes # {}

(* Faulty variants of the lease check: an expired lease still authorises   *)
(* its owner; a request does not look at the present holder.               *)
passesLeaseCheckExpired(p) ==
    (EnforceLease /\ ~isEmergencyStop(p)) =>
        /\ requestsLease(p) => ~(currentLeaseState.active /\ ~ownsLease(p))
        /\ (requiresLease(p) /\ ~requestsLease(p)) => lease.src = p.src

passesLeaseCheckConflict(p) ==
    (EnforceLease /\ ~isEmergencyStop(p)) =>
        /\ ownsLease(p) => tokenMatches(p)
        /\ (requiresLease(p) /\ ~requestsLease(p)) => (ownsLease(p) /\ tokenMatches(p))

(* The lease checks of parseMessage.                                       *)
passesLeaseCheck(p) ==
    (EnforceLease /\ ~isEmergencyStop(p)) =>
        /\ ownsLease(p) => tokenMatches(p)
        /\ requestsLease(p) => ~(currentLeaseState.active /\ ~ownsLease(p))
        /\ (requiresLease(p) /\ ~requestsLease(p)) => (ownsLease(p) /\ tokenMatches(p))

(* Duplicates and reordered packets of a source are dropped.               *)
isFreshSeqOrEqual(p) == p.seq >= lastSeq[p.src]

isFreshSeq(p) == p.seq > lastSeq[p.src]

(* The lease after a grant or a renewal; an owner that renews without      *)
(* naming its token keeps it, even across an expiry.                       *)
keepsToken(p) == currentLeaseState.token # 0 /\ currentLeaseState.src = p.src

grantedLease(p) ==
    [active |-> TRUE, src |-> p.src,
     token |-> IF p.token # 0 THEN p.token
               ELSE IF keepsToken(p) THEN currentLeaseState.token
               ELSE counter + 1,
     acquired |-> IF lease.acquired = 0 \/ ~ownsLease(p) THEN now ELSE lease.acquired,
     expires |-> now + LeaseTimeout]

renewsLease(p) == requestsLease(p) \/ (requiresLease(p) /\ ownsLease(p) /\ tokenMatches(p))
-----------------------------------------------------------------------------
(* Bookkeeping of an accepted packet. *)
accept(p) ==
    /\ isFreshSeq(p)
    /\ lastSeq' = [lastSeq EXCEPT ![p.src] = p.seq]
    /\ origin' = Append(origin, p)
    /\ nextId' = nextId + 1
    /\ stamp' = IF "SetExternalBoxes" \in modesOf(p) THEN now ELSE 0
    /\ UNCHANGED now

(* ReleaseLease: the owner gives the lease up; with no active lease it is  *)
(* an accepted no-op.                                                      *)
ReleaseLease(p) ==
    /\ p.kind = "release"
    /\ passesLeaseCheck(p)
    /\ ~(currentLeaseState.active /\ ~ownsLease(p))
    /\ lease' = DefaultLease
    /\ updateLease(DefaultLease)
    /\ UNCHANGED counter
    /\ accept(p)

(* A new token is generated exactly when none is provided or kept.         *)
grantLease(p) ==
    /\ lease' = grantedLease(p)
    /\ counter' = IF p.token = 0 /\ ~keepsToken(p) THEN counter + 1 ELSE counter

AcquireLease(p) ==
    /\ p.kind = "acquire"
    /\ passesLeaseCheck(p)
    /\ grantLease(p)
    /\ updateLease(grantedLease(p))
    /\ accept(p)

commandOf(p, l) ==
    [id |-> nextId, left |-> p.modes[1], right |-> p.modes[2], host |-> now,
     timeout |-> CommandTimeout, lease |-> l]

StoreCommand(p) ==
    /\ p.kind = "command"
    /\ passesLeaseCheck(p)
    /\ \/ /\ renewsLease(p)
          /\ grantLease(p)
          /\ setCommand(commandOf(p, grantedLease(p)))
       \/ /\ ~renewsLease(p)
          /\ setCommand(commandOf(p, currentLeaseState))
          /\ UNCHANGED <<lease, counter>>
    /\ accept(p)

(* One datagram accepted by the receive thread; after one with external    *)
(* boxes the thread takes the buffer's mutex again to note the time.       *)
Receive ==
    /\ stamp = 0
    /\ \E p \in Packets : ReleaseLease(p) \/ AcquireLease(p) \/ StoreCommand(p)

NoteReceived ==
    /\ stamp # 0
    /\ noteExternalBoxReceived(stamp)
    /\ stamp' = 0
    /\ UNCHANGED <<now, nextId, leaseVars>>

(* The servo loop's read; what it returns is published with the state.     *)
LoopRead == LatestOrHold /\ UNCHANGED serverVars

LoopBoxes == ConsumeBoxes /\ UNCHANGED serverVars

ServerAdvance == Advance /\ UNCHANGED serverVars

ServerInit ==
    /\ Init
    /\ lease = DefaultLease
    /\ lastSeq = [s \in Sources |-> 0]
    /\ counter = 0
    /\ stamp = 0
    /\ origin = <<>>

ServerNext == Receive \/ NoteReceived \/ LoopRead \/ LoopBoxes \/ ServerAdvance

ServerSpec == ServerInit /\ [][ServerNext]_allVars
-----------------------------------------------------------------------------
ServerTypeOK ==
    /\ TypeOK
    /\ lease \in LeaseState
    /\ lastSeq \in [Sources -> Nat]
    /\ counter \in Nat
    /\ stamp \in Nat
    /\ origin \in Seq(Packet)
    /\ nextId = Len(origin) + 1

(* Replayed, duplicated or reordered datagrams: of one source the server   *)
(* accepts an ever-growing sequence, whatever the interleaving with others *)
(* (last_accepted_seq_by_source_).                                         *)
AcceptedInSequence ==
    \A i, j \in 1..Len(origin) :
        (i < j /\ origin[i].src = origin[j].src) => origin[i].seq < origin[j].seq

(* While a client holds an unexpired lease, no packet of another client    *)
(* takes it away, clears it or changes its token: it waits for the release *)
(* or the expiry.  A packet that also carries an EmergencyStop is exempt   *)
(* from the lease checks and from this property.                           *)
LeaseOnlyMovesFromHolder ==
    [][(EnforceLease /\ currentLeaseState.active /\ lease' # lease) =>
          LET p == origin'[Len(origin')] IN p.src = lease.src \/ isEmergencyStop(p)]_allVars

(* A command that needs the lease is stored only while its sender holds an *)
(* unexpired lease or is being granted a free one.                         *)
LeasedTargetNeedsLease ==
    [][(EnforceLease /\ Len(origin') > Len(origin)) =>
          LET p == origin'[Len(origin')] IN
          (p.kind = "command" /\ requiresLease(p)) =>
              /\ lease'.active /\ lease'.src = p.src
              /\ ownsLease(p) \/ (~currentLeaseState.active /\ requestsLease(p))]_allVars
=============================================================================
