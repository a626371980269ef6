--------------------------- MODULE MCCommandServer ---------------------------
(* Two clients contending for the lease, a handful of packets each.        *)
EXTENDS CommandServer, TLC

CONSTANTS MaxAccepted, MaxTime

MCModePairs == {<<"JointTarget", "JointTarget">>, <<"ArmMotion", "ArmMotion">>,
                <<"EmergencyStop", "ArmMotion">>, <<"Hold", "Hold">>,
                <<"SetExternalBoxes", "SetExternalBoxes">>}

(* Only a target and a release name a token. *)
MCPackets ==
    {p \in Packet : p.token = 0 \/ p.kind = "release" \/ "JointTarget" \in modesOf(p)}

MCTimeouts == {1}

MCNoLease == DefaultLease

MCLeases == LeaseState

(* The clients are interchangeable: the server compares them for equality only. *)
SourceSymmetry == Permutations(Sources)

ServerBound == Len(origin) <= MaxAccepted /\ now <= MaxTime
=============================================================================
