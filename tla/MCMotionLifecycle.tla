-------------------------- MODULE MCMotionLifecycle --------------------------
(* Every mode on both arms, the mixed packets whose branches compete, and  *)
(* the configurations that differ in control flow.                         *)
EXTENDS MotionLifecycle

MCCommands ==
    {<<m, m>> : m \in CommandModes}
    \cup {<<"EmergencyStop", "ResetFault">>, <<"EmergencyStop", "Motion">>,
          <<"DisarmMotion", "Motion">>, <<"Hold", "Motion">>}

MCConfigs ==
    {[sendAtTop |-> top, readOnly |-> FALSE, strict |-> strict] :
        top \in BOOLEAN, strict \in BOOLEAN}
    \cup {[sendAtTop |-> TRUE, readOnly |-> TRUE, strict |-> TRUE]}
=============================================================================
