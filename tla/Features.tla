------------------------------ MODULE Features ------------------------------
(***************************************************************************)
(* The three reference features that keep state, on one node: commands,    *)
(* button notifications and the features' loop() run on one thread, to     *)
(* completion each, while the receiver and the battery go their own way.   *)
(***************************************************************************)
EXTENDS BatteryFeature, GpsFeature, ButtonFeature

nodeVars == <<vars, gpsVars, buttonVars>>

\* The thread is in none of the features.
ThreadIdle == GpsIdle /\ open = <<>>

NodeInit == Init /\ GpsInit /\ ButtonInit

BatteryActs ==
  /\ \/ Sense
     \/ ThreadIdle /\ ((\E v \in Thresholds : SetLowThresholdVolts(v)) \/ Loop)
  /\ UNCHANGED <<gpsVars, buttonVars>>

GpsActs ==
  /\ \/ Receive
     \/ ThreadIdle /\ (AppAcquires \/ \E c \in Commands : GpsCommand(c))
     \/ GpsStep
  /\ UNCHANGED <<vars, buttonVars>>

ButtonActs ==
  /\ GpsIdle
  /\ ButtonNext
  /\ UNCHANGED <<vars, gpsVars>>

NodeNext == BatteryActs \/ GpsActs \/ ButtonActs

NodeSpec == NodeInit /\ [][NodeNext]_nodeVars

\* The thread goes on with what it has begun, and McRpc::loop has its turn among
\* the commands and notifications again and again.
NodeFairSpec ==
  /\ NodeSpec
  /\ WF_nodeVars((GpsStep \/ ButtonStep) /\ NodeNext)
  /\ SF_nodeVars(ThreadIdle /\ Loop /\ UNCHANGED <<gpsVars, buttonVars>>)

NodeTypeOK == TypeOK /\ GpsTypeOK /\ ButtonTypeOK
=============================================================================
