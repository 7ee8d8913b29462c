--------------------------- MODULE FeaturesProofs ---------------------------
(***************************************************************************)
(* Proofs about the features of one node, for every number of subscribers, *)
(* of presses and of notifications inside one another, and for every set   *)
(* of voltages and thresholds.                                             *)
(***************************************************************************)
EXTENDS Features, TLAPS

-----------------------------------------------------------------------------
(* The battery: alarms are about a low battery, and two alarms are never   *)
(* without a recovery between them.                                        *)

\* The variables keep their types, whatever the host reads and the application
\* sets.
THEOREM TypeCorrect == Spec => []TypeOK
<1>1. Init => TypeOK
  BY BatteryAssumption DEF Init, TypeOK
<1>2. TypeOK /\ [Next]_vars => TypeOK'
  <2> SUFFICES ASSUME TypeOK, [Next]_vars PROVE TypeOK'
    OBVIOUS
  <2> USE DEF TypeOK
  <2>1. CASE Sense BY <2>1 DEF Sense
  <2>2. ASSUME NEW v \in Thresholds, SetLowThresholdVolts(v) PROVE TypeOK'
    BY <2>2 DEF SetLowThresholdVolts
  <2>3. CASE Loop
    <3>1. low_latched' \in BOOLEAN /\ taken' \in BOOLEAN /\ event' \in Volts \cup {NoEvent}
      BY <2>3 DEF Loop, Alarm, Rearm, Quiet
    <3>2. recovered' \in BOOLEAN
      BY <2>3 DEF Loop, Alarm
    <3> QED BY <2>3, <3>1, <3>2 DEF Loop
  <2>4. CASE UNCHANGED vars BY <2>4 DEF vars
  <2> QED BY <2>1, <2>2, <2>3, <2>4 DEF Next
<1> QED BY <1>1, <1>2, PTL DEF Spec

\* A battery.low is about a battery that is there and below the threshold in force.
THEOREM Alarms == Spec => []AlarmsAreLow
<1>1. Init => AlarmsAreLow
  BY DEF Init, AlarmsAreLow
<1>2. AlarmsAreLow /\ [Next]_vars => AlarmsAreLow'
  <2> SUFFICES ASSUME AlarmsAreLow, [Next]_vars PROVE AlarmsAreLow'
    OBVIOUS
  <2> USE DEF AlarmsAreLow
  <2>1. CASE Sense BY <2>1 DEF Sense
  <2>2. ASSUME NEW v \in Thresholds, SetLowThresholdVolts(v) PROVE AlarmsAreLow'
    BY <2>2 DEF SetLowThresholdVolts
  <2>3. CASE Loop
    BY <2>3 DEF Loop, Alarm, Rearm, Quiet, IsLow
  <2>4. CASE UNCHANGED vars BY <2>4 DEF vars
  <2> QED BY <2>1, <2>2, <2>3, <2>4 DEF Next
<1> QED BY <1>1, <1>2, PTL DEF Spec

-----------------------------------------------------------------------------
\* What makes one alarm per drop inductive: a feature that is not latched has
\* seen a recovery since its last alarm.
RecoveredUnlessLatched == low_latched \/ recovered

LEMMA RecoveredUnlessLatchedStep ==
  RecoveredUnlessLatched /\ [Next]_vars => RecoveredUnlessLatched'
<1> SUFFICES ASSUME RecoveredUnlessLatched, [Next]_vars PROVE RecoveredUnlessLatched'
  OBVIOUS
<1> USE DEF RecoveredUnlessLatched
<1>1. CASE Sense BY <1>1 DEF Sense
<1>2. ASSUME NEW v \in Thresholds, SetLowThresholdVolts(v) PROVE RecoveredUnlessLatched'
  BY <1>2 DEF SetLowThresholdVolts
<1>3. CASE Loop
  <2>1. CASE Alarm
    BY <2>1 DEF Alarm
  <2>2. CASE Rearm /\ reading # NoReading /\ HasRecovered(reading) /\ ~Alarm
    BY <1>3, <2>2 DEF Loop, HasRecovered
  <2>3. CASE Quiet /\ recovered' = (recovered \/ (reading # NoReading /\ reading >= low_v + Hysteresis))
    BY <2>3 DEF Quiet
  <2> QED BY <1>3, <2>1, <2>2, <2>3 DEF Loop
<1>4. CASE UNCHANGED vars BY <1>4 DEF vars
<1> QED BY <1>1, <1>2, <1>3, <1>4 DEF Next

\* Between two battery.low events a loop has seen a recovery, however the voltage
\* hovers and the threshold moves.
THEOREM OneAlarmPerDrop == Spec => RecoveryBetweenAlarms
<1>1. Init => RecoveredUnlessLatched
  BY DEF Init, RecoveredUnlessLatched
<1>2. RecoveredUnlessLatched /\ [Next]_vars => [event' # NoEvent => recovered]_vars
  <2> SUFFICES ASSUME RecoveredUnlessLatched, Next, event' # NoEvent PROVE recovered
    OBVIOUS
  <2>1. ~Sense BY DEF Sense
  <2>2. ASSUME NEW v \in Thresholds, SetLowThresholdVolts(v) PROVE FALSE
    BY <2>2 DEF SetLowThresholdVolts
  <2>3. Loop BY <2>1, <2>2 DEF Next
  <2>4. ~low_latched BY <2>3 DEF Loop, Rearm, Quiet
  <2> QED BY <2>4 DEF RecoveredUnlessLatched
<1> QED BY <1>1, <1>2, RecoveredUnlessLatchedStep, PTL DEF Spec, RecoveryBetweenAlarms

-----------------------------------------------------------------------------
(* The node.                                                               *)

\* What the three features do on one thread is what each of them does alone: a
\* step of the node is a step or a stutter of every feature.
THEOREM NodeImplementsFeatures == NodeSpec => Spec /\ GpsSpec /\ ButtonSpec
<1>1. NodeInit => Init /\ GpsInit /\ ButtonInit
  BY DEF NodeInit
<1>2. [NodeNext]_nodeVars => [Next]_vars
  BY DEF NodeNext, nodeVars, BatteryActs, GpsActs, ButtonActs, Next
<1>3. [NodeNext]_nodeVars => [GpsNext]_gpsVars
  BY DEF NodeNext, nodeVars, BatteryActs, GpsActs, ButtonActs, GpsNext
<1>4. [NodeNext]_nodeVars => [ButtonNext]_buttonVars
  BY DEF NodeNext, nodeVars, BatteryActs, GpsActs, ButtonActs, ButtonNext
<1> QED BY <1>1, <1>2, <1>3, <1>4, PTL DEF NodeSpec, Spec, GpsSpec, ButtonSpec

\* So the battery's theorems hold of the node: its alarms are separated by
\* recoveries whatever the thread does between two loops.
THEOREM NodeAlarms == NodeSpec => RecoveryBetweenAlarms
BY NodeImplementsFeatures, OneAlarmPerDrop, PTL

-----------------------------------------------------------------------------
(* The receiver.                                                           *)

\* What the looks have shown so far, and that only the thread of the commands
\* makes the receiver busy.
LooksShown ==
  /\ ~GpsIdle => Now(fix, busy) \in moments
  /\ answer # "none" => look = "reply"
  /\ GpsIdle => look = "reply" /\ answer = "none"
  /\ look = "busy" /\ command # "track" => Lacking
  /\ look = "request" => ~busy /\ WasIdle /\ command # "status" /\ (command = "gps" => Lacking)

GpsInv == GpsTypeOK /\ LooksShown /\ OneAcquisition /\ AnswerWasTrue

\* What has been witnessed stays so while moments are added.
LEMMA MomentsAdded ==
  ASSUME moments \subseteq moments'
  PROVE  (HadFix => HadFix') /\ (Lacking => Lacking') /\ (WasBusy => WasBusy') /\ (WasIdle => WasIdle')
BY DEF HadFix, Lacking, WasBusy, WasIdle

\* The present moment bears witness of itself.
LEMMA MomentBears ==
  ASSUME GpsTypeOK, Now(fix, busy) \in moments
  PROVE  IF fix = "valid" THEN HadFix ELSE Lacking
BY DEF Now, HadFix, Lacking

LEMMA MomentBearsBusy ==
  ASSUME GpsTypeOK, Now(fix, busy) \in moments
  PROVE  IF busy THEN WasBusy ELSE WasIdle
BY DEF Now, WasBusy, WasIdle

LEMMA MomentsTyped == ASSUME NEW f, NEW b \in BOOLEAN PROVE Now(f, b) \in Moment
BY DEF Now, Moment

LEMMA GpsTypeStep == GpsTypeOK /\ [GpsNext]_gpsVars => GpsTypeOK'
<1> SUFFICES ASSUME GpsTypeOK, [GpsNext]_gpsVars PROVE GpsTypeOK'
  OBVIOUS
<1>1. fix' \in Fixes /\ busy' \in BOOLEAN /\ overlapped' \in BOOLEAN
  BY DEF GpsTypeOK, GpsNext, GpsStep, gpsVars, Receive, AppAcquires, GpsCommand, ReadGps, GpsBusy,
         RequestGpsFix, GpsReturns, Fixes
<1>2. command' \in Commands \cup {"none"} /\ look' \in Looks /\ answer' \in Answers \cup {"none"}
  BY DEF GpsTypeOK, GpsNext, GpsStep, gpsVars, Receive, AppAcquires, GpsCommand, ReadGps, GpsBusy,
         RequestGpsFix, GpsReturns, Commands, Looks, Answers, FirstLook, Reply, LookNext
<1>3. moments' \subseteq Moment
  <2>1. Now(fix, busy) \in Moment /\ Now(fix', busy') \in Moment
    BY <1>1, MomentsTyped DEF GpsTypeOK
  <2> QED BY <2>1 DEF GpsTypeOK, GpsNext, GpsStep, gpsVars, Receive, AppAcquires, GpsCommand,
         ReadGps, GpsBusy, RequestGpsFix, GpsReturns, Witnessed
<1> QED BY <1>1, <1>2, <1>3 DEF GpsTypeOK

LEMMA GpsInvStep == GpsInv /\ [GpsNext]_gpsVars => GpsInv'
<1> SUFFICES ASSUME GpsInv, [GpsNext]_gpsVars PROVE (LooksShown /\ OneAcquisition /\ AnswerWasTrue)'
  BY GpsTypeStep DEF GpsInv
<1> USE DEF GpsInv, LooksShown, OneAcquisition, AnswerWasTrue, GpsIdle
<1>1. CASE Receive
  <2>1. CASE GpsIdle BY <1>1, <2>1 DEF Receive
  <2>2. CASE ~GpsIdle
    BY <1>1, <2>2, MomentsAdded DEF Receive, Witnessed
  <2> QED BY <2>1, <2>2
<1>2. CASE AppAcquires BY <1>2 DEF AppAcquires
<1>3. ASSUME NEW c \in Commands, GpsCommand(c) PROVE (LooksShown /\ OneAcquisition /\ AnswerWasTrue)'
  BY <1>3 DEF GpsCommand, FirstLook, Commands
<1>4. CASE ReadGps
  <2>1. ~GpsIdle BY <1>4 DEF ReadGps
  <2>2. IF fix = "valid" THEN HadFix ELSE Lacking BY <2>1, MomentBears
  <2>3. moments' = moments /\ (HadFix => HadFix') /\ (Lacking => Lacking')
    BY <1>4, MomentsAdded DEF ReadGps
  <2> QED BY <1>4, <2>1, <2>2, <2>3 DEF ReadGps, IsFix, Reply, LookNext
<1>5. CASE GpsBusy
  <2>1. ~GpsIdle BY <1>5 DEF GpsBusy
  <2>2. IF busy THEN WasBusy ELSE WasIdle BY <2>1, MomentBearsBusy
  <2>3. moments' = moments /\ (Lacking => Lacking') /\ (WasBusy => WasBusy') /\ (WasIdle => WasIdle')
    BY <1>5, MomentsAdded DEF GpsBusy
  <2> QED BY <1>5, <2>1, <2>2, <2>3 DEF GpsBusy, Reply, LookNext, GpsTypeOK, Commands
<1>6. CASE RequestGpsFix
  <2>1. ~GpsIdle /\ ~busy /\ WasIdle /\ command # "status" /\ (command = "gps" => Lacking)
    BY <1>6 DEF RequestGpsFix
  <2>2. moments' = moments \cup {Now(fix', busy')} /\ command' = command
    BY <1>6, <2>1 DEF RequestGpsFix, Witnessed
  <2>3. WasIdle' /\ (Lacking => Lacking')
    BY <2>1, <2>2, MomentsAdded
  <2> QED BY <1>6, <2>1, <2>2, <2>3 DEF RequestGpsFix, Reply, GpsTypeOK, Commands
<1>7. CASE GpsReturns BY <1>7 DEF GpsReturns
<1>8. CASE UNCHANGED gpsVars
  BY <1>8, MomentsAdded DEF gpsVars
<1> QED BY <1>1, <1>2, <1>3, <1>4, <1>5, <1>6, <1>7, <1>8 DEF GpsNext, GpsStep

LEMMA GpsAlways == NodeSpec => []GpsInv
<1>1. GpsInit => GpsInv
  BY DEF GpsInit, GpsInv, GpsTypeOK, LooksShown, OneAcquisition, AnswerWasTrue, GpsIdle, Fixes,
         Commands, Looks, Answers, Moment
<1> QED BY <1>1, GpsInvStep, NodeImplementsFeatures, PTL DEF GpsSpec

\* Commands never start an acquisition while another one runs.
THEOREM AcquisitionsApart == NodeSpec => []OneAcquisition
BY GpsAlways, PTL DEF GpsInv

\* Every answer about the receiver was true while its command ran, but for the
\* exception AnswerWasTrue names.
THEOREM AnswersTrue == NodeSpec => []AnswerWasTrue
BY GpsAlways, PTL DEF GpsInv
-----------------------------------------------------------------------------
(* The button.                                                             *)

LEMMA ButtonTypeStep == ButtonTypeOK /\ [ButtonNext]_buttonVars => ButtonTypeOK'
<1> SUFFICES ASSUME ButtonTypeOK, [ButtonNext]_buttonVars PROVE ButtonTypeOK'
  OBVIOUS
<1> USE ButtonAssumption DEF ButtonTypeOK
<1>0. ASSUME NEW k \in Kinds, NEW c \in Nat, Begins(k, c)
      PROVE  open' \in Seq(Frame) /\ heard' = heard /\ edge' \in [kind : Kinds, inside : BOOLEAN]
  <2>1. [kind |-> k, count |-> c, next |-> 1] \in Frame BY DEF Frame
  <2> QED BY <1>0, <2>1 DEF Begins
<1>1. CASE NotifyPressed BY <1>1, <1>0 DEF NotifyPressed, Kinds
<1>2. CASE NotifyDown BY <1>2, <1>0 DEF NotifyDown, Kinds
<1>3. CASE NotifyUp
  <2>1. press_count' \in 0 .. MaxPresses /\ press_count' \in Nat
    <3>1. press_count \in Nat /\ press_count < MaxPresses /\ press_count' = press_count + 1
      BY <1>3 DEF NotifyUp
    <3> QED BY <3>1
  <2>2. Begins("up", press_count') /\ "up" \in Kinds BY <1>3 DEF NotifyUp, Kinds
  <2>3. pressed' \in BOOLEAN BY <1>3 DEF NotifyUp
  <2> QED BY <2>1, <2>2, <2>3, <1>0
<1>4. CASE Tell
  <2>1. Innermost \in Frame /\ Len(open) \in 1 .. Len(open)
    BY <1>4 DEF Tell, Innermost
  <2>2. [Innermost EXCEPT !.next = @ + 1] \in Frame
    <3>1. Innermost.next + 1 \in Nat BY <2>1 DEF Frame
    <3> QED BY <2>1, <3>1 DEF Frame
  <2>3. open' \in Seq(Frame)
    BY <1>4, <2>1, <2>2 DEF Tell, Innermost
  <2>4. Innermost.next \in Nat /\ Innermost.count \in Nat BY <2>1 DEF Frame
  <2>5. CASE Innermost.kind = "down" BY <1>4, <2>3, <2>5 DEF Tell
  <2>6. CASE Innermost.kind # "down"
    <3> DEFINE s == Innermost.next
    <3>1. heard' = [heard EXCEPT ![s] = Append(@, Innermost.count)] BY <1>4, <2>6 DEF Tell
    <3>2. \A t \in 1 .. Subscribers : Append(heard[t], Innermost.count) \in Seq(Nat) BY <2>4
    <3>3. heard' \in [1 .. Subscribers -> Seq(Nat)] BY <3>1, <3>2
    <3> QED BY <1>4, <2>3, <3>3 DEF Tell
  <2> QED BY <2>5, <2>6
<1>5. CASE NotificationReturns
  <2>1. SubSeq(open, 1, Len(open) - 1) \in Seq(Frame)
    BY <1>5 DEF NotificationReturns
  <2> QED BY <1>5, <2>1 DEF NotificationReturns
<1>6. CASE UNCHANGED buttonVars BY <1>6 DEF buttonVars
<1> QED BY <1>1, <1>2, <1>3, <1>4, <1>5, <1>6 DEF ButtonNext, ButtonStep

LEMMA ButtonTypeAlways == ButtonSpec => []ButtonTypeOK
<1>1. ButtonInit => ButtonTypeOK
  <2> SUFFICES ASSUME ButtonInit PROVE ButtonTypeOK
    OBVIOUS
  <2>1. open \in Seq(Frame) /\ heard \in [1 .. Subscribers -> Seq(Nat)]
    BY DEF ButtonInit
  <2>2. press_count \in 0 .. MaxPresses BY ButtonAssumption DEF ButtonInit
  <2>3. edge \in [kind : Kinds, inside : BOOLEAN] BY DEF ButtonInit, Kinds
  <2> QED BY <2>1, <2>2, <2>3 DEF ButtonInit, ButtonTypeOK
<1> QED BY <1>1, ButtonTypeStep, PTL DEF ButtonSpec

\* lastState() and the last edge: what makes LevelMatchesEdge inductive is that
\* a button is known to have gone down inside a notifyPressed() while that one
\* is open.
ReportedPressed == \E i \in DOMAIN open : open[i].kind = "pressed"

LevelInv ==
  /\ pressed => edge.kind # "up"
  /\ pressed /\ edge.kind = "pressed" => ReportedPressed
  /\ edge.kind = "down" /\ ~edge.inside => pressed
  /\ edge.kind = "down" /\ ReportedPressed => edge.inside

LEMMA LevelStep == ButtonTypeOK /\ LevelInv /\ [ButtonNext]_buttonVars => LevelInv'
<1> SUFFICES ASSUME ButtonTypeOK, LevelInv, [ButtonNext]_buttonVars PROVE LevelInv'
  OBVIOUS
<1> USE DEF LevelInv
<1>0. ASSUME NEW k \in Kinds, NEW c \in Nat, Begins(k, c)
      PROVE  /\ edge'.kind = k /\ edge'.inside = ReportedPressed
             /\ ReportedPressed' <=> ReportedPressed \/ k = "pressed"
  <2>1. edge' = [kind |-> k, inside |-> ReportedPressed]
    BY <1>0 DEF Begins, ReportedPressed
  <2>2. open \in Seq(Frame) BY DEF ButtonTypeOK
  <2>3. /\ DOMAIN open = 1 .. Len(open) /\ DOMAIN open' = 1 .. (Len(open) + 1) /\ Len(open) \in Nat
        /\ \A i \in DOMAIN open : open'[i] = open[i]
        /\ open'[Len(open) + 1].kind = k
    BY <1>0, <2>2 DEF Begins
  <2> QED BY <2>1, <2>3 DEF ReportedPressed
<1>1. CASE NotifyPressed
  <2>1. press_count' \in Nat BY <1>1 DEF NotifyPressed, ButtonTypeOK
  <2> QED BY <1>1, <1>0, <2>1 DEF NotifyPressed, Kinds
<1>2. CASE NotifyDown BY <1>2, <1>0 DEF NotifyDown, Kinds
<1>3. CASE NotifyUp
  <2>1. press_count' \in Nat BY <1>3 DEF NotifyUp, ButtonTypeOK
  <2> QED BY <1>3, <1>0, <2>1 DEF NotifyUp, Kinds
<1>4. CASE Tell
  <2>1. DOMAIN open' = DOMAIN open /\ \A i \in DOMAIN open : open'[i].kind = open[i].kind
    BY <1>4 DEF Tell, ButtonTypeOK, Frame
  <2> QED BY <1>4, <2>1 DEF Tell, ReportedPressed
<1>5. CASE NotificationReturns
  <2>1. open \in Seq(Frame) /\ Len(open) \in Nat /\ Len(open) > 0
    BY <1>5 DEF NotificationReturns, ButtonTypeOK
  <2>2. /\ DOMAIN open = 1 .. Len(open) /\ DOMAIN open' = 1 .. (Len(open) - 1)
        /\ \A i \in 1 .. (Len(open) - 1) : open'[i] = open[i]
    BY <1>5, <2>1 DEF NotificationReturns
  <2>3. ReportedPressed' => ReportedPressed
    BY <2>1, <2>2 DEF ReportedPressed
  <2>4. ReportedPressed => ReportedPressed' \/ Innermost.kind = "pressed"
    BY <2>1, <2>2 DEF ReportedPressed, Innermost
  <2>5. Innermost.kind = "pressed" => ReportedPressed
    BY <2>1, <2>2 DEF ReportedPressed, Innermost
  <2> QED BY <1>5, <2>3, <2>4, <2>5 DEF NotificationReturns
<1>6. CASE UNCHANGED buttonVars BY <1>6 DEF buttonVars, ReportedPressed
<1> QED BY <1>1, <1>2, <1>3, <1>4, <1>5, <1>6 DEF ButtonNext, ButtonStep

\* What lastState() tells agrees with the edges reported, however the reports
\* are nested.
THEOREM LevelCorrect == NodeSpec => []LevelMatchesEdge
<1>1. ButtonInit => LevelInv
  BY DEF ButtonInit, LevelInv, ReportedPressed
<1>2. LevelInv => LevelMatchesEdge
  BY DEF LevelInv, LevelMatchesEdge, ReportedPressed
<1> QED BY <1>1, <1>2, LevelStep, ButtonTypeAlways, NodeImplementsFeatures, PTL DEF ButtonSpec
-----------------------------------------------------------------------------
(* Every press is heard once.                                              *)

Told(s, c) == \E i \in DOMAIN heard[s] : heard[s][i] = c

\* A press is told, or a notification still has to tell it, and not both; a
\* notification that has told nobody is the innermost and about the last press.
FramesInv ==
  \A k \in DOMAIN open :
    /\ open[k].next >= 1
    /\ open[k].count <= press_count
    /\ open[k].kind = "down" <=> open[k].count = 0
    /\ open[k].next = 1 => k = Len(open) /\ (open[k].count = 0 \/ open[k].count = press_count)
    /\ \A l \in DOMAIN open : k # l /\ open[k].count # 0 => open[k].count # open[l].count

ToldInv ==
  \A s \in 1 .. Subscribers :
    /\ \A i \in DOMAIN heard[s] : heard[s][i] \in 1 .. press_count
    /\ \A i, j \in DOMAIN heard[s] : i # j => heard[s][i] # heard[s][j]
    /\ \A c \in 1 .. press_count :
         Told(s, c) \/ \E k \in DOMAIN open : open[k].count = c /\ open[k].next <= s
    /\ \A k \in DOMAIN open :
         open[k].count # 0 /\ open[k].next <= s => ~Told(s, open[k].count)

FirstInOrder == \A i, j \in DOMAIN heard[1] : i < j => heard[1][i] < heard[1][j]

HeardInv == FramesInv /\ ToldInv /\ FirstInOrder

LEMMA FramesTyped ==
  ASSUME ButtonTypeOK
  PROVE  /\ Len(open) \in Nat /\ DOMAIN open = 1 .. Len(open) /\ press_count \in Nat
         /\ \A i \in DOMAIN open : open[i].count \in Nat /\ open[i].next \in Nat
<1>1. open \in Seq(Frame) BY DEF ButtonTypeOK
<1>2. \A i \in DOMAIN open : open[i] \in Frame BY <1>1
<1> QED BY <1>1, <1>2 DEF ButtonTypeOK, Frame

\* A notification that begins with a count of its own.
LEMMA BeginsHeard ==
  ASSUME ButtonTypeOK, HeardInv, NEW k \in Kinds, NEW c \in Nat, Begins(k, c),
         \/ k = "down" /\ c = 0 /\ press_count' = press_count
         \/ k # "down" /\ c = press_count + 1 /\ press_count' = c
  PROVE  HeardInv'
<1> USE DEF HeardInv
<1>0. /\ Len(open) \in Nat /\ press_count \in Nat /\ DOMAIN open = 1 .. Len(open)
      /\ \A i \in DOMAIN open : open[i].count \in Nat /\ open[i].next \in Nat
  BY FramesTyped
<1>1. /\ DOMAIN open' = 1 .. (Len(open) + 1) /\ Len(open') = Len(open) + 1
      /\ \A i \in DOMAIN open : open'[i] = open[i]
      /\ open'[Len(open) + 1].kind = k /\ open'[Len(open) + 1].count = c
      /\ open'[Len(open) + 1].next = 1
      /\ heard' = heard
  <2>1. open \in Seq(Frame) /\ open' = Append(open, [kind |-> k, count |-> c, next |-> 1])
    BY DEF Begins, ButtonTypeOK
  <2> QED BY <2>1, <1>0 DEF Begins
<1>2. \A i \in DOMAIN open : open[i].next # 1
  <2> SUFFICES ASSUME NEW i \in DOMAIN open, open[i].next = 1 PROVE FALSE
    OBVIOUS
  <2>1. i = Len(open) BY DEF FramesInv
  <2>2. open # <<>> BY <1>0, <1>1
  <2> QED BY <1>0, <1>1, <2>1, <2>2 DEF Begins, MayNotify, Innermost
<1>3. FramesInv'
  <2> SUFFICES ASSUME NEW i \in DOMAIN open'
               PROVE  /\ open'[i].next >= 1
                      /\ open'[i].count <= press_count'
                      /\ open'[i].kind = "down" <=> open'[i].count = 0
                      /\ open'[i].next = 1 =>
                           i = Len(open') /\ (open'[i].count = 0 \/ open'[i].count = press_count')
                      /\ \A l \in DOMAIN open' : i # l /\ open'[i].count # 0 => open'[i].count # open'[l].count
    BY DEF FramesInv
  <2>1. CASE i \in DOMAIN open
    <3>1. /\ open[i].next >= 1 /\ open[i].next # 1 /\ open[i].count <= press_count
          /\ open[i].kind = "down" <=> open[i].count = 0
          /\ \A l \in DOMAIN open : i # l /\ open[i].count # 0 => open[i].count # open[l].count
      BY <1>2, <2>1 DEF FramesInv
    <3>2. press_count <= press_count' /\ (open[i].count # 0 => open[i].count # c)
      BY <1>0, <2>1, <3>1
    <3> QED BY <1>0, <1>1, <2>1, <3>1, <3>2
  <2>2. CASE i \notin DOMAIN open
    <3>1. i = Len(open) + 1 BY <1>0, <1>1, <2>2
    <3>2. c <= press_count' /\ (k = "down" <=> c = 0) /\ (c # 0 => c = press_count') BY <1>0
    <3>3. \A l \in DOMAIN open : c # 0 => open[l].count # c BY <1>0 DEF FramesInv
    <3> QED BY <1>0, <1>1, <3>1, <3>2, <3>3
  <2> QED BY <2>1, <2>2
<1>4. ToldInv'
  <2> SUFFICES ASSUME NEW s \in 1 .. Subscribers
               PROVE  /\ \A i \in DOMAIN heard[s] : heard[s][i] \in 1 .. press_count'
                      /\ \A i, j \in DOMAIN heard[s] : i # j => heard[s][i] # heard[s][j]
                      /\ \A d \in 1 .. press_count' :
                           Told(s, d) \/ \E l \in DOMAIN open' : open'[l].count = d /\ open'[l].next <= s
                      /\ \A l \in DOMAIN open' :
                           open'[l].count # 0 /\ open'[l].next <= s => ~Told(s, open'[l].count)
    <3>1. heard' = heard BY <1>1
    <3>2. \A s, d : Told(s, d)' <=> Told(s, d) BY <3>1 DEF Told
    <3>3. \A s \in 1 .. Subscribers : \A l \in DOMAIN open' : Told(s, open[l].count)' <=> Told(s, open'[l].count)
      BY <3>1 DEF Told
    <3> QED BY <3>1, <3>2, <3>3 DEF ToldInv
  <2>1. \A i \in DOMAIN heard[s] : heard[s][i] \in 1 .. press_count BY DEF ToldInv
  <2>2. \A i \in DOMAIN heard[s] : heard[s][i] \in 1 .. press_count' BY <1>0, <1>1, <2>1
  <2>3. ASSUME NEW d \in 1 .. press_count'
        PROVE  Told(s, d) \/ \E l \in DOMAIN open' : open'[l].count = d /\ open'[l].next <= s
    <3>1. CASE d \in 1 .. press_count BY <1>0, <1>1, <3>1 DEF ToldInv
    <3>2. CASE d \notin 1 .. press_count
      <4>1. d = c BY <1>0, <1>1, <3>2
      <4>2. Len(open) + 1 \in DOMAIN open' BY <1>0, <1>1
      <4> QED BY <1>0, <1>1, <4>1, <4>2
    <3> QED BY <3>1, <3>2
  <2>4. ASSUME NEW l \in DOMAIN open', open'[l].count # 0, open'[l].next <= s, Told(s, open'[l].count)
        PROVE  FALSE
    <3>1. CASE l \in DOMAIN open BY <1>0, <1>1, <2>4, <3>1 DEF ToldInv
    <3>2. CASE l \notin DOMAIN open
      <4>1. l = Len(open) + 1 BY <1>0, <1>1, <3>2
      <4>2. c # 0 /\ Told(s, c) BY <1>0, <1>1, <2>4, <4>1
      <4> QED BY <1>0, <1>1, <2>1, <4>2 DEF Told
    <3> QED BY <3>1, <3>2
  <2> QED BY <2>2, <2>3, <2>4 DEF ToldInv
<1>5. FirstInOrder' BY <1>0, <1>1 DEF FirstInOrder
<1> QED BY <1>3, <1>4, <1>5

\* The innermost notification tells its press to the next subscriber.
LEMMA TellHeard ==
  ASSUME ButtonTypeOK, HeardInv, Tell, NEW n, NEW s, NEW d, n = Len(open),
         s = open[n].next, d = open[n].count
  PROVE  HeardInv'
<1> USE DEF HeardInv
<1>0. /\ n \in Nat /\ n \in DOMAIN open /\ press_count \in Nat /\ DOMAIN open = 1 .. n
      /\ \A k \in DOMAIN open : open[k].count \in Nat /\ open[k].next \in Nat
      /\ s \in Nat /\ d \in Nat
  BY FramesTyped DEF Tell
<1>1. /\ DOMAIN open' = DOMAIN open /\ Len(open') = n
      /\ \A k \in DOMAIN open : k # n => open'[k] = open[k]
      /\ open'[n].count = d /\ open'[n].kind = open[n].kind /\ open'[n].next = s + 1
  <2>1. open \in Seq(Frame) /\ open' = [open EXCEPT ![n] = [open[n] EXCEPT !.next = @ + 1]]
    BY DEF Tell, ButtonTypeOK
  <2>2. open[n] \in Frame BY <1>0, <2>1
  <2>3. open'[n] = [open[n] EXCEPT !.next = @ + 1] BY <1>0, <2>1
  <2>4. open'[n].count = d /\ open'[n].kind = open[n].kind /\ open'[n].next = s + 1
    BY <2>2, <2>3 DEF Frame
  <2>5. DOMAIN open' = DOMAIN open /\ Len(open') = n BY <1>0, <2>1
  <2>6. \A k \in DOMAIN open : k # n => open'[k] = open[k] BY <2>1
  <2> QED BY <2>4, <2>5, <2>6
<1>2. press_count' = press_count /\ s <= Subscribers
  BY DEF Tell, Innermost
<1>3. \A k \in DOMAIN open : open'[k].count = open[k].count /\ open'[k].kind = open[k].kind
                             /\ open'[k].next >= open[k].next
  BY <1>0, <1>1
<1>4. s \in 1 .. Subscribers BY <1>0, <1>2, ButtonAssumption DEF FramesInv
<1>5. FramesInv'
  <2> SUFFICES ASSUME NEW i \in DOMAIN open
               PROVE  /\ open'[i].next >= 1
                      /\ open'[i].count <= press_count'
                      /\ open'[i].kind = "down" <=> open'[i].count = 0
                      /\ open'[i].next = 1 =>
                           i = Len(open') /\ (open'[i].count = 0 \/ open'[i].count = press_count')
                      /\ \A l \in DOMAIN open : i # l /\ open'[i].count # 0 => open'[i].count # open'[l].count
    BY <1>1 DEF FramesInv
  <2>1. /\ open[i].next >= 1 /\ open[i].count <= press_count
        /\ open[i].kind = "down" <=> open[i].count = 0
        /\ open[i].next = 1 => i = n /\ (open[i].count = 0 \/ open[i].count = press_count)
        /\ \A l \in DOMAIN open : i # l /\ open[i].count # 0 => open[i].count # open[l].count
    BY DEF FramesInv
  <2>2. open'[i].next = 1 => open[i].next = 1
    <3>1. CASE i = n BY <1>0, <1>1, <1>4, <3>1
    <3>2. CASE i # n BY <1>1, <3>2
    <3> QED BY <3>1, <3>2
  <2>3. open'[i].next >= 1
    <3>1. CASE i = n BY <1>0, <1>1, <3>1
    <3>2. CASE i # n BY <1>1, <2>1, <3>2
    <3> QED BY <3>1, <3>2
  <2> QED BY <1>1, <1>2, <1>3, <2>1, <2>2, <2>3
<1>6. CASE open[n].kind = "down"
  <2>1. heard' = heard BY <1>6 DEF Tell, Innermost
  <2>2. d = 0 BY <1>0, <1>6 DEF FramesInv
  <2>3. \A t, c : Told(t, c)' <=> Told(t, c) BY <2>1 DEF Told
  <2>4. \A k \in DOMAIN open : open[k].count # 0 => open'[k] = open[k] BY <1>1, <2>2
  <2>5. ASSUME NEW t \in 1 .. Subscribers
        PROVE  /\ \A i \in DOMAIN heard[t] : heard[t][i] \in 1 .. press_count
               /\ \A i, j \in DOMAIN heard[t] : i # j => heard[t][i] # heard[t][j]
               /\ \A k \in DOMAIN open :
                    open'[k].count # 0 /\ open'[k].next <= t => ~Told(t, open'[k].count)
    BY <1>3, <2>4 DEF ToldInv
  <2>6. ASSUME NEW t \in 1 .. Subscribers, NEW c \in 1 .. press_count, ~Told(t, c)
        PROVE  \E k \in DOMAIN open : open'[k].count = c /\ open'[k].next <= t
    <3>1. PICK k \in DOMAIN open : open[k].count = c /\ open[k].next <= t BY <2>6 DEF ToldInv
    <3>2. open[k].count # 0 BY <3>1
    <3> QED BY <2>4, <3>1, <3>2
  <2>7. ToldInv' BY <1>1, <1>2, <2>1, <2>3, <2>5, <2>6 DEF ToldInv
  <2> QED BY <1>5, <2>1, <2>7 DEF FirstInOrder
<1>7. CASE open[n].kind # "down"
  <2>1. d # 0 /\ d \in 1 .. press_count
    <3>1. d # 0 /\ d <= press_count BY <1>0, <1>7 DEF FramesInv
    <3> QED BY <1>0, <3>1
  <2>2. heard' = [heard EXCEPT ![s] = Append(@, d)] BY <1>7 DEF Tell, Innermost
  <2>3. /\ heard[s] \in Seq(Nat) /\ heard'[s] = Append(heard[s], d)
        /\ \A t \in 1 .. Subscribers : t # s => heard'[t] = heard[t]
    BY <1>4, <2>2 DEF ButtonTypeOK
  <2>4. /\ Len(heard[s]) \in Nat
        /\ DOMAIN heard[s] = 1 .. Len(heard[s]) /\ DOMAIN heard'[s] = 1 .. (Len(heard[s]) + 1)
        /\ \A i \in DOMAIN heard[s] : heard'[s][i] = heard[s][i]
        /\ heard'[s][Len(heard[s]) + 1] = d
    <3> DEFINE h == heard[s]
    <3>1. h \in Seq(Nat) /\ heard'[s] = Append(h, d) BY <2>3
    <3> HIDE DEF h
    <3>2. /\ Len(h) \in Nat /\ DOMAIN h = 1 .. Len(h) /\ DOMAIN heard'[s] = 1 .. (Len(h) + 1)
          /\ \A i \in DOMAIN h : heard'[s][i] = h[i]
          /\ heard'[s][Len(h) + 1] = d
      BY <1>0, <3>1
    <3> QED BY <3>2 DEF h
  <2>5. ~Told(s, d) BY <1>0, <1>4, <2>1 DEF ToldInv
  <2>6. ASSUME NEW c PROVE Told(s, c)' <=> Told(s, c) \/ c = d
    <3>1. Told(s, c)' <=> \E i \in DOMAIN heard'[s] : heard'[s][i] = c BY DEF Told
    <3>2. ASSUME NEW i \in DOMAIN heard'[s], heard'[s][i] = c PROVE Told(s, c) \/ c = d
      <4>1. CASE i \in DOMAIN heard[s] BY <2>4, <3>2, <4>1 DEF Told
      <4>2. CASE i \notin DOMAIN heard[s]
        <5>1. i = Len(heard[s]) + 1 BY <2>4, <4>2
        <5> QED BY <2>4, <3>2, <5>1
      <4> QED BY <4>1, <4>2
    <3>3. ASSUME Told(s, c) PROVE \E i \in DOMAIN heard'[s] : heard'[s][i] = c
      <4>1. PICK i \in DOMAIN heard[s] : heard[s][i] = c BY <3>3 DEF Told
      <4>2. i \in DOMAIN heard'[s] BY <2>4
      <4> QED BY <2>4, <4>1, <4>2
    <3>4. Len(heard[s]) + 1 \in DOMAIN heard'[s] BY <2>4
    <3> QED BY <2>4, <3>1, <3>2, <3>3, <3>4
  <2>7. ASSUME NEW t \in 1 .. Subscribers, t # s, NEW c PROVE Told(t, c)' <=> Told(t, c)
    BY <2>3, <2>7 DEF Told
  <2>8. ASSUME NEW t \in 1 .. Subscribers
        PROVE  /\ \A i \in DOMAIN heard'[t] : heard'[t][i] \in 1 .. press_count
               /\ \A i, j \in DOMAIN heard'[t] : i # j => heard'[t][i] # heard'[t][j]
    <3>1. /\ \A i \in DOMAIN heard[t] : heard[t][i] \in 1 .. press_count
          /\ \A i, j \in DOMAIN heard[t] : i # j => heard[t][i] # heard[t][j]
      BY DEF ToldInv
    <3>2. CASE t # s BY <2>3, <3>1, <3>2
    <3>3. CASE t = s
      <4>1. \A i \in DOMAIN heard[s] : heard[s][i] # d
        BY <2>5 DEF Told
      <4>2. ASSUME NEW i \in DOMAIN heard'[s]
            PROVE  i \in DOMAIN heard[s] \/ (i = Len(heard[s]) + 1 /\ heard'[s][i] = d)
        BY <2>4
      <4>3. \A i \in DOMAIN heard'[s] : heard'[s][i] \in 1 .. press_count
        <5> SUFFICES ASSUME NEW i \in DOMAIN heard'[s] PROVE heard'[s][i] \in 1 .. press_count
          OBVIOUS
        <5>1. CASE i \in DOMAIN heard[s]
          <6>1. heard'[s][i] = heard[s][i] BY <2>4, <5>1
          <6> QED BY <3>1, <3>3, <5>1, <6>1
        <5>2. CASE i \notin DOMAIN heard[s] BY <2>1, <4>2, <5>2
        <5> QED BY <5>1, <5>2
      <4>4. ASSUME NEW i \in DOMAIN heard'[s], NEW j \in DOMAIN heard'[s], i # j
            PROVE  heard'[s][i] # heard'[s][j]
        <5>1. CASE i \in DOMAIN heard[s] /\ j \in DOMAIN heard[s]
          <6>1. heard'[s][i] = heard[s][i] /\ heard'[s][j] = heard[s][j] BY <2>4, <5>1
          <6> QED BY <3>1, <3>3, <4>4, <5>1, <6>1
        <5>2. CASE i \in DOMAIN heard[s] /\ j \notin DOMAIN heard[s] BY <2>4, <4>1, <4>2, <5>2
        <5>3. CASE i \notin DOMAIN heard[s] /\ j \in DOMAIN heard[s] BY <2>4, <4>1, <4>2, <5>3
        <5>4. CASE i \notin DOMAIN heard[s] /\ j \notin DOMAIN heard[s] BY <4>2, <4>4, <5>4
        <5> QED BY <5>1, <5>2, <5>3, <5>4
      <4> QED BY <3>3, <4>3, <4>4
    <3> QED BY <3>2, <3>3
  <2>9. ASSUME NEW t \in 1 .. Subscribers, NEW c \in 1 .. press_count
        PROVE  Told(t, c)' \/ \E k \in DOMAIN open : open'[k].count = c /\ open'[k].next <= t
    <3>1. CASE Told(t, c) BY <2>6, <2>7, <3>1
    <3>2. CASE ~Told(t, c)
      <4>1. PICK k \in DOMAIN open : open[k].count = c /\ open[k].next <= t BY <3>2 DEF ToldInv
      <4>2. CASE k # n BY <1>1, <4>1, <4>2
      <4>3. CASE k = n /\ t = s BY <2>6, <4>1, <4>3
      <4>4. CASE k = n /\ t # s
        <5>1. s + 1 <= t BY <1>0, <4>1, <4>4
        <5> QED BY <1>0, <1>1, <4>1, <4>4, <5>1
      <4> QED BY <4>2, <4>3, <4>4
    <3> QED BY <3>1, <3>2
  <2>10. ASSUME NEW t \in 1 .. Subscribers, NEW k \in DOMAIN open, NEW c, c = open'[k].count,
                c # 0, open'[k].next <= t, Told(t, c)'
         PROVE  FALSE
    <3>1. open[k].count = c /\ open[k].next <= t
      <4>1. open'[k].next \in Nat
        <5>1. CASE k = n BY <1>0, <1>1, <5>1
        <5>2. CASE k # n BY <1>0, <1>1, <5>2
        <5> QED BY <5>1, <5>2
      <4> QED BY <1>0, <1>3, <2>10, <4>1
    <3>2. ~Told(t, c) BY <2>10, <3>1 DEF ToldInv
    <3>3. CASE t # s
      BY <2>7, <2>10, <3>2, <3>3
    <3>4. CASE t = s
      <4>1. c = d BY <2>6, <2>10, <3>2, <3>4
      <4>2. k # n BY <1>0, <1>1, <2>10, <3>4
      <4> QED BY <1>0, <2>1, <3>1, <4>1, <4>2 DEF FramesInv
    <3> QED BY <3>3, <3>4
  <2>11. ToldInv'
    <3>1. \A t \in 1 .. Subscribers : \A k \in DOMAIN open :
            (open[k].count # 0 /\ open[k].next <= t => ~Told(t, open[k].count))'
      <4> SUFFICES ASSUME NEW t \in 1 .. Subscribers, NEW k \in DOMAIN open, NEW c, c = open'[k].count,
                          c # 0, open'[k].next <= t
                   PROVE  ~Told(t, c)'
        BY DEF Told
      <4> QED BY <2>10
    <3>2. \A t \in 1 .. Subscribers : \A c \in 1 .. press_count' :
            Told(t, c)' \/ \E k \in DOMAIN open' : open'[k].count = c /\ open'[k].next <= t
      BY <1>1, <1>2, <2>9
    <3> QED BY <1>1, <1>2, <2>8, <3>1, <3>2 DEF ToldInv
  <2>12. FirstInOrder'
    <3>1. CASE s # 1
      <4>1. 1 \in 1 .. Subscribers BY ButtonAssumption
      <4>2. heard'[1] = heard[1] BY <2>3, <3>1, <4>1
      <4> QED BY <4>2 DEF FirstInOrder
    <3>2. CASE s = 1
      <4>1. d = press_count BY <1>0, <2>1, <3>2 DEF FramesInv
      <4>2. \A i \in DOMAIN heard[1] : heard[1][i] \in 1 .. press_count /\ heard[1][i] # d
        BY <1>4, <2>5, <3>2 DEF ToldInv, Told
      <4>3. \A i \in DOMAIN heard[1] : heard[1][i] < d BY <1>0, <4>1, <4>2
      <4>4. ASSUME NEW i \in DOMAIN heard'[1], NEW j \in DOMAIN heard'[1], i < j
            PROVE  heard'[1][i] < heard'[1][j]
        <5>1. i \in DOMAIN heard[1] BY <2>4, <3>2, <4>4
        <5>2. CASE j \in DOMAIN heard[1] BY <2>4, <3>2, <4>4, <5>1, <5>2 DEF FirstInOrder
        <5>3. CASE j \notin DOMAIN heard[1]
          <6>1. heard'[1][j] = d BY <2>4, <3>2, <5>3
          <6> QED BY <2>4, <3>2, <4>3, <5>1, <6>1
        <5> QED BY <5>2, <5>3
      <4> QED BY <4>4 DEF FirstInOrder
    <3> QED BY <3>1, <3>2
  <2> QED BY <1>5, <2>11, <2>12
<1> QED BY <1>6, <1>7

\* A notification ends when everybody has been told.
LEMMA ReturnHeard ==
  ASSUME ButtonTypeOK, HeardInv, NotificationReturns, NEW n, n = Len(open)
  PROVE  HeardInv'
<1> USE DEF HeardInv
<1>0. /\ n \in Nat /\ press_count \in Nat /\ DOMAIN open = 1 .. n
      /\ \A k \in DOMAIN open : open[k].count \in Nat /\ open[k].next \in Nat
  BY FramesTyped
<1>1. /\ n >= 1 /\ DOMAIN open' = 1 .. (n - 1) /\ Len(open') = n - 1
      /\ \A k \in DOMAIN open' : k \in DOMAIN open /\ k # n /\ open'[k] = open[k]
      /\ open[n].next > Subscribers
      /\ press_count' = press_count /\ heard' = heard
  <2>1. open \in Seq(Frame) /\ open # <<>> /\ open' = SubSeq(open, 1, n - 1)
    BY DEF NotificationReturns, ButtonTypeOK
  <2>2. n >= 1 BY <1>0, <2>1
  <2>3. open[n].next > Subscribers /\ press_count' = press_count /\ heard' = heard
    BY DEF NotificationReturns, Innermost
  <2> QED BY <1>0, <2>1, <2>2, <2>3
<1>2. FramesInv'
  BY <1>0, <1>1 DEF FramesInv
<1>3. ToldInv'
  <2> SUFFICES ASSUME NEW s \in 1 .. Subscribers, NEW c \in 1 .. press_count, ~Told(s, c)
               PROVE  \E k \in DOMAIN open' : open'[k].count = c /\ open'[k].next <= s
    BY <1>1 DEF ToldInv, Told
  <2>1. PICK k \in DOMAIN open : open[k].count = c /\ open[k].next <= s BY DEF ToldInv
  <2>2. k # n BY <1>0, <1>1, <2>1, ButtonAssumption
  <2> QED BY <1>0, <1>1, <2>1, <2>2
<1>4. FirstInOrder' BY <1>1 DEF FirstInOrder
<1> QED BY <1>2, <1>3, <1>4

LEMMA HeardStep == ButtonTypeOK /\ HeardInv /\ [ButtonNext]_buttonVars => HeardInv'
<1> SUFFICES ASSUME ButtonTypeOK, HeardInv, [ButtonNext]_buttonVars PROVE HeardInv'
  OBVIOUS
<1>1. press_count \in Nat /\ press_count + 1 \in Nat BY DEF ButtonTypeOK
<1>2. CASE NotifyPressed BY <1>1, <1>2, BeginsHeard DEF NotifyPressed, Kinds
<1>3. CASE NotifyDown BY <1>1, <1>3, BeginsHeard DEF NotifyDown, Kinds
<1>4. CASE NotifyUp BY <1>1, <1>4, BeginsHeard DEF NotifyUp, Kinds
<1>5. CASE Tell BY <1>5, TellHeard
<1>6. CASE NotificationReturns BY <1>6, ReturnHeard
<1>7. CASE UNCHANGED buttonVars
  BY <1>7 DEF buttonVars, HeardInv, FramesInv, ToldInv, FirstInOrder, Told
<1> QED BY <1>2, <1>3, <1>4, <1>5, <1>6, <1>7 DEF ButtonNext, ButtonStep

\* Every press is told once to every subscriber, to the first in order, however
\* many subscribers there are and however deep notifications are nested.
THEOREM PressesCorrect == NodeSpec => []PressesHeardOnce
<1>1. ButtonInit => HeardInv
  <2> SUFFICES ASSUME ButtonInit PROVE HeardInv
    OBVIOUS
  <2>1. DOMAIN open = {} /\ press_count = 0 /\ \A s \in 1 .. Subscribers : DOMAIN heard[s] = {}
    BY DEF ButtonInit
  <2>2. 1 \in 1 .. Subscribers BY ButtonAssumption
  <2> QED BY <2>1, <2>2 DEF HeardInv, FramesInv, ToldInv, FirstInOrder
<1>2. ButtonTypeOK /\ HeardInv => PressesHeardOnce
  <2> SUFFICES ASSUME ButtonTypeOK, HeardInv, NEW s \in 1 .. Subscribers, NEW c \in 1 .. press_count
               PROVE  \/ \E i \in DOMAIN heard[s] : Times(s, c) = {i}
                      \/ Times(s, c) = {} /\ \E i \in DOMAIN open : open[i].count = c /\ open[i].next <= s
    BY DEF PressesHeardOnce, HeardInv, FirstInOrder
  <2>1. CASE Told(s, c)
    <3>1. PICK i \in DOMAIN heard[s] : heard[s][i] = c BY <2>1 DEF Told
    <3>2. Times(s, c) = {i} BY <3>1 DEF Times, HeardInv, ToldInv
    <3> QED BY <3>1, <3>2
  <2>2. CASE ~Told(s, c) BY <2>2 DEF Told, Times, HeardInv, ToldInv
  <2> QED BY <2>1, <2>2
<1> QED BY <1>1, <1>2, HeardStep, ButtonTypeAlways, NodeImplementsFeatures, PTL DEF ButtonSpec

-----------------------------------------------------------------------------
(* All three.                                                              *)

\* The variables of every feature keep their types in the node that has all
\* three.
THEOREM NodeTypeCorrect == NodeSpec => []NodeTypeOK
BY NodeImplementsFeatures, TypeCorrect, GpsAlways, ButtonTypeAlways, PTL DEF NodeTypeOK, GpsInv

=============================================================================
