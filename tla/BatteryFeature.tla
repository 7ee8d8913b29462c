--------------------------- MODULE BatteryFeature ---------------------------
(***************************************************************************)
(* src/features/battery/BatteryFeature.cpp: loop() samples the battery and *)
(* publishes battery.low once, then keeps quiet until the voltage has      *)
(* recovered by 0.1 V.  The host may have no reading, the application may  *)
(* move the threshold between two loops, and the event may find nobody     *)
(* (or no bus) to take it.                                                 *)
(*                                                                         *)
(* Volts are counted in hundredths, the precision the event prints; the    *)
(* rounding of the float comparison itself is not modelled.                *)
(***************************************************************************)
EXTENDS Integers

CONSTANTS
  Volts,        \* what readBattery may return, in 0.01 V
  Thresholds,   \* arguments of setLowThresholdVolts, in 0.01 V
  NoReading,    \* readBattery returned false
  NoEvent

DefaultThreshold == 360
Hysteresis == 10

ASSUME BatteryAssumption ==
  /\ Volts \subseteq Nat /\ NoReading \notin Volts
  /\ Thresholds \subseteq Nat /\ DefaultThreshold \in Thresholds
  /\ NoEvent \notin Volts

VARIABLES
  reading,      \* what the host would return now
  low_v,        \* _low_v
  low_latched,  \* _low_latched
  event,        \* the voltage of the battery.low the last step published
  taken,        \* whether publishEvent returned true for the last battery.low
  recovered     \* ghost: a loop has seen a recovery since the last battery.low

vars == <<reading, low_v, low_latched, event, taken, recovered>>

Init == /\ reading \in Volts \cup {NoReading}
        /\ low_v = DefaultThreshold
        /\ low_latched = FALSE
        /\ event = NoEvent
        /\ taken = TRUE
        /\ recovered = TRUE

\* The battery drains, is charged, or its gauge stops answering.
Sense == /\ reading' \in (Volts \cup {NoReading}) \ {reading}
         /\ event' = NoEvent
         /\ UNCHANGED <<low_v, low_latched, taken, recovered>>

\* The form a bug would take: the threshold is moved by v, not to v.
SetLowThresholdVoltsAdding(v) ==
  /\ low_v' = low_v + v
  /\ event' = NoEvent
  /\ UNCHANGED <<reading, low_latched, taken, recovered>>
SetLowThresholdVolts(v) ==
  /\ low_v' = v
  /\ event' = NoEvent
  /\ UNCHANGED <<reading, low_latched, taken, recovered>>

IsLow(v) == v > 0 /\ v < low_v

\* The form a bug would take: no hysteresis.
HasRecoveredAtThreshold(v) == v >= low_v
HasRecovered(v) == v >= low_v + Hysteresis

\* publishEvent, then the latch, whatever publishEvent returned.
Alarm == /\ event' = reading
         /\ taken' \in BOOLEAN
         /\ low_latched' = TRUE
         /\ recovered' = FALSE

Quiet == event' = NoEvent /\ UNCHANGED <<taken, low_latched>>

Rearm == /\ event' = NoEvent
         /\ low_latched' = FALSE
         /\ UNCHANGED taken

\* The form a bug would take: a latched feature does not look at the recovery.
LoopStuck ==
  /\ IF reading # NoReading /\ IsLow(reading) /\ ~low_latched THEN Alarm
     ELSE /\ Quiet
          /\ recovered' = (recovered \/ (reading # NoReading /\ reading >= low_v + Hysteresis))
  /\ UNCHANGED <<reading, low_v>>
\* BatteryFeature::loop.
Loop ==
  /\ IF reading # NoReading /\ IsLow(reading) /\ ~low_latched THEN Alarm
     ELSE /\ IF reading # NoReading /\ ~IsLow(reading) /\ HasRecovered(reading)
             THEN Rearm ELSE Quiet
          /\ recovered' = (recovered \/ (reading # NoReading /\ reading >= low_v + Hysteresis))
  /\ UNCHANGED <<reading, low_v>>

Next == Sense \/ (\E v \in Thresholds : SetLowThresholdVolts(v)) \/ Loop

Spec == Init /\ [][Next]_vars

-----------------------------------------------------------------------------
(* Correctness. *)

TypeOK == /\ reading \in Volts \cup {NoReading}
          /\ low_v \in Thresholds
          /\ low_latched \in BOOLEAN /\ taken \in BOOLEAN /\ recovered \in BOOLEAN
          /\ event \in Volts \cup {NoEvent}

\* Between two battery.low events some loop has seen the voltage at least
\* Hysteresis above the threshold of that moment: a battery that hovers around
\* the threshold does not flood the mesh, also when the threshold is moved.
RecoveryBetweenAlarms == [][event' # NoEvent => recovered]_vars

\* An alarm is about a battery that is there and is low.
AlarmsAreLow == event # NoEvent => event > 0 /\ event < low_v

\* A battery that gets low after it had recovered, and stays so, is reported:
\* the latch of an earlier alarm does not silence this one.
LowIsReported ==
  [](recovered /\ reading # NoReading /\ reading > 0 /\ reading < low_v
       => <>(event # NoEvent \/ reading = NoReading \/ reading = 0 \/ reading >= low_v))
=============================================================================
