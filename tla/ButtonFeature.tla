---------------------------- MODULE ButtonFeature ----------------------------
(***************************************************************************)
(* src/features/button/ButtonFeature.cpp: the application reports presses  *)
(* and edges, the feature counts and publishes them.  A notification is a  *)
(* frame that lasts until every subscriber has been called, and a          *)
(* subscriber may report the next press from inside its handler.           *)
(***************************************************************************)
EXTENDS Integers, Sequences

CONSTANTS
  Subscribers,   \* how many handlers the bus calls for an event
  MaxPresses,    \* bound: presses counted
  MaxDepth       \* bound: notifications inside one another

ASSUME ButtonAssumption ==
  Subscribers \in Nat \ {0} /\ MaxPresses \in Nat /\ MaxDepth \in Nat

VARIABLES
  pressed,       \* _pressed
  press_count,   \* _press_count
  open,          \* the notifications under way, innermost last
  heard,         \* ghost, [1..Subscribers -> Seq(Nat)]: the counts each was told
  edge           \* ghost: the last notification begun, and whether inside notifyPressed

buttonVars == <<pressed, press_count, open, heard, edge>>

Kinds == {"pressed", "down", "up"}
Frame == [kind : Kinds, count : Nat, next : Nat]

Innermost == open[Len(open)]

ButtonInit ==
  /\ pressed = FALSE /\ press_count = 0 /\ open = <<>>
  /\ heard = [s \in 1 .. Subscribers |-> <<>>]
  /\ edge = [kind |-> "up", inside |-> FALSE]

\* The application, or the handler that was called last.
MayNotify == open # <<>> => Len(open) < MaxDepth /\ Innermost.next > 1

Begins(k, count) ==
  /\ MayNotify
  /\ open' = Append(open, [kind |-> k, count |-> count, next |-> 1])
  /\ edge' = [kind |-> k, inside |-> \E i \in DOMAIN open : open[i].kind = "pressed"]
  /\ UNCHANGED heard

NotifyPressed ==
  /\ press_count < MaxPresses
  /\ pressed' = TRUE /\ press_count' = press_count + 1
  /\ Begins("pressed", press_count')

\* The host reports edges, so no button goes down twice.
NotifyDown ==
  /\ edge.kind # "down"
  /\ pressed' = TRUE /\ UNCHANGED press_count
  /\ Begins("down", 0)

\* The forms two bugs would take: the press is counted once the event is out,
\* and the level is left as it was.
NotifyUpUncounted ==
  /\ press_count < MaxPresses
  /\ pressed' = FALSE /\ UNCHANGED press_count
  /\ Begins("up", press_count + 1)
NotifyUpStillDown ==
  /\ press_count < MaxPresses
  /\ UNCHANGED pressed /\ press_count' = press_count + 1
  /\ Begins("up", press_count')

NotifyUp ==
  /\ press_count < MaxPresses
  /\ pressed' = FALSE /\ press_count' = press_count + 1
  /\ Begins("up", press_count')

\* EventBus::publish calls the next subscriber; the text of the event is a
\* buffer of the notification's own.
Tell ==
  /\ open # <<>> /\ Innermost.next <= Subscribers
  /\ heard' = IF Innermost.kind = "down" THEN heard
              ELSE [heard EXCEPT ![Innermost.next] = Append(@, Innermost.count)]
  /\ open' = [open EXCEPT ![Len(open)].next = @ + 1]
  /\ UNCHANGED <<pressed, press_count, edge>>

\* The end of a notification: notifyPressed takes the level back.
NotificationReturns ==
  /\ open # <<>> /\ Innermost.next > Subscribers
  /\ pressed' = (pressed /\ Innermost.kind # "pressed")
  /\ open' = SubSeq(open, 1, Len(open) - 1)
  /\ UNCHANGED <<press_count, heard, edge>>

ButtonStep == Tell \/ NotificationReturns

ButtonNext == NotifyPressed \/ NotifyDown \/ NotifyUp \/ ButtonStep

ButtonSpec == ButtonInit /\ [][ButtonNext]_buttonVars

-----------------------------------------------------------------------------
(* Correctness. *)

ButtonTypeOK ==
  /\ pressed \in BOOLEAN /\ press_count \in 0 .. MaxPresses
  /\ open \in Seq(Frame)
  /\ heard \in [1 .. Subscribers -> Seq(Nat)]
  /\ edge \in [kind : Kinds, inside : BOOLEAN]

\* Every press is told to every subscriber once, under a count of its own, also
\* when handlers report presses from inside a notification; and the first
\* subscriber hears the counts in their order, which the others may not.
Times(s, c) == {i \in DOMAIN heard[s] : heard[s][i] = c}

PressesHeardOnce ==
  /\ \A s \in 1 .. Subscribers, c \in 1 .. press_count :
       \/ \E i \in DOMAIN heard[s] : Times(s, c) = {i}
       \/ Times(s, c) = {} /\ \E i \in DOMAIN open : open[i].count = c /\ open[i].next <= s
  /\ \A i, j \in DOMAIN heard[1] : i < j => heard[1][i] < heard[1][j]

\* lastState() is TRUE only while the button is down, or is being reported
\* pressed; and it is FALSE of a button last reported down only when that report
\* came from inside a notifyPressed(), whose end took it back.
LevelMatchesEdge ==
  /\ pressed => edge.kind # "up"
  /\ pressed /\ edge.kind = "pressed" => \E i \in DOMAIN open : open[i].kind = "pressed"
  /\ edge.kind = "down" /\ ~edge.inside => pressed
=============================================================================
