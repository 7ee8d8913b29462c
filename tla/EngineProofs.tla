---------------------------- MODULE EngineProofs ----------------------------
(***************************************************************************)
(* Proofs about the life of an engine, for every set of features, commands *)
(* and listeners, every capacity of the lists, every depth of nested calls *)
(* and whatever calls handlers make.                                       *)
(***************************************************************************)
EXTENDS Engine, SequenceTheorems, FiniteSetTheorems, TLAPS

Entry == [name : Names, handler : Handlers]

InStart == frames # <<>> /\ Top.kind = "start"

\* A start() is the innermost call, and goes through the registrations of
\* features that do not change meanwhile.
StartInv ==
  \A i \in DOMAIN frames :
    frames[i].kind = "start" =>
      i = Len(frames) /\ ~started /\ frames[i].todo \subseteq Registrations

-----------------------------------------------------------------------------
(* The frames.                                                             *)

LEMMA TopIsFrame ==
  ASSUME TypeOK, frames # <<>>
  PROVE  /\ Len(frames) \in Nat /\ DOMAIN frames = 1 .. Len(frames)
         /\ Len(frames) \in DOMAIN frames /\ Top \in Frame
BY DEF TypeOK, Top

\* A frame, by its kind.
LEMMA FrameKinds ==
  ASSUME NEW f \in Frame
  PROVE  /\ f.kind \in {"loop", "publish", "start", "stop"}
         /\ f.kind = "loop" => f \in LoopFrame
         /\ f.kind = "publish" => f \in PublishFrame
         /\ f.kind = "start" => f \in StartFrame
         /\ f.kind = "stop" => f \in StopFrame
BY DEF Frame, LoopFrame, PublishFrame, StartFrame, StopFrame

LEMMA SetTopTyped ==
  ASSUME TypeOK, frames # <<>>, NEW f \in Frame
  PROVE  /\ SetTop(f) \in Seq(Frame) /\ Len(SetTop(f)) = Len(frames)
         /\ DOMAIN SetTop(f) = DOMAIN frames
         /\ SetTop(f)[Len(frames)] = f
         /\ \A i \in DOMAIN frames : i # Len(frames) => SetTop(f)[i] = frames[i]
BY TopIsFrame DEF TypeOK, SetTop

LEMMA PopTyped ==
  ASSUME TypeOK, frames # <<>>
  PROVE  /\ Pop \in Seq(Frame) /\ Len(Pop) = Len(frames) - 1
         /\ DOMAIN Pop = 1 .. (Len(frames) - 1)
         /\ \A i \in DOMAIN Pop : Pop[i] = frames[i]
<1> DEFINE n == Len(frames) - 1
<1>1. n \in Nat /\ DOMAIN frames = 1 .. Len(frames) /\ frames \in Seq(Frame)
  BY TopIsFrame DEF TypeOK
<1>2. \A i \in 1 .. n : frames[i] \in Frame BY <1>1
<1>3. /\ Pop \in Seq(Frame) /\ Len(Pop) = n /\ \A i \in 1 .. n : Pop[i] = frames[i]
  BY <1>1, <1>2, SubSeqProperties DEF Pop
<1> QED BY <1>1, <1>3

LEMMA PushTyped ==
  ASSUME TypeOK, NEW f \in Frame
  PROVE  /\ Append(frames, f) \in Seq(Frame) /\ Len(Append(frames, f)) = Len(frames) + 1
         /\ Len(frames) \in Nat
         /\ DOMAIN Append(frames, f) = 1 .. (Len(frames) + 1)
         /\ \A i \in DOMAIN frames : Append(frames, f)[i] = frames[i]
         /\ Append(frames, f)[Len(frames) + 1] = f
BY DEF TypeOK

\* What clear() does to the calls under way: it is seen by those that go through
\* the subscribers or the features.
LEMMA ClearedTyped ==
  ASSUME NEW stack \in Seq(Frame)
  PROVE  /\ ClearedAll(stack) \in Seq(Frame) /\ DOMAIN ClearedAll(stack) = DOMAIN stack
         /\ \A i \in DOMAIN stack :
              /\ ClearedAll(stack)[i].kind = stack[i].kind
              /\ stack[i].kind \in {"loop", "publish"} => ClearedAll(stack)[i].cleared
              /\ stack[i].kind \in {"start", "stop"} => ClearedAll(stack)[i] = stack[i]
<1>1. ASSUME NEW f \in Frame
      PROVE  /\ Cleared(f) \in Frame /\ Cleared(f).kind = f.kind
             /\ f.kind \in {"loop", "publish"} => Cleared(f).cleared
             /\ f.kind \in {"start", "stop"} => Cleared(f) = f
  <2>1. CASE f.kind = "loop"
    <3>1. f \in LoopFrame BY <2>1, FrameKinds
    <3> QED BY <2>1, <3>1 DEF Cleared, Frame, LoopFrame
  <2>2. CASE f.kind = "publish"
    <3>1. f \in PublishFrame BY <2>2, FrameKinds
    <3> QED BY <2>2, <3>1 DEF Cleared, Frame, PublishFrame
  <2>3. CASE f.kind \in {"start", "stop"} BY <2>3 DEF Cleared
  <2> QED BY <2>1, <2>2, <2>3, FrameKinds
<1>2. Len(stack) \in Nat /\ DOMAIN stack = 1 .. Len(stack) /\ \A i \in DOMAIN stack : stack[i] \in Frame
  OBVIOUS
<1>3. [i \in 1 .. Len(stack) |-> Cleared(stack[i])] \in [1 .. Len(stack) -> Frame]
  BY <1>1, <1>2
<1>4. [i \in 1 .. Len(stack) |-> Cleared(stack[i])] \in Seq(Frame)
  BY <1>2, <1>3
<1> QED BY <1>1, <1>2, <1>4 DEF ClearedAll

\* shutdown() comes to its end: after stop(), or at once on an engine that is not
\* started.
Clearing == (Shutdown /\ ~started) \/ StopReturns

LEMMA ClearingDoes ==
  ASSUME TypeOK, Clearing
  PROVE  /\ ~started' /\ ~rewired' /\ subs' = <<>> /\ frames' \in Seq(Frame)
         /\ UNCHANGED <<features, phase, overtaken, registry, published>>
         /\ \A i \in DOMAIN frames' :
              /\ i \in DOMAIN frames /\ frames'[i].kind = frames[i].kind
              /\ frames[i].kind \in {"loop", "publish"} => frames'[i].cleared
              /\ frames[i].kind \in {"start", "stop"} => frames'[i] = frames[i]
<1>1. CASE Shutdown /\ ~started
  <2>1. AfterStop(frames) /\ ~started' /\ UNCHANGED <<features, phase, overtaken, registry, published>>
    BY <1>1 DEF Shutdown, BeginStop
  <2>2. frames \in Seq(Frame) BY DEF TypeOK
  <2> QED BY <2>1, <2>2, ClearedTyped DEF AfterStop
<1>2. CASE StopReturns
  <2>1. AfterStop(Pop) /\ ~started' /\ UNCHANGED <<features, phase, overtaken, registry, published>> /\ frames # <<>>
    BY <1>2 DEF StopReturns
  <2>2. Pop \in Seq(Frame) /\ \A i \in DOMAIN Pop : i \in DOMAIN frames /\ Pop[i] = frames[i]
    BY <2>1, PopTyped, TopIsFrame
  <2> QED BY <2>1, <2>2, ClearedTyped DEF AfterStop
<1> QED BY <1>1, <1>2 DEF Clearing

\* A shutdown() that meets a started engine begins to stop it.
LEMMA StopBegins ==
  ASSUME TypeOK, Shutdown, ~Clearing
  PROVE  /\ started /\ BeginStop
         /\ [kind |-> "stop", left |-> Len(features)] \in Frame
<1>1. BeginStop BY DEF Shutdown, Clearing
<1>2. Len(features) \in Nat BY DEF TypeOK
<1> QED BY <1>1, <1>2 DEF BeginStop, Frame, StopFrame

\* One feature is shut down.
LEMMA ShutdownFeatureDoes ==
  ASSUME TypeOK, ShutdownFeature
  PROVE  /\ frames # <<>> /\ Top.kind = "stop" /\ Top \in StopFrame
         /\ frames' = SetTop([Top EXCEPT !.left = @ - 1])
         /\ [Top EXCEPT !.left = @ - 1] \in Frame /\ [Top EXCEPT !.left = @ - 1].kind = "stop"
         /\ [Top EXCEPT !.left = @ - 1].left = Top.left - 1
         /\ Top.left \in Nat \ {0}
<1>1. frames # <<>> /\ Top.kind = "stop" /\ Top.left > 0 /\ frames' = SetTop([Top EXCEPT !.left = @ - 1])
  BY DEF ShutdownFeature
<1>2. Top \in StopFrame BY <1>1, TopIsFrame, FrameKinds
<1>3. Top.left \in Nat /\ Top.left - 1 \in Nat BY <1>1, <1>2 DEF StopFrame
<1>4. [Top EXCEPT !.left = @ - 1] \in StopFrame BY <1>2, <1>3 DEF StopFrame
<1> QED BY <1>1, <1>2, <1>3, <1>4 DEF Frame, StopFrame

-----------------------------------------------------------------------------
(* Types.                                                                  *)

LEMMA RegisteredTyped ==
  ASSUME EngineAssumption, NEW entries \in Seq(Entry), Len(entries) <= MAX_COMMANDS, NEW e \in Entry
  PROVE  Registered(entries, e) \in Seq(Entry) /\ Len(Registered(entries, e)) <= MAX_COMMANDS
<1> USE DEF EngineAssumption
<1>1. Len(entries) \in Nat /\ DOMAIN entries = 1 .. Len(entries) /\ \A i \in DOMAIN entries : entries[i] \in Entry
  OBVIOUS
<1>0. MAX_COMMANDS \in Nat OBVIOUS
<1>2. CASE Len(entries) >= MAX_COMMANDS BY <1>2 DEF Registered
<1>3. CASE Len(entries) < MAX_COMMANDS /\ \E i \in DOMAIN entries : FoldName[entries[i].name] = FoldName[e.name]
  <2> DEFINE g == [i \in 1 .. Len(entries) |->
                     IF FoldName[entries[i].name] = FoldName[e.name]
                     THEN [entries[i] EXCEPT !.handler = e.handler] ELSE entries[i]]
  <2>0. ~(Len(entries) >= MAX_COMMANDS) BY <1>0, <1>1, <1>3
  <2>1. Registered(entries, e) = g BY <1>1, <1>3, <2>0, Zenon DEF Registered
  <2>2. \A i \in 1 .. Len(entries) : [entries[i] EXCEPT !.handler = e.handler] \in Entry
    BY <1>1 DEF Entry
  <2>3. g \in [1 .. Len(entries) -> Entry] BY <1>1, <2>2
  <2>4. g \in Seq(Entry) /\ Len(g) = Len(entries) BY <1>1, <2>3
  <2> QED BY <1>3, <2>1, <2>4
<1>4. CASE Len(entries) < MAX_COMMANDS /\ ~\E i \in DOMAIN entries : FoldName[entries[i].name] = FoldName[e.name]
  <2>0. ~(Len(entries) >= MAX_COMMANDS) BY <1>0, <1>1, <1>4
  <2>1. Registered(entries, e) = Append(entries, e) BY <1>4, <2>0, Zenon DEF Registered
  <2> QED BY <1>1, <1>4, <2>1
<1> QED BY <1>1, <1>2, <1>3, <1>4

LEMMA WithCapTyped ==
  ASSUME EngineAssumption, NEW names \in Seq(Names), Len(names) <= MAX_CAPS, NEW n \in Names
  PROVE  WithCap(names, n) \in Seq(Names) /\ Len(WithCap(names, n)) <= MAX_CAPS
BY DEF WithCap, EngineAssumption

LEMMA SubscribedTyped ==
  ASSUME EngineAssumption, NEW list \in Seq(Subs), Len(list) <= MAX_EVENT_SUBS, NEW s \in Subs
  PROVE  Subscribed(list, s) \in Seq(Subs) /\ Len(Subscribed(list, s)) <= MAX_EVENT_SUBS
BY DEF Subscribed, EngineAssumption

LEMMA AskingTyped ==
  ASSUME EngineAssumption, TypeOK, NEW e \in Entry, Asking(e)
  PROVE  /\ commands' \in Seq(Entry) /\ Len(commands') <= MAX_COMMANDS
         /\ asked' \in [Names -> Handlers \cup {NoHandler}]
<1>1. commands' \in Seq(Entry) /\ Len(commands') <= MAX_COMMANDS
  BY RegisteredTyped DEF Asking, TypeOK, Entry
<1>2. FoldName[e.name] \in Names /\ e.handler \in Handlers
  BY DEF Entry, EngineAssumption
<1>3. asked' = [asked EXCEPT ![FoldName[e.name]] = e.handler]
  BY DEF Asking
<1> QED BY <1>1, <1>2, <1>3 DEF TypeOK

\* What a start() registers next is a registration of a feature the engine has.
LEMMA NextRegistration ==
  ASSUME TypeOK, StartInv, frames # <<>>, Top.kind = "start", NEW r \in Top.todo
  PROVE  /\ r[2] \in DOMAIN features /\ features[r[2]] \in Features
         /\ \/ r[1] = 1 /\ r[3] \in DOMAIN FeatureCommands[features[r[2]]]
            \/ r[1] = 2 /\ r[3] \in DOMAIN FeatureCaps[features[r[2]]]
<1>1. r \in Registrations BY TopIsFrame DEF StartInv, Top
<1>2. CASE r \in UNION {{<<1, i, k>> : k \in DOMAIN FeatureCommands[features[i]]} : i \in DOMAIN features}
  <2>1. PICK i \in DOMAIN features : \E k \in DOMAIN FeatureCommands[features[i]] : r = <<1, i, k>>
    BY <1>2
  <2> QED BY <2>1 DEF TypeOK
<1>3. CASE r \in UNION {{<<2, i, k>> : k \in DOMAIN FeatureCaps[features[i]]} : i \in DOMAIN features}
  <2>1. PICK i \in DOMAIN features : \E k \in DOMAIN FeatureCaps[features[i]] : r = <<2, i, k>>
    BY <1>3
  <2> QED BY <2>1 DEF TypeOK
<1> QED BY <1>1, <1>2, <1>3 DEF Registrations

LEMMA RegistrationEntry ==
  ASSUME EngineAssumption, NEW f \in Features, NEW k \in DOMAIN FeatureCommands[f]
  PROVE  [name |-> FeatureCommands[f][k], handler |-> f] \in Entry
<1>1. FeatureCommands[f] \in Seq(Names) BY DEF EngineAssumption
<1>2. FeatureCommands[f][k] \in Names BY <1>1
<1> QED BY <1>2 DEF Entry, Handlers

LEMMA RegistrationsTyped ==
  ASSUME EngineAssumption, TypeOK
  PROVE  Registrations \in SUBSET ({1, 2} \X Nat \X Nat)
<1> SUFFICES ASSUME NEW r \in Registrations PROVE r \in {1, 2} \X Nat \X Nat
  OBVIOUS
<1>0. DOMAIN features \subseteq Nat /\ \A i \in DOMAIN features : features[i] \in Features
  <2>1. features \in Seq(Features) BY DEF TypeOK
  <2> QED BY <2>1
<1>1. ASSUME NEW f \in Features
      PROVE  DOMAIN FeatureCommands[f] \subseteq Nat /\ DOMAIN FeatureCaps[f] \subseteq Nat
  <2>1. FeatureCommands[f] \in Seq(Names) /\ FeatureCaps[f] \in Seq(Names) BY DEF EngineAssumption
  <2> QED BY <2>1
<1>2. CASE r \in UNION {{<<1, i, k>> : k \in DOMAIN FeatureCommands[features[i]]} : i \in DOMAIN features}
  <2>1. PICK i \in DOMAIN features : \E k \in DOMAIN FeatureCommands[features[i]] : r = <<1, i, k>>
    BY <1>2
  <2> QED BY <1>0, <1>1, <2>1
<1>3. CASE r \in UNION {{<<2, i, k>> : k \in DOMAIN FeatureCaps[features[i]]} : i \in DOMAIN features}
  <2>1. PICK i \in DOMAIN features : \E k \in DOMAIN FeatureCaps[features[i]] : r = <<2, i, k>>
    BY <1>3
  <2> QED BY <1>0, <1>1, <2>1
<1> QED BY <1>2, <1>3 DEF Registrations

\* The three ways to extend the stack.
LEMMA NewFrames ==
  /\ [kind |-> "loop", next |-> 1, cleared |-> FALSE] \in Frame
  /\ [kind |-> "publish", next |-> 1, heard |-> <<>>, cleared |-> FALSE] \in Frame
  /\ \A todo \in SUBSET ({1, 2} \X Nat \X Nat) : [kind |-> "start", todo |-> todo] \in Frame
<1>1. [kind |-> "loop", next |-> 1, cleared |-> FALSE] \in LoopFrame BY DEF LoopFrame
<1>2. <<>> \in Seq(Subs) OBVIOUS
<1>3. [kind |-> "publish", next |-> 1, heard |-> <<>>, cleared |-> FALSE] \in PublishFrame
  BY <1>2 DEF PublishFrame
<1>4. \A todo \in SUBSET ({1, 2} \X Nat \X Nat) : [kind |-> "start", todo |-> todo] \in StartFrame
  BY DEF StartFrame
<1> QED BY <1>1, <1>3, <1>4 DEF Frame

LEMMA FramesStep ==
  ASSUME EngineAssumption, TypeOK, StartInv, [Next]_vars
  PROVE  frames' \in Seq(Frame)
<1>0. frames \in Seq(Frame) BY DEF TypeOK
<1>1. ASSUME NEW f \in Features, Add(f) PROVE frames' \in Seq(Frame) BY <1>0, <1>1 DEF Add
<1>2. CASE Begin
  <2>1. CASE started BY <1>0, <1>2, <2>1 DEF Begin
  <2>2. CASE ~started
    <3>1. frames' = Append(frames, [kind |-> "start", todo |-> Registrations]) BY <1>2, <2>2 DEF Begin
    <3>2. [kind |-> "start", todo |-> Registrations] \in Frame BY RegistrationsTyped, NewFrames
    <3> QED BY <3>1, <3>2, PushTyped
  <2> QED BY <2>1, <2>2
<1>3. CASE RegisterNext
  <2>1. PICK r \in Top.todo : frames' = SetTop([Top EXCEPT !.todo = @ \ {r}]) BY <1>3 DEF RegisterNext
  <2>2. Top \in StartFrame BY <1>3, TopIsFrame, FrameKinds DEF RegisterNext
  <2>3. [Top EXCEPT !.todo = @ \ {r}] \in StartFrame BY <2>2 DEF StartFrame
  <2> QED BY <1>3, <2>1, <2>3, SetTopTyped DEF Frame, RegisterNext
<1>4. CASE StartReturns BY <1>4, PopTyped DEF StartReturns
<1>5. CASE Clearing BY <1>5, ClearingDoes
<1>15. CASE Shutdown /\ ~Clearing BY <1>15, StopBegins, PushTyped DEF BeginStop
<1>16. CASE ShutdownFeature BY <1>16, ShutdownFeatureDoes, SetTopTyped
<1>6. ASSUME NEW l \in Listeners, Subscribe(l) PROVE frames' \in Seq(Frame) BY <1>0, <1>6 DEF Subscribe
<1>7. ASSUME NEW n \in AppNames, RegisterCommand(n) PROVE frames' \in Seq(Frame)
  BY <1>0, <1>7 DEF RegisterCommand
<1>8. CASE Publish BY <1>8, NewFrames, PushTyped DEF Publish
<1>9. CASE Loop BY <1>9, NewFrames DEF Loop
<1>10. CASE Deliver
  <2>1. frames # <<>> /\ frames' = SetTop([Top EXCEPT !.next = @ + 1, !.heard = Append(@, subs[Top.next])])
    BY <1>10 DEF Deliver
  <2>2. Top \in PublishFrame BY <1>10, TopIsFrame, FrameKinds DEF Deliver
  <2>3. Top.next \in Nat \ {0} /\ Top.heard \in Seq(Subs) BY <2>2 DEF PublishFrame
  <2>4. subs[Top.next] \in Subs BY <1>10, <2>3 DEF Deliver, TypeOK
  <2>5. Top.next + 1 \in Nat \ {0} /\ Append(Top.heard, subs[Top.next]) \in Seq(Subs) BY <2>3, <2>4
  <2>6. [Top EXCEPT !.next = @ + 1, !.heard = Append(@, subs[Top.next])] \in PublishFrame
    BY <2>2, <2>5 DEF PublishFrame
  <2> QED BY <2>1, <2>6, SetTopTyped DEF Frame
<1>11. CASE PublishReturns BY <1>11, PopTyped DEF PublishReturns
<1>12. CASE LoopFeature
  <2>1. frames # <<>> /\ frames' = SetTop([Top EXCEPT !.next = @ + 1]) BY <1>12 DEF LoopFeature
  <2>2. Top \in LoopFrame BY <1>12, TopIsFrame, FrameKinds DEF LoopFeature
  <2>3. Top.next + 1 \in Nat \ {0} BY <2>2 DEF LoopFrame
  <2>4. [Top EXCEPT !.next = @ + 1] \in LoopFrame BY <2>2, <2>3 DEF LoopFrame
  <2> QED BY <2>1, <2>4, SetTopTyped DEF Frame
<1>13. CASE LoopReturns BY <1>13, PopTyped DEF LoopReturns
<1>14. CASE UNCHANGED vars BY <1>0, <1>14 DEF vars
<1> QED BY <1>1, <1>2, <1>3, <1>4, <1>5, <1>6, <1>7, <1>8, <1>9, <1>10, <1>11, <1>12, <1>13, <1>14, <1>15,
           <1>16 DEF Next, Clearing

LEMMA TypeStep ==
  ASSUME EngineAssumption, TypeOK, StartInv, [Next]_vars
  PROVE  TypeOK'
<1>1. /\ commands' \in Seq(Entry) /\ Len(commands') <= MAX_COMMANDS
      /\ caps' \in Seq(Names) /\ Len(caps') <= MAX_CAPS
      /\ asked' \in [Names -> Handlers \cup {NoHandler}]
  <2>0. /\ commands \in Seq(Entry) /\ Len(commands) <= MAX_COMMANDS
        /\ caps \in Seq(Names) /\ Len(caps) <= MAX_CAPS
        /\ asked \in [Names -> Handlers \cup {NoHandler}]
    BY DEF TypeOK, Entry
  <2>1. CASE UNCHANGED registry BY <2>0, <2>1 DEF registry
  <2>2. CASE RegisterNext
    <3>1. PICK r \in Top.todo : Register(r) BY <2>2 DEF RegisterNext
    <3> DEFINE f == features[r[2]]
    <3>2. f \in Features /\ (\/ r[1] = 1 /\ r[3] \in DOMAIN FeatureCommands[f]
                             \/ r[1] = 2 /\ r[3] \in DOMAIN FeatureCaps[f])
      BY <2>2, NextRegistration DEF RegisterNext
    <3>3. CASE r[1] = 1
      <4>1. [name |-> FeatureCommands[f][r[3]], handler |-> f] \in Entry
        BY <3>2, <3>3, RegistrationEntry
      <4>2. Asking([name |-> FeatureCommands[f][r[3]], handler |-> f]) /\ caps' = caps
        BY <3>1, <3>3 DEF Register
      <4> QED BY <2>0, <4>1, <4>2, AskingTyped
    <3>4. CASE r[1] = 2
      <4>1. FeatureCaps[f] \in Seq(Names) BY <3>2 DEF EngineAssumption
      <4>2. FeatureCaps[f][r[3]] \in Names BY <3>2, <3>4, <4>1
      <4>3. caps' = WithCap(caps, FeatureCaps[f][r[3]]) /\ UNCHANGED <<commands, asked>>
        BY <3>1, <3>4 DEF Register
      <4> QED BY <2>0, <4>2, <4>3, WithCapTyped
    <3> QED BY <3>2, <3>3, <3>4
  <2>3. ASSUME NEW n \in AppNames, RegisterCommand(n)
        PROVE  /\ commands' \in Seq(Entry) /\ Len(commands') <= MAX_COMMANDS
               /\ caps' \in Seq(Names) /\ Len(caps') <= MAX_CAPS
               /\ asked' \in [Names -> Handlers \cup {NoHandler}]
    <3>1. [name |-> n, handler |-> App] \in Entry BY DEF Entry, Handlers, EngineAssumption
    <3> QED BY <2>0, <2>3, <3>1, AskingTyped DEF RegisterCommand
  <2>4. CASE Clearing BY <2>1, <2>4, ClearingDoes
  <2>5. CASE Shutdown /\ ~Clearing BY <2>1, <2>5, StopBegins DEF BeginStop
  <2> QED BY <2>1, <2>2, <2>3, <2>4, <2>5
       DEF Next, vars, Add, Begin, StartReturns, Clearing, ShutdownFeature, Subscribe, Publish, Loop, Deliver,
           PublishReturns, LoopFeature, LoopReturns, registry
<1>2. features' \in Seq(Features) /\ Len(features') <= MAX_FEATURES
  <2>1. CASE UNCHANGED features BY <2>1 DEF TypeOK
  <2>2. ASSUME NEW f \in Features, Add(f) PROVE features' \in Seq(Features) /\ Len(features') <= MAX_FEATURES
    BY <2>2 DEF Add, TypeOK, EngineAssumption
  <2>3. CASE Clearing BY <2>1, <2>3, ClearingDoes
  <2>4. CASE Shutdown /\ ~Clearing BY <2>1, <2>4, StopBegins DEF BeginStop, lifecycle
  <2> QED BY <2>1, <2>2, <2>3, <2>4
       DEF Next, vars, lifecycle, Begin, RegisterNext, StartReturns, Clearing, ShutdownFeature, Subscribe,
           RegisterCommand, Publish, Loop, Deliver, PublishReturns, LoopFeature, LoopReturns
<1>3. subs' \in Seq(Subs) /\ Len(subs') <= MAX_EVENT_SUBS
  <2>0. subs \in Seq(Subs) /\ Len(subs) <= MAX_EVENT_SUBS BY DEF TypeOK
  <2>1. CASE UNCHANGED subs BY <2>0, <2>1
  <2>2. CASE Begin BY <2>0, <2>2, SubscribedTyped DEF Begin, Subs
  <2>3. CASE Clearing
    <3>1. subs' = <<>> BY <2>3, ClearingDoes
    <3>2. <<>> \in Seq(Subs) /\ Len(<<>>) = 0 OBVIOUS
    <3>3. MAX_EVENT_SUBS \in Nat BY DEF EngineAssumption
    <3> QED BY <3>1, <3>2, <3>3
  <2>4. ASSUME NEW l \in Listeners, Subscribe(l) PROVE subs' \in Seq(Subs) /\ Len(subs') <= MAX_EVENT_SUBS
    BY <2>0, <2>4, SubscribedTyped DEF Subscribe, Subs
  <2>5. CASE Shutdown /\ ~Clearing BY <2>1, <2>5, StopBegins DEF BeginStop
  <2> QED BY <2>1, <2>2, <2>3, <2>4, <2>5
       DEF Next, vars, Add, RegisterNext, StartReturns, Clearing, ShutdownFeature, RegisterCommand, Publish, Loop,
           Deliver, PublishReturns, LoopFeature, LoopReturns
<1>4. published' \in 0 .. MaxEvents
  <2>0. published \in 0 .. MaxEvents BY DEF TypeOK
  <2>1. CASE UNCHANGED published BY <2>0, <2>1
  <2>2. CASE Publish BY <2>0, <2>2 DEF Publish, EngineAssumption
  <2>3. CASE Clearing BY <2>1, <2>3, ClearingDoes
  <2>4. CASE Shutdown /\ ~Clearing BY <2>1, <2>4, StopBegins DEF BeginStop
  <2> QED BY <2>1, <2>2, <2>3, <2>4
       DEF Next, vars, Add, Begin, RegisterNext, StartReturns, Clearing, ShutdownFeature, Subscribe,
           RegisterCommand, Loop, Deliver,
           PublishReturns, LoopFeature, LoopReturns
<1>5. started' \in BOOLEAN /\ rewired' \in BOOLEAN /\ overtaken' \in BOOLEAN /\ phase' \in [Features -> Phases]
  <2>0. started \in BOOLEAN /\ rewired \in BOOLEAN /\ overtaken \in BOOLEAN /\ phase \in [Features -> Phases]
    BY DEF TypeOK
  <2>1. CASE UNCHANGED <<started, rewired, overtaken, phase>> BY <2>0, <2>1
  <2>2. CASE Begin
    <3>1. phase' = phase \/ phase' = [f \in Features |-> IF f \in Range(features) THEN "up" ELSE phase[f]]
      BY <2>2 DEF Begin
    <3>2. phase' \in [Features -> Phases] BY <2>0, <3>1 DEF Phases
    <3>3. overtaken' = overtaken \/ overtaken' = Stopping BY <2>2 DEF Begin
    <3>4. Stopping \in BOOLEAN BY DEF Stopping
    <3>5. overtaken' \in BOOLEAN BY <2>0, <3>3, <3>4
    <3>6. rewired' \in BOOLEAN /\ started' = started BY <2>0, <2>2 DEF Begin
    <3> QED BY <2>0, <3>2, <3>5, <3>6
  <2>3. CASE Clearing
    <3>1. ~started' /\ ~rewired' /\ phase' = phase /\ overtaken' = overtaken BY <2>3, ClearingDoes
    <3>2. started' = FALSE /\ rewired' = FALSE BY <2>3 DEF Clearing, Shutdown, BeginStop, AfterStop, StopReturns
    <3> QED BY <2>0, <3>1, <3>2
  <2>4. CASE StartReturns BY <2>0, <2>4 DEF StartReturns
  <2>5. CASE ShutdownFeature
    <3>1. phase' = [phase EXCEPT ![features[Top.left]] = "down"] /\ UNCHANGED <<started, rewired, overtaken>>
      BY <2>5 DEF ShutdownFeature
    <3> QED BY <2>0, <3>1 DEF Phases
  <2>6. CASE Shutdown /\ ~Clearing BY <2>1, <2>6, StopBegins DEF BeginStop, lifecycle
  <2> QED BY <2>1, <2>2, <2>3, <2>4, <2>5, <2>6
       DEF Next, vars, lifecycle, Add, RegisterNext, Clearing, Subscribe, RegisterCommand, Publish, Loop, Deliver,
           PublishReturns, LoopFeature, LoopReturns
<1> QED BY <1>1, <1>2, <1>3, <1>4, <1>5, FramesStep DEF TypeOK, Entry

-----------------------------------------------------------------------------
(* Starting and stopping.                                                  *)

NoStart == \A i \in DOMAIN frames : frames[i].kind # "start"

LEMMA StartOnTop ==
  ASSUME TypeOK, StartInv
  PROVE  InStart \/ NoStart
BY TopIsFrame DEF StartInv, InStart, NoStart, Top, TypeOK

\* Whoever makes a call of its own is not inside start().
LEMMA CallersOutsideStart ==
  ASSUME TypeOK, StartInv,
         (\E call \in Calls : May(call)) \/ AppRuns \/ FeatureRuns
         \/ (frames # <<>> /\ Top.kind \in {"loop", "publish", "stop"})
  PROVE  ~InStart /\ NoStart
<1>1. ~InStart BY DEF InStart, May, AppRuns, HandlerRuns, FeatureRuns
<1> QED BY <1>1, StartOnTop

LEMMA NoStartKept ==
  ASSUME TypeOK, NoStart,
         \/ UNCHANGED frames
         \/ Shutdown \/ ShutdownFeature \/ StopReturns
         \/ Publish \/ Loop \/ Deliver \/ PublishReturns \/ LoopFeature \/ LoopReturns
  PROVE  NoStart'
<1>0. frames \in Seq(Frame) /\ Len(frames) \in Nat /\ DOMAIN frames = 1 .. Len(frames) BY DEF TypeOK
<1>1. CASE UNCHANGED frames BY <1>1 DEF NoStart
<1>2. ASSUME NEW f \in Frame, frames' = Append(frames, f), f.kind # "start" PROVE NoStart'
  <2>1. /\ DOMAIN frames' = 1 .. (Len(frames) + 1) /\ frames'[Len(frames) + 1] = f
        /\ \A i \in DOMAIN frames : frames'[i] = frames[i]
    BY <1>2, PushTyped
  <2>2. \A i \in DOMAIN frames' : i \in DOMAIN frames \/ i = Len(frames) + 1 BY <1>0, <2>1
  <2> QED BY <1>2, <2>1, <2>2 DEF NoStart
<1>3. CASE Clearing BY <1>3, ClearingDoes DEF NoStart
<1>8. CASE Shutdown /\ ~Clearing
  <2>1. [kind |-> "stop", left |-> Len(features)].kind # "start" OBVIOUS
  <2> QED BY <1>2, <1>8, <2>1, StopBegins DEF BeginStop
<1>4. CASE Publish
  <2>1. [kind |-> "publish", next |-> 1, heard |-> <<>>, cleared |-> FALSE].kind # "start" OBVIOUS
  <2> QED BY <1>2, <1>4, <2>1, NewFrames DEF Publish
<1>5. CASE Loop
  <2>1. DOMAIN frames' = {1} /\ frames'[1].kind = "loop" BY <1>5 DEF Loop
  <2> QED BY <2>1 DEF NoStart
<1>6. CASE Deliver \/ LoopFeature \/ ShutdownFeature
  <2>1. PICK f : frames' = SetTop(f) /\ f.kind = Top.kind
    <3>1. CASE Deliver
      <4>1. Top \in PublishFrame BY <3>1, TopIsFrame, FrameKinds DEF Deliver
      <4>2. [Top EXCEPT !.next = @ + 1, !.heard = Append(@, subs[Top.next])].kind = Top.kind
        BY <4>1 DEF PublishFrame
      <4> QED BY <3>1, <4>2 DEF Deliver
    <3>2. CASE LoopFeature
      <4>1. Top \in LoopFrame BY <3>2, TopIsFrame, FrameKinds DEF LoopFeature
      <4>2. [Top EXCEPT !.next = @ + 1].kind = Top.kind BY <4>1 DEF LoopFrame
      <4> QED BY <3>2, <4>2 DEF LoopFeature
    <3>3. CASE ShutdownFeature BY <3>3, ShutdownFeatureDoes
    <3> QED BY <1>6, <3>1, <3>2, <3>3
  <2> QED BY <1>0, <2>1 DEF NoStart, SetTop, Top
<1>7. CASE PublishReturns \/ LoopReturns
  <2>1. frames # <<>> /\ frames' = Pop BY <1>7 DEF PublishReturns, LoopReturns
  <2> QED BY <1>0, <2>1, PopTyped DEF NoStart
<1> QED BY <1>1, <1>3, <1>4, <1>5, <1>6, <1>7, <1>8 DEF Clearing

LEMMA StartStep ==
  ASSUME EngineAssumption, TypeOK, StartInv, [Next]_vars
  PROVE  StartInv'
<1>0. frames \in Seq(Frame) /\ Len(frames) \in Nat /\ DOMAIN frames = 1 .. Len(frames) BY DEF TypeOK
<1>1. CASE UNCHANGED <<features, started, frames>> BY <1>1 DEF StartInv, Registrations
<1>2. ASSUME NEW f \in Features, Add(f) PROVE StartInv' BY <1>2 DEF Add, AppRuns, StartInv
<1>3. CASE Begin
  <2>1. CASE started BY <1>1, <1>3, <2>1 DEF Begin
  <2>2. CASE ~started
    <3> DEFINE new == [kind |-> "start", todo |-> Registrations]
    <3>1. /\ frames' = Append(frames, new) /\ features' = features /\ ~started'
      BY <1>3, <2>2 DEF Begin
    <3>2. NoStart BY <1>3, CallersOutsideStart DEF Begin, Calls
    <3>3. Registrations' = Registrations BY <3>1 DEF Registrations
    <3>4. /\ Len(frames') = Len(frames) + 1 /\ DOMAIN frames' = 1 .. (Len(frames) + 1)
          /\ \A i \in DOMAIN frames : frames'[i] = frames[i]
          /\ frames'[Len(frames) + 1] = new
      BY <1>0, <3>1
    <3>5. new.todo = Registrations OBVIOUS
    <3> QED BY <1>0, <3>1, <3>2, <3>3, <3>4, <3>5 DEF StartInv, NoStart
  <2> QED BY <2>1, <2>2
<1>4. CASE RegisterNext
  <2>1. PICK r \in Top.todo : frames' = SetTop([Top EXCEPT !.todo = @ \ {r}]) BY <1>4 DEF RegisterNext
  <2>2. /\ features' = features /\ started' = started /\ frames # <<>> /\ Top.kind = "start"
    BY <1>4 DEF RegisterNext, lifecycle
  <2>3. Top \in StartFrame BY <2>2, TopIsFrame, FrameKinds
  <2>4. [Top EXCEPT !.todo = @ \ {r}] \in Frame /\ [Top EXCEPT !.todo = @ \ {r}].todo \subseteq Top.todo
    BY <2>3 DEF StartFrame, Frame
  <2>5. /\ Len(frames') = Len(frames) /\ DOMAIN frames' = DOMAIN frames
        /\ frames'[Len(frames)].todo \subseteq Top.todo
        /\ \A i \in DOMAIN frames : i # Len(frames) => frames'[i] = frames[i]
    BY <2>1, <2>2, <2>4, SetTopTyped
  <2>6. ~started /\ Top.todo \subseteq Registrations
    BY <2>2, TopIsFrame DEF StartInv, Top
  <2>7. Registrations' = Registrations BY <2>2 DEF Registrations
  <2> QED BY <2>2, <2>5, <2>6, <2>7 DEF StartInv
<1>5. CASE StartReturns
  <2>1. frames # <<>> /\ frames' = Pop BY <1>5 DEF StartReturns
  <2>2. \A i \in DOMAIN frames' : i \in DOMAIN frames /\ i # Len(frames) /\ frames'[i] = frames[i]
    BY <1>0, <2>1, PopTyped
  <2> QED BY <2>2 DEF StartInv
<1>6. CASE \/ Shutdown \/ ShutdownFeature \/ StopReturns
           \/ Publish \/ Loop \/ Deliver \/ PublishReturns \/ LoopFeature \/ LoopReturns
  <2>1. NoStart
    BY <1>6, CallersOutsideStart
       DEF Shutdown, ShutdownFeature, StopReturns, Publish, Loop, Deliver, PublishReturns, LoopFeature, LoopReturns, Calls
  <2>2. NoStart' BY <1>6, <2>1, NoStartKept
  <2> QED BY <2>2 DEF NoStart, StartInv
<1> QED BY <1>1, <1>2, <1>3, <1>4, <1>5, <1>6 DEF Next, vars, lifecycle, Subscribe, RegisterCommand

LEMMA TypeInit == EngineAssumption /\ Init => TypeOK /\ StartInv
<1> SUFFICES ASSUME EngineAssumption, Init PROVE TypeOK /\ StartInv
  OBVIOUS
<1>1. \A S : <<>> \in Seq(S) /\ Len(<<>>) = 0 OBVIOUS
<1>2. features \in Seq(Features) /\ commands \in Seq([name : Names, handler : Handlers]) /\ caps \in Seq(Names)
      /\ subs \in Seq(Subs) /\ frames \in Seq(Frame)
  BY <1>1 DEF Init
<1>3. Len(features) <= MAX_FEATURES /\ Len(commands) <= MAX_COMMANDS /\ Len(caps) <= MAX_CAPS
      /\ Len(subs) <= MAX_EVENT_SUBS /\ published \in 0 .. MaxEvents
  BY <1>1 DEF Init, EngineAssumption
<1>4. asked \in [Names -> Handlers \cup {NoHandler}] /\ phase \in [Features -> Phases]
  BY DEF Init, Phases
<1>5. TypeOK BY <1>2, <1>3, <1>4 DEF Init, TypeOK
<1>6. StartInv BY DEF Init, StartInv
<1> QED BY <1>5, <1>6

LEMMA StartAlways == Spec => [](TypeOK /\ StartInv)
<1>1. TypeOK /\ StartInv /\ [Next]_vars => (TypeOK /\ StartInv)'
  BY EngineAssumption, TypeStep, StartStep
<1> QED BY <1>1, TypeInit, EngineAssumption, PTL DEF Spec

\* The variables keep their types and every list its capacity, whatever handlers
\* call while an event is under way.
THEOREM TypeCorrect == Spec => []TypeOK
BY StartAlways, PTL
\* Between setup and shutdown a feature is up.  Begun while a stop() is under way,
\* the engine may end with features up that nobody will shut down: overtaken.
\* Until then, what a stop() has gone past is not up.
PhaseInv ==
  /\ \A f \in Features : f \notin Range(features) => phase[f] = "new"
  /\ InStart \/ (started /\ ~Stopping) => \A f \in Range(features) : phase[f] = "up"
  /\ ~started /\ ~InStart /\ ~overtaken => \A f \in Features : phase[f] # "up"

StopInv ==
  \A i \in DOMAIN frames :
    frames[i].kind = "stop" =>
      /\ frames[i].left <= Len(features)
      /\ ~overtaken => \A j \in DOMAIN features : j > frames[i].left => phase[features[j]] # "up"

\* A loop() under way is the outermost call; on an engine that is no longer
\* started it was overtaken by a shutdown().
LoopInv ==
  \A i \in DOMAIN frames :
    frames[i].kind = "loop" => i = 1 /\ (~frames[i].cleared => started)

\* Where no frame is a start(), the innermost is none.
LEMMA NoStartInside ==
  ASSUME NEW f \in Seq(Frame), \A i \in DOMAIN f : f[i].kind # "start", f # <<>>
  PROVE  f[Len(f)].kind # "start"
OBVIOUS

LEMMA NotInStart ==
  ASSUME EngineAssumption, TypeOK, StartInv, [Next]_vars
  PROVE  (NoStart => ~InStart) /\ (NoStart' => ~InStart')
<1>1. frames \in Seq(Frame) BY DEF TypeOK
<1>2. frames' \in Seq(Frame) BY FramesStep
<1>3. NoStart => ~InStart BY <1>1, NoStartInside DEF NoStart, InStart, Top
<1>4. NoStart' => ~InStart' BY <1>2, NoStartInside DEF NoStart, InStart, Top
<1> QED BY <1>3, <1>4

\* Only begin() and the end of shutdown() change whether the engine is starting
\* or started.
LEMMA UpStep ==
  ASSUME EngineAssumption, TypeOK, StartInv, [Next]_vars, ~Begin, ~Clearing
  PROVE  /\ started' \/ InStart' <=> started \/ InStart
         /\ ~StartReturns => started' = started /\ InStart' = InStart
<1>1. CASE RegisterNext
  <2>1. InStart BY <1>1 DEF RegisterNext, InStart
  <2>2. PICK r \in Top.todo : frames' = SetTop([Top EXCEPT !.todo = @ \ {r}]) /\ frames # <<>>
    BY <1>1 DEF RegisterNext
  <2>3. Top \in StartFrame BY <1>1, TopIsFrame, FrameKinds DEF RegisterNext
  <2>4. [Top EXCEPT !.todo = @ \ {r}] \in Frame /\ [Top EXCEPT !.todo = @ \ {r}].kind = "start"
    BY <2>3 DEF StartFrame, Frame
  <2>5. \A g \in Frame : Len(SetTop(g)) = Len(frames) /\ SetTop(g)[Len(frames)] = g
    BY <2>2, SetTopTyped
  <2>6. Len(frames') = Len(frames) /\ frames'[Len(frames)] = [Top EXCEPT !.todo = @ \ {r}]
    BY <2>2, <2>4, <2>5
  <2>7. frames' # <<>> BY <2>2, <2>6, TopIsFrame
  <2>8. InStart' BY <2>4, <2>6, <2>7 DEF InStart, Top
  <2>9. started' = started BY <1>1 DEF RegisterNext, lifecycle
  <2> QED BY <2>1, <2>8, <2>9 DEF InStart
<1>2. CASE StartReturns BY <1>2 DEF StartReturns, InStart
<1>3. CASE \/ \E f \in Features : Add(f)
           \/ (\E l \in Listeners : Subscribe(l)) \/ (\E n \in AppNames : RegisterCommand(n)) \/ UNCHANGED vars
  <2>1. UNCHANGED <<started, frames>>
    BY <1>3 DEF Add, Subscribe, RegisterCommand, lifecycle, vars
  <2> QED BY <2>1 DEF InStart, Top
<1>4. CASE Shutdown \/ ShutdownFeature \/ Publish \/ Loop \/ Deliver \/ PublishReturns \/ LoopFeature \/ LoopReturns
  <2>1. NoStart
    BY <1>4, CallersOutsideStart
       DEF Shutdown, ShutdownFeature, Publish, Loop, Deliver, PublishReturns, LoopFeature, LoopReturns, Calls
  <2>2. NoStart' BY <1>4, <2>1, NoStartKept
  <2>3. started' = started
    BY <1>4, StopBegins DEF BeginStop, ShutdownFeature, Publish, Loop, Deliver, PublishReturns, LoopFeature,
                            LoopReturns, lifecycle
  <2>4. ~InStart /\ ~InStart'
    BY <2>1, <2>2, NotInStart
  <2> QED BY <2>3, <2>4 DEF InStart
<1> QED BY <1>1, <1>2, <1>3, <1>4 DEF Next, Clearing

\* begin() and the end of shutdown(), which neither run inside start().
LEMMA BeginShutdown ==
  ASSUME EngineAssumption, TypeOK, StartInv, [Next]_vars
  PROVE  /\ Begin => ~InStart /\ (started' \/ InStart') /\ (started => ~InStart')
         /\ Clearing => ~InStart /\ ~started' /\ ~InStart'
<1>1. ASSUME Begin PROVE ~InStart /\ (started' \/ InStart') /\ (started => ~InStart')
  <2>1. ~InStart BY <1>1, CallersOutsideStart DEF Begin, Calls
  <2>2. CASE started
    <3>1. started' = started /\ frames' = frames BY <1>1, <2>2 DEF Begin
    <3> QED BY <2>1, <2>2, <3>1 DEF InStart, Top
  <2>3. CASE ~started
    <3>1. frames' = Append(frames, [kind |-> "start", todo |-> Registrations]) /\ frames \in Seq(Frame)
      BY <1>1, <2>3 DEF Begin, TypeOK
    <3>2. [kind |-> "start", todo |-> Registrations] \in Frame BY RegistrationsTyped, NewFrames
    <3>3. /\ Len(frames') = Len(frames) + 1 /\ Len(frames) \in Nat
          /\ frames'[Len(frames) + 1] = [kind |-> "start", todo |-> Registrations]
      BY <3>1, <3>2, PushTyped
    <3>4. frames'[Len(frames')].kind = "start" BY <3>3
    <3>5. frames' # <<>> BY <3>3
    <3> QED BY <2>1, <2>3, <3>4, <3>5 DEF InStart, Top
  <2> QED BY <2>2, <2>3
<1>2. ASSUME Clearing PROVE ~InStart /\ ~started' /\ ~InStart'
  <2>1. ~InStart /\ NoStart BY <1>2, CallersOutsideStart DEF Clearing, Shutdown, StopReturns, Calls
  <2>2. NoStart' BY <1>2, <2>1, NoStartKept DEF Clearing
  <2>3. ~InStart' BY <2>2, NotInStart
  <2> QED BY <1>2, <2>1, <2>3, ClearingDoes
<1> QED BY <1>1, <1>2

\* What a step does to the stack: the calls below the innermost stay what they
\* are, but for the mark clear() puts on them.
StepOnStack ==
  \/ frames' = frames
  \/ frames = <<>> /\ frames' = <<[kind |-> "loop", next |-> 1, cleared |-> FALSE]>> /\ started
  \/ \E f \in Frame : frames' = Append(frames, f) /\ f.kind # "loop"
                      /\ (f.kind = "stop" => Shutdown /\ ~Clearing)
  \/ \E f \in Frame : /\ frames # <<>> /\ frames' = SetTop(f) /\ f.kind = Top.kind
                      /\ f.kind = "loop" => f.cleared = Top.cleared
                      /\ f.kind = "stop" => ShutdownFeature
  \/ frames # <<>> /\ frames' = Pop /\ Top.kind # "stop"
  \/ Clearing

LEMMA StackSteps ==
  ASSUME EngineAssumption, TypeOK, StartInv, [Next]_vars
  PROVE  StepOnStack
<1>1. CASE \/ \E f \in Features : Add(f)
           \/ (\E l \in Listeners : Subscribe(l)) \/ (\E n \in AppNames : RegisterCommand(n)) \/ UNCHANGED vars
  BY <1>1 DEF Add, Subscribe, RegisterCommand, vars, StepOnStack
<1>2. CASE Begin
  <2> DEFINE f == [kind |-> "start", todo |-> Registrations]
  <2>1. frames' = frames \/ frames' = Append(frames, f) BY <1>2 DEF Begin
  <2>2. f \in Frame /\ f.kind = "start" BY RegistrationsTyped, NewFrames
  <2> HIDE DEF f
  <2> QED BY <2>1, <2>2 DEF StepOnStack
<1>3. CASE RegisterNext
  <2>1. PICK r \in Top.todo : frames' = SetTop([Top EXCEPT !.todo = @ \ {r}]) /\ frames # <<>> /\ Top.kind = "start"
    BY <1>3 DEF RegisterNext
  <2>2. Top \in StartFrame BY <2>1, TopIsFrame, FrameKinds
  <2> DEFINE f == [Top EXCEPT !.todo = @ \ {r}]
  <2>3. f \in Frame /\ f.kind = "start" BY <2>2 DEF StartFrame, Frame
  <2>4. frames' = SetTop(f) BY <2>1
  <2> HIDE DEF f
  <2> QED BY <2>1, <2>3, <2>4 DEF StepOnStack
<1>4. CASE StartReturns \/ PublishReturns \/ LoopReturns
  BY <1>4 DEF StartReturns, PublishReturns, LoopReturns, StepOnStack
<1>5. CASE Clearing BY <1>5 DEF StepOnStack
<1>6. CASE Shutdown /\ ~Clearing
  <2> DEFINE f == [kind |-> "stop", left |-> Len(features)]
  <2>1. f \in Frame /\ frames' = Append(frames, f) /\ f.kind # "loop"
    BY <1>6, StopBegins DEF BeginStop
  <2> HIDE DEF f
  <2> QED BY <1>6, <2>1 DEF StepOnStack
<1>7. CASE ShutdownFeature
  <2> DEFINE f == [Top EXCEPT !.left = @ - 1]
  <2>1. frames # <<>> /\ frames' = SetTop(f) /\ f \in Frame /\ f.kind = "stop" /\ Top.kind = "stop"
    BY <1>7, ShutdownFeatureDoes
  <2> HIDE DEF f
  <2> QED BY <1>7, <2>1 DEF StepOnStack
<1>8. CASE Publish
  <2> DEFINE f == [kind |-> "publish", next |-> 1, heard |-> <<>>, cleared |-> FALSE]
  <2>1. frames' = Append(frames, f) /\ f \in Frame /\ f.kind = "publish" BY <1>8, NewFrames DEF Publish
  <2> HIDE DEF f
  <2> QED BY <2>1 DEF StepOnStack
<1>9. CASE Loop BY <1>9 DEF Loop, AppRuns, StepOnStack
<1>10. CASE Deliver
  <2>1. frames # <<>> /\ Top.kind = "publish" /\ frames' = SetTop([Top EXCEPT !.next = @ + 1, !.heard = Append(@, subs[Top.next])])
    BY <1>10 DEF Deliver
  <2>2. Top \in PublishFrame BY <2>1, TopIsFrame, FrameKinds
  <2>3. Top.next \in Nat \ {0} /\ Top.heard \in Seq(Subs) BY <2>2 DEF PublishFrame
  <2>4. subs[Top.next] \in Subs BY <1>10, <2>3 DEF Deliver, TypeOK
  <2>5. Top.next + 1 \in Nat \ {0} /\ Append(Top.heard, subs[Top.next]) \in Seq(Subs) BY <2>3, <2>4
  <2> DEFINE f == [Top EXCEPT !.next = @ + 1, !.heard = Append(@, subs[Top.next])]
  <2>6. f \in Frame /\ f.kind = "publish" BY <2>2, <2>5 DEF PublishFrame, Frame
  <2>7. frames' = SetTop(f) BY <2>1
  <2> HIDE DEF f
  <2> QED BY <2>1, <2>6, <2>7 DEF StepOnStack
<1>11. CASE LoopFeature
  <2>1. frames # <<>> /\ Top.kind = "loop" /\ frames' = SetTop([Top EXCEPT !.next = @ + 1]) BY <1>11 DEF LoopFeature
  <2>2. Top \in LoopFrame BY <2>1, TopIsFrame, FrameKinds
  <2>3. Top.next + 1 \in Nat \ {0} BY <2>2 DEF LoopFrame
  <2> DEFINE f == [Top EXCEPT !.next = @ + 1]
  <2>4. f \in LoopFrame /\ f.kind = "loop" /\ f.cleared = Top.cleared BY <2>2, <2>3 DEF LoopFrame
  <2>5. frames' = SetTop(f) /\ f \in Frame BY <2>1, <2>4 DEF Frame
  <2> HIDE DEF f
  <2> QED BY <2>1, <2>4, <2>5 DEF StepOnStack
<1> QED BY <1>1, <1>2, <1>3, <1>4, <1>5, <1>6, <1>7, <1>8, <1>9, <1>10, <1>11 DEF Next, Clearing

\* The stop() calls under way change when one begins, goes on or returns.
LEMMA StopFramesKept ==
  ASSUME EngineAssumption, TypeOK, StartInv, [Next]_vars, Shutdown => Clearing, ~ShutdownFeature
  PROVE  /\ \A i \in DOMAIN frames' :
              frames'[i].kind = "stop" => i \in DOMAIN frames /\ frames'[i] = frames[i]
         /\ ~Clearing => Stopping' = Stopping
<1>0. frames \in Seq(Frame) /\ Len(frames) \in Nat /\ DOMAIN frames = 1 .. Len(frames) BY DEF TypeOK
<1> DEFINE Kept == /\ \A i \in DOMAIN frames' :
                        frames'[i].kind = "stop" => i \in DOMAIN frames /\ frames'[i] = frames[i]
                   /\ \A i \in DOMAIN frames :
                        frames[i].kind = "stop" => i \in DOMAIN frames' /\ frames'[i] = frames[i]
<1>1. CASE frames' = frames BY <1>1 DEF Stopping
<1>2. CASE frames = <<>> /\ frames' = <<[kind |-> "loop", next |-> 1, cleared |-> FALSE]>>
  <2>1. DOMAIN frames' = {1} /\ frames'[1].kind = "loop" /\ DOMAIN frames = {} BY <1>2
  <2> QED BY <2>1 DEF Stopping
<1>3. ASSUME NEW f \in Frame, frames' = Append(frames, f), f.kind # "stop" PROVE Kept
  <2>1. /\ DOMAIN frames' = 1 .. (Len(frames) + 1) /\ frames'[Len(frames) + 1] = f
        /\ \A i \in DOMAIN frames : frames'[i] = frames[i]
    BY <1>3, PushTyped
  <2>2. \A i \in DOMAIN frames' : i \in DOMAIN frames \/ i = Len(frames) + 1 BY <1>0, <2>1
  <2>3. \A i \in DOMAIN frames : i \in DOMAIN frames' BY <1>0, <2>1
  <2> QED BY <1>3, <2>1, <2>2, <2>3
<1>4. ASSUME NEW f \in Frame, frames # <<>>, frames' = SetTop(f), f.kind = Top.kind, f.kind # "stop" PROVE Kept
  <2>1. /\ DOMAIN frames' = DOMAIN frames /\ frames'[Len(frames)] = f
        /\ \A i \in DOMAIN frames : i # Len(frames) => frames'[i] = frames[i]
    BY <1>4, SetTopTyped
  <2> QED BY <1>4, <2>1 DEF Top
<1>5. CASE frames # <<>> /\ frames' = Pop /\ Top.kind # "stop"
  <2>1. DOMAIN frames' = 1 .. (Len(frames) - 1) /\ \A i \in DOMAIN frames' : frames'[i] = frames[i]
    BY <1>5, PopTyped
  <2>2. \A i \in DOMAIN frames' : i \in DOMAIN frames BY <1>0, <2>1
  <2>3. \A i \in DOMAIN frames : i # Len(frames) => i \in DOMAIN frames' BY <1>0, <2>1
  <2>4. Kept BY <1>5, <2>1, <2>2, <2>3 DEF Top
  <2> QED BY <2>4 DEF Stopping
<1>6. CASE Clearing BY <1>6, ClearingDoes
<1>7. ASSUME Kept PROVE Stopping' = Stopping BY <1>7 DEF Stopping
<1>8. \/ frames' = frames
      \/ frames = <<>> /\ frames' = <<[kind |-> "loop", next |-> 1, cleared |-> FALSE]>>
      \/ \E f \in Frame : frames' = Append(frames, f) /\ f.kind # "stop"
      \/ \E f \in Frame : frames # <<>> /\ frames' = SetTop(f) /\ f.kind = Top.kind /\ f.kind # "stop"
      \/ frames # <<>> /\ frames' = Pop /\ Top.kind # "stop"
      \/ Clearing
  BY StackSteps DEF StepOnStack
<1> HIDE DEF Kept
<1>9. \/ frames' = frames
      \/ frames = <<>> /\ frames' = <<[kind |-> "loop", next |-> 1, cleared |-> FALSE]>>
      \/ Kept
      \/ frames # <<>> /\ frames' = Pop /\ Top.kind # "stop"
      \/ Clearing
  BY <1>3, <1>4, <1>8
<1>10. CASE Kept BY <1>7, <1>10 DEF Kept
<1> QED BY <1>1, <1>2, <1>5, <1>6, <1>9, <1>10

\* Every feature is one of _features, or has never been set up.
LEMMA RangeIs ==
  ASSUME TypeOK
  PROVE  /\ \A f \in Range(features) : \E j \in DOMAIN features : features[j] = f
         /\ \A j \in DOMAIN features : features[j] \in Range(features) /\ features[j] \in Features
         /\ DOMAIN features = 1 .. Len(features) /\ Len(features) \in Nat
<1>1. features \in Seq(Features) BY DEF TypeOK
<1> QED BY <1>1 DEF Range

LEMMA AddStep ==
  ASSUME EngineAssumption, TypeOK, PhaseInv, NEW f \in Features, Add(f)
  PROVE  PhaseInv' /\ StopInv'
<1>1. /\ ~InStart /\ ~InStart' /\ ~started /\ UNCHANGED <<started, phase, overtaken, frames>>
      /\ DOMAIN frames = {}
  BY DEF Add, AppRuns, InStart
<1>2. \A x \in Range(features) : x \in Range(features')
  <2>1. features' = Append(features, f) /\ features \in Seq(Features) BY DEF Add, TypeOK
  <2>2. \A j \in DOMAIN features : j \in DOMAIN features' /\ features'[j] = features[j] BY <2>1
  <2> QED BY <2>2 DEF Range
<1>3. PhaseInv' BY <1>1, <1>2 DEF PhaseInv
<1>4. StopInv' BY <1>1 DEF StopInv
<1> QED BY <1>3, <1>4

LEMMA BeginStep ==
  ASSUME EngineAssumption, TypeOK, StartInv, PhaseInv, StopInv, [Next]_vars, Begin
  PROVE  PhaseInv' /\ StopInv'
<1>1. ~InStart /\ features' = features /\ started' = started /\ (started => ~InStart') /\ (~started => InStart')
  BY BeginShutdown DEF Begin
<1>2. CASE started
  <2>1. UNCHANGED <<phase, overtaken, frames>> BY <1>2 DEF Begin
  <2>2. Stopping' = Stopping BY <2>1 DEF Stopping
  <2> QED BY <1>1, <1>2, <2>1, <2>2 DEF PhaseInv, StopInv
<1>3. CASE ~started
  <2>1. phase' = [f \in Features |-> IF f \in Range(features) THEN "up" ELSE phase[f]] /\ overtaken' = Stopping
    BY <1>3 DEF Begin
  <2>2. \A f \in Range(features) : f \in Features BY RangeIs
  <2>3. PhaseInv' BY <1>1, <1>3, <2>1, <2>2 DEF PhaseInv
  <2>4. (Shutdown => Clearing) /\ ~ShutdownFeature
    <3>1. Shutdown => Clearing BY <1>3 DEF Clearing
    <3>2. ~ShutdownFeature
      BY <1>3 DEF ShutdownFeature, Begin, May, AppRuns, HandlerRuns
    <3> QED BY <3>1, <3>2
  <2>5. ASSUME NEW i \in DOMAIN frames', frames'[i].kind = "stop"
        PROVE  frames'[i].left <= Len(features) /\ overtaken'
    <3>1. i \in DOMAIN frames /\ frames'[i] = frames[i] BY <2>4, <2>5, StopFramesKept
    <3>2. Stopping BY <2>5, <3>1 DEF Stopping
    <3> QED BY <2>1, <2>5, <3>1, <3>2 DEF StopInv
  <2>6. StopInv' BY <1>1, <2>5 DEF StopInv
  <2> QED BY <2>3, <2>6
<1> QED BY <1>2, <1>3

LEMMA BeginStopStep ==
  ASSUME EngineAssumption, TypeOK, StartInv, PhaseInv, StopInv, [Next]_vars, Shutdown, ~Clearing
  PROVE  PhaseInv' /\ StopInv'
<1>1. /\ started /\ UNCHANGED <<features, started, phase, overtaken>>
      /\ frames' = Append(frames, [kind |-> "stop", left |-> Len(features)])
      /\ [kind |-> "stop", left |-> Len(features)] \in Frame
  BY StopBegins DEF BeginStop, lifecycle
<1>2. NoStart BY CallersOutsideStart DEF Shutdown, Calls
<1>3. NoStart' BY <1>2, NoStartKept
<1>4. ~InStart' BY <1>3, NotInStart
<1> DEFINE f == [kind |-> "stop", left |-> Len(features)]
<1>5. f.kind = "stop" /\ f.left = Len(features) OBVIOUS
<1>6. /\ DOMAIN frames' = 1 .. (Len(frames) + 1) /\ frames'[Len(frames) + 1] = f
      /\ \A i \in DOMAIN frames : frames'[i] = frames[i]
      /\ Len(frames) \in Nat /\ DOMAIN frames = 1 .. Len(frames)
  BY <1>1, PushTyped DEF TypeOK
<1> HIDE DEF f
<1>7. Len(frames) + 1 \in DOMAIN frames' /\ \A i \in DOMAIN frames' : i \in DOMAIN frames \/ i = Len(frames) + 1
  BY <1>6
<1>8. Stopping' BY <1>5, <1>6, <1>7 DEF Stopping
<1>9. PhaseInv' BY <1>1, <1>4, <1>8 DEF PhaseInv
<1>10. \A j \in DOMAIN features : ~(j > Len(features)) /\ Len(features) <= Len(features) BY RangeIs
<1>11. Len(features) <= Len(features) BY RangeIs
<1>12. StopInv'
  <2> SUFFICES ASSUME NEW i \in DOMAIN frames', frames'[i].kind = "stop"
               PROVE  /\ frames'[i].left <= Len(features)
                      /\ ~overtaken => \A j \in DOMAIN features : j > frames'[i].left => phase[features[j]] # "up"
    BY <1>1 DEF StopInv
  <2>1. CASE i \in DOMAIN frames BY <1>6, <2>1 DEF StopInv
  <2>2. CASE i = Len(frames) + 1 BY <1>5, <1>6, <1>10, <1>11, <2>2
  <2> QED BY <1>7, <2>1, <2>2
<1> QED BY <1>9, <1>12

LEMMA ShutdownFeatureStep ==
  ASSUME EngineAssumption, TypeOK, StartInv, PhaseInv, StopInv, [Next]_vars, ShutdownFeature
  PROVE  PhaseInv' /\ StopInv'
<1> DEFINE f == [Top EXCEPT !.left = @ - 1]
           n == Top.left
<1>1. /\ frames # <<>> /\ Top.kind = "stop" /\ frames' = SetTop(f) /\ f \in Frame /\ f.kind = "stop"
      /\ f.left = n - 1 /\ n \in Nat \ {0}
  BY ShutdownFeatureDoes
<1>2. /\ UNCHANGED <<features, started, overtaken>> /\ phase' = [phase EXCEPT ![features[n]] = "down"]
  BY DEF ShutdownFeature
<1>3. n <= Len(features)
      /\ (~overtaken => \A j \in DOMAIN features : j > n => phase[features[j]] # "up")
  BY <1>1, TopIsFrame DEF StopInv, Top
<1>4. n \in DOMAIN features /\ features[n] \in Range(features) /\ features[n] \in Features
  BY <1>1, <1>3, RangeIs
<1>5. phase \in [Features -> Phases] BY DEF TypeOK
<1> HIDE DEF f, n
<1>6. /\ DOMAIN frames' = DOMAIN frames /\ frames'[Len(frames)] = f /\ Len(frames) \in DOMAIN frames
      /\ \A i \in DOMAIN frames : i # Len(frames) => frames'[i] = frames[i]
  BY <1>1, SetTopTyped, TopIsFrame
<1>7. \A g \in Features : (phase'[g] = phase[g] \/ phase'[g] = "down") /\ (g # features[n] => phase'[g] = phase[g])
  BY <1>2, <1>5
<1>8. phase'[features[n]] = "down" BY <1>2, <1>4, <1>5
<1>9. NoStart BY <1>1, CallersOutsideStart
<1>10. NoStart' BY <1>9, NoStartKept
<1>11. ~InStart' /\ ~InStart BY <1>9, <1>10, NotInStart
<1>12. Stopping' BY <1>1, <1>6 DEF Stopping
<1>13. PhaseInv'
  <2>1. \A g \in Features : g \notin Range(features') => phase'[g] = "new" BY <1>2, <1>4, <1>7 DEF PhaseInv
  <2>2. ~started' /\ ~InStart' /\ ~overtaken' => \A g \in Features : phase'[g] # "up"
    BY <1>2, <1>7, <1>11 DEF PhaseInv
  <2> QED BY <1>11, <1>12, <2>1, <2>2 DEF PhaseInv
<1>14. StopInv'
  <2> SUFFICES ASSUME NEW i \in DOMAIN frames', frames'[i].kind = "stop"
               PROVE  /\ frames'[i].left <= Len(features)
                      /\ ~overtaken => \A j \in DOMAIN features : j > frames'[i].left => phase'[features[j]] # "up"
    BY <1>2 DEF StopInv
  <2>0. \A j \in DOMAIN features : features[j] \in Features /\ j \in Nat BY RangeIs
  <2>1. CASE i # Len(frames)
    <3>1. frames'[i] = frames[i] /\ i \in DOMAIN frames BY <1>6, <2>1
    <3>2. /\ frames[i].left <= Len(features)
          /\ ~overtaken => \A j \in DOMAIN features : j > frames[i].left => phase[features[j]] # "up"
      BY <3>1 DEF StopInv
    <3>3. \A j \in DOMAIN features : phase[features[j]] # "up" => phase'[features[j]] # "up" BY <1>7, <2>0
    <3> QED BY <3>1, <3>2, <3>3
  <2>2. CASE i = Len(frames)
    <3>1. frames'[i] = f BY <1>6, <2>2
    <3>2. n - 1 <= Len(features) BY <1>1, <1>3, RangeIs
    <3>3. ASSUME ~overtaken, NEW j \in DOMAIN features, j > n - 1 PROVE phase'[features[j]] # "up"
      <4>1. j = n \/ j > n BY <1>1, <2>0, <3>3
      <4>2. CASE j = n BY <1>8, <4>2
      <4>3. CASE j > n
        <5>1. phase[features[j]] # "up" BY <1>3, <3>3, <4>3
        <5> QED BY <1>7, <2>0, <5>1
      <4> QED BY <4>1, <4>2, <4>3
    <3> QED BY <1>1, <3>1, <3>2, <3>3
  <2> QED BY <2>1, <2>2
<1> QED BY <1>13, <1>14

LEMMA ClearingStep ==
  ASSUME EngineAssumption, TypeOK, StartInv, PhaseInv, StopInv, [Next]_vars, Clearing
  PROVE  PhaseInv' /\ StopInv'
<1>1. ~started' /\ UNCHANGED <<features, phase, overtaken>> BY ClearingDoes
<1>2. ~InStart /\ ~InStart' BY BeginShutdown
<1>3. ASSUME ~overtaken, NEW f \in Features PROVE phase[f] # "up"
  <2>1. CASE ~started BY <1>2, <1>3, <2>1 DEF PhaseInv
  <2>2. CASE started
    <3>1. StopReturns BY <2>2 DEF Clearing
    <3>2. frames # <<>> /\ Top.kind = "stop" /\ Top.left = 0 BY <3>1 DEF StopReturns
    <3>3. \A j \in DOMAIN features : j > 0 => phase[features[j]] # "up"
      BY <1>3, <3>2, TopIsFrame DEF StopInv, Top
    <3>4. \A j \in DOMAIN features : j > 0 BY RangeIs
    <3>5. CASE f \in Range(features) BY <3>3, <3>4, <3>5, RangeIs
    <3>6. CASE f \notin Range(features) BY <3>6 DEF PhaseInv
    <3> QED BY <3>5, <3>6
  <2> QED BY <2>1, <2>2
<1>4. PhaseInv' BY <1>1, <1>2, <1>3 DEF PhaseInv
<1>5. \A i \in DOMAIN frames' : frames'[i].kind = "stop" => i \in DOMAIN frames /\ frames'[i] = frames[i]
  BY ClearingDoes
<1>6. StopInv' BY <1>1, <1>5 DEF StopInv
<1> QED BY <1>4, <1>6

LEMMA PhaseStep ==
  ASSUME EngineAssumption, TypeOK, StartInv, PhaseInv, StopInv, [Next]_vars
  PROVE  PhaseInv' /\ StopInv'
<1>1. CASE \E f \in Features : Add(f) BY <1>1, AddStep
<1>2. CASE Begin BY <1>2, BeginStep
<1>3. CASE Clearing BY <1>3, ClearingStep
<1>4. CASE Shutdown /\ ~Clearing BY <1>4, BeginStopStep
<1>5. CASE ShutdownFeature BY <1>5, ShutdownFeatureStep
<1>6. CASE ~Begin /\ ~Clearing /\ ~Shutdown /\ ~ShutdownFeature /\ ~\E f \in Features : Add(f)
  <2>1. UNCHANGED <<features, phase, overtaken>>
    BY <1>6 DEF Next, vars, lifecycle, RegisterNext, StartReturns, Clearing, Subscribe, RegisterCommand, Publish,
                Loop, Deliver, PublishReturns, LoopFeature, LoopReturns
  <2>2. /\ started' \/ InStart' <=> started \/ InStart
        /\ ~StartReturns => started' = started /\ InStart' = InStart
    BY <1>6, UpStep
  <2>3. /\ \A i \in DOMAIN frames' :
             frames'[i].kind = "stop" => i \in DOMAIN frames /\ frames'[i] = frames[i]
        /\ Stopping' = Stopping
    BY <1>6, StopFramesKept
  <2>4. StopInv' BY <2>1, <2>3 DEF StopInv
  <2>5. StartReturns => InStart BY DEF StartReturns, InStart
  <2>6. (InStart' \/ (started' /\ ~Stopping')) => InStart \/ (started /\ ~Stopping)
    BY <2>2, <2>3, <2>5
  <2>7. PhaseInv' BY <2>1, <2>2, <2>6 DEF PhaseInv
  <2> QED BY <2>4, <2>7
<1> QED BY <1>1, <1>2, <1>3, <1>4, <1>5, <1>6

LEMMA PhaseAlways == Spec => [](TypeOK /\ StartInv /\ PhaseInv /\ StopInv)
<1>1. Init => PhaseInv /\ StopInv
  BY DEF Init, PhaseInv, StopInv, InStart, Range
<1>2. TypeOK /\ StartInv /\ PhaseInv /\ StopInv /\ [Next]_vars => PhaseInv' /\ StopInv'
  BY EngineAssumption, PhaseStep
<1> QED BY <1>1, <1>2, StartAlways, PTL DEF Spec

\* Outside start() itself, a started engine that is not being stopped has all its
\* features up, and one that is not started has none up, unless a begin() called
\* inside a stop() has set them up behind its back.
THEOREM FeaturesUp == Spec => []UpIffStarted
<1>1. TypeOK /\ PhaseInv => UpIffStarted
  BY DEF PhaseInv, UpIffStarted, InStart
<1> QED BY <1>1, PhaseAlways, PTL

LEMMA LoopInvStep ==
  ASSUME EngineAssumption, TypeOK, StartInv, LoopInv, [Next]_vars
  PROVE  LoopInv'
<1>0. frames \in Seq(Frame) /\ Len(frames) \in Nat /\ DOMAIN frames = 1 .. Len(frames) BY DEF TypeOK
<1>1. CASE Clearing
  <2>1. \A i \in DOMAIN frames' :
          /\ i \in DOMAIN frames /\ frames'[i].kind = frames[i].kind
          /\ frames[i].kind = "loop" => frames'[i].cleared
    BY <1>1, ClearingDoes
  <2> QED BY <2>1 DEF LoopInv
<1>2. ASSUME ~Clearing PROVE started => started'
  BY <1>2 DEF Next, vars, Clearing, Shutdown, BeginStop, ShutdownFeature, Add, Begin, RegisterNext, StartReturns,
              Subscribe, RegisterCommand, Publish, Loop, Deliver, PublishReturns, LoopFeature, LoopReturns, lifecycle
<1>3. CASE ~Clearing /\ frames' = frames BY <1>2, <1>3 DEF LoopInv
<1>4. CASE ~Clearing /\ frames = <<>> /\ started /\ frames' = <<[kind |-> "loop", next |-> 1, cleared |-> FALSE]>>
  <2>1. DOMAIN frames' = {1} BY <1>4
  <2> QED BY <1>2, <1>4, <2>1 DEF LoopInv
<1>5. ASSUME ~Clearing, NEW f \in Frame, frames' = Append(frames, f), f.kind # "loop" PROVE LoopInv'
  <2>1. /\ DOMAIN frames' = 1 .. (Len(frames) + 1) /\ frames'[Len(frames) + 1] = f
        /\ \A i \in DOMAIN frames : frames'[i] = frames[i]
    BY <1>5, PushTyped
  <2>2. \A i \in DOMAIN frames' : i \in DOMAIN frames \/ i = Len(frames) + 1 BY <1>0, <2>1
  <2> QED BY <1>2, <1>5, <2>1, <2>2 DEF LoopInv
<1>6. ASSUME ~Clearing, NEW f \in Frame, frames # <<>>, frames' = SetTop(f), f.kind = Top.kind,
             f.kind = "loop" => f.cleared = Top.cleared
      PROVE  LoopInv'
  <2>1. /\ DOMAIN frames' = DOMAIN frames /\ frames'[Len(frames)] = f
        /\ \A i \in DOMAIN frames : i # Len(frames) => frames'[i] = frames[i]
    BY <1>6, SetTopTyped
  <2> QED BY <1>2, <1>6, <2>1 DEF LoopInv, Top
<1>7. CASE ~Clearing /\ frames # <<>> /\ frames' = Pop
  <2>1. \A i \in DOMAIN frames' : i \in DOMAIN frames /\ frames'[i] = frames[i]
    BY <1>0, <1>7, PopTyped
  <2> QED BY <1>2, <1>7, <2>1 DEF LoopInv
<1> QED BY <1>1, <1>3, <1>4, <1>5, <1>6, <1>7, StackSteps DEF StepOnStack

\* No loop() reaches a feature that is not up, unless the engine was shut down
\* during that very loop().
THEOREM LoopsReachUp == Spec => LoopOnlyWhenUp
<1> DEFINE Inv == TypeOK /\ StartInv /\ PhaseInv /\ LoopInv
<1>1. Spec => []Inv
  <2>1. Init => LoopInv BY DEF Init, LoopInv
  <2>2. TypeOK /\ StartInv /\ LoopInv /\ [Next]_vars => LoopInv'
    BY EngineAssumption, LoopInvStep
  <2> QED BY <2>1, <2>2, PhaseAlways, PTL DEF Spec
<1>2. Inv /\ [Next]_vars => [LoopFeature /\ ~Top.cleared => phase[features[Top.next]] = "up"]_vars
  <2> SUFFICES ASSUME Inv, LoopFeature, ~Top.cleared PROVE phase[features[Top.next]] = "up"
    OBVIOUS
  <2>1. started /\ Len(frames) = 1 BY TopIsFrame DEF LoopFeature, LoopInv, Top
  <2>2. Top \in LoopFrame BY TopIsFrame, FrameKinds DEF LoopFeature
  <2>3. Top.next \in DOMAIN features BY <2>2 DEF LoopFeature, LoopFrame, TypeOK
  <2>4. features[Top.next] \in Features /\ features[Top.next] \in Range(features)
    BY <2>3 DEF TypeOK, Range
  <2>5. ~Stopping
    <3>1. \A i \in DOMAIN frames : frames[i] = Top
      BY <2>1, TopIsFrame DEF Top
    <3>2. Top.kind = "loop" BY DEF LoopFeature
    <3> QED BY <3>1, <3>2 DEF Stopping
  <2> QED BY <2>1, <2>4, <2>5 DEF PhaseInv
<1> QED BY <1>1, <1>2, PTL DEF Spec, LoopOnlyWhenUp

-----------------------------------------------------------------------------
(* Events.                                                                 *)

\* An event under way has been heard by the subscribers before _subs[next].
EventInv ==
  \A i \in DOMAIN frames :
    frames[i].kind = "publish" /\ ~frames[i].cleared =>
      frames[i].next - 1 <= Len(subs) /\ frames[i].heard = SubSeq(subs, 1, frames[i].next - 1)

Heard(f, list) == f.next - 1 <= Len(list) /\ f.heard = SubSeq(list, 1, f.next - 1)

\* A list that grows keeps its beginning.
LEMMA GrownList ==
  ASSUME NEW list \in Seq(Subs), NEW s \in Subs, NEW n \in Nat, n <= Len(list)
  PROVE  /\ n <= Len(Subscribed(list, s))
         /\ SubSeq(Subscribed(list, s), 1, n) = SubSeq(list, 1, n)
<1>1. CASE Subscribed(list, s) = list BY <1>1
<1>2. CASE Subscribed(list, s) = Append(list, s)
  <2>1. \A i \in 1 .. n : Append(list, s)[i] = list[i] /\ list[i] \in Subs OBVIOUS
  <2>2. Len(Append(list, s)) = Len(list) + 1 OBVIOUS
  <2>3. /\ SubSeq(list, 1, n) \in Seq(Subs) /\ SubSeq(Append(list, s), 1, n) \in Seq(Subs)
        /\ Len(SubSeq(list, 1, n)) = n /\ Len(SubSeq(Append(list, s), 1, n)) = n
        /\ \A i \in 1 .. n : SubSeq(list, 1, n)[i] = SubSeq(Append(list, s), 1, n)[i]
    <3>1. \A i \in 1 .. n : list[i] \in Subs /\ Append(list, s)[i] \in Subs BY <2>1
    <3>2. 1 \in Int /\ n \in Int OBVIOUS
    <3>3. /\ SubSeq(list, 1, n) \in Seq(Subs)
          /\ Len(SubSeq(list, 1, n)) = IF 1 <= n THEN n - 1 + 1 ELSE 0
          /\ \A i \in 1 .. n - 1 + 1 : SubSeq(list, 1, n)[i] = list[1 + i - 1]
      BY <3>1, <3>2, SubSeqProperties
    <3>4. /\ SubSeq(Append(list, s), 1, n) \in Seq(Subs)
          /\ Len(SubSeq(Append(list, s), 1, n)) = IF 1 <= n THEN n - 1 + 1 ELSE 0
          /\ \A i \in 1 .. n - 1 + 1 : SubSeq(Append(list, s), 1, n)[i] = Append(list, s)[1 + i - 1]
      BY <3>1, <3>2, SubSeqProperties
    <3> QED BY <2>1, <3>3, <3>4
  <2>4. SubSeq(Append(list, s), 1, n) = SubSeq(list, 1, n)
    BY <2>3, SeqEqual
  <2> QED BY <1>2, <2>2, <2>4
<1> QED BY <1>1, <1>2 DEF Subscribed

\* The first n subscribers are the first n - 1 and the n-th.
LEMMA OneMoreHeard ==
  ASSUME NEW list \in Seq(Subs), NEW n \in 1 .. Len(list)
  PROVE  Append(SubSeq(list, 1, n - 1), list[n]) = SubSeq(list, 1, n)
<1>1. n \in Nat /\ Len(list) \in Nat /\ 1 <= n /\ n <= Len(list) OBVIOUS
<1>2. list[n] \in Subs BY <1>1
<1>3. SubSeq(list, 1, n - 1) \in Seq(Subs) /\ Len(SubSeq(list, 1, n - 1)) = n - 1
  BY <1>1
<1>4. \A i \in 1 .. n - 1 : SubSeq(list, 1, n - 1)[i] = list[i] BY <1>1
<1>5. SubSeq(list, 1, n) \in Seq(Subs) /\ Len(SubSeq(list, 1, n)) = n
  BY <1>1
<1>6. \A i \in 1 .. n : SubSeq(list, 1, n)[i] = list[i] BY <1>1
<1> DEFINE a == Append(SubSeq(list, 1, n - 1), list[n])
<1>7. a \in Seq(Subs) /\ Len(a) = n BY <1>1, <1>2, <1>3
<1>8. \A i \in 1 .. n : a[i] = list[i] BY <1>1, <1>2, <1>3, <1>4
<1> HIDE DEF a
<1>9. a = SubSeq(list, 1, n) BY <1>1, <1>5, <1>6, <1>7, <1>8, SeqEqual
<1> QED BY <1>9 DEF a

LEMMA EventStep ==
  ASSUME EngineAssumption, TypeOK, StartInv, EventInv, [Next]_vars
  PROVE  EventInv'
<1>0. /\ frames \in Seq(Frame) /\ Len(frames) \in Nat /\ DOMAIN frames = 1 .. Len(frames)
      /\ subs \in Seq(Subs) /\ Len(subs) \in Nat
  BY DEF TypeOK
<1>1. \A i \in DOMAIN frames : frames[i].kind = "publish" => frames[i].next \in Nat \ {0}
  BY <1>0, FrameKinds DEF PublishFrame
<1>2. CASE Clearing
  <2>1. \A i \in DOMAIN frames' :
          /\ i \in DOMAIN frames /\ frames'[i].kind = frames[i].kind
          /\ frames[i].kind = "publish" => frames'[i].cleared
    BY <1>2, ClearingDoes
  <2> QED BY <2>1 DEF EventInv
<1>3. ASSUME NEW s \in Subs, subs' = Subscribed(subs, s)
      PROVE  \A i \in DOMAIN frames :
               frames[i].kind = "publish" /\ ~frames[i].cleared => Heard(frames[i], subs')
  <2> SUFFICES ASSUME NEW i \in DOMAIN frames, frames[i].kind = "publish", ~frames[i].cleared
               PROVE  Heard(frames[i], subs')
    OBVIOUS
  <2>1. frames[i].next - 1 \in Nat BY <1>1
  <2>2. frames[i].next - 1 <= Len(subs) /\ frames[i].heard = SubSeq(subs, 1, frames[i].next - 1)
    BY DEF EventInv
  <2> QED BY <1>0, <1>3, <2>1, <2>2, GrownList DEF Heard
<1>4. CASE Begin
  <2>1. Mesh \in Subs /\ subs' = Subscribed(subs, Mesh) BY <1>4 DEF Begin, Subs
  <2>2. \A i \in DOMAIN frames :
          frames[i].kind = "publish" /\ ~frames[i].cleared => Heard(frames[i], subs')
    BY <1>3, <2>1
  <2>3. CASE started BY <1>4, <2>2, <2>3 DEF Begin, EventInv, Heard
  <2>4. CASE ~started
    <3>1. frames' = Append(frames, [kind |-> "start", todo |-> Registrations]) BY <1>4, <2>4 DEF Begin
    <3>2. [kind |-> "start", todo |-> Registrations] \in Frame BY RegistrationsTyped, NewFrames
    <3>3. /\ DOMAIN frames' = 1 .. (Len(frames) + 1)
          /\ \A i \in DOMAIN frames : frames'[i] = frames[i]
          /\ frames'[Len(frames) + 1].kind = "start"
      BY <3>1, <3>2, PushTyped
    <3> QED BY <1>0, <2>2, <3>3 DEF EventInv, Heard
  <2> QED BY <2>3, <2>4
<1>5. ASSUME NEW l \in Listeners, Subscribe(l) PROVE EventInv'
  <2>1. l \in Subs /\ subs' = Subscribed(subs, l) /\ frames' = frames BY <1>5 DEF Subscribe, Subs
  <2> QED BY <1>3, <2>1 DEF EventInv, Heard
<1>6. CASE UNCHANGED <<subs, frames>> BY <1>6 DEF EventInv
<1>7. ASSUME NEW f \in Frame, frames' = Append(frames, f), subs' = subs, f.kind = "publish" => Heard(f, subs)
      PROVE  EventInv'
  <2>1. /\ DOMAIN frames' = 1 .. (Len(frames) + 1) /\ frames'[Len(frames) + 1] = f
        /\ \A i \in DOMAIN frames : frames'[i] = frames[i]
    BY <1>7, PushTyped
  <2> QED BY <1>0, <1>7, <2>1 DEF EventInv, Heard
<1>8. ASSUME NEW f \in Frame, frames # <<>>, frames' = SetTop(f), subs' = subs,
             f.kind = "publish" /\ ~f.cleared => Heard(f, subs)
      PROVE  EventInv'
  <2>1. /\ DOMAIN frames' = DOMAIN frames /\ frames'[Len(frames)] = f
        /\ \A i \in DOMAIN frames : i # Len(frames) => frames'[i] = frames[i]
    BY <1>8, SetTopTyped
  <2> QED BY <1>0, <1>8, <2>1 DEF EventInv, Heard
<1>9. ASSUME frames # <<>>, frames' = Pop, subs' = subs PROVE EventInv'
  <2>1. \A i \in DOMAIN frames' : i \in DOMAIN frames /\ frames'[i] = frames[i]
    BY <1>0, <1>9, PopTyped
  <2> QED BY <1>9, <2>1 DEF EventInv
<1>10. CASE RegisterNext
  <2>1. PICK r \in Top.todo : frames' = SetTop([Top EXCEPT !.todo = @ \ {r}]) /\ frames # <<>> /\ subs' = subs
    BY <1>10 DEF RegisterNext
  <2>2. Top \in StartFrame BY <1>10, TopIsFrame, FrameKinds DEF RegisterNext
  <2>3. [Top EXCEPT !.todo = @ \ {r}] \in Frame /\ [Top EXCEPT !.todo = @ \ {r}].kind = "start"
    BY <2>2 DEF StartFrame, Frame
  <2> QED BY <1>8, <2>1, <2>3
<1>11. CASE Publish
  <2> DEFINE f == [kind |-> "publish", next |-> 1, heard |-> <<>>, cleared |-> FALSE]
  <2>1. frames' = Append(frames, f) /\ subs' = subs /\ f \in Frame BY <1>11, NewFrames DEF Publish
  <2>2. f.next = 1 /\ f.heard = <<>> OBVIOUS
  <2>3. SubSeq(subs, 1, 0) = <<>> BY SubSeqEmpty
  <2>4. Heard(f, subs) BY <1>0, <2>2, <2>3 DEF Heard
  <2> QED BY <1>7, <2>1, <2>4
<1>12. CASE Loop
  <2>1. subs' = subs /\ DOMAIN frames' = {1} /\ frames'[1].kind = "loop" BY <1>12 DEF Loop
  <2> QED BY <2>1 DEF EventInv
<1>13. CASE Deliver
  <2> DEFINE f == [Top EXCEPT !.next = @ + 1, !.heard = Append(@, subs[Top.next])]
  <2>1. frames # <<>> /\ frames' = SetTop(f) /\ subs' = subs /\ Top.next <= Len(subs) BY <1>13 DEF Deliver
  <2>2. Top \in PublishFrame BY <1>13, TopIsFrame, FrameKinds DEF Deliver
  <2>3. Top.next \in Nat \ {0} /\ Top.heard \in Seq(Subs) BY <2>2 DEF PublishFrame
  <2>4. subs[Top.next] \in Subs BY <1>0, <2>1, <2>3
  <2>5. Top.next + 1 \in Nat \ {0} /\ Append(Top.heard, subs[Top.next]) \in Seq(Subs) BY <2>3, <2>4
  <2>6. /\ f \in PublishFrame /\ f.next = Top.next + 1 /\ f.heard = Append(Top.heard, subs[Top.next])
        /\ f.cleared = Top.cleared
    BY <2>2, <2>5 DEF PublishFrame
  <2>7. ASSUME ~Top.cleared PROVE Heard(f, subs)
    <3>1. Top.heard = SubSeq(subs, 1, Top.next - 1)
      BY <1>13, <2>7, TopIsFrame DEF EventInv, Top, Deliver
    <3>2. Top.next \in 1 .. Len(subs) /\ subs \in Seq(Subs) BY <1>0, <2>1, <2>3
    <3>3. Append(SubSeq(subs, 1, Top.next - 1), subs[Top.next]) = SubSeq(subs, 1, Top.next)
      BY <3>2, OneMoreHeard
    <3>4. f.heard = SubSeq(subs, 1, Top.next) BY <2>6, <3>1, <3>3
    <3>5. f.next - 1 = Top.next /\ Top.next <= Len(subs) BY <2>1, <2>3, <2>6
    <3> HIDE DEF f
    <3> QED BY <3>4, <3>5 DEF Heard
  <2> HIDE DEF f
  <2>8. f \in Frame /\ (f.kind = "publish" /\ ~f.cleared => Heard(f, subs)) BY <2>6, <2>7 DEF Frame
  <2> QED BY <1>8, <2>1, <2>8
<1>14. CASE LoopFeature
  <2>1. frames # <<>> /\ frames' = SetTop([Top EXCEPT !.next = @ + 1]) /\ subs' = subs BY <1>14 DEF LoopFeature
  <2>2. Top \in LoopFrame BY <1>14, TopIsFrame, FrameKinds DEF LoopFeature
  <2>3. Top.next + 1 \in Nat \ {0} BY <2>2 DEF LoopFrame
  <2>4. [Top EXCEPT !.next = @ + 1] \in LoopFrame /\ [Top EXCEPT !.next = @ + 1].kind = "loop"
    BY <2>2, <2>3 DEF LoopFrame
  <2> QED BY <1>8, <2>1, <2>4 DEF Frame
<1>15. CASE StartReturns \/ PublishReturns \/ LoopReturns
  BY <1>9, <1>15 DEF StartReturns, PublishReturns, LoopReturns
<1>16. CASE Shutdown /\ ~Clearing
  <2> DEFINE f == [kind |-> "stop", left |-> Len(features)]
  <2>1. f \in Frame /\ frames' = Append(frames, f) /\ subs' = subs /\ f.kind # "publish"
    BY <1>16, StopBegins DEF BeginStop
  <2> HIDE DEF f
  <2> QED BY <1>7, <2>1
<1>17. CASE ShutdownFeature
  <2> DEFINE f == [Top EXCEPT !.left = @ - 1]
  <2>1. f \in Frame /\ frames # <<>> /\ frames' = SetTop(f) /\ f.kind = "stop" BY <1>17, ShutdownFeatureDoes
  <2>2. subs' = subs BY <1>17 DEF ShutdownFeature
  <2> HIDE DEF f
  <2> QED BY <1>8, <2>1, <2>2
<1> QED BY <1>2, <1>4, <1>5, <1>6, <1>10, <1>11, <1>12, <1>13, <1>14, <1>15, <1>16, <1>17
     DEF Next, vars, Add, RegisterCommand, Clearing

\* Events under way are heard in the order of subscription, nobody left out,
\* whatever handlers subscribe or publish meanwhile.
THEOREM EventsInOrder == Spec => []HeardInOrder
<1>1. Init => EventInv BY DEF Init, EventInv
<1>2. TypeOK /\ StartInv /\ EventInv /\ [Next]_vars => EventInv'
  BY EngineAssumption, EventStep
<1>3. EventInv => HeardInOrder BY DEF EventInv, HeardInOrder
<1> QED BY <1>1, <1>2, <1>3, StartAlways, PTL DEF Spec

-----------------------------------------------------------------------------
(* The two registries and the mesh subscriber.                             *)

Same(n, m) == FoldName[n] = FoldName[m]

\* find() on a list of entries.
FoundIn(entries, n) ==
  LET at == {i \in DOMAIN entries : FoldName[entries[i].name] = FoldName[n]}
  IN IF at = {} THEN NoHandler ELSE entries[CHOOSE i \in at : \A j \in at : i <= j].handler

OneEach(entries) ==
  \A i, j \in DOMAIN entries : Same(entries[i].name, entries[j].name) => i = j

-----------------------------------------------------------------------------
(* Lists that name nothing twice.                                          *)

\* A name is found where its one entry is.
LEMMA FoundThere ==
  ASSUME NEW entries \in Seq(Entry), OneEach(entries), NEW n \in Names
  PROVE  /\ \A i \in DOMAIN entries : Same(entries[i].name, n) => FoundIn(entries, n) = entries[i].handler
         /\ (~\E i \in DOMAIN entries : Same(entries[i].name, n)) => FoundIn(entries, n) = NoHandler
<1> DEFINE at == {i \in DOMAIN entries : FoldName[entries[i].name] = FoldName[n]}
<1>1. ASSUME NEW i \in DOMAIN entries, Same(entries[i].name, n)
      PROVE  FoundIn(entries, n) = entries[i].handler
  <2>1. at = {i} BY <1>1 DEF OneEach, Same
  <2>2. i <= i OBVIOUS
  <2>3. (CHOOSE k \in {i} : \A j \in {i} : k <= j) = i BY <2>2
  <2> QED BY <2>1, <2>3 DEF FoundIn
<1>2. ASSUME ~\E i \in DOMAIN entries : Same(entries[i].name, n)
      PROVE  FoundIn(entries, n) = NoHandler
  BY <1>2 DEF FoundIn, Same
<1> QED BY <1>1, <1>2

\* What registerCommand() does to a list that names nothing twice.
LEMMA RegisteredKeeps ==
  ASSUME EngineAssumption, NEW entries \in Seq(Entry), OneEach(entries), NEW e \in Entry
  PROVE  /\ Registered(entries, e) \in Seq(Entry) /\ OneEach(Registered(entries, e))
         /\ Len(entries) <= Len(Registered(entries, e))
         /\ \A i \in DOMAIN entries :
              /\ i \in DOMAIN Registered(entries, e)
              /\ Registered(entries, e)[i].name = entries[i].name
              /\ ~Same(e.name, entries[i].name) => Registered(entries, e)[i] = entries[i]
         /\ \A j \in DOMAIN Registered(entries, e) :
              j \in DOMAIN entries \/ Registered(entries, e)[j] = e
         /\ Len(entries) < MAX_COMMANDS =>
              \E j \in DOMAIN Registered(entries, e) :
                Same(Registered(entries, e)[j].name, e.name) /\ Registered(entries, e)[j].handler = e.handler
<1> DEFINE r == Registered(entries, e)
<1>0. /\ MAX_COMMANDS \in Nat /\ Len(entries) \in Nat /\ DOMAIN entries = 1 .. Len(entries)
      /\ \A i \in DOMAIN entries : entries[i] \in Entry
  BY DEF EngineAssumption
<1>1. CASE Len(entries) >= MAX_COMMANDS
  <2>1. r = entries BY <1>1 DEF Registered
  <2> QED BY <1>0, <1>1, <2>1
<1>2. CASE Len(entries) < MAX_COMMANDS /\ \E i \in DOMAIN entries : Same(entries[i].name, e.name)
  <2> DEFINE g == [i \in 1 .. Len(entries) |->
                     IF FoldName[entries[i].name] = FoldName[e.name]
                     THEN [entries[i] EXCEPT !.handler = e.handler] ELSE entries[i]]
  <2>0. ~(Len(entries) >= MAX_COMMANDS) BY <1>0, <1>2
  <2>1. r = g BY <1>0, <1>2, <2>0, Zenon DEF Registered, Same
  <2>2. \A i \in 1 .. Len(entries) :
          /\ [entries[i] EXCEPT !.handler = e.handler] \in Entry
          /\ [entries[i] EXCEPT !.handler = e.handler].name = entries[i].name
          /\ [entries[i] EXCEPT !.handler = e.handler].handler = e.handler
    BY <1>0 DEF Entry
  <2>3. g \in [1 .. Len(entries) -> Entry] BY <1>0, <2>2
  <2>4. g \in Seq(Entry) /\ Len(g) = Len(entries) /\ DOMAIN g = DOMAIN entries BY <1>0, <2>3
  <2>5. \A i \in DOMAIN entries : g[i].name = entries[i].name /\ (~Same(e.name, entries[i].name) => g[i] = entries[i])
    BY <1>0, <2>2 DEF Same
  <2>6. \E j \in DOMAIN g : Same(g[j].name, e.name) /\ g[j].handler = e.handler
    BY <1>0, <1>2, <2>2 DEF Same
  <2>7. OneEach(g) BY <2>4, <2>5 DEF OneEach
  <2> HIDE DEF g, r
  <2>8. Len(entries) <= Len(g) BY <1>0, <2>4
  <2> QED BY <2>1, <2>4, <2>5, <2>6, <2>7, <2>8 DEF r
<1>3. CASE Len(entries) < MAX_COMMANDS /\ ~\E i \in DOMAIN entries : Same(entries[i].name, e.name)
  <2>0. ~(Len(entries) >= MAX_COMMANDS) BY <1>0, <1>3
  <2>1. r = Append(entries, e) BY <1>3, <2>0, Zenon DEF Registered, Same
  <2> DEFINE g == Append(entries, e)
  <2>2. /\ g \in Seq(Entry) /\ Len(g) = Len(entries) + 1 /\ DOMAIN g = 1 .. (Len(entries) + 1)
        /\ \A i \in DOMAIN entries : g[i] = entries[i]
        /\ g[Len(entries) + 1] = e
    BY <1>0
  <2> HIDE DEF g, r
  <2>3. \A j \in DOMAIN g : j \in DOMAIN entries \/ (j = Len(entries) + 1 /\ g[j] = e) BY <1>0, <2>2
  <2>4. OneEach(g) BY <1>3, <2>2, <2>3 DEF OneEach, Same
  <2>5. Len(entries) <= Len(g) /\ \A i \in DOMAIN entries : i \in DOMAIN g BY <1>0, <2>2
  <2>6. Len(entries) + 1 \in DOMAIN g BY <1>0, <2>2
  <2> QED BY <2>1, <2>2, <2>3, <2>4, <2>5, <2>6 DEF g, r, Same
<1> QED BY <1>0, <1>1, <1>2, <1>3

\* What registerCapability() does to a list that names nothing twice.
LEMMA WithCapKeeps ==
  ASSUME EngineAssumption, NEW names \in Seq(Names), NamedOnce(names), NEW n \in Names
  PROVE  NamedOnce(WithCap(names, n))
<1>1. CASE WithCap(names, n) = names BY <1>1
<1>2. CASE WithCap(names, n) # names
  <2>1. WithCap(names, n) = Append(names, n) /\ ~\E i \in DOMAIN names : FoldName[names[i]] = FoldName[n]
    BY <1>2 DEF WithCap
  <2> DEFINE g == Append(names, n)
  <2>2. /\ Len(names) \in Nat /\ DOMAIN names = 1 .. Len(names) /\ DOMAIN g = 1 .. (Len(names) + 1)
        /\ \A i \in DOMAIN names : g[i] = names[i]
        /\ g[Len(names) + 1] = n
    OBVIOUS
  <2> HIDE DEF g
  <2>3. \A j \in DOMAIN g : j \in DOMAIN names \/ (j = Len(names) + 1 /\ g[j] = n) BY <2>2
  <2>4. NamedOnce(g) BY <2>1, <2>2, <2>3 DEF NamedOnce
  <2> QED BY <2>1, <2>4 DEF g
<1> QED BY <1>1, <1>2

-----------------------------------------------------------------------------
(* The registries of the engine.                                           *)

RegistryInv == OneEach(commands) /\ NamedOnce(caps) /\ LatestHandlerWins

\* A step asks for one command, lists one capability, or leaves both alone.
LEMMA RegistrySteps ==
  ASSUME EngineAssumption, TypeOK, StartInv, [Next]_vars
  PROVE  \/ UNCHANGED registry
         \/ \E e \in Entry : Asking(e) /\ caps' = caps
         \/ \E n \in Names : caps' = WithCap(caps, n) /\ UNCHANGED <<commands, asked>>
<1>1. CASE RegisterNext
  <2>1. PICK r \in Top.todo : Register(r) BY <1>1 DEF RegisterNext
  <2> DEFINE f == features[r[2]]
  <2>2. f \in Features /\ (\/ r[1] = 1 /\ r[3] \in DOMAIN FeatureCommands[f]
                           \/ r[1] = 2 /\ r[3] \in DOMAIN FeatureCaps[f])
    BY <1>1, NextRegistration DEF RegisterNext
  <2>3. CASE r[1] = 1
    <3>1. [name |-> FeatureCommands[f][r[3]], handler |-> f] \in Entry
      BY <2>2, <2>3, RegistrationEntry
    <3>2. Asking([name |-> FeatureCommands[f][r[3]], handler |-> f]) /\ caps' = caps
      BY <2>1, <2>3 DEF Register
    <3> QED BY <3>1, <3>2
  <2>4. CASE r[1] = 2
    <3>1. FeatureCaps[f] \in Seq(Names) BY <2>2 DEF EngineAssumption
    <3>2. FeatureCaps[f][r[3]] \in Names BY <2>2, <2>4, <3>1
    <3>3. caps' = WithCap(caps, FeatureCaps[f][r[3]]) /\ UNCHANGED <<commands, asked>>
      BY <2>1, <2>4 DEF Register
    <3> QED BY <3>2, <3>3
  <2> QED BY <2>2, <2>3, <2>4
<1>2. ASSUME NEW n \in AppNames, RegisterCommand(n) PROVE \E e \in Entry : Asking(e) /\ caps' = caps
  <2>1. [name |-> n, handler |-> App] \in Entry BY DEF Entry, Handlers, EngineAssumption
  <2> QED BY <1>2, <2>1 DEF RegisterCommand
<1>3. CASE ~RegisterNext /\ ~\E n \in AppNames : RegisterCommand(n)
  <2>1. Clearing => UNCHANGED registry BY ClearingDoes
  <2>2. Shutdown /\ ~Clearing => UNCHANGED registry BY StopBegins DEF BeginStop
  <2> QED BY <1>3, <2>1, <2>2
       DEF Next, vars, Add, Begin, StartReturns, Clearing, ShutdownFeature, Subscribe, Publish, Loop, Deliver,
           PublishReturns, LoopFeature, LoopReturns, registry
<1> QED BY <1>1, <1>2, <1>3

LEMMA AskingStep ==
  ASSUME EngineAssumption, TypeOK, OneEach(commands), NEW e \in Entry, Asking(e)
  PROVE  /\ OneEach(commands')
         /\ \A n \in Names : FoundIn(commands, n) # NoHandler => FoundIn(commands', n) # NoHandler
         /\ LatestHandlerWins => LatestHandlerWins'
<1> DEFINE new == Registered(commands, e)
<1>. commands \in Seq(Entry) BY DEF TypeOK, Entry
<1>0. commands \in Seq(Entry) /\ commands' = new /\ asked' = [asked EXCEPT ![FoldName[e.name]] = e.handler]
  BY DEF TypeOK, Entry, Asking
<1>1. /\ new \in Seq(Entry) /\ OneEach(new) /\ Len(commands) <= Len(new)
      /\ \A i \in DOMAIN commands :
           /\ i \in DOMAIN new /\ new[i].name = commands[i].name
           /\ ~Same(e.name, commands[i].name) => new[i] = commands[i]
      /\ \A j \in DOMAIN new : j \in DOMAIN commands \/ new[j] = e
      /\ Len(commands) < MAX_COMMANDS =>
           \E j \in DOMAIN new : Same(new[j].name, e.name) /\ new[j].handler = e.handler
  BY RegisteredKeeps
<1> HIDE DEF new
<1>2. \A entry \in Entry : entry.name \in Names /\ entry.handler \in Handlers /\ entry.handler # NoHandler
  BY DEF Entry, Handlers, EngineAssumption
<1>3. \A j \in DOMAIN new : new[j] \in Entry BY <1>1
<1>4. ASSUME NEW n \in Names, FoundIn(commands, n) # NoHandler PROVE FoundIn(new, n) # NoHandler
  <2>1. PICK i \in DOMAIN commands : Same(commands[i].name, n) BY <1>0, <1>4, FoundThere
  <2>2. i \in DOMAIN new /\ Same(new[i].name, n) BY <1>1, <2>1
  <2>3. FoundIn(new, n) = new[i].handler BY <1>1, <2>2, FoundThere
  <2> QED BY <1>2, <1>3, <2>2, <2>3
<1>5. ASSUME LatestHandlerWins, Len(new) < MAX_COMMANDS, NEW n \in Names
      PROVE  FoundIn(new, n) = asked'[FoldName[n]]
  <2>1. Len(commands) < MAX_COMMANDS BY <1>0, <1>1, <1>5 DEF EngineAssumption
  <2>2. FoundIn(commands, n) = asked[FoldName[n]]
    BY <1>5, <2>1 DEF LatestHandlerWins, Found, FoundIn
  <2>3. asked \in [Names -> Handlers \cup {NoHandler}] /\ FoldName[n] \in Names /\ FoldName[e.name] \in Names
    BY <1>2 DEF TypeOK, EngineAssumption
  <2>4. CASE Same(e.name, n)
    <3>1. PICK j \in DOMAIN new : Same(new[j].name, e.name) /\ new[j].handler = e.handler BY <1>1, <2>1
    <3>2. Same(new[j].name, n) BY <2>4, <3>1 DEF Same
    <3>3. FoundIn(new, n) = e.handler BY <1>1, <3>1, <3>2, FoundThere
    <3>4. asked'[FoldName[n]] = e.handler BY <1>0, <2>3, <2>4 DEF Same
    <3> QED BY <3>3, <3>4
  <2>5. CASE ~Same(e.name, n)
    <3>1. asked'[FoldName[n]] = asked[FoldName[n]] BY <1>0, <2>3, <2>5 DEF Same
    <3>2. CASE \E i \in DOMAIN commands : Same(commands[i].name, n)
      <4>1. PICK i \in DOMAIN commands : Same(commands[i].name, n) BY <3>2
      <4>2. i \in DOMAIN new /\ new[i] = commands[i] BY <1>1, <2>5, <4>1 DEF Same
      <4>3. FoundIn(new, n) = commands[i].handler /\ FoundIn(commands, n) = commands[i].handler
        BY <1>0, <1>1, <4>1, <4>2, FoundThere
      <4> QED BY <2>2, <3>1, <4>3
    <3>3. CASE ~\E i \in DOMAIN commands : Same(commands[i].name, n)
      <4>1. ~\E j \in DOMAIN new : Same(new[j].name, n) BY <1>1, <2>5, <3>3
      <4>2. FoundIn(new, n) = NoHandler /\ FoundIn(commands, n) = NoHandler
        BY <1>0, <1>1, <3>3, <4>1, FoundThere
      <4> QED BY <2>2, <3>1, <4>2
    <3> QED BY <3>2, <3>3
  <2> QED BY <2>4, <2>5
<1>6. LatestHandlerWins => LatestHandlerWins'
  <2>1. \A n : Found(n)' = FoundIn(new, n) BY <1>0 DEF Found, FoundIn
  <2> SUFFICES ASSUME LatestHandlerWins, Len(commands') < MAX_COMMANDS, NEW n \in Names
               PROVE  Found(n)' = asked'[FoldName[n]]
    BY DEF LatestHandlerWins
  <2>2. Len(new) < MAX_COMMANDS BY <1>0
  <2> QED BY <1>5, <2>1, <2>2
<1> QED BY <1>0, <1>1, <1>4, <1>6

LEMMA FoundKept ==
  ASSUME UNCHANGED <<commands, asked>>
  PROVE  /\ LatestHandlerWins' <=> LatestHandlerWins
         /\ \A n \in Names : Found(n)' = Found(n)
<1>1. \A n \in Names : Found(n)' = Found(n) BY DEF Found
<1>2. ASSUME LatestHandlerWins PROVE LatestHandlerWins' BY <1>1, <1>2 DEF LatestHandlerWins
<1>3. ASSUME LatestHandlerWins' PROVE LatestHandlerWins BY <1>1, <1>3 DEF LatestHandlerWins
<1> QED BY <1>1, <1>2, <1>3

LEMMA RegistryStep ==
  ASSUME EngineAssumption, TypeOK, StartInv, RegistryInv, [Next]_vars
  PROVE  /\ RegistryInv'
         /\ \A n \in Names : Found(n) # NoHandler => (Found(n) # NoHandler)'
<1>1. CASE UNCHANGED registry
  <2>1. commands' = commands /\ caps' = caps /\ asked' = asked BY <1>1 DEF registry
  <2> QED BY <2>1, FoundKept DEF RegistryInv
<1>2. CASE \E e \in Entry : Asking(e) /\ caps' = caps
  BY <1>2, AskingStep DEF RegistryInv, Found, FoundIn
<1>3. CASE \E n \in Names : caps' = WithCap(caps, n) /\ UNCHANGED <<commands, asked>>
  <2>1. caps \in Seq(Names) BY DEF TypeOK
  <2>2. NamedOnce(caps') BY <1>3, <2>1, WithCapKeeps DEF RegistryInv
  <2> QED BY <1>3, <2>2, FoundKept DEF RegistryInv
<1> QED BY <1>1, <1>2, <1>3, RegistrySteps

LEMMA RegistryAlways == Spec => [](TypeOK /\ StartInv /\ RegistryInv)
<1>1. EngineAssumption /\ Init => RegistryInv
  <2> SUFFICES ASSUME EngineAssumption, Init PROVE RegistryInv
    OBVIOUS
  <2>1. DOMAIN commands = {} /\ DOMAIN caps = {} BY DEF Init
  <2>2. \A n \in Names : Found(n) = NoHandler /\ asked[FoldName[n]] = NoHandler
    BY <2>1 DEF Init, Found, EngineAssumption
  <2> QED BY <2>1, <2>2 DEF RegistryInv, OneEach, NamedOnce, LatestHandlerWins
<1>2. TypeOK /\ StartInv /\ RegistryInv /\ [Next]_vars => RegistryInv'
  BY EngineAssumption, RegistryStep
<1> QED BY <1>1, <1>2, EngineAssumption, StartAlways, PTL DEF Spec

\* While the registry has room, a name resolves to the handler that asked for it
\* last, however often the engine was stopped and its features registered again.
THEOREM LastOneWins == Spec => []LatestHandlerWins
<1>1. RegistryInv => LatestHandlerWins BY DEF RegistryInv
<1> QED BY <1>1, RegistryAlways, PTL

\* help and caps name nothing twice, in whatever spellings it was registered.
THEOREM NoDoubles == Spec => []ListsNameOnce
<1>1. RegistryInv => ListsNameOnce
  BY DEF RegistryInv, ListsNameOnce, OneEach, NamedOnce, Same
<1> QED BY <1>1, RegistryAlways, PTL

\* A command that resolves goes on resolving, also once the registry is full.
THEOREM CommandsStay == Spec => CommandsAreKept
<1>1. TypeOK /\ StartInv /\ RegistryInv /\ [Next]_vars
      => [\A n \in Names : Found(n) # NoHandler => (Found(n) # NoHandler)']_vars
  BY EngineAssumption, RegistryStep
<1> QED BY <1>1, RegistryAlways, PTL DEF Spec, CommandsAreKept

-----------------------------------------------------------------------------
(* The mesh subscriber.                                                    *)

Up == started \/ InStart

MeshInv ==
  /\ ~Up => \A i \in DOMAIN subs : subs[i] # Mesh
  /\ ~rewired => \A i, j \in DOMAIN subs : subs[i] = Mesh /\ subs[j] = Mesh => i = j
  /\ Up /\ Len(subs) < MAX_EVENT_SUBS => \E i \in DOMAIN subs : subs[i] = Mesh

\* What subscribe() does to the list.
LEMMA SubscribedIs ==
  ASSUME EngineAssumption, NEW list \in Seq(Subs), NEW s \in Subs
  PROVE  \/ Subscribed(list, s) = list /\ Len(list) >= MAX_EVENT_SUBS
         \/ /\ DOMAIN Subscribed(list, s) = 1 .. (Len(list) + 1)
            /\ Len(Subscribed(list, s)) = Len(list) + 1
            /\ \A i \in DOMAIN list : i \in DOMAIN Subscribed(list, s) /\ Subscribed(list, s)[i] = list[i]
            /\ Subscribed(list, s)[Len(list) + 1] = s
            /\ \A i \in DOMAIN Subscribed(list, s) : i \in DOMAIN list \/ i = Len(list) + 1
BY DEF Subscribed, EngineAssumption

LEMMA MeshStep ==
  ASSUME EngineAssumption, TypeOK, StartInv, MeshInv, [Next]_vars
  PROVE  MeshInv'
<1>0. subs \in Seq(Subs) /\ Len(subs) \in Nat /\ DOMAIN subs = 1 .. Len(subs) /\ MAX_EVENT_SUBS \in Nat
  BY DEF TypeOK, EngineAssumption
<1>1. CASE Begin
  <2>1. ~InStart /\ Up' /\ subs' = Subscribed(subs, Mesh) /\ Mesh \in Subs
    BY <1>1, BeginShutdown DEF Up, Begin, Subs
  <2>0. \/ subs' = subs /\ Len(subs) >= MAX_EVENT_SUBS
        \/ /\ DOMAIN subs' = 1 .. (Len(subs) + 1) /\ Len(subs') = Len(subs) + 1
           /\ \A i \in DOMAIN subs : subs'[i] = subs[i]
           /\ subs'[Len(subs) + 1] = Mesh
           /\ \A i \in DOMAIN subs' : i \in DOMAIN subs \/ i = Len(subs) + 1
    BY <1>0, <2>1, SubscribedIs
  <2>2. Len(subs') < MAX_EVENT_SUBS => \E i \in DOMAIN subs' : subs'[i] = Mesh
    <3>1. Len(subs) + 1 \in 1 .. (Len(subs) + 1) BY <1>0
    <3> QED BY <1>0, <2>0, <3>1
  <2>3. ASSUME ~rewired' PROVE \A i, j \in DOMAIN subs' : subs'[i] = Mesh /\ subs'[j] = Mesh => i = j
    <3>1. ~started BY <1>1, <2>3 DEF Begin
    <3>2. \A i \in DOMAIN subs : subs[i] # Mesh BY <2>1, <3>1 DEF MeshInv, Up
    <3> QED BY <2>0, <3>2
  <2> QED BY <2>1, <2>2, <2>3 DEF MeshInv
<1>2. CASE Clearing
  <2>1. subs' = <<>> /\ ~Up' BY <1>2, BeginShutdown, ClearingDoes DEF Up
  <2> QED BY <2>1 DEF MeshInv
<1>3. ASSUME ~Begin, ~Clearing, NEW l \in Listeners, Subscribe(l) PROVE MeshInv'
  <2>1. Up' <=> Up BY <1>3, UpStep DEF Up
  <2>2. subs' = Subscribed(subs, l) /\ l \in Subs /\ l # Mesh /\ rewired' = rewired
    BY <1>3 DEF Subscribe, Subs, lifecycle, EngineAssumption
  <2>3. CASE subs' = subs BY <2>1, <2>2, <2>3 DEF MeshInv
  <2>4. CASE subs' # subs
    <3>1. /\ Len(subs') = Len(subs) + 1
          /\ \A i \in DOMAIN subs : i \in DOMAIN subs' /\ subs'[i] = subs[i]
          /\ \A i \in DOMAIN subs' : subs'[i] = Mesh => i \in DOMAIN subs
      BY <1>0, <2>2, <2>4, SubscribedIs
    <3>2. Len(subs') < MAX_EVENT_SUBS => Len(subs) < MAX_EVENT_SUBS BY <1>0, <3>1
    <3> QED BY <2>1, <2>2, <3>1, <3>2 DEF MeshInv
  <2> QED BY <2>3, <2>4
<1>4. CASE ~Begin /\ ~Clearing /\ ~\E l \in Listeners : Subscribe(l)
  <2>1. Up' <=> Up BY <1>4, UpStep DEF Up
  <2>2. subs' = subs /\ rewired' = rewired
    BY <1>4, StopBegins
       DEF Next, vars, lifecycle, Add, RegisterNext, StartReturns, Clearing, BeginStop, ShutdownFeature,
           RegisterCommand, Publish, Loop, Deliver, PublishReturns, LoopFeature, LoopReturns
  <2> QED BY <2>1, <2>2 DEF MeshInv
<1> QED BY <1>1, <1>2, <1>3, <1>4

LEMMA OnAir ==
  ASSUME EngineAssumption, TypeOK, EventInv, MeshInv
  PROVE  OnAirOnce
<1> SUFFICES ASSUME ~rewired, NEW n \in DOMAIN frames, frames[n].kind = "publish", ~frames[n].cleared
             PROVE  /\ TimesOnAir(frames[n]) <= 1
                    /\ started /\ AtEnd(frames[n].next) /\ Len(subs) < MAX_EVENT_SUBS
                       => TimesOnAir(frames[n]) = 1
  BY DEF OnAirOnce
<1> DEFINE f == frames[n]
           on == {k \in DOMAIN f.heard : f.heard[k] = Mesh}
<1>0. subs \in Seq(Subs) /\ Len(subs) \in Nat /\ DOMAIN subs = 1 .. Len(subs)
  BY DEF TypeOK
<1>1. f \in PublishFrame BY FrameKinds DEF TypeOK
<1>2. f.next \in Nat \ {0} /\ f.next - 1 <= Len(subs) /\ f.heard = SubSeq(subs, 1, f.next - 1)
  BY <1>1 DEF PublishFrame, EventInv
<1>3. DOMAIN f.heard = 1 .. (f.next - 1) /\ \A k \in 1 .. (f.next - 1) : f.heard[k] = subs[k]
  BY <1>0, <1>2
<1>4. \A i, j \in on : i = j
  <2>1. \A k \in on : k \in DOMAIN subs /\ subs[k] = Mesh BY <1>0, <1>2, <1>3
  <2> QED BY <2>1 DEF MeshInv
<1>5. Cardinality({}) = 0 /\ \A i : Cardinality({i}) = 1
  BY FS_EmptySet, FS_Singleton
<1>6. on = {} \/ \E i : on = {i}
  <2>1. CASE on # {}
    <3>1. PICK i : i \in on BY <2>1
    <3>2. on = {i} BY <1>4, <3>1
    <3> QED BY <3>2
  <2> QED BY <2>1
<1>7. Cardinality(on) \in {0, 1} /\ (on # {} => Cardinality(on) = 1)
  BY <1>5, <1>6
<1>8. ASSUME started, AtEnd(f.next), Len(subs) < MAX_EVENT_SUBS PROVE on # {}
  <2>1. PICK i \in DOMAIN subs : subs[i] = Mesh BY <1>8 DEF MeshInv, Up
  <2>2. f.next - 1 = Len(subs) BY <1>0, <1>2, <1>8 DEF AtEnd
  <2>3. i \in 1 .. (f.next - 1) BY <1>0, <2>1, <2>2
  <2> QED BY <1>3, <2>1, <2>3
<1>9. TimesOnAir(f) = Cardinality(on) BY DEF TimesOnAir
<1> HIDE DEF on, f
<1>10. TimesOnAir(f) <= 1 BY <1>7, <1>9
<1> QED BY <1>7, <1>8, <1>9, <1>10 DEF f

\* An event goes on air at most once, and once on a started engine whose bus has
\* room, through every sequence of begin() and shutdown() in which no begin()
\* meets an engine that is started.
THEOREM OneTransmission == Spec => []OnAirOnce
<1>1. Init => EventInv /\ MeshInv
  BY DEF Init, EventInv, MeshInv, Up, InStart
<1>2. TypeOK /\ StartInv /\ EventInv /\ MeshInv /\ [Next]_vars => EventInv' /\ MeshInv'
  BY EngineAssumption, EventStep, MeshStep
<1>3. TypeOK /\ EventInv /\ MeshInv => OnAirOnce
  BY EngineAssumption, OnAir
<1> QED BY <1>1, <1>2, <1>3, StartAlways, PTL DEF Spec
=============================================================================
