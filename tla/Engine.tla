------------------------------- MODULE Engine -------------------------------
(***************************************************************************)
(* The life of one McRpc engine (src/McRpc.cpp): begin, loop and shutdown, *)
(* the FeatureManager, the two registries, and the EventBus with handlers  *)
(* that call back into the engine while an event is being published.       *)
(*                                                                         *)
(* Everything runs on one thread.  What interleaves is the call stack: an  *)
(* iteration of FeatureManager::loop, FeatureManager::stop or              *)
(* EventBus::publish is a frame, and the virtual or callback it is in may  *)
(* make further calls before the iteration goes on.  A setup() that makes  *)
(* calls of its own is not modelled.                                       *)
(***************************************************************************)
EXTENDS Integers, Sequences, FiniteSets, Functions

CONSTANTS
  Features,            \* objects that implement Feature
  Names,               \* spellings of command names
  FoldName,            \* [Names -> Names]: the lower-case spelling, as ieq folds it
  FeatureCommands,     \* [Features -> Seq(Names)]: what registerCommands registers
  FeatureCaps,         \* [Features -> Seq(Names)]: what registerCapabilities registers
  AppNames,            \* names the application registers through commands()
  App,                 \* the application's own command handler
  Mesh,                \* the subscriber begin() wires: onEventThunk
  Listeners,           \* the application's event handlers
  MAX_FEATURES, MAX_COMMANDS, MAX_CAPS, MAX_EVENT_SUBS,
  HandlersMay,         \* the calls event handlers make: a subset of Calls
  MaxEvents,           \* bound: events published
  NoHandler

Calls == {"subscribe", "publish", "begin", "shutdown"}

ASSUME EngineAssumption ==
  /\ FoldName \in [Names -> Names]
  /\ FeatureCommands \in [Features -> Seq(Names)]
  /\ FeatureCaps \in [Features -> Seq(Names)]
  /\ AppNames \subseteq Names
  /\ App \notin Features /\ NoHandler \notin Features \cup {App}
  /\ Mesh \notin Listeners
  /\ MAX_FEATURES \in Nat /\ MAX_COMMANDS \in Nat
  /\ MAX_CAPS \in Nat /\ MAX_EVENT_SUBS \in Nat
  /\ HandlersMay \subseteq Calls
  /\ MaxEvents \in Nat

VARIABLES
  features,    \* _features
  started,     \* _started
  commands,    \* _entries of the CommandRegistry: [name, handler]
  caps,        \* _names of the CapabilityRegistry
  asked,       \* ghost, [Names -> handler or NoHandler]: the last one asked for
  subs,        \* _subs of the EventBus
  published,   \* ghost: events published so far
  frames,      \* the call stack, innermost last
  phase,       \* ghost, [Features -> Phases]: what the engine did to a feature
  rewired,     \* ghost: begin() was called on a started engine since shutdown()
  overtaken    \* ghost: the features were last set up while stop() was under way

registry == <<commands, caps, asked>>
lifecycle == <<features, started, phase, rewired, overtaken>>
vars == <<lifecycle, registry, subs, published, frames>>

Phases     == {"new", "up", "down"}
Handlers   == Features \cup {App}
Subs       == Listeners \cup {Mesh}

\* One iteration: FeatureManager::loop at _features[next], or
\* EventBus::publish at _subs[next] with heard the handlers called so far.
\* cleared says that shutdown() ran meanwhile; it and heard are ghosts.
LoopFrame == [kind : {"loop"}, next : Nat \ {0}, cleared : BOOLEAN]
PublishFrame == [kind : {"publish"}, next : Nat \ {0}, heard : Seq(Subs), cleared : BOOLEAN]

\* FeatureManager::start with the registrations it has still to make.
StartFrame == [kind : {"start"}, todo : SUBSET ({1, 2} \X Nat \X Nat)]

\* FeatureManager::stop with the number of features it has still to shut down.
StopFrame == [kind : {"stop"}, left : Nat]

Frame == LoopFrame \cup PublishFrame \cup StartFrame \cup StopFrame

Top == frames[Len(frames)]
SetTop(f) == [frames EXCEPT ![Len(frames)] = f]
Pop == SubSeq(frames, 1, Len(frames) - 1)

\* Who is running: the application outside any frame, a handler that
\* EventBus::publish called, or a feature that FeatureManager::loop or
\* FeatureManager::stop called.
AppRuns     == frames = <<>>
HandlerRuns == frames # <<>> /\ Top.kind = "publish" /\ Top.heard # <<>>
FeatureRuns ==
  /\ frames # <<>>
  /\ \/ Top.kind = "loop" /\ Top.next > 1
     \/ Top.kind = "stop" /\ Top.left < Len(features)

\* Some stop() is under way.
Stopping == \E i \in DOMAIN frames : frames[i].kind = "stop"

May(call) == AppRuns \/ (HandlerRuns /\ call \in HandlersMay)

Init ==
  /\ features = <<>> /\ started = FALSE
  /\ commands = <<>> /\ caps = <<>> /\ asked = [n \in Names |-> NoHandler]
  /\ subs = <<>> /\ published = 0 /\ frames = <<>>
  /\ phase = [f \in Features |-> "new"] /\ rewired = FALSE
  /\ overtaken = FALSE

-----------------------------------------------------------------------------
(* The registries and the bus. *)

\* The forms two bugs would take: an entry that is there stays as it was, and a
\* full registry gives its last entry away.
RegisteredKeepsFirst(entries, entry) ==
  IF \/ Len(entries) >= MAX_COMMANDS
     \/ \E i \in DOMAIN entries : FoldName[entries[i].name] = FoldName[entry.name]
  THEN entries ELSE Append(entries, entry)
RegisteredEvicting(entries, entry) ==
  IF Len(entries) >= MAX_COMMANDS THEN [entries EXCEPT ![Len(entries)] = entry]
  ELSE Append(entries, entry)

\* registerCommand(): the count is tested before the search for the name.
Registered(entries, entry) ==
  IF Len(entries) >= MAX_COMMANDS THEN entries
  ELSE IF \E i \in DOMAIN entries : FoldName[entries[i].name] = FoldName[entry.name]
  THEN [i \in DOMAIN entries |->
          IF FoldName[entries[i].name] = FoldName[entry.name]
          THEN [entries[i] EXCEPT !.handler = entry.handler] ELSE entries[i]]
  ELSE Append(entries, entry)

Asking(entry) ==
  /\ commands' = Registered(commands, entry)
  /\ asked' = [asked EXCEPT ![FoldName[entry.name]] = entry.handler]

\* find(): the first entry under the name, of which there is one at most.
Found(n) ==
  LET at == {i \in DOMAIN commands : FoldName[commands[i].name] = FoldName[n]}
  IN IF at = {} THEN NoHandler ELSE commands[CHOOSE i \in at : \A j \in at : i <= j].handler

\* The form a bug would take: no search for the name.
WithCapAgain(names, n) == IF Len(names) >= MAX_CAPS THEN names ELSE Append(names, n)

\* registerCapability().
WithCap(names, n) ==
  IF Len(names) >= MAX_CAPS \/ \E i \in DOMAIN names : FoldName[names[i]] = FoldName[n]
  THEN names ELSE Append(names, n)

\* The forms two bugs would take: one subscriber too many, and a list that
\* grows at its front.
SubscribedOneMore(list, s) == IF Len(list) > MAX_EVENT_SUBS THEN list ELSE Append(list, s)
SubscribedInFront(list, s) == IF Len(list) >= MAX_EVENT_SUBS THEN list ELSE <<s>> \o list

\* subscribe(): no search for a handler that is there already.
Subscribed(list, s) == IF Len(list) >= MAX_EVENT_SUBS THEN list ELSE Append(list, s)

\* clear(): the bus is empty, and who goes through it will find it so.
Cleared(f) == IF f.kind \in {"loop", "publish"} THEN [f EXCEPT !.cleared = TRUE] ELSE f
ClearedAll(stack) == [i \in DOMAIN stack |-> Cleared(stack[i])]

-----------------------------------------------------------------------------
(* The calls. *)

Add(f) ==
  /\ AppRuns
  /\ ~started /\ Len(features) < MAX_FEATURES /\ f \notin Range(features)
  /\ features' = Append(features, f)
  /\ UNCHANGED <<started, phase, rewired, overtaken, registry, subs, published, frames>>

\* The registrations start() makes: registerCommands of one feature after the
\* other, in the order of _features, then registerCapabilities.
Registrations ==
  (UNION {{<<1, i, k>> : k \in DOMAIN FeatureCommands[features[i]]} : i \in DOMAIN features})
    \cup (UNION {{<<2, i, k>> : k \in DOMAIN FeatureCaps[features[i]]} : i \in DOMAIN features})

Before(r, q) == \/ r[1] < q[1]
                \/ r[1] = q[1] /\ (r[2] < q[2] \/ (r[2] = q[2] /\ r[3] < q[3]))

\* begin(): the mesh subscriber is wired every time, and whether subscribe()
\* took it is not looked at; then FeatureManager::start(), which does nothing
\* on an engine that is started, and else calls every setup() first.
Begin ==
  /\ May("begin")
  /\ subs' = Subscribed(subs, Mesh)
  /\ IF started
     THEN rewired' = TRUE /\ UNCHANGED <<phase, frames, overtaken>>
     ELSE /\ phase' = [f \in Features |-> IF f \in Range(features) THEN "up" ELSE phase[f]]
          /\ frames' = Append(frames, [kind |-> "start", todo |-> Registrations])
          /\ overtaken' = Stopping
          /\ UNCHANGED rewired
  /\ UNCHANGED <<features, started, registry, published>>

\* One registerCommand() or registerCapability() of a feature.
Register(r) ==
  LET f == features[r[2]]
  IN IF r[1] = 1
     THEN /\ Asking([name |-> FeatureCommands[f][r[3]], handler |-> f])
          /\ UNCHANGED caps
     ELSE /\ caps' = WithCap(caps, FeatureCaps[f][r[3]])
          /\ UNCHANGED <<commands, asked>>

RegisterNext ==
  /\ frames # <<>> /\ Top.kind = "start"
  /\ \E r \in Top.todo :
       /\ \A q \in Top.todo \ {r} : Before(r, q)
       /\ Register(r)
       /\ frames' = SetTop([Top EXCEPT !.todo = @ \ {r}])
  /\ UNCHANGED <<lifecycle, subs, published>>

StartReturns ==
  /\ frames # <<>> /\ Top.kind = "start" /\ Top.todo = {}
  /\ started' = TRUE
  /\ frames' = Pop
  /\ UNCHANGED <<features, phase, rewired, overtaken, registry, subs, published>>

\* shutdown() on a started engine goes through FeatureManager::stop() first.
BeginStop ==
  /\ started
  /\ frames' = Append(frames, [kind |-> "stop", left |-> Len(features)])
  /\ UNCHANGED <<lifecycle, registry, subs, published>>

\* The form a bug would take: the bus keeps its subscribers.
AfterStopKeepsSubs(stack) ==
  /\ rewired' = FALSE
  /\ frames' = stack
  /\ UNCHANGED subs

\* The end of shutdown(): the bus is cleared, always.
AfterStop(stack) ==
  /\ subs' = <<>>
  /\ rewired' = FALSE
  /\ frames' = ClearedAll(stack)

\* The registries keep their entries.
Shutdown ==
  /\ May("shutdown")
  /\ \/ BeginStop
     \/ /\ ~started
        /\ AfterStop(frames)
        /\ UNCHANGED <<features, started, phase, overtaken, registry, published>>

\* stop() calls the last feature's shutdown() first.
ShutdownFeature ==
  /\ frames # <<>> /\ Top.kind = "stop" /\ Top.left > 0
  /\ phase' = [phase EXCEPT ![features[Top.left]] = "down"]
  /\ frames' = SetTop([Top EXCEPT !.left = @ - 1])
  /\ UNCHANGED <<features, started, rewired, overtaken, registry, subs, published>>

\* The form a bug would take: the loop ends before the first feature.
StopReturnsEarly ==
  /\ frames # <<>> /\ Top.kind = "stop" /\ Top.left <= 1
  /\ started' = FALSE
  /\ AfterStop(Pop)
  /\ UNCHANGED <<features, phase, overtaken, registry, published>>

\* stop() tests _started at its beginning and clears it at its end, whatever
\* the features' shutdown() has led to meanwhile.
StopReturns ==
  /\ frames # <<>> /\ Top.kind = "stop" /\ Top.left = 0
  /\ started' = FALSE
  /\ AfterStop(Pop)
  /\ UNCHANGED <<features, phase, overtaken, registry, published>>

Subscribe(l) ==
  /\ May("subscribe")
  /\ subs' = Subscribed(subs, l)
  /\ UNCHANGED <<lifecycle, registry, published, frames>>

RegisterCommand(n) ==
  /\ AppRuns
  /\ Asking([name |-> n, handler |-> App])
  /\ UNCHANGED <<lifecycle, caps, subs, published, frames>>

\* publish(): by the application, a feature in loop() or shutdown(), or an event
\* handler.
Publish ==
  /\ May("publish") \/ FeatureRuns
  /\ published < MaxEvents
  /\ published' = published + 1
  /\ frames' = Append(frames, [kind |-> "publish", next |-> 1, heard |-> <<>>, cleared |-> FALSE])
  /\ UNCHANGED <<lifecycle, registry, subs>>

\* The loop of publish() looks at _count anew for every subscriber.
Deliver ==
  /\ frames # <<>> /\ Top.kind = "publish"
  /\ Top.next <= Len(subs)
  /\ frames' = SetTop([Top EXCEPT !.next = @ + 1, !.heard = Append(@, subs[Top.next])])
  /\ UNCHANGED <<lifecycle, registry, subs, published>>

\* The form a bug would take: != for <, when the list has shrunk meanwhile.
AtEndExactly(next) == next = Len(subs) + 1
AtEnd(next) == next > Len(subs)

PublishReturns ==
  /\ frames # <<>> /\ Top.kind = "publish"
  /\ AtEnd(Top.next)
  /\ frames' = Pop
  /\ UNCHANGED <<lifecycle, registry, subs, published>>

\* The form a bug would take: no test of _started.
LoopAnyway ==
  /\ AppRuns
  /\ frames' = <<[kind |-> "loop", next |-> 1, cleared |-> FALSE]>>
  /\ UNCHANGED <<lifecycle, registry, subs, published>>

\* loop() tests _started once, before it goes through the features.
Loop ==
  /\ AppRuns /\ started
  /\ frames' = <<[kind |-> "loop", next |-> 1, cleared |-> FALSE]>>
  /\ UNCHANGED <<lifecycle, registry, subs, published>>

LoopFeature ==
  /\ frames # <<>> /\ Top.kind = "loop"
  /\ Top.next <= Len(features)
  /\ frames' = SetTop([Top EXCEPT !.next = @ + 1])
  /\ UNCHANGED <<lifecycle, registry, subs, published>>

LoopReturns ==
  /\ frames # <<>> /\ Top.kind = "loop"
  /\ Top.next > Len(features)
  /\ frames' = Pop
  /\ UNCHANGED <<lifecycle, registry, subs, published>>

Starting == RegisterNext \/ StartReturns
Halting  == ShutdownFeature \/ StopReturns
Iterate  == Deliver \/ PublishReturns \/ LoopFeature \/ LoopReturns

Next ==
  \/ \E f \in Features : Add(f)
  \/ Begin
  \/ RegisterNext
  \/ StartReturns
  \/ Shutdown
  \/ ShutdownFeature
  \/ StopReturns
  \/ \E l \in Listeners : Subscribe(l)
  \/ \E n \in AppNames : RegisterCommand(n)
  \/ Publish
  \/ Loop
  \/ Deliver
  \/ PublishReturns
  \/ LoopFeature
  \/ LoopReturns

Spec == Init /\ [][Next]_vars

\* The processor goes on executing what it has begun; a handler returns after
\* finitely many calls of its own, of which some may start or stop the engine.
FairSpec == Spec /\ WF_vars(Starting) /\ WF_vars(Halting) /\ SF_vars(Iterate)

-----------------------------------------------------------------------------
(* Properties. *)

TypeOK ==
  /\ features \in Seq(Features) /\ Len(features) <= MAX_FEATURES
  /\ started \in BOOLEAN
  /\ commands \in Seq([name : Names, handler : Handlers])
  /\ Len(commands) <= MAX_COMMANDS
  /\ caps \in Seq(Names) /\ Len(caps) <= MAX_CAPS
  /\ asked \in [Names -> Handlers \cup {NoHandler}]
  /\ subs \in Seq(Subs) /\ Len(subs) <= MAX_EVENT_SUBS
  /\ published \in 0 .. MaxEvents
  /\ frames \in Seq(Frame)
  /\ phase \in [Features -> Phases]
  /\ rewired \in BOOLEAN /\ overtaken \in BOOLEAN

\* While the registry has room, a name asked for resolves, in any spelling, to
\* the handler that asked last, across restarts of the engine that register
\* every feature again over what the application has put there.
LatestHandlerWins ==
  Len(commands) < MAX_COMMANDS =>
    \A n \in Names : Found(n) = asked[FoldName[n]]

\* Whatever is refused, a command the node answers is never lost.
CommandsAreKept ==
  [][\A n \in Names : Found(n) # NoHandler => (Found(n) # NoHandler)']_vars

\* help and caps name nothing twice, in no two spellings, however often features
\* register.
NamedOnce(names) ==
  \A i, j \in DOMAIN names : FoldName[names[i]] = FoldName[names[j]] => i = j

ListsNameOnce ==
  /\ NamedOnce([i \in DOMAIN commands |-> commands[i].name])
  /\ NamedOnce(caps)

\* An event under way has been heard by the subscribers in the order of their
\* subscription, nobody left out, also when handlers subscribe or publish
\* while they are called - unless one of them emptied the bus.
HeardInOrder ==
  \A i \in DOMAIN frames :
    frames[i].kind = "publish" /\ ~frames[i].cleared =>
      frames[i].heard = SubSeq(subs, 1, frames[i].next - 1)

\* Unless begin() is called on a started engine, an event goes on air at most
\* once, and on a started engine whose bus has room exactly once when publish()
\* returns, however often the engine was shut down and begun again.
TimesOnAir(f) == Cardinality({k \in DOMAIN f.heard : f.heard[k] = Mesh})

OnAirOnce ==
  ~rewired =>
    \A i \in DOMAIN frames :
      frames[i].kind = "publish" /\ ~frames[i].cleared =>
        /\ TimesOnAir(frames[i]) <= 1
        /\ started /\ AtEnd(frames[i].next) /\ Len(subs) < MAX_EVENT_SUBS
           => TimesOnAir(frames[i]) = 1

\* Whatever handlers do, also out of a feature's shutdown(): a started engine has
\* all its features set up and not shut down, unless a stop() is under way; and
\* one that is not started has none up - but for features that a begin()
\* nested in a stop() has set up anew, which that stop() then passes over.
UpIffStarted ==
  frames = <<>> \/ Top.kind # "start" =>
    \A f \in Features :
      /\ f \in Range(features) /\ started /\ ~Stopping => phase[f] = "up"
      /\ ~started /\ ~overtaken => phase[f] # "up"

\* loop() is called only on features that are up, in every order of starts,
\* stops and loops, unless the engine is shut down during that very loop().
LoopOnlyWhenUp ==
  [][LoopFeature /\ ~Top.cleared => phase[features[Top.next]] = "up"]_vars

\* Every loop() and publish() comes to an end, although handlers may lengthen
\* the list that is being gone through, or empty it.
CallsReturn == (frames # <<>>) ~> (frames = <<>>)

-----------------------------------------------------------------------------
(* What a comment says and the code does not do.                           *)

\* Feature.h, "start -> loop* -> stop{ shutdown }": no loop() on a feature
\* after its shutdown(), whatever handlers do.
NoLoopAfterShutdown ==
  [][LoopFeature => phase[features[Top.next]] = "up"]_vars
=============================================================================
