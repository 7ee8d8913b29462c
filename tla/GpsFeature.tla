----------------------------- MODULE GpsFeature -----------------------------
(***************************************************************************)
(* src/features/gps/GpsFeature.cpp: a command looks at the receiver up to  *)
(* three times (readGps, gpsBusy, requestGpsFix), each a call to the host, *)
(* and the receiver goes on working between two looks.                     *)
(*                                                                         *)
(* A fix is what the tests of the code tell apart: none (readGps returns   *)
(* FALSE), stale (TRUE, but not valid) or valid.                           *)
(***************************************************************************)

VARIABLES
  fix,         \* what readGps would return now
  busy,        \* what gpsBusy would return now
  command,     \* the command that runs, or "none"
  look,        \* the look it takes next; "reply" when it has its answer
  answer,      \* what it replies
  moments,     \* ghost: what the receiver was like since the command began
  overlapped   \* ghost: requestGpsFix was called while the receiver was busy

gpsVars == <<fix, busy, command, look, answer, moments, overlapped>>

Fixes    == {"none", "stale", "valid"}
Commands == {"gps", "status", "track"}   \* location is gps by another name
Looks    == {"read", "busy", "request", "reply"}
Answers  == {"fix", "busy", "pending", "nofix", "unsupported"}
Moment   == [valid : BOOLEAN, busy : BOOLEAN]

Now(f, b) == [valid |-> f = "valid", busy |-> b]

GpsIdle == command = "none"

GpsInit ==
  /\ fix \in Fixes /\ busy \in BOOLEAN
  /\ command = "none" /\ look = "reply" /\ answer = "none"
  /\ moments = {} /\ overlapped = FALSE

Witnessed == moments' = IF GpsIdle THEN {} ELSE moments \cup {Now(fix', busy')}

\* The receiver: an acquisition ends, with a fix or without, or the fix it has
\* gets old or lost.
Receive ==
  /\ \/ busy /\ busy' = FALSE /\ fix' \in {fix, "valid"}
     \/ fix # "none" /\ fix' \in Fixes \ {fix, "valid"} /\ UNCHANGED busy
  /\ Witnessed
  /\ UNCHANGED <<command, look, answer, overlapped>>

\* The application starts an acquisition of its own, on the thread that would
\* run a command.
AppAcquires ==
  /\ GpsIdle /\ ~busy
  /\ busy' = TRUE
  /\ UNCHANGED <<fix, command, look, answer, moments, overlapped>>

\* The form a bug would take: track does not look whether the receiver is busy.
FirstLookStraight(c) == IF c = "track" THEN "request" ELSE "read"

\* cmdGps, cmdLocation and `gps status` read first, cmdTrack does not.
FirstLook(c) == IF c = "track" THEN "busy" ELSE "read"

GpsCommand(c) ==
  /\ GpsIdle
  /\ command' = c /\ look' = FirstLook(c) /\ moments' = {Now(fix, busy)}
  /\ UNCHANGED <<fix, busy, answer, overlapped>>

Reply(a) == look' = "reply" /\ answer' = a
LookNext(l) == look' = l /\ UNCHANGED answer

\* The form a bug would take: readGps returned TRUE, so there is a fix.
IsFixUnchecked(f) == f # "none"
IsFix(f) == f = "valid"

\* readGps && fix.valid: in writeFix, `gps status` and contributeStatus.
ReadGps ==
  /\ look = "read"
  /\ IF IsFix(fix) THEN Reply("fix") ELSE LookNext("busy")
  /\ UNCHANGED <<fix, busy, command, moments, overlapped>>

GpsBusy ==
  /\ look = "busy"
  /\ CASE busy -> Reply("busy")
       [] ~busy /\ command = "status" -> Reply("nofix")
       [] OTHER -> LookNext("request")
  /\ UNCHANGED <<fix, busy, command, moments, overlapped>>

\* The host refuses, starts an acquisition, or has a fix at once.
RequestGpsFix ==
  /\ look = "request"
  /\ overlapped' = (overlapped \/ busy)
  /\ \/ /\ UNCHANGED <<fix, busy>>
        /\ Reply(IF command = "track" THEN "unsupported" ELSE "nofix")
     \/ /\ \/ busy' = TRUE /\ UNCHANGED fix
           \/ fix' = "valid" /\ UNCHANGED busy
        /\ Reply("pending")
  /\ Witnessed
  /\ UNCHANGED command

\* The handler returns to the dispatcher.
GpsReturns ==
  /\ ~GpsIdle /\ look = "reply"
  /\ command' = "none" /\ answer' = "none" /\ moments' = {}
  /\ UNCHANGED <<fix, busy, look, overlapped>>

GpsStep == ReadGps \/ GpsBusy \/ RequestGpsFix \/ GpsReturns

GpsNext == Receive \/ AppAcquires \/ (\E c \in Commands : GpsCommand(c)) \/ GpsStep

GpsSpec == GpsInit /\ [][GpsNext]_gpsVars

-----------------------------------------------------------------------------
(* Correctness. *)

GpsTypeOK ==
  /\ fix \in Fixes /\ busy \in BOOLEAN
  /\ command \in Commands \cup {"none"} /\ look \in Looks
  /\ answer \in Answers \cup {"none"}
  /\ moments \subseteq Moment /\ overlapped \in BOOLEAN

\* Commands never have two acquisitions run at once: an `ok pending` starts one
\* only on a receiver that was idle and is idle still.
OneAcquisition == ~overlapped

\* Every answer was true at some moment while its command ran, although the
\* receiver moves between the looks.  The one exception is an acquisition that
\* succeeds after the command has read no fix: it makes `nofix`, true of no
\* moment, the answer, or starts an acquisition that was not needed; then a fix
\* was lacking at one moment and the receiver idle at another.
HadFix  == \E m \in moments : m.valid
Lacking == \E m \in moments : ~m.valid
WasBusy == \E m \in moments : m.busy
WasIdle == \E m \in moments : ~m.busy

AnswerWasTrue ==
  /\ answer = "fix"  => HadFix
  /\ answer = "busy" => WasBusy /\ (command = "track" \/ Lacking)
  /\ answer = "nofix" => Lacking /\ WasIdle
  /\ answer = "pending" /\ command = "gps" => Lacking /\ WasIdle
  /\ answer \in {"pending", "unsupported"} => WasIdle
=============================================================================
