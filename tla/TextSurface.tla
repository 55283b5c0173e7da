----------------------------- MODULE TextSurface -----------------------------
(* Where the words land.  The engine has one object per input context, and    *)
(* sends what it types to the context that last had the focus.  Two threads   *)
(* type: the one that reads the daemon, and those that serve the calls of     *)
(* IBus.  Each changes the session under its lock, lets go of it, and only    *)
(* then emits what the session wanted shown; before the words of a take the   *)
(* reader gives the focus back to the window in which the take began.         *)
(* Takes under review, which are typed from a window of their own, and the    *)
(* badge are left to Dictation, Review and Badge.                             *)
EXTENDS Naturals, Sequences

CONSTANTS MaxContexts,    \* windows, with one input context each
          MaxTyped,       \* bound: takes
          MaxSnippet,     \* bound: snippets in a preview
          MaxMoves,       \* bound: changes of the focus, and keys
          MaxCalls,       \* bound: calls of IBus that are not yet served
          MaxDrops        \* bound: daemons lost, and texts inserted again

ASSUME TypedAssumption == MaxTyped \in Nat

InputContext == 1..MaxContexts
Nowhere == 0
Spoken == 1..MaxTyped
NoPreview == <<0, 0>>
Preview == {NoPreview} \cup (Spoken \X (1..MaxSnippet))

VARIABLES
  focused,      \* the window with the keyboard
  open,         \* the windows whose context exists
  calls,        \* calls of IBus on their way: what, and on which context
  activePath,   \* Shared.active_path
  target,       \* Shared.dictation_target
  session,      \* the session: its state, recording, preview, reconcile_supported
  reader,       \* the reader thread: its step, message, ops, their context
  handler,      \* a call that is emitting: its ops, their context
  preedit,      \* the preview each window shows
  speech,       \* the daemon: the take, and whether its microphone is open
  begunIn,      \* history: the window each take began in, if it was found out
  committed,    \* history: takes the session has committed
  typed,        \* history: the windows each take was typed in
  astray,       \* history: takes at whose end somebody else moved the focus
  older,        \* history: who holds the older ops, of two that hold some
  muddled,    \* history: ops were emitted before older ones
  moves, drops

surfaceVars == <<focused, open, calls, activePath, target, session, reader, handler,
                 preedit, speech, begunIn, committed, typed, astray, older,
                 muddled, moves, drops>>

worldVars == <<focused, open, calls, preedit, moves>>
historyVars == <<begunIn, committed, typed, astray, older, muddled>>

Emitting(ops, path) == [ops |-> ops, path |-> path]
Nothing == Emitting(<<>>, Nowhere)
Reading == [step |-> "reading", message |-> "none", ops |-> <<>>, path |-> Nowhere]

(* run: the engine starts idle, with no context in focus. *)
SurfaceInit ==
  /\ focused = Nowhere /\ open = InputContext /\ calls = <<>> /\ activePath = Nowhere
  /\ target = Nowhere /\ reader = Reading /\ handler = Nothing
  /\ session \in [state : {"idle"}, recording : {FALSE}, preview : {NoPreview},
                  reconcile : BOOLEAN]
  /\ preedit = [w \in InputContext |-> NoPreview]
  /\ speech = [take |-> 0, on |-> FALSE]
  /\ begunIn = [t \in Spoken |-> Nowhere] /\ committed = {}
  /\ typed = [t \in Spoken |-> {}] /\ astray = {}
  /\ older = "none" /\ muddled = FALSE /\ moves = 0 /\ drops = 0

-----------------------------------------------------------------------------
(* The session, as far as it moves the surface: the new session, and the ops  *)
(* it wants emitted.                                                          *)

ShowPreedit(p) == <<"preedit", p>>
CommitText(t) == <<"commit", t>>

(* The preview that goes is cleared on the screen. *)
PreviewForgotten(s) == <<>>   \* mutation

ClearPreview(s) == IF s.preview = NoPreview THEN <<>> ELSE <<ShowPreedit(NoPreview)>>
Cleared(s) == [s EXCEPT !.preview = NoPreview]
Idled(s) == [Cleared(s) EXCEPT !.state = "idle"]

(* A take is being listened to: its words are not late. *)
LiveTake_(s) == s.state = "recording" \/ (s.state = "reviewing" /\ s.recording)

Ignored(s) == [session |-> s, ops |-> <<>>, commits |-> FALSE]

OnPartialTranscript(s, t) ==
  LET longer == <<t, s.preview[2] + 1>> IN
  IF s.state # "recording" THEN Ignored(s)
  ELSE IF s.reconcile
  THEN [session |-> [s EXCEPT !.preview = longer], ops |-> <<ShowPreedit(longer)>>,
        commits |-> FALSE]
  ELSE [session |-> s, ops |-> <<CommitText(0)>>, commits |-> FALSE]

(* on_transcript and on_reconcile: the preview makes room for the words. *)
OnFinal(s, t, empty) ==
  IF ~LiveTake_(s) THEN Ignored(s)
  ELSE [session |-> IF empty THEN Idled(s) ELSE [Cleared(s) EXCEPT !.state = "reviewing"],
        ops |-> ClearPreview(s) \o (IF empty THEN <<>> ELSE <<CommitText(t)>>),
        commits |-> ~empty]

OnTranscriptWithoutTarget(s) ==
  IF ~LiveTake_(s) THEN Ignored(s)
  ELSE [session |-> Idled(s), ops |-> ClearPreview(s), commits |-> FALSE]

OnRecordingStatus(s, on) ==
  LET told == [s EXCEPT !.recording = on] IN
  IF s.state = "reviewing" /\ ~on THEN Ignored(told)
  ELSE IF s.state = "recording" /\ ~on
  THEN [session |-> Idled(told), ops |-> ClearPreview(s), commits |-> FALSE]
  ELSE Ignored([told EXCEPT !.state = IF on THEN "recording" ELSE "idle"])

OnError(s) == [session |-> Idled(s), ops |-> ClearPreview(s), commits |-> FALSE]
ResetToIdle(s) == [OnError(s) EXCEPT !.session.recording = FALSE]

EndReview(s) == IF s.state = "reviewing" THEN [s EXCEPT !.state = "idle"] ELSE s

(* on_key: Escape abandons a take; any key may end the correction window. *)
OnKey(s, key) ==
  IF s.state = "recording" /\ key = "escape"
  THEN [session |-> Idled(s), ops |-> ClearPreview(s), commits |-> FALSE]
  ELSE Ignored(IF key = "arrow" THEN s ELSE EndReview(s))

-----------------------------------------------------------------------------
(* The world: windows, their focus and keys, and what IBus calls for them.    *)

(* External: a window shows a preview only while it has the focus, and what   *)
(* is sent to a window without it lands nowhere.                              *)
Lands(op, path) ==
  IF path # focused \/ path = Nowhere THEN UNCHANGED <<preedit, typed>>
  ELSE CASE op[1] = "preedit" ->
              preedit' = [preedit EXCEPT ![path] = op[2]] /\ UNCHANGED typed
         [] op[1] = "commit" /\ op[2] \in Spoken ->
              typed' = [typed EXCEPT ![op[2]] = @ \cup {path}] /\ UNCHANGED preedit
         [] OTHER -> UNCHANGED <<preedit, typed>>

Leave(what) ==
  /\ calls' = IF focused = Nowhere THEN calls ELSE Append(calls, <<what, focused>>)
  /\ preedit' = [w \in InputContext |-> NoPreview]

MoveTo(w) ==
  /\ focused' = w
  /\ calls' = (IF focused = Nowhere THEN calls ELSE Append(calls, <<"focus_out", focused>>))
                \o <<<<"focus_in", w>>>>
  /\ preedit' = [v \in InputContext |-> NoPreview]

UserActs ==
  /\ moves < MaxMoves /\ moves' = moves + 1
  /\ Len(calls) < MaxCalls
  /\ astray' = IF reader.step = "reading" THEN astray ELSE astray \cup {speech.take}
  /\ UNCHANGED <<activePath, target, session, reader, handler, speech, begunIn,
                 committed, typed, older, muddled, drops>>

FocusWindow(w) == /\ w \in open \ {focused} /\ MoveTo(w) /\ UNCHANGED open /\ UserActs

(* The focus leaves for a window that takes no text, the user switches to     *)
(* another input method, or closes the window.                                *)
LeaveWindow(what) ==
  /\ focused # Nowhere /\ Leave(what) /\ focused' = Nowhere
  /\ open' = IF what = "destroy" THEN open \ {focused} ELSE open
  /\ UserActs

PressKey(key) ==
  /\ focused # Nowhere /\ calls' = Append(calls, <<key, focused>>)
  /\ UNCHANGED <<focused, open, preedit>> /\ UserActs

(* The shortcut, which the compositor calls for: it acts on no context. *)
PressShortcut ==
  /\ calls' = Append(calls, <<"trigger", Nowhere>>)
  /\ UNCHANGED <<focused, open, preedit>> /\ UserActs

-----------------------------------------------------------------------------
(* The threads that serve IBus and the shortcut. *)

SetActive(path) == activePath' = path
ClearActiveIf(path) == activePath' = IF activePath = path THEN Nowhere ELSE activePath

Served == calls # <<>> /\ calls' = Tail(calls)
Call == Head(calls)

(* Of two threads with ops to emit, the one that was in the session first     *)
(* has the older ones.                                                        *)
Obtains(who, others) == older' = IF others.ops # <<>> THEN who ELSE older

HandlesWithoutOps ==
  UNCHANGED <<focused, open, target, reader, handler, preedit, speech, begunIn,
              committed, typed, astray, older, muddled, moves, drops>>

(* focus_in and enable *)
FocusIn == /\ Served /\ Call[1] = "focus_in" /\ SetActive(Call[2])
           /\ UNCHANGED session /\ HandlesWithoutOps
(* focus_out and reset *)
FocusOut == /\ Served /\ Call[1] = "focus_out" /\ session' = EndReview(session)
            /\ UNCHANGED activePath /\ HandlesWithoutOps
(* disable and destroy *)
Forget == /\ Served /\ Call[1] \in {"disable", "destroy"} /\ ClearActiveIf(Call[2])
          /\ UNCHANGED session /\ HandlesWithoutOps

ServeToggle == /\ Served /\ Call = <<"trigger", Nowhere>>
          /\ session' = OnKey(session, "trigger").session
          /\ UNCHANGED activePath /\ HandlesWithoutOps

ProcessKeyEvent ==
  /\ Served /\ Call[1] \in {"escape", "trigger", "arrow"} /\ Call[2] # Nowhere
  /\ handler.ops = <<>>
  /\ SetActive(Call[2])
  /\ LET done == OnKey(session, Call[1]) IN
     /\ session' = done.session /\ handler' = Emitting(done.ops, Call[2])
     /\ IF done.ops = <<>> THEN UNCHANGED older ELSE Obtains("reader", reader)
  /\ UNCHANGED <<focused, open, target, reader, preedit, speech, begunIn, committed,
                 typed, astray, muddled, moves, drops>>

(* One op is sent: before older ones of the other thread, or in its turn.     *)
Emits(who, other, op, path, done) ==
  /\ Lands(op, path)
  /\ muddled' = (\/ older = other \/ path # focused
                 \/ muddled /\ ~(older = "none" /\ op[1] = "preedit"))
  /\ older' = IF done /\ older = who THEN "none" ELSE older

EmitHandled ==
  /\ handler.ops # <<>>
  /\ Emits("handler", "reader", Head(handler.ops), handler.path, Tail(handler.ops) = <<>>)
  /\ handler' = IF Tail(handler.ops) = <<>> THEN Nothing
                ELSE [handler EXCEPT !.ops = Tail(@)]
  /\ UNCHANGED <<focused, open, calls, activePath, target, session, reader, speech,
                 begunIn, committed, astray, moves, drops>>

-----------------------------------------------------------------------------
(* The thread that reads the daemon. *)

Tells(done) ==
  /\ session' = done.session
  /\ reader' = [step |-> "picking", message |-> "none", ops |-> done.ops, path |-> Nowhere]
  /\ IF done.ops = <<>> THEN UNCHANGED older ELSE Obtains("handler", handler)

Reads == reader.step = "reading" /\ UNCHANGED <<activePath, handler, typed, muddled>>

(* The window of the take is found out, unless there is no X server to ask.   *)
ReadRecording ==
  /\ Reads /\ speech.on = FALSE /\ speech.take < MaxTyped
  /\ speech' = [take |-> speech.take + 1, on |-> TRUE]
  /\ target' \in {focused, Nowhere}
  /\ begunIn' = [begunIn EXCEPT ![speech'.take] = target']
  /\ Tells(OnRecordingStatus(session, TRUE))
  /\ UNCHANGED <<worldVars, open, committed, astray, drops>>

(* The take was cancelled, or was silent, or follows its words. *)
ReadStopped ==
  /\ Reads /\ speech.on /\ speech' = [speech EXCEPT !.on = FALSE]
  /\ Tells(OnRecordingStatus(session, FALSE))
  /\ UNCHANGED <<worldVars, target, begunIn, committed, astray, drops>>

ReadError ==
  /\ Reads /\ drops < MaxDrops /\ drops' = drops + 1 /\ Tells(OnError(session))
  /\ UNCHANGED <<worldVars, target, begunIn, committed, astray, speech>>

(* A text of the history is typed again, whatever the session is at.          *)
ReadInsertText ==
  /\ Reads /\ drops < MaxDrops /\ drops' = drops + 1
  /\ Tells([session |-> session, ops |-> <<CommitText(0)>>, commits |-> FALSE])
  /\ UNCHANGED <<worldVars, target, begunIn, committed, astray, speech>>

(* The daemon is gone; the one that comes may know less of reconciling.       *)
Reconnect(reconcile) ==
  /\ Reads /\ drops < MaxDrops /\ drops' = drops + 1
  /\ Tells([ResetToIdle(session) EXCEPT !.session.reconcile = reconcile])
  /\ speech' = [speech EXCEPT !.on = FALSE]
  /\ UNCHANGED <<worldVars, target, begunIn, committed, astray>>

(* The words are typed wherever the focus has gone. *)
FocusLeft == UNCHANGED <<focused, calls, preedit, astray>>   \* mutation

(* restore_dictation_focus: the window manager is asked for the window of the *)
(* take, and may not listen; the thread then sleeps.                          *)
RestoreDictationFocus ==
  \/ /\ target \in open \ {focused} /\ Len(calls) < MaxCalls /\ MoveTo(target)
     /\ UNCHANGED astray
  \/ /\ UNCHANGED <<focused, calls, preedit>>
     /\ astray' = IF target # focused THEN astray \cup {speech.take} ELSE astray

ReadWords(message) ==
  /\ Reads /\ speech.on
  /\ message = "partial" => session.preview[2] < MaxSnippet
  /\ message = "partial" \/ activePath # Nowhere
  /\ RestoreDictationFocus
  /\ reader' = [reader EXCEPT !.step = "settling", !.message = message]
  /\ UNCHANGED <<open, moves, target, session, speech, begunIn, committed, older, drops>>

(* There is nowhere to type: the take is given up. *)
ReadWithoutTarget ==
  /\ Reads /\ speech.on /\ activePath = Nowhere
  /\ Tells(OnTranscriptWithoutTarget(session))
  /\ UNCHANGED <<worldVars, target, begunIn, committed, astray, speech, drops>>

ApplyWords ==
  /\ reader.step = "settling"
  /\ LET done == IF reader.message = "partial"
                 THEN OnPartialTranscript(session, speech.take)
                 ELSE OnFinal(session, speech.take, reader.message = "empty") IN
     /\ Tells(done)
     /\ committed' = IF done.commits THEN committed \cup {speech.take} ELSE committed
  /\ UNCHANGED <<worldVars, activePath, target, handler, speech, begunIn, typed,
                 astray, muddled, drops>>

(* The context to emit to is looked up after the session has been left.       *)
PickContext ==
  /\ reader.step = "picking"
  /\ IF reader.ops = <<>> \/ activePath = Nowhere
     THEN reader' = Reading /\ older' = IF older = "reader" THEN "none" ELSE older
     ELSE reader' = [reader EXCEPT !.step = "emitting", !.path = activePath] /\ UNCHANGED older
  /\ astray' = IF calls = <<>> THEN astray ELSE astray \cup {speech.take}
  /\ muddled' = (muddled \/ (reader.ops # <<>> /\ calls # <<>>))
  /\ UNCHANGED <<worldVars, activePath, target, session, handler, speech, begunIn,
                 committed, typed, drops>>

EmitRead ==
  /\ reader.step = "emitting"
  /\ Emits("reader", "handler", Head(reader.ops), reader.path, Tail(reader.ops) = <<>>)
  /\ reader' = IF Tail(reader.ops) = <<>> THEN Reading ELSE [reader EXCEPT !.ops = Tail(@)]
  /\ UNCHANGED <<focused, open, calls, activePath, target, session, handler, speech,
                 begunIn, committed, astray, moves, drops>>

SurfaceNext ==
  \/ \E w \in InputContext : FocusWindow(w)
  \/ \E what \in {"focus_out", "disable", "destroy"} : LeaveWindow(what)
  \/ \E key \in {"escape", "trigger", "arrow"} : PressKey(key)
  \/ PressShortcut
  \/ FocusIn \/ FocusOut \/ Forget \/ ServeToggle \/ ProcessKeyEvent \/ EmitHandled
  \/ ReadRecording \/ ReadStopped \/ ReadError \/ ReadInsertText
  \/ \E reconcile \in BOOLEAN : Reconnect(reconcile)
  \/ \E message \in {"partial", "final", "empty"} : ReadWords(message)
  \/ ReadWithoutTarget \/ ApplyWords \/ PickContext \/ EmitRead

SurfaceSpec == SurfaceInit /\ [][SurfaceNext]_surfaceVars

-----------------------------------------------------------------------------
(* Properties *)

AtRest == reader.step = "reading" /\ handler.ops = <<>>

(* What the session has committed, and the daemon learns from, was typed in   *)
(* the window in which the take began, and in no other: the focus comes back  *)
(* before the words do.  Excepted are takes whose window was not found out or *)
(* was closed, at whose end the user moved on or the window manager did not   *)
(* listen, or whose words left while IBus was still telling of the focus.     *)
TypedWhereSpoken ==
  \A t \in Spoken :
    AtRest /\ t \in committed \ astray /\ begunIn[t] # Nowhere => typed[t] = {begunIn[t]}

(* No abandoned or finished take leaves its preview in an application: what   *)
(* a window shows is what the session holds.  Excepted are ops that others    *)
(* overtook between the session and the bus, or that were sent while the      *)
(* focus was moving; they stand until the next preview.                       *)
PreviewIsCurrent ==
  AtRest /\ ~muddled =>
    \A w \in InputContext : preedit[w] # NoPreview => w = focused /\ preedit[w] = session.preview

=============================================================================
