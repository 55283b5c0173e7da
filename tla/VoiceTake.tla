----------------------------- MODULE VoiceTake -----------------------------
(***************************************************************************)
(* The one recording core of the phone, and the surfaces that share it:    *)
(* the keyboard's mic key, and the headless takes of the recognition       *)
(* service, the voice picker and the quick-launch button (idiolect-ffi and *)
(* the Android ime, core and recognition packages).                        *)
(*                                                                         *)
(* Each surface has a MicToggle, whose tasks run one after the other on a  *)
(* thread of its own, and a DictationController with the mic and a pump.   *)
(* A call of the core runs under its lock, callbacks included; the steps   *)
(* of a task are interleaved with everything else.                         *)
(*                                                                         *)
(* Speech is known by where it was said: "plain" in a field that may be    *)
(* learned from, "blocked" in one that may not, and "headless" to a caller *)
(* of whose field nothing is known.                                        *)
(***************************************************************************)
EXTENDS Naturals, Sequences

CONSTANTS
    MaxTakes,       \* bound: headless takes, one session each
    MaxGestures     \* bound: gestures on the keyboard's mic and moves between fields

ASSUME VoiceBounds ==
    MaxTakes \in Nat \ {0} /\ MaxGestures \in Nat \ {0}

(* The keyboard, and the headless takes in the order they begin.           *)
Ime == 0
Headless == 1..MaxTakes
Surface == {Ime} \cup Headless

Speech == {"plain", "blocked", "headless"}

VARIABLES
    core,       \* recording, ephemeral, continuous, and what the take heard
    learned,    \* the speech that was persisted
    override,   \* CoreCallbackRouter: whom the core's pushes go to
    todo,       \* surface -> the tasks queued on its executor
    step,       \* surface -> what the running task is at
    owns,       \* surface -> MicToggle.ownsTake
    mic,        \* surface -> is its AudioRecord open?
    frame,      \* surface -> the speech between its mic and its pump, or "none"
    session,    \* headless take -> its RecognitionSession
    field,      \* the field the keyboard is on: "plain" or "blocked"
    ui,         \* does the keyboard show a take?
    held,       \* holdStartedTake
    gestures,   \* how many gestures and moves there were
    \* history
    crossed     \* two surfaces were used at once, or a blocked field was left early

ime == <<field, ui, held, gestures>>
capture == <<mic, frame>>
vars == <<core, learned, override, todo, step, owns, capture, session, ime, crossed>>

Quiet == [recording |-> FALSE, ephemeral |-> FALSE, continuous |-> FALSE, heard |-> {}]
Unborn == [state |-> "unborn", told |-> 0, asked |-> FALSE,
           dropped |-> FALSE, released |-> FALSE]

Task == {"begin", "hold", "continuous", "stop", "cancel", "release"}
Step == {"idle", "load", "toggle on", "go on", "open", "toggle off", "close"}

TypeOK ==
    /\ core \in [recording : BOOLEAN, ephemeral : BOOLEAN, continuous : BOOLEAN,
                 heard : SUBSET Speech]
    /\ ~core.recording => core = Quiet
    /\ learned \subseteq Speech /\ override \in Surface
    /\ todo \in [Surface -> Seq(Task)] /\ step \in [Surface -> Step]
    /\ owns \in [Surface -> BOOLEAN] /\ mic \in [Surface -> BOOLEAN]
    /\ frame \in [Surface -> Speech \cup {"none"}]
    /\ session \in [Headless -> [state : {"unborn", "idle", "listening", "done"},
                                 told : 0..2, asked : BOOLEAN,
                                 dropped : BOOLEAN, released : BOOLEAN]]
    /\ field \in {"plain", "blocked"} /\ ui \in BOOLEAN /\ held \in BOOLEAN
    /\ gestures \in 0..MaxGestures /\ crossed \in BOOLEAN

Init ==
    /\ core = Quiet /\ learned = {} /\ override = Ime
    /\ todo = [s \in Surface |-> <<>>] /\ step = [s \in Surface |-> "idle"]
    /\ owns = [s \in Surface |-> FALSE]
    /\ mic = [s \in Surface |-> FALSE] /\ frame = [s \in Surface |-> "none"]
    /\ session = [h \in Headless |-> Unborn]
    /\ field = "plain" /\ ui = FALSE /\ held = FALSE /\ gestures = 0
    /\ crossed = FALSE

(***************************************************************************)
(* The session of a headless take.  Only one that listens takes an answer  *)
(* of the core, and its caller is told once.                               *)
(***************************************************************************)
Tell(n) == [n EXCEPT !.state = "done", !.asked = FALSE, !.told = @ + 1]

(* Mutant of OnCommitted: a spent session takes a commit too.              *)
OnCommittedLate(n) == Tell(n)

OnCommitted(n) == IF n.state = "listening" THEN Tell(n) ELSE n

OnFinalized(n) == IF n.state = "listening" THEN Tell(n) ELSE n
OnFailed(n) == IF n.state = "listening" THEN Tell(n) ELSE n
OnRefused(n) == IF n.state = "idle" THEN Tell(n) ELSE n     \* onBusy, onLoadFailed

(* After release the executor takes no more tasks.                         *)
Open(s) == s = Ime \/ ~session[s].released
Submitted(queues, s, task) ==
    IF Open(s) THEN [queues EXCEPT ![s] = Append(@, task)] ELSE queues

(***************************************************************************)
(* The core's calls.                                                       *)
(***************************************************************************)

(* A push of the core goes to the holder of the override.                  *)
Pushed(push(_)) ==
    session' = IF override = Ime THEN session
               ELSE [session EXCEPT ![override] = push(@)]

Started(ephemeral, continuous) ==
    /\ core' = [recording |-> TRUE, ephemeral |-> ephemeral, continuous |-> continuous,
                heard |-> {}]
    /\ ui' = (ui \/ override = Ime)
    /\ UNCHANGED <<learned, session>>

(* stop_recording: what was heard is persisted, unless the take is         *)
(* ephemeral, and committed; that recording is over is pushed last.        *)
Stopped ==
    /\ core' = Quiet
    /\ learned' = IF core.ephemeral THEN learned ELSE learned \cup core.heard
    /\ LET commit(n) == IF core.heard = {} THEN n ELSE OnCommitted(n)
           push(n) == OnFinalized(commit(n))
       IN  Pushed(push)
    /\ ui' = (ui /\ override # Ime)

(* toggle and toggle_ephemeral: one edge or the other.                     *)
Toggled(s) == IF core.recording THEN Stopped ELSE Started(s # Ime, FALSE)

(* cancel: nothing is kept of the take.                                    *)
Discarded ==
    IF core.recording
    THEN /\ core' = Quiet /\ ui' = (ui /\ override # Ime)
         /\ Pushed(OnFinalized) /\ UNCHANGED learned
    ELSE UNCHANGED <<core, learned, session, ui>>

(* Mutant of Accepted: the field the keyboard is on is not looked at.      *)
AcceptedAnywhere(s) == frame[s] # "none" /\ core.recording

(* The pump of the keyboard drops what it holds while its field is blocked *)
(* and the core what comes when it does not record.                        *)
Accepted(s) ==
    frame[s] # "none" /\ core.recording /\ ~(s = Ime /\ field = "blocked")

HeardFrom(s) ==
    IF Accepted(s) THEN [core EXCEPT !.heard = @ \cup {frame[s]}] ELSE core

(***************************************************************************)
(* The mic of a surface, and its pump.                                     *)
(***************************************************************************)
Capture(s) ==
    /\ mic[s] /\ frame[s] = "none"
    /\ frame' = [frame EXCEPT ![s] = IF s = Ime THEN field ELSE "headless"]
    /\ UNCHANGED <<core, learned, override, todo, step, owns, mic, session, ime, crossed>>

Pump(s) ==
    /\ frame[s] # "none"
    /\ core' = HeardFrom(s) /\ frame' = [frame EXCEPT ![s] = "none"]
    /\ UNCHANGED <<learned, override, todo, step, owns, mic, session, ime, crossed>>

(* A pause ends a phrase of a continuous take, which is kept like a take.  *)
EndPhrase ==
    /\ core.recording /\ core.continuous /\ core.heard # {}
    /\ learned' = learned \cup core.heard
    /\ core' = [core EXCEPT !.heard = {}]
    /\ Pushed(OnCommitted)
    /\ UNCHANGED <<override, todo, step, owns, capture, ime, crossed>>

(* Mutant of DecodeFails: the session ends, its take goes on.              *)
DecodeFailsOnly ==
    /\ core.recording
    /\ override # Ime /\ session[override].state = "listening"
    /\ Pushed(OnFailed)
    /\ UNCHANGED <<core, learned, override, todo, step, owns, capture, ime, crossed>>

(* A snippet cannot be decoded: the failed session discards its take.      *)
DecodeFails ==
    /\ core.recording
    /\ override # Ime /\ session[override].state = "listening"
    /\ Pushed(OnFailed)
    /\ todo' = Submitted(todo, override, "cancel")
    /\ UNCHANGED <<core, learned, override, step, owns, capture, ime, crossed>>

(***************************************************************************)
(* MicToggle's tasks.  The head of todo is the task that runs.             *)
(***************************************************************************)
Runs(s, task, at) == todo[s] # <<>> /\ Head(todo[s]) = task /\ step[s] = at
Goes(s, to) == step' = [step EXCEPT ![s] = to] /\ UNCHANGED todo
Ends(s) == step' = [step EXCEPT ![s] = "idle"] /\ todo' = [todo EXCEPT ![s] = Tail(@)]

CanStart(s) == IF s = Ime THEN field = "plain" ELSE session[s].state = "listening"

(* startHold: a take starts if none runs and it may; a headless one that   *)
(* is refused gives the override up and tells its caller.                  *)
Hold(s) ==
    /\ Runs(s, "hold", "idle") /\ ~core.recording /\ CanStart(s)
    /\ Goes(s, "toggle on")
    /\ UNCHANGED <<core, learned, override, owns, capture, session, ime, crossed>>

HoldRefused(s) ==
    /\ Runs(s, "hold", "idle") /\ (core.recording \/ ~CanStart(s))
    /\ step' = step
    /\ IF s = Ime
       THEN todo' = [todo EXCEPT ![s] = Tail(@)] /\ UNCHANGED <<override, session>>
       ELSE /\ override' = IF override = s THEN Ime ELSE override
            /\ session' = [session EXCEPT ![s] = OnFailed(@)]
            /\ todo' = LET rest == [todo EXCEPT ![s] = Tail(@)]
                       IN  IF session[s].state = "listening"
                           THEN Submitted(rest, s, "cancel") ELSE rest
    /\ UNCHANGED <<core, learned, owns, capture, ime, crossed>>

ToggleOn(s) ==
    /\ Runs(s, "hold", "toggle on")
    /\ Toggled(s) /\ Goes(s, "open")
    /\ UNCHANGED <<override, owns, capture, field, held, gestures, crossed>>

(* A double tap: start_continuous, which a running take ignores.           *)
HoldContinuous(s) ==
    /\ Runs(s, "continuous", "idle")
    /\ IF ~core.recording /\ CanStart(s) THEN Goes(s, "go on") ELSE Ends(s)
    /\ UNCHANGED <<core, learned, override, owns, capture, session, ime, crossed>>

GoOn(s) ==
    /\ Runs(s, "continuous", "go on")
    /\ IF core.recording THEN UNCHANGED <<core, learned, session, ui>>
       ELSE Started(FALSE, TRUE)
    /\ Goes(s, "open")
    /\ UNCHANGED <<override, owns, capture, field, held, gestures, crossed>>

OpenMic(s) ==
    /\ step[s] = "open"
    /\ mic' = [mic EXCEPT ![s] = TRUE] /\ owns' = [owns EXCEPT ![s] = TRUE]
    /\ Ends(s)
    /\ UNCHANGED <<core, learned, override, frame, session, ime, crossed>>

(* stop: whoever's take it is.  The mic is closed and its pump drained      *)
(* before the take is finalized.                                           *)
Drained(s) ==
    mic' = [mic EXCEPT ![s] = FALSE] /\ frame' = [frame EXCEPT ![s] = "none"]

Stop(s) ==
    /\ Runs(s, "stop", "idle")
    /\ IF core.recording
       THEN core' = HeardFrom(s) /\ Drained(s) /\ Goes(s, "toggle off") /\ UNCHANGED owns
       ELSE Ends(s) /\ owns' = [owns EXCEPT ![s] = FALSE] /\ UNCHANGED <<core, capture>>
    /\ UNCHANGED <<learned, override, session, ime, crossed>>

ToggleOff(s) ==
    /\ Runs(s, "stop", "toggle off")
    /\ Toggled(s) /\ owns' = [owns EXCEPT ![s] = FALSE] /\ Ends(s)
    /\ UNCHANGED <<override, capture, field, held, gestures, crossed>>

(* cancel: only the take this surface started; the core first.             *)
Cancel(s) ==
    /\ Runs(s, "cancel", "idle")
    /\ IF owns[s] /\ core.recording
       THEN Discarded /\ Goes(s, "close") /\ UNCHANGED owns
       ELSE /\ Ends(s) /\ owns' = [owns EXCEPT ![s] = FALSE]
            /\ UNCHANGED <<core, learned, session, ui>>
    /\ UNCHANGED <<override, capture, field, held, gestures, crossed>>

CloseMic(s) ==
    /\ Runs(s, "cancel", "close")
    /\ core' = HeardFrom(s) /\ Drained(s)
    /\ owns' = [owns EXCEPT ![s] = FALSE] /\ Ends(s)
    /\ UNCHANGED <<learned, override, session, ime, crossed>>

(***************************************************************************)
(* A headless take: CoreRecognitionTake.                                   *)
(***************************************************************************)

(* Admission: not while the core records, nor while another has the        *)
(* override.                                                               *)
Refuse(h) ==
    /\ session' = [session EXCEPT ![h] = OnRefused(@)] /\ Ends(h)

Admit(h) ==
    /\ Runs(h, "begin", "idle")
    /\ IF ~core.recording /\ override \in {Ime, h}
       THEN override' = h /\ Goes(h, "load") /\ UNCHANGED session
       ELSE Refuse(h) /\ UNCHANGED override
    /\ UNCHANGED <<core, learned, owns, capture, ime, crossed>>

(* The model is loaded: the session starts, if it still waits for that,    *)
(* and its caller hears that it may speak.                                 *)
Loaded(h) ==
    /\ Runs(h, "begin", "load")
    /\ LET rest == [todo EXCEPT ![h] = Tail(@)]
       IN  IF session[h].state = "idle"
           THEN /\ session' = [session EXCEPT ![h].state = "listening"]
                /\ todo' = Submitted(rest, h, "hold")
           ELSE todo' = rest /\ UNCHANGED session
    /\ step' = [step EXCEPT ![h] = "idle"]
    /\ UNCHANGED <<core, learned, override, owns, capture, ime, crossed>>

LoadFails(h) ==
    /\ Runs(h, "begin", "load")
    /\ Refuse(h)
    /\ UNCHANGED <<core, learned, override, owns, capture, ime, crossed>>

Release(h) ==
    /\ Runs(h, "release", "idle")
    /\ override' = IF override = h THEN Ime ELSE override
    /\ Ends(h)
    /\ UNCHANGED <<core, learned, owns, capture, session, ime, crossed>>

(* Is the keyboard in the middle of something?  Is a headless take?        *)
ImeBusy == todo[Ime] # <<>> \/ mic[Ime] \/ (core.recording /\ ~core.ephemeral)
HeadlessBusy(h) ==
    session[h].state \in {"idle", "listening"} \/ todo[h] # <<>> \/ mic[h]

Begin(h) ==
    /\ session[h] = Unborn /\ \A g \in 1..h - 1 : session[g] # Unborn
    /\ session' = [session EXCEPT ![h].state = "idle"]
    /\ todo' = Submitted(todo, h, "begin")
    /\ crossed' = (crossed \/ ImeBusy \/ \E g \in Headless : HeadlessBusy(g))
    /\ UNCHANGED <<core, learned, override, step, owns, capture, ime>>

(* The caller is done speaking.  Before the take has started, that is      *)
(* answered on the spot.                                                   *)
StopListening(h) ==
    /\ session[h].state \in {"idle", "listening"} /\ ~session[h].asked
    /\ IF session[h].state = "idle"
       THEN session' = [session EXCEPT ![h] = OnRefused(@)] /\ UNCHANGED todo
       ELSE /\ session' = [session EXCEPT ![h].asked = TRUE]
            /\ todo' = Submitted(todo, h, "stop")
    /\ UNCHANGED <<core, learned, override, step, owns, capture, ime, crossed>>

(* The caller, or the end of its screen, drops the take.                   *)
Abandon(h) ==
    /\ session[h].state \in {"idle", "listening"}
    /\ session' = [session EXCEPT ![h] =
           [@ EXCEPT !.state = "done", !.asked = FALSE, !.dropped = TRUE]]
    /\ todo' = IF session[h].state = "listening" THEN Submitted(todo, h, "cancel") ELSE todo
    /\ UNCHANGED <<core, learned, override, step, owns, capture, ime, crossed>>

(* The host of a spent session releases the take, at once or later.        *)
CleanUp(h) ==
    /\ session[h].state = "done" /\ ~session[h].released
    /\ session' = [session EXCEPT ![h].released = TRUE]
    /\ todo' = Submitted(todo, h, "release")
    /\ UNCHANGED <<core, learned, override, step, owns, capture, ime, crossed>>

(***************************************************************************)
(* The keyboard.                                                           *)
(***************************************************************************)
Gesture ==
    /\ gestures < MaxGestures /\ gestures' = gestures + 1
    /\ crossed' = (crossed \/ \E h \in Headless : HeadlessBusy(h))
    /\ UNCHANGED <<core, learned, override, step, owns, capture, session, field>>

(* On a blocked field no gesture starts a take.                            *)
HoldStart ==
    /\ Gesture /\ field = "plain" /\ ~held
    /\ held' = TRUE /\ ui' = TRUE
    /\ todo' = Submitted(todo, Ime, "hold")

HoldEnd ==
    /\ Gesture /\ held
    /\ held' = FALSE /\ ui' = FALSE
    /\ todo' = Submitted(todo, Ime, "stop")

(* A tap stops what the keyboard shows, and starts a take otherwise; a     *)
(* double tap starts a continuous one.                                     *)
Tap ==
    /\ Gesture /\ UNCHANGED held
    /\ \/ ui /\ ui' = FALSE /\ todo' = Submitted(todo, Ime, "stop")
       \/ /\ ~ui /\ field = "plain" /\ UNCHANGED ui
          /\ todo' = Submitted(todo, Ime, "hold")

DoubleTap ==
    /\ Gesture /\ ~ui /\ field = "plain"
    /\ ui' = TRUE /\ UNCHANGED held
    /\ todo' = Submitted(todo, Ime, "continuous")

(* onStartInputView: a blocked field discards the take that runs.          *)
Move(to) ==
    /\ gestures < MaxGestures /\ gestures' = gestures + 1
    /\ to # field /\ field' = to
    /\ todo' = IF to = "blocked" THEN Submitted(todo, Ime, "cancel") ELSE todo
    /\ crossed' = (crossed \/ (field = "blocked" /\ (todo[Ime] # <<>> \/ mic[Ime])))
    /\ UNCHANGED <<core, learned, override, step, owns, capture, session, ui, held>>

Toggle(s) ==
    \/ Hold(s) \/ HoldRefused(s) \/ ToggleOn(s) \/ OpenMic(s)
    \/ HoldContinuous(s) \/ GoOn(s)
    \/ Stop(s) \/ ToggleOff(s)
    \/ Cancel(s) \/ CloseMic(s)

Take(h) == Admit(h) \/ Loaded(h) \/ LoadFails(h) \/ Release(h)

Next ==
    \/ \E s \in Surface : Capture(s) \/ Pump(s) \/ Toggle(s)
    \/ \E h \in Headless :
           Take(h) \/ Begin(h) \/ StopListening(h) \/ Abandon(h) \/ CleanUp(h)
    \/ EndPhrase \/ DecodeFails
    \/ HoldStart \/ HoldEnd \/ Tap \/ DoubleTap
    \/ \E to \in {"plain", "blocked"} : Move(to)

Spec == Init /\ [][Next]_vars

(***************************************************************************)
(* Properties                                                              *)
(***************************************************************************)

(* A caller hears of the outcome of its take once at most, and never after *)
(* it dropped the take; whatever the core commits, finalizes and fails     *)
(* meanwhile, for this take or for another's.                              *)
AnsweredOnce ==
    \A h \in Headless :
        session[h].told + (IF session[h].dropped THEN 1 ELSE 0) =
            IF session[h].state = "done" THEN 1 ELSE 0

(* Speech to a headless take is never persisted.                           *)
HeadlessNotLearned == "headless" \notin learned

(* Nor is speech in a blocked field, as long as the surfaces are used one  *)
(* after the other and a blocked field is left after the take there was    *)
(* discarded.                                                              *)
SecretsStayOut == ~crossed => learned \subseteq {"plain"}

(* As long as they are, a mic is open only for a take that runs and that   *)
(* somebody still waits for, or for a task that will close it.             *)
NoHotMic ==
    ~crossed => \A s \in Surface :
        mic[s] => \/ todo[s] # <<>>
                  \/ /\ core.recording /\ owns[s]
                     /\ s \in Headless => session[s].state = "listening"

(* No caller waits for nothing: a session that was asked for the end of    *)
(* its take and has not told its caller has a task yet to run; whether the *)
(* take was silent, was refused, was finalized by the keyboard or lost the *)
(* core to it.                                                             *)
NoneStranded ==
    \A h \in Headless :
        session[h].asked => todo[h] # <<>>

(* Whatever was refused, failed or lost the core on the way: neither a mic *)
(* that nobody closes nor a caller that nobody answers is left behind.     *)
NothingLeftBehind == NoHotMic /\ NoneStranded

=============================================================================
