------------------------------- MODULE Review -------------------------------
(* The review dialog and its supervision.  A dictated text is shown to the    *)
(* user by a process of its own: it may be opened while the take goes on, to  *)
(* show a draft of it, is handed the final text through a pipe, and answers   *)
(* with the text the user let pass, or with a mark that he cancelled.  It can *)
(* die at any moment, and then the take is gone: the user must be told.  An   *)
(* identical failure is not told twice within a minute, except by a reporter  *)
(* that reports every occurrence.  An attempt is the end of a take under      *)
(* review, or the edit of an entry of the history.                            *)
EXTENDS Naturals, Sequences

CONSTANTS MaxAttempts,   \* bound: texts handed to the user
          MaxSnippets,   \* bound: phrases shown while they are dictated
          MaxFaults      \* bound: dialogs that die or cannot be started

Attempt == 1..MaxAttempts
Draft == 0

(* How a dialog ends: with a text, with the mark and code 1, from underneath  *)
(* its own code with 1, by a signal, or before it showed anything.            *)
Fault == {"exit 1", "signal", "unavailable"}

VARIABLES engine,    \* "idle", "waiting" for the verdict of a dialog, or "gone"
          attempt,   \* the current attempt, or the last
          dialog,    \* the dialog the engine holds a handle of
          recent,    \* failures told by the preview's reporter less than a minute ago
          verdict,   \* what became of each attempt
          snippets, faults

reviewVars == <<engine, attempt, dialog, recent, verdict, snippets, faults>>

NoDialog == [exit |-> "none"]
Held == dialog # NoDialog
Running == dialog.exit = "running"

(* A process that listens; one is quiet when its failures are told once only. *)
Started(quiet) ==
  [exit |-> "running", quiet |-> quiet, feed |-> <<>>, eof |-> FALSE,
   listening |-> TRUE, text |-> Draft, seen |-> FALSE, by |-> "nobody"]

ReviewInit ==
  /\ engine = "idle" /\ attempt = 0 /\ dialog = NoDialog /\ recent = {}
  /\ verdict = [a \in Attempt |-> "none"] /\ snippets = 0 /\ faults = 0

-----------------------------------------------------------------------------
(* Supervision. *)

ShouldReport(quiet, failure) == ~quiet \/ failure \notin recent
Report(quiet, failure) ==
  recent' = IF quiet THEN recent \cup {failure} ELSE recent

(* Code 1 is a cancellation only when the dialog said so on its way out, and  *)
(* no signal is a normal end for what holds the user's words.                 *)
ExpectedByCode(exit) ==    \* mutation: code 1 is a cancellation
  exit \in {"confirmed", "marked", "exit 1"}
ExpectedExitFor(exit) == exit \in {"confirmed", "marked"}

Wait ==
  IF ExpectedExitFor(dialog.exit) THEN recent' = recent
  ELSE Report(dialog.quiet, dialog.exit)

SpawnFails == faults < MaxFaults /\ faults' = faults + 1

-----------------------------------------------------------------------------
(* The engine. *)

(* append: a phrase for the draft.  Nothing is lost when it cannot be shown.  *)
Snippet ==
  /\ engine = "idle" /\ snippets < MaxSnippets /\ snippets' = snippets + 1
  /\ UNCHANGED <<engine, attempt, verdict>>

AppendOpens ==
  /\ Snippet /\ ~Held
  /\ \/ /\ dialog' = [Started(TRUE) EXCEPT !.feed = <<Draft>>]
        /\ UNCHANGED <<recent, faults>>
     \/ /\ SpawnFails /\ Report(TRUE, "no start") /\ UNCHANGED dialog

AppendWrites ==
  /\ Snippet /\ Running
  /\ dialog' = [dialog EXCEPT !.feed = Append(@, Draft)]
  /\ UNCHANGED <<recent, faults>>

(* The pipe is broken: the window went away by itself, and is reaped. *)
AppendReaps ==
  /\ Snippet /\ Held /\ ~Running
  /\ Wait /\ dialog' = NoDialog
  /\ UNCHANGED faults

Final(d) == [d EXCEPT !.feed = Append(@, attempt'), !.eof = TRUE]

(* run_dialog: the final text goes to the dialog that listens, or to a fresh  *)
(* one if there is none or it went away; its input is closed behind it.       *)
StartReview ==
  /\ engine = "idle" /\ attempt < MaxAttempts /\ attempt' = attempt + 1
  /\ UNCHANGED <<recent, snippets>>

ReviewListening ==
  /\ StartReview /\ Running
  /\ dialog' = Final(dialog) /\ engine' = "waiting"
  /\ UNCHANGED <<verdict, faults>>

ReviewFresh ==
  /\ StartReview /\ ~Running
  /\ \/ /\ dialog' = Final(Started(FALSE)) /\ engine' = "waiting"
        /\ UNCHANGED <<verdict, faults>>
     \/ /\ SpawnFails /\ dialog' = NoDialog /\ engine' = "idle"
        /\ verdict' = [verdict EXCEPT ![attempt'] = "told"]

(* Why a text that was not inserted is gone. *)
Discarded ==
  IF ~ExpectedExitFor(dialog.exit)
  THEN IF ShouldReport(dialog.quiet, dialog.exit) THEN "told" ELSE "hushed"
  ELSE IF dialog.by = "nobody" THEN "silence" ELSE "cancelled"

Inserted ==
  IF dialog.text # attempt THEN "draft"
  ELSE IF dialog.seen THEN "inserted"
  ELSE IF dialog.by = "click" THEN "clicked" ELSE "unseen"

Verdict ==
  /\ engine = "waiting" /\ Held /\ ~Running
  /\ verdict' = [verdict EXCEPT ![attempt] =
                   IF dialog.exit = "confirmed" THEN Inserted ELSE Discarded]
  /\ Wait /\ dialog' = NoDialog /\ engine' = "idle"
  /\ UNCHANGED <<attempt, snippets, faults>>

(* The take was cancelled, or the daemon went away. *)
Close ==
  /\ engine = "idle" /\ Held
  /\ dialog' = NoDialog
  /\ UNCHANGED <<engine, attempt, recent, verdict, snippets, faults>>

-----------------------------------------------------------------------------
(* The dialog. *)

Hand == {"key", "click"}     \* what the user acts with

Ends(d, exit, by) == [d EXCEPT !.exit = exit, !.by = by]

(* apply_line, for all the lines that came in since the last frame. *)
Applied(d) ==
  IF d.feed = <<>> THEN d
  ELSE LET last == d.feed[Len(d.feed)] IN
       IF last = Draft THEN [d EXCEPT !.feed = <<>>]
       ELSE [d EXCEPT !.feed = <<>>, !.text = last, !.listening = FALSE]

(* A key acts on what an earlier frame has shown.  A key that was meant for   *)
(* the application may still be pressed in the frame that turns editable.     *)
ActsAtOnce(before, now) == ~now.listening    \* mutation: in the very same frame
Acts(before, now) == ~now.listening /\ ~before.listening

(* The buttons are enabled in the frame that turns editable already; whether  *)
(* a click counts in it is left to the toolkit. *)
Enabled(now) == ~now.listening

Frame(action, by) ==
  /\ Held /\ Running
  /\ LET now == Applied(dialog)
         acts == IF by = "key" THEN Acts(dialog, now) ELSE Enabled(now) IN
     dialog' = IF now.eof /\ now.listening THEN Ends(now, "marked", "nobody")
               ELSE IF action = "insert" /\ acts THEN Ends(now, "confirmed", by)
               ELSE IF action = "cancel" /\ acts THEN Ends(now, "marked", by)
               ELSE [now EXCEPT !.seen = ~now.listening]
  /\ UNCHANGED <<engine, attempt, recent, verdict, snippets, faults>>

(* The input of a dialog whose engine is gone ends; one that still listens    *)
(* then closes, one that can be edited stays, for nobody.                     *)
EngineDies ==
  /\ engine # "gone" /\ Held /\ Running
  /\ engine' = "gone" /\ dialog' = [dialog EXCEPT !.eof = TRUE]
  /\ UNCHANGED <<attempt, recent, verdict, snippets, faults>>

(* Closed by the window manager. *)
CloseWindow ==
  /\ Held /\ Running
  /\ dialog' = Ends(dialog, "marked", "click")
  /\ UNCHANGED <<engine, attempt, recent, verdict, snippets, faults>>

Die(fault) ==
  /\ Held /\ Running /\ faults < MaxFaults /\ faults' = faults + 1
  /\ dialog' = Ends(dialog, fault, "nobody")
  /\ UNCHANGED <<engine, attempt, recent, verdict, snippets>>

AMinutePasses ==
  /\ recent # {} /\ recent' = {}
  /\ UNCHANGED <<engine, attempt, dialog, verdict, snippets, faults>>

ReviewNext ==
  \/ AppendOpens \/ AppendWrites \/ AppendReaps
  \/ ReviewListening \/ ReviewFresh \/ Verdict \/ Close
  \/ \E action \in {"none", "insert", "cancel"}, by \in Hand : Frame(action, by)
  \/ EngineDies \/ CloseWindow \/ (\E fault \in Fault : Die(fault)) \/ AMinutePasses

ReviewSpec == ReviewInit /\ [][ReviewNext]_reviewVars

-----------------------------------------------------------------------------
(* A text that is lost without the user's own cancellation is told to him, or *)
(* the same failure was told less than a minute before.                       *)
LossIsTold == \A a \in Attempt : verdict[a] # "silence"

(* What is inserted is the final text of its own take, never a draft; and     *)
(* what a key let pass, which may have been meant for the application, the    *)
(* user had before him.  A click may let a text pass in the frame that brings *)
(* it.                                                                        *)
FinalIsReviewed == \A a \in Attempt : verdict[a] \notin {"draft", "unseen"}

=============================================================================
