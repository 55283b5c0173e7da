-------------------------------- MODULE Badge --------------------------------
(* The badge beside the caret that says what a take is doing.  A session of   *)
(* the engine is changed by two threads, the one that reads the daemon and    *)
(* the one that serves the input method; each then brings the badge up to     *)
(* date: it reads the phase under one lock, and tells the overlay under       *)
(* others.  The overlay is a process that outlives the takes, hidden between  *)
(* them; it is told a place and a phase by the line, and may die.             *)
EXTENDS Naturals, Sequences

CONSTANTS MaxChanges,         \* bound: changes of the session or the caret
          MaxOverlayFaults    \* bound: overlays that die or cannot be started

Thread == {"reader", "input"}
Phase == {"recording", "transcribing"}   \* loading a model is shown like decoding
Idle == "idle"
NoCaret == 0
Place == 0..1

VARIABLES phase,      \* of the session: Idle or a Phase
          live,       \* the daemon's word on the phase is being read
          caret,      \* the caret the application reported
          sync,       \* how far each thread is with the badge
          overlay,    \* the process the engine holds a handle of
          last,       \* the last line told
          overtaken,  \* history: the last line was decided on an older phase
          failed,     \* history: the overlay died, or did not start, since the last line
          changes, overlayFaults

badgeVars == <<phase, live, caret, sync, overlay, last, overtaken, failed,
               changes, overlayFaults>>

Synced == [step |-> "done", phase |-> Idle, place |-> NoCaret]
NoOverlay == [up |-> FALSE, pipe |-> <<>>, shown |-> Idle]
BadgeLine(place, what) == <<place, what>>
HasOverlay == overlay # NoOverlay

IndicatorPhase == IF live THEN phase ELSE Idle
(* Without a caret, the focused window, or a place of last resort. *)
ResolveAnchor == caret

(* warm_up: the overlay is started hidden with the engine. *)
BadgeInit ==
  /\ phase = Idle /\ live = TRUE /\ caret = NoCaret
  /\ sync = [t \in Thread |-> Synced]
  /\ overlay = [NoOverlay EXCEPT !.up = TRUE] /\ last = BadgeLine(NoCaret, Idle)
  /\ overtaken = FALSE /\ failed = FALSE /\ changes = 0 /\ overlayFaults = 0

-----------------------------------------------------------------------------
(* What changes the session, always with a sync to follow. *)

Change(t) ==
  /\ sync[t].step = "done" /\ changes < MaxChanges /\ changes' = changes + 1
  /\ sync' = [sync EXCEPT ![t].step = "read"]
  /\ UNCHANGED <<overlay, last, overtaken, failed, overlayFaults>>

(* The reader thread is told of a phase, or of the end of the take ... *)
DaemonSays(what) ==
  /\ Change("reader") /\ live
  /\ phase' = what /\ UNCHANGED <<live, caret>>

(* ... and blocks in a review, or while it connects again, which leaves the   *)
(* session idle or in the phase it was in. *)
SetPhaseChannelLive(what) ==
  /\ Change("reader") /\ live # what
  /\ live' = what /\ phase' \in (IF what THEN {phase, Idle} ELSE {phase})
  /\ UNCHANGED caret

(* A key: Escape cancels a take whatever is being done to it, decoding as well *)
(* as recording; the trigger is answered by the daemon. *)
ProcessKey ==
  /\ Change("input")
  /\ phase' \in {phase, Idle}
  /\ caret' \in {caret, NoCaret}      \* in another input context, it is not known
  /\ UNCHANGED live

SetCursorLocation ==
  /\ Change("input") /\ caret' = 1 /\ UNCHANGED <<phase, live>>

-----------------------------------------------------------------------------
(* sync_indicator. *)

ReadPhase(t) ==
  /\ sync[t].step = "read"
  /\ sync' = [sync EXCEPT ![t] = [step |-> IF IndicatorPhase = Idle THEN "hide" ELSE "tell",
                                  phase |-> IndicatorPhase, place |-> ResolveAnchor]]
  /\ UNCHANGED <<phase, live, caret, overlay, last, overtaken, failed, changes, overlayFaults>>

(* A hide never starts the overlay, and leaves it where it is. *)
Hide(t) ==
  /\ sync[t].step = "hide"
  /\ IF HasOverlay THEN sync' = [sync EXCEPT ![t].step = "tell", ![t].place = last[1]]
     ELSE sync' = [sync EXCEPT ![t] = Synced]
  /\ UNCHANGED <<phase, live, caret, overlay, last, overtaken, failed, changes, overlayFaults>>

(* Only to be hidden once more where it is hidden is not worth a line. *)
RedundantInPlace(line) == line[2] = Idle /\ HasOverlay /\ last[1] = line[1]   \* mutation
Redundant(line) == line[2] = Idle /\ HasOverlay /\ last = line

Told(line) == [overlay EXCEPT !.pipe = Append(@, line)]
Launched(line) == [up |-> TRUE, pipe |-> <<>>, shown |-> line[2]]

(* A pipe that is broken is how an overlay that died is noticed; it is reaped *)
(* and another one started.                                                   *)
Stream(t) ==
  /\ sync[t].step = "tell"
  /\ sync' = [sync EXCEPT ![t] = Synced]
  /\ overtaken' = (sync[t].phase # IndicatorPhase)
  /\ LET line == BadgeLine(sync[t].place, sync[t].phase) IN
     IF Redundant(line) THEN UNCHANGED <<overlay, last, failed, overlayFaults>>
     ELSE /\ last' = line
          /\ \/ /\ HasOverlay /\ overlay.up /\ overlay' = Told(line)
                /\ failed' = FALSE /\ UNCHANGED overlayFaults
             \/ /\ ~(HasOverlay /\ overlay.up) /\ overlay' = Launched(line)
                /\ failed' = FALSE /\ UNCHANGED overlayFaults
             \/ /\ ~(HasOverlay /\ overlay.up) /\ overlayFaults < MaxOverlayFaults
                /\ overlay' = NoOverlay /\ failed' = TRUE /\ overlayFaults' = overlayFaults + 1
  /\ UNCHANGED <<phase, live, caret, changes>>

-----------------------------------------------------------------------------
(* The overlay: it draws the last line it was told. *)

Draw ==
  /\ overlay.up /\ overlay.pipe # <<>>
  /\ overlay' = [overlay EXCEPT !.pipe = <<>>, !.shown = overlay.pipe[Len(overlay.pipe)][2]]
  /\ UNCHANGED <<phase, live, caret, sync, last, overtaken, failed, changes, overlayFaults>>

OverlayDies ==
  /\ overlay.up /\ overlayFaults < MaxOverlayFaults
  /\ overlay' = [up |-> FALSE, pipe |-> <<>>, shown |-> "dead"]
  /\ failed' = TRUE /\ overlayFaults' = overlayFaults + 1
  /\ UNCHANGED <<phase, live, caret, sync, last, overtaken, changes>>

BadgeNext ==
  \/ \E what \in Phase \cup {Idle} : DaemonSays(what)
  \/ \E what \in BOOLEAN : SetPhaseChannelLive(what)
  \/ ProcessKey \/ SetCursorLocation
  \/ \E t \in Thread : ReadPhase(t) \/ Hide(t) \/ Stream(t)
  \/ Draw \/ OverlayDies

BadgeSpec == BadgeInit /\ [][BadgeNext]_badgeVars

-----------------------------------------------------------------------------
(* Once both threads are done and the overlay has read its lines, the badge   *)
(* shows the phase of the take, and none when there is no take, however the   *)
(* overlay died and was replaced on the way; unless the last line was decided *)
(* on a phase that the other thread had already replaced.                     *)
BadgeShowsPhase ==
  (\A t \in Thread : sync[t] = Synced) /\ overlay.pipe = <<>> /\ ~overtaken =>
    /\ overlay.up => overlay.shown = IndicatorPhase
    /\ IndicatorPhase # Idle /\ ~failed => overlay.up
=============================================================================
