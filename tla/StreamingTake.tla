--------------------------- MODULE StreamingTake ---------------------------
(***************************************************************************)
(* One live take: how a stream of microphone frames becomes snippets at    *)
(* the speaker's pauses, the recording and the text that are kept, and the *)
(* preview (idiolect-application, streaming.rs and segmentation.rs).       *)
(*                                                                         *)
(* Two programs drive it.  The daemon (run_loop.rs) drains the microphone  *)
(* between messages, stops by itself after a long silence, and at a stop   *)
(* drains one more time.  The phone (idiolect-ffi) is handed buffers; its  *)
(* takes are decoded once at the stop or, in continuous mode, phrase by    *)
(* phrase.  Both run a drain, with all it sets off, under a lock: a take   *)
(* can be stopped or dropped only in between.                              *)
(*                                                                         *)
(* A frame is its number and a snippet the sequence of its frames; the     *)
(* text of a snippet is named by the snippet's first frame.  Times count   *)
(* frames, rounded up as frames_for does.  What a decoder answers is any   *)
(* of: words, only noise, or a failure with one of the Codes.              *)
(***************************************************************************)
EXTENDS Naturals, Sequences, SequencesExt

CONSTANTS
    MinSpeech,      \* speech an utterance needs, or it is a blip
    PreRoll,        \* frames kept from before the speech
    PostRoll,       \* silence that ends an utterance
    MaxUtterance,   \* frames after which an utterance is cut
    AutoStop,       \* silence that ends a take on the desktop, 0 for never
    Codes,          \* codes of decoding failures
    NoCode,         \* no failure was told
    MaxFrames       \* bound: frames of one take

ASSUME TimingAssumption ==
    {MinSpeech, PreRoll, PostRoll, MaxUtterance, AutoStop, MaxFrames} \subseteq Nat

ASSUME CodesAssumption ==
    /\ NoCode \notin Codes
    /\ {"words", "noise"} \cap Codes = {}

Frame == 1..MaxFrames
Decoded == {"words", "noise"} \cup Codes
Surface == {"desktop", "phone", "continuous"}

VARIABLES
    surface,    \* who drives the take
    phase,      \* "off", "waiting", "ingesting" a drain, or "folding" it
    stopping,   \* "no", or on whose account: "asked" or "silence"
    fed,        \* frames the take has been fed
    preRoll,    \* UtteranceSegmenter.pre_roll
    active,     \* UtteranceSegmenter.active; the state is Active iff non-empty
    speechFrames, trailingSilence, activeFrames,    \* its counters
    snippets,   \* what ingest returned and is not folded yet
    merged,     \* StreamingTake.merged_samples
    previewed,  \* StreamingTake.merged_text
    spoke, silence,     \* the auto-stop clock
    notified,   \* StreamingTake.notified_error
    preedit,    \* the text shown at the cursor
    said,       \* history: the frames with speech
    recorded,   \* history: the frames of the recordings kept
    gone,       \* history: frames given up, by reason
    unseen,     \* history: previewed texts that a silent outcome took back
    failed,     \* history: codes the decoding of this phrase failed with
    notices     \* history: code -> times the user was told in this phrase

segmenterVars == <<preRoll, active, speechFrames, trailingSilence, activeFrames>>
clockVars == <<spoke, silence>>
takeVars == <<merged, previewed, notified>>
noticeVars == <<failed, notices>>
vars == <<surface, phase, stopping, fed, segmenterVars, snippets, takeVars,
          clockVars, preedit, said, recorded, gone, unseen, noticeVars>>

Reason == {"blip", "undecoded", "noise", "unsaved"}

Utterance == Seq(Frame) \ {<<>>}

SegmenterTypeOK ==
    /\ preRoll \in Seq(Frame) /\ active \in Seq(Frame)
    /\ {speechFrames, trailingSilence, activeFrames} \subseteq Nat
    /\ Len(preRoll) <= PreRoll
    /\ (active = <<>>) = (activeFrames = 0)
    /\ snippets \in Seq(Utterance)
    /\ gone \in [Reason -> SUBSET Frame]

TakeTypeOK ==
    /\ surface \in Surface
    /\ phase \in {"off", "waiting", "ingesting", "folding"}
    /\ stopping \in {"no", "asked", "silence"}
    /\ fed \in 0..MaxFrames
    /\ silence \in Nat /\ spoke \in BOOLEAN
    /\ merged \in Seq(Frame)
    /\ previewed \in Seq(Frame) /\ preedit \in Seq(Frame)
    /\ notified \in Codes \cup {NoCode}
    /\ said \in SUBSET Frame
    /\ recorded \in Seq(Frame)
    /\ unseen \in SUBSET Frame
    /\ failed \in SUBSET Codes
    /\ notices \in [Codes -> Nat]

(* The type invariant: the pre-roll keeps its limit, an utterance is in    *)
(* progress exactly when its length counts something, and the decoder is   *)
(* never handed an empty snippet.                                          *)
TypeOK == SegmenterTypeOK /\ TakeTypeOK

(* StreamingTake::new: every take is a new one. *)
Init ==
    /\ surface \in Surface
    /\ phase = "waiting" /\ stopping = "no"
    /\ fed = 0
    /\ preRoll = <<>> /\ active = <<>>
    /\ speechFrames = 0 /\ trailingSilence = 0 /\ activeFrames = 0
    /\ snippets = <<>>
    /\ merged = <<>> /\ previewed = <<>> /\ notified = NoCode
    /\ spoke = FALSE /\ silence = 0
    /\ preedit = <<>>
    /\ said = {} /\ recorded = <<>> /\ unseen = {}
    /\ gone = [r \in Reason |-> {}]
    /\ failed = {} /\ notices = [c \in Codes |-> 0]

-----------------------------------------------------------------------------
(* The segmenter. *)

Giving(reason, frames) == [gone EXCEPT ![reason] = @ \cup frames]

FramesOf(utterances) == UNION {ToSet(u) : u \in ToSet(utterances)}

(* finish_utterance: an utterance with too little speech is a blip. *)
FinishUtterance(utterance, speech) ==
    /\ active' = <<>>
    /\ speechFrames' = 0 /\ trailingSilence' = 0 /\ activeFrames' = 0
    /\ IF speech >= MinSpeech
       THEN snippets' = Append(snippets, utterance) /\ UNCHANGED gone
       ELSE gone' = Giving("blip", ToSet(utterance)) /\ UNCHANGED snippets

(* Mutant of BeginUtterance: the pre-roll stays where it was. *)
BeginKeepsPreRoll(frame) ==
    /\ active' = Append(preRoll, frame)
    /\ activeFrames' = 1 /\ speechFrames' = 1 /\ trailingSilence' = 0
    /\ UNCHANGED <<preRoll, snippets, gone>>

BeginUtterance(frame) ==
    /\ active' = Append(preRoll, frame)
    /\ preRoll' = <<>>
    /\ activeFrames' = 1 /\ speechFrames' = 1 /\ trailingSilence' = 0
    /\ UNCHANGED <<snippets, gone>>

RememberPreRoll(frame) ==
    /\ preRoll' = IF PreRoll = 0 THEN preRoll
                  ELSE Append(IF Len(preRoll) = PreRoll THEN Tail(preRoll)
                              ELSE preRoll, frame)
    /\ UNCHANGED <<active, speechFrames, trailingSilence, activeFrames,
                   snippets, gone>>

(* Mutant of ContinueUtterance: only a pause ends an utterance. *)
ContinueUntilPause(frame, speech) ==
    LET spoken == speechFrames + (IF speech THEN 1 ELSE 0)
        trailing == IF speech THEN 0 ELSE trailingSilence + 1
    IN /\ IF trailing >= PostRoll
          THEN FinishUtterance(Append(active, frame), spoken)
          ELSE /\ active' = Append(active, frame)
               /\ speechFrames' = spoken
               /\ trailingSilence' = trailing
               /\ activeFrames' = activeFrames + 1
               /\ UNCHANGED <<snippets, gone>>
       /\ UNCHANGED preRoll

ContinueUtterance(frame, speech) ==
    LET utterance == Append(active, frame)
        spoken == speechFrames + (IF speech THEN 1 ELSE 0)
        trailing == IF speech THEN 0 ELSE trailingSilence + 1
        length == activeFrames + 1
    IN /\ IF trailing >= PostRoll \/ length >= MaxUtterance
          THEN FinishUtterance(utterance, spoken)
          ELSE /\ active' = utterance
               /\ speechFrames' = spoken
               /\ trailingSilence' = trailing
               /\ activeFrames' = length
               /\ UNCHANGED <<snippets, gone>>
       /\ UNCHANGED preRoll

(* UtteranceSegmenter::push_frame. *)
PushFrame(frame, speech) ==
    IF active # <<>> THEN ContinueUtterance(frame, speech)
    ELSE IF speech THEN BeginUtterance(frame)
    ELSE RememberPreRoll(frame)

(* UtteranceSegmenter::flush. *)
Flush ==
    /\ IF active = <<>>
       THEN UNCHANGED <<active, speechFrames, trailingSilence, activeFrames,
                        snippets, gone>>
       ELSE FinishUtterance(active, speechFrames)
    /\ UNCHANGED preRoll

-----------------------------------------------------------------------------
(* A drain: its frames are all ingested before the first snippet is folded. *)

(* Mutant of Clock: the silence of the whole take is added up. *)
ClockOfAllSilence(speech) ==
    /\ spoke' = (spoke \/ speech)
    /\ silence' = IF speech THEN silence ELSE silence + 1

Clock(speech) ==
    /\ spoke' = (spoke \/ speech)
    /\ silence' = IF speech THEN 0 ELSE silence + 1

(* One turn of the loop of StreamingTake::ingest.  The desktop's stop has  *)
(* a last drain of its own, the phone's has none.                          *)
Ingest(speech) ==
    /\ phase \in {"waiting", "ingesting"}
    /\ fed < MaxFrames
    /\ phase' = "ingesting"
    /\ fed' = fed + 1
    /\ said' = IF speech THEN said \cup {fed + 1} ELSE said
    /\ Clock(speech)
    /\ PushFrame(fed + 1, speech)
    /\ UNCHANGED <<surface, stopping, takeVars, preedit, recorded, unseen, noticeVars>>

DrainEnds ==
    /\ phase = "ingesting"
    /\ phase' = "folding"
    /\ IF stopping = "no" THEN UNCHANGED <<segmenterVars, snippets, gone>> ELSE Flush
    /\ UNCHANGED <<surface, stopping, fed, takeVars, clockVars, preedit, said,
                   recorded, unseen, noticeVars>>

-----------------------------------------------------------------------------
(* What the take makes of a decoded snippet, and of the whole of it. *)

Snippet == Head(snippets)
Fails(decoded) == decoded \in Codes

(* Mutant of MergedWith: a snippet without words leaves no audio. *)
MergedWithWords(decoded) ==
    IF decoded = "words" THEN merged \o Snippet ELSE merged

MergedWith(decoded) == IF Fails(decoded) THEN merged ELSE merged \o Snippet

PreviewedWith(decoded) ==
    IF decoded = "words" THEN Append(previewed, Head(Snippet)) ELSE previewed

(* The preview is shown as soon as it is decoded. *)
PreeditWith(decoded) ==
    IF decoded = "words" THEN Append(preedit, Head(Snippet)) ELSE preedit

(* What the phrase failed with so far; a continuous phrase is one snippet. *)
FailedWith(decoded) ==
    (IF surface = "continuous" THEN {} ELSE failed) \cup ({decoded} \cap Codes)

(* StreamingTake::first_error_this_take remembers the last code. *)
NotifiedWith(decoded) == IF Fails(decoded) THEN decoded ELSE notified

NoticesWith(decoded) ==
    LET before == IF surface = "continuous" THEN [c \in Codes |-> 0] ELSE notices
    IN IF Fails(decoded) /\ decoded # notified
       THEN [before EXCEPT ![decoded] = @ + 1] ELSE before

(* Mutant of Silent: the previews are not a fallback. *)
SilentUnlessDecoded(audio, previews, decoded) ==
    audio = <<>> \/ decoded # "words"

(* choose_final_take_text: the decoding of the whole, or else the previews. *)
Silent(audio, previews, decoded) ==
    audio = <<>> \/ (decoded # "words" /\ previews = <<>>)

(* One snippet, folded into a take that is finalized at its end. *)
FoldSnippet(decoded) ==
    /\ phase = "folding" /\ snippets # <<>>
    /\ surface # "continuous" \/ stopping # "no"
    /\ snippets' = Tail(snippets)
    /\ merged' = MergedWith(decoded)
    /\ previewed' = PreviewedWith(decoded)
    /\ preedit' = PreeditWith(decoded)
    /\ notified' = NotifiedWith(decoded)
    /\ failed' = FailedWith(decoded)
    /\ notices' = NoticesWith(decoded)
    /\ gone' = IF Fails(decoded) THEN Giving("undecoded", ToSet(Snippet)) ELSE gone
    /\ UNCHANGED <<surface, phase, stopping, fed, segmenterVars, clockVars, said,
                   recorded, unseen>>

(* Mutant of NextPhrase: what was told stays told. *)
NextPhraseMuted(told) ==
    /\ merged' = <<>> /\ previewed' = <<>> /\ notified' = told
    /\ spoke' = FALSE /\ silence' = 0

(* StreamingTake::finalize_phrase re-arms the take for the next phrase,    *)
(* whatever was told in this one.                                          *)
NextPhrase(told) ==
    /\ merged' = <<>> /\ previewed' = <<>> /\ notified' = NoCode
    /\ spoke' = FALSE /\ silence' = 0

(* Inner::commit_phrase.  What cannot be saved is an error, and that is    *)
(* the end of the buffer: its other snippets are forgotten.                *)
PhraseCommitted(audio, shown, saved) ==
    IF saved
    THEN /\ recorded' = recorded \o audio
         /\ snippets' = Tail(snippets)
         /\ preedit' = <<>>
         /\ UNCHANGED gone
    ELSE /\ gone' = Giving("unsaved", ToSet(audio) \cup FramesOf(Tail(snippets)))
         /\ snippets' = <<>>
         /\ preedit' = shown
         /\ UNCHANGED recorded

(* A snippet of a continuous take is a phrase, decoded and then saved; a   *)
(* phrase that holds nothing is not saved, and its preview is withdrawn.   *)
FoldPhrase(decoded, whole, saved) ==
    /\ phase = "folding" /\ snippets # <<>>
    /\ surface = "continuous" /\ stopping = "no"
    /\ LET audio == MergedWith(decoded)
           previews == PreviewedWith(decoded)
       IN IF Silent(audio, previews, whole)
          THEN /\ gone' = Giving(IF Fails(decoded) THEN "undecoded" ELSE "noise",
                                 ToSet(merged \o Snippet))
               /\ unseen' = unseen \cup ToSet(previews)
               /\ snippets' = Tail(snippets)
               /\ preedit' = <<>>
               /\ UNCHANGED recorded
          ELSE PhraseCommitted(audio, PreeditWith(decoded), saved) /\ UNCHANGED unseen
    /\ failed' = FailedWith(decoded)
    /\ notices' = NoticesWith(decoded)
    /\ NextPhrase(NotifiedWith(decoded))
    /\ UNCHANGED <<surface, phase, stopping, fed, segmenterVars, said>>

(* The drain is done.  On the desktop a silence that has lasted long       *)
(* enough is the stop.                                                     *)
AutoStopDue == AutoStop # 0 /\ spoke /\ silence >= AutoStop

DrainFolded ==
    /\ phase = "folding" /\ snippets = <<>> /\ stopping = "no"
    /\ IF surface = "desktop" /\ AutoStopDue
       THEN phase' = "ingesting" /\ stopping' = "silence"
       ELSE phase' = "waiting" /\ UNCHANGED stopping
    /\ UNCHANGED <<surface, fed, segmenterVars, snippets, takeVars, clockVars,
                   preedit, said, recorded, gone, unseen, noticeVars>>

-----------------------------------------------------------------------------
(* The end of the take. *)

(* stop_live_and_transcribe drains the device once more; stop_recording    *)
(* of the phone flushes right away.                                        *)
Stop ==
    /\ phase = "waiting"
    /\ stopping' = "asked"
    /\ IF surface = "desktop"
       THEN phase' = "ingesting" /\ UNCHANGED <<segmenterVars, snippets, gone>>
       ELSE phase' = "folding" /\ Flush
    /\ UNCHANGED <<surface, fed, takeVars, clockVars, preedit, said, recorded,
                   unseen, noticeVars>>

(* StreamingTake::finalize, and its outcome kept or not. *)
Finalize(whole, saved) ==
    /\ phase = "folding" /\ snippets = <<>> /\ stopping # "no"
    /\ phase' = "off"
    /\ IF Silent(merged, previewed, whole)
       THEN /\ gone' = Giving("noise", ToSet(merged))
            /\ unseen' = unseen \cup ToSet(previewed)
            /\ UNCHANGED recorded
       ELSE /\ IF saved THEN recorded' = recorded \o merged /\ UNCHANGED gone
               ELSE gone' = Giving("unsaved", ToSet(merged)) /\ UNCHANGED recorded
            /\ UNCHANGED unseen
    /\ preedit' = <<>>
    /\ NextPhrase(notified)
    /\ UNCHANGED <<surface, stopping, fed, segmenterVars, snippets, said, noticeVars>>

(* The user cancels, the capture cannot be finished, or the client is lost *)
(* (on the desktop also while a preview is being sent to it).              *)
Drop ==
    /\ \/ phase = "waiting"
       \/ surface = "desktop" /\ (phase = "folding" \/ stopping # "no")
    /\ phase # "off"
    /\ phase' = "off"
    /\ preedit' = <<>>
    /\ said' = {}
    /\ UNCHANGED <<surface, stopping, fed, segmenterVars, snippets, takeVars,
                   clockVars, recorded, gone, unseen, noticeVars>>

(* A take that is over is consumed. *)
Over == phase = "off" /\ UNCHANGED vars

Next ==
    \/ \E speech \in BOOLEAN : Ingest(speech)
    \/ DrainEnds
    \/ \E decoded \in Decoded : FoldSnippet(decoded)
    \/ \E decoded, whole \in Decoded, saved \in BOOLEAN :
        FoldPhrase(decoded, whole, saved)
    \/ DrainFolded
    \/ Stop
    \/ \E whole \in Decoded, saved \in BOOLEAN : Finalize(whole, saved)
    \/ Drop
    \/ Over

Spec == Init /\ [][Next]_vars

-----------------------------------------------------------------------------
(* Properties. *)

(* Where a frame may be: the recordings, then the phrase, then what waits   *)
(* to be folded, then the segmenter's two buffers.                         *)
Buffers == <<recorded, merged>> \o snippets \o <<active, preRoll>>

(* The recording is what was said, in the order it was said: no frame is   *)
(* kept twice and none overtakes another, across pre-rolls, forced cuts,   *)
(* pauses, phrases and the last flush.                                     *)
FramesInOrder ==
    \A i, j \in DOMAIN Buffers :
        \A k \in DOMAIN Buffers[i], l \in DOMAIN Buffers[j] :
            i < j \/ (i = j /\ k < l) => Buffers[i][k] < Buffers[j][l]

(* Every frame with speech, and the pre-roll in front of it that saves its *)
(* first phoneme, is kept or was given up for one of the four reasons: a   *)
(* blip, a snippet that could not be decoded, a phrase of only noise, a    *)
(* phrase that could not be saved.                                         *)
NothingSkipped ==
    LET accounted == FramesOf(Buffers) \cup UNION {gone[r] : r \in Reason}
    IN \A f \in said : \A g \in 1..f : g + PreRoll >= f => g \in accounted

Longest == IF MaxUtterance < 2 THEN 2 ELSE MaxUtterance

(* "One long monologue cannot defer feedback forever" (segmentation.rs:29):*)
(* an utterance, with its pre-roll, has a greatest length (two frames of   *)
(* its own at least, for only the second one is tested), and the one in    *)
(* progress is the run of frames that were fed last.                       *)
UtteranceBounded ==
    /\ \A utterance \in ToSet(snippets) \cup {active} :
        Len(utterance) <= PreRoll + Longest
    /\ \A i \in DOMAIN active : active[i] + Len(active) = fed + i

(* Words the user has seen in the preview are not taken back by a take     *)
(* that turns out silent: the previews are the fallback.                   *)
PreviewSurvives == unseen = {}

(* No phrase fails in silence: every cause that cost it a snippet has been *)
(* told to the user in this phrase, whatever was told in an earlier one.   *)
FailureIsTold == \A c \in failed : notices[c] > 0

(* A take that stops by itself does not cut the speaker off: there was     *)
(* speech, then nothing but silence for AutoStop frames, and no utterance  *)
(* is in progress as long as pauses are the shorter threshold.             *)
StopsInSilence ==
    [][stopping = "no" /\ stopping' = "silence" =>
        /\ said # {}
        /\ \A f \in said : f + AutoStop <= fed
        /\ AutoStop >= PostRoll => active = <<>>]_vars

=============================================================================
