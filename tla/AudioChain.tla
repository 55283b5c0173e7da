------------------------------ MODULE AudioChain ------------------------------
(* From the microphone to the recogniser.  A callback of the audio system     *)
(* fills a buffer while the daemon polls it, resamples what it drained to the *)
(* pipeline's rate and hands it to the take; the stop closes the stream and   *)
(* hands over the rest.  What is decoded is stripped of silence and then      *)
(* recognised and, when asked, translated.                                    *)
(* Sample i of the microphone has the value i * Unit: interpolating between   *)
(* two samples gives the position between them, so that what a take holds     *)
(* says which sound it is.                                                    *)
EXTENDS Naturals, SequencesExt

CONSTANTS MaxSamples,    \* bound: samples made by the microphone
          MaxChunk,      \* bound: samples added by one callback
          MaxFrames,     \* bound: frames of a take that is decoded
          MaxMergeGap    \* MAX_MERGE_GAP_FRAMES

Unit == 4
FrameSize == 2           \* FRAME_SAMPLE_COUNT
InputLanguage == "sv"

(* Source samples per output sample: 48, 24, 16 and 8 kHz. *)
Rate == {<<3, 1>>, <<3, 2>>, <<1, 1>>, <<1, 2>>}
ProcessingRate == <<1, 1>>

Translation == [enabled : BOOLEAN, output : {"en", "de"}, command : BOOLEAN]

VARIABLES rate,         \* of the device
          translation,  \* the settings at the time of the decoding
          capture,        \* of the capture
          made,         \* samples made by the microphone while it was open
          buffer,       \* capture_buffer
          resampler,    \* of the take, none before the first sound
          handed,       \* samples drained by polls
          take,         \* what the segmenter was given
          polled,       \* how much of it by polls
          decoded,      \* the labels of the frames that were decoded
          heard,        \* what the recogniser was given
          words         \* what it made of it

audioVars == <<rate, translation, capture, made, buffer, resampler, handed, take,
               polled, decoded, heard, words>>

NoResampler == [rate |-> <<0, 1>>, next |-> 0, pending |-> <<>>]
NoWords == [kind |-> "none", language |-> InputLanguage]
Failed == [kind |-> "error", language |-> InputLanguage]
In(language) == [kind |-> "text", language |-> language]

-----------------------------------------------------------------------------
(* Resampling.  A position is counted in steps of 1 / rate[2] samples. *)

Between(a, b, r, position) == a + ((b - a) * (position % r[2])) \div r[2]

(* The whole of s at once; the last sample is held for what lies behind it. *)
Resample(s, r) ==
  IF r = ProcessingRate \/ s = <<>> THEN s
  ELSE [k \in 1..((2 * Len(s) * r[2] + r[1]) \div (2 * r[1])) |->
          LET position == (k - 1) * r[1]
              base == position \div r[2]
              b == IF base + 2 <= Len(s) THEN base + 2 ELSE base + 1
          IN Between(s[base + 1], s[b], r, position)]

(* Chunk by chunk: an output waits for the sample behind it. *)
Pushed(state, chunk) ==
  LET r == state.rate
      pending == state.pending \o chunk
      At(k) == state.next + (k - 1) * r[1]
      count == Cardinality({k \in 1..(2 * Len(pending)) : (At(k) \div r[2]) + 1 < Len(pending)})
      next == At(count + 1)
      consumed == IF (next \div r[2]) < Len(pending) THEN next \div r[2]
                  ELSE IF pending = <<>> THEN 0 ELSE Len(pending) - 1
  IN IF r = ProcessingRate THEN [state |-> state, out |-> chunk]
     ELSE [state |-> [rate |-> r, next |-> next - consumed * r[2],
                      pending |-> SubSeq(pending, consumed + 1, Len(pending))],
           out |-> [k \in 1..count |->
                      LET base == At(k) \div r[2]
                      IN Between(pending[base + 1], pending[base + 2], r, At(k))]]

PushedGreedily(state, chunk) ==  \* mutation: the sample that is held back goes with the rest
  LET p == Pushed(state, chunk)
  IN IF state.rate = ProcessingRate \/ p.state.pending = <<>> THEN p
     ELSE [p EXCEPT !.state.pending = Tail(@),
                    !.state.next = IF @ >= state.rate[2] THEN @ - state.rate[2] ELSE 0]

Push(state, chunk) == Pushed(state, chunk)

(* The take's resampler is built for the rate of the first sound it is given. *)
Ingest(sound, r) ==
  LET state == IF resampler = NoResampler THEN [NoResampler EXCEPT !.rate = r] ELSE resampler
      p == Push(state, sound)
  IN IF sound = <<>> THEN UNCHANGED <<resampler, take>>
     ELSE resampler' = p.state /\ take' = take \o p.out

-----------------------------------------------------------------------------
(* The capture *)

Start ==
  /\ capture = "idle"
  /\ capture' = "recording"
  /\ UNCHANGED <<rate, translation, made, buffer, resampler, handed, take, polled,
                 decoded, heard, words>>

(* The callback, on a thread of the audio system. *)
Callback ==
  /\ capture = "recording"
  /\ \E n \in 1..MaxChunk :
       /\ made + n <= MaxSamples
       /\ buffer' = buffer \o [i \in 1..n |-> (made + i - 1) * Unit]
       /\ made' = made + n
  /\ UNCHANGED <<rate, translation, capture, resampler, handed, take, polled,
                 decoded, heard, words>>

(* A tick of the daemon: the sound comes at the rate of the device. *)
Poll ==
  /\ capture = "recording"
  /\ Ingest(buffer, rate)
  /\ handed' = handed + Len(buffer)
  /\ polled' = Len(take')
  /\ buffer' = <<>>
  /\ UNCHANGED <<rate, translation, capture, made, decoded, heard, words>>

CloseStream ==
  /\ capture = "recording"
  /\ capture' = "closed"
  /\ UNCHANGED <<rate, translation, made, buffer, resampler, handed, take, polled,
                 decoded, heard, words>>

(* The rest is resampled as a clip of its own, at the pipeline's rate, and is *)
(* then given to the take like any other sound.                              *)
FinishCapture ==
  /\ capture = "closed"
  /\ capture' = "stopped"
  /\ Ingest(Resample(buffer, rate), ProcessingRate)
  /\ buffer' = <<>>
  /\ UNCHANGED <<rate, translation, made, handed, polled, decoded, heard, words>>

DropCapture ==
  /\ capture = "closed"
  /\ capture' = "dropped"
  /\ buffer' = <<>>
  /\ UNCHANGED <<rate, translation, made, resampler, handed, take, polled,
                 decoded, heard, words>>

-----------------------------------------------------------------------------
(* Decoding *)

Frames(s) == Len(s) \div FrameSize

(* Runs of speech <<begin, end>>, the end excluded. *)
RunsOf(labels) ==
  LET n == Len(labels)
      Runs == {run \in (0..n) \X (0..n) :
                 /\ run[1] < run[2]
                 /\ \A i \in run[1]..(run[2] - 1) : labels[i + 1]
                 /\ run[1] = 0 \/ ~labels[run[1]]
                 /\ run[2] = n \/ ~labels[run[2] + 1]}
  IN SetToSortSeq(Runs, LAMBDA x, y : x[1] < y[1])

RunsEnded(labels) ==  \* mutation: a run that lasts to the end is never closed
  SelectSeq(RunsOf(labels), LAMBDA run : run[2] # Len(labels))
Regions(labels) == RunsOf(labels)

MergeShortGaps(ranges) ==
  FoldLeft(LAMBDA merged, range :
             IF merged # <<>> /\ range[1] - Last(merged)[2] <= MaxMergeGap
             THEN Append(Front(merged), <<Last(merged)[1], range[2]>>)
             ELSE Append(merged, range),
           <<>>, ranges)

Slice(s, range) == SubSeq(s, range[1] * FrameSize + 1, range[2] * FrameSize)

SpeechAudio(s, labels) ==
  FoldLeft(LAMBDA all, range : all \o Slice(s, range), <<>>, MergeShortGaps(Regions(labels)))

(* What the recogniser and the translator make of speech; either may fail. *)
Recognised(t) ==
  {Failed,
   In(IF t.enabled /\ ~t.command /\ t.output = "en" THEN "en" ELSE InputLanguage)}

TranslatedFrom(t, draft) ==
  IF ~t.enabled THEN {draft}
  ELSE IF t.command THEN {Failed, In(t.output)}
  ELSE IF t.output = "en" THEN {draft}
  ELSE {Failed}

Translated(t, draft) == TranslatedFrom(t, draft)

(* The take is decoded with the settings of that moment; the detector may say *)
(* anything of a frame.                                                       *)
Decode ==
  /\ capture = "stopped"
  /\ capture' = "decoded"
  /\ Frames(take) <= MaxFrames
  /\ \E t \in Translation : translation' = t
  /\ \E labels \in [1..Frames(take) -> BOOLEAN] :
       /\ decoded' = labels
       /\ heard' = SpeechAudio(take, labels)
  /\ IF heard' = <<>> THEN words' = Failed
     ELSE \E draft \in Recognised(translation') :
            IF draft = Failed THEN words' = Failed
            ELSE words' \in Translated(translation', draft)
  /\ UNCHANGED <<rate, made, buffer, resampler, handed, take, polled>>

-----------------------------------------------------------------------------
AudioInit ==
  /\ rate \in Rate
  /\ translation = [enabled |-> FALSE, output |-> "en", command |-> FALSE]
  /\ capture = "idle"
  /\ made = 0 /\ handed = 0 /\ polled = 0
  /\ buffer = <<>> /\ take = <<>> /\ decoded = <<>> /\ heard = <<>>
  /\ resampler = NoResampler
  /\ words = NoWords

AudioNext ==
  \/ Start \/ Callback \/ Poll \/ CloseStream \/ FinishCapture \/ DropCapture
  \/ Decode

AudioSpec == AudioInit /\ [][AudioNext]_audioVars

-----------------------------------------------------------------------------
(* Where the k-th sample of a take lies in the sound of the microphone. *)
PlaceOf(k) == ((k - 1) * rate[1] * Unit) \div rate[2]

(* What a take was given while it was recorded is the sound of the microphone *)
(* from its beginning, each moment once and in its place, and but for one     *)
(* sample that is held back nothing that was drained is missing: however the  *)
(* callback, the polls and the stop fall, no chunk boundary is heard          *)
(* (StreamingResampler: "identical to resampling the whole take at once").    *)
SoundInPlace ==
  /\ capture \in {"idle", "recording", "closed"} => handed + Len(buffer) = made
  /\ \A k \in 1..polled : take[k] = PlaceOf(k)
  /\ handed > 1 => PlaceOf(polled + 1) >= (handed - 1) * Unit

(* The recogniser is given every frame that holds speech, in order, and of    *)
(* the silence only the short gaps inside: "we keep everything the user said  *)
(* until they stop".                                                          *)
Speech(i) == i \in DOMAIN decoded /\ decoded[i]
InShortGap(i) ==
  \E before, after \in DOMAIN decoded :
     before < i /\ i < after /\ after - before - 1 <= MaxMergeGap
       /\ decoded[before] /\ decoded[after]
SpeechIsHeard ==
  capture = "decoded" =>
    LET kept == {i \in DOMAIN decoded : Speech(i) \/ InShortGap(i)}
    IN heard = FoldLeft(LAMBDA all, i : all \o Slice(take, <<i - 1, i>>), <<>>,
                        SetToSortSeq(kept, LAMBDA x, y : x < y))

(* When a translation is asked for, words are in the language asked for or    *)
(* there are none: "never a silent fallback to untranslated text".            *)
NeverUntranslated ==
  words.kind = "text" /\ translation.enabled => words.language = translation.output

(* The resampled take is the take resampled as a whole, minus at most one     *)
(* sample that is held back: the claim made for the streaming resampler, of   *)
(* the take it is used for.                                                   *)
TakeIsWhole ==
  capture = "stopped" =>
    LET whole == Resample([i \in 1..made |-> (i - 1) * Unit], rate)
    IN /\ \A k \in DOMAIN take : k \in DOMAIN whole /\ take[k] = whole[k]
       /\ PlaceOf(Len(take) + 1) >= (made - 1) * Unit \/ made = 0

=============================================================================
