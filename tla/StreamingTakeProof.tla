------------------------- MODULE StreamingTakeProof -------------------------
(***************************************************************************)
(* What holds of a take of StreamingTake for every setting of the timings, *)
(* every set of failure codes and every length of the take.                *)
(***************************************************************************)
EXTENDS StreamingTake, SequenceTheorems, TLAPS

-----------------------------------------------------------------------------
(* Sets of frames. *)

LEMMA FramesOfSeq ==
    ASSUME NEW s \in Seq(Frame)
    PROVE  ToSet(s) \in SUBSET Frame
BY DEF ToSet

LEMMA FramesOfUtterances ==
    ASSUME NEW s \in Seq(Utterance)
    PROVE  FramesOf(s) \in SUBSET Frame
<1>1. \A u \in ToSet(s) : u \in Seq(Frame)
  BY DEF ToSet, Utterance
<1>2. \A u \in ToSet(s) : ToSet(u) \in SUBSET Frame
  BY <1>1, FramesOfSeq
<1> QED BY <1>2 DEF FramesOf

LEMMA GivingType ==
    ASSUME gone \in [Reason -> SUBSET Frame], NEW reason \in Reason,
           NEW frames \in SUBSET Frame
    PROVE  Giving(reason, frames) \in [Reason -> SUBSET Frame]
BY DEF Giving

(* A finished utterance is a snippet or a blip. *)
LEMMA FinishType ==
    ASSUME SegmenterTypeOK, preRoll' = preRoll,
           NEW utterance \in Utterance, NEW speech \in Nat,
           FinishUtterance(utterance, speech)
    PROVE  SegmenterTypeOK'
<1>1. utterance \in Seq(Frame)
  BY DEF Utterance
<1>2. Giving("blip", ToSet(utterance)) \in [Reason -> SUBSET Frame]
  BY <1>1, FramesOfSeq, GivingType DEF SegmenterTypeOK, Reason
<1>3. Append(snippets, utterance) \in Seq(Utterance)
  BY AppendProperties DEF SegmenterTypeOK
<1>4. snippets' \in Seq(Utterance) /\ gone' \in [Reason -> SUBSET Frame]
  BY <1>2, <1>3 DEF FinishUtterance, SegmenterTypeOK
<1>5. active' = <<>> /\ activeFrames' = 0 /\ speechFrames' = 0 /\ trailingSilence' = 0
  BY DEF FinishUtterance
<1> QED BY <1>4, <1>5 DEF SegmenterTypeOK

LEMMA FlushType ==
    ASSUME SegmenterTypeOK, Flush
    PROVE  SegmenterTypeOK'
<1>1. CASE active = <<>>
  BY <1>1 DEF Flush, SegmenterTypeOK
<1>2. CASE active # <<>>
  <2>1. active \in Utterance /\ speechFrames \in Nat
    BY <1>2 DEF SegmenterTypeOK, Utterance
  <2> QED BY <1>2, <2>1, FinishType DEF Flush
<1> QED BY <1>1, <1>2

LEMMA PushFrameType ==
    ASSUME SegmenterTypeOK, PreRoll \in Nat, NEW frame \in Frame, NEW speech \in BOOLEAN,
           PushFrame(frame, speech)
    PROVE  SegmenterTypeOK'
<1> USE DEF SegmenterTypeOK
<1>1. CASE active # <<>>
  <2> DEFINE utterance == Append(active, frame)
             spoken == speechFrames + (IF speech THEN 1 ELSE 0)
             trailing == IF speech THEN 0 ELSE trailingSilence + 1
  <2>1. ContinueUtterance(frame, speech)
    BY <1>1 DEF PushFrame
  <2>2. utterance \in Utterance /\ utterance \in Seq(Frame)
    BY AppendProperties DEF Utterance
  <2>3. spoken \in Nat /\ trailing \in Nat
    OBVIOUS
  <2>4. CASE trailing >= PostRoll \/ activeFrames + 1 >= MaxUtterance
    <3>1. FinishUtterance(utterance, spoken) /\ preRoll' = preRoll
      BY <2>1, <2>4 DEF ContinueUtterance
    <3> HIDE DEF SegmenterTypeOK, utterance, spoken, trailing
    <3> QED BY <2>2, <2>3, <3>1, FinishType
  <2>5. CASE ~(trailing >= PostRoll \/ activeFrames + 1 >= MaxUtterance)
    <3>1. /\ active' = utterance /\ speechFrames' = spoken
          /\ trailingSilence' = trailing /\ activeFrames' = activeFrames + 1
          /\ UNCHANGED <<snippets, gone, preRoll>>
      BY <2>1, <2>5 DEF ContinueUtterance
    <3>2. active' # <<>> /\ activeFrames' # 0
      BY <3>1, <2>2 DEF Utterance
    <3> HIDE DEF utterance, spoken, trailing
    <3> QED BY <2>2, <2>3, <3>1, <3>2
  <2> QED BY <2>4, <2>5
<1>2. CASE active = <<>> /\ speech
  <2>1. BeginUtterance(frame)
    BY <1>2 DEF PushFrame
  <2>2. Append(preRoll, frame) \in Seq(Frame) /\ Append(preRoll, frame) # <<>>
    BY AppendProperties
  <2> QED BY <2>1, <2>2 DEF BeginUtterance
<1>3. CASE active = <<>> /\ ~speech
  <2>1. RememberPreRoll(frame)
    BY <1>3 DEF PushFrame
  <2>2. preRoll' \in Seq(Frame) /\ Len(preRoll') <= PreRoll
    <3>1. CASE PreRoll = 0
      BY <2>1, <3>1 DEF RememberPreRoll
    <3>2. CASE PreRoll # 0 /\ Len(preRoll) = PreRoll
      <4>1. Tail(preRoll) \in Seq(Frame) /\ Len(Tail(preRoll)) = PreRoll - 1
        BY <3>2, HeadTailProperties, EmptySeq
      <4>2. preRoll' = Append(Tail(preRoll), frame)
        BY <2>1, <3>2 DEF RememberPreRoll
      <4> QED BY <4>1, <4>2, AppendProperties
    <3>3. CASE PreRoll # 0 /\ Len(preRoll) # PreRoll
      <4>1. preRoll' = Append(preRoll, frame)
        BY <2>1, <3>3 DEF RememberPreRoll
      <4> QED BY <3>3, <4>1, AppendProperties, LenProperties
    <3> QED BY <3>1, <3>2, <3>3
  <2> QED BY <2>1, <2>2 DEF RememberPreRoll
<1> QED BY <1>1, <1>2, <1>3

-----------------------------------------------------------------------------
(* Folding. *)

LEMMA NextSnippet ==
    ASSUME TypeOK, snippets # <<>>
    PROVE  /\ Snippet \in Utterance /\ Snippet \in Seq(Frame)
           /\ Head(Snippet) \in Frame
           /\ Tail(snippets) \in Seq(Utterance)
           /\ ToSet(Snippet) \in SUBSET Frame
<1>1. snippets \in Seq(Utterance)
  BY DEF TypeOK, SegmenterTypeOK, TakeTypeOK, Utterance
<1>2. Snippet \in Utterance /\ Tail(snippets) \in Seq(Utterance)
  BY <1>1, HeadTailProperties DEF Snippet
<1>3. Snippet \in Seq(Frame) /\ Snippet # <<>>
  BY <1>2 DEF Utterance
<1>4. Head(Snippet) \in Frame
  BY <1>3, HeadTailProperties
<1> QED BY <1>2, <1>3, <1>4, FramesOfSeq

LEMMA FoldedType ==
    ASSUME TypeOK, snippets # <<>>, NEW decoded \in Decoded
    PROVE  /\ MergedWith(decoded) \in Seq(Frame)
           /\ ToSet(MergedWith(decoded)) \in SUBSET Frame
           /\ PreviewedWith(decoded) \in Seq(Frame)
           /\ ToSet(PreviewedWith(decoded)) \in SUBSET Frame
           /\ PreeditWith(decoded) \in Seq(Frame)
           /\ NotifiedWith(decoded) \in Codes \cup {NoCode}
           /\ FailedWith(decoded) \in SUBSET Codes
           /\ NoticesWith(decoded) \in [Codes -> Nat]
<1>1. merged \o Snippet \in Seq(Frame)
  BY NextSnippet, ConcatProperties DEF TypeOK, SegmenterTypeOK, TakeTypeOK
<1>2. MergedWith(decoded) \in Seq(Frame)
  BY <1>1 DEF MergedWith, TypeOK, SegmenterTypeOK, TakeTypeOK
<1>3. /\ Append(previewed, Head(Snippet)) \in Seq(Frame)
      /\ Append(preedit, Head(Snippet)) \in Seq(Frame)
  BY NextSnippet, AppendProperties DEF TypeOK, SegmenterTypeOK, TakeTypeOK
<1>4. PreviewedWith(decoded) \in Seq(Frame) /\ PreeditWith(decoded) \in Seq(Frame)
  BY <1>3 DEF PreviewedWith, PreeditWith, TypeOK, SegmenterTypeOK, TakeTypeOK
<1>5. NotifiedWith(decoded) \in Codes \cup {NoCode}
  BY DEF NotifiedWith, Fails, TypeOK, SegmenterTypeOK, TakeTypeOK
<1>6. FailedWith(decoded) \in SUBSET Codes
  BY DEF FailedWith, TypeOK, SegmenterTypeOK, TakeTypeOK
<1>7. NoticesWith(decoded) \in [Codes -> Nat]
  <2> DEFINE before == IF surface = "continuous" THEN [c \in Codes |-> 0] ELSE notices
  <2>1. before \in [Codes -> Nat]
    BY DEF TypeOK, SegmenterTypeOK, TakeTypeOK
  <2>2. NoticesWith(decoded) \in {before, [before EXCEPT ![decoded] = @ + 1]}
    BY DEF NoticesWith
  <2> HIDE DEF before
  <2>3. \A c \in Codes : before[c] + 1 \in Nat
    BY <2>1
  <2>4. [before EXCEPT ![decoded] = @ + 1] \in [Codes -> Nat]
    BY <2>1, <2>3
  <2> QED BY <2>1, <2>2, <2>4
<1> QED BY <1>2, <1>4, <1>5, <1>6, <1>7, FramesOfSeq

-----------------------------------------------------------------------------
(* Types. *)

LEMMA IngestType ==
    ASSUME TypeOK, NEW speech \in BOOLEAN, Ingest(speech)
    PROVE  TypeOK'
<1>1. fed + 1 \in Frame
  <2>1. fed \in Nat /\ fed < MaxFrames /\ MaxFrames \in Nat
    BY TimingAssumption DEF Ingest, TypeOK, TakeTypeOK
  <2> QED BY <2>1 DEF Frame
<1>2. SegmenterTypeOK'
  BY <1>1, PushFrameType, TimingAssumption DEF Ingest, TypeOK
<1>3. fed' \in 0..MaxFrames /\ said' \in SUBSET Frame
  BY <1>1 DEF Ingest, TypeOK, SegmenterTypeOK, TakeTypeOK, Frame
<1>4. silence' \in Nat /\ spoke' \in BOOLEAN
  BY DEF Ingest, Clock, TypeOK, SegmenterTypeOK, TakeTypeOK
<1>5. TakeTypeOK'
  BY <1>3, <1>4 DEF Ingest, takeVars, noticeVars, TypeOK, SegmenterTypeOK, TakeTypeOK, TakeTypeOK
<1> QED BY <1>2, <1>5 DEF TypeOK

LEMMA DrainEndsType ==
    ASSUME TypeOK, DrainEnds
    PROVE  TypeOK'
<1>1. SegmenterTypeOK'
  <2>1. CASE stopping = "no"
    BY <2>1 DEF DrainEnds, segmenterVars, TypeOK, SegmenterTypeOK
  <2>2. CASE stopping # "no"
    BY <2>2, FlushType DEF DrainEnds, TypeOK
  <2> QED BY <2>1, <2>2
<1>2. TakeTypeOK'
  BY DEF TypeOK, DrainEnds, takeVars, clockVars, noticeVars, TakeTypeOK
<1> QED BY <1>1, <1>2 DEF TypeOK

LEMMA FoldSnippetType ==
    ASSUME TypeOK, NEW decoded \in Decoded, FoldSnippet(decoded)
    PROVE  TypeOK'
<1>1. snippets # <<>>
  BY DEF FoldSnippet
<1>2. gone' \in [Reason -> SUBSET Frame]
  BY <1>1, NextSnippet, GivingType DEF FoldSnippet, TypeOK, SegmenterTypeOK, TakeTypeOK, Reason
<1>3. SegmenterTypeOK'
  BY <1>1, <1>2, NextSnippet DEF FoldSnippet, segmenterVars, TypeOK, SegmenterTypeOK
<1>4. TakeTypeOK'
  BY <1>1, FoldedType DEF FoldSnippet, clockVars, TypeOK, TakeTypeOK
<1> QED BY <1>3, <1>4 DEF TypeOK

LEMMA FoldPhraseType ==
    ASSUME TypeOK, NEW decoded \in Decoded, NEW whole \in Decoded,
           NEW saved \in BOOLEAN, FoldPhrase(decoded, whole, saved)
    PROVE  TypeOK'
<1>1. snippets # <<>>
  BY DEF FoldPhrase
<1> DEFINE audio == MergedWith(decoded)
           previews == PreviewedWith(decoded)
<1>2. /\ snippets' \in Seq(Utterance) /\ gone' \in [Reason -> SUBSET Frame]
      /\ preedit' \in Seq(Frame) /\ recorded' \in Seq(Frame) /\ unseen' \in SUBSET Frame
  <2>1. CASE Silent(audio, previews, whole)
    <3>1. ToSet(merged \o Snippet) \in SUBSET Frame
      BY <1>1, NextSnippet, ConcatProperties, FramesOfSeq DEF TypeOK, SegmenterTypeOK, TakeTypeOK
    <3>2. \E reason \in {"undecoded", "noise"} :
            gone' = Giving(reason, ToSet(merged \o Snippet))
      BY <2>1 DEF FoldPhrase
    <3>3. gone' \in [Reason -> SUBSET Frame]
      BY <3>1, <3>2, GivingType DEF TypeOK, SegmenterTypeOK, Reason
    <3>4. preedit' = <<>> /\ recorded' = recorded /\ snippets' = Tail(snippets)
          /\ unseen' = unseen \cup ToSet(previews)
      BY <2>1 DEF FoldPhrase
    <3>5. ToSet(previews) \in SUBSET Frame
      BY <1>1, FoldedType
    <3> HIDE DEF previews
    <3>6. unseen' \in SUBSET Frame
      BY <3>4, <3>5 DEF TypeOK, TakeTypeOK
    <3> QED BY <1>1, <3>3, <3>4, <3>6, NextSnippet, EmptySeq DEF TypeOK, TakeTypeOK
  <2>2. CASE ~Silent(audio, previews, whole) /\ saved
    <3>1. /\ recorded' = recorded \o audio /\ snippets' = Tail(snippets)
          /\ preedit' = <<>> /\ gone' = gone /\ unseen' = unseen
      BY <2>2 DEF FoldPhrase, PhraseCommitted
    <3>2. audio \in Seq(Frame)
      BY <1>1, FoldedType
    <3> HIDE DEF audio
    <3>3. recorded' \in Seq(Frame)
      BY <3>1, <3>2, ConcatProperties DEF TypeOK, SegmenterTypeOK, TakeTypeOK
    <3>4. snippets' \in Seq(Utterance)
      BY <1>1, <3>1, NextSnippet
    <3>5. /\ gone' \in [Reason -> SUBSET Frame] /\ unseen' \in SUBSET Frame
          /\ preedit' \in Seq(Frame)
      BY <3>1, EmptySeq DEF TypeOK, SegmenterTypeOK, TakeTypeOK
    <3> QED BY <3>3, <3>4, <3>5
  <2>3. CASE ~Silent(audio, previews, whole) /\ ~saved
    <3>1. /\ gone' = Giving("unsaved", ToSet(audio) \cup FramesOf(Tail(snippets)))
          /\ snippets' = <<>> /\ preedit' = PreeditWith(decoded)
          /\ recorded' = recorded /\ unseen' = unseen
      BY <2>3 DEF FoldPhrase, PhraseCommitted
    <3>2. ToSet(audio) \cup FramesOf(Tail(snippets)) \in SUBSET Frame
      BY <1>1, FoldedType, NextSnippet, FramesOfUtterances
    <3>3. gone' \in [Reason -> SUBSET Frame]
      BY <3>1, <3>2, GivingType DEF TypeOK, SegmenterTypeOK, TakeTypeOK, Reason
    <3>4. snippets' \in Seq(Utterance)
      BY <3>1, EmptySeq
    <3> QED BY <1>1, <3>1, <3>3, <3>4, FoldedType DEF TypeOK, TakeTypeOK
  <2> QED BY <2>1, <2>2, <2>3
<1>3. SegmenterTypeOK'
  BY <1>2 DEF TypeOK, FoldPhrase, segmenterVars, SegmenterTypeOK
<1>4. /\ failed' \in SUBSET Codes /\ notices' \in [Codes -> Nat]
      /\ merged' = <<>> /\ previewed' = <<>> /\ notified' = NoCode
      /\ spoke' = FALSE /\ silence' = 0
  BY <1>1, FoldedType DEF FoldPhrase, NextPhrase
<1>5. TakeTypeOK'
  BY <1>2, <1>4, EmptySeq DEF TypeOK, FoldPhrase, TakeTypeOK
<1> QED BY <1>3, <1>5 DEF TypeOK

LEMMA StopType ==
    ASSUME TypeOK, Stop
    PROVE  TypeOK'
<1>1. SegmenterTypeOK'
  <2>1. CASE surface = "desktop"
    BY <2>1 DEF Stop, segmenterVars, TypeOK, SegmenterTypeOK
  <2>2. CASE surface # "desktop"
    BY <2>2, FlushType DEF Stop, TypeOK
  <2> QED BY <2>1, <2>2
<1>2. phase' \in {"ingesting", "folding"}
  BY DEF Stop
<1>3. TakeTypeOK'
  BY <1>2 DEF TypeOK, Stop, takeVars, clockVars, noticeVars, TakeTypeOK
<1> QED BY <1>1, <1>3 DEF TypeOK

LEMMA FinalizeType ==
    ASSUME TypeOK, NEW whole \in Decoded, NEW saved \in BOOLEAN, Finalize(whole, saved)
    PROVE  TypeOK'
<1>1. ToSet(merged) \in SUBSET Frame /\ ToSet(previewed) \in SUBSET Frame
  BY FramesOfSeq DEF TypeOK, SegmenterTypeOK, TakeTypeOK
<1>2. recorded \o merged \in Seq(Frame)
  BY ConcatProperties DEF TypeOK, SegmenterTypeOK, TakeTypeOK
<1>3. gone' \in [Reason -> SUBSET Frame]
  BY <1>1, GivingType DEF Finalize, TypeOK, SegmenterTypeOK, TakeTypeOK, Reason
<1>4. recorded' \in Seq(Frame) /\ unseen' \in SUBSET Frame
  BY <1>1, <1>2 DEF Finalize, TypeOK, SegmenterTypeOK, TakeTypeOK
<1>5. SegmenterTypeOK'
  BY <1>3 DEF TypeOK, Finalize, segmenterVars, SegmenterTypeOK
<1>6. TakeTypeOK'
  BY <1>4, EmptySeq DEF TypeOK, Finalize, NextPhrase, noticeVars, TakeTypeOK
<1> QED BY <1>5, <1>6 DEF TypeOK

(* Between two drains and at the end nothing is new. *)
LEMMA QuietType ==
    ASSUME TypeOK, DrainFolded \/ Drop \/ UNCHANGED vars
    PROVE  TypeOK'
<1>1. SegmenterTypeOK'
  BY DEF TypeOK, DrainFolded, Drop, vars, segmenterVars, SegmenterTypeOK
<1>2. TakeTypeOK'
  BY EmptySeq DEF TypeOK, DrainFolded, Drop, vars, takeVars, clockVars, noticeVars, TakeTypeOK
<1> QED BY <1>1, <1>2 DEF TypeOK

LEMMA InitType == Init => TypeOK
<1> SUFFICES ASSUME Init PROVE TypeOK
  OBVIOUS
<1>1. SegmenterTypeOK
  <2>1. /\ preRoll = <<>> /\ active = <<>> /\ snippets = <<>>
        /\ speechFrames = 0 /\ trailingSilence = 0 /\ activeFrames = 0
        /\ gone = [r \in Reason |-> {}]
    BY DEF Init
  <2>2. Len(preRoll) <= PreRoll
    BY <2>1, EmptySeq, TimingAssumption
  <2> QED BY <2>1, <2>2 DEF SegmenterTypeOK
<1>2. TakeTypeOK
  <2>1. fed \in 0..MaxFrames
    <3>1. MaxFrames \in Nat
      BY TimingAssumption
    <3> QED BY <3>1 DEF Init
  <2>2. merged \in Seq(Frame) /\ previewed \in Seq(Frame)
        /\ preedit \in Seq(Frame) /\ recorded \in Seq(Frame)
    BY EmptySeq DEF Init
  <2>3. notices \in [Codes -> Nat]
    BY DEF Init
  <2>4. surface \in Surface /\ phase = "waiting" /\ stopping = "no"
        /\ silence = 0 /\ spoke = FALSE /\ notified = NoCode
        /\ said = {} /\ unseen = {} /\ failed = {}
    BY DEF Init
  <2> QED BY <2>1, <2>2, <2>3, <2>4 DEF TakeTypeOK
<1> QED BY <1>1, <1>2 DEF TypeOK

LEMMA TypeStep == TypeOK /\ [Next]_vars => TypeOK'
BY IngestType, DrainEndsType, FoldSnippetType, FoldPhraseType, StopType, FinalizeType,
   QuietType DEF Next, Over

(* Every variable keeps its type: in particular the pre-roll never grows   *)
(* beyond its limit, an utterance is in progress exactly when its length   *)
(* counts something, and no empty snippet is ever handed to the decoder.   *)
THEOREM TypeCorrect == Spec => []TypeOK
BY InitType, TypeStep, PTL DEF Spec

-----------------------------------------------------------------------------
(***************************************************************************)
(* Properties of a take of StreamingTake that hold for all timings: an     *)
(* utterance has a greatest length, a preview is never taken back, each    *)
(* cause of a failure is told, and a take that stops by itself stops in    *)
(* silence.                                                                *)
(***************************************************************************)

-----------------------------------------------------------------------------
(* The segmenter.  Its buffers hold the frames fed last, and never both;   *)
(* that the limit of an utterance counts what is in it, except for the     *)
(* pre-roll, bounds the utterance.                                         *)

(* A buffer that ends with the frame fed last. *)
Recent(buffer) == \A i \in 1..Len(buffer) : buffer[i] + Len(buffer) = fed + i

InProgress ==
    active # <<>> => /\ preRoll = <<>>
                     /\ Len(active) <= PreRoll + activeFrames
                     /\ activeFrames < Longest
                     /\ trailingSilence = 0 \/ trailingSilence < PostRoll

SnippetsBounded == \A i \in 1..Len(snippets) : Len(snippets[i]) <= PreRoll + Longest

SegmenterInv == Recent(preRoll) /\ Recent(active) /\ InProgress /\ SnippetsBounded

LEMMA TimingTypes ==
    /\ MinSpeech \in Nat /\ PreRoll \in Nat /\ PostRoll \in Nat
    /\ MaxUtterance \in Nat /\ AutoStop \in Nat /\ MaxFrames \in Nat
    /\ Longest \in Nat /\ Longest >= 2 /\ Longest >= MaxUtterance
BY TimingAssumption DEF Longest

(* A buffer stays recent when the next frame is appended to it. *)
LEMMA RecentAppend ==
    ASSUME NEW buffer \in Seq(Frame), Recent(buffer), fed \in Nat
    PROVE  \A i \in 1..Len(Append(buffer, fed + 1)) :
              Append(buffer, fed + 1)[i] + Len(Append(buffer, fed + 1)) = (fed + 1) + i
<1> DEFINE longer == Append(buffer, fed + 1)
<1>1. /\ Len(longer) = Len(buffer) + 1
      /\ \A i \in 1..Len(buffer) : longer[i] = buffer[i]
      /\ longer[Len(buffer) + 1] = fed + 1
      /\ Len(buffer) \in Nat
  OBVIOUS
<1> SUFFICES ASSUME NEW i \in 1..Len(longer)
             PROVE  longer[i] + Len(longer) = (fed + 1) + i
  OBVIOUS
<1> HIDE DEF longer
<1>2. CASE i = Len(buffer) + 1
  <2>1. longer[i] = fed + 1 /\ Len(longer) = i
    BY <1>1, <1>2
  <2> QED BY <2>1
<1>3. CASE i \in 1..Len(buffer)
  <2>1. buffer[i] + Len(buffer) = fed + i /\ buffer[i] \in Frame
    BY <1>3, ElementOfSeq DEF Recent
  <2>2. longer[i] = buffer[i] /\ Len(longer) = Len(buffer) + 1
    BY <1>1, <1>3
  <2>3. buffer[i] \in Nat /\ i \in Nat
    BY <1>3, <2>1 DEF Frame
  <2> QED BY <1>1, <2>1, <2>2, <2>3
<1>4. i = Len(buffer) + 1 \/ i \in 1..Len(buffer)
  BY <1>1
<1> QED BY <1>2, <1>3, <1>4

(* What is finished is no longer than what is allowed. *)
LEMMA FinishBounded ==
    ASSUME TypeOK, SnippetsBounded, NEW utterance \in Utterance, NEW speech \in Nat,
           FinishUtterance(utterance, speech), Len(utterance) <= PreRoll + Longest
    PROVE  SnippetsBounded'
<1>1. snippets \in Seq(Utterance)
  BY DEF TypeOK, SegmenterTypeOK
<1>2. snippets' = snippets \/ snippets' = Append(snippets, utterance)
  BY DEF FinishUtterance
<1>3. ASSUME NEW i \in 1..Len(Append(snippets, utterance))
      PROVE  Len(Append(snippets, utterance)[i]) <= PreRoll + Longest
  BY <1>1, AppendProperties, LenProperties DEF SnippetsBounded
<1> QED BY <1>2, <1>3 DEF SnippetsBounded, Longest

LEMMA FlushBounded ==
    ASSUME TypeOK, SegmenterInv, Flush, fed' = fed
    PROVE  SegmenterInv'
<1>1. CASE active = <<>>
  BY <1>1 DEF Flush, SegmenterInv, Recent, InProgress, SnippetsBounded, Longest
<1>2. CASE active # <<>>
  <2>1. active \in Utterance /\ speechFrames \in Nat /\ FinishUtterance(active, speechFrames)
    BY <1>2 DEF Flush, TypeOK, SegmenterTypeOK, Utterance
  <2>2. Len(active) <= PreRoll + Longest
    <3>1. activeFrames \in Nat /\ Len(active) \in Nat
      BY LenProperties DEF TypeOK, SegmenterTypeOK
    <3> QED BY <1>2, <3>1, TimingTypes DEF SegmenterInv, InProgress
  <2>3. SnippetsBounded'
    BY <2>1, <2>2, FinishBounded DEF SegmenterInv
  <2>4. active' = <<>> /\ preRoll' = preRoll
    BY <2>1 DEF Flush, FinishUtterance
  <2>5. Recent(preRoll)' /\ Recent(active)' /\ InProgress'
    BY <2>4, EmptySeq DEF SegmenterInv, Recent, InProgress
  <2> QED BY <2>3, <2>5 DEF SegmenterInv
<1> QED BY <1>1, <1>2

LEMMA PushFrameBounded ==
    ASSUME TypeOK, SegmenterInv, fed' = fed + 1, fed + 1 \in Frame, NEW speech \in BOOLEAN,
           PushFrame(fed + 1, speech)
    PROVE  SegmenterInv'
<1> USE TimingTypes
<1> DEFINE frame == fed + 1
<1>0. /\ fed \in Nat /\ preRoll \in Seq(Frame) /\ active \in Seq(Frame)
      /\ {speechFrames, trailingSilence, activeFrames} \subseteq Nat
      /\ Len(preRoll) <= PreRoll /\ Len(preRoll) \in Nat /\ Len(active) \in Nat
  BY LenProperties DEF TypeOK, SegmenterTypeOK, TakeTypeOK
<1>1. CASE active # <<>>
  <2> DEFINE utterance == Append(active, frame)
             spoken == speechFrames + (IF speech THEN 1 ELSE 0)
             trailing == IF speech THEN 0 ELSE trailingSilence + 1
  <2>1. ContinueUtterance(frame, speech)
    BY <1>1 DEF PushFrame
  <2>2. /\ utterance \in Utterance /\ spoken \in Nat
        /\ Len(utterance) = Len(active) + 1
    BY <1>0, AppendProperties DEF Utterance
  <2>3. /\ preRoll = <<>> /\ Len(active) <= PreRoll + activeFrames
        /\ activeFrames < Longest
    BY <1>1 DEF SegmenterInv, InProgress
  <2>4. preRoll' = <<>> /\ Recent(preRoll)'
    BY <2>1, <2>3, EmptySeq DEF ContinueUtterance, Recent
  <2>5. CASE trailing >= PostRoll \/ activeFrames + 1 >= MaxUtterance
    <3>1. FinishUtterance(utterance, spoken)
      BY <2>1, <2>5 DEF ContinueUtterance
    <3>2. Len(utterance) <= PreRoll + Longest
      BY <1>0, <2>2, <2>3
    <3> HIDE DEF utterance, spoken, trailing
    <3>3. SnippetsBounded'
      BY <2>2, <3>1, <3>2, FinishBounded DEF SegmenterInv
    <3>4. active' = <<>>
      BY <3>1 DEF FinishUtterance
    <3>5. Recent(active)' /\ InProgress'
      BY <3>4, EmptySeq DEF Recent, InProgress
    <3> QED BY <2>4, <3>3, <3>5 DEF SegmenterInv
  <2>6. CASE ~(trailing >= PostRoll \/ activeFrames + 1 >= MaxUtterance)
    <3>1. /\ active' = utterance /\ trailingSilence' = trailing
          /\ activeFrames' = activeFrames + 1 /\ UNCHANGED snippets
      BY <2>1, <2>6 DEF ContinueUtterance
    <3>2. Recent(active)'
      <4>1. Recent(active)
        BY DEF SegmenterInv
      <4>2. active' = Append(active, fed + 1)
        BY <3>1
      <4>3. \A i \in 1..Len(active') : active'[i] + Len(active') = fed' + i
        BY <1>0, <4>1, <4>2, RecentAppend
      <4> QED BY <4>3 DEF Recent
    <3>3. InProgress'
      BY <1>0, <2>2, <2>3, <2>4, <2>6, <3>1 DEF InProgress, Longest
    <3>4. SnippetsBounded'
      BY <3>1 DEF SegmenterInv, SnippetsBounded, Longest
    <3> QED BY <2>4, <3>2, <3>3, <3>4 DEF SegmenterInv
  <2> QED BY <2>5, <2>6
<1>2. CASE active = <<>> /\ speech
  <2>1. /\ active' = Append(preRoll, frame) /\ preRoll' = <<>>
        /\ activeFrames' = 1 /\ trailingSilence' = 0 /\ UNCHANGED snippets
    BY <1>2 DEF PushFrame, BeginUtterance
  <2>2. Recent(active)'
    <3>1. Recent(preRoll)
      BY DEF SegmenterInv
    <3>2. \A i \in 1..Len(active') : active'[i] + Len(active') = fed' + i
      BY <1>0, <2>1, <3>1, RecentAppend
    <3> QED BY <3>2 DEF Recent
  <2>3. Recent(preRoll)'
    BY <2>1, EmptySeq DEF Recent
  <2>4. Len(active') = Len(preRoll) + 1
    BY <1>0, <2>1, AppendProperties
  <2>5. InProgress'
    BY <1>0, <2>1, <2>4 DEF InProgress, Longest
  <2>6. SnippetsBounded'
    BY <2>1 DEF SegmenterInv, SnippetsBounded, Longest
  <2> QED BY <2>2, <2>3, <2>5, <2>6 DEF SegmenterInv
<1>3. CASE active = <<>> /\ ~speech
  <2>1. RememberPreRoll(frame) /\ active' = <<>> /\ UNCHANGED snippets
    BY <1>3 DEF PushFrame, RememberPreRoll
  <2>2. Recent(preRoll)'
    <3>1. CASE PreRoll = 0
      <4>1. preRoll' = preRoll /\ Len(preRoll) = 0
        BY <1>0, <2>1, <3>1 DEF RememberPreRoll
      <4> QED BY <4>1 DEF Recent
    <3>2. CASE PreRoll # 0 /\ Len(preRoll) = PreRoll
      <4> DEFINE rest == Tail(preRoll)
      <4>1. preRoll # <<>>
        BY <3>2, EmptySeq
      <4>2. /\ rest \in Seq(Frame) /\ Len(rest) = Len(preRoll) - 1
            /\ \A i \in 1..Len(rest) : rest[i] = preRoll[i + 1]
        BY <1>0, <4>1, HeadTailProperties
      <4>3. Recent(rest)
        <5> SUFFICES ASSUME NEW i \in 1..Len(rest)
                     PROVE  rest[i] + Len(rest) = fed + i
          BY DEF Recent
        <5>1. i + 1 \in 1..Len(preRoll) /\ rest[i] = preRoll[i + 1]
          BY <1>0, <4>2
        <5>2. preRoll[i + 1] + Len(preRoll) = fed + (i + 1) /\ preRoll[i + 1] \in Frame
          BY <1>0, <5>1, ElementOfSeq DEF SegmenterInv, Recent
        <5>3. rest[i] + Len(preRoll) = fed + (i + 1) /\ rest[i] \in Nat
          BY <5>1, <5>2 DEF Frame
        <5>4. Len(rest) = Len(preRoll) - 1 /\ Len(preRoll) \in Nat /\ fed \in Nat /\ i \in Nat
          BY <1>0, <4>2
        <5> HIDE DEF rest
        <5> QED BY <5>3, <5>4
      <4>4. preRoll' = Append(rest, frame)
        BY <2>1, <3>2 DEF RememberPreRoll
      <4> HIDE DEF rest
      <4>5. \A i \in 1..Len(preRoll') : preRoll'[i] + Len(preRoll') = fed' + i
        BY <1>0, <4>2, <4>3, <4>4, RecentAppend
      <4> QED BY <4>5 DEF Recent
    <3>3. CASE PreRoll # 0 /\ Len(preRoll) # PreRoll
      <4>1. preRoll' = Append(preRoll, frame)
        BY <2>1, <3>3 DEF RememberPreRoll
      <4>2. Recent(preRoll)
        BY DEF SegmenterInv
      <4>3. \A i \in 1..Len(preRoll') : preRoll'[i] + Len(preRoll') = fed' + i
        BY <1>0, <4>1, <4>2, RecentAppend
      <4> QED BY <4>3 DEF Recent
    <3> QED BY <3>1, <3>2, <3>3
  <2>3. Recent(active)' /\ InProgress'
    BY <2>1, EmptySeq DEF Recent, InProgress
  <2>4. SnippetsBounded'
    BY <2>1 DEF SegmenterInv, SnippetsBounded, Longest
  <2> QED BY <2>2, <2>3, <2>4 DEF SegmenterInv
<1> QED BY <1>1, <1>2, <1>3

(* Folding only takes snippets away. *)
LEMMA FoldBounded ==
    ASSUME TypeOK, SegmenterInv, UNCHANGED <<fed, segmenterVars>>,
           snippets # <<>> => snippets' \in {snippets, Tail(snippets), <<>>},
           snippets = <<>> => snippets' = snippets
    PROVE  SegmenterInv'
<1>1. Recent(preRoll)' /\ Recent(active)' /\ InProgress'
  BY DEF SegmenterInv, Recent, InProgress, segmenterVars, Longest
<1>2. SnippetsBounded'
  <2>1. CASE snippets' = snippets
    BY <2>1 DEF SegmenterInv, SnippetsBounded, Longest
  <2>2. CASE snippets' = <<>>
    BY <2>2, EmptySeq DEF SnippetsBounded
  <2>3. CASE snippets # <<>> /\ snippets' = Tail(snippets)
    <3>1. snippets \in Seq(Utterance) /\ Len(snippets) \in Nat
      BY LenProperties DEF TypeOK, SegmenterTypeOK
    <3>2. /\ Len(snippets') = Len(snippets) - 1
          /\ \A i \in 1..Len(snippets') : snippets'[i] = snippets[i + 1]
      BY <2>3, <3>1, HeadTailProperties
    <3>3. ASSUME NEW i \in 1..Len(snippets')
          PROVE  Len(snippets'[i]) <= PreRoll + Longest
      <4>1. i + 1 \in 1..Len(snippets)
        BY <3>1, <3>2
      <4> QED BY <3>2, <4>1 DEF SegmenterInv, SnippetsBounded
    <3> QED BY <3>3 DEF SnippetsBounded, Longest
  <2> QED BY <2>1, <2>2, <2>3
<1> QED BY <1>1, <1>2 DEF SegmenterInv

LEMMA SegmenterStart == Init => SegmenterInv
BY EmptySeq DEF Init, SegmenterInv, Recent, InProgress, SnippetsBounded

LEMMA SegmenterStep == TypeOK /\ SegmenterInv /\ [Next]_vars => SegmenterInv'
<1> SUFFICES ASSUME TypeOK, SegmenterInv, [Next]_vars PROVE SegmenterInv'
  OBVIOUS
<1>1. ASSUME NEW speech \in BOOLEAN, Ingest(speech) PROVE SegmenterInv'
  <2>1. fed + 1 \in Frame
    BY <1>1, TimingTypes DEF Ingest, TypeOK, TakeTypeOK, Frame
  <2> QED BY <1>1, <2>1, PushFrameBounded DEF Ingest
<1>2. CASE DrainEnds
  <2>1. CASE stopping = "no"
    BY <1>2, <2>1, FoldBounded DEF DrainEnds
  <2>2. CASE stopping # "no"
    BY <1>2, <2>2, FlushBounded DEF DrainEnds
  <2> QED BY <2>1, <2>2
<1>3. ASSUME NEW decoded \in Decoded, FoldSnippet(decoded) PROVE SegmenterInv'
  BY <1>3, FoldBounded DEF FoldSnippet
<1>4. ASSUME NEW decoded \in Decoded, NEW whole \in Decoded, NEW saved \in BOOLEAN,
             FoldPhrase(decoded, whole, saved)
      PROVE  SegmenterInv'
  <2>1. snippets # <<>> /\ snippets' \in {Tail(snippets), <<>>}
    BY <1>4 DEF FoldPhrase, PhraseCommitted
  <2> QED BY <1>4, <2>1, FoldBounded DEF FoldPhrase
<1>5. CASE Stop
  <2>1. CASE surface = "desktop"
    BY <1>5, <2>1, FoldBounded DEF Stop
  <2>2. CASE surface # "desktop"
    BY <1>5, <2>2, FlushBounded DEF Stop
  <2> QED BY <2>1, <2>2
<1>6. ASSUME NEW whole \in Decoded, NEW saved \in BOOLEAN, Finalize(whole, saved)
      PROVE  SegmenterInv'
  BY <1>6, FoldBounded DEF Finalize
<1>7. CASE DrainFolded \/ Drop \/ UNCHANGED vars
  BY <1>7, FoldBounded DEF DrainFolded, Drop, vars
<1> QED BY <1>1, <1>2, <1>3, <1>4, <1>5, <1>6, <1>7 DEF Next, Over

(* However the speech, the drains and the folding interleave, no utterance *)
(* is longer than the limit and the pre-roll, and the one in progress is   *)
(* the run of frames fed last (segmentation.rs:29).                        *)
THEOREM StreamBounded == Spec => []UtteranceBounded
<1>1. TypeOK /\ SegmenterInv => UtteranceBounded
  <2> SUFFICES ASSUME TypeOK, SegmenterInv PROVE UtteranceBounded
    OBVIOUS
  <2>1. /\ snippets \in Seq(Utterance) /\ active \in Seq(Frame)
        /\ activeFrames \in Nat /\ Len(active) \in Nat
    BY LenProperties DEF TypeOK, SegmenterTypeOK
  <2>2. \A u \in ToSet(snippets) : Len(u) <= PreRoll + Longest
    BY <2>1, LenProperties DEF ToSet, SegmenterInv, SnippetsBounded
  <2>3. Len(active) <= PreRoll + Longest
    BY <2>1, TimingTypes, EmptySeq DEF SegmenterInv, InProgress
  <2>4. \A i \in DOMAIN active : active[i] + Len(active) = fed + i
    BY <2>1, LenProperties DEF SegmenterInv, Recent
  <2> QED BY <2>2, <2>3, <2>4 DEF UtteranceBounded
<1> QED BY <1>1, InitType, TypeStep, SegmenterStart, SegmenterStep, PTL DEF Spec

-----------------------------------------------------------------------------
(* The previews. *)

(* What was previewed was recorded. *)
PreviewInv == PreviewSurvives /\ (previewed # <<>> => merged # <<>>)

LEMMA FoldedPreviews ==
    ASSUME TypeOK, PreviewInv, snippets # <<>>, NEW decoded \in Decoded,
           PreviewedWith(decoded) # <<>>
    PROVE  MergedWith(decoded) # <<>>
<1>1. Snippet \in Seq(Frame) /\ Snippet # <<>> /\ merged \in Seq(Frame)
  BY NextSnippet DEF TypeOK, TakeTypeOK, Utterance
<1>2. merged \o Snippet # <<>>
  <2>1. /\ Len(merged \o Snippet) = Len(merged) + Len(Snippet)
        /\ Len(merged) \in Nat /\ Len(Snippet) \in Nat \ {0}
    BY <1>1, ConcatProperties, EmptySeq, LenProperties
  <2> QED BY <2>1, EmptySeq
<1>3. CASE ~Fails(decoded)
  BY <1>2, <1>3 DEF MergedWith
<1>4. CASE Fails(decoded)
  <2>1. decoded # "words"
    BY <1>4, CodesAssumption DEF Fails
  <2> QED BY <1>4, <2>1 DEF MergedWith, PreviewedWith, PreviewInv
<1> QED BY <1>3, <1>4

(* A take with a preview is not silent, and takes back nothing. *)
LEMMA SilentTakesNothing ==
    ASSUME NEW audio, NEW previews, NEW whole, previews # <<>> => audio # <<>>,
           Silent(audio, previews, whole)
    PROVE  ToSet(previews) = {}
<1>1. previews = <<>>
  BY DEF Silent
<1>2. DOMAIN previews = {}
  BY <1>1, EmptySeq, LenProperties
<1> QED BY <1>2 DEF ToSet

LEMMA PreviewStep == TypeOK /\ PreviewInv /\ [Next]_vars => PreviewInv'
<1> SUFFICES ASSUME TypeOK, PreviewInv, [Next]_vars PROVE PreviewInv'
  OBVIOUS
<1> USE DEF PreviewInv, PreviewSurvives
<1>1. ASSUME NEW decoded \in Decoded, FoldSnippet(decoded) PROVE PreviewInv'
  BY <1>1, FoldedPreviews DEF FoldSnippet
<1>2. ASSUME NEW decoded \in Decoded, NEW whole \in Decoded, NEW saved \in BOOLEAN,
             FoldPhrase(decoded, whole, saved)
      PROVE  PreviewInv'
  <2> DEFINE audio == MergedWith(decoded)
             previews == PreviewedWith(decoded)
  <2>1. previews # <<>> => audio # <<>>
    BY <1>2, FoldedPreviews DEF FoldPhrase
  <2>2. unseen' = unseen \/ (Silent(audio, previews, whole)
                              /\ unseen' = unseen \cup ToSet(previews))
    BY <1>2 DEF FoldPhrase
  <2>3. previewed' = <<>>
    BY <1>2 DEF FoldPhrase, NextPhrase
  <2> HIDE DEF audio, previews
  <2>4. unseen' = {}
    BY <2>1, <2>2, SilentTakesNothing
  <2> QED BY <2>3, <2>4
<1>3. ASSUME NEW whole \in Decoded, NEW saved \in BOOLEAN, Finalize(whole, saved)
      PROVE  PreviewInv'
  <2>1. unseen' = unseen \/ (Silent(merged, previewed, whole)
                              /\ unseen' = unseen \cup ToSet(previewed))
    BY <1>3 DEF Finalize
  <2>2. previewed' = <<>>
    BY <1>3 DEF Finalize, NextPhrase
  <2>3. unseen' = {}
    BY <2>1, SilentTakesNothing
  <2> QED BY <2>2, <2>3
<1>4. ASSUME UNCHANGED <<takeVars, unseen>> PROVE PreviewInv'
  BY <1>4 DEF takeVars
<1>5. ASSUME NEW speech \in BOOLEAN, Ingest(speech) PROVE PreviewInv'
  BY <1>4, <1>5 DEF Ingest
<1>6. CASE DrainEnds \/ DrainFolded \/ Stop \/ Drop \/ UNCHANGED vars
  BY <1>4, <1>6 DEF DrainEnds, DrainFolded, Stop, Drop, vars
<1> QED BY <1>1, <1>2, <1>3, <1>5, <1>6 DEF Next, Over

(* Words that were previewed are never taken back by a silent outcome,     *)
(* whatever the decoding of the whole finds: choose_final_take_text falls  *)
(* back on the previews (streaming.rs:65), and there is always a recording *)
(* for them to be the text of.                                             *)
THEOREM PreviewKept == Spec => []PreviewSurvives
<1>1. Init => PreviewInv
  BY DEF Init, PreviewInv, PreviewSurvives
<1>2. PreviewInv => PreviewSurvives
  BY DEF PreviewInv
<1> QED BY <1>1, <1>2, InitType, TypeStep, PreviewStep, PTL DEF Spec

-----------------------------------------------------------------------------
(* The notices. *)

(* What was told last was told in this phrase; a phrase of continuous mode *)
(* starts with nothing told, also the one that a stop flushes.             *)
NoticeInv ==
    /\ FailureIsTold
    /\ notified # NoCode => notices[notified] > 0
    /\ phase = "waiting" => snippets = <<>> /\ stopping = "no"
    /\ surface = "continuous" =>
        /\ stopping = "no" => notified = NoCode
        /\ stopping # "no" /\ phase # "off" =>
            /\ phase = "folding"
            /\ snippets # <<>> => notified = NoCode /\ Tail(snippets) = <<>>

LEMMA FoldedNotices ==
    ASSUME TypeOK, FailureIsTold, notified # NoCode => notices[notified] > 0,
           surface = "continuous" => notified = NoCode,
           NEW decoded \in Decoded
    PROVE  /\ \A c \in FailedWith(decoded) : NoticesWith(decoded)[c] > 0
           /\ NotifiedWith(decoded) # NoCode =>
                NoticesWith(decoded)[NotifiedWith(decoded)] > 0
<1> DEFINE before == IF surface = "continuous" THEN [c \in Codes |-> 0] ELSE notices
           known == IF surface = "continuous" THEN {} ELSE failed
<1>1. /\ before \in [Codes -> Nat] /\ known \in SUBSET Codes
      /\ \A c \in known : before[c] > 0
      /\ notified # NoCode => before[notified] > 0
      /\ notified \in Codes \cup {NoCode} /\ NoCode \notin Codes
  BY CodesAssumption DEF TypeOK, TakeTypeOK, FailureIsTold
<1>2. /\ FailedWith(decoded) = known \cup ({decoded} \cap Codes)
      /\ NoticesWith(decoded) = IF decoded \in Codes /\ decoded # notified
                                THEN [before EXCEPT ![decoded] = @ + 1] ELSE before
      /\ NotifiedWith(decoded) = IF decoded \in Codes THEN decoded ELSE notified
  BY DEF FailedWith, NoticesWith, NotifiedWith, Fails
<1> HIDE DEF before, known
<1>3. CASE decoded \in Codes /\ decoded # notified
  <2> DEFINE told == [before EXCEPT ![decoded] = @ + 1]
  <2>1. /\ told[decoded] = before[decoded] + 1
        /\ \A c \in Codes \ {decoded} : told[c] = before[c]
        /\ before[decoded] \in Nat
    BY <1>1, <1>3
  <2>2. NoticesWith(decoded) = told
    BY <1>2, <1>3
  <2> HIDE DEF told
  <2> QED BY <1>1, <1>2, <1>3, <2>1, <2>2
<1>4. CASE decoded \in Codes /\ decoded = notified
  BY <1>1, <1>2, <1>4
<1>5. CASE decoded \notin Codes
  BY <1>1, <1>2, <1>5
<1> QED BY <1>3, <1>4, <1>5

(* A flush hands over one snippet at most. *)
LEMMA FlushedOne ==
    ASSUME TypeOK, snippets = <<>>, Flush
    PROVE  snippets' # <<>> => Tail(snippets') = <<>>
<1>1. CASE active = <<>>
  BY <1>1 DEF Flush
<1>2. CASE active # <<>>
  <2>1. snippets' = snippets \/ snippets' = Append(snippets, active)
    BY <1>2 DEF Flush, FinishUtterance
  <2>2. /\ <<active>> \in Seq(Seq(Frame)) /\ <<active>> # <<>> /\ Len(<<active>>) = 1
        /\ Append(<<>>, active) = <<active>>
    BY DEF TypeOK, SegmenterTypeOK
  <2>3. Len(Tail(<<active>>)) = 0 /\ Tail(<<active>>) \in Seq(Seq(Frame))
    BY <2>2, HeadTailProperties
  <2>4. Tail(<<active>>) = <<>>
    BY <2>3, EmptySeq
  <2> QED BY <1>2, <2>1, <2>2, <2>4
<1> QED BY <1>1, <1>2

LEMMA NoticeStep == TypeOK /\ NoticeInv /\ [Next]_vars => NoticeInv'
<1> SUFFICES ASSUME TypeOK, NoticeInv, [Next]_vars PROVE NoticeInv'
  OBVIOUS
<1> USE DEF NoticeInv, FailureIsTold
<1>1. ASSUME NEW decoded \in Decoded, FoldSnippet(decoded) PROVE NoticeInv'
  <2>1. surface = "continuous" => notified = NoCode
    BY <1>1 DEF FoldSnippet
  <2>2. /\ \A c \in failed' : notices'[c] > 0
        /\ notified' # NoCode => notices'[notified'] > 0
    BY <1>1, <2>1, FoldedNotices DEF FoldSnippet
  <2>3. /\ phase' = "folding" /\ surface' = surface /\ stopping' = stopping
        /\ surface = "continuous" => stopping # "no" /\ snippets' = <<>>
    BY <1>1 DEF FoldSnippet
  <2> QED BY <2>2, <2>3
<1>2. ASSUME NEW decoded \in Decoded, NEW whole \in Decoded, NEW saved \in BOOLEAN,
             FoldPhrase(decoded, whole, saved)
      PROVE  NoticeInv'
  <2>1. notified = NoCode
    BY <1>2 DEF FoldPhrase
  <2>2. \A c \in failed' : notices'[c] > 0
    BY <1>2, <2>1, FoldedNotices DEF FoldPhrase
  <2>3. /\ phase' = "folding" /\ stopping' = "no" /\ notified' = NoCode
    BY <1>2 DEF FoldPhrase, NextPhrase
  <2> QED BY <2>2, <2>3
<1>3. ASSUME NEW whole \in Decoded, NEW saved \in BOOLEAN, Finalize(whole, saved)
      PROVE  NoticeInv'
  <2>1. /\ phase' = "off" /\ notified' = NoCode /\ UNCHANGED <<stopping, failed, notices>>
    BY <1>3 DEF Finalize, NextPhrase, noticeVars
  <2> QED BY <2>1
<1>4. CASE Stop
  <2>1. /\ phase = "waiting" /\ phase' \in {"ingesting", "folding"}
        /\ UNCHANGED <<surface, notified, failed, notices>>
        /\ stopping' = "asked"
        /\ surface = "continuous" => phase' = "folding" /\ Flush
    BY <1>4 DEF Stop, takeVars, noticeVars
  <2> QED BY <2>1, FlushedOne
<1>5. ASSUME NEW speech \in BOOLEAN, Ingest(speech) PROVE NoticeInv'
  <2>1. /\ phase \in {"waiting", "ingesting"} /\ phase' = "ingesting"
        /\ UNCHANGED <<surface, stopping, notified, failed, notices>>
    BY <1>5 DEF Ingest, takeVars, noticeVars
  <2> QED BY <2>1
<1>6. CASE DrainEnds
  <2>1. /\ phase = "ingesting" /\ phase' = "folding"
        /\ UNCHANGED <<surface, stopping, notified, failed, notices>>
    BY <1>6 DEF DrainEnds, takeVars, noticeVars
  <2> QED BY <2>1
<1>7. CASE DrainFolded
  <2>1. /\ phase' \in {"waiting", "ingesting"} /\ snippets' = <<>> /\ stopping = "no"
        /\ phase' = "waiting" => stopping' = "no"
        /\ surface = "continuous" => stopping' = "no"
        /\ UNCHANGED <<surface, notified, failed, notices>>
    BY <1>7 DEF DrainFolded, takeVars, noticeVars
  <2> QED BY <2>1
<1>8. CASE Drop
  <2>1. phase' = "off" /\ UNCHANGED <<surface, stopping, notified, failed, notices>>
    BY <1>8 DEF Drop, takeVars, noticeVars
  <2> QED BY <2>1
<1>9. CASE UNCHANGED vars
  BY <1>9 DEF vars, takeVars, noticeVars
<1> QED BY <1>1, <1>2, <1>3, <1>4, <1>5, <1>6, <1>7, <1>8, <1>9 DEF Next, Over

(* Every cause that cost a phrase a snippet has been told in that phrase:  *)
(* that first_error_this_take keeps only the last code (streaming.rs:348)  *)
(* may tell one too often, and never one too little.                       *)
THEOREM FailuresTold == Spec => []FailureIsTold
<1>1. Init => NoticeInv
  BY DEF Init, NoticeInv, FailureIsTold
<1>2. NoticeInv => FailureIsTold
  BY DEF NoticeInv
<1> QED BY <1>1, <1>2, InitType, TypeStep, NoticeStep, PTL DEF Spec

-----------------------------------------------------------------------------
(* The auto-stop clock of the desktop. *)

(* The clock has run since the last frame with speech, and while an        *)
(* utterance is in progress it is the pause that the segmenter measures.   *)
ClockInv ==
    surface = "desktop" /\ phase # "off" =>
        /\ spoke => said # {}
        /\ \A f \in said : f + silence <= fed
        /\ active # <<>> => silence = trailingSilence

LEMMA FlushedIdle ==
    ASSUME Flush
    PROVE  active' = <<>>
BY DEF Flush, FinishUtterance

(* The pause that the segmenter measures is that of the clock. *)
LEMMA PushFrameClock ==
    ASSUME TypeOK, ClockInv, surface = "desktop", phase # "off", NEW speech \in BOOLEAN,
           PushFrame(fed + 1, speech), Clock(speech), active' # <<>>
    PROVE  silence' = trailingSilence'
<1>1. CASE active # <<>>
  <2>1. ContinueUtterance(fed + 1, speech) /\ silence = trailingSilence
    BY <1>1 DEF PushFrame, ClockInv
  <2>2. trailingSilence' = IF speech THEN 0 ELSE trailingSilence + 1
    BY <2>1 DEF ContinueUtterance, FinishUtterance
  <2> QED BY <2>1, <2>2 DEF Clock
<1>2. CASE active = <<>> /\ speech
  BY <1>2 DEF PushFrame, BeginUtterance, Clock
<1>3. CASE active = <<>> /\ ~speech
  BY <1>3 DEF PushFrame, RememberPreRoll
<1> QED BY <1>1, <1>2, <1>3

LEMMA ClockStep == TypeOK /\ ClockInv /\ [Next]_vars => ClockInv'
<1> SUFFICES ASSUME TypeOK, ClockInv, [Next]_vars, (surface = "desktop")', (phase # "off")'
             PROVE ClockInv'
  BY DEF ClockInv
<1>1. ASSUME NEW speech \in BOOLEAN, Ingest(speech) PROVE ClockInv'
  <2>1. /\ surface = "desktop" /\ phase # "off" /\ fed' = fed + 1
        /\ said' = IF speech THEN said \cup {fed + 1} ELSE said
        /\ Clock(speech) /\ PushFrame(fed + 1, speech)
    BY <1>1 DEF Ingest
  <2>2. active' # <<>> => silence' = trailingSilence'
    BY <2>1, PushFrameClock
  <2>3. spoke' => said' # {}
    BY <2>1 DEF Clock, ClockInv
  <2>4. \A f \in said' : f + silence' <= fed'
    <3>1. fed \in Nat /\ silence \in Nat /\ \A f \in said : f \in Nat
      BY DEF TypeOK, TakeTypeOK, Frame
    <3>2. \A f \in said : f + silence <= fed
      BY <2>1 DEF ClockInv
    <3>3. CASE speech
      <4>1. silence' = 0 /\ said' = said \cup {fed + 1}
        BY <2>1, <3>3 DEF Clock
      <4> QED BY <2>1, <3>1, <3>2, <4>1
    <3>4. CASE ~speech
      <4>1. silence' = silence + 1 /\ said' = said
        BY <2>1, <3>4 DEF Clock
      <4> QED BY <2>1, <3>1, <3>2, <4>1
    <3> QED BY <3>3, <3>4
  <2> QED BY <2>2, <2>3, <2>4 DEF ClockInv
<1>2. ASSUME NEW decoded \in Decoded, FoldSnippet(decoded) PROVE ClockInv'
  BY <1>2 DEF FoldSnippet, clockVars, segmenterVars, ClockInv
<1>3. ASSUME NEW decoded \in Decoded, NEW whole \in Decoded, NEW saved \in BOOLEAN,
             FoldPhrase(decoded, whole, saved)
      PROVE  ClockInv'
  BY <1>3 DEF FoldPhrase
<1>4. CASE DrainEnds
  <2>1. active' = active \/ active' = <<>>
    BY <1>4, FlushedIdle DEF DrainEnds, segmenterVars
  <2>2. active' # <<>> => trailingSilence' = trailingSilence
    BY <1>4, FlushedIdle DEF DrainEnds, segmenterVars
  <2> QED BY <1>4, <2>1, <2>2 DEF DrainEnds, clockVars, ClockInv
<1>5. CASE Stop
  BY <1>5 DEF Stop, clockVars, segmenterVars, ClockInv
<1>6. CASE DrainFolded \/ UNCHANGED vars
  BY <1>6 DEF DrainFolded, vars, clockVars, segmenterVars, ClockInv
<1>7. ASSUME NEW whole \in Decoded, NEW saved \in BOOLEAN, Finalize(whole, saved)
      PROVE  ClockInv'
  BY <1>7 DEF Finalize
<1>8. CASE Drop
  BY <1>8 DEF Drop
<1> QED BY <1>1, <1>2, <1>3, <1>4, <1>5, <1>6, <1>7, <1>8 DEF Next, Over

(* The condition of StopsInSilence at a step. *)
CutsNobody ==
    stopping = "no" /\ stopping' = "silence" =>
        /\ said # {}
        /\ \A f \in said : f + AutoStop <= fed
        /\ AutoStop >= PostRoll => active = <<>>

LEMMA StopCutsNobody == TypeOK /\ SegmenterInv /\ ClockInv /\ [Next]_vars => CutsNobody
<1> SUFFICES ASSUME TypeOK, SegmenterInv, ClockInv, [Next]_vars,
                    stopping = "no", stopping' = "silence"
             PROVE  /\ said # {}
                    /\ \A f \in said : f + AutoStop <= fed
                    /\ AutoStop >= PostRoll => active = <<>>
  BY DEF CutsNobody
<1>1. DrainFolded
  BY DEF Next, Over, vars, Ingest, DrainEnds, FoldSnippet, FoldPhrase, Stop, Finalize, Drop
<1>2. /\ surface = "desktop" /\ phase = "folding"
      /\ AutoStop # 0 /\ spoke /\ silence >= AutoStop
  BY <1>1 DEF DrainFolded, AutoStopDue
<1>3. /\ said # {} /\ \A f \in said : f + silence <= fed
      /\ active # <<>> => silence = trailingSilence
  BY <1>2 DEF ClockInv
<1>4. /\ silence \in Nat /\ fed \in Nat /\ AutoStop \in Nat /\ PostRoll \in Nat
      /\ trailingSilence \in Nat /\ \A f \in said : f \in Nat
  BY TimingTypes DEF TypeOK, SegmenterTypeOK, TakeTypeOK, Frame
<1>5. \A f \in said : f + AutoStop <= fed
  BY <1>2, <1>3, <1>4
<1>6. AutoStop >= PostRoll => active = <<>>
  BY <1>2, <1>3, <1>4 DEF SegmenterInv, InProgress
<1> QED BY <1>3, <1>5, <1>6

(* A take that stops by itself does so after speech and after a silence of *)
(* AutoStop frames since the last frame with speech, and with no utterance *)
(* in progress where AutoStop is not the shorter pause (streaming.rs:258). *)
THEOREM StopsOnlyInSilence == Spec => StopsInSilence
<1>1. Init => ClockInv
  BY DEF Init, ClockInv
<1>2. TypeOK /\ SegmenterInv /\ ClockInv /\ [Next]_vars => [CutsNobody]_vars
  BY StopCutsNobody
<1> QED
  BY <1>1, <1>2, InitType, TypeStep, SegmenterStart, SegmenterStep, ClockStep, PTL
     DEF Spec, StopsInSilence, CutsNobody


(***************************************************************************)
(* The recording of a take: the frames keep the order in which they were   *)
(* spoken, and none that was spoken, nor the pre-roll in front of it, is   *)
(* lost without a reason.                                                  *)
(*                                                                         *)
(* Neither property is inductive.  The order rests on the segmenter's      *)
(* buffers holding the frames fed last (SegmenterInv); that a pre-roll is  *)
(* complete rests on every frame that is still young enough to become one  *)
(* being held somewhere (SkipInv).                                         *)
(***************************************************************************)
(* Sets of sequences. *)

LEMMA ToSetOf ==
    ASSUME NEW S, NEW s \in Seq(S)
    PROVE  /\ ToSet(s) = {s[i] : i \in 1..Len(s)}
           /\ ToSet(s) \in SUBSET S
BY DEF ToSet

LEMMA ToSetNone == ToSet(<<>>) = {}
BY DEF ToSet

LEMMA ToSetAppend ==
    ASSUME NEW S, NEW s \in Seq(S), NEW e \in S
    PROVE  ToSet(Append(s, e)) = ToSet(s) \cup {e}
<1> DEFINE t == Append(s, e)
<1>1. /\ t \in Seq(S) /\ Len(t) = Len(s) + 1 /\ Len(s) \in Nat
      /\ \A i \in 1..Len(s) : t[i] = s[i]
      /\ t[Len(s) + 1] = e
  BY AppendProperties, LenProperties
<1> HIDE DEF t
<1>2. ToSet(t) = {t[i] : i \in 1..Len(t)} /\ ToSet(s) = {s[i] : i \in 1..Len(s)}
  BY <1>1, ToSetOf
<1>3. 1..Len(t) = 1..Len(s) \cup {Len(s) + 1}
  BY <1>1
<1>4. ToSet(t) = ToSet(s) \cup {e}
  BY <1>1, <1>2, <1>3
<1> QED BY <1>4 DEF t

LEMMA ToSetConcat ==
    ASSUME NEW S, NEW s \in Seq(S), NEW t \in Seq(S)
    PROVE  ToSet(s \o t) = ToSet(s) \cup ToSet(t)
<1> DEFINE u == s \o t
<1>1. /\ u \in Seq(S) /\ Len(u) = Len(s) + Len(t)
      /\ Len(s) \in Nat /\ Len(t) \in Nat
      /\ \A i \in 1..Len(s) + Len(t) :
            u[i] = IF i <= Len(s) THEN s[i] ELSE t[i - Len(s)]
  BY ConcatProperties, LenProperties
<1> HIDE DEF u
<1>2. /\ ToSet(u) = {u[i] : i \in 1..Len(u)}
      /\ ToSet(s) = {s[i] : i \in 1..Len(s)} /\ ToSet(t) = {t[i] : i \in 1..Len(t)}
  BY <1>1, ToSetOf
<1>3. ToSet(u) \subseteq ToSet(s) \cup ToSet(t)
  <2> SUFFICES ASSUME NEW i \in 1..Len(u) PROVE u[i] \in ToSet(s) \cup ToSet(t)
    BY <1>2
  <2>1. CASE i <= Len(s)
    BY <1>1, <1>2, <2>1
  <2>2. CASE i > Len(s)
    <3>1. i - Len(s) \in 1..Len(t) /\ u[i] = t[i - Len(s)]
      BY <1>1, <2>2
    <3> QED BY <1>2, <3>1
  <2> QED BY <1>1, <2>1, <2>2
<1>4. ToSet(s) \subseteq ToSet(u)
  <2> SUFFICES ASSUME NEW i \in 1..Len(s) PROVE s[i] \in ToSet(u)
    BY <1>2
  <2>1. i \in 1..Len(u) /\ u[i] = s[i]
    BY <1>1
  <2> QED BY <1>2, <2>1
<1>5. ToSet(t) \subseteq ToSet(u)
  <2> SUFFICES ASSUME NEW i \in 1..Len(t) PROVE t[i] \in ToSet(u)
    BY <1>2
  <2> DEFINE j == i + Len(s)
  <2>0. j \in 1..Len(s) + Len(t) /\ ~(j <= Len(s)) /\ j - Len(s) = i
    BY <1>1
  <2> HIDE DEF j
  <2>1. j \in 1..Len(u) /\ u[j] = t[i]
    BY <1>1, <2>0
  <2> QED BY <1>2, <2>1
<1>6. ToSet(u) = ToSet(s) \cup ToSet(t)
  BY <1>3, <1>4, <1>5
<1> QED BY <1>6 DEF u

LEMMA ToSetSplit ==
    ASSUME NEW S, NEW s \in Seq(S), s # <<>>
    PROVE  ToSet(s) = {Head(s)} \cup ToSet(Tail(s))
<1> DEFINE t == Tail(s)
<1>1. /\ t \in Seq(S) /\ Len(t) = Len(s) - 1 /\ Len(s) \in Nat \ {0}
      /\ \A i \in 1..Len(t) : t[i] = s[i + 1]
      /\ Head(s) = s[1]
  BY HeadTailProperties, EmptySeq, LenProperties
<1> HIDE DEF t
<1>2. ToSet(t) = {t[i] : i \in 1..Len(t)} /\ ToSet(s) = {s[i] : i \in 1..Len(s)}
  BY <1>1, ToSetOf
<1>3. ToSet(s) \subseteq {Head(s)} \cup ToSet(t)
  <2> SUFFICES ASSUME NEW i \in 1..Len(s), i # 1 PROVE s[i] \in ToSet(t)
    BY <1>1, <1>2
  <2>1. i - 1 \in 1..Len(t) /\ t[i - 1] = s[i]
    BY <1>1
  <2> QED BY <1>2, <2>1
<1>4. ToSet(t) \subseteq ToSet(s)
  <2> SUFFICES ASSUME NEW i \in 1..Len(t) PROVE t[i] \in ToSet(s)
    BY <1>2
  <2>1. i + 1 \in 1..Len(s) /\ s[i + 1] = t[i]
    BY <1>1
  <2> QED BY <1>2, <2>1
<1>5. Head(s) \in ToSet(s)
  BY <1>1, <1>2
<1>6. ToSet(s) = {Head(s)} \cup ToSet(t)
  BY <1>3, <1>4, <1>5
<1> QED BY <1>6 DEF t

LEMMA FramesAppend ==
    ASSUME NEW s \in Seq(Utterance), NEW u \in Utterance
    PROVE  FramesOf(Append(s, u)) = FramesOf(s) \cup ToSet(u)
<1>1. ToSet(Append(s, u)) = ToSet(s) \cup {u}
  BY ToSetAppend
<1> QED BY <1>1 DEF FramesOf

LEMMA FramesSplit ==
    ASSUME NEW s \in Seq(Utterance), s # <<>>
    PROVE  FramesOf(s) = ToSet(Head(s)) \cup FramesOf(Tail(s))
<1>1. ToSet(s) = {Head(s)} \cup ToSet(Tail(s))
  BY ToSetSplit
<1> QED BY <1>1 DEF FramesOf

LEMMA FramesNone == FramesOf(<<>>) = {}
BY DEF FramesOf, ToSet

-----------------------------------------------------------------------------
(* What a frame, or the end of a drain, does to the buffers. *)

Sorted(s) == \A i, j \in 1..Len(s) : i < j => s[i] < s[j]

(* The frames of the segmenter. *)
Fresh == ToSet(active) \cup ToSet(preRoll)

(* The frames join the segmenter's, and none leaves. *)
Joins(frames) ==
    /\ Fresh' = Fresh \cup frames
    /\ preRoll' \in {preRoll, <<>>}
    /\ UNCHANGED <<snippets, gone>>

(* They end an utterance, which is a snippet or a blip. *)
Ends(frames) ==
    \E u \in Utterance :
        /\ Sorted(u) /\ ToSet(u) = Fresh \cup frames
        /\ Fresh' = {} /\ preRoll' = <<>>
        /\ \/ snippets' = Append(snippets, u) /\ UNCHANGED gone
           \/ gone' = Giving("blip", ToSet(u)) /\ UNCHANGED snippets

(* They are the pre-roll of what may be said next, and push out what is    *)
(* too old for that.                                                       *)
Ages(frames) ==
    /\ active = <<>>
    /\ Fresh' \subseteq Fresh \cup frames /\ ToSet(preRoll') = Fresh'
    /\ \A g \in (Fresh \cup frames) \ Fresh' : g + PreRoll <= fed'
    /\ UNCHANGED <<snippets, gone>>

LEMMA RecentSorted ==
    ASSUME NEW s \in Seq(Frame), NEW last \in Nat,
           \A i \in 1..Len(s) : s[i] + Len(s) = last + i
    PROVE  Sorted(s)
<1> SUFFICES ASSUME NEW i \in 1..Len(s), NEW j \in 1..Len(s), i < j
             PROVE  s[i] < s[j]
  BY DEF Sorted
<1>1. s[i] \in Frame /\ s[j] \in Frame /\ Len(s) \in Nat
  BY ElementOfSeq, LenProperties
<1>2. s[i] + Len(s) = last + i /\ s[j] + Len(s) = last + j
  OBVIOUS
<1>3. s[i] \in Nat /\ s[j] \in Nat
  BY <1>1 DEF Frame
<1> QED BY <1>1, <1>2, <1>3

LEMMA FinishEnds ==
    ASSUME NEW frames, NEW u \in Utterance, NEW speech \in Nat, Sorted(u),
           ToSet(u) = Fresh \cup frames, preRoll = <<>>, preRoll' = preRoll,
           FinishUtterance(u, speech)
    PROVE  Ends(frames)
<1>1. active' = <<>> /\ preRoll' = <<>>
  BY DEF FinishUtterance
<1>2. Fresh' = {}
  BY <1>1 DEF Fresh, ToSet
<1>3. \/ snippets' = Append(snippets, u) /\ UNCHANGED gone
      \/ gone' = Giving("blip", ToSet(u)) /\ UNCHANGED snippets
  BY DEF FinishUtterance
<1> QED BY <1>1, <1>2, <1>3 DEF Ends

LEMMA FlushMoves ==
    ASSUME TypeOK, SegmenterInv, Flush
    PROVE  Joins({}) \/ Ends({})
<1>1. CASE active = <<>>
  BY <1>1 DEF Flush, Joins, Fresh
<1>2. CASE active # <<>>
  <2>1. /\ active \in Utterance /\ active \in Seq(Frame) /\ speechFrames \in Nat
        /\ FinishUtterance(active, speechFrames) /\ preRoll' = preRoll
        /\ preRoll = <<>> /\ fed \in Nat
    BY <1>2 DEF Flush, TypeOK, SegmenterTypeOK, TakeTypeOK, Utterance, SegmenterInv, InProgress
  <2>2. Sorted(active)
    BY <2>1, RecentSorted DEF SegmenterInv, Recent
  <2>3. ToSet(active) = Fresh \cup {}
    BY <2>1, ToSetNone DEF Fresh
  <2>4. Ends({})
    BY <2>1, <2>2, <2>3, FinishEnds
  <2> QED BY <2>4
<1> QED BY <1>1, <1>2

LEMMA PushFrameMoves ==
    ASSUME TypeOK, SegmenterInv, fed' = fed + 1, fed + 1 \in Frame, NEW speech \in BOOLEAN,
           PushFrame(fed + 1, speech)
    PROVE  \/ Joins({fed + 1})
           \/ Ends({fed + 1})
           \/ ~speech /\ Ages({fed + 1})
<1> USE TimingTypes
<1> DEFINE frame == fed + 1
<1>0. /\ fed \in Nat /\ preRoll \in Seq(Frame) /\ active \in Seq(Frame)
      /\ speechFrames \in Nat
      /\ Len(preRoll) <= PreRoll /\ Len(preRoll) \in Nat
  BY LenProperties DEF TypeOK, SegmenterTypeOK, TakeTypeOK
<1>1. CASE active # <<>>
  <2> DEFINE u == Append(active, frame)
             spoken == speechFrames + (IF speech THEN 1 ELSE 0)
  <2>1. ContinueUtterance(frame, speech) /\ preRoll = <<>>
    BY <1>1 DEF PushFrame, SegmenterInv, InProgress
  <2>2. u \in Utterance /\ u \in Seq(Frame) /\ spoken \in Nat
    BY <1>0, AppendProperties DEF Utterance
  <2>3. ToSet(u) = Fresh \cup {frame}
    BY <1>0, <2>1, ToSetAppend, ToSetNone DEF Fresh
  <2>4. Sorted(u)
    <3>1. \A i \in 1..Len(u) : u[i] + Len(u) = fed' + i
      BY <1>0, RecentAppend DEF SegmenterInv
    <3>2. fed' \in Nat
      BY <1>0
    <3> HIDE DEF u
    <3> QED BY <2>2, <3>1, <3>2, RecentSorted
  <2>5. \/ FinishUtterance(u, spoken)
        \/ active' = u /\ UNCHANGED <<snippets, gone>>
    BY <2>1 DEF ContinueUtterance
  <2>6. preRoll' = preRoll
    BY <2>1 DEF ContinueUtterance
  <2>7. CASE FinishUtterance(u, spoken)
    <3> HIDE DEF u, spoken
    <3>1. Ends({frame})
      BY <2>1, <2>2, <2>3, <2>4, <2>6, <2>7, FinishEnds
    <3> QED BY <3>1
  <2>8. CASE active' = u /\ UNCHANGED <<snippets, gone>>
    <3>1. Fresh' = Fresh \cup {frame}
      BY <2>1, <2>3, <2>6, <2>8, ToSetNone DEF Fresh
    <3> QED BY <2>6, <2>8, <3>1 DEF Joins
  <2> QED BY <2>5, <2>7, <2>8
<1>2. CASE active = <<>> /\ speech
  <2>1. /\ active' = Append(preRoll, frame) /\ preRoll' = <<>>
        /\ UNCHANGED <<snippets, gone>>
    BY <1>2 DEF PushFrame, BeginUtterance
  <2>2. Fresh' = Fresh \cup {frame}
    BY <1>0, <1>2, <2>1, ToSetAppend, ToSetNone DEF Fresh
  <2> QED BY <2>1, <2>2 DEF Joins
<1>3. CASE active = <<>> /\ ~speech
  <2>1. /\ RememberPreRoll(frame) /\ active' = <<>> /\ UNCHANGED <<snippets, gone>>
    BY <1>3 DEF PushFrame, RememberPreRoll
  <2>2. Fresh = ToSet(preRoll) /\ Fresh' = ToSet(preRoll')
    BY <1>3, <2>1, ToSetNone DEF Fresh
  <2>3. CASE PreRoll = 0
    <3>1. preRoll' = preRoll
      BY <2>1, <2>3 DEF RememberPreRoll
    <3>2. Fresh' = Fresh /\ frame + PreRoll <= fed'
      BY <1>0, <2>2, <2>3, <3>1
    <3> QED BY <1>3, <2>1, <2>2, <3>2 DEF Ages
  <2>4. CASE PreRoll # 0 /\ Len(preRoll) = PreRoll
    <3> DEFINE rest == Tail(preRoll)
    <3>1. preRoll # <<>> /\ rest \in Seq(Frame) /\ Head(preRoll) = preRoll[1]
      BY <1>0, <2>4, EmptySeq, HeadTailProperties
    <3>2. ToSet(preRoll) = {Head(preRoll)} \cup ToSet(rest)
      BY <1>0, <3>1, ToSetSplit
    <3>3. preRoll' = Append(rest, frame)
      BY <2>1, <2>4 DEF RememberPreRoll
    <3> HIDE DEF rest
    <3>4. ToSet(preRoll') = ToSet(rest) \cup {frame}
      BY <3>1, <3>3, ToSetAppend
    <3>5. Head(preRoll) + PreRoll = fed + 1
      <4>1. 1 \in 1..Len(preRoll)
        BY <1>0, <2>4
      <4> QED BY <2>4, <3>1, <4>1 DEF SegmenterInv, Recent
    <3>6. \A g \in (Fresh \cup {frame}) \ Fresh' : g = Head(preRoll)
      BY <2>2, <3>2, <3>4
    <3>7. \A g \in (Fresh \cup {frame}) \ Fresh' : g + PreRoll <= fed'
      BY <1>0, <3>5, <3>6
    <3>8. Fresh' \subseteq Fresh \cup {frame}
      BY <2>2, <3>2, <3>4
    <3> QED BY <1>3, <2>1, <2>2, <3>7, <3>8 DEF Ages
  <2>5. CASE PreRoll # 0 /\ Len(preRoll) # PreRoll
    <3>1. preRoll' = Append(preRoll, frame)
      BY <2>1, <2>5 DEF RememberPreRoll
    <3>2. Fresh' = Fresh \cup {frame}
      BY <1>0, <2>2, <3>1, ToSetAppend
    <3> QED BY <1>3, <2>1, <2>2, <3>2 DEF Ages
  <2> QED BY <1>3, <2>3, <2>4, <2>5
<1> QED BY <1>1, <1>2, <1>3

-----------------------------------------------------------------------------
(* Nothing is skipped. *)

Gone == UNION {gone[r] : r \in Reason}

Accounted == ToSet(recorded) \cup ToSet(merged) \cup FramesOf(snippets) \cup Fresh \cup Gone

LEMMA AccountedIs ==
    ASSUME TypeOK
    PROVE  Accounted = FramesOf(Buffers) \cup Gone
<1> DEFINE first == <<recorded, merged>>
           last == <<active, preRoll>>
<1>1. /\ first \in Seq(Seq(Frame)) /\ last \in Seq(Seq(Frame)) /\ snippets \in Seq(Seq(Frame))
  <2>1. snippets \in Seq(Utterance) /\ Utterance \subseteq Seq(Frame)
    BY DEF TypeOK, SegmenterTypeOK, Utterance
  <2>2. snippets \in Seq(Seq(Frame))
    BY <2>1, SeqMonotonic
  <2> QED BY <2>2 DEF TypeOK, SegmenterTypeOK, TakeTypeOK
<1>2. /\ Len(first) = 2 /\ first[1] = recorded /\ first[2] = merged
      /\ Len(last) = 2 /\ last[1] = active /\ last[2] = preRoll
  OBVIOUS
<1> HIDE DEF first, last
<1>3. ToSet(first) = {recorded, merged} /\ ToSet(last) = {active, preRoll}
  <2>1. ToSet(first) = {first[i] : i \in 1..2} /\ ToSet(last) = {last[i] : i \in 1..2}
    BY <1>1, <1>2, ToSetOf
  <2>2. 1..2 = {1, 2}
    OBVIOUS
  <2> QED BY <1>2, <2>1, <2>2
<1>4. first \o snippets \in Seq(Seq(Frame)) /\ Buffers = (first \o snippets) \o last
  BY <1>1, ConcatProperties DEF Buffers, first, last
<1>5. ToSet(Buffers) = {recorded, merged} \cup ToSet(snippets) \cup {active, preRoll}
  <2>1. ToSet(first \o snippets) = ToSet(first) \cup ToSet(snippets)
    BY <1>1, ToSetConcat
  <2> DEFINE most == first \o snippets
  <2>2. ToSet(Buffers) = ToSet(most) \cup ToSet(last)
    <3>1. most \in Seq(Seq(Frame)) /\ Buffers = most \o last
      BY <1>4
    <3> HIDE DEF most
    <3> QED BY <1>1, <3>1, ToSetConcat
  <2> QED BY <1>3, <2>1, <2>2
<1> QED BY <1>5 DEF Accounted, FramesOf, Fresh

(* Every frame that is spoken, or young enough to be the pre-roll of what  *)
(* is spoken next, is accounted for, and the pre-roll is younger than all  *)
(* that was spoken.                                                        *)
SkipInv ==
    /\ surface = "continuous" /\ stopping = "no" => merged = <<>>
    /\ \A f \in said : f <= fed
    /\ \A f \in said, g \in ToSet(preRoll) : f < g
    /\ \A f \in said : \A g \in 1..f : g + PreRoll >= f => g \in Accounted
    /\ \A g \in 1..fed : g + PreRoll > fed => g \in Accounted

LEMMA GivingGives ==
    ASSUME gone \in [Reason -> SUBSET Frame], NEW reason \in Reason,
           NEW frames \in SUBSET Frame, gone' = Giving(reason, frames)
    PROVE  Gone' = Gone \cup frames
<1>1. \A r \in Reason : gone'[r] = IF r = reason THEN gone[r] \cup frames ELSE gone[r]
  BY DEF Giving
<1> QED BY <1>1 DEF Gone

LEMMA SegmenterAccounts ==
    ASSUME TypeOK, NEW frames, Joins(frames) \/ Ends(frames), UNCHANGED <<recorded, merged>>
    PROVE  Accounted \cup frames \subseteq Accounted'
<1>0. snippets \in Seq(Utterance) /\ gone \in [Reason -> SUBSET Frame] /\ "blip" \in Reason
  BY DEF TypeOK, SegmenterTypeOK, Reason
<1>1. CASE Joins(frames)
  BY <1>1 DEF Joins, Accounted, Gone
<1>2. CASE Ends(frames)
  <2>1. PICK u \in Utterance :
            /\ ToSet(u) = Fresh \cup frames
            /\ \/ snippets' = Append(snippets, u) /\ UNCHANGED gone
               \/ gone' = Giving("blip", ToSet(u)) /\ UNCHANGED snippets
    BY <1>2 DEF Ends
  <2>2. CASE snippets' = Append(snippets, u) /\ UNCHANGED gone
    <3>1. FramesOf(snippets') = FramesOf(snippets) \cup ToSet(u)
      BY <1>0, <2>2, FramesAppend
    <3> QED BY <2>1, <2>2, <3>1 DEF Accounted, Gone
  <2>3. CASE gone' = Giving("blip", ToSet(u)) /\ UNCHANGED snippets
    <3>1. ToSet(u) \in SUBSET Frame
      BY FramesOfSeq DEF Utterance
    <3>2. Gone' = Gone \cup ToSet(u)
      BY <1>0, <2>3, <3>1, GivingGives
    <3> QED BY <2>1, <2>3, <3>2 DEF Accounted
  <2> QED BY <2>1, <2>2, <2>3
<1> QED BY <1>1, <1>2

(* A step that takes in no frame and loses none. *)
LEMMA SkipStays ==
    ASSUME SkipInv, fed' = fed, said' \in {said, {}},
           preRoll' \in {preRoll, <<>>},
           Accounted \subseteq Accounted',
           (surface = "continuous" /\ stopping = "no" => merged = <<>>)'
    PROVE  SkipInv'
<1>1. ToSet(preRoll') \subseteq ToSet(preRoll)
  BY ToSetNone
<1> QED BY <1>1 DEF SkipInv

(* Folding moves a snippet, and finalizing moves the phrase, to where it   *)
(* is accounted for.                                                       *)
LEMMA FoldSnippetAccounts ==
    ASSUME TypeOK, NEW decoded \in Decoded, FoldSnippet(decoded)
    PROVE  Accounted \subseteq Accounted'
<1>0. /\ snippets \in Seq(Utterance) /\ gone \in [Reason -> SUBSET Frame]
      /\ merged \in Seq(Frame) /\ "undecoded" \in Reason
      /\ snippets # <<>> /\ snippets' = Tail(snippets)
      /\ recorded' = recorded /\ Fresh' = Fresh
  BY DEF FoldSnippet, segmenterVars, TypeOK, SegmenterTypeOK, TakeTypeOK, Reason, Fresh
<1>1. FramesOf(snippets) = ToSet(Snippet) \cup FramesOf(snippets')
  BY <1>0, FramesSplit DEF Snippet
<1>2. CASE Fails(decoded)
  <2>1. merged' = merged /\ gone' = Giving("undecoded", ToSet(Snippet))
    BY <1>2 DEF FoldSnippet, MergedWith
  <2>2. Gone' = Gone \cup ToSet(Snippet)
    BY <1>0, <2>1, GivingGives, NextSnippet
  <2> QED BY <1>0, <1>1, <2>1, <2>2 DEF Accounted
<1>3. CASE ~Fails(decoded)
  <2>1. merged' = merged \o Snippet /\ Gone' = Gone
    BY <1>3 DEF FoldSnippet, MergedWith, Gone
  <2>2. ToSet(merged') = ToSet(merged) \cup ToSet(Snippet)
    BY <1>0, <2>1, ToSetConcat, NextSnippet
  <2> QED BY <1>0, <1>1, <2>1, <2>2 DEF Accounted
<1> QED BY <1>2, <1>3

LEMMA FoldPhraseAccounts ==
    ASSUME TypeOK, SkipInv, NEW decoded \in Decoded, NEW whole \in Decoded,
           NEW saved \in BOOLEAN, FoldPhrase(decoded, whole, saved)
    PROVE  Accounted \subseteq Accounted'
<1> DEFINE audio == MergedWith(decoded)
           previews == PreviewedWith(decoded)
<1>0. /\ snippets \in Seq(Utterance) /\ gone \in [Reason -> SUBSET Frame]
      /\ recorded \in Seq(Frame) /\ Reason = {"blip", "undecoded", "noise", "unsaved"}
      /\ snippets # <<>> /\ Fresh' = Fresh /\ merged = <<>>
  BY DEF FoldPhrase, segmenterVars, TypeOK, SegmenterTypeOK, TakeTypeOK, Reason, Fresh, SkipInv
<1>1. FramesOf(snippets) = ToSet(Snippet) \cup FramesOf(Tail(snippets))
  BY <1>0, FramesSplit DEF Snippet
<1>2. merged \o Snippet = Snippet /\ ToSet(Snippet) \in SUBSET Frame /\ ToSet(merged) = {}
  BY <1>0, NextSnippet, ConcatEmptySeq, ToSetNone
<1>3. CASE Silent(audio, previews, whole)
  <2>1. /\ \E reason \in {"undecoded", "noise"} : gone' = Giving(reason, ToSet(merged \o Snippet))
        /\ snippets' = Tail(snippets) /\ recorded' = recorded
    BY <1>3 DEF FoldPhrase
  <2>2. Gone' = Gone \cup ToSet(Snippet)
    BY <1>0, <1>2, <2>1, GivingGives
  <2> QED BY <1>0, <1>1, <1>2, <2>1, <2>2 DEF Accounted
<1>4. CASE ~Silent(audio, previews, whole)
  <2>1. audio = Snippet
    BY <1>0, <1>2, <1>4 DEF MergedWith, Silent
  <2>2. PhraseCommitted(audio, PreeditWith(decoded), saved)
    BY <1>4 DEF FoldPhrase
  <2> HIDE DEF audio
  <2>3. CASE saved
    <3>1. recorded' = recorded \o Snippet /\ snippets' = Tail(snippets) /\ gone' = gone
      BY <2>1, <2>2, <2>3 DEF PhraseCommitted
    <3>2. ToSet(recorded') = ToSet(recorded) \cup ToSet(Snippet)
      BY <1>0, <3>1, ToSetConcat, NextSnippet
    <3> QED BY <1>0, <1>1, <1>2, <3>1, <3>2 DEF Accounted, Gone
  <2>4. CASE ~saved
    <3>1. /\ gone' = Giving("unsaved", ToSet(Snippet) \cup FramesOf(Tail(snippets)))
          /\ recorded' = recorded
      BY <2>1, <2>2, <2>4 DEF PhraseCommitted
    <3>2. Gone' = Gone \cup (ToSet(Snippet) \cup FramesOf(Tail(snippets)))
      BY <1>0, <1>2, <3>1, GivingGives, NextSnippet, FramesOfUtterances
    <3> QED BY <1>0, <1>1, <1>2, <3>1, <3>2 DEF Accounted
  <2> QED BY <2>3, <2>4
<1> QED BY <1>3, <1>4

LEMMA FinalizeAccounts ==
    ASSUME TypeOK, NEW whole \in Decoded, NEW saved \in BOOLEAN, Finalize(whole, saved)
    PROVE  Accounted \subseteq Accounted'
<1>0. /\ gone \in [Reason -> SUBSET Frame] /\ merged \in Seq(Frame)
      /\ recorded \in Seq(Frame) /\ Reason = {"blip", "undecoded", "noise", "unsaved"}
      /\ snippets' = snippets /\ Fresh' = Fresh
  BY DEF Finalize, segmenterVars, TypeOK, SegmenterTypeOK, TakeTypeOK, Reason, Fresh
<1>1. \/ recorded' = recorded \o merged /\ gone' = gone
      \/ /\ \E reason \in {"noise", "unsaved"} : gone' = Giving(reason, ToSet(merged))
         /\ recorded' = recorded
  BY DEF Finalize
<1>2. CASE recorded' = recorded \o merged /\ gone' = gone
  <2>1. ToSet(recorded') = ToSet(recorded) \cup ToSet(merged)
    BY <1>0, <1>2, ToSetConcat
  <2> QED BY <1>0, <1>2, <2>1 DEF Accounted, Gone
<1>3. CASE /\ \E reason \in {"noise", "unsaved"} : gone' = Giving(reason, ToSet(merged))
           /\ recorded' = recorded
  <2>1. Gone' = Gone \cup ToSet(merged)
    BY <1>0, <1>3, GivingGives, FramesOfSeq
  <2> QED BY <1>0, <1>3, <2>1 DEF Accounted
<1> QED BY <1>1, <1>2, <1>3

LEMMA IngestSkipsNothing ==
    ASSUME TypeOK, SegmenterInv, SkipInv, NEW speech \in BOOLEAN, Ingest(speech)
    PROVE  SkipInv'
<1> DEFINE frame == fed + 1
<1>0. /\ fed \in Nat /\ fed' = frame /\ PreRoll \in Nat /\ \A f \in said : f \in Nat
      /\ said' = IF speech THEN said \cup {frame} ELSE said
      /\ UNCHANGED <<surface, stopping, merged, recorded>>
  BY TimingTypes DEF Ingest, takeVars, TypeOK, TakeTypeOK, Frame
<1>1. \/ Joins({frame}) \/ Ends({frame})
      \/ ~speech /\ Ages({frame})
  <2>1. frame \in Frame
    BY TimingTypes DEF Ingest, TypeOK, TakeTypeOK, Frame
  <2> QED BY <2>1, PushFrameMoves DEF Ingest
<1>2. \A f \in said' : f <= fed'
  BY <1>0 DEF SkipInv
<1>3. surface' = "continuous" /\ stopping' = "no" => merged' = <<>>
  BY <1>0 DEF SkipInv
<1>4. CASE Joins({frame}) \/ Ends({frame})
  <2>1. Accounted \cup {frame} \subseteq Accounted'
    BY <1>0, <1>4, SegmenterAccounts
  <2>2. \A f \in said', g \in ToSet(preRoll') : f < g
    <3>1. CASE preRoll' = <<>>
      BY <3>1, ToSetNone
    <3>2. CASE preRoll' = preRoll /\ ~speech
      BY <1>0, <3>2 DEF SkipInv
    <3>3. CASE speech
      <4>1. preRoll' = <<>>
        <5>1. PushFrame(frame, speech)
          BY DEF Ingest
        <5> QED BY <3>3, <5>1 DEF PushFrame, ContinueUtterance, BeginUtterance,
                                   SegmenterInv, InProgress
      <4> QED BY <4>1, ToSetNone
    <3>4. preRoll' \in {preRoll, <<>>}
      BY <1>4 DEF Joins, Ends
    <3> QED BY <3>1, <3>2, <3>3, <3>4
  <2>3. ASSUME NEW g \in 1..fed', g + PreRoll > fed' PROVE g \in Accounted'
    <3>1. CASE g = frame
      BY <2>1, <3>1
    <3>2. CASE g # frame
      <4>1. g \in 1..fed /\ g + PreRoll > fed
        BY <1>0, <2>3, <3>2
      <4> QED BY <2>1, <4>1 DEF SkipInv
    <3> QED BY <3>1, <3>2
  <2>4. ASSUME NEW f \in said', NEW g \in 1..f, g + PreRoll >= f PROVE g \in Accounted'
    <3>1. CASE f \in said
      BY <2>1, <2>4, <3>1 DEF SkipInv
    <3>2. CASE f = frame /\ g = frame
      BY <2>1, <3>2
    <3>3. CASE f = frame /\ g # frame
      <4>1. g \in 1..fed /\ g + PreRoll > fed
        BY <1>0, <2>4, <3>3
      <4> QED BY <2>1, <4>1 DEF SkipInv
    <3> QED BY <1>0, <3>1, <3>2, <3>3
  <2> QED BY <1>2, <1>3, <2>2, <2>3, <2>4 DEF SkipInv
<1>5. CASE ~speech /\ Ages({frame})
  <2>1. /\ active = <<>> /\ Fresh = ToSet(preRoll) /\ Fresh' = ToSet(preRoll')
        /\ Fresh' \subseteq Fresh \cup {frame}
        /\ \A g \in (Fresh \cup {frame}) \ Fresh' : g + PreRoll <= fed'
        /\ snippets' = snippets /\ gone' = gone /\ said' = said
    BY <1>0, <1>5, ToSetNone DEF Ages, Fresh
  <2>2. Accounted \ (Fresh \ Fresh') \subseteq Accounted' /\ Fresh' \subseteq Accounted'
    BY <1>0, <2>1 DEF Accounted, Gone
  <2>3. \A f \in said', g \in ToSet(preRoll') : f < g
    BY <1>0, <2>1 DEF SkipInv
  <2>4. ASSUME NEW g \in 1..fed', g + PreRoll > fed' PROVE g \in Accounted'
    <3>1. g \notin (Fresh \cup {frame}) \ Fresh'
      BY <1>0, <2>1, <2>4
    <3>2. CASE g = frame
      BY <2>2, <3>1, <3>2
    <3>3. CASE g # frame
      <4>1. g \in 1..fed /\ g + PreRoll > fed
        BY <1>0, <2>4, <3>3
      <4>2. g \in Accounted
        BY <4>1 DEF SkipInv
      <4> QED BY <2>2, <3>1, <4>2
    <3> QED BY <3>2, <3>3
  <2>5. ASSUME NEW f \in said', NEW g \in 1..f, g + PreRoll >= f PROVE g \in Accounted'
    <3>1. f \in said /\ f \in Nat
      BY <1>0, <2>1
    <3>2. g \in Accounted
      BY <2>5, <3>1 DEF SkipInv
    <3>3. g \notin Fresh
      BY <2>1, <3>1 DEF SkipInv
    <3> QED BY <2>2, <3>2, <3>3
  <2> QED BY <1>2, <1>3, <2>3, <2>4, <2>5 DEF SkipInv
<1> QED BY <1>1, <1>4, <1>5

LEMMA SkipStep == TypeOK /\ SegmenterInv /\ SkipInv /\ [Next]_vars => SkipInv'
<1> SUFFICES ASSUME TypeOK, SegmenterInv, SkipInv, [Next]_vars PROVE SkipInv'
  OBVIOUS
<1>1. ASSUME UNCHANGED <<segmenterVars, snippets, merged, recorded, gone>>
      PROVE  Accounted' = Accounted
  BY <1>1 DEF segmenterVars, Accounted, Fresh, Gone
<1>2. ASSUME Flush, UNCHANGED <<merged, recorded>>
      PROVE  Accounted \subseteq Accounted' /\ preRoll' = preRoll
  <2>1. Joins({}) \/ Ends({})
    BY <1>2, FlushMoves
  <2>2. Accounted \subseteq Accounted'
    BY <1>2, <2>1, SegmenterAccounts
  <2>3. preRoll' = preRoll
    BY <1>2 DEF Flush
  <2> QED BY <2>2, <2>3
<1>3. CASE DrainEnds
  <2>1. /\ UNCHANGED <<surface, stopping, fed, said, merged, recorded>>
        /\ UNCHANGED <<segmenterVars, snippets, gone>> \/ Flush
    BY <1>3 DEF DrainEnds, takeVars
  <2>2. Accounted \subseteq Accounted' /\ preRoll' = preRoll
    BY <1>1, <1>2, <2>1 DEF segmenterVars
  <2> QED BY <2>1, <2>2, SkipStays DEF SkipInv
<1>4. ASSUME NEW decoded \in Decoded, FoldSnippet(decoded) PROVE SkipInv'
  <2>1. /\ UNCHANGED <<surface, stopping, fed, said, preRoll>>
        /\ surface # "continuous" \/ stopping # "no"
    BY <1>4 DEF FoldSnippet, segmenterVars
  <2> QED BY <1>4, <2>1, FoldSnippetAccounts, SkipStays
<1>5. ASSUME NEW decoded \in Decoded, NEW whole \in Decoded, NEW saved \in BOOLEAN,
             FoldPhrase(decoded, whole, saved)
      PROVE  SkipInv'
  <2>1. UNCHANGED <<fed, said, preRoll>> /\ merged' = <<>>
    BY <1>5 DEF FoldPhrase, NextPhrase, segmenterVars
  <2> QED BY <1>5, <2>1, FoldPhraseAccounts, SkipStays
<1>6. ASSUME NEW whole \in Decoded, NEW saved \in BOOLEAN, Finalize(whole, saved)
      PROVE  SkipInv'
  <2>1. UNCHANGED <<fed, said, preRoll>> /\ merged' = <<>>
    BY <1>6 DEF Finalize, NextPhrase, segmenterVars
  <2> QED BY <1>6, <2>1, FinalizeAccounts, SkipStays
<1>7. CASE Stop
  <2>1. /\ UNCHANGED <<fed, said, merged, recorded>> /\ stopping' = "asked"
        /\ UNCHANGED <<segmenterVars, snippets, gone>> \/ Flush
    BY <1>7 DEF Stop, takeVars
  <2>2. Accounted \subseteq Accounted' /\ preRoll' = preRoll
    BY <1>1, <1>2, <2>1 DEF segmenterVars
  <2> QED BY <2>1, <2>2, SkipStays
<1>8. CASE DrainFolded \/ Drop \/ UNCHANGED vars
  <2>1. /\ UNCHANGED <<surface, fed, segmenterVars, snippets, merged, recorded, gone>>
        /\ said' \in {said, {}}
        /\ stopping' = "no" => stopping = "no"
    BY <1>8 DEF DrainFolded, Drop, vars, takeVars
  <2>2. Accounted' = Accounted /\ preRoll' = preRoll
    BY <1>1, <2>1 DEF segmenterVars
  <2>3. surface' = "continuous" /\ stopping' = "no" => merged' = <<>>
    BY <2>1 DEF SkipInv
  <2>4. fed' = fed /\ said' \in {said, {}}
    BY <2>1
  <2> QED BY <2>2, <2>3, <2>4, SkipStays
<1> QED
  BY <1>3, <1>4, <1>5, <1>6, <1>7, <1>8, IngestSkipsNothing DEF Next, Over

(* Every frame with speech, and the pre-roll in front of it, is kept or    *)
(* was given up for one of the four reasons: through the segmenter's       *)
(* buffers, the folding, the phrases of continuous mode and the last flush *)
(* nothing falls between two owners (segmentation.rs:141, lib.rs:801).     *)
THEOREM RecordComplete == Spec => []NothingSkipped
<1>1. Init => SkipInv
  BY DEF Init, SkipInv
<1>2. TypeOK /\ SkipInv => NothingSkipped
  BY AccountedIs DEF SkipInv, NothingSkipped, Gone
<1> QED
  BY <1>1, <1>2, InitType, TypeStep, SegmenterStart, SegmenterStep, SkipStep, PTL DEF Spec

-----------------------------------------------------------------------------
(* The order of the frames. *)

(* What is folded: the recordings, and the phrase that will be the next.   *)
Done == recorded \o merged

DoneSorted == Sorted(Done)

DoneFirst ==
    \A x \in ToSet(Done) : x <= fed /\ \A y \in FramesOf(snippets) \cup Fresh : x < y

SnippetsSorted ==
    \A i \in 1..Len(snippets) :
        /\ Sorted(snippets[i])
        /\ \A x \in ToSet(snippets[i]) : x <= fed /\ \A y \in Fresh : x < y

SnippetsInTurn ==
    \A i, j \in 1..Len(snippets) :
        i < j => \A x \in ToSet(snippets[i]), y \in ToSet(snippets[j]) : x < y

OrderInv == DoneSorted /\ DoneFirst /\ SnippetsSorted /\ SnippetsInTurn

LEMMA SortedConcat ==
    ASSUME NEW s \in Seq(Frame), NEW t \in Seq(Frame), Sorted(s), Sorted(t),
           \A x \in ToSet(s), y \in ToSet(t) : x < y
    PROVE  Sorted(s \o t)
<1> DEFINE u == s \o t
<1>1. /\ Len(u) = Len(s) + Len(t) /\ Len(s) \in Nat /\ Len(t) \in Nat
      /\ \A i \in 1..Len(s) + Len(t) :
            u[i] = IF i <= Len(s) THEN s[i] ELSE t[i - Len(s)]
  BY ConcatProperties, LenProperties
<1>2. /\ ToSet(s) = {s[i] : i \in 1..Len(s)}
      /\ ToSet(t) = {t[i] : i \in 1..Len(t)}
  BY ToSetOf
<1> HIDE DEF u
<1>3. ASSUME NEW i \in 1..Len(u), NEW j \in 1..Len(u), i < j
      PROVE  u[i] < u[j]
  <2>1. CASE j <= Len(s)
    <3>1. i \in 1..Len(s) /\ j \in 1..Len(s) /\ u[i] = s[i] /\ u[j] = s[j]
      BY <1>1, <1>3, <2>1
    <3> QED BY <1>3, <3>1 DEF Sorted
  <2>2. CASE i <= Len(s) /\ j > Len(s)
    <3>1. i \in 1..Len(s) /\ u[i] = s[i]
      BY <1>1, <2>2
    <3>2. j - Len(s) \in 1..Len(t) /\ u[j] = t[j - Len(s)]
      BY <1>1, <2>2
    <3>3. u[i] \in ToSet(s) /\ u[j] \in ToSet(t)
      BY <1>2, <3>1, <3>2
    <3> QED BY <3>3
  <2>3. CASE i > Len(s)
    <3> DEFINE k == i - Len(s)
               l == j - Len(s)
    <3>1. k \in 1..Len(t) /\ l \in 1..Len(t) /\ k < l
      BY <1>1, <1>3, <2>3
    <3>2. u[i] = t[k] /\ u[j] = t[l]
      BY <1>1, <1>3, <2>3
    <3> HIDE DEF k, l
    <3> QED BY <3>1, <3>2 DEF Sorted
  <2> QED BY <1>1, <2>1, <2>2, <2>3
<1> QED BY <1>3 DEF Sorted, u

LEMMA SortedParts ==
    ASSUME NEW s \in Seq(Frame), NEW t \in Seq(Frame), Sorted(s \o t)
    PROVE  Sorted(s) /\ Sorted(t) /\ \A x \in ToSet(s), y \in ToSet(t) : x < y
<1> DEFINE u == s \o t
<1>1. /\ Len(u) = Len(s) + Len(t) /\ Len(s) \in Nat /\ Len(t) \in Nat
      /\ \A i \in 1..Len(s) + Len(t) :
            u[i] = IF i <= Len(s) THEN s[i] ELSE t[i - Len(s)]
  BY ConcatProperties, LenProperties
<1>2. /\ ToSet(s) = {s[i] : i \in 1..Len(s)}
      /\ ToSet(t) = {t[i] : i \in 1..Len(t)}
  BY ToSetOf
<1>3. \A i, j \in 1..Len(u) : i < j => u[i] < u[j]
  BY DEF Sorted
<1> HIDE DEF u
<1>4. \A i \in 1..Len(s) : i \in 1..Len(u) /\ u[i] = s[i]
  BY <1>1
<1>5. ASSUME NEW i \in 1..Len(t)
      PROVE  i + Len(s) \in 1..Len(u) /\ u[i + Len(s)] = t[i]
  <2> DEFINE j == i + Len(s)
  <2>1. j \in 1..Len(s) + Len(t) /\ ~(j <= Len(s)) /\ j - Len(s) = i
    BY <1>1
  <2> HIDE DEF j
  <2>2. j \in 1..Len(u) /\ u[j] = t[i]
    BY <1>1, <2>1
  <2> QED BY <2>2 DEF j
<1>6. Sorted(s)
  BY <1>3, <1>4 DEF Sorted
<1>7. Sorted(t)
  <2> SUFFICES ASSUME NEW i \in 1..Len(t), NEW j \in 1..Len(t), i < j PROVE t[i] < t[j]
    BY DEF Sorted
  <2>1. i + Len(s) < j + Len(s)
    BY <1>1
  <2> QED BY <1>3, <1>5, <2>1
<1>8. ASSUME NEW i \in 1..Len(s), NEW j \in 1..Len(t) PROVE s[i] < t[j]
  <2>1. i < j + Len(s)
    BY <1>1
  <2> QED BY <1>3, <1>4, <1>5, <2>1
<1>9. \A x \in ToSet(s), y \in ToSet(t) : x < y
  BY <1>2, <1>8
<1> QED BY <1>6, <1>7, <1>9

(* Fresh frames are the frames fed last. *)
LEMMA FreshFed ==
    ASSUME TypeOK, SegmenterInv
    PROVE  \A x \in Fresh : x \in Nat /\ x <= fed
<1>1. ASSUME NEW s \in Seq(Frame), Recent(s), NEW x \in ToSet(s)
      PROVE  x \in Nat /\ x <= fed
  <2>1. PICK i \in 1..Len(s) : x = s[i]
    BY ToSetOf
  <2>2. x \in Frame /\ Len(s) \in Nat /\ fed \in Nat /\ x + Len(s) = fed + i
    BY <1>1, <2>1, ElementOfSeq, LenProperties DEF Recent, TypeOK, TakeTypeOK
  <2>3. x \in Nat
    BY <2>2 DEF Frame
  <2> QED BY <2>2, <2>3
<1> QED BY <1>1 DEF Fresh, SegmenterInv, TypeOK, SegmenterTypeOK

LEMMA OrderTypes ==
    ASSUME TypeOK
    PROVE  /\ Done \in Seq(Frame) /\ recorded \in Seq(Frame) /\ merged \in Seq(Frame)
           /\ snippets \in Seq(Utterance) /\ Len(snippets) \in Nat
           /\ \A i \in 1..Len(snippets) : snippets[i] \in Seq(Frame)
           /\ fed \in Nat
           /\ \A x \in ToSet(Done) \cup FramesOf(snippets) \cup Fresh : x \in Nat
<1>1. /\ recorded \in Seq(Frame) /\ merged \in Seq(Frame) /\ snippets \in Seq(Utterance)
      /\ active \in Seq(Frame) /\ preRoll \in Seq(Frame) /\ fed \in Nat
  BY DEF TypeOK, SegmenterTypeOK, TakeTypeOK
<1>2. Done \in Seq(Frame)
  BY <1>1, ConcatProperties DEF Done
<1>3. Len(snippets) \in Nat /\ \A i \in 1..Len(snippets) : snippets[i] \in Utterance
  BY <1>1, ElementOfSeq, LenProperties
<1>4. \A i \in 1..Len(snippets) : snippets[i] \in Seq(Frame)
  BY <1>3 DEF Utterance
<1>5. ToSet(Done) \cup FramesOf(snippets) \cup Fresh \subseteq Frame
  BY <1>1, <1>2, FramesOfSeq, FramesOfUtterances DEF Fresh
<1>6. \A x \in ToSet(Done) \cup FramesOf(snippets) \cup Fresh : x \in Nat
  BY <1>5 DEF Frame
<1> QED BY <1>1, <1>2, <1>3, <1>4, <1>6

LEMMA FramesIn ==
    ASSUME NEW s \in Seq(Utterance)
    PROVE  /\ \A i \in 1..Len(s) : ToSet(s[i]) \subseteq FramesOf(s)
           /\ \A x \in FramesOf(s) : \E i \in 1..Len(s) : x \in ToSet(s[i])
<1>1. ToSet(s) = {s[i] : i \in 1..Len(s)}
  BY ToSetOf
<1> QED BY <1>1 DEF FramesOf

(* Frames that come in are behind everything that was fed before. *)
LEMMA FreshOrdered ==
    ASSUME TypeOK, OrderInv, NEW frames \in SUBSET Nat, fed' \in Nat, fed <= fed',
           \A y \in frames : fed < y,
           Fresh' \subseteq Fresh \cup frames, UNCHANGED <<snippets, recorded, merged>>
    PROVE  OrderInv'
<1>1. fed \in Nat /\ \A x \in ToSet(Done) \cup FramesOf(snippets) \cup Fresh : x \in Nat
  BY OrderTypes
<1>2. Done' = Done /\ snippets' = snippets
  BY DEF Done
<1>3. DoneSorted' /\ SnippetsInTurn'
  BY <1>2 DEF OrderInv, DoneSorted, SnippetsInTurn
<1>4. ASSUME NEW x \in Nat, x <= fed, \A y \in Fresh : x < y
      PROVE  x <= fed' /\ \A y \in Fresh' : x < y
  <2>1. x <= fed'
    BY <1>1, <1>4
  <2>2. \A y \in frames : x < y
    BY <1>1, <1>4
  <2> QED BY <1>4, <2>1, <2>2
<1>5. DoneFirst'
  <2> SUFFICES ASSUME NEW x \in ToSet(Done)
               PROVE  x <= fed' /\ \A y \in FramesOf(snippets) \cup Fresh' : x < y
    BY <1>2 DEF DoneFirst
  <2>1. x \in Nat /\ x <= fed /\ \A y \in FramesOf(snippets) \cup Fresh : x < y
    BY <1>1 DEF OrderInv, DoneFirst
  <2> QED BY <1>4, <2>1
<1>6. SnippetsSorted'
  <2> SUFFICES ASSUME NEW i \in 1..Len(snippets)
               PROVE  /\ Sorted(snippets[i])
                      /\ \A x \in ToSet(snippets[i]) : x <= fed' /\ \A y \in Fresh' : x < y
    BY <1>2 DEF SnippetsSorted, Sorted
  <2>1. \A x \in ToSet(snippets[i]) : x \in Nat
    BY <1>1, OrderTypes, FramesIn
  <2>2. Sorted(snippets[i])
    BY DEF OrderInv, SnippetsSorted
  <2>3. ASSUME NEW x \in ToSet(snippets[i])
        PROVE  x <= fed' /\ \A y \in Fresh' : x < y
    <3>1. x <= fed /\ \A y \in Fresh : x < y
      BY DEF OrderInv, SnippetsSorted
    <3> QED BY <1>4, <2>1, <3>1
  <2> QED BY <2>2, <2>3
<1> QED BY <1>3, <1>5, <1>6 DEF OrderInv

(* A snippet is behind all that was handed over before. *)
LEMMA EndsOrdered ==
    ASSUME TypeOK, SegmenterInv, OrderInv, NEW frames \in SUBSET Nat,
           fed' \in Nat, fed <= fed',
           \A y \in frames : fed < y /\ y <= fed',
           Ends(frames), UNCHANGED <<recorded, merged>>
    PROVE  OrderInv'
<1>1. PICK u \in Utterance :
        /\ Sorted(u) /\ ToSet(u) = Fresh \cup frames /\ Fresh' = {}
        /\ snippets' = Append(snippets, u) \/ UNCHANGED snippets
  BY DEF Ends
<1>2. CASE UNCHANGED snippets
  BY <1>1, <1>2, FreshOrdered
<1>3. CASE snippets' = Append(snippets, u)
  <2>0. /\ fed \in Nat /\ snippets \in Seq(Utterance) /\ Len(snippets) \in Nat
        /\ \A x \in ToSet(Done) \cup FramesOf(snippets) \cup Fresh : x \in Nat
    BY OrderTypes
  <2>1. /\ Len(snippets') = Len(snippets) + 1
        /\ \A i \in 1..Len(snippets) : snippets'[i] = snippets[i]
        /\ snippets'[Len(snippets) + 1] = u
        /\ FramesOf(snippets') = FramesOf(snippets) \cup ToSet(u)
    BY <1>3, <2>0, AppendProperties, FramesAppend
  <2>2. \A y \in ToSet(u) : y \in Nat /\ y <= fed'
    <3>1. \A y \in Fresh : y \in Nat /\ y <= fed'
      BY <2>0, FreshFed
    <3> QED BY <1>1, <3>1
  <2>3. \A i \in 1..Len(snippets) : ToSet(snippets[i]) \subseteq FramesOf(snippets)
    BY <2>0, FramesIn
  <2>4. Done' = Done /\ DoneSorted'
    BY DEF Done, OrderInv, DoneSorted
  <2>5. DoneFirst'
    <3> SUFFICES ASSUME NEW x \in ToSet(Done)
                 PROVE  x <= fed' /\ \A y \in FramesOf(snippets) \cup ToSet(u) : x < y
      BY <1>1, <2>1, <2>4 DEF DoneFirst
    <3>1. x \in Nat /\ x <= fed /\ \A y \in FramesOf(snippets) \cup Fresh : x < y
      BY <2>0 DEF OrderInv, DoneFirst
    <3>2. x <= fed' /\ \A y \in frames : x < y
      BY <2>0, <3>1
    <3> QED BY <1>1, <3>1, <3>2
  <2>6. SnippetsSorted'
    <3> SUFFICES ASSUME NEW i \in 1..Len(snippets')
                 PROVE  Sorted(snippets'[i]) /\ \A x \in ToSet(snippets'[i]) : x <= fed'
      BY <1>1 DEF SnippetsSorted, Sorted
    <3>1. CASE i = Len(snippets) + 1
      BY <1>1, <2>1, <2>2, <3>1
    <3>2. CASE i \in 1..Len(snippets)
      <4>1. /\ Sorted(snippets[i])
            /\ \A x \in ToSet(snippets[i]) : x \in Nat /\ x <= fed
        BY <2>0, <2>3, <3>2 DEF OrderInv, SnippetsSorted
      <4>2. \A x \in ToSet(snippets[i]) : x <= fed'
        BY <2>0, <4>1
      <4> QED BY <2>1, <3>2, <4>1, <4>2
    <3> QED BY <2>0, <2>1, <3>1, <3>2
  <2>7. SnippetsInTurn'
    <3> SUFFICES ASSUME NEW i \in 1..Len(snippets'), NEW j \in 1..Len(snippets'), i < j,
                        NEW x \in ToSet(snippets'[i]), NEW y \in ToSet(snippets'[j])
                 PROVE  x < y
      BY DEF SnippetsInTurn
    <3>1. i \in 1..Len(snippets) /\ x \in ToSet(snippets[i]) /\ x \in Nat /\ x <= fed
      <4>1. i \in 1..Len(snippets)
        BY <2>0, <2>1
      <4> QED BY <2>0, <2>1, <2>3, <4>1 DEF OrderInv, SnippetsSorted
    <3>2. CASE j \in 1..Len(snippets)
      BY <2>1, <3>1, <3>2 DEF OrderInv, SnippetsInTurn
    <3>3. CASE j = Len(snippets) + 1
      <4>1. y \in Fresh \cup frames
        BY <1>1, <2>1, <3>3
      <4>2. CASE y \in Fresh
        BY <3>1, <4>2 DEF OrderInv, SnippetsSorted
      <4>3. CASE y \in frames
        <5>1. y \in Nat /\ fed < y
          BY <4>3
        <5> QED BY <2>0, <3>1, <5>1
      <4> QED BY <4>1, <4>2, <4>3
    <3> QED BY <2>0, <2>1, <3>2, <3>3
  <2> QED BY <2>4, <2>5, <2>6, <2>7 DEF OrderInv
<1> QED BY <1>1, <1>2, <1>3

(* The snippet that is folded comes before those that are not. *)
LEMMA NextOrdered ==
    ASSUME TypeOK, OrderInv, snippets # <<>>, snippets' = Tail(snippets),
           fed' = fed, Fresh' = Fresh
    PROVE  /\ Sorted(Snippet)
           /\ \A x \in ToSet(Snippet) :
                x <= fed /\ \A y \in FramesOf(snippets') \cup Fresh' : x < y
           /\ FramesOf(snippets) = ToSet(Snippet) \cup FramesOf(snippets')
           /\ SnippetsSorted' /\ SnippetsInTurn'
<1>1. snippets \in Seq(Utterance) /\ Len(snippets) \in Nat \ {0}
  BY OrderTypes, EmptySeq
<1>2. /\ snippets' \in Seq(Utterance) /\ Len(snippets') = Len(snippets) - 1
      /\ \A i \in 1..Len(snippets') : snippets'[i] = snippets[i + 1]
      /\ Snippet = snippets[1]
  BY <1>1, HeadTailProperties DEF Snippet
<1>3. \A i \in 1..Len(snippets') : i + 1 \in 1..Len(snippets) /\ 1 < i + 1
  BY <1>1, <1>2
<1>4. FramesOf(snippets) = ToSet(Snippet) \cup FramesOf(snippets')
  BY <1>1, FramesSplit DEF Snippet
<1>5. 1 \in 1..Len(snippets)
  BY <1>1
<1>6. Sorted(Snippet) /\ \A x \in ToSet(Snippet) : x <= fed /\ \A y \in Fresh' : x < y
  BY <1>2, <1>5 DEF OrderInv, SnippetsSorted
<1>7. \A x \in ToSet(Snippet), y \in FramesOf(snippets') : x < y
  <2> SUFFICES ASSUME NEW x \in ToSet(Snippet), NEW y \in FramesOf(snippets') PROVE x < y
    OBVIOUS
  <2>1. PICK i \in 1..Len(snippets') : y \in ToSet(snippets'[i])
    BY <1>2, FramesIn
  <2> QED BY <1>2, <1>3, <1>5, <2>1 DEF OrderInv, SnippetsInTurn
<1>8. SnippetsSorted'
  BY <1>2, <1>3 DEF OrderInv, SnippetsSorted, Sorted
<1>9. SnippetsInTurn'
  <2> SUFFICES ASSUME NEW i \in 1..Len(snippets'), NEW j \in 1..Len(snippets'), i < j,
                      NEW x \in ToSet(snippets'[i]), NEW y \in ToSet(snippets'[j])
               PROVE  x < y
    BY DEF SnippetsInTurn
  <2>1. i + 1 \in 1..Len(snippets) /\ j + 1 \in 1..Len(snippets) /\ i + 1 < j + 1
    BY <1>3
  <2>2. x \in ToSet(snippets[i + 1]) /\ y \in ToSet(snippets[j + 1])
    BY <1>2
  <2> QED BY <2>1, <2>2 DEF OrderInv, SnippetsInTurn
<1> QED BY <1>4, <1>6, <1>7, <1>8, <1>9

(* Whatever is folded, recorded or given up, the recordings and the phrase *)
(* are what they were, or less, or are followed by the next snippet.       *)
LEMMA FoldOrdered ==
    ASSUME TypeOK, OrderInv, fed' = fed, Fresh' = Fresh,
           \/ snippets' = snippets /\ Done' \in {Done, recorded}
           \/ /\ snippets # <<>> /\ snippets' = Tail(snippets)
              /\ Done' \in {Done, recorded, Done \o Snippet}
           \/ snippets' = <<>> /\ Done' \in {Done, recorded}
    PROVE  OrderInv'
<1>0. /\ Done \in Seq(Frame) /\ recorded \in Seq(Frame) /\ merged \in Seq(Frame)
      /\ snippets \in Seq(Utterance)
  BY OrderTypes
<1>1. Sorted(recorded) /\ ToSet(recorded) \subseteq ToSet(Done)
  BY <1>0, SortedParts, ToSetConcat DEF Done, OrderInv, DoneSorted
<1>2. ASSUME Done' \in {Done, recorded}, FramesOf(snippets') \subseteq FramesOf(snippets)
      PROVE  DoneSorted' /\ DoneFirst'
  <2>1. DoneSorted'
    BY <1>1, <1>2 DEF OrderInv, DoneSorted
  <2>2. DoneFirst'
    BY <1>1, <1>2 DEF OrderInv, DoneFirst
  <2> QED BY <2>1, <2>2
<1>3. CASE snippets' = snippets /\ Done' \in {Done, recorded}
  <2>1. DoneSorted' /\ DoneFirst'
    BY <1>2, <1>3
  <2>2. SnippetsSorted' /\ SnippetsInTurn'
    BY <1>3 DEF OrderInv, SnippetsSorted, SnippetsInTurn
  <2> QED BY <2>1, <2>2 DEF OrderInv
<1>4. CASE snippets' = <<>> /\ Done' \in {Done, recorded}
  <2>1. DoneSorted' /\ DoneFirst'
    BY <1>2, <1>4, FramesNone
  <2>2. SnippetsSorted' /\ SnippetsInTurn'
    BY <1>4, EmptySeq DEF SnippetsSorted, SnippetsInTurn
  <2> QED BY <2>1, <2>2 DEF OrderInv
<1>5. CASE /\ snippets # <<>> /\ snippets' = Tail(snippets)
           /\ Done' \in {Done, recorded, Done \o Snippet}
  <2>1. /\ Sorted(Snippet)
        /\ \A x \in ToSet(Snippet) :
                x <= fed /\ \A y \in FramesOf(snippets') \cup Fresh' : x < y
        /\ FramesOf(snippets) = ToSet(Snippet) \cup FramesOf(snippets')
        /\ SnippetsSorted' /\ SnippetsInTurn'
    BY <1>5, NextOrdered
  <2>2. CASE Done' \in {Done, recorded}
    BY <1>2, <2>1, <2>2 DEF OrderInv
  <2>3. CASE Done' = Done \o Snippet
    <3>1. Snippet \in Seq(Frame)
      BY <1>5, NextSnippet
    <3>2. \A x \in ToSet(Done), y \in ToSet(Snippet) : x < y
      BY <2>1 DEF OrderInv, DoneFirst
    <3>3. Sorted(Done \o Snippet)
      BY <1>0, <2>1, <3>1, <3>2, SortedConcat DEF OrderInv, DoneSorted
    <3>4. ToSet(Done \o Snippet) = ToSet(Done) \cup ToSet(Snippet)
      BY <1>0, <3>1, ToSetConcat
    <3>5. DoneFirst'
      BY <2>1, <2>3, <3>4 DEF OrderInv, DoneFirst
    <3> QED BY <2>1, <2>3, <3>3, <3>5 DEF OrderInv, DoneSorted
  <2> QED BY <1>5, <2>2, <2>3
<1> QED BY <1>3, <1>4, <1>5

LEMMA FoldSnippetOrdered ==
    ASSUME TypeOK, OrderInv, NEW decoded \in Decoded, FoldSnippet(decoded)
    PROVE  OrderInv'
<1>1. /\ snippets # <<>> /\ snippets' = Tail(snippets) /\ recorded' = recorded
      /\ merged' \in {merged, merged \o Snippet} /\ fed' = fed /\ Fresh' = Fresh
  BY DEF FoldSnippet, MergedWith, segmenterVars, Fresh
<1>2. recorded \o (merged \o Snippet) = Done \o Snippet
  <2>1. recorded \in Seq(Frame) /\ merged \in Seq(Frame) /\ Snippet \in Seq(Frame)
    BY <1>1, OrderTypes, NextSnippet
  <2>2. (recorded \o merged) \o Snippet = recorded \o (merged \o Snippet)
    BY <2>1, ConcatAssociative
  <2> QED BY <2>2 DEF Done
<1>3. Done' \in {Done, Done \o Snippet}
  BY <1>1, <1>2 DEF Done
<1> QED BY <1>1, <1>3, FoldOrdered

LEMMA FoldPhraseOrdered ==
    ASSUME TypeOK, SkipInv, OrderInv, NEW decoded \in Decoded, NEW whole \in Decoded,
           NEW saved \in BOOLEAN, FoldPhrase(decoded, whole, saved)
    PROVE  OrderInv'
<1> DEFINE audio == MergedWith(decoded)
           previews == PreviewedWith(decoded)
<1>1. /\ snippets # <<>> /\ fed' = fed /\ Fresh' = Fresh
      /\ merged = <<>> /\ merged' = <<>> /\ recorded \in Seq(Frame) /\ Snippet \in Seq(Frame)
  BY NextSnippet, OrderTypes DEF FoldPhrase, NextPhrase, segmenterVars, Fresh, SkipInv
<1>2. Done = recorded /\ merged \o Snippet = Snippet
  BY <1>1, ConcatEmptySeq DEF Done
<1>3. CASE recorded' = recorded /\ snippets' \in {Tail(snippets), <<>>}
  <2>1. Done' = Done
    BY <1>1, <1>3 DEF Done
  <2> QED BY <1>1, <1>3, <2>1, FoldOrdered
<1>4. CASE ~Silent(audio, previews, whole) /\ saved
  <2>1. audio = Snippet
    BY <1>1, <1>2, <1>4 DEF MergedWith, Silent
  <2> HIDE DEF audio
  <2>2. recorded' = recorded \o Snippet /\ snippets' = Tail(snippets)
    BY <1>4, <2>1 DEF FoldPhrase, PhraseCommitted, audio
  <2>3. Done' = Done \o Snippet
    <3>1. recorded \o Snippet \in Seq(Frame)
      BY <1>1, ConcatProperties
    <3>2. Done' = recorded \o Snippet
      BY <1>1, <2>2, <3>1, ConcatEmptySeq DEF Done
    <3> QED BY <1>2, <3>2
  <2> QED BY <1>1, <2>2, <2>3, FoldOrdered
<1>5. \/ recorded' = recorded /\ snippets' \in {Tail(snippets), <<>>}
      \/ ~Silent(audio, previews, whole) /\ saved
  BY DEF FoldPhrase, PhraseCommitted
<1> QED BY <1>3, <1>4, <1>5

LEMMA FinalizeOrdered ==
    ASSUME TypeOK, OrderInv, NEW whole \in Decoded, NEW saved \in BOOLEAN,
           Finalize(whole, saved)
    PROVE  OrderInv'
<1>1. /\ recorded' \in {recorded, Done} /\ merged' = <<>> /\ fed' = fed /\ Fresh' = Fresh
      /\ snippets' = snippets
  BY DEF Finalize, NextPhrase, segmenterVars, Fresh, Done
<1>2. Done' = recorded'
  BY <1>1, OrderTypes, ConcatEmptySeq DEF Done
<1> QED BY <1>1, <1>2, FoldOrdered

LEMMA FlushOrdered ==
    ASSUME TypeOK, SegmenterInv, OrderInv, Flush, UNCHANGED <<fed, recorded, merged>>
    PROVE  OrderInv'
<1>1. fed' \in Nat /\ fed <= fed'
  BY DEF TypeOK, TakeTypeOK
<1>2. CASE Joins({})
  <2> DEFINE none == {}
  <2>1. none \in SUBSET Nat /\ \A y \in none : fed < y
    OBVIOUS
  <2>2. Fresh' \subseteq Fresh \cup none /\ UNCHANGED <<snippets, recorded, merged>>
    BY <1>2 DEF Joins
  <2> HIDE DEF none
  <2> QED BY <1>1, <2>1, <2>2, FreshOrdered
<1>3. CASE Ends({})
  BY <1>1, <1>3, EndsOrdered
<1> QED BY <1>2, <1>3, FlushMoves

LEMMA IngestOrdered ==
    ASSUME TypeOK, SegmenterInv, OrderInv, NEW speech \in BOOLEAN, Ingest(speech)
    PROVE  OrderInv'
<1>1. /\ fed \in Nat /\ fed' = fed + 1 /\ fed' \in Nat /\ fed <= fed' /\ fed + 1 \in Frame
      /\ UNCHANGED <<recorded, merged>>
  BY TimingTypes DEF Ingest, takeVars, TypeOK, TakeTypeOK, Frame
<1> DEFINE frames == {fed + 1}
<1>2. frames \in SUBSET Nat /\ \A y \in frames : fed < y /\ y <= fed'
  BY <1>1
<1>3. Joins(frames) \/ Ends(frames) \/ Ages(frames)
  BY <1>1, PushFrameMoves DEF Ingest
<1> HIDE DEF frames
<1>4. CASE Joins(frames) \/ Ages(frames)
  BY <1>1, <1>2, <1>4, FreshOrdered DEF Joins, Ages
<1>5. CASE Ends(frames)
  BY <1>1, <1>2, <1>5, EndsOrdered
<1> QED BY <1>3, <1>4, <1>5

LEMMA OrderStep == TypeOK /\ SegmenterInv /\ SkipInv /\ OrderInv /\ [Next]_vars => OrderInv'
<1> SUFFICES ASSUME TypeOK, SegmenterInv, SkipInv, OrderInv, [Next]_vars PROVE OrderInv'
  OBVIOUS
<1>1. ASSUME UNCHANGED <<fed, segmenterVars, snippets, merged, recorded>> PROVE OrderInv'
  BY <1>1, FoldOrdered DEF segmenterVars, Fresh, Done
<1>2. CASE DrainEnds
  <2>1. /\ UNCHANGED <<fed, merged, recorded>>
        /\ UNCHANGED <<segmenterVars, snippets>> \/ Flush
    BY <1>2 DEF DrainEnds, takeVars
  <2> QED BY <1>1, <2>1, FlushOrdered
<1>3. CASE Stop
  <2>1. /\ UNCHANGED <<fed, merged, recorded>>
        /\ UNCHANGED <<segmenterVars, snippets>> \/ Flush
    BY <1>3 DEF Stop, takeVars
  <2> QED BY <1>1, <2>1, FlushOrdered
<1>4. CASE DrainFolded \/ Drop \/ UNCHANGED vars
  BY <1>1, <1>4 DEF DrainFolded, Drop, vars, takeVars
<1> QED
  BY <1>2, <1>3, <1>4, IngestOrdered, FoldSnippetOrdered, FoldPhraseOrdered,
     FinalizeOrdered DEF Next, Over

(* The buffers, from the recordings to the segmenter, are in order. *)
LEMMA BuffersOrdered ==
    ASSUME TypeOK, SegmenterInv, OrderInv
    PROVE  FramesInOrder
<1> DEFINE n == Len(snippets)
<1>0. /\ recorded \in Seq(Frame) /\ merged \in Seq(Frame) /\ snippets \in Seq(Utterance)
      /\ n \in Nat /\ active \in Seq(Frame) /\ preRoll \in Seq(Frame) /\ fed \in Nat
      /\ \A i \in 1..n : snippets[i] \in Seq(Frame)
  BY OrderTypes DEF TypeOK, SegmenterTypeOK
<1>1. /\ Buffers \in Seq(Seq(Frame)) /\ Len(Buffers) = n + 4
      /\ Buffers[1] = recorded /\ Buffers[2] = merged
      /\ \A i \in 3..n + 2 : Buffers[i] = snippets[i - 2]
      /\ Buffers[n + 3] = active /\ Buffers[n + 4] = preRoll
  <2> DEFINE first == <<recorded, merged>>
             most == first \o snippets
             last == <<active, preRoll>>
  <2>1. /\ first \in Seq(Seq(Frame)) /\ last \in Seq(Seq(Frame))
        /\ Len(first) = 2 /\ first[1] = recorded /\ first[2] = merged
        /\ Len(last) = 2 /\ last[1] = active /\ last[2] = preRoll
    BY <1>0
  <2>2. snippets \in Seq(Seq(Frame))
    BY <1>0, SeqMonotonic DEF Utterance
  <2> HIDE DEF first, last
  <2>3. /\ most \in Seq(Seq(Frame)) /\ Len(most) = n + 2
        /\ \A i \in 1..n + 2 : most[i] = IF i <= 2 THEN first[i] ELSE snippets[i - 2]
    <3>1. /\ most \in Seq(Seq(Frame)) /\ Len(most) = Len(first) + Len(snippets)
          /\ \A i \in 1..Len(first) + Len(snippets) :
                most[i] = IF i <= Len(first) THEN first[i] ELSE snippets[i - Len(first)]
      BY <2>1, <2>2, ConcatProperties
    <3>2. Len(first) = 2 /\ Len(first) + Len(snippets) = n + 2
      BY <1>0, <2>1
    <3> HIDE DEF most, n
    <3> QED BY <3>1, <3>2
  <2>4. Buffers = most \o last
    BY DEF Buffers, first, last
  <2> HIDE DEF most
  <2>5. /\ Buffers \in Seq(Seq(Frame)) /\ Len(Buffers) = n + 4
        /\ \A i \in 1..n + 4 : Buffers[i] = IF i <= n + 2 THEN most[i] ELSE last[i - (n + 2)]
    <3>1. /\ Buffers \in Seq(Seq(Frame)) /\ Len(Buffers) = Len(most) + Len(last)
          /\ \A i \in 1..Len(most) + Len(last) :
                Buffers[i] = IF i <= Len(most) THEN most[i] ELSE last[i - Len(most)]
      BY <2>1, <2>3, <2>4, ConcatProperties
    <3>2. Len(most) = n + 2 /\ Len(most) + Len(last) = n + 4
      BY <1>0, <2>1, <2>3
    <3> HIDE DEF n
    <3> QED BY <3>1, <3>2
  <2> HIDE DEF n
  <2>6. Buffers[1] = recorded /\ Buffers[2] = merged
    <3>1. /\ 1 \in 1..n + 4 /\ 1 \in 1..n + 2 /\ 1 <= n + 2
          /\ 2 \in 1..n + 4 /\ 2 \in 1..n + 2 /\ 2 <= n + 2
      BY <1>0
    <3>2. Buffers[1] = most[1] /\ Buffers[2] = most[2]
      BY <2>5, <3>1
    <3>3. most[1] = first[1] /\ most[2] = first[2]
      BY <2>3, <3>1
    <3> QED BY <2>1, <3>2, <3>3
  <2>7. \A i \in 3..n + 2 : Buffers[i] = snippets[i - 2]
    <3> SUFFICES ASSUME NEW i \in 3..n + 2 PROVE Buffers[i] = snippets[i - 2]
      OBVIOUS
    <3>1. i \in 1..n + 4 /\ i \in 1..n + 2 /\ i <= n + 2 /\ ~(i <= 2)
      BY <1>0
    <3> QED BY <2>3, <2>5, <3>1
  <2>8. Buffers[n + 3] = active /\ Buffers[n + 4] = preRoll
    <3>1. (n + 3) - (n + 2) = 1 /\ (n + 4) - (n + 2) = 2
          /\ n + 3 \in 1..n + 4 /\ n + 4 \in 1..n + 4
          /\ ~(n + 3 <= n + 2) /\ ~(n + 4 <= n + 2)
      BY <1>0
    <3> QED BY <2>1, <2>5, <3>1
  <2> QED BY <2>5, <2>6, <2>7, <2>8
<1> HIDE DEF n
<1>2. Sorted(recorded) /\ Sorted(merged) /\ \A x \in ToSet(recorded), y \in ToSet(merged) : x < y
  BY <1>0, SortedParts DEF OrderInv, DoneSorted, Done
<1>3. ToSet(recorded) \cup ToSet(merged) = ToSet(Done)
  BY <1>0, ToSetConcat DEF Done
<1>4. Sorted(active) /\ Sorted(preRoll)
  BY <1>0, RecentSorted DEF SegmenterInv, Recent
<1>5. active = <<>> \/ preRoll = <<>>
  BY DEF SegmenterInv, InProgress
<1>6. \A i \in 3..n + 2 : i - 2 \in 1..n
  BY <1>0
<1>7. \A i \in 1..n : ToSet(snippets[i]) \subseteq FramesOf(snippets)
  BY <1>0, FramesIn DEF n
<1>8. ASSUME NEW i \in 1..n + 4
      PROVE  Sorted(Buffers[i]) /\ Buffers[i] \in Seq(Frame)
  <2>1. CASE i \in {1, 2}
    BY <1>0, <1>1, <1>2, <2>1
  <2>2. CASE i \in 3..n + 2
    BY <1>0, <1>1, <1>6, <2>2 DEF OrderInv, SnippetsSorted, n
  <2>3. CASE i \in {n + 3, n + 4}
    BY <1>0, <1>1, <1>4, <2>3
  <2> QED BY <1>0, <2>1, <2>2, <2>3
<1>9. ASSUME NEW i \in 1..n + 4, NEW j \in 1..n + 4, i < j,
             NEW x \in ToSet(Buffers[i]), NEW y \in ToSet(Buffers[j])
      PROVE  x < y
  <2>1. CASE i = 1 /\ j = 2
    BY <1>1, <1>2, <2>1
  <2>2. CASE i \in {1, 2} /\ j \in 3..n + 4
    <3>1. x \in ToSet(Done)
      BY <1>1, <1>3, <2>2
    <3>2. y \in FramesOf(snippets) \cup Fresh
      <4>1. CASE j \in 3..n + 2
        BY <1>1, <1>6, <1>7, <4>1
      <4>2. CASE j \in {n + 3, n + 4}
        BY <1>1, <4>2 DEF Fresh
      <4> QED BY <1>0, <2>2, <4>1, <4>2
    <3> QED BY <3>1, <3>2 DEF OrderInv, DoneFirst
  <2>3. CASE i \in 3..n + 2 /\ j \in 3..n + 2
    <3>1. i - 2 \in 1..n /\ j - 2 \in 1..n /\ i - 2 < j - 2
      BY <1>0, <1>9, <2>3
    <3>2. x \in ToSet(snippets[i - 2]) /\ y \in ToSet(snippets[j - 2])
      BY <1>1, <2>3
    <3> QED BY <3>1, <3>2 DEF OrderInv, SnippetsInTurn, n
  <2>4. CASE i \in 3..n + 2 /\ j \in {n + 3, n + 4}
    <3>1. i - 2 \in 1..n /\ x \in ToSet(snippets[i - 2]) /\ y \in Fresh
      BY <1>1, <1>6, <2>4 DEF Fresh
    <3> QED BY <3>1 DEF OrderInv, SnippetsSorted, n
  <2>5. CASE i = n + 3 /\ j = n + 4
    BY <1>1, <1>5, <2>5, ToSetNone
  <2> QED BY <1>0, <1>9, <2>1, <2>2, <2>3, <2>4, <2>5
<1>10. ASSUME NEW i \in 1..n + 4, NEW j \in 1..n + 4,
              NEW k \in DOMAIN Buffers[i], NEW l \in DOMAIN Buffers[j],
              i < j \/ (i = j /\ k < l)
       PROVE  Buffers[i][k] < Buffers[j][l]
  <2>1. CASE i < j
    BY <1>9, <2>1 DEF ToSet
  <2>2. CASE i = j /\ k < l
    <3>1. DOMAIN Buffers[i] = 1..Len(Buffers[i]) /\ Sorted(Buffers[i])
      BY <1>8, LenProperties
    <3> QED BY <2>2, <3>1 DEF Sorted
  <2> QED BY <1>10, <2>1, <2>2
<1>11. DOMAIN Buffers = 1..n + 4
  BY <1>1, LenProperties
<1> QED BY <1>10, <1>11 DEF FramesInOrder

(* The recordings, the phrase, the snippets and the segmenter's buffers    *)
(* hold the frames in the order in which they were spoken, each at most    *)
(* once: no pre-roll, forced cut or flush stores a frame twice or early.   *)
THEOREM RecordInOrder == Spec => []FramesInOrder
<1>1. Init => SkipInv
  BY DEF Init, SkipInv
<1>2. Init => OrderInv
  <2> SUFFICES ASSUME Init PROVE OrderInv
    OBVIOUS
  <2>1. /\ recorded = <<>> /\ merged = <<>> /\ snippets = <<>>
    BY DEF Init
  <2>2. Done = <<>>
    BY <2>1 DEF Done
  <2>3. Len(snippets) = 0 /\ Len(Done) = 0 /\ ToSet(Done) = {}
    BY <2>1, <2>2, EmptySeq, ToSetNone
  <2> QED BY <2>3 DEF OrderInv, DoneSorted, DoneFirst, SnippetsSorted, SnippetsInTurn, Sorted
<1> QED
  BY <1>1, <1>2, InitType, TypeStep, SegmenterStart, SegmenterStep, SkipStep, OrderStep,
     BuffersOrdered, PTL DEF Spec


=============================================================================
