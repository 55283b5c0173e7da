------------------------- MODULE DictationTalkProof -------------------------
(***************************************************************************)
(* What the daemon and the engine know of each other, over the queues that *)
(* join them: the engine comes to believe what the daemon published last,  *)
(* with nothing under way it shows what the microphone does, and what the  *)
(* user decides about a take reaches that take's session and no other.     *)
(***************************************************************************)
EXTENDS DictationProof

-----------------------------------------------------------------------------
(* What the engine believes: of the statuses on their way the last counts. *)

IsStatus(m) == m.type = "RecordingStatus"
IsStop(m) == IsStatus(m) /\ m.recording = FALSE

(* A reader who holds a belief holds this value before message n.          *)
Shows(q, n, held, value) ==
    \/ /\ \A j \in DOMAIN q : j < n => ~IsStatus(q[j])
       /\ held = value
    \/ \E i \in DOMAIN q :
          /\ i < n /\ IsStatus(q[i]) /\ q[i].recording = value
          /\ \A j \in DOMAIN q : i < j /\ j < n => ~IsStatus(q[j])

LEMMA Joined ==
    ASSUME NEW q \in Seq(ServerMessage), NEW ms \in Seq(ServerMessage)
    PROVE  /\ q \o ms \in Seq(ServerMessage)
           /\ Len(q \o ms) = Len(q) + Len(ms)
           /\ Len(q) \in Nat /\ Len(ms) \in Nat
           /\ DOMAIN (q \o ms) = 1..(Len(q) + Len(ms))
           /\ \A i \in DOMAIN q : (q \o ms)[i] = q[i]
           /\ \A i \in DOMAIN ms : (q \o ms)[Len(q) + i] = ms[i]
           /\ \A i \in DOMAIN (q \o ms) : i \notin DOMAIN q =>
                 i - Len(q) \in DOMAIN ms /\ (q \o ms)[i] = ms[i - Len(q)]
BY ConcatProperties, LenProperties

LEMMA Shortened ==
    ASSUME NEW q \in Seq(ServerMessage), q # <<>>
    PROVE  /\ Head(q) = q[1] /\ q[1] \in ServerMessage /\ 1 \in DOMAIN q
           /\ Tail(q) \in Seq(ServerMessage) /\ Len(Tail(q)) = Len(q) - 1
           /\ Len(q) \in Nat
           /\ \A i \in DOMAIN Tail(q) : i + 1 \in DOMAIN q /\ Tail(q)[i] = q[i + 1]
           /\ \A i \in DOMAIN q : i > 1 => i - 1 \in DOMAIN Tail(q) /\ Tail(q)[i - 1] = q[i]
BY HeadTailProperties, LenProperties

LEMMA ShowsMore ==
    ASSUME NEW q \in Seq(ServerMessage), NEW ms \in Seq(ServerMessage),
           NEW n \in 1..(Len(q) + 1), NEW held, NEW value, Shows(q, n, held, value)
    PROVE  Shows(q \o ms, n, held, value)
<1> DEFINE r == q \o ms
<1>1. /\ DOMAIN q \subseteq DOMAIN r /\ \A i \in DOMAIN q : r[i] = q[i]
      /\ \A j \in DOMAIN r : j < n => j \in DOMAIN q
  BY Joined, LenProperties
<1> HIDE DEF r
<1>2. Shows(r, n, held, value)
  BY <1>1 DEF Shows
<1> QED BY <1>2 DEF r

LEMMA ShowsNoNews ==
    ASSUME NEW q \in Seq(ServerMessage), NEW ms \in Seq(ServerMessage),
           NEW k \in DOMAIN ms \cup {Len(ms) + 1},
           NEW held, NEW value, Shows(q, Len(q) + 1, held, value),
           \A i \in DOMAIN ms : ~IsStatus(ms[i])
    PROVE  Shows(q \o ms, Len(q) + k, held, value)
<1> DEFINE r == q \o ms
<1>0. k \in Nat /\ k > 0 /\ Len(q) \in Nat
  BY LenProperties
<1>1. /\ DOMAIN q \subseteq DOMAIN r /\ \A i \in DOMAIN q : r[i] = q[i]
      /\ DOMAIN r = 1..(Len(q) + Len(ms)) /\ DOMAIN q = 1..Len(q)
  BY Joined, LenProperties
<1>2. \A j \in DOMAIN r : j \notin DOMAIN q => ~IsStatus(r[j])
  BY Joined
<1> HIDE DEF r
<1>3. CASE held = value /\ \A j \in DOMAIN q : j < Len(q) + 1 => ~IsStatus(q[j])
  <2>1. \A j \in DOMAIN r : ~IsStatus(r[j])
    BY <1>0, <1>1, <1>2, <1>3
  <2> QED BY <1>3, <2>1 DEF Shows, r
<1>4. CASE \E i \in DOMAIN q :
          /\ i < Len(q) + 1 /\ IsStatus(q[i]) /\ q[i].recording = value
          /\ \A j \in DOMAIN q : i < j /\ j < Len(q) + 1 => ~IsStatus(q[j])
  <2>1. PICK i \in DOMAIN q :
          /\ i < Len(q) + 1 /\ IsStatus(q[i]) /\ q[i].recording = value
          /\ \A j \in DOMAIN q : i < j /\ j < Len(q) + 1 => ~IsStatus(q[j])
    BY <1>4
  <2>2. i \in DOMAIN r /\ i < Len(q) + k /\ IsStatus(r[i]) /\ r[i].recording = value
    BY <1>0, <1>1, <2>1
  <2>3. \A j \in DOMAIN r : i < j => ~IsStatus(r[j])
    BY <1>0, <1>1, <1>2, <2>1
  <2>4. Shows(r, Len(q) + k, held, value)
    BY <2>2, <2>3 DEF Shows
  <2> QED BY <2>4 DEF r
<1> QED BY <1>3, <1>4 DEF Shows

LEMMA ShowsNews ==
    ASSUME NEW q \in Seq(ServerMessage), NEW ms \in Seq(ServerMessage),
           NEW held, NEW value,
           ms # <<>>, IsStatus(ms[Len(ms)]), ms[Len(ms)].recording = value
    PROVE  Shows(q \o ms, Len(q \o ms) + 1, held, value)
<1> DEFINE r == q \o ms
           i == Len(q) + Len(ms)
<1>1. Len(ms) \in DOMAIN ms
  BY EmptySeq, LenProperties
<1>2. /\ i \in DOMAIN r /\ r[i] = ms[Len(ms)]
      /\ Len(r) = i /\ DOMAIN r = 1..i /\ i \in Nat
  BY <1>1, Joined
<1> HIDE DEF r, i
<1>3. Shows(r, Len(r) + 1, held, value)
  BY <1>2 DEF Shows
<1> QED BY <1>3 DEF r

LEMMA ShowsTail ==
    ASSUME NEW q \in Seq(ServerMessage), q # <<>>, NEW n \in Nat, n > 1,
           NEW held, NEW value, Shows(q, n, held, value)
    PROVE  Shows(Tail(q), n - 1,
                 IF IsStatus(Head(q)) THEN Head(q).recording ELSE held, value)
<1> DEFINE t == Tail(q)
           next == IF IsStatus(q[1]) THEN q[1].recording ELSE held
<1>1. /\ \A i \in DOMAIN t : i + 1 \in DOMAIN q /\ t[i] = q[i + 1]
      /\ \A i \in DOMAIN q : i > 1 => i - 1 \in DOMAIN t /\ t[i - 1] = q[i]
      /\ DOMAIN t \subseteq Nat \ {0} /\ DOMAIN q \subseteq Nat \ {0} /\ 1 \in DOMAIN q
  BY Shortened, LenProperties
<1> HIDE DEF t
<1>2. Shows(t, n - 1, next, value)
  <2>1. CASE held = value /\ \A j \in DOMAIN q : j < n => ~IsStatus(q[j])
    BY <1>1, <2>1 DEF Shows
  <2>2. CASE \E i \in DOMAIN q :
          /\ i < n /\ IsStatus(q[i]) /\ q[i].recording = value
          /\ \A j \in DOMAIN q : i < j /\ j < n => ~IsStatus(q[j])
    <3>1. PICK i \in DOMAIN q :
          /\ i < n /\ IsStatus(q[i]) /\ q[i].recording = value
          /\ \A j \in DOMAIN q : i < j /\ j < n => ~IsStatus(q[j])
      BY <2>2
    <3>2. \A j \in DOMAIN t : i < j + 1 /\ j < n - 1 => ~IsStatus(t[j])
      BY <1>1, <3>1
    <3>3. CASE i = 1
      <4>1. next = value
        BY <3>1, <3>3
      <4>2. \A j \in DOMAIN t : j < n - 1 => ~IsStatus(t[j])
        <5>1. \A j \in DOMAIN t : j + 1 > 1
          BY <1>1
        <5> QED BY <3>2, <3>3, <5>1, <1>1
      <4> HIDE DEF next
      <4> QED BY <4>1, <4>2 DEF Shows
    <3>4. CASE i # 1
      <4>1. i > 1 /\ i - 1 \in DOMAIN t /\ t[i - 1] = q[i] /\ i - 1 < n - 1
        BY <1>1, <3>1, <3>4
      <4>2. \A j \in DOMAIN t : i - 1 < j /\ j < n - 1 => ~IsStatus(t[j])
        BY <1>1, <3>2
      <4>3. IsStatus(t[i - 1]) /\ t[i - 1].recording = value
        BY <3>1, <4>1
      <4> HIDE DEF next
      <4> QED BY <4>1, <4>2, <4>3 DEF Shows
    <3> QED BY <3>3, <3>4
  <2> QED BY <2>1, <2>2 DEF Shows
<1> QED BY <1>2, Shortened DEF t

-----------------------------------------------------------------------------
(* What the daemon says, whatever makes it speak: the last message is the  *)
(* status, or the status is no news; an ending of a take is never said of  *)
(* a take that goes on.                                                    *)

Ending == {"Error", "Review", "Reconcile"}

Announces(ms, b) ==
    \/ ms # <<>> /\ IsStatus(ms[Len(ms)]) /\ ms[Len(ms)].recording = b
    \/ (hello => b = last) /\ \A i \in DOMAIN ms : ~IsStatus(ms[i])

Says(ms, b) ==
    /\ Push(ms) /\ Announces(ms, b)
    /\ last' = b /\ hello' = hello
    /\ \A i \in DOMAIN ms :
          /\ ms[i].type \in Ending => ~b \/ (mic = 0 /\ b = last)
          /\ ms[i].type = "Review" => review
          /\ ms[i].type = "Partial" => ~review

Speaks == \E ms \in Seq(ServerMessage), b \in BOOLEAN : Says(ms, b)

LEMMA SpeaksStatus ==
    ASSUME NEW b \in BOOLEAN, Push(StatusPush(b)), last' = b, hello' = hello
    PROVE  Speaks
<1> DEFINE m == [type |-> "RecordingStatus", recording |-> b]
           ms == StatusPush(b)
<1>1. ms = IF hello /\ b # last THEN <<m>> ELSE <<>>
  BY DEF StatusPush
<1>2. ms \in Seq(ServerMessage)
  BY StatusPushType
<1>3. m.type = "RecordingStatus" /\ m.recording = b
  OBVIOUS
<1> HIDE DEF m
<1>4. Announces(ms, b)
  BY <1>1, <1>3 DEF Announces, IsStatus
<1>5. \A i \in DOMAIN ms : ms[i].type = "RecordingStatus"
  BY <1>1, <1>3
<1>6. Push(ms)
  OBVIOUS
<1> HIDE DEF ms
<1>7. Says(ms, b)
  BY <1>4, <1>5, <1>6 DEF Says, Ending
<1> QED BY <1>2, <1>7 DEF Speaks

LEMMA SpeaksAlone ==
    ASSUME NEW m \in ServerMessage, ~IsStatus(m), Push(<<m>>),
           last' = last, last \in BOOLEAN, hello' = hello,
           m.type \in Ending => mic = 0, m.type # "Review",
           m.type = "Partial" => ~review
    PROVE  Speaks
<1> DEFINE ms == <<m>>
<1>1. ms \in Seq(ServerMessage) /\ Push(ms) /\ \A i \in DOMAIN ms : ms[i] = m
  OBVIOUS
<1> HIDE DEF ms
<1>2. Says(ms, last)
  BY <1>1 DEF Says, Announces
<1> QED BY <1>1, <1>2 DEF Speaks

LEMMA SpeaksLast ==
    ASSUME NEW m \in ServerMessage, ~IsStatus(m), Push(<<m>> \o StatusPush(FALSE)),
           last' = FALSE, hello' = hello,
           m.type = "Review" => review, m.type # "Partial"
    PROVE  Speaks
<1> DEFINE s == StatusPush(FALSE)
           ms == <<m>> \o s
           f == [type |-> "RecordingStatus", recording |-> FALSE]
<1>0. s \in Seq(ServerMessage)
  BY StatusPushType
<1>1. s = IF hello /\ FALSE # last THEN <<f>> ELSE <<>>
  BY DEF StatusPush
<1>2. f.type = "RecordingStatus" /\ f.recording = FALSE
  OBVIOUS
<1> HIDE DEF f, s
<1>3. ms \in Seq(ServerMessage) /\ DOMAIN ms = 1..(1 + Len(s))
  BY <1>0, FirstThen
<1>4. \A i \in 1..(1 + Len(s)) : ms[i] = IF i <= 1 THEN m ELSE s[i - 1]
  BY <1>0, FirstThen
<1>5. Push(ms)
  BY DEF s
<1> HIDE DEF ms
<1>6. Len(ms) = 1 + Len(s)
  BY <1>0, <1>3, LenProperties
<1>7. CASE hello /\ FALSE # last
  <2>1. Len(s) = 1 /\ s[1] = f
    BY <1>1, <1>7
  <2>2. /\ ms[Len(ms)] = f /\ Len(ms) = 2
        /\ \A i \in DOMAIN ms : ms[i] = m \/ ms[i] = f
    BY <1>3, <1>4, <1>6, <2>1
  <2>3. ms # <<>>
    BY <2>2
  <2>4. Announces(ms, FALSE)
    BY <1>2, <1>7, <2>2, <2>3 DEF Announces, IsStatus
  <2>5. Says(ms, FALSE)
    BY <1>2, <1>5, <2>2, <2>4 DEF Says
  <2> QED BY <1>3, <2>5 DEF Speaks
<1>8. CASE ~(hello /\ FALSE # last)
  <2>1. Len(s) = 0
    BY <1>1, <1>8
  <2>2. \A i \in DOMAIN ms : ms[i] = m
    BY <1>3, <1>4, <2>1
  <2>3. Announces(ms, FALSE)
    BY <1>8, <2>2 DEF Announces
  <2>4. Says(ms, FALSE)
    BY <1>5, <2>2, <2>3 DEF Says
  <2> QED BY <1>3, <2>4 DEF Speaks
<1> QED BY <1>7, <1>8

(* The messages of a take that is decoded stand between two statuses.      *)
LEMMA DecodingHolds ==
    ASSUME NEW ms \in Seq(ServerMessage)
    PROVE  \A i \in DOMAIN Decoding(ms) :
              \/ IsStatus(Decoding(ms)[i])
              \/ \E j \in DOMAIN ms : Decoding(ms)[i] = ms[j]
<1> DEFINE s == StatusPush(TRUE)
           u == s \o ms
           e == Ended
           d == Decoding(ms)
<1>1. s \in Seq(ServerMessage) /\ \A i \in DOMAIN s : IsStatus(s[i])
  <2> DEFINE t == [type |-> "RecordingStatus", recording |-> TRUE]
  <2>1. s = <<t>> \/ s = <<>>
    BY DEF StatusPush
  <2>2. IsStatus(t)
    BY DEF IsStatus
  <2>3. s \in Seq(ServerMessage)
    BY StatusPushType
  <2> HIDE DEF t, s
  <2> QED BY <2>1, <2>2, <2>3
<1>2. e \in Seq(ServerMessage) /\ \A i \in DOMAIN e : IsStatus(e[i])
  BY EndedType DEF Ended, IsStatus
<1>3. d = u \o e
  BY DEF Decoding, Ended
<1> HIDE DEF s, e, d
<1>4. u \in Seq(ServerMessage)
  BY <1>1, Joined
<1>5. \A i \in DOMAIN u : IsStatus(u[i]) \/ \E j \in DOMAIN ms : u[i] = ms[j]
  BY <1>1, Joined
<1> HIDE DEF u
<1>6. \A i \in DOMAIN d : IsStatus(d[i]) \/ \E j \in DOMAIN ms : d[i] = ms[j]
  BY <1>2, <1>3, <1>4, <1>5, Joined
<1> QED BY <1>6 DEF d

LEMMA DecodingEnds ==
    ASSUME NEW ms \in Seq(ServerMessage), hello
    PROVE  LET d == Decoding(ms)
           IN d # <<>> /\ IsStatus(d[Len(d)]) /\ d[Len(d)].recording = FALSE
<1> DEFINE u == StatusPush(TRUE) \o ms
           f == [type |-> "RecordingStatus", recording |-> FALSE]
           e == <<f>>
           d == Decoding(ms)
<1>1. u \in Seq(ServerMessage)
  BY StatusPushType, Joined
<1>2. e \in Seq(ServerMessage)
  BY EndedType DEF Ended
<1>3. d = u \o e
  BY DEF Decoding
<1>4. Len(e) = 1 /\ e[1] = f /\ 1 \in DOMAIN e
  OBVIOUS
<1>5. IsStatus(f) /\ f.recording = FALSE
  BY DEF IsStatus
<1> HIDE DEF u, e, d, f
<1>6. Len(d) = Len(u) + 1 /\ d[Len(u) + 1] = f /\ Len(u) \in Nat
  BY <1>1, <1>2, <1>3, <1>4, Joined
<1>7. d # <<>>
  BY <1>6
<1> QED BY <1>5, <1>6, <1>7 DEF d

LEMMA DecodingUnheard ==
    ASSUME NEW ms \in Seq(ServerMessage), ~hello
    PROVE  Decoding(ms) = ms
<1>1. StatusPush(TRUE) = <<>>
  BY DEF StatusPush
<1>2. <<>> \o ms = ms /\ ms \o <<>> = ms
  BY ConcatEmptySeq
<1> QED BY <1>1, <1>2 DEF Decoding

LEMMA SpeaksDecoding ==
    ASSUME NEW ms \in Seq(ServerMessage), Push(Decoding(ms)),
           last' = FALSE, hello' = hello,
           \A i \in DOMAIN ms :
              /\ ~IsStatus(ms[i]) /\ ms[i].type # "Partial"
              /\ ms[i].type = "Review" => review
    PROVE  Speaks
<1> DEFINE d == Decoding(ms)
<1>1. d \in Seq(ServerMessage) /\ Push(d)
  BY DecodingType
<1>2. \A i \in DOMAIN d :
        (d[i].type = "Review" => review) /\ (d[i].type = "Partial" => ~review)
  <2>1. \A i \in DOMAIN d :
          IsStatus(d[i]) \/ \E j \in DOMAIN ms : d[i] = ms[j]
    BY DecodingHolds
  <2> HIDE DEF d
  <2> QED BY <2>1 DEF IsStatus
<1>3. Announces(d, FALSE)
  <2>1. CASE hello
    <3>1. d # <<>> /\ IsStatus(d[Len(d)]) /\ d[Len(d)].recording = FALSE
      BY <2>1, DecodingEnds
    <3> HIDE DEF d
    <3> QED BY <3>1 DEF Announces
  <2>2. CASE ~hello
    <3>1. d = ms
      BY <2>2, DecodingUnheard
    <3> HIDE DEF d
    <3> QED BY <2>2, <3>1 DEF Announces
  <2> QED BY <2>1, <2>2
<1> HIDE DEF d
<1>4. Says(d, FALSE)
  BY <1>1, <1>2, <1>3 DEF Says
<1> QED BY <1>1, <1>4 DEF Speaks

LEMMA SpeaksSilence ==
    ASSUME Push(Decoding(<<>>)), last' = FALSE, hello' = hello
    PROVE  Speaks
<1> DEFINE none == <<>>
<1>1. none \in Seq(ServerMessage) /\ DOMAIN none = {}
  OBVIOUS
<1>2. Push(Decoding(none))
  OBVIOUS
<1> HIDE DEF none
<1> QED BY <1>1, <1>2, SpeaksDecoding

LEMMA SpeaksNothing ==
    ASSUME TypeOK, UNCHANGED <<toEngine, hello, last>>
    PROVE  Speaks
<1>1. Push(<<>>)
  BY ConcatEmptySeq DEF Push, TypeOK, LinkTypeOK
<1>2. <<>> \in Seq(ServerMessage) /\ Announces(<<>>, last) /\ last \in BOOLEAN
  BY DEF Announces, TypeOK, DaemonTypeOK
<1>3. Says(<<>>, last)
  BY <1>1, <1>2 DEF Says
<1> QED BY <1>2, <1>3 DEF Speaks

LEMMA SpeaksError ==
    /\ ErrorMessage \in ServerMessage /\ ~IsStatus(ErrorMessage)
    /\ ErrorMessage.type = "Error"
BY DEF ErrorMessage, ServerMessage, IsStatus

LEMMA StartSpeaks ==
    ASSUME TypeOK, StartLiveCapture
    PROVE  Speaks
<1>1. CASE Push(StatusPush(TRUE)) /\ Publish(TRUE)
  BY <1>1, SpeaksStatus DEF Publish
<1>2. CASE Push(<<ErrorMessage>>) /\ UNCHANGED statusVars
  <2>1. last \in BOOLEAN /\ mic = 0
    BY DEF TypeOK, DaemonTypeOK, StartLiveCapture
  <2> QED BY <1>2, <2>1, SpeaksAlone, SpeaksError DEF statusVars
<1> QED BY <1>1, <1>2 DEF StartLiveCapture

LEMMA StopSpeaks ==
    ASSUME TypeOK, StopLiveAndTranscribe
    PROVE  Speaks
<1>1. last' = FALSE /\ hello' = hello
  BY DEF StopLiveAndTranscribe, Publish
<1>2. mic \in Take /\ Raw(mic) \in Text
  BY Texts DEF StopLiveAndTranscribe, TypeOK, DaemonTypeOK
<1>3. CASE StopFails
  BY <1>1, <1>3, SpeaksLast, SpeaksError DEF StopFails
<1>4. CASE StopSilent
  BY <1>1, <1>4, SpeaksSilence DEF StopSilent
<1>5. CASE StopReview
  <2> DEFINE m == [type |-> "Review", text |-> Raw(mic)]
             ms == <<m>>
  <2>1. m \in ServerMessage /\ ~IsStatus(m) /\ m.type # "Partial"
    BY <1>2 DEF ServerMessage, IsStatus
  <2>2. Push(Decoding(ms)) /\ review
    BY <1>5 DEF StopReview
  <2> HIDE DEF m
  <2>3. ms \in Seq(ServerMessage) /\ \A i \in DOMAIN ms : ms[i] = m
    BY <2>1
  <2> HIDE DEF ms
  <2> QED BY <1>1, <2>1, <2>2, <2>3, SpeaksDecoding
<1>6. CASE StopDirect /\ hello
  <2> DEFINE m == [type |-> "Reconcile", text |-> Raw(mic)]
             ms == <<m>>
  <2>1. m \in ServerMessage /\ ~IsStatus(m) /\ m.type = "Reconcile"
    BY <1>2 DEF ServerMessage, IsStatus
  <2>2. Push(Decoding(ms))
    BY <1>6 DEF StopDirect
  <2> HIDE DEF m
  <2>3. ms \in Seq(ServerMessage) /\ \A i \in DOMAIN ms : ms[i] = m
    BY <2>1
  <2> HIDE DEF ms
  <2> QED BY <1>1, <2>1, <2>2, <2>3, SpeaksDecoding
<1>7. CASE StopDirect /\ ~hello
  BY <1>1, <1>7, SpeaksSilence DEF StopDirect
<1> QED BY <1>3, <1>4, <1>5, <1>6, <1>7 DEF StopLiveAndTranscribe

(* A step of the daemon greets a client, drops one, or speaks.             *)
LEMMA DaemonSpeaks ==
    ASSUME TypeOK, DaemonReads \/ DaemonActs
    PROVE  \/ OnClientHello
           \/ DropClient
           \/ Speaks /\ UNCHANGED <<link, engineVars, userVars, faults>>
<1>1. CASE DaemonReads
  <2>1. CASE OnToggleRecording
    BY <2>1, StartSpeaks, StopSpeaks DEF OnToggleRecording, Receive
  <2>2. CASE OnCommitPreedit
    <3>1. (mic # 0) \in BOOLEAN
      OBVIOUS
    <3>2. PICK b \in BOOLEAN : Push(StatusPush(b)) /\ last' = b /\ hello' = hello
      BY <2>2, <3>1 DEF OnCommitPreedit, Publish
    <3> QED BY <2>2, <3>2, SpeaksStatus DEF OnCommitPreedit, Receive
  <2>3. CASE OnCancelPreedit
    BY <2>3, SpeaksStatus DEF OnCancelPreedit, CancelTake, Publish, Receive
  <2>4. CASE OnReportCorrection \/ OnHistoryEdited
    BY <2>4, SpeaksNothing DEF OnReportCorrection, OnHistoryEdited, Receive, statusVars
  <2>5. CASE PeerGone
    BY <2>5 DEF PeerGone
  <2> QED BY <1>1, <2>1, <2>2, <2>3, <2>4, <2>5 DEF DaemonReads
<1>2. CASE DaemonActs
  <2>1. CASE TrayStart
    BY <2>1, StartSpeaks DEF TrayStart, OwnStep
  <2>2. CASE TrayStop \/ AutoStop
    BY <2>2, StopSpeaks DEF TrayStop, AutoStop, OwnStep
  <2>3. CASE TrayCancel
    BY <2>3, SpeaksStatus DEF TrayCancel, CancelTake, Publish, OwnStep
  <2>4. CASE TraySetting
    BY <2>4, SpeaksNothing DEF TraySetting, OwnStep, statusVars
  <2>5. CASE TrayEdit
    <3>1. PICK k \in Take :
            /\ learned[k] # None
            /\ Push(<<[type |-> "EditHistory", id |-> k, text |-> learned[k]]>>)
      BY <2>5 DEF TrayEdit
    <3> DEFINE m == [type |-> "EditHistory", id |-> k, text |-> learned[k]]
    <3>2. learned[k] \in Text /\ last \in BOOLEAN
      BY <3>1 DEF TypeOK, DaemonTypeOK
    <3>3. m \in ServerMessage /\ m.type = "EditHistory"
      BY <3>2 DEF ServerMessage
    <3>4. Push(<<m>>) /\ UNCHANGED <<hello, last>>
      BY <2>5, <3>1 DEF TrayEdit, daemonVars, statusVars
    <3> HIDE DEF m
    <3>5. Speaks
      BY <3>2, <3>3, <3>4, SpeaksAlone DEF IsStatus, Ending
    <3> QED BY <2>5, <3>5 DEF TrayEdit, OwnStep
  <2>6. CASE PumpPartial
    <3> DEFINE m == [type |-> "Partial", take |-> mic]
    <3>1. mic \in Take /\ last \in BOOLEAN
      BY <2>6 DEF PumpPartial, TypeOK, DaemonTypeOK
    <3>2. m \in ServerMessage /\ m.type = "Partial"
      BY <3>1 DEF ServerMessage
    <3>3. Push(<<m>>) /\ UNCHANGED <<hello, last>> /\ ~review
      BY <2>6 DEF PumpPartial, daemonVars, statusVars
    <3> HIDE DEF m
    <3>4. Speaks
      BY <3>1, <3>2, <3>3, SpeaksAlone DEF IsStatus, Ending
    <3> QED BY <2>6, <3>4 DEF PumpPartial, OwnStep
  <2>7. CASE PeerGoneAfterStoring
    BY <2>7 DEF PeerGoneAfterStoring
  <2> QED BY <1>2, <2>1, <2>2, <2>3, <2>4, <2>5, <2>6, <2>7 DEF DaemonActs
<1> QED BY <1>1, <1>2

-----------------------------------------------------------------------------
(* The engine mirrors the daemon: no client is greeted before it connects, *)
(* its first status comes right behind the greeting, and read to its end   *)
(* the queue tells the value published last.                               *)

MirrorInv ==
    /\ link = "down" => ~hello
    /\ hello /\ link \in {"swapped", "greeting"} =>
           \E i \in DOMAIN toEngine : IsStatus(toEngine[i])
    /\ hello /\ Serving => Shows(toEngine, Len(toEngine) + 1, erec, last)

LEMMA MirrorSaid ==
    ASSUME TypeOK, MirrorInv, Speaks, UNCHANGED <<link, erec>>
    PROVE  MirrorInv'
<1> DEFINE q == toEngine
<1>1. PICK ms \in Seq(ServerMessage), b \in BOOLEAN : Says(ms, b)
  BY DEF Speaks
<1>2. q \in Seq(ServerMessage) /\ toEngine' = q \o ms /\ last' = b /\ hello' = hello
  BY <1>1 DEF TypeOK, LinkTypeOK, Says, Push
<1>3. ASSUME hello, link \in {"swapped", "greeting"}
      PROVE  \E i \in DOMAIN toEngine' : IsStatus(toEngine'[i])
  <2>1. PICK i \in DOMAIN q : IsStatus(q[i])
    BY <1>3 DEF MirrorInv
  <2>2. i \in DOMAIN toEngine' /\ toEngine'[i] = q[i]
    BY <1>2, <2>1, Joined, LenProperties
  <2> QED BY <2>1, <2>2
<1>4. ASSUME hello, Serving
      PROVE  Shows(toEngine', Len(toEngine') + 1, erec, b)
  <2>1. Shows(q, Len(q) + 1, erec, last)
    BY <1>4 DEF MirrorInv
  <2>2. CASE ms # <<>> /\ IsStatus(ms[Len(ms)]) /\ ms[Len(ms)].recording = b
    <3>1. Shows(q \o ms, Len(q \o ms) + 1, erec, b)
      BY <1>2, <2>2, ShowsNews
    <3> QED BY <1>2, <3>1
  <2>3. CASE b = last /\ \A i \in DOMAIN ms : ~IsStatus(ms[i])
    <3>1. \A i \in DOMAIN ms : ~IsStatus(ms[i])
      BY <2>3
    <3>2. Shows(q \o ms, Len(q) + (Len(ms) + 1), erec, last)
      BY <1>2, <2>1, <3>1, ShowsNoNews
    <3>3. Len(q \o ms) + 1 = Len(q) + (Len(ms) + 1)
      BY <1>2, Joined
    <3> QED BY <1>2, <2>3, <3>2, <3>3
  <2> QED BY <1>1, <1>4, <2>2, <2>3 DEF Says, Announces
<1>5. link = "down" => ~hello
  BY DEF MirrorInv
<1> QED BY <1>2, <1>3, <1>4, <1>5 DEF MirrorInv, Serving

LEMMA MirrorGreets ==
    ASSUME TypeOK, OnClientHello
    PROVE  MirrorInv'
<1> DEFINE a == [type |-> "ServerHello"]
           f == [type |-> "RecordingStatus", recording |-> FALSE]
           ms == <<a, f>>
<1>1. toEngine \in Seq(ServerMessage) /\ toEngine' = toEngine \o ms
  BY DEF TypeOK, LinkTypeOK, OnClientHello, Push
<1>2. ms \in Seq(ServerMessage)
  BY HelloPush
<1>3. ms # <<>> /\ Len(ms) = 2 /\ ms[2] = f /\ 2 \in DOMAIN ms
  OBVIOUS
<1>4. IsStatus(f) /\ f.recording = FALSE
  BY DEF IsStatus
<1> HIDE DEF ms, f
<1>5. Shows(toEngine \o ms, Len(toEngine \o ms) + 1, erec, FALSE)
  BY <1>1, <1>2, <1>3, <1>4, ShowsNews
<1>6. \E i \in DOMAIN (toEngine \o ms) : IsStatus((toEngine \o ms)[i])
  <2>1. Len(toEngine) + 2 \in DOMAIN (toEngine \o ms)
    BY <1>1, <1>2, <1>3, Joined
  <2>2. (toEngine \o ms)[Len(toEngine) + 2] = f
    BY <1>1, <1>2, <1>3, Joined
  <2> QED BY <1>4, <2>1, <2>2
<1>7. /\ link' = link /\ link # "down" /\ last' = FALSE /\ erec' = erec
  BY DEF OnClientHello, Serving, Receive, engineVars, sessionVars
<1> QED BY <1>1, <1>5, <1>6, <1>7 DEF MirrorInv

(* What the reader makes of a message: a status is believed.               *)
LEMMA ReaderBelieves ==
    ASSUME TypeOK, EngineReads
    PROVE  /\ toEngine # <<>> /\ toEngine' = Tail(toEngine)
           /\ erec' = IF IsStatus(Head(toEngine)) THEN Head(toEngine).recording ELSE erec
           /\ link \in {"up", "down"} /\ link' = link /\ UNCHANGED daemonVars
<1>1. CASE ReadStatus
  BY <1>1 DEF ReadStatus, Read, Send, IsStatus
<1>2. CASE ReadPartial \/ ReadError
  BY <1>2 DEF ReadPartial, ReadError, Read, Send, IsStatus
<1>3. CASE ReadReconcile \/ ReadReconcileWithoutTarget
  BY <1>3 DEF ReadReconcile, ReadReconcileWithoutTarget, Read, Send, IsStatus
<1>4. CASE ReadReview \/ ReadEditHistory
  BY <1>4 DEF ReadReview, ReadEditHistory, Read, Send, IsStatus, sessionVars
<1> QED BY <1>1, <1>2, <1>3, <1>4 DEF EngineReads

LEMMA MirrorRead ==
    ASSUME TypeOK, MirrorInv, EngineReads
    PROVE  MirrorInv'
<1>0. toEngine \in Seq(ServerMessage)
  BY DEF TypeOK, LinkTypeOK
<1>1. /\ toEngine # <<>> /\ toEngine' = Tail(toEngine)
      /\ erec' = IF IsStatus(Head(toEngine)) THEN Head(toEngine).recording ELSE erec
      /\ link \in {"up", "down"} /\ link' = link /\ hello' = hello /\ last' = last
  BY ReaderBelieves DEF daemonVars, statusVars
<1>2. ASSUME hello, Serving
      PROVE  Shows(toEngine', Len(toEngine') + 1, erec', last)
  <2>1. Shows(toEngine, Len(toEngine) + 1, erec, last)
    BY <1>2 DEF MirrorInv
  <2>2. Len(toEngine) \in Nat /\ Len(toEngine) + 1 > 1
    BY <1>0, <1>1, Shortened, LenProperties
  <2>3. Shows(Tail(toEngine), Len(toEngine) + 1 - 1, erec', last)
    BY <1>0, <1>1, <2>1, <2>2, ShowsTail
  <2>4. Len(toEngine) + 1 - 1 = Len(toEngine') + 1
    BY <1>0, <1>1, <2>2, Shortened
  <2> QED BY <1>1, <2>3, <2>4
<1> QED BY <1>1, <1>2 DEF MirrorInv, Serving

LEMMA MirrorMeets ==
    ASSUME TypeOK, MirrorInv, Greeted
    PROVE  MirrorInv'
<1> DEFINE q == toEngine
           t == Tail(toEngine)
<1>0. q \in Seq(ServerMessage)
  BY DEF TypeOK, LinkTypeOK
<1>1. /\ q # <<>> /\ toEngine' = t /\ ~IsStatus(Head(q)) /\ erec' = FALSE
      /\ link = "greeting" /\ link' = "up" /\ hello' = hello /\ last' = last
  BY DEF Greeted, EngineIdle, IsStatus, daemonVars, statusVars
<1>2. ASSUME hello
      PROVE  Shows(t, Len(t) + 1, FALSE, last)
  <2>1. Shows(q, Len(q) + 1, erec, last)
    BY <1>1, <1>2 DEF MirrorInv, Serving
  <2>2. Len(q) \in Nat /\ Len(q) + 1 > 1 /\ Len(q) + 1 - 1 = Len(t) + 1
    BY <1>0, <1>1, Shortened, LenProperties
  <2>3. Shows(t, Len(q) + 1 - 1, erec, last)
    BY <1>0, <1>1, <2>1, <2>2, ShowsTail
  <2>4. PICK i \in DOMAIN q : IsStatus(q[i])
    BY <1>1, <1>2 DEF MirrorInv
  <2>5. i # 1
    BY <1>0, <1>1, <2>4, Shortened
  <2>6. i - 1 \in DOMAIN t /\ t[i - 1] = q[i] /\ i - 1 < Len(t) + 1
    <3>1. i > 1
      BY <1>0, <2>4, <2>5, LenProperties
    <3>2. i - 1 \in DOMAIN t /\ t[i - 1] = q[i]
      BY <1>0, <1>1, <3>1, Shortened
    <3>3. t \in Seq(ServerMessage)
      BY <1>0, <1>1, Shortened
    <3> QED BY <3>2, <3>3, LenProperties
  <2>7. Shows(t, Len(t) + 1, erec, last)
    BY <2>2, <2>3
  <2> HIDE DEF t, q
  <2> QED BY <2>4, <2>6, <2>7 DEF Shows
<1> QED BY <1>1, <1>2 DEF MirrorInv, Serving

LEMMA UserLeaves ==
    ASSUME UserActs
    PROVE  UNCHANGED <<link, toEngine, erec, daemonVars, alive, faults>>
<1>1. CASE KeyTrigger \/ KeyEscape \/ CloseWindow
  BY <1>1 DEF KeyTrigger, KeyEscape, CloseWindow, Send
<1>2. CASE KeyEdits
  BY <1>2 DEF KeyEdits, linkVars
<1>3. CASE ConfirmReview
  BY <1>3 DEF ConfirmReview, Answer, Send
<1>4. CASE CancelReview
  BY <1>4 DEF CancelReview, Answer, Send
<1>5. CASE ConfirmHistoryEdit \/ CancelHistoryEdit
  BY <1>5 DEF ConfirmHistoryEdit, CancelHistoryEdit, Answer, Send, sessionVars
<1> QED BY <1>1, <1>2, <1>3, <1>4, <1>5 DEF UserActs

LEMMA MirrorStep ==
    ASSUME TypeOK, MirrorInv, [Next]_vars
    PROVE  MirrorInv'
<1>1. CASE UNCHANGED vars
  BY <1>1
  DEF vars, linkVars, daemonVars, statusVars, engineVars, sessionVars, MirrorInv, Serving
<1>2. CASE DaemonReads \/ DaemonActs
  <2>1. CASE OnClientHello
    BY <2>1, MirrorGreets
  <2>2. CASE DropClient
    BY <2>2 DEF DropClient, MirrorInv
  <2>3. CASE Speaks /\ UNCHANGED <<link, engineVars, userVars, faults>>
    BY <2>3, MirrorSaid DEF engineVars, sessionVars
  <2> QED BY <1>2, <2>1, <2>2, <2>3, DaemonSpeaks
<1>3. CASE EngineReads
  BY <1>3, MirrorRead
<1>4. CASE EngineConnects
  <2>1. CASE Greeted
    BY <2>1, MirrorMeets
  <2>2. CASE Connect \/ HandshakeFails
    BY <2>2 DEF Connect, HandshakeFails, MirrorInv, Serving, daemonVars, statusVars
  <2>3. CASE SendHello
    BY <2>3
    DEF SendHello, MirrorInv, Serving, daemonVars, statusVars, engineVars, sessionVars
  <2> QED BY <1>4, <2>1, <2>2, <2>3 DEF EngineConnects
<1>5. CASE UserActs
  BY <1>5, UserLeaves DEF MirrorInv, Serving, daemonVars, statusVars
<1>6. CASE ProcessDies
  <2>1. CASE EngineExit
    BY <2>1 DEF EngineExit, MirrorInv, Serving, daemonVars, statusVars
  <2>2. CASE ~EngineExit
    <3>1. link' = "down" /\ hello' = FALSE
      BY <1>6, <2>2
      DEF ProcessDies, DaemonDiesBetweenHandlers, DaemonDiesDecoding,
          DaemonDiesAfterCreating, DaemonDiesAfterCommitting, DaemonDies
    <3> QED BY <3>1 DEF MirrorInv, Serving
  <2> QED BY <2>1, <2>2
<1> QED BY <1>1, <1>2, <1>3, <1>4, <1>5, <1>6 DEF Next

LEMMA ShownIsBelieved ==
    ASSUME toEngine \in Seq(ServerMessage),
           Shows(toEngine, Len(toEngine) + 1, erec, last)
    PROVE  Believed = last
<1> DEFINE statuses == {i \in DOMAIN toEngine : toEngine[i].type = "RecordingStatus"}
<1>1. DOMAIN toEngine = 1..Len(toEngine) /\ Len(toEngine) \in Nat
  BY LenProperties
<1>2. CASE statuses = {}
  <2>1. \A i \in DOMAIN toEngine : ~IsStatus(toEngine[i])
    BY <1>2 DEF IsStatus
  <2>2. erec = last
    BY <2>1 DEF Shows
  <2> QED BY <1>2, <2>2 DEF Believed
<1>3. CASE statuses # {}
  <2>1. PICK i \in DOMAIN toEngine :
          /\ IsStatus(toEngine[i]) /\ toEngine[i].recording = last
          /\ \A j \in DOMAIN toEngine :
                i < j /\ j < Len(toEngine) + 1 => ~IsStatus(toEngine[j])
    BY <1>1, <1>3 DEF Shows, IsStatus
  <2>2. i \in statuses /\ \A j \in statuses : i >= j
    BY <1>1, <2>1 DEF IsStatus
  <2>3. statuses \subseteq Nat
    BY <1>1
  <2> HIDE DEF statuses
  <2>4. Max(statuses) = i
    <3>1. \A k \in statuses : (\A j \in statuses : k >= j) => k = i
      BY <2>2, <2>3
    <3> QED BY <2>2, <3>1 DEF Max
  <2>5. Believed = IF statuses = {} THEN erec ELSE toEngine[Max(statuses)].recording
    BY DEF Believed, statuses
  <2> QED BY <1>3, <2>1, <2>4, <2>5
<1> QED BY <1>2, <1>3

(* After all that was sent is read the engine believes what the daemon     *)
(* published last, across takes, lost clients and handshakes.              *)
THEOREM MirrorCorrect == Spec => []EngineMirrorsDaemon
<1>1. Init => MirrorInv
  BY DEF Init, MirrorInv, Serving
<1>2. TypeOK /\ MirrorInv /\ [Next]_vars => MirrorInv'
  BY MirrorStep
<1>3. TypeOK /\ MirrorInv => EngineMirrorsDaemon
  BY ShownIsBelieved DEF MirrorInv, EngineMirrorsDaemon, TypeOK, LinkTypeOK
<1> QED BY <1>1, <1>2, <1>3, TypeCorrect, PTL DEF Spec

-----------------------------------------------------------------------------
(* With a user who lets a client shake hands first, everything the daemon  *)
(* does for a client comes after its hello: the value published last is    *)
(* the microphone's, and the tray's icon shows it.                         *)

HelloInv ==
    /\ link = "swapped" => toDaemon = <<>> /\ ~hello /\ dialog = None
    /\ link = "greeting" /\ ~hello =>
           toDaemon # <<>> /\ Head(toDaemon).type = "ClientHello"
    /\ Serving => \A i \in DOMAIN toDaemon :
                      toDaemon[i].type = "ClientHello" => i = 1 /\ ~hello
    /\ Serving /\ ~hello => toEngine = <<>>
    /\ link = "up" => hello
    /\ ~hello => mic = 0
    /\ last = (mic # 0) /\ icon = last

Hears ==
    \/ toDaemon' = toDaemon
    \/ /\ toDaemon # <<>> /\ Head(toDaemon).type # "ClientHello"
       /\ toDaemon' = Tail(toDaemon)

LEMMA DaemonHears ==
    ASSUME DaemonReads \/ DaemonActs
    PROVE  OnClientHello \/ DropClient \/ Hears
<1>1. CASE DaemonReads
  BY <1>1
  DEF DaemonReads, OnToggleRecording, OnCommitPreedit, OnReportCorrection,
      OnCancelPreedit, OnHistoryEdited, PeerGone, Receive, Hears
<1>2. CASE DaemonActs
  BY <1>2
  DEF DaemonActs, TrayStart, TrayStop, TrayCancel, TraySetting, TrayEdit,
      PumpPartial, AutoStop, PeerGoneAfterStoring, OwnStep, Hears
<1> QED BY <1>1, <1>2

Lit == last = (mic # 0) /\ icon = last

LEMMA StartLights ==
    ASSUME TypeOK, Lit, StartLiveCapture
    PROVE  Lit'
<1>1. takes + 1 # 0
  BY DEF TypeOK, DaemonTypeOK, Take
<1> QED BY <1>1 DEF StartLiveCapture, Publish, Lit, micVars, statusVars, trayVars

LEMMA DaemonLights ==
    ASSUME TypeOK, Lit, DaemonReads \/ DaemonActs
    PROVE  OnClientHello \/ Lit'
<1>1. CASE StartLiveCapture
  BY <1>1, StartLights
<1>2. CASE StopLiveAndTranscribe
  BY <1>2 DEF StopLiveAndTranscribe, Publish, Lit
<1>3. CASE CancelTake
  BY <1>3 DEF CancelTake, Publish, Lit
<1>4. CASE DropClient
  BY <1>4 DEF DropClient, Lit
<1>5. CASE OnCommitPreedit
  BY <1>5 DEF OnCommitPreedit, Publish, Lit, micVars
<1>6. CASE OnReportCorrection \/ OnHistoryEdited
  BY <1>6
  DEF OnReportCorrection, OnHistoryEdited, RefreshTray, Lit, micVars, statusVars, trayVars
<1>7. CASE TraySetting \/ TrayEdit \/ PumpPartial
  BY <1>7
  DEF TraySetting, TrayEdit, PumpPartial, Lit, daemonVars, micVars, statusVars, trayVars
<1> QED
  BY <1>1, <1>2, <1>3, <1>4, <1>5, <1>6, <1>7
  DEF DaemonReads, DaemonActs, OnToggleRecording, OnCancelPreedit, PeerGone,
      TrayStart, TrayStop, TrayCancel, AutoStop, PeerGoneAfterStoring

(* Before the hello the daemon does nothing for a client but wait for it.  *)
LEMMA DaemonWaits ==
    ASSUME TypeOK, HelloInv, ~Early, ~hello, Serving, DaemonReads \/ DaemonActs
    PROVE  OnClientHello
<1>1. mic = 0
  BY DEF HelloInv
<1>2. toDaemon # <<>> => Head(toDaemon).type = "ClientHello"
  BY DEF HelloInv, Serving
<1>3. CASE DaemonReads
  BY <1>2, <1>3
  DEF DaemonReads, OnToggleRecording, OnCommitPreedit, OnReportCorrection,
      OnCancelPreedit, OnHistoryEdited, PeerGone, Receive, Serving
<1>4. CASE DaemonActs
  BY <1>1, <1>4
  DEF DaemonActs, TrayStart, TrayStop, TrayCancel, TraySetting, TrayEdit,
      PumpPartial, AutoStop, StopLiveAndTranscribe, PeerGoneAfterStoring, TrayClick,
      Serving
<1> QED BY <1>3, <1>4

(* Without a client the microphone opens for nobody.                       *)
LEMMA DaemonRests ==
    ASSUME TypeOK, ~Serving, mic = 0, DaemonReads \/ DaemonActs
    PROVE  mic' = 0
<1>1. CASE DaemonReads
  BY <1>1
  DEF DaemonReads, OnClientHello, OnToggleRecording, OnCommitPreedit,
      OnReportCorrection, OnCancelPreedit, OnHistoryEdited, PeerGone, DropClient,
      CancelTake, micVars
<1>2. CASE DaemonActs
  BY <1>2
  DEF DaemonActs, TrayStart, TrayStop, TrayCancel, TraySetting, TrayEdit,
      PumpPartial, AutoStop, PeerGoneAfterStoring, TrayClick
<1> QED BY <1>1, <1>2

Sends(ms) == toDaemon' = IF Serving THEN toDaemon \o ms ELSE toDaemon
NoHello(ms) == \A i \in DOMAIN ms : ms[i].type # "ClientHello"

LEMMA ClientJoined ==
    ASSUME NEW q \in Seq(ClientMessage), NEW ms \in Seq(ClientMessage)
    PROVE  /\ q \o ms \in Seq(ClientMessage)
           /\ Len(q) \in Nat /\ Len(ms) \in Nat
           /\ DOMAIN (q \o ms) = 1..(Len(q) + Len(ms))
           /\ \A i \in DOMAIN q : i \in DOMAIN (q \o ms) /\ (q \o ms)[i] = q[i]
           /\ \A i \in DOMAIN ms :
                 Len(q) + i \in DOMAIN (q \o ms) /\ (q \o ms)[Len(q) + i] = ms[i]
           /\ \A i \in DOMAIN (q \o ms) : i \notin DOMAIN q =>
                 i - Len(q) \in DOMAIN ms /\ (q \o ms)[i] = ms[i - Len(q)]
           /\ q # <<>> => q \o ms # <<>> /\ Head(q \o ms) = Head(q)
<1>1. /\ q \o ms \in Seq(ClientMessage) /\ Len(q \o ms) = Len(q) + Len(ms)
      /\ \A i \in 1..(Len(q) + Len(ms)) :
            (q \o ms)[i] = IF i <= Len(q) THEN q[i] ELSE ms[i - Len(q)]
  BY ConcatProperties
<1>2. Len(q) \in Nat /\ Len(ms) \in Nat /\ DOMAIN q = 1..Len(q) /\ DOMAIN ms = 1..Len(ms)
  BY LenProperties
<1>3. DOMAIN (q \o ms) = 1..(Len(q) + Len(ms))
  BY <1>1, LenProperties
<1>4. \A i \in DOMAIN q : i \in DOMAIN (q \o ms) /\ (q \o ms)[i] = q[i]
  BY <1>1, <1>2, <1>3
<1>5. \A i \in DOMAIN ms :
         Len(q) + i \in DOMAIN (q \o ms) /\ (q \o ms)[Len(q) + i] = ms[i]
  BY <1>1, <1>2, <1>3
<1>6. \A i \in DOMAIN (q \o ms) : i \notin DOMAIN q =>
         i - Len(q) \in DOMAIN ms /\ (q \o ms)[i] = ms[i - Len(q)]
  BY <1>1, <1>2, <1>3
<1>7. ASSUME q # <<>> PROVE q \o ms # <<>> /\ Head(q \o ms) = Head(q)
  <2>1. q \o ms # <<>>
    BY <1>7, ConcatEqualIffEmpty
  <2>2. 1 \in DOMAIN q /\ Head(q) = q[1]
    BY <1>7, HeadTailProperties, EmptySeq, LenProperties
  <2>3. Head(q \o ms) = (q \o ms)[1]
    BY <1>1, <2>1, HeadTailProperties
  <2> QED BY <1>4, <2>1, <2>2, <2>3
<1> QED BY <1>1, <1>2, <1>3, <1>4, <1>5, <1>6, <1>7

LEMMA ClientShortened ==
    ASSUME NEW q \in Seq(ClientMessage), q # <<>>
    PROVE  /\ Head(q) = q[1] /\ q[1] \in ClientMessage /\ 1 \in DOMAIN q
           /\ Tail(q) \in Seq(ClientMessage) /\ Len(Tail(q)) = Len(q) - 1
           /\ Len(q) \in Nat /\ DOMAIN Tail(q) \subseteq Nat \ {0}
           /\ \A i \in DOMAIN Tail(q) : i + 1 \in DOMAIN q /\ Tail(q)[i] = q[i + 1]
           /\ \A i \in DOMAIN q : i > 1 => i - 1 \in DOMAIN Tail(q) /\ Tail(q)[i - 1] = q[i]
BY HeadTailProperties, LenProperties

LEMMA CorrectionSent ==
    ASSUME TypeOK
    PROVE  /\ Correction \in Seq(ClientMessage)
           /\ \A i \in DOMAIN Correction : Correction[i].type = "ReportCorrection"
<1>1. CASE window # None /\ window.corrected
  <2> DEFINE m == [type |-> "ReportCorrection", text |-> Edited(window.text)]
  <2>1. Correction = <<m>> /\ m.type = "ReportCorrection"
    BY <1>1 DEF Correction
  <2> HIDE DEF m
  <2> QED BY <2>1, CorrectionType
<1>2. CASE ~(window # None /\ window.corrected)
  BY <1>2, CorrectionType DEF Correction
<1> QED BY <1>1, <1>2

LEMMA ToggleSent ==
    ASSUME NEW ms \in Seq(ClientMessage), NoHello(ms)
    PROVE  /\ ms \o <<[type |-> "ToggleRecording"]>> \in Seq(ClientMessage)
           /\ NoHello(ms \o <<[type |-> "ToggleRecording"]>>)
<1> DEFINE m == [type |-> "ToggleRecording"]
           one == <<m>>
<1>1. m.type # "ClientHello" /\ m \in ClientMessage
  BY DEF ClientMessage
<1> HIDE DEF m
<1>2. one \in Seq(ClientMessage) /\ \A i \in DOMAIN one : one[i] = m
  BY <1>1
<1> HIDE DEF one
<1>3. ms \o one \in Seq(ClientMessage)
  BY <1>2, ClientJoined
<1>4. ASSUME NEW i \in DOMAIN (ms \o one) PROVE (ms \o one)[i].type # "ClientHello"
  <2>1. CASE i \in DOMAIN ms
    BY <1>2, <2>1, ClientJoined DEF NoHello
  <2>2. CASE i \notin DOMAIN ms
    <3>1. i - Len(ms) \in DOMAIN one /\ (ms \o one)[i] = one[i - Len(ms)]
      BY <1>2, <1>4, <2>2, ClientJoined
    <3> QED BY <1>1, <1>2, <3>1
  <2> QED BY <2>1, <2>2
<1> QED BY <1>3, <1>4 DEF NoHello, one, m

(* Whatever the engine and its user do, they say no second hello.          *)
LEMMA EngineSends ==
    ASSUME TypeOK, EngineReads \/ UserActs
    PROVE  \E ms \in Seq(ClientMessage) : Sends(ms) /\ NoHello(ms)
<1>1. <<>> \in Seq(ClientMessage) /\ NoHello(<<>>)
  BY DEF NoHello
<1>2. Correction \in Seq(ClientMessage) /\ NoHello(Correction)
  BY CorrectionSent DEF NoHello
<1>3. /\ <<[type |-> "CancelPreedit"]>> \in Seq(ClientMessage)
      /\ NoHello(<<[type |-> "CancelPreedit"]>>)
  BY ClientSends DEF NoHello
<1>4. CASE ReadStatus
  BY <1>1, <1>2, <1>4 DEF ReadStatus, Send, Sends
<1>5. CASE ReadPartial \/ ReadError \/ ReadReview \/ ReadEditHistory
  BY <1>1, <1>5 DEF ReadPartial, ReadError, ReadReview, ReadEditHistory, Send, Sends
<1>6. CASE ReadReconcile
  BY <1>1, <1>2, <1>6 DEF ReadReconcile, Send, Sends
<1>7. CASE ReadReconcileWithoutTarget
  BY <1>1, <1>3, <1>7 DEF ReadReconcileWithoutTarget, Send, Sends
<1>8. CASE KeyTrigger
  <2> DEFINE before == IF estate = "reviewing" THEN Correction ELSE <<>>
  <2>1. before \in Seq(ClientMessage) /\ NoHello(before)
    BY <1>1, <1>2
  <2>2. Send(before \o <<[type |-> "ToggleRecording"]>>)
    BY <1>8 DEF KeyTrigger
  <2> HIDE DEF before
  <2> QED BY <2>1, <2>2, ToggleSent DEF Send, Sends
<1>9. CASE KeyEscape \/ CancelReview
  BY <1>3, <1>9 DEF KeyEscape, CancelReview, Send, Sends
<1>10. CASE KeyEdits
  <2>1. toDaemon \o <<>> = toDaemon
    BY ConcatEmptySeq DEF TypeOK, LinkTypeOK
  <2>2. Sends(<<>>)
    BY <1>10, <2>1 DEF KeyEdits, linkVars, Sends
  <2> QED BY <1>1, <2>2
<1>11. CASE CloseWindow
  BY <1>2, <1>11 DEF CloseWindow, Send, Sends
<1>12. CASE ConfirmReview
  <2>1. dialog.text \in Text /\ Edited(dialog.text) \in Text
    BY <1>12, Texts DEF ConfirmReview, Answer, TypeOK, EngineTypeOK, Dialog
  <2>2. PICK t \in Text : Send(<<[type |-> "CommitPreedit", text |-> t]>>)
    BY <1>12, <2>1 DEF ConfirmReview
  <2> DEFINE m == [type |-> "CommitPreedit", text |-> t]
  <2>3. <<m>> \in Seq(ClientMessage) /\ m.type # "ClientHello"
    BY ClientTextSends
  <2>4. Send(<<m>>)
    BY <2>2
  <2> HIDE DEF m
  <2>5. NoHello(<<m>>)
    BY <2>3 DEF NoHello
  <2> QED BY <2>3, <2>4, <2>5 DEF Send, Sends
<1>13. CASE ConfirmHistoryEdit
  <2>1. Edited(dialog.text) \in Text /\ dialog.id \in Take
    BY <1>13, Texts DEF ConfirmHistoryEdit, Answer, TypeOK, EngineTypeOK, Dialog
  <2> DEFINE m == [type |-> "HistoryEdited", id |-> dialog.id,
                   text |-> Edited(dialog.text)]
  <2>2. <<m>> \in Seq(ClientMessage) /\ m.type # "ClientHello"
    BY <2>1, HistoryEditedSend
  <2>3. Send(<<m>>)
    BY <1>13 DEF ConfirmHistoryEdit
  <2> HIDE DEF m
  <2>4. NoHello(<<m>>)
    BY <2>2 DEF NoHello
  <2> QED BY <2>2, <2>3, <2>4 DEF Send, Sends
<1>14. CASE CancelHistoryEdit
  BY <1>1, <1>14 DEF CancelHistoryEdit, Send, Sends
<1> QED
  BY <1>4, <1>5, <1>6, <1>7, <1>8, <1>9, <1>10, <1>11, <1>12, <1>13, <1>14
  DEF EngineReads, UserActs

(* While the socket is swapped nobody sends: the reader and the dialogs    *)
(* rest, and the user waits.                                               *)
LEMMA EngineWaits ==
    ASSUME HelloInv, ~Early, EngineReads \/ UserActs
    PROVE  link # "swapped"
<1>1. CASE EngineReads
  BY <1>1
  DEF EngineReads, ReadStatus, ReadPartial, ReadReconcile,
      ReadReconcileWithoutTarget, ReadReview, ReadEditHistory, ReadError, Read
<1>2. CASE KeyTrigger \/ KeyEscape \/ KeyEdits \/ CloseWindow
  BY <1>2 DEF KeyTrigger, KeyEscape, KeyEdits, CloseWindow, UserKey
<1>3. CASE ConfirmReview \/ CancelReview \/ ConfirmHistoryEdit \/ CancelHistoryEdit
  BY <1>3
  DEF ConfirmReview, CancelReview, ConfirmHistoryEdit, CancelHistoryEdit, Answer,
      HelloInv
<1> QED BY <1>1, <1>2, <1>3 DEF UserActs

LEMMA HelloSent ==
    ASSUME TypeOK, HelloInv, ~Early, EngineReads \/ UserActs
    PROVE  HelloInv'
<1>1. PICK ms \in Seq(ClientMessage) : Sends(ms) /\ NoHello(ms)
  BY EngineSends
<1>2. toDaemon \in Seq(ClientMessage)
  BY DEF TypeOK, LinkTypeOK
<1>3. link' = link /\ UNCHANGED daemonVars /\ link # "swapped"
  BY ReaderBelieves, UserLeaves, EngineWaits
<1>4. hello' = hello /\ mic' = mic /\ last' = last /\ icon' = icon
  BY <1>3 DEF daemonVars, micVars, statusVars, trayVars
<1>5. ASSUME Serving, ~hello PROVE toEngine' = <<>>
  <2>1. toEngine = <<>> /\ link = "greeting"
    BY <1>3, <1>5 DEF HelloInv, Serving
  <2> QED BY <2>1, ReaderBelieves, UserLeaves
<1>6. CASE Serving
  <2>1. toDaemon' = toDaemon \o ms
    BY <1>1, <1>6 DEF Sends
  <2>2. link = "greeting" /\ ~hello =>
            toDaemon' # <<>> /\ Head(toDaemon').type = "ClientHello"
    BY <1>1, <1>2, <2>1, ClientJoined DEF HelloInv
  <2>3. ASSUME NEW i \in DOMAIN toDaemon', toDaemon'[i].type = "ClientHello"
        PROVE  i = 1 /\ ~hello
    <3>1. CASE i \in DOMAIN toDaemon
      BY <1>1, <1>2, <1>6, <2>1, <2>3, <3>1, ClientJoined DEF HelloInv
    <3>2. CASE i \notin DOMAIN toDaemon
      BY <1>1, <1>2, <2>1, <2>3, <3>2, ClientJoined DEF NoHello
    <3> QED BY <3>1, <3>2
  <2> QED BY <1>3, <1>4, <1>5, <1>6, <2>2, <2>3 DEF HelloInv, Serving
<1>7. CASE ~Serving
  BY <1>3, <1>4, <1>7 DEF HelloInv, Serving
<1> QED BY <1>6, <1>7

LEMMA HelloHeard ==
    ASSUME TypeOK, HelloInv, ~Early, DaemonReads \/ DaemonActs
    PROVE  HelloInv'
<1>0. toDaemon \in Seq(ClientMessage)
  BY DEF TypeOK, LinkTypeOK
<1>1. CASE OnClientHello
  <2>1. /\ toDaemon # <<>> /\ Head(toDaemon).type = "ClientHello"
        /\ toDaemon' = Tail(toDaemon) /\ Serving
        /\ hello' = TRUE /\ last' = FALSE
        /\ link' = link /\ mic' = mic /\ icon' = icon
    BY <1>1 DEF OnClientHello, Receive, micVars, trayVars
  <2>2. 1 \in DOMAIN toDaemon /\ toDaemon[1].type = "ClientHello"
    BY <1>0, <2>1, ClientShortened
  <2>3. ~hello /\ link = "greeting" /\ mic = 0 /\ icon = FALSE
    BY <2>1, <2>2 DEF HelloInv, Serving
  <2>4. \A i \in DOMAIN toDaemon' : toDaemon'[i].type # "ClientHello"
    <3>1. \A i \in DOMAIN Tail(toDaemon) :
            /\ i + 1 \in DOMAIN toDaemon /\ Tail(toDaemon)[i] = toDaemon[i + 1]
            /\ i \in Nat \ {0}
      BY <1>0, <2>1, ClientShortened
    <3> QED BY <2>1, <3>1 DEF HelloInv
  <2> QED BY <2>1, <2>3, <2>4 DEF HelloInv, Serving
<1>2. CASE DropClient
  BY <1>2 DEF DropClient, HelloInv, Serving
<1>3. CASE ~OnClientHello /\ ~DropClient
  <2>1. /\ Speaks /\ Hears /\ Lit'
        /\ link' = link /\ dialog' = dialog
    BY <1>3, DaemonSpeaks, DaemonHears, DaemonLights DEF Lit, HelloInv, engineVars
  <2>2. hello' = hello /\ (Serving => hello)
    BY <1>3, <2>1, DaemonWaits DEF Speaks, Says
  <2>3. CASE Serving
    <3>1. ASSUME NEW i \in DOMAIN toDaemon' PROVE toDaemon'[i].type # "ClientHello"
      <4>1. \A j \in DOMAIN toDaemon : toDaemon[j].type # "ClientHello"
        BY <2>2, <2>3 DEF HelloInv
      <4>2. CASE toDaemon' = toDaemon
        BY <3>1, <4>1, <4>2
      <4>3. CASE toDaemon # <<>> /\ toDaemon' = Tail(toDaemon)
        <5>1. i + 1 \in DOMAIN toDaemon /\ toDaemon'[i] = toDaemon[i + 1]
          BY <1>0, <3>1, <4>3, ClientShortened
        <5> QED BY <4>1, <5>1
      <4> QED BY <2>1, <4>2, <4>3 DEF Hears
    <3>2. link # "swapped"
      BY <2>2, <2>3 DEF HelloInv
    <3> QED BY <2>1, <2>2, <2>3, <3>1, <3>2 DEF HelloInv, Serving, Lit
  <2>4. CASE ~Serving
    <3>1. ~hello => mic' = 0
      BY <2>4, DaemonRests DEF HelloInv
    <3> QED BY <2>1, <2>2, <2>4, <3>1 DEF HelloInv, Serving, Lit
  <2> QED BY <2>3, <2>4
<1> QED BY <1>1, <1>2, <1>3

LEMMA HelloStep ==
    ASSUME TypeOK, HelloInv, ~Early, [Next]_vars, MirrorInv
    PROVE  HelloInv'
<1>1. CASE UNCHANGED vars
  BY <1>1
  DEF vars, linkVars, daemonVars, micVars, statusVars, trayVars, engineVars, HelloInv,
      Serving
<1>2. CASE DaemonReads \/ DaemonActs
  BY <1>2, HelloHeard
<1>3. CASE EngineReads \/ UserActs
  BY <1>3, HelloSent
<1>4. CASE EngineConnects
  <2>1. UNCHANGED <<hello, mic, last, icon>>
    BY <1>4
    DEF EngineConnects, Connect, SendHello, Greeted, HandshakeFails, daemonVars,
        micVars, statusVars, trayVars
  <2>2. CASE Connect
    <3> DEFINE m == [type |-> "ClientHello"]
    <3>1. \A i \in DOMAIN <<m>> : i = 1
      OBVIOUS
    <3>2. Head(<<m>>) = m /\ <<m>> # <<>>
      OBVIOUS
    <3>3. ~hello /\ link' \in {"swapped", "greeting"} /\ toEngine' = <<>>
          /\ dialog' = None
      BY <2>2 DEF Connect, MirrorInv, engineVars
    <3>4. CASE alive
      BY <2>1, <2>2, <3>3, <3>4 DEF Connect, HelloInv, Serving
    <3>5. CASE ~alive
      <4>1. link' = "greeting" /\ toDaemon' = <<m>>
        BY <2>2, <3>5 DEF Connect
      <4>2. m.type = "ClientHello"
        OBVIOUS
      <4> HIDE DEF m
      <4> QED BY <2>1, <3>1, <3>2, <3>3, <4>1, <4>2 DEF HelloInv, Serving
    <3> QED BY <3>4, <3>5
  <2>3. CASE SendHello
    <3> DEFINE m == [type |-> "ClientHello"]
    <3>1. /\ toDaemon = <<>> /\ ~hello /\ toEngine = <<>> /\ link' = "greeting"
          /\ toEngine' = toEngine /\ toDaemon' = Append(toDaemon, m)
      BY <2>3 DEF SendHello, HelloInv, Serving
    <3>2. toDaemon' = <<m>> /\ m.type = "ClientHello"
      BY <3>1
    <3> HIDE DEF m
    <3>3. Head(<<m>>) = m /\ <<m>> # <<>> /\ \A i \in DOMAIN <<m>> : i = 1
      OBVIOUS
    <3> QED BY <2>1, <3>1, <3>2, <3>3 DEF HelloInv, Serving
  <2>4. CASE Greeted
    <3>1. hello /\ link' = "up" /\ toDaemon' = toDaemon /\ Serving
      BY <2>4 DEF Greeted, HelloInv, Serving
    <3> QED BY <2>1, <3>1 DEF HelloInv, Serving
  <2>5. CASE HandshakeFails
    BY <2>1, <2>5 DEF HandshakeFails, HelloInv, Serving
  <2> QED BY <1>4, <2>2, <2>3, <2>4, <2>5 DEF EngineConnects
<1>5. CASE ProcessDies
  <2>1. CASE EngineExit
    BY <2>1
    DEF EngineExit, HelloInv, Serving, daemonVars, micVars, statusVars, trayVars
  <2>2. CASE \E stored, sent : DaemonDies(stored, sent)
    BY <2>2 DEF DaemonDies, HelloInv, Serving
  <2> QED
    BY <1>5, <2>1, <2>2
    DEF ProcessDies, DaemonDiesBetweenHandlers, DaemonDiesDecoding,
        DaemonDiesAfterCreating, DaemonDiesAfterCommitting
<1> QED BY <1>1, <1>2, <1>3, <1>4, <1>5 DEF Next

(* A daemon that dies has told nothing new, nor has a stop to announce that  *)
(* a take is in flight.                                                      *)
LEMMA DeathTells ==
    ASSUME TypeOK, HelloInv, ProcessDies
    PROVE  toEngine' = toEngine \/ toEngine' = <<>>
<1>1. mic # 0 => StatusPush(TRUE) = <<>>
  BY DEF HelloInv, StatusPush
<1>2. toEngine \o <<>> = toEngine
  BY ConcatEmptySeq DEF TypeOK, LinkTypeOK
<1> QED
  BY <1>1, <1>2
  DEF ProcessDies, EngineExit, DaemonDiesBetweenHandlers, DaemonDiesDecoding,
      DaemonDiesAfterCreating, DaemonDiesAfterCommitting, DaemonDies

LEMMA DecodingKnown ==
    ASSUME hello, last = TRUE, NEW ms \in Seq(ServerMessage)
    PROVE  Decoding(ms) = ms \o StatusPush(FALSE)
<1>1. StatusPush(TRUE) = <<>> /\ StatusPush(FALSE) = Ended
  BY DEF StatusPush, Ended
<1>2. <<>> \o ms = ms
  BY ConcatEmptySeq
<1> QED BY <1>1, <1>2 DEF Decoding, Ended

-----------------------------------------------------------------------------
(* Where the setting stays as it is, the daemon either previews a take or  *)
(* sends it to the dialog, and a preview ends with the recording it is of. *)

Reviewing == dialog # None /\ dialog.kind = "review"

PreviewInv ==
    /\ preview # {} /\ link = "up" => estate = "recording"
    /\ review =>
          preview = {} /\ \A i \in DOMAIN toEngine : toEngine[i].type # "Partial"
    /\ ~review =>
          ~Reviewing /\ \A i \in DOMAIN toEngine : toEngine[i].type # "Review"

LEMMA SettingStays ==
    ASSUME ~ModeSwitch, Next
    PROVE  review' = review
<1>1. CASE DaemonReads
  BY <1>1
  DEF DaemonReads, OnClientHello, OnToggleRecording, OnCommitPreedit,
      OnReportCorrection, OnCancelPreedit, OnHistoryEdited, PeerGone, DropClient,
      CancelTake, StartLiveCapture, StopLiveAndTranscribe
<1>2. CASE DaemonActs
  BY <1>2
  DEF DaemonActs, TrayStart, TrayStop, TrayCancel, TraySetting, TrayEdit,
      PumpPartial, AutoStop, PeerGoneAfterStoring, DropClient, CancelTake,
      StartLiveCapture, StopLiveAndTranscribe, daemonVars
<1>3. CASE EngineReads
  BY <1>3
  DEF EngineReads, ReadStatus, ReadPartial, ReadReconcile,
      ReadReconcileWithoutTarget, ReadReview, ReadEditHistory, ReadError, Send,
      daemonVars
<1>4. CASE EngineConnects
  BY <1>4 DEF EngineConnects, Connect, SendHello, Greeted, HandshakeFails, daemonVars
<1>5. CASE UserActs
  BY <1>5, UserLeaves DEF daemonVars
<1>6. CASE ProcessDies
  BY <1>6
  DEF ProcessDies, EngineExit, DaemonDiesBetweenHandlers, DaemonDiesDecoding,
      DaemonDiesAfterCreating, DaemonDiesAfterCommitting, DaemonDies, daemonVars
<1> QED BY <1>1, <1>2, <1>3, <1>4, <1>5, <1>6 DEF Next

(* The engine's handlers and the preview. *)
LEMMA PreviewRead ==
    ASSUME TypeOK, PreviewInv, EngineReads, review' = review
    PROVE  PreviewInv'
<1>0. /\ toEngine # <<>> /\ toEngine' = Tail(toEngine) /\ link' = link
      /\ toEngine \in Seq(ServerMessage)
  BY ReaderBelieves DEF TypeOK, LinkTypeOK
<1>1. \A i \in DOMAIN toEngine' : i + 1 \in DOMAIN toEngine /\ toEngine'[i] = toEngine[i + 1]
  BY <1>0, Shortened
<1>2. Head(toEngine) = toEngine[1] /\ 1 \in DOMAIN toEngine
  BY <1>0, Shortened
<1>3. review => \A i \in DOMAIN toEngine' : toEngine'[i].type # "Partial"
  BY <1>1 DEF PreviewInv
<1>4. ~review => \A i \in DOMAIN toEngine' : toEngine'[i].type # "Review"
  BY <1>1 DEF PreviewInv
<1>5. /\ preview' # {} /\ link = "up" => estate' = "recording"
      /\ review => preview' = {}
      /\ ~review => ~Reviewing'
  <2>1. CASE ReadStatus
    BY <2>1 DEF ReadStatus, PreviewInv, Reviewing
  <2>2. CASE ReadPartial
    BY <1>2, <2>2 DEF ReadPartial, Read, PreviewInv, Reviewing
  <2>3. CASE ReadReconcile \/ ReadReconcileWithoutTarget \/ ReadError
    BY <2>3
    DEF ReadReconcile, ReadReconcileWithoutTarget, ReadError, PreviewInv, Reviewing
  <2>4. CASE ReadReview
    BY <1>2, <2>4 DEF ReadReview, Read, PreviewInv, sessionVars
  <2>5. CASE ReadEditHistory
    <3>1. dialog'.kind = "history" /\ UNCHANGED <<estate, preview>>
      BY <2>5 DEF ReadEditHistory, sessionVars
    <3> QED BY <3>1 DEF PreviewInv, Reviewing
  <2> QED BY <2>1, <2>2, <2>3, <2>4, <2>5 DEF EngineReads
<1> QED BY <1>0, <1>3, <1>4, <1>5 DEF PreviewInv

LEMMA PreviewUsed ==
    ASSUME TypeOK, PreviewInv, UserActs, review' = review
    PROVE  PreviewInv'
<1>0. link' = link /\ toEngine' = toEngine
  BY UserLeaves
<1>1. CASE KeyTrigger
  BY <1>0, <1>1 DEF KeyTrigger, PreviewInv, Reviewing
<1>2. CASE KeyEscape
  BY <1>0, <1>2 DEF KeyEscape, PreviewInv, Reviewing
<1>3. CASE KeyEdits \/ CloseWindow
  BY <1>0, <1>3 DEF KeyEdits, CloseWindow, PreviewInv, Reviewing
<1>4. CASE ConfirmReview \/ CancelReview
  <2>1. Reviewing /\ dialog' = None /\ preview' = preview
    BY <1>4 DEF ConfirmReview, CancelReview, Answer, Reviewing
  <2> QED BY <1>0, <2>1 DEF PreviewInv, Reviewing
<1>5. CASE ConfirmHistoryEdit \/ CancelHistoryEdit
  BY <1>0, <1>5
  DEF ConfirmHistoryEdit, CancelHistoryEdit, Answer, PreviewInv, Reviewing, sessionVars
<1> QED BY <1>1, <1>2, <1>3, <1>4, <1>5 DEF UserActs

(* What the daemon adds to the queue of a client. *)
LEMMA DaemonAdds ==
    ASSUME TypeOK, DaemonReads \/ DaemonActs
    PROVE  \/ DropClient
           \/ /\ UNCHANGED <<link, engineVars>>
              /\ \E ms \in Seq(ServerMessage) :
                    /\ toEngine' = toEngine \o ms
                    /\ \A i \in DOMAIN ms :
                          /\ ms[i].type = "Review" => review
                          /\ ms[i].type = "Partial" => ~review
<1>1. CASE OnClientHello
  <2> DEFINE a == [type |-> "ServerHello"]
             f == [type |-> "RecordingStatus", recording |-> FALSE]
  <2>1. toEngine' = toEngine \o <<a, f>> /\ UNCHANGED <<link, engineVars>>
    BY <1>1 DEF OnClientHello, Push, Receive
  <2>2. <<a, f>> \in Seq(ServerMessage)
    BY HelloPush
  <2>3. a.type = "ServerHello" /\ f.type = "RecordingStatus"
    OBVIOUS
  <2> HIDE DEF a, f
  <2>4. \A i \in DOMAIN <<a, f>> : <<a, f>>[i].type \notin {"Review", "Partial"}
    BY <2>3
  <2> QED BY <2>1, <2>2, <2>4
<1>2. CASE Speaks /\ UNCHANGED <<link, engineVars>>
  BY <1>2 DEF Speaks, Says, Push
<1> QED BY <1>1, <1>2, DaemonSpeaks

LEMMA PreviewSaid ==
    ASSUME TypeOK, PreviewInv, DaemonReads \/ DaemonActs, review' = review
    PROVE  PreviewInv'
<1>1. CASE DropClient
  BY <1>1 DEF DropClient, PreviewInv, Reviewing, engineVars, sessionVars
<1>2. CASE /\ UNCHANGED <<link, engineVars>>
           /\ \E ms \in Seq(ServerMessage) :
                /\ toEngine' = toEngine \o ms
                /\ \A i \in DOMAIN ms :
                      /\ ms[i].type = "Review" => review
                      /\ ms[i].type = "Partial" => ~review
  <2>1. PICK ms \in Seq(ServerMessage) :
            /\ toEngine' = toEngine \o ms
            /\ \A i \in DOMAIN ms :
                  /\ ms[i].type = "Review" => review
                  /\ ms[i].type = "Partial" => ~review
    BY <1>2
  <2>2. toEngine \in Seq(ServerMessage)
    BY DEF TypeOK, LinkTypeOK
  <2>3. ASSUME NEW i \in DOMAIN toEngine'
        PROVE  /\ review => toEngine'[i].type # "Partial"
               /\ ~review => toEngine'[i].type # "Review"
    <3>1. CASE i \in DOMAIN toEngine
      <4>1. toEngine'[i] = toEngine[i]
        BY <2>1, <2>2, <3>1, Joined
      <4> QED BY <3>1, <4>1 DEF PreviewInv
    <3>2. CASE i \notin DOMAIN toEngine
      <4>1. i - Len(toEngine) \in DOMAIN ms /\ toEngine'[i] = ms[i - Len(toEngine)]
        BY <2>1, <2>2, <2>3, <3>2, Joined
      <4> QED BY <2>1, <4>1
    <3> QED BY <3>1, <3>2
  <2> QED BY <1>2, <2>3 DEF PreviewInv, Reviewing, engineVars, sessionVars
<1> QED BY <1>1, <1>2, DaemonAdds

LEMMA PreviewStep ==
    ASSUME TypeOK, HelloInv, PreviewInv, ~ModeSwitch, [Next]_vars
    PROVE  PreviewInv'
<1>1. CASE UNCHANGED vars
  BY <1>1
  DEF vars, linkVars, daemonVars, engineVars, sessionVars, PreviewInv, Reviewing
<1>2. CASE Next
  <2>0. review' = review
    BY <1>2, SettingStays
  <2>1. CASE DaemonReads \/ DaemonActs
    BY <2>0, <2>1, PreviewSaid
  <2>2. CASE EngineReads
    BY <2>0, <2>2, PreviewRead
  <2>3. CASE UserActs
    BY <2>0, <2>3, PreviewUsed
  <2>4. CASE Connect \/ SendHello \/ HandshakeFails
    <3>1. CASE Connect \/ SendHello
      BY <2>0, <3>1
      DEF Connect, SendHello, PreviewInv, Reviewing, engineVars, sessionVars
    <3>2. CASE HandshakeFails
      BY <2>0, <3>2 DEF HandshakeFails, PreviewInv, Reviewing, engineVars, sessionVars
    <3> QED BY <2>4, <3>1, <3>2
  <2>5. CASE Greeted
    <3>1. toEngine \in Seq(ServerMessage) /\ toEngine # <<>>
      BY <2>5 DEF Greeted, TypeOK, LinkTypeOK
    <3>2. /\ toEngine' = Tail(toEngine) /\ preview' = {} /\ dialog' = dialog
      BY <2>5 DEF Greeted, EngineIdle
    <3>3. \A i \in DOMAIN toEngine' :
             i + 1 \in DOMAIN toEngine /\ toEngine'[i] = toEngine[i + 1]
      BY <3>1, <3>2, Shortened
    <3> QED BY <2>0, <3>2, <3>3 DEF PreviewInv, Reviewing
  <2>6. CASE EngineExit
    BY <2>0, <2>6 DEF EngineExit, EngineIdle, PreviewInv, Reviewing
  <2>7. CASE ProcessDies /\ ~EngineExit
    <3>1. toEngine' = toEngine \/ toEngine' = <<>>
      BY <2>7, DeathTells
    <3>2. /\ link' = "down"
          /\ UNCHANGED engineVars
      BY <2>7
      DEF ProcessDies, DaemonDiesBetweenHandlers, DaemonDiesDecoding,
          DaemonDiesAfterCreating, DaemonDiesAfterCommitting, DaemonDies
    <3> QED BY <2>0, <3>1, <3>2 DEF PreviewInv, Reviewing, engineVars, sessionVars
  <2> QED
    BY <1>2, <2>1, <2>2, <2>3, <2>4, <2>5, <2>6, <2>7
    DEF Next, EngineConnects, ProcessDies
<1> QED BY <1>1, <1>2

-----------------------------------------------------------------------------
(* An ending finds an engine that knows the take is over, or is about to   *)
(* be told.                                                                *)

EndingKnown(i) ==
    \/ Shows(toEngine, i, erec, FALSE)
    \/ \E j \in DOMAIN toEngine : j > i /\ IsStop(toEngine[j])

EndingInv ==
    hello /\ Serving =>
        \A i \in DOMAIN toEngine : toEngine[i].type \in Ending => EndingKnown(i)

LEMMA EndingSaid ==
    ASSUME TypeOK, MirrorInv, HelloInv, EndingInv, Speaks, UNCHANGED <<link, erec>>
    PROVE  EndingInv'
<1> DEFINE q == toEngine
<1>1. PICK ms \in Seq(ServerMessage), b \in BOOLEAN : Says(ms, b)
  BY DEF Speaks
<1>2. q \in Seq(ServerMessage) /\ toEngine' = q \o ms /\ last' = b /\ hello' = hello
  BY <1>1 DEF TypeOK, LinkTypeOK, Says, Push
<1>3. ASSUME hello, Serving, NEW i \in DOMAIN toEngine', toEngine'[i].type \in Ending
      PROVE  EndingKnown(i)'
  <2>1. CASE i \in DOMAIN q
    <3>1. toEngine'[i] = q[i] /\ EndingKnown(i)
      BY <1>2, <1>3, <2>1, Joined DEF EndingInv
    <3>2. CASE Shows(q, i, erec, FALSE)
      <4>1. i \in 1..(Len(q) + 1)
        BY <1>2, <2>1, LenProperties
      <4>2. Shows(q \o ms, i, erec, FALSE)
        BY <1>2, <3>2, <4>1, ShowsMore
      <4> QED BY <1>2, <4>2 DEF EndingKnown
    <3>3. CASE \E j \in DOMAIN q : j > i /\ IsStop(q[j])
      <4>1. PICK j \in DOMAIN q : j > i /\ IsStop(q[j])
        BY <3>3
      <4>2. j \in DOMAIN toEngine' /\ toEngine'[j] = q[j]
        BY <1>2, <4>1, Joined, LenProperties
      <4> QED BY <4>1, <4>2 DEF EndingKnown
    <3> QED BY <3>1, <3>2, <3>3 DEF EndingKnown
  <2>2. CASE i \notin DOMAIN q
    <3> DEFINE k == i - Len(q)
    <3>1. k \in DOMAIN ms /\ toEngine'[i] = ms[k] /\ i = Len(q) + k
      BY <1>2, <1>3, <2>2, Joined
    <3>2. ~b \/ (mic = 0 /\ b = last)
      BY <1>1, <1>3, <3>1 DEF Says
    <3>3. last = (mic # 0)
      BY DEF HelloInv
    <3>4. ~b
      BY <3>2, <3>3
    <3>5. Shows(q, Len(q) + 1, erec, last)
      BY <1>3 DEF MirrorInv
    <3> HIDE DEF k
    <3>6. CASE last = FALSE /\ \A n \in DOMAIN ms : ~IsStatus(ms[n])
      <4>1. \A n \in DOMAIN ms : ~IsStatus(ms[n])
        BY <3>6
      <4>2. Shows(q \o ms, Len(q) + k, erec, FALSE)
        BY <1>2, <3>1, <3>5, <3>6, <4>1, ShowsNoNews
      <4> QED BY <1>2, <3>1, <4>2 DEF EndingKnown
    <3>7. CASE ms # <<>> /\ IsStop(ms[Len(ms)])
      <4>1. ms # <<>> /\ IsStop(ms[Len(ms)])
        BY <3>7
      <4>2. Len(ms) \in DOMAIN ms /\ k <= Len(ms)
        BY <3>1, <4>1, EmptySeq, LenProperties
      <4>3. k # Len(ms)
        BY <1>3, <3>1, <4>1 DEF IsStop, IsStatus, Ending
      <4>4. /\ Len(q) + Len(ms) \in DOMAIN toEngine'
            /\ toEngine'[Len(q) + Len(ms)] = ms[Len(ms)]
        BY <1>2, <4>2, Joined
      <4>5. Len(q) + Len(ms) > i
        <5>1. Len(q) \in Nat /\ Len(ms) \in Nat /\ k \in Nat
          BY <1>2, <3>1, LenProperties
        <5> QED BY <3>1, <4>2, <4>3, <5>1
      <4> QED BY <4>1, <4>4, <4>5 DEF EndingKnown
    <3>8. Announces(ms, b) /\ b \in BOOLEAN /\ hello
      BY <1>1, <1>3 DEF Says
    <3> QED BY <3>4, <3>6, <3>7, <3>8 DEF Announces, IsStop
  <2> QED BY <2>1, <2>2
<1> QED BY <1>2, <1>3 DEF EndingInv, Serving

LEMMA EndingGreets ==
    ASSUME TypeOK, HelloInv, OnClientHello
    PROVE  EndingInv'
<1> DEFINE a == [type |-> "ServerHello"]
           f == [type |-> "RecordingStatus", recording |-> FALSE]
<1>1. Serving /\ ~hello
  <2>1. Serving /\ toDaemon # <<>> /\ Head(toDaemon).type = "ClientHello"
    BY DEF OnClientHello, Receive
  <2>2. 1 \in DOMAIN toDaemon /\ toDaemon[1].type = "ClientHello"
    BY <2>1, ClientShortened DEF TypeOK, LinkTypeOK
  <2> QED BY <2>1, <2>2 DEF HelloInv
<1>2. toEngine = <<>>
  BY <1>1 DEF HelloInv
<1>3. toEngine' = <<a, f>>
  BY <1>2 DEF OnClientHello, Push
<1>4. a.type = "ServerHello" /\ f.type = "RecordingStatus"
  OBVIOUS
<1> HIDE DEF a, f
<1>5. \A i \in DOMAIN <<a, f>> : <<a, f>>[i].type \notin Ending
  BY <1>4 DEF Ending
<1> QED BY <1>3, <1>5 DEF EndingInv

(* One message less, and the belief it leaves. *)
LEMMA EndingTaken ==
    ASSUME TypeOK, EndingInv, hello, Serving, toEngine # <<>>,
           NEW held,
           held = IF IsStatus(Head(toEngine)) THEN Head(toEngine).recording ELSE erec,
           NEW i \in DOMAIN Tail(toEngine), Tail(toEngine)[i].type \in Ending
    PROVE  \/ Shows(Tail(toEngine), i, held, FALSE)
           \/ \E j \in DOMAIN Tail(toEngine) : j > i /\ IsStop(Tail(toEngine)[j])
<1> DEFINE q == toEngine
           t == Tail(toEngine)
<1>0. q \in Seq(ServerMessage)
  BY DEF TypeOK, LinkTypeOK
<1>1. i + 1 \in DOMAIN q /\ t[i] = q[i + 1]
  BY <1>0, Shortened
<1>2. i \in Nat /\ i + 1 > 1
  BY <1>0, Shortened, LenProperties
<1>3. EndingKnown(i + 1)
  BY <1>1 DEF EndingInv
<1>4. CASE Shows(q, i + 1, erec, FALSE)
  <2>1. PICK n \in Nat : n = i + 1
    BY <1>2
  <2>2. n > 1 /\ n - 1 = i
    BY <1>2, <2>1
  <2> HIDE DEF t, q
  <2>3. Shows(Tail(q), n - 1,
              IF IsStatus(Head(q)) THEN Head(q).recording ELSE erec, FALSE)
    <3>1. Shows(q, n, erec, FALSE)
      BY <1>4, <2>1
    <3> QED BY <1>0, <2>2, <3>1, ShowsTail DEF q
  <2> QED BY <2>2, <2>3 DEF t, q
<1>5. CASE \E j \in DOMAIN q : j > i + 1 /\ IsStop(q[j])
  <2>1. PICK j \in DOMAIN q : j > i + 1 /\ IsStop(q[j])
    BY <1>5
  <2>2. j \in Nat /\ j > 1
    BY <1>0, <1>2, <2>1, LenProperties
  <2>3. j - 1 \in DOMAIN t /\ t[j - 1] = q[j]
    BY <1>0, <2>1, <2>2, Shortened
  <2>4. j - 1 > i
    BY <1>2, <2>1, <2>2
  <2> QED BY <2>1, <2>3, <2>4
<1> QED BY <1>3, <1>4, <1>5 DEF EndingKnown

LEMMA EndingRead ==
    ASSUME TypeOK, EndingInv, EngineReads
    PROVE  EndingInv'
<1>1. /\ toEngine # <<>> /\ toEngine' = Tail(toEngine)
      /\ erec' = IF IsStatus(Head(toEngine)) THEN Head(toEngine).recording ELSE erec
      /\ link' = link /\ hello' = hello
  BY ReaderBelieves DEF daemonVars, statusVars
<1>2. ASSUME hello, Serving, NEW i \in DOMAIN toEngine', toEngine'[i].type \in Ending
      PROVE  EndingKnown(i)'
  BY <1>1, <1>2, EndingTaken DEF EndingKnown
<1> QED BY <1>1, <1>2 DEF EndingInv, Serving

LEMMA EndingMeets ==
    ASSUME TypeOK, EndingInv, Greeted
    PROVE  EndingInv'
<1>1. /\ toEngine # <<>> /\ toEngine' = Tail(toEngine) /\ ~IsStatus(Head(toEngine))
      /\ erec' = FALSE /\ link = "greeting" /\ hello' = hello
  BY DEF Greeted, EngineIdle, IsStatus, daemonVars, statusVars
<1>2. ASSUME hello, NEW i \in DOMAIN toEngine', toEngine'[i].type \in Ending
      PROVE  EndingKnown(i)'
  <2>1. \/ Shows(Tail(toEngine), i, erec, FALSE)
        \/ \E j \in DOMAIN Tail(toEngine) : j > i /\ IsStop(Tail(toEngine)[j])
    BY <1>1, <1>2, EndingTaken DEF Serving
  <2>2. Shows(Tail(toEngine), i, erec, FALSE) => Shows(Tail(toEngine), i, FALSE, FALSE)
    BY DEF Shows
  <2> QED BY <1>1, <2>1, <2>2 DEF EndingKnown
<1> QED BY <1>1, <1>2 DEF EndingInv

LEMMA EndingStep ==
    ASSUME TypeOK, MirrorInv, HelloInv, EndingInv, [Next]_vars
    PROVE  EndingInv'
<1>1. CASE UNCHANGED vars
  BY <1>1
  DEF vars, linkVars, daemonVars, statusVars, engineVars, sessionVars, EndingInv,
      EndingKnown, Serving
<1>2. CASE DaemonReads \/ DaemonActs
  <2>1. CASE OnClientHello
    BY <2>1, EndingGreets
  <2>2. CASE DropClient
    BY <2>2 DEF DropClient, EndingInv, Serving
  <2>3. CASE Speaks /\ UNCHANGED <<link, engineVars, userVars, faults>>
    BY <2>3, EndingSaid DEF engineVars, sessionVars
  <2> QED BY <1>2, <2>1, <2>2, <2>3, DaemonSpeaks
<1>3. CASE EngineReads
  BY <1>3, EndingRead
<1>4. CASE EngineConnects
  <2>1. CASE Greeted
    BY <2>1, EndingMeets
  <2>2. CASE Connect \/ HandshakeFails
    BY <2>2
    DEF Connect, HandshakeFails, EndingInv, MirrorInv, Serving, daemonVars, statusVars
  <2>3. CASE SendHello
    BY <2>3
    DEF SendHello, EndingInv, EndingKnown, Serving, daemonVars, statusVars, engineVars,
        sessionVars
  <2> QED BY <1>4, <2>1, <2>2, <2>3 DEF EngineConnects
<1>5. CASE UserActs
  BY <1>5, UserLeaves DEF EndingInv, EndingKnown, Serving, daemonVars, statusVars
<1>6. CASE ProcessDies
  BY <1>6
  DEF ProcessDies, EngineExit, DaemonDiesBetweenHandlers, DaemonDiesDecoding,
      DaemonDiesAfterCreating, DaemonDiesAfterCommitting, DaemonDies, EndingInv, Serving
<1> QED BY <1>1, <1>2, <1>3, <1>4, <1>5, <1>6 DEF Next

-----------------------------------------------------------------------------
(* An engine that believes in a take and does not show it is being told    *)
(* that the take is over, or has told the daemon to end it.                *)

StopComes == \E j \in DOMAIN toEngine : IsStop(toEngine[j])
CancelComes == \E j \in DOMAIN toDaemon : toDaemon[j].type = "CancelPreedit"

TalkInv ==
    link = "up" =>
        /\ erec /\ (estate # "recording" \/ Reviewing) => StopComes \/ CancelComes
        /\ estate = "recording" => erec

(* Messages wait until they are read. *)
LEMMA StopWaits ==
    ASSUME TypeOK, StopComes,
           \/ \E ms \in Seq(ServerMessage) : toEngine' = toEngine \o ms
           \/ toEngine # <<>> /\ toEngine' = Tail(toEngine) /\ ~IsStop(Head(toEngine))
    PROVE  StopComes'
<1>0. toEngine \in Seq(ServerMessage)
  BY DEF TypeOK, LinkTypeOK
<1>1. PICK j \in DOMAIN toEngine : IsStop(toEngine[j])
  BY DEF StopComes
<1>2. CASE \E ms \in Seq(ServerMessage) : toEngine' = toEngine \o ms
  <2>1. PICK ms \in Seq(ServerMessage) : toEngine' = toEngine \o ms
    BY <1>2
  <2>2. j \in DOMAIN toEngine' /\ toEngine'[j] = toEngine[j]
    BY <1>0, <1>1, <2>1, Joined, LenProperties
  <2> QED BY <1>1, <2>2 DEF StopComes
<1>3. CASE toEngine # <<>> /\ toEngine' = Tail(toEngine) /\ ~IsStop(Head(toEngine))
  <2>1. j # 1
    BY <1>0, <1>1, <1>3, Shortened
  <2>2. j > 1
    BY <1>0, <1>1, <2>1, LenProperties
  <2>3. j - 1 \in DOMAIN toEngine' /\ toEngine'[j - 1] = toEngine[j]
    BY <1>0, <1>3, <2>2, Shortened
  <2> QED BY <1>1, <2>3 DEF StopComes
<1> QED BY <1>2, <1>3

LEMMA CancelWaits ==
    ASSUME TypeOK, CancelComes,
           \/ toDaemon' = toDaemon
           \/ \E ms \in Seq(ClientMessage) : toDaemon' = toDaemon \o ms
           \/ /\ toDaemon # <<>> /\ toDaemon' = Tail(toDaemon)
              /\ Head(toDaemon).type # "CancelPreedit"
    PROVE  CancelComes'
<1>0. toDaemon \in Seq(ClientMessage)
  BY DEF TypeOK, LinkTypeOK
<1>1. PICK j \in DOMAIN toDaemon : toDaemon[j].type = "CancelPreedit"
  BY DEF CancelComes
<1>2. CASE \E ms \in Seq(ClientMessage) : toDaemon' = toDaemon \o ms
  <2>1. PICK ms \in Seq(ClientMessage) : toDaemon' = toDaemon \o ms
    BY <1>2
  <2>2. j \in DOMAIN toDaemon' /\ toDaemon'[j] = toDaemon[j]
    BY <1>0, <1>1, <2>1, ClientJoined
  <2> QED BY <1>1, <2>2 DEF CancelComes
<1>3. CASE /\ toDaemon # <<>> /\ toDaemon' = Tail(toDaemon)
           /\ Head(toDaemon).type # "CancelPreedit"
  <2>1. j # 1
    BY <1>0, <1>1, <1>3, ClientShortened
  <2>2. j > 1
    BY <1>0, <1>1, <2>1, LenProperties
  <2>3. j - 1 \in DOMAIN toDaemon' /\ toDaemon'[j - 1] = toDaemon[j]
    BY <1>0, <1>3, <2>2, ClientShortened
  <2> QED BY <1>1, <2>3 DEF CancelComes
<1>4. CASE toDaemon' = toDaemon
  BY <1>1, <1>4 DEF CancelComes
<1> QED BY <1>2, <1>3, <1>4

LEMMA CancelSent ==
    ASSUME TypeOK, Serving, Send(<<[type |-> "CancelPreedit"]>>)
    PROVE  CancelComes'
<1> DEFINE m == [type |-> "CancelPreedit"]
<1>1. toDaemon \in Seq(ClientMessage) /\ toDaemon' = toDaemon \o <<m>>
  BY DEF TypeOK, LinkTypeOK, Send
<1>2. <<m>> \in Seq(ClientMessage) /\ m.type = "CancelPreedit"
  BY ClientSends
<1> HIDE DEF m
<1>3. 1 \in DOMAIN <<m>> /\ <<m>>[1] = m
  OBVIOUS
<1>4. /\ Len(toDaemon) + 1 \in DOMAIN toDaemon'
      /\ toDaemon'[Len(toDaemon) + 1] = m
  BY <1>1, <1>2, <1>3, ClientJoined
<1> QED BY <1>2, <1>4 DEF CancelComes

(* A queue at whose end the engine believes FALSE, and does not yet.       *)
LEMMA StopShown ==
    ASSUME Shows(toEngine, Len(toEngine) + 1, erec, FALSE), erec
    PROVE  StopComes
BY DEF Shows, StopComes, IsStop

LEMMA TalkHeard ==
    ASSUME TypeOK, MirrorInv', HelloInv, TalkInv, DaemonReads \/ DaemonActs
    PROVE  TalkInv'
<1>1. CASE DropClient
  BY <1>1 DEF DropClient, TalkInv
<1>2. CASE OnCancelPreedit
  <2>1. /\ link' = link /\ last' = FALSE /\ hello' = hello
        /\ UNCHANGED <<erec, estate, dialog>>
    BY <1>2
    DEF OnCancelPreedit, CancelTake, Publish, Receive, engineVars, sessionVars
  <2>2. ASSUME link = "up", erec PROVE StopComes'
    <3>1. Shows(toEngine', Len(toEngine') + 1, erec', FALSE)
      BY <2>1, <2>2 DEF MirrorInv, HelloInv, Serving
    <3>2. erec'
      BY <2>1, <2>2
    <3> QED BY <3>1, <3>2 DEF Shows, StopComes, IsStop
  <2> QED BY <2>1, <2>2 DEF TalkInv
<1>3. CASE ~DropClient /\ ~OnCancelPreedit
  <2>1. /\ UNCHANGED <<link, erec, estate, dialog>>
        /\ \E ms \in Seq(ServerMessage) : toEngine' = toEngine \o ms
    BY <1>3, DaemonAdds DEF engineVars, sessionVars
  <2>2. \/ toDaemon' = toDaemon
        \/ /\ toDaemon # <<>> /\ toDaemon' = Tail(toDaemon)
           /\ Head(toDaemon).type # "CancelPreedit"
    <3>1. CASE DaemonReads
      BY <1>3, <3>1
      DEF DaemonReads, OnClientHello, OnToggleRecording, OnCommitPreedit,
          OnReportCorrection, OnHistoryEdited, PeerGone, Receive
    <3>2. CASE DaemonActs
      BY <1>3, <3>2
      DEF DaemonActs, TrayStart, TrayStop, TrayCancel, TraySetting, TrayEdit,
          PumpPartial, AutoStop, PeerGoneAfterStoring, OwnStep
    <3> QED BY <3>1, <3>2
  <2>3. StopComes => StopComes'
    BY <2>1, StopWaits
  <2>4. CancelComes => CancelComes'
    BY <2>2, CancelWaits
  <2>5. Reviewing' <=> Reviewing
    BY <2>1 DEF Reviewing
  <2> QED BY <2>1, <2>3, <2>4, <2>5 DEF TalkInv
<1> QED BY <1>1, <1>2, <1>3

LEMMA TalkRead ==
    ASSUME TypeOK, HelloInv, EndingInv, TalkInv, EngineReads
    PROVE  TalkInv'
<1>0. /\ toEngine # <<>> /\ toEngine' = Tail(toEngine) /\ link' = link
      /\ erec' = IF IsStatus(Head(toEngine)) THEN Head(toEngine).recording ELSE erec
      /\ toEngine \in Seq(ServerMessage)
  BY ReaderBelieves DEF TypeOK, LinkTypeOK
<1>1. StopComes /\ ~IsStop(Head(toEngine)) => StopComes'
  BY <1>0, StopWaits
<1>2. CancelComes => CancelComes'
  <2>1. PICK ms \in Seq(ClientMessage) : Sends(ms)
    BY EngineSends
  <2> QED BY <2>1, CancelWaits DEF Sends
<1>3. ASSUME link = "up", Head(toEngine).type \in Ending, erec
      PROVE  StopComes'
  <2>1. 1 \in DOMAIN toEngine /\ Head(toEngine) = toEngine[1]
    BY <1>0, Shortened
  <2>2. EndingKnown(1)
    BY <1>3, <2>1 DEF EndingInv, HelloInv, Serving
  <2>3. ~Shows(toEngine, 1, erec, FALSE)
    <3>1. \A i \in DOMAIN toEngine : ~(i < 1)
      BY <1>0, LenProperties
    <3> QED BY <1>3, <3>1 DEF Shows
  <2>4. PICK j \in DOMAIN toEngine : j > 1 /\ IsStop(toEngine[j])
    BY <2>2, <2>3 DEF EndingKnown
  <2>5. j - 1 \in DOMAIN toEngine' /\ toEngine'[j - 1] = toEngine[j]
    BY <1>0, <2>4, Shortened
  <2> QED BY <2>4, <2>5 DEF StopComes
<1>4. CASE ReadStatus
  <2>1. Head(toEngine).type = "RecordingStatus" /\ dialog = None /\ dialog' = None
    BY <1>4 DEF ReadStatus, Read
  <2>2. erec' = Head(toEngine).recording
    BY <1>0, <2>1 DEF IsStatus
  <2>3. estate' = IF estate = "reviewing" /\ ~Head(toEngine).recording THEN estate
                  ELSE IF Head(toEngine).recording THEN "recording" ELSE "idle"
    BY <1>4 DEF ReadStatus
  <2>4. Head(toEngine).recording \in BOOLEAN
    <3>1. Head(toEngine) \in ServerMessage
      BY <1>0, Shortened
    <3> QED BY <2>1, <3>1 DEF ServerMessage
  <2>5. ~Reviewing'
    BY <2>1 DEF Reviewing
  <2> QED BY <2>2, <2>3, <2>4, <2>5 DEF TalkInv
<1>5. CASE ReadPartial \/ ReadEditHistory
  <2>1. ~IsStatus(Head(toEngine)) /\ estate' = estate
    BY <1>5 DEF ReadPartial, ReadEditHistory, Read, IsStatus, sessionVars
  <2>2. ~Reviewing'
    <3>1. CASE ReadPartial
      BY <3>1 DEF ReadPartial, Read, Reviewing
    <3>2. CASE ReadEditHistory
      <4>1. dialog'.kind = "history"
        BY <3>2 DEF ReadEditHistory
      <4> QED BY <4>1 DEF Reviewing
    <3> QED BY <1>5, <3>1, <3>2
  <2>3. erec' = erec /\ (StopComes => StopComes')
    BY <1>0, <1>1, <2>1 DEF IsStop
  <2> QED BY <1>0, <1>2, <2>1, <2>2, <2>3 DEF TalkInv
<1>6. CASE ReadReconcile \/ ReadReconcileWithoutTarget \/ ReadError \/ ReadReview
  <2>1. Head(toEngine).type \in Ending
    BY <1>6
    DEF ReadReconcile, ReadReconcileWithoutTarget, ReadError, ReadReview, Read, Ending
  <2>2. estate' = "recording" => estate = "recording"
    <3>1. CASE ReadReconcile
      BY <3>1 DEF ReadReconcile
    <3>2. CASE ReadReconcileWithoutTarget
      BY <3>2 DEF ReadReconcileWithoutTarget
    <3>3. CASE ReadError
      BY <3>3 DEF ReadError
    <3>4. CASE ReadReview
      BY <3>4 DEF ReadReview, sessionVars
    <3> QED BY <1>6, <3>1, <3>2, <3>3, <3>4
  <2>3. erec' = erec
    BY <1>0, <2>1 DEF IsStatus, Ending
  <2> QED BY <1>0, <1>3, <2>1, <2>2, <2>3 DEF TalkInv
<1> QED BY <1>4, <1>5, <1>6 DEF EngineReads

LEMMA TalkUsed ==
    ASSUME TypeOK, TalkInv, UserActs
    PROVE  TalkInv'
<1>0. UNCHANGED <<link, toEngine, erec>>
  BY UserLeaves
<1>1. StopComes => StopComes'
  BY <1>0 DEF StopComes
<1>2. CancelComes => CancelComes'
  <2>1. PICK ms \in Seq(ClientMessage) : Sends(ms)
    BY EngineSends
  <2> QED BY <2>1, CancelWaits DEF Sends
<1>3. CASE KeyEscape \/ CancelReview
  <2>1. Send(<<[type |-> "CancelPreedit"]>>) /\ estate' = "idle"
    BY <1>3 DEF KeyEscape, CancelReview
  <2>2. link = "up" => CancelComes'
    BY <2>1, CancelSent DEF Serving
  <2> QED BY <1>0, <2>1, <2>2 DEF TalkInv
<1>4. CASE KeyTrigger \/ KeyEdits \/ CloseWindow
  <2>1. dialog' = dialog /\ (estate' = "recording" <=> estate = "recording")
    BY <1>4 DEF KeyTrigger, KeyEdits, CloseWindow
  <2> QED BY <1>0, <1>1, <1>2, <2>1 DEF TalkInv, Reviewing
<1>5. CASE ConfirmReview
  <2>1. Reviewing /\ estate' = "idle"
    BY <1>5 DEF ConfirmReview, Answer, Reviewing
  <2> QED BY <1>0, <1>1, <1>2, <2>1 DEF TalkInv
<1>6. CASE ConfirmHistoryEdit \/ CancelHistoryEdit
  <2>1. estate' = estate /\ dialog' = None
    BY <1>6 DEF ConfirmHistoryEdit, CancelHistoryEdit, Answer, sessionVars
  <2> QED BY <1>0, <1>1, <1>2, <2>1 DEF TalkInv, Reviewing
<1> QED BY <1>3, <1>4, <1>5, <1>6 DEF UserActs

LEMMA TalkStep ==
    ASSUME TypeOK, MirrorInv', HelloInv, EndingInv, TalkInv, [Next]_vars
    PROVE  TalkInv'
<1>1. CASE UNCHANGED vars
  BY <1>1
  DEF vars, linkVars, engineVars, sessionVars, TalkInv, StopComes, CancelComes, Reviewing
<1>2. CASE DaemonReads \/ DaemonActs
  BY <1>2, TalkHeard
<1>3. CASE EngineReads
  BY <1>3, TalkRead
<1>4. CASE UserActs
  BY <1>4, TalkUsed
<1>5. CASE EngineConnects
  BY <1>5
  DEF EngineConnects, Connect, SendHello, Greeted, HandshakeFails, EngineIdle, TalkInv
<1>6. CASE ProcessDies
  BY <1>6
  DEF ProcessDies, EngineExit, DaemonDiesBetweenHandlers, DaemonDiesDecoding,
      DaemonDiesAfterCreating, DaemonDiesAfterCommitting, DaemonDies, TalkInv
<1> QED BY <1>1, <1>2, <1>3, <1>4, <1>5, <1>6 DEF Next

SettledInv == MirrorInv /\ HelloInv /\ EndingInv /\ TalkInv /\ PreviewInv

(* With nothing under way the engine and the tray show the microphone, and *)
(* no preview outlives its take, if nobody acts for a client that is still *)
(* shaking hands and the review setting stays as it is.                    *)
THEOREM SettledCorrect ==
    ASSUME ~Early, ~ModeSwitch
    PROVE  Spec => []Settled
<1>1. Init => SettledInv
  <2> SUFFICES ASSUME Init PROVE SettledInv
    OBVIOUS
  <2>1. /\ link = "down" /\ ~hello /\ mic = 0 /\ last = FALSE /\ icon = FALSE
        /\ toEngine = <<>> /\ preview = {} /\ dialog = None
    BY DEF Init
  <2>2. MirrorInv /\ EndingInv /\ TalkInv
    BY <2>1 DEF MirrorInv, EndingInv, TalkInv, Serving
  <2>3. HelloInv
    BY <2>1 DEF HelloInv, Serving
  <2>4. PreviewInv
    BY <2>1 DEF PreviewInv, Reviewing
  <2> QED BY <2>2, <2>3, <2>4 DEF SettledInv
<1>2. TypeOK /\ SettledInv /\ [Next]_vars => SettledInv'
  <2> SUFFICES ASSUME TypeOK, SettledInv, [Next]_vars PROVE SettledInv'
    OBVIOUS
  <2>1. MirrorInv'
    BY MirrorStep DEF SettledInv
  <2>2. HelloInv'
    BY HelloStep DEF SettledInv
  <2>3. EndingInv'
    BY EndingStep DEF SettledInv
  <2>4. TalkInv'
    BY <2>1, TalkStep DEF SettledInv
  <2>5. PreviewInv'
    BY PreviewStep DEF SettledInv
  <2> QED BY <2>1, <2>2, <2>3, <2>4, <2>5 DEF SettledInv
<1>3. SettledInv => Settled
  <2> SUFFICES ASSUME SettledInv, Calm, dialog = None
               PROVE  /\ (estate = "recording") = (mic # 0)
                      /\ icon = (mic # 0)
                      /\ mic = 0 => preview = {}
    BY DEF Settled
  <2>1. link = "up" /\ toDaemon = <<>> /\ toEngine = <<>> /\ hello
    BY DEF Calm, SettledInv, HelloInv
  <2>2. last = (mic # 0) /\ icon = last
    BY DEF SettledInv, HelloInv
  <2>3. ~StopComes /\ ~CancelComes
    BY <2>1 DEF StopComes, CancelComes
  <2>4. erec = last
    <3>1. Shows(toEngine, Len(toEngine) + 1, erec, last)
      BY <2>1 DEF SettledInv, MirrorInv, Serving
    <3> QED BY <2>1, <3>1 DEF Shows
  <2>5. erec <=> estate = "recording"
    BY <2>1, <2>3 DEF SettledInv, TalkInv
  <2>6. preview # {} => estate = "recording"
    BY <2>1 DEF SettledInv, PreviewInv
  <2> QED BY <2>2, <2>4, <2>5, <2>6
<1> QED BY <1>1, <1>2, <1>3, TypeCorrect, PTL DEF Spec

-----------------------------------------------------------------------------
(* What is under way, without its order. *)

Sent(q) == {q[i] : i \in DOMAIN q}

LEMMA SentShortened ==
    ASSUME NEW S, NEW q \in Seq(S), q # <<>>
    PROVE  /\ Head(q) \in Sent(q) /\ Sent(Tail(q)) \subseteq Sent(q)
           /\ \A m \in Sent(q) : m = Head(q) \/ m \in Sent(Tail(q))
           /\ Len(Tail(q)) = Len(q) - 1 /\ Len(q) \in Nat
           /\ \A i \in DOMAIN Tail(q) :
                 i \in Nat /\ i + 1 \in DOMAIN q /\ Tail(q)[i] = q[i + 1]
<1>1. /\ Head(q) = q[1] /\ 1 \in DOMAIN q /\ DOMAIN Tail(q) \subseteq Nat
      /\ DOMAIN q \subseteq Nat \ {0}
      /\ Len(Tail(q)) = Len(q) - 1 /\ Len(q) \in Nat
      /\ \A i \in DOMAIN Tail(q) : i + 1 \in DOMAIN q /\ Tail(q)[i] = q[i + 1]
      /\ \A i \in DOMAIN q : i > 1 => i - 1 \in DOMAIN Tail(q) /\ Tail(q)[i - 1] = q[i]
  BY HeadTailProperties, LenProperties
<1>2. \A m \in Sent(q) : m = Head(q) \/ m \in Sent(Tail(q))
  <2> TAKE m \in Sent(q)
  <2>1. PICK i \in DOMAIN q : m = q[i]
    BY DEF Sent
  <2>2. CASE i = 1
    BY <1>1, <2>1, <2>2
  <2>3. CASE i # 1
    <3>1. i > 1
      BY <1>1, <2>3
    <3> QED BY <1>1, <2>1, <3>1 DEF Sent
  <2> QED BY <2>2, <2>3
<1>3. Head(q) \in Sent(q) /\ Sent(Tail(q)) \subseteq Sent(q)
  BY <1>1 DEF Sent
<1> QED BY <1>1, <1>2, <1>3

LEMMA SentJoined ==
    ASSUME NEW S, NEW q \in Seq(S), NEW ms \in Seq(S)
    PROVE  /\ Sent(q \o ms) = Sent(q) \cup Sent(ms)
           /\ Len(q \o ms) = Len(q) + Len(ms) /\ Len(q) \in Nat /\ Len(ms) \in Nat
           /\ \A i \in DOMAIN (q \o ms) :
                 \/ i \in DOMAIN q /\ (q \o ms)[i] = q[i]
                 \/ i \in Nat /\ i > Len(q) /\ (q \o ms)[i] \in Sent(ms)
<1> DEFINE r == q \o ms
<1>1. /\ Len(r) = Len(q) + Len(ms) /\ Len(q) \in Nat /\ Len(ms) \in Nat
      /\ DOMAIN r = 1..(Len(q) + Len(ms)) /\ DOMAIN q = 1..Len(q) /\ DOMAIN ms = 1..Len(ms)
      /\ \A i \in 1..Len(q) : r[i] = q[i]
      /\ \A i \in 1..Len(ms) : r[Len(q) + i] = ms[i]
  BY ConcatProperties, LenProperties
<1> HIDE DEF r
<1>2. ASSUME NEW i \in DOMAIN r
      PROVE  \/ i \in DOMAIN q /\ r[i] = q[i]
             \/ i \in Nat /\ i > Len(q) /\ r[i] \in Sent(ms)
  <2>1. CASE i <= Len(q)
    BY <1>1, <2>1
  <2>2. CASE i > Len(q)
    <3> DEFINE k == i - Len(q)
    <3>1. k \in 1..Len(ms) /\ Len(q) + k = i
      BY <1>1, <2>2
    <3>2. r[i] = ms[k]
      BY <1>1, <3>1
    <3> QED BY <1>1, <2>2, <3>1, <3>2 DEF Sent
  <2> QED BY <1>1, <2>1, <2>2
<1>3. Sent(r) \subseteq Sent(q) \cup Sent(ms)
  BY <1>2 DEF Sent
<1>4. Sent(q) \subseteq Sent(r)
  <2>1. \A i \in DOMAIN q : i \in DOMAIN r /\ r[i] = q[i]
    BY <1>1
  <2> QED BY <2>1 DEF Sent
<1>5. Sent(ms) \subseteq Sent(r)
  <2>1. \A i \in DOMAIN ms : Len(q) + i \in DOMAIN r /\ r[Len(q) + i] = ms[i]
    BY <1>1
  <2> QED BY <2>1 DEF Sent
<1> QED BY <1>1, <1>2, <1>3, <1>4, <1>5 DEF r

LEMMA SentFew ==
    ASSUME NEW a, NEW b
    PROVE  Sent(<<>>) = {} /\ Sent(<<a>>) = {a} /\ Sent(<<a, b>>) = {a, b}
<1>1. DOMAIN <<>> = {} /\ DOMAIN <<a>> = {1} /\ DOMAIN <<a, b>> = {1, 2}
  OBVIOUS
<1> QED BY <1>1 DEF Sent

LEMMA SentTyped ==
    ASSUME NEW S, NEW q \in Seq(S)
    PROVE  Sent(q) \subseteq S /\ (q = <<>> <=> Sent(q) = {})
BY LenProperties, ElementOfSeq DEF Sent

-----------------------------------------------------------------------------
(* The decisions.  Each message, window and dialog is about the active take,  *)
(* as long as nothing starts or stops a take before the last act has settled. *)

Undecided(k) == ledger[k] \in {"created", "cancelled"} /\ k \notin discarded
OfActive(k) == active # None => active.id = k

ToEngineRight(m) ==
    /\ m.type \in {"Reconcile", "Review"} => mic = 0 /\ OfActive(m.text.take)
    /\ m.type = "Reconcile" => ~review
    /\ m.type = "Review" => review /\ Undecided(m.text.take)
    /\ m.type = "EditHistory" => m.text.take = m.id

ToDaemonRight(m) ==
    /\ m.type \in {"CommitPreedit", "ReportCorrection"} => OfActive(m.text.take)
    /\ m.type = "CommitPreedit" =>
           review /\ mic = 0 /\ m.text.take \in confirmed \ discarded
    /\ m.type = "ReportCorrection" => ~review
    /\ m.type = "HistoryEdited" => m.text.take = m.id

MailInv ==
    /\ \A m \in Sent(toEngine) : ToEngineRight(m)
    /\ \A m \in Sent(toDaemon) : ToDaemonRight(m)

(* The correction window is that of the active take; a new take closes it.    *)
Starts(q) == \E m \in Sent(q) : IsStatus(m) /\ m.recording = TRUE
WindowInv ==
    window # None =>
        ~review /\ OfActive(window.text.take) /\ (mic # 0 => Starts(toEngine))

(* The review dialog is that of the active take, and is alone with it.        *)
DialogInv ==
    /\ dialog # None => dialog.text.take = dialog.id
    /\ Reviewing =>
        /\ review /\ mic = 0 /\ OfActive(dialog.id) /\ Undecided(dialog.id)
        /\ link = "up" => toEngine # <<>>
        /\ \A m \in Sent(toEngine) : m.type # "Review"
        /\ \A m \in Sent(toDaemon) : m.type # "CommitPreedit"

TurnInv ==
    /\ link \notin {"up", "gone"} => active = None /\ mic = 0
    /\ link \in {"swapped", "greeting"} =>
          dialog = None /\ \A m \in Sent(toDaemon) : m.type = "ClientHello"
    /\ \A i \in DOMAIN toEngine : toEngine[i].type = "Review" =>
          /\ i = 1 /\ Len(toEngine) > 1
          /\ \A m \in Sent(toDaemon) : m.type # "CommitPreedit"

(* The shortcut is pressed when nothing is under way, and until it is read    *)
(* only previews and edits of the history join it.                            *)
PressedAlone(i) ==
    /\ \A m \in Sent(toDaemon) :
          m.type \in {"ReportCorrection", "ToggleRecording", "HistoryEdited"}
    /\ \A j \in DOMAIN toDaemon : j > i => toDaemon[j].type = "HistoryEdited"
    /\ \A m \in Sent(toEngine) : m.type = "Partial"
    /\ window = None /\ ~Reviewing

ToggleInv ==
    \A i \in DOMAIN toDaemon : toDaemon[i].type = "ToggleRecording" => PressedAlone(i)

RecordInv ==
    /\ OwnWords
    /\ ~review => ~Uncommitted
    /\ review =>
        /\ \A k \in Take : ledger[k] = "committed" => k \in confirmed \ discarded
        /\ \A k \in discarded : ledger[k] # "absent"

DecisionInv == MailInv /\ WindowInv /\ DialogInv /\ TurnInv /\ ToggleInv /\ RecordInv

(* What the daemon does in any other step than starting, stopping or losing   *)
(* the client.                                                                *)
DaemonTurn(ms) ==
    /\ toEngine' = toEngine \o ms
    /\ \A m \in Sent(ms) :
          /\ m.type \notin {"Reconcile", "Review"}
          /\ m.type = "EditHistory" => m.text.take = m.id
    /\ \/ /\ toDaemon' = toDaemon
          /\ Sent(ms) # {} => Calm \/ \A m \in Sent(ms) : m.type = "Partial"
       \/ /\ toDaemon # <<>> /\ toDaemon' = Tail(toDaemon)
          /\ Head(toDaemon).type \in {"ReportCorrection", "HistoryEdited"} => Sent(ms) = {}
          /\ Head(toDaemon).type # "ToggleRecording"
    /\ UNCHANGED <<link, review, engineVars, userVars>>
    /\ mic' \in {mic, 0}
    /\ active' = None \/ (active # None /\ active'.id = active.id)
    /\ Uncommitted' => Uncommitted
    /\ OwnWords'
    /\ ledger' \in [Take -> {"absent", "created", "committed", "cancelled"}]
    /\ \A k \in Take : ledger[k] # "absent" => ledger'[k] # "absent"
    /\ review => \A k \in Take : ledger'[k] = "committed" =>
          \/ ledger[k] = "committed"
          \/ /\ k \in confirmed \ discarded /\ ~Reviewing
             /\ \A m \in Sent(toEngine) : m.type # "Review"

LEMMA DaemonTurnKeeps ==
    ASSUME TypeOK, DecisionInv, NEW ms \in Seq(ServerMessage), DaemonTurn(ms)
    PROVE  DecisionInv'
<1>0. toEngine \in Seq(ServerMessage) /\ toDaemon \in Seq(ClientMessage)
      /\ discarded \subseteq Take /\ (dialog # None => dialog.id \in Take)
  BY DEF TypeOK, LinkTypeOK, UserTypeOK, EngineTypeOK, Dialog
<1>1. /\ Sent(toEngine') = Sent(toEngine) \cup Sent(ms)
      /\ \A i \in DOMAIN toEngine' :
            \/ i \in DOMAIN toEngine /\ toEngine'[i] = toEngine[i]
            \/ toEngine'[i] \in Sent(ms)
      /\ Len(toEngine') >= Len(toEngine)
  BY <1>0, SentJoined DEF DaemonTurn
<1>2. Sent(toDaemon') \subseteq Sent(toDaemon)
  BY <1>0, SentShortened DEF DaemonTurn
<1>3. /\ UNCHANGED <<link, review, window, dialog, confirmed, discarded>>
      /\ Reviewing' = Reviewing /\ mic' \in {mic, 0}
      /\ \A k : OfActive(k) => OfActive(k)'
  BY DEF DaemonTurn, engineVars, sessionVars, userVars, Reviewing, OfActive
<1>4. ASSUME NEW k \in Take, Undecided(k), review,
             Reviewing \/ \E m \in Sent(toEngine) : m.type = "Review"
      PROVE  Undecided(k)'
  BY <1>3, <1>4 DEF DaemonTurn, Undecided
<1>5. MailInv'
  <2>1. ASSUME NEW m \in Sent(toEngine)
        PROVE  ToEngineRight(m)'
    <3>1. ToEngineRight(m) /\ m \in ServerMessage
      BY <1>0, <2>1, SentTyped DEF DecisionInv, MailInv
    <3>2. m.type = "Review" => m.text.take \in Take
      BY <3>1, ServerMessageFields, Texts
    <3>3. m.type = "Review" => Undecided(m.text.take)'
      BY <1>4, <2>1, <3>1, <3>2 DEF ToEngineRight
    <3> QED BY <1>3, <3>1, <3>3 DEF ToEngineRight
  <2>2. ASSUME NEW m \in Sent(ms)
        PROVE  ToEngineRight(m)'
    BY DEF DaemonTurn, ToEngineRight
  <2>3. ASSUME NEW m \in Sent(toDaemon)
        PROVE  ToDaemonRight(m)'
    BY <1>3 DEF DecisionInv, MailInv, ToDaemonRight
  <2> QED BY <1>1, <1>2, <2>1, <2>2, <2>3 DEF MailInv
<1>6. WindowInv'
  <2>1. Starts(toEngine) => Starts(toEngine')
    BY <1>1 DEF Starts
  <2> QED BY <1>3, <2>1 DEF DecisionInv, WindowInv, Starts
<1>7. DialogInv'
  <2>1. toEngine # <<>> => toEngine' # <<>>
    BY <1>0, <1>1, SentTyped DEF DaemonTurn
  <2>2. ASSUME Reviewing
        PROVE  Undecided(dialog.id)'
    <3>1. dialog.id \in Take
      BY <1>0, <2>2 DEF Reviewing
    <3>2. PICK k \in Take : k = dialog.id
      BY <3>1
    <3>3. review /\ Undecided(k)
      BY <2>2, <3>2 DEF DecisionInv, DialogInv
    <3>4. Undecided(k)'
      BY <1>4, <2>2, <3>3
    <3> QED BY <1>3, <3>2, <3>4
  <2>3. \A m \in Sent(ms) : m.type # "Review"
    BY DEF DaemonTurn
  <2> QED BY <1>1, <1>2, <1>3, <2>1, <2>2, <2>3 DEF DecisionInv, DialogInv
<1>8. TurnInv'
  <2>1. link \notin {"up", "gone"} => active' = None /\ mic' = 0
    BY DEF DaemonTurn, DecisionInv, TurnInv
  <2>2. ASSUME NEW i \in DOMAIN toEngine', toEngine'[i].type = "Review"
        PROVE  /\ i = 1 /\ Len(toEngine') > 1
               /\ \A m \in Sent(toDaemon') : m.type # "CommitPreedit"
    <3>1. i \in DOMAIN toEngine /\ toEngine'[i] = toEngine[i]
      BY <1>1, <2>2 DEF DaemonTurn
    <3>2. i = 1 /\ Len(toEngine) > 1 /\ \A m \in Sent(toDaemon) : m.type # "CommitPreedit"
      BY <2>2, <3>1 DEF DecisionInv, TurnInv
    <3>3. Len(toEngine') > 1
      BY <1>0, <1>1, <3>2, SentJoined DEF DaemonTurn
    <3> QED BY <1>2, <3>2, <3>3
  <2> QED BY <1>2, <1>3, <2>1, <2>2 DEF DecisionInv, TurnInv
<1>9. ToggleInv'
  <2> SUFFICES ASSUME NEW i \in DOMAIN toDaemon', toDaemon'[i].type = "ToggleRecording"
               PROVE  PressedAlone(i)'
    BY DEF ToggleInv
  <2>1. \E k \in DOMAIN toDaemon :
           /\ toDaemon[k].type = "ToggleRecording"
           /\ \A j \in DOMAIN toDaemon' : j > i =>
                 \E l \in DOMAIN toDaemon : l > k /\ toDaemon'[j] = toDaemon[l]
    <3>1. CASE toDaemon' = toDaemon
      BY <3>1
    <3>2. CASE toDaemon # <<>> /\ toDaemon' = Tail(toDaemon)
      <4>1. \A j \in DOMAIN toDaemon' : j \in Nat /\ j + 1 \in DOMAIN toDaemon
                                        /\ toDaemon'[j] = toDaemon[j + 1]
        BY <1>0, <3>2, SentShortened
      <4>2. \A j \in DOMAIN toDaemon' : j > i => j + 1 > i + 1
        BY <4>1
      <4> QED BY <4>1, <4>2
    <3> QED BY <3>1, <3>2 DEF DaemonTurn
  <2>2. PICK k \in DOMAIN toDaemon :
           /\ toDaemon[k].type = "ToggleRecording"
           /\ \A j \in DOMAIN toDaemon' : j > i =>
                 \E l \in DOMAIN toDaemon : l > k /\ toDaemon'[j] = toDaemon[l]
    BY <2>1
  <2>3. PressedAlone(k)
    BY <2>2 DEF DecisionInv, ToggleInv
  <2>4. \A m \in Sent(ms) : m.type = "Partial"
    <3>1. toDaemon # <<>>
      BY <2>2
    <3>2. toDaemon # <<>> /\ toDaemon' = Tail(toDaemon) => Head(toDaemon) \in Sent(toDaemon)
      BY <1>0, SentShortened
    <3> QED BY <2>3, <3>1, <3>2 DEF DaemonTurn, Calm, PressedAlone
  <2> QED BY <1>1, <1>2, <1>3, <2>2, <2>3, <2>4 DEF PressedAlone
<1>10. RecordInv'
  <2>1. review => \A k \in Take : ledger'[k] = "committed" => k \in confirmed \ discarded
    BY DEF DaemonTurn, DecisionInv, RecordInv
  <2>2. review => \A k \in discarded : ledger'[k] # "absent"
    BY <1>0 DEF DaemonTurn, DecisionInv, RecordInv
  <2>3. OwnWords' /\ (~review => ~Uncommitted')
    BY DEF DaemonTurn, DecisionInv, RecordInv
  <2> QED BY <1>3, <2>1, <2>2, <2>3 DEF RecordInv
<1> QED BY <1>5, <1>6, <1>7, <1>8, <1>9, <1>10 DEF DecisionInv

-----------------------------------------------------------------------------
(* The daemon's handlers and clicks that neither start nor stop a take.      *)

(* What no step but a stop, or a lost client, does to the store.             *)
StoreTurn ==
    /\ active' = None \/ (active # None /\ active'.id = active.id)
    /\ Uncommitted' => Uncommitted
    /\ OwnWords'
    /\ ledger' \in [Take -> {"absent", "created", "committed", "cancelled"}]
    /\ \A k \in Take : ledger[k] # "absent" => ledger'[k] # "absent"

LEMMA CancelTurns ==
    ASSUME TypeOK, OwnWords, CancelTake
    PROVE  /\ StoreTurn /\ mic' = 0 /\ UNCHANGED review
           /\ \A k \in Take : ledger'[k] = "committed" => ledger[k] = "committed"
<1>1. ledger' = LedgerCancelled /\ active' = None /\ learned' = learned
  BY DEF CancelTake
<1>2. ledger' \in [Take -> {"absent", "created", "committed", "cancelled"}]
  BY <1>1, LedgerCancelledType DEF TypeOK
<1>3. \A k \in Take : ledger'[k] \in {ledger[k], "cancelled"}
  BY <1>1 DEF LedgerCancelled, TypeOK, DaemonTypeOK
<1>4. OwnWords' /\ ~Uncommitted'
  BY <1>1 DEF OwnWords, Uncommitted
<1> QED BY <1>1, <1>2, <1>3, <1>4 DEF StoreTurn, CancelTake

LEMMA AmendTurns ==
    ASSUME TypeOK, OwnWords, NEW k \in Take, NEW t \in Text, t.take = k,
           learned' = Amended(k, t) \/ learned' = learned
    PROVE  OwnWords'
<1>1. learned \in [Take -> Text \cup {None}]
  BY DEF TypeOK, DaemonTypeOK
<1>2. \A j \in Take : learned'[j] = learned[j] \/ (j = k /\ learned'[j] = t)
  BY <1>1 DEF Amended
<1> QED BY <1>2 DEF OwnWords

LEMMA StoreRests ==
    ASSUME TypeOK, OwnWords, UNCHANGED <<active, ledger, learned>>
    PROVE  /\ StoreTurn
           /\ \A k \in Take : ledger'[k] = "committed" => ledger[k] = "committed"
BY DEF StoreTurn, OwnWords, Uncommitted, TypeOK, DaemonTypeOK

(* Whatever the daemon says of its own accord, it says to a quiet client.    *)
LEMMA ClickFindsCalm ==
    ASSUME ~Early, ~Hasty, NEW painted, TrayClick(painted)
    PROVE  Calm /\ hello
BY DEF TrayClick

LEMMA HelloTurns ==
    ASSUME TypeOK, OwnWords, OnClientHello
    PROVE  \E ms \in Seq(ServerMessage) : DaemonTurn(ms)
<1> DEFINE a == [type |-> "ServerHello"]
           f == [type |-> "RecordingStatus", recording |-> FALSE]
           ms == <<a, f>>
<1>1. ms \in Seq(ServerMessage) /\ toEngine' = toEngine \o ms
  BY HelloPush DEF OnClientHello, Push
<1>2. a.type = "ServerHello" /\ f.type = "RecordingStatus"
  OBVIOUS
<1> HIDE DEF a, f
<1>3. Sent(ms) = {a, f}
  BY SentFew
<1> HIDE DEF ms
<1>4. /\ UNCHANGED <<link, review, engineVars, userVars, mic, active, ledger, learned>>
      /\ toDaemon # <<>> /\ toDaemon' = Tail(toDaemon)
      /\ Head(toDaemon).type = "ClientHello"
  BY DEF OnClientHello, Receive, micVars, storeVars
<1>5. DaemonTurn(ms)
  BY <1>1, <1>2, <1>3, <1>4, StoreRests DEF DaemonTurn, StoreTurn
<1> QED BY <1>1, <1>5

LEMMA StatusSent ==
    ASSUME NEW b \in BOOLEAN
    PROVE  /\ StatusPush(b) \in Seq(ServerMessage)
           /\ \A m \in Sent(StatusPush(b)) : m.type = "RecordingStatus"
<1> DEFINE s == [type |-> "RecordingStatus", recording |-> b]
<1>1. s.type = "RecordingStatus"
  OBVIOUS
<1>2. StatusPush(b) = <<>> \/ StatusPush(b) = <<s>>
  BY DEF StatusPush
<1> HIDE DEF s
<1>3. Sent(<<>>) = {} /\ Sent(<<s>>) = {s}
  BY SentFew
<1>4. \A m \in Sent(StatusPush(b)) : m.type = "RecordingStatus"
  BY <1>1, <1>2, <1>3
<1> QED BY <1>4, StatusPushType

LEMMA CancelIsTurn ==
    ASSUME TypeOK, OwnWords, CancelTake,
           UNCHANGED <<link, engineVars, userVars>>,
           \/ toDaemon' = toDaemon /\ Calm
           \/ /\ toDaemon # <<>> /\ toDaemon' = Tail(toDaemon)
              /\ Head(toDaemon).type = "CancelPreedit"
    PROVE  \E ms \in Seq(ServerMessage) : DaemonTurn(ms)
<1> DEFINE ms == StatusPush(FALSE)
<1>1. ms \in Seq(ServerMessage) /\ \A m \in Sent(ms) : m.type = "RecordingStatus"
  BY StatusSent
<1>2. toEngine' = toEngine \o ms
  BY DEF CancelTake, Push
<1> HIDE DEF ms
<1>3. DaemonTurn(ms)
  BY <1>1, <1>2, CancelTurns DEF DaemonTurn, StoreTurn
<1> QED BY <1>1, <1>3

LEMMA CommitTurns ==
    ASSUME TypeOK, DecisionInv, OnCommitPreedit
    PROVE  \E ms \in Seq(ServerMessage) : DaemonTurn(ms)
<1> DEFINE ms == StatusPush(mic # 0)
           m == Head(toDaemon)
<1>1. (mic # 0) \in BOOLEAN
  OBVIOUS
<1>2. ms \in Seq(ServerMessage) /\ \A s \in Sent(ms) : s.type = "RecordingStatus"
  BY <1>1, StatusSent
<1>3. /\ toEngine' = toEngine \o ms
      /\ UNCHANGED <<link, review, engineVars, userVars, mic>>
      /\ toDaemon # <<>> /\ toDaemon' = Tail(toDaemon)
      /\ Head(toDaemon).type = "CommitPreedit" /\ m.type = "CommitPreedit"
  BY DEF OnCommitPreedit, Push, Receive, micVars
<1>4. m \in Sent(toDaemon) /\ m \in ClientMessage
  BY <1>3, SentShortened, SentTyped DEF TypeOK, LinkTypeOK
<1>5. /\ OfActive(m.text.take) /\ m.text \in Text
      /\ m.text.take \in confirmed \ discarded
  BY <1>3, <1>4, ClientMessageFields DEF DecisionInv, MailInv, ToDaemonRight
<1>6. ~Reviewing /\ \A r \in Sent(toEngine) : r.type # "Review"
  <2>1. ~Reviewing
    BY <1>3, <1>4 DEF DecisionInv, DialogInv
  <2>2. ASSUME NEW r \in Sent(toEngine) PROVE r.type # "Review"
    <3>1. PICK i \in DOMAIN toEngine : r = toEngine[i]
      BY <2>2 DEF Sent
    <3> QED BY <1>3, <1>4, <3>1 DEF DecisionInv, TurnInv
  <2> QED BY <2>1, <2>2
<1>7. OwnWords
  BY DEF DecisionInv, RecordInv
<1> HIDE DEF ms, m
<1>8. CASE Uncommitted
  <2>1. /\ active \in ActiveSession /\ active # None
        /\ active.id = m.text.take /\ active.id \in Take
    BY <1>5, <1>8, Texts DEF Uncommitted, OfActive, TypeOK, DaemonTypeOK
  <2>2. /\ ledger' = [ledger EXCEPT ![active.id] = "committed"]
        /\ learned' = [learned EXCEPT ![active.id] = m.text]
        /\ active' = [active EXCEPT !.text = m.text, !.finalized = TRUE]
    BY <1>8 DEF OnCommitPreedit, m
  <2>3. active'.id = active.id
    BY <2>1, <2>2 DEF ActiveSession
  <2>4. OwnWords'
    BY <1>7, <2>1, <2>2 DEF OwnWords, TypeOK, DaemonTypeOK
  <2>5. /\ ledger' \in [Take -> {"absent", "created", "committed", "cancelled"}]
        /\ \A k \in Take : ledger'[k] = IF k = active.id THEN "committed" ELSE ledger[k]
    BY <2>1, <2>2 DEF TypeOK, DaemonTypeOK
  <2>6. DaemonTurn(ms)
    BY <1>2, <1>3, <1>5, <1>6, <1>8, <2>1, <2>3, <2>4, <2>5 DEF DaemonTurn
  <2> QED BY <1>2, <2>6
<1>9. CASE ~Uncommitted
  <2>1. UNCHANGED <<ledger, learned, active>>
    BY <1>9 DEF OnCommitPreedit
  <2>2. DaemonTurn(ms)
    BY <1>2, <1>3, <1>7, <2>1, StoreRests DEF DaemonTurn, StoreTurn
  <2> QED BY <1>2, <2>2
<1> QED BY <1>8, <1>9

LEMMA SilentIsTurn ==
    ASSUME TypeOK, StoreTurn,
           UNCHANGED <<toEngine, link, review, mic, ledger, engineVars, userVars>>,
           \/ toDaemon' = toDaemon
           \/ /\ toDaemon # <<>> /\ toDaemon' = Tail(toDaemon)
              /\ Head(toDaemon).type # "ToggleRecording"
    PROVE  \E ms \in Seq(ServerMessage) : DaemonTurn(ms)
<1> DEFINE ms == <<>>
<1>1. ms \in Seq(ServerMessage) /\ toEngine' = toEngine \o ms
  BY ConcatEmptySeq DEF TypeOK, LinkTypeOK
<1>2. Sent(ms) = {}
  BY SentFew
<1> HIDE DEF ms
<1>3. DaemonTurn(ms)
  BY <1>1, <1>2 DEF DaemonTurn, StoreTurn
<1> QED BY <1>1, <1>3

LEMMA CorrectionTurns ==
    ASSUME TypeOK, DecisionInv, OnReportCorrection \/ OnHistoryEdited
    PROVE  \E ms \in Seq(ServerMessage) : DaemonTurn(ms)
<1> DEFINE m == Head(toDaemon)
<1>1. /\ UNCHANGED <<toEngine, link, review, mic, ledger, engineVars, userVars>>
      /\ toDaemon # <<>> /\ toDaemon' = Tail(toDaemon)
      /\ m.type \in {"ReportCorrection", "HistoryEdited"}
  BY DEF OnReportCorrection, OnHistoryEdited, Receive, micVars
<1>2. m \in Sent(toDaemon) /\ m \in ClientMessage
  BY <1>1, SentShortened, SentTyped DEF TypeOK, LinkTypeOK
<1>3. ToDaemonRight(m) /\ m.text \in Text /\ m.text.take \in Take
  BY <1>1, <1>2, ClientMessageFields, Texts DEF DecisionInv, MailInv
<1>4. OwnWords
  BY DEF DecisionInv, RecordInv
<1> HIDE DEF m
<1>5. /\ learned' = Amended(m.text.take, m.text) \/ learned' = learned
      /\ active' = active \/ (active # None /\ active' = [active EXCEPT !.text = m.text])
  <2>1. CASE OnReportCorrection
    <3>1. m.type = "ReportCorrection"
      BY <2>1 DEF OnReportCorrection, Receive, m
    <3>2. active # None => active.id = m.text.take
      BY <1>3, <3>1 DEF ToDaemonRight, OfActive
    <3> QED BY <2>1, <3>2 DEF OnReportCorrection, m
  <2>2. CASE OnHistoryEdited
    <3>1. m.type = "HistoryEdited"
      BY <2>2 DEF OnHistoryEdited, Receive, m
    <3>2. m.text.take = m.id
      BY <1>3, <3>1 DEF ToDaemonRight
    <3> QED BY <2>2, <3>2 DEF OnHistoryEdited, m
  <2> QED BY <2>1, <2>2
<1>6. OwnWords'
  BY <1>3, <1>4, <1>5, AmendTurns
<1>7. /\ active' = None \/ (active # None /\ active'.id = active.id)
      /\ Uncommitted' => Uncommitted
  <2>1. active \in ActiveSession \cup {None}
    BY DEF TypeOK, DaemonTypeOK
  <2>2. CASE active' = active
    BY <2>2 DEF Uncommitted
  <2>3. CASE active # None /\ active' = [active EXCEPT !.text = m.text]
    <3>1. active'.id = active.id /\ active'.finalized = active.finalized
      BY <2>1, <2>3 DEF ActiveSession
    <3> QED BY <2>3, <3>1 DEF Uncommitted
  <2> QED BY <1>5, <2>2, <2>3
<1>8. StoreTurn
  BY <1>1, <1>6, <1>7 DEF StoreTurn, TypeOK, DaemonTypeOK
<1>9. Head(toDaemon).type # "ToggleRecording"
  BY <1>1 DEF m
<1> QED BY <1>1, <1>8, <1>9, SilentIsTurn

LEMMA SettingTurns ==
    ASSUME TypeOK, OwnWords, ~ModeSwitch, TraySetting
    PROVE  \E ms \in Seq(ServerMessage) : DaemonTurn(ms)
<1>1. /\ UNCHANGED <<toEngine, link, review, mic, ledger, engineVars, userVars>>
      /\ UNCHANGED <<active, learned, toDaemon>>
  BY DEF TraySetting, OwnStep, micVars, storeVars
<1> QED BY <1>1, StoreRests, SilentIsTurn

LEMMA EditTurns ==
    ASSUME TypeOK, OwnWords, ~Early, ~Hasty, TrayEdit
    PROVE  \E ms \in Seq(ServerMessage) : DaemonTurn(ms)
<1>1. PICK k \in Take :
        /\ learned[k] # None
        /\ Push(<<[type |-> "EditHistory", id |-> k, text |-> learned[k]]>>)
  BY DEF TrayEdit
<1> DEFINE m == [type |-> "EditHistory", id |-> k, text |-> learned[k]]
           ms == <<m>>
<1>2. learned[k] \in Text /\ learned[k].take = k
  BY <1>1 DEF TypeOK, DaemonTypeOK, OwnWords
<1>3. ms \in Seq(ServerMessage) /\ m.type = "EditHistory" /\ m.text.take = m.id
  BY <1>2, EditHistoryPush
<1>4. toEngine' = toEngine \o ms
  BY <1>1 DEF Push
<1>5. /\ UNCHANGED <<link, review, engineVars, userVars, mic, active, ledger, learned>>
      /\ toDaemon' = toDaemon /\ Calm
  BY ClickFindsCalm DEF TrayEdit, OwnStep, daemonVars, micVars, storeVars
<1> HIDE DEF m
<1>6. Sent(ms) = {m}
  BY SentFew
<1> HIDE DEF ms
<1>7. DaemonTurn(ms)
  BY <1>3, <1>4, <1>5, <1>6, StoreRests DEF DaemonTurn, StoreTurn
<1> QED BY <1>3, <1>7

LEMMA PartialTurns ==
    ASSUME TypeOK, OwnWords, PumpPartial
    PROVE  \E ms \in Seq(ServerMessage) : DaemonTurn(ms)
<1> DEFINE m == [type |-> "Partial", take |-> mic]
           ms == <<m>>
<1>1. mic \in Take
  BY DEF PumpPartial, TypeOK, DaemonTypeOK
<1>2. ms \in Seq(ServerMessage) /\ m.type = "Partial"
  BY <1>1, PartialPush
<1>3. /\ UNCHANGED <<link, review, engineVars, userVars, mic, active, ledger, learned>>
      /\ toDaemon' = toDaemon /\ toEngine' = toEngine \o ms
  BY DEF PumpPartial, Push, OwnStep, daemonVars, micVars, storeVars
<1> HIDE DEF m
<1>4. Sent(ms) = {m}
  BY SentFew
<1> HIDE DEF ms
<1>5. DaemonTurn(ms)
  BY <1>2, <1>3, <1>4, StoreRests DEF DaemonTurn, StoreTurn
<1> QED BY <1>2, <1>5

-----------------------------------------------------------------------------
(* A take starts or stops on the shortcut, a click or a pause, when no other *)
(* act is under way.                                                         *)

Free ==
    /\ link = "up" /\ hello
    /\ \A m \in Sent(toEngine) : m.type = "Partial"
    /\ \A m \in Sent(toDaemon') : m.type = "HistoryEdited" /\ m \in Sent(toDaemon)
    /\ ~Reviewing
    /\ mic # 0 => window = None

LEMMA CalmIsFree ==
    ASSUME HelloInv, DecisionInv, Calm, toDaemon' = toDaemon
    PROVE  Free
<1>1. link = "up" /\ hello /\ toEngine = <<>> /\ toDaemon' = <<>>
  BY DEF Calm, HelloInv
<1>2. Sent(<<>>) = {}
  BY SentFew
<1>3. ~Reviewing
  BY <1>1 DEF DecisionInv, DialogInv
<1>4. mic # 0 => window = None
  BY <1>1, <1>2 DEF DecisionInv, WindowInv, Starts
<1> QED BY <1>1, <1>2, <1>3, <1>4 DEF Free

LEMMA ToggleIsFree ==
    ASSUME TypeOK, HelloInv, DecisionInv, Serving, toDaemon # <<>>,
           Head(toDaemon).type = "ToggleRecording", toDaemon' = Tail(toDaemon)
    PROVE  Free
<1>1. toDaemon \in Seq(ClientMessage)
  BY DEF TypeOK, LinkTypeOK
<1>2. Head(toDaemon) = toDaemon[1] /\ 1 \in DOMAIN toDaemon
  BY <1>1, ClientShortened
<1>3. /\ \A j \in DOMAIN toDaemon : j > 1 => toDaemon[j].type = "HistoryEdited"
      /\ \A m \in Sent(toEngine) : m.type = "Partial"
      /\ window = None /\ ~Reviewing
  BY <1>2 DEF DecisionInv, ToggleInv, PressedAlone
<1>4. \A m \in Sent(toDaemon') : m.type = "HistoryEdited" /\ m \in Sent(toDaemon)
  <2> TAKE m \in Sent(toDaemon')
  <2>1. PICK i \in DOMAIN toDaemon' : m = toDaemon'[i]
    BY DEF Sent
  <2>2. i + 1 \in DOMAIN toDaemon /\ m = toDaemon[i + 1] /\ i + 1 > 1
    BY <1>1, <2>1, ClientShortened
  <2> QED BY <1>3, <2>2 DEF Sent
<1>5. link = "up"
  <2>1. Head(toDaemon) \in Sent(toDaemon)
    BY <1>1, SentShortened
  <2> QED BY <2>1 DEF DecisionInv, TurnInv, Serving
<1> QED BY <1>3, <1>4, <1>5 DEF Free, HelloInv

(* A take that starts or stops says one thing of itself, and the status.     *)
LEMMA FreeKeeps ==
    ASSUME TypeOK, DecisionInv, Free, NEW ms \in Seq(ServerMessage),
           toEngine' = toEngine \o ms,
           UNCHANGED <<link, review, engineVars, userVars>>,
           \A m \in Sent(ms) : ToEngineRight(m)' /\ m.type # "EditHistory",
           \A m \in Sent(ms) : m.type = "Review" =>
               /\ toEngine = <<>> /\ ms[1] = m /\ Len(ms) > 1
               /\ \A i \in DOMAIN ms : ms[i].type = "Review" => i = 1,
           window # None => /\ active # None => active'.id = active.id
                            /\ active' # None => active # None
                            /\ mic' # 0 => Starts(ms),
           RecordInv'
    PROVE  DecisionInv'
<1>0. toEngine \in Seq(ServerMessage) /\ toDaemon \in Seq(ClientMessage)
  BY DEF TypeOK, LinkTypeOK
<1>1. Sent(toEngine') = Sent(toEngine) \cup Sent(ms)
  BY <1>0, SentJoined
<1>2. /\ \A m \in Sent(toEngine) : m.type = "Partial"
      /\ \A m \in Sent(toDaemon') : m.type = "HistoryEdited" /\ m \in Sent(toDaemon)
      /\ link = "up" /\ ~Reviewing
  BY DEF Free
<1>3. /\ Reviewing' = Reviewing
      /\ UNCHANGED <<link, window, dialog, review>>
  BY DEF engineVars, sessionVars, Reviewing
<1>4. MailInv'
  <2>1. \A m \in Sent(toEngine) : ToEngineRight(m)'
    BY <1>2 DEF ToEngineRight
  <2>2. \A m \in Sent(toDaemon') : ToDaemonRight(m)'
    BY <1>2 DEF ToDaemonRight, DecisionInv, MailInv
  <2> QED BY <1>1, <2>1, <2>2 DEF MailInv
<1>5. WindowInv'
  <2> SUFFICES ASSUME window # None
               PROVE  /\ ~review /\ OfActive(window.text.take)'
                      /\ mic' # 0 => Starts(toEngine')
    BY <1>3 DEF WindowInv
  <2>1. ~review /\ OfActive(window.text.take)
    BY DEF DecisionInv, WindowInv
  <2>2. OfActive(window.text.take)'
    BY <1>3, <2>1 DEF OfActive
  <2>3. mic' # 0 => Starts(toEngine')
    BY <1>1 DEF Starts
  <2> QED BY <2>1, <2>2, <2>3
<1>6. DialogInv'
  BY <1>2, <1>3 DEF DecisionInv, DialogInv
<1>7. TurnInv'
  <2>1. ASSUME NEW i \in DOMAIN toEngine', toEngine'[i].type = "Review"
        PROVE  i = 1 /\ Len(toEngine') > 1
    <3>1. /\ \/ i \in DOMAIN toEngine /\ toEngine'[i] = toEngine[i]
             \/ toEngine'[i] \in Sent(ms)
          /\ Len(toEngine') = Len(toEngine) + Len(ms)
      BY <1>0, SentJoined
    <3>2. toEngine'[i] \in Sent(ms)
      BY <1>2, <2>1, <3>1 DEF Sent
    <3>3. /\ toEngine = <<>> /\ Len(ms) > 1
          /\ \A j \in DOMAIN ms : ms[j].type = "Review" => j = 1
      BY <2>1, <3>2
    <3>4. toEngine' = ms
      BY <3>3, ConcatEmptySeq
    <3> QED BY <2>1, <3>3, <3>4
  <2> QED BY <1>2, <1>3, <2>1 DEF TurnInv
<1>8. ToggleInv'
  BY <1>2 DEF ToggleInv, Sent
<1> QED BY <1>4, <1>5, <1>6, <1>7, <1>8 DEF DecisionInv

LEMMA StartDecides ==
    ASSUME TypeOK, StoreInv, HelloInv, DecisionInv, Free, StartLiveCapture,
           UNCHANGED <<link, engineVars, userVars>>
    PROVE  DecisionInv'
<1>1. /\ mic = 0 /\ ledger' = LedgerCancelled /\ active' = ActiveCancelled
      /\ UNCHANGED <<learned, review>>
  BY DEF StartLiveCapture
<1>2. hello /\ last = FALSE
  BY <1>1 DEF Free, HelloInv
<1>3. /\ active # None => active'.id = active.id /\ active' # None
      /\ active' # None => active # None
      /\ ~Uncommitted'
  <2>1. active \in ActiveSession \cup {None} /\ active' \in ActiveSession \cup {None}
    BY <1>1, LedgerCancelledType DEF TypeOK, DaemonTypeOK
  <2>2. CASE Uncommitted
    <3>1. active' = [active EXCEPT !.finalized = TRUE] /\ active \in ActiveSession
      BY <1>1, <2>1, <2>2 DEF ActiveCancelled, Uncommitted
    <3>2. active' \in ActiveSession /\ active'.finalized = TRUE /\ active'.id = active.id
      BY <3>1 DEF ActiveSession
    <3> QED BY <2>2, <3>2, NoneAssumption DEF Uncommitted
  <2>3. CASE ~Uncommitted
    <3>1. active' = active
      BY <1>1, <2>3 DEF ActiveCancelled
    <3> QED BY <2>3, <3>1 DEF Uncommitted
  <2> QED BY <2>2, <2>3
<1>4. RecordInv'
  <2>1. \A k \in Take : ledger'[k] \in {ledger[k], "cancelled"}
    BY <1>1 DEF LedgerCancelled, TypeOK, DaemonTypeOK
  <2>2. discarded' = discarded /\ confirmed' = confirmed /\ discarded \subseteq Take
    BY DEF userVars, TypeOK, UserTypeOK
  <2>3. OwnWords'
    BY <1>1 DEF DecisionInv, RecordInv, OwnWords
  <2> QED BY <1>1, <1>3, <2>1, <2>2, <2>3 DEF DecisionInv, RecordInv
<1>5. CASE mic' = takes + 1 /\ Push(StatusPush(TRUE))
  <2> DEFINE s == [type |-> "RecordingStatus", recording |-> TRUE]
             ms == <<s>>
  <2>1. StatusPush(TRUE) = ms
    BY <1>2 DEF StatusPush
  <2>2. ms \in Seq(ServerMessage)
    BY <2>1, StatusPushType
  <2>3. toEngine' = toEngine \o ms
    BY <1>5, <2>1 DEF Push
  <2>4. s.type = "RecordingStatus" /\ s.recording = TRUE
    OBVIOUS
  <2> HIDE DEF s
  <2>5. Sent(ms) = {s}
    BY SentFew
  <2> HIDE DEF ms
  <2>6. Starts(ms)
    BY <2>4, <2>5 DEF Starts, IsStatus
  <2>7. \A m \in Sent(ms) : ToEngineRight(m)' /\ m.type # "EditHistory" /\ m.type # "Review"
    BY <2>4, <2>5 DEF ToEngineRight
  <2> QED BY <1>1, <1>3, <1>4, <2>2, <2>3, <2>6, <2>7, FreeKeeps
<1>6. CASE mic' = mic /\ Push(<<ErrorMessage>>)
  <2> DEFINE ms == <<ErrorMessage>>
  <2>1. ms \in Seq(ServerMessage) /\ toEngine' = toEngine \o ms
    BY <1>6, ErrorPush DEF Push
  <2>2. Sent(ms) = {ErrorMessage}
    BY SentFew
  <2>3. ErrorMessage.type = "Error"
    BY SpeaksError
  <2> HIDE DEF ms
  <2>4. \A m \in Sent(ms) : ToEngineRight(m)' /\ m.type # "EditHistory" /\ m.type # "Review"
    BY <2>2, <2>3 DEF ToEngineRight
  <2> QED BY <1>1, <1>3, <1>4, <1>6, <2>1, <2>4, FreeKeeps
<1> QED BY <1>5, <1>6 DEF StartLiveCapture, micVars

LEMMA SentPair ==
    ASSUME NEW S, NEW a \in S, NEW b \in S
    PROVE  LET ms == <<a>> \o <<b>> IN
           /\ ms \in Seq(S) /\ Sent(ms) = {a, b} /\ Len(ms) = 2
           /\ DOMAIN ms = 1..2 /\ ms[1] = a /\ ms[2] = b
<1> DEFINE one == <<b>>
           ms == <<a>> \o one
<1>1. one \in Seq(S) /\ Len(one) = 1 /\ one[1] = b
  OBVIOUS
<1> HIDE DEF one
<1>2. /\ ms \in Seq(S) /\ DOMAIN ms = 1..(1 + Len(one))
      /\ \A i \in 1..(1 + Len(one)) : ms[i] = IF i <= 1 THEN a ELSE one[i - 1]
  BY <1>1, FirstThen
<1> HIDE DEF ms
<1>3. DOMAIN ms = 1..2 /\ ms[1] = a /\ ms[2] = b
  BY <1>1, <1>2
<1>4. Len(ms) = 2 /\ Sent(ms) = {a, b}
  <2>1. 1..2 = {1, 2}
    OBVIOUS
  <2>2. Sent(ms) = {a, b}
    BY <1>3, <2>1 DEF Sent
  <2>3. Len(ms) \in Nat /\ DOMAIN ms = 1..Len(ms)
    BY <1>2, LenProperties
  <2>4. Len(ms) = 2
    BY <1>3, <2>3
  <2> QED BY <2>2, <2>4
<1> QED BY <1>2, <1>3, <1>4 DEF ms, one

(* The message that ends a take, with the status behind it.                  *)
LEMMA StopKeeps ==
    ASSUME TypeOK, DecisionInv, HelloInv, Free, mic # 0, mic' = 0,
           UNCHANGED <<link, review, engineVars, userVars>>,
           NEW m \in ServerMessage, Push(<<m>> \o StatusPush(FALSE)),
           ToEngineRight(m)', m.type \notin {"EditHistory", "RecordingStatus"},
           m.type = "Review" => review /\ PreviewInv,
           RecordInv'
    PROVE  DecisionInv'
<1> DEFINE f == [type |-> "RecordingStatus", recording |-> FALSE]
           ms == <<m>> \o <<f>>
<1>1. hello /\ last = TRUE
  BY DEF Free, HelloInv
<1>2. StatusPush(FALSE) = <<f>>
  BY <1>1 DEF StatusPush
<1>3. f \in ServerMessage /\ f.type = "RecordingStatus"
  BY DEF ServerMessage
<1>4. toEngine' = toEngine \o ms
  BY <1>2 DEF Push
<1> HIDE DEF f
<1>5. /\ ms \in Seq(ServerMessage) /\ Sent(ms) = {m, f} /\ Len(ms) = 2
      /\ DOMAIN ms = 1..2 /\ ms[1] = m /\ ms[2] = f
  BY <1>3, SentPair
<1> HIDE DEF ms
<1>6. \A s \in Sent(ms) : ToEngineRight(s)' /\ s.type # "EditHistory"
  BY <1>3, <1>5 DEF ToEngineRight
<1>7. \A s \in Sent(ms) : s.type = "Review" =>
         /\ toEngine = <<>> /\ ms[1] = s /\ Len(ms) > 1
         /\ \A i \in DOMAIN ms : ms[i].type = "Review" => i = 1
  <2> SUFFICES ASSUME m.type = "Review"
               PROVE  toEngine = <<>> /\ \A i \in DOMAIN ms : ms[i].type = "Review" => i = 1
    BY <1>3, <1>5
  <2>1. review /\ PreviewInv
    OBVIOUS
  <2>2. toEngine \in Seq(ServerMessage)
    BY DEF TypeOK, LinkTypeOK
  <2>3. Sent(toEngine) = {}
    BY <2>1 DEF Free, PreviewInv, Sent
  <2>4. toEngine = <<>>
    BY <2>2, <2>3, SentTyped
  <2> QED BY <1>3, <1>5, <2>4
<1>8. window = None
  BY DEF Free
<1> QED BY <1>4, <1>5, <1>6, <1>7, <1>8, FreeKeeps

LEMMA StopDecides ==
    ASSUME TypeOK, StoreInv, HelloInv, PreviewInv, DecisionInv, Free,
           StopLiveAndTranscribe, UNCHANGED <<link, engineVars, userVars>>
    PROVE  DecisionInv'
<1>1. mic # 0 /\ mic' = 0 /\ UNCHANGED review
  BY DEF StopLiveAndTranscribe
<1>2. /\ mic \in Take /\ ledger[mic] = "absent" /\ ~Uncommitted /\ LedgerCancelled = ledger
      /\ Raw(mic) \in Text /\ Raw(mic).take = mic
  BY <1>1, TakeEnds, Texts DEF TypeOK, Raw
<1>3. confirmed' = confirmed /\ discarded' = discarded /\ discarded \subseteq Take
  BY DEF userVars, TypeOK, UserTypeOK
<1>4. /\ OwnWords /\ ledger \in [Take -> {"absent", "created", "committed", "cancelled"}]
      /\ learned \in [Take -> Text \cup {None}]
  BY DEF DecisionInv, RecordInv, TypeOK, DaemonTypeOK
<1>5. ASSUME UNCHANGED <<active, ledger, learned>>
      PROVE  RecordInv'
  BY <1>1, <1>3, <1>5 DEF DecisionInv, RecordInv, OwnWords, Uncommitted
<1>0. ASSUME NEW ms \in Seq(ServerMessage)
      PROVE  Decoding(ms) = ms \o StatusPush(FALSE)
  <2>1. hello /\ last = TRUE
    BY <1>1 DEF HelloInv
  <2> QED BY <2>1, DecodingKnown
<1>6. CASE StopFails
  <2>1. RecordInv' /\ Push(<<ErrorMessage>> \o StatusPush(FALSE))
    BY <1>5, <1>6 DEF StopFails
  <2>2. ToEngineRight(ErrorMessage)'
    BY SpeaksError DEF ToEngineRight
  <2>3. ErrorMessage \in ServerMessage /\ ErrorMessage.type = "Error"
    BY SpeaksError
  <2> HIDE DEF ErrorMessage
  <2> QED BY <1>1, <2>1, <2>2, <2>3, StopKeeps
<1>7. CASE StopSilent
  <2>0. Decoding(<<>>) = StatusPush(FALSE)
    <3> DEFINE none == <<>>
               status == StatusPush(FALSE)
    <3>1. none \in Seq(ServerMessage)
      OBVIOUS
    <3>2. status \in Seq(ServerMessage)
      BY StatusPushType
    <3>3. none \o status = status
      <4> HIDE DEF status
      <4> QED BY <3>2, ConcatEmptySeq
    <3> HIDE DEF none
    <3>4. Decoding(none) = none \o status
      BY <1>0, <3>1
    <3>5. Decoding(none) = status
      BY <3>3, <3>4
    <3> QED BY <3>5 DEF none
  <2>1. RecordInv' /\ Push(StatusPush(FALSE))
    BY <1>5, <1>7, <2>0 DEF StopSilent
  <2> DEFINE ms == StatusPush(FALSE)
  <2>2. ms \in Seq(ServerMessage) /\ \A m \in Sent(ms) : m.type = "RecordingStatus"
    BY StatusSent
  <2>3. toEngine' = toEngine \o ms
    BY <2>1 DEF Push
  <2> HIDE DEF ms
  <2>4. \A m \in Sent(ms) : ToEngineRight(m)'
    BY <2>2 DEF ToEngineRight
  <2>5. window = None
    BY <1>1 DEF Free
  <2> QED BY <1>1, <2>1, <2>2, <2>3, <2>4, <2>5, FreeKeeps
<1>8. CASE StopReview
  <2>0. PICK m : m = [type |-> "Review", text |-> Raw(mic)]
    OBVIOUS
  <2>1. m \in ServerMessage /\ m.type = "Review" /\ m.text.take = mic
    BY <1>2, <2>0 DEF ServerMessage
  <2>2. /\ Push(Decoding(<<m>>)) /\ review
        /\ ledger' = [ledger EXCEPT ![mic] = "created"] /\ learned' = learned
        /\ active' = [id |-> mic, text |-> Raw(mic), finalized |-> FALSE]
    BY <1>2, <1>8, <2>0 DEF StopReview
  <2>9. Push(<<m>> \o StatusPush(FALSE))
    <3> DEFINE one == <<m>>
    <3>1. one \in Seq(ServerMessage)
      BY <2>1
    <3>2. Push(Decoding(one))
      BY <2>2
    <3> HIDE DEF one
    <3>3. Push(one \o StatusPush(FALSE))
      BY <1>0, <3>1, <3>2
    <3> QED BY <3>3 DEF one
  <2>3. mic \notin discarded
    BY <1>2, <2>2 DEF DecisionInv, RecordInv
  <2>4. ledger'[mic] = "created" /\ active'.id = mic
    BY <1>2, <1>4, <2>2
  <2>5. ToEngineRight(m)'
    BY <1>1, <1>3, <2>1, <2>2, <2>3, <2>4 DEF ToEngineRight, OfActive, Undecided
  <2>6. OwnWords'
    BY <1>4, <2>2 DEF OwnWords
  <2>7. \A k \in Take : ledger'[k] = IF k = mic THEN "created" ELSE ledger[k]
    BY <1>4, <2>2
  <2>8. RecordInv'
    BY <1>1, <1>3, <2>2, <2>6, <2>7 DEF DecisionInv, RecordInv
  <2> QED BY <1>1, <2>1, <2>2, <2>5, <2>8, <2>9, StopKeeps
<1>9. CASE StopDirect
  <2>0. PICK m : m = [type |-> "Reconcile", text |-> Raw(mic)]
    OBVIOUS
  <2>1. m \in ServerMessage /\ m.type = "Reconcile" /\ m.text.take = mic
    BY <1>2, <2>0 DEF ServerMessage
  <2>2. /\ Push(Decoding(<<m>>)) /\ ~review
        /\ learned' = [learned EXCEPT ![mic] = Raw(mic)]
        /\ active' = [id |-> mic, text |-> Raw(mic), finalized |-> TRUE]
    BY <1>9, <2>0 DEF StopDirect, Free
  <2>7. Push(<<m>> \o StatusPush(FALSE))
    <3> DEFINE one == <<m>>
    <3>1. one \in Seq(ServerMessage)
      BY <2>1
    <3>2. Push(Decoding(one))
      BY <2>2
    <3> HIDE DEF one
    <3>3. Push(one \o StatusPush(FALSE))
      BY <1>0, <3>1, <3>2
    <3> QED BY <3>3 DEF one
  <2>3. active'.id = mic /\ ~Uncommitted'
    BY <2>2 DEF Uncommitted
  <2>4. ToEngineRight(m)'
    BY <1>1, <2>1, <2>2, <2>3 DEF ToEngineRight, OfActive
  <2>5. OwnWords'
    BY <1>2, <1>4, <2>2 DEF OwnWords
  <2>6. RecordInv'
    BY <1>1, <2>2, <2>3, <2>5 DEF RecordInv
  <2> QED BY <1>1, <2>1, <2>2, <2>4, <2>6, <2>7, StopKeeps
<1> QED BY <1>6, <1>7, <1>8, <1>9 DEF StopLiveAndTranscribe

(* The client is lost: nobody waits for the session any more.                *)
LEMMA DropDecides ==
    ASSUME TypeOK, StoreInv, DecisionInv, PeerGone \/ PeerGoneAfterStoring
    PROVE  DecisionInv'
<1>1. /\ mic' = 0 /\ active' = None
      /\ link' = "down" /\ toDaemon' = <<>> /\ toEngine' = <<>>
      /\ UNCHANGED <<review, window, dialog, confirmed, discarded>>
  BY DEF PeerGone, PeerGoneAfterStoring, DropClient, engineVars, sessionVars, userVars
<1>2. Reviewing' = Reviewing
  BY <1>1 DEF Reviewing
<1>3. /\ \A k \in Take : ledger'[k] \in {ledger[k], "cancelled"}
                          \/ (mic # 0 /\ (review => ledger'[k] = "cancelled"))
      /\ \A k \in Take : ledger[k] # "absent" => ledger'[k] # "absent"
      /\ OwnWords'
  <2>0. /\ LedgerCancelled \in [Take -> {"absent", "created", "committed", "cancelled"}]
        /\ \A k \in Take : LedgerCancelled[k] \in {ledger[k], "cancelled"}
        /\ OwnWords
    BY LedgerCancelledType
    DEF TypeOK, DaemonTypeOK, LedgerCancelled, DecisionInv, RecordInv
  <2>1. CASE PeerGone
    <3>1. ledger' = LedgerCancelled /\ learned' = learned
      BY <2>1 DEF PeerGone
    <3> QED BY <2>0, <3>1 DEF OwnWords
  <2>2. CASE PeerGoneAfterStoring
    <3>1. mic # 0 /\ mic \in Take
      BY <2>2 DEF PeerGoneAfterStoring, TypeOK, DaemonTypeOK
    <3>2. \A k \in Take :
             ledger'[k] = IF k = mic THEN IF review THEN "cancelled" ELSE "committed"
                          ELSE LedgerCancelled[k]
      BY <2>0, <2>2 DEF PeerGoneAfterStoring
    <3>3. learned' = learned \/ learned' = [learned EXCEPT ![mic] = Raw(mic)]
      BY <2>2 DEF PeerGoneAfterStoring
    <3>4. OwnWords'
      BY <2>0, <3>1, <3>3 DEF OwnWords, Raw, TypeOK, DaemonTypeOK
    <3>5. \A k \in Take : ledger'[k] \in {ledger[k], "cancelled"}
                          \/ (mic # 0 /\ (review => ledger'[k] = "cancelled"))
      BY <2>0, <3>1, <3>2
    <3>6. \A k \in Take : ledger[k] # "absent" => ledger'[k] # "absent"
      BY <2>0, <3>2
    <3> QED BY <3>4, <3>5, <3>6
  <2> QED BY <2>1, <2>2
<1>4. /\ Sent(toDaemon') = {} /\ Sent(toEngine') = {}
      /\ DOMAIN toEngine' = {} /\ DOMAIN toDaemon' = {}
  <2>1. Sent(<<>>) = {}
    BY SentFew
  <2>2. DOMAIN <<>> = {}
    OBVIOUS
  <2> QED BY <1>1, <2>1, <2>2
<1>5. MailInv' /\ ToggleInv' /\ TurnInv'
  BY <1>1, <1>4 DEF MailInv, ToggleInv, TurnInv
<1>6. WindowInv'
  BY <1>1 DEF DecisionInv, WindowInv, OfActive
<1>7. DialogInv'
  <2>1. ASSUME Reviewing
        PROVE  Undecided(dialog.id)'
    <3>1. dialog.id \in Take
      BY <2>1 DEF Reviewing, TypeOK, EngineTypeOK, Dialog
    <3>2. PICK k \in Take : k = dialog.id
      BY <3>1
    <3>3. mic = 0 /\ Undecided(k)
      BY <2>1, <3>2 DEF DecisionInv, DialogInv
    <3>4. Undecided(k)'
      BY <1>1, <1>3, <3>3 DEF Undecided
    <3> QED BY <1>1, <3>2, <3>4
  <2> QED BY <1>1, <1>2, <1>4, <2>1 DEF DecisionInv, DialogInv, OfActive
<1>8. RecordInv'
  <2>1. ~Uncommitted' /\ discarded \subseteq Take
    BY <1>1 DEF Uncommitted, TypeOK, UserTypeOK
  <2>2. review => \A k \in Take : ledger'[k] = "committed" => ledger[k] = "committed"
    BY <1>3
  <2> QED BY <1>1, <1>3, <2>1, <2>2 DEF DecisionInv, RecordInv
<1> QED BY <1>5, <1>6, <1>7, <1>8 DEF DecisionInv

LEMMA DaemonDecides ==
    ASSUME TypeOK, StoreInv, HelloInv, PreviewInv, DecisionInv,
           ~Early, ~Hasty, ~ModeSwitch, DaemonReads \/ DaemonActs
    PROVE  DecisionInv'
<1>1. OwnWords
  BY DEF DecisionInv, RecordInv
<1>2. ASSUME \E ms \in Seq(ServerMessage) : DaemonTurn(ms)
      PROVE  DecisionInv'
  BY <1>2, DaemonTurnKeeps
<1>3. CASE OnClientHello
  BY <1>1, <1>2, <1>3, HelloTurns
<1>4. CASE OnToggleRecording
  <2>1. /\ Free /\ UNCHANGED <<link, engineVars, userVars>>
        /\ StartLiveCapture \/ StopLiveAndTranscribe
    BY <1>4, ToggleIsFree DEF OnToggleRecording, Receive
  <2> QED BY <2>1, StartDecides, StopDecides
<1>5. CASE OnCommitPreedit
  BY <1>2, <1>5, CommitTurns
<1>6. CASE OnReportCorrection \/ OnHistoryEdited
  BY <1>2, <1>6, CorrectionTurns
<1>7. CASE OnCancelPreedit
  BY <1>1, <1>2, <1>7, CancelIsTurn DEF OnCancelPreedit, Receive
<1>8. CASE PeerGone \/ PeerGoneAfterStoring
  BY <1>8, DropDecides
<1>9. CASE TrayStart \/ TrayStop \/ AutoStop
  <2>1. Calm /\ toDaemon' = toDaemon /\ UNCHANGED <<link, engineVars, userVars>>
    BY <1>9, ClickFindsCalm DEF TrayStart, TrayStop, AutoStop, OwnStep
  <2>2. Free
    BY <2>1, CalmIsFree
  <2> QED BY <1>9, <2>1, <2>2, StartDecides, StopDecides DEF TrayStart, TrayStop, AutoStop
<1>10. CASE TrayCancel
  <2>1. /\ CancelTake /\ Calm /\ toDaemon' = toDaemon
        /\ UNCHANGED <<link, engineVars, userVars>>
    BY <1>10, ClickFindsCalm DEF TrayCancel, OwnStep
  <2> QED BY <1>1, <1>2, <2>1, CancelIsTurn
<1>11. CASE TraySetting
  BY <1>1, <1>2, <1>11, SettingTurns
<1>12. CASE TrayEdit
  BY <1>1, <1>2, <1>12, EditTurns
<1>13. CASE PumpPartial
  BY <1>1, <1>2, <1>13, PartialTurns
<1> QED
  BY <1>3, <1>4, <1>5, <1>6, <1>7, <1>8, <1>9, <1>10, <1>11, <1>12, <1>13
  DEF DaemonReads, DaemonActs

-----------------------------------------------------------------------------
(* A process dies, and the two meet again. *)

LEMMA ExitDecides ==
    ASSUME TypeOK, DecisionInv, EngineExit
    PROVE  DecisionInv'
<1>1. /\ window' = None /\ dialog' = None /\ toEngine' = <<>> /\ toDaemon' = toDaemon
      /\ link' \in {"down", "gone"} /\ (link' = "down" => link = "down")
      /\ UNCHANGED <<mic, active, review, ledger, learned, confirmed, discarded>>
  BY DEF EngineExit, EngineIdle, daemonVars, micVars, storeVars, userVars
<1>2. ~Reviewing'
  BY <1>1 DEF Reviewing
<1>3. Sent(toEngine') = {} /\ DOMAIN toEngine' = {} /\ Sent(toDaemon') = Sent(toDaemon)
  <2>1. Sent(<<>>) = {}
    BY SentFew
  <2>2. DOMAIN <<>> = {}
    OBVIOUS
  <2> QED BY <1>1, <2>1, <2>2
<1>4. MailInv'
  <2>1. ASSUME NEW m \in Sent(toDaemon) PROVE ToDaemonRight(m)'
    BY <1>1 DEF DecisionInv, MailInv, ToDaemonRight, OfActive
  <2> QED BY <1>3, <2>1 DEF MailInv
<1>5. WindowInv' /\ DialogInv'
  BY <1>1, <1>2 DEF WindowInv, DialogInv
<1>6. TurnInv'
  BY <1>1, <1>3 DEF DecisionInv, TurnInv
<1>7. ToggleInv'
  BY <1>1, <1>2, <1>3 DEF DecisionInv, ToggleInv, PressedAlone
<1>8. RecordInv'
  BY <1>1 DEF DecisionInv, RecordInv, OwnWords, Uncommitted
<1> QED BY <1>4, <1>5, <1>6, <1>7, <1>8 DEF DecisionInv

LEMMA DeathDecides ==
    ASSUME TypeOK, DecisionInv, \E stored, sent : DaemonDies(stored, sent),
           toEngine' = toEngine \/ toEngine' = <<>>,
           \A k \in Take : ledger'[k] \in {ledger[k], "cancelled"}
                           \/ (mic # 0 /\ (review => ledger'[k] = "created")),
           \A k \in Take : ledger[k] # "absent" => ledger'[k] # "absent",
           OwnWords'
    PROVE  DecisionInv'
<1>1. /\ mic' = 0 /\ active' = None /\ link' = "down" /\ toDaemon' = <<>>
      /\ toEngine' = toEngine \/ toEngine' = <<>>
      /\ UNCHANGED <<review, window, dialog, confirmed, discarded>>
  BY DEF DaemonDies, engineVars, sessionVars, userVars
<1>2. Reviewing' = Reviewing
  BY <1>1 DEF Reviewing
<1>3. /\ Sent(toDaemon') = {} /\ DOMAIN toDaemon' = {}
      /\ Sent(toEngine') \subseteq Sent(toEngine)
  <2>1. Sent(<<>>) = {}
    BY SentFew
  <2>2. DOMAIN <<>> = {}
    OBVIOUS
  <2> QED BY <1>1, <2>1, <2>2
<1>4. ASSUME NEW k \in Take, mic = 0, Undecided(k)
      PROVE  Undecided(k)'
  BY <1>1, <1>4 DEF Undecided
<1>5. MailInv'
  <2>1. ASSUME NEW m \in Sent(toEngine) PROVE ToEngineRight(m)'
    <3>1. ToEngineRight(m) /\ m \in ServerMessage
      BY SentTyped DEF DecisionInv, MailInv, TypeOK, LinkTypeOK
    <3>2. m.type = "Review" => m.text.take \in Take
      BY <3>1, ServerMessageFields, Texts
    <3>3. m.type = "Review" => Undecided(m.text.take)'
      BY <1>4, <3>1, <3>2 DEF ToEngineRight
    <3> QED BY <1>1, <3>1, <3>3 DEF ToEngineRight, OfActive
  <2> QED BY <1>3, <2>1 DEF MailInv
<1>6. WindowInv'
  BY <1>1 DEF DecisionInv, WindowInv, OfActive
<1>7. DialogInv'
  <2>1. ASSUME Reviewing
        PROVE  Undecided(dialog.id)'
    <3>1. dialog.id \in Take
      BY <2>1 DEF Reviewing, TypeOK, EngineTypeOK, Dialog
    <3>2. PICK k \in Take : k = dialog.id
      BY <3>1
    <3>3. mic = 0 /\ Undecided(k)
      BY <2>1, <3>2 DEF DecisionInv, DialogInv
    <3>4. Undecided(k)'
      BY <1>4, <3>3
    <3> QED BY <1>1, <3>2, <3>4
  <2> QED BY <1>1, <1>2, <1>3, <2>1 DEF DecisionInv, DialogInv, OfActive
<1>8. TurnInv'
  <2>1. DOMAIN <<>> = {}
    OBVIOUS
  <2> QED BY <1>1, <1>3, <2>1 DEF DecisionInv, TurnInv
<1>9. ToggleInv'
  BY <1>3 DEF ToggleInv
<1>10. RecordInv'
  <2>1. ~Uncommitted' /\ discarded \subseteq Take
    BY <1>1 DEF Uncommitted, TypeOK, UserTypeOK
  <2>2. review => \A k \in Take : ledger'[k] = "committed" => ledger[k] = "committed"
    OBVIOUS
  <2> QED BY <1>1, <2>1, <2>2 DEF DecisionInv, RecordInv
<1> QED BY <1>5, <1>6, <1>7, <1>8, <1>9, <1>10 DEF DecisionInv

LEMMA ProcessDecides ==
    ASSUME TypeOK, StoreInv, HelloInv, DecisionInv, ProcessDies
    PROVE  DecisionInv'
<1>0. /\ OwnWords /\ ledger \in [Take -> {"absent", "created", "committed", "cancelled"}]
      /\ learned \in [Take -> Text \cup {None}]
  BY DEF DecisionInv, RecordInv, TypeOK, DaemonTypeOK
<1>1. CASE EngineExit
  BY <1>1, ExitDecides
<1>2. CASE DaemonDiesBetweenHandlers \/ DaemonDiesDecoding
  <2>1. ledger' = ledger /\ learned' = learned /\ \E stored, sent : DaemonDies(stored, sent)
    BY <1>2 DEF DaemonDiesBetweenHandlers, DaemonDiesDecoding, DaemonDies
  <2>2. OwnWords'
    BY <1>0, <2>1 DEF OwnWords
  <2>3. toEngine' = toEngine \/ toEngine' = <<>>
    BY DeathTells
  <2> QED BY <2>1, <2>2, <2>3, DeathDecides
<1>3. CASE DaemonDiesAfterCreating \/ DaemonDiesAfterCommitting
  <2>1. /\ mic # 0 /\ mic \in Take /\ LedgerCancelled = ledger
        /\ \E stored, sent : DaemonDies(stored, sent)
    BY <1>3, TakeEnds
    DEF DaemonDiesAfterCreating, DaemonDiesAfterCommitting, TypeOK
  <2>2. /\ \/ ledger' = [ledger EXCEPT ![mic] = "created"]
           \/ ~review /\ ledger' = [ledger EXCEPT ![mic] = "committed"]
        /\ learned' = learned \/ learned' = [learned EXCEPT ![mic] = Raw(mic)]
    BY <1>3, <2>1 DEF DaemonDiesAfterCreating, DaemonDiesAfterCommitting, DaemonDies
  <2>3. OwnWords'
    BY <1>0, <2>1, <2>2 DEF OwnWords, Raw
  <2>4. \A k \in Take : ledger'[k] \in {ledger[k], "cancelled"}
                        \/ (mic # 0 /\ (review => ledger'[k] = "created"))
    BY <1>0, <2>1, <2>2
  <2>5. \A k \in Take : ledger[k] # "absent" => ledger'[k] # "absent"
    BY <1>0, <2>1, <2>2
  <2>6. toEngine' = toEngine \/ toEngine' = <<>>
    BY DeathTells
  <2> QED BY <2>1, <2>3, <2>4, <2>5, <2>6, DeathDecides
<1> QED BY <1>1, <1>2, <1>3 DEF ProcessDies

(* Whatever the two do to meet, only greetings are under way. *)
LEMMA MeetingDecides ==
    ASSUME TypeOK, HelloInv, DecisionInv, EngineConnects
    PROVE  DecisionInv'
<1>0. /\ UNCHANGED <<mic, active, review, ledger, learned, dialog, confirmed, discarded>>
      /\ toEngine \in Seq(ServerMessage) /\ toDaemon \in Seq(ClientMessage)
  BY DEF EngineConnects, Connect, SendHello, Greeted, HandshakeFails, daemonVars, micVars,
         storeVars, engineVars, userVars, TypeOK, LinkTypeOK
<1>1. /\ dialog = None /\ active = None /\ mic = 0
      /\ window' = window \/ window' = None
      /\ \/ toEngine' = toEngine
         \/ toEngine' = <<>>
         \/ toEngine # <<>> /\ toEngine' = Tail(toEngine)
  BY DEF EngineConnects, Connect, SendHello, Greeted, HandshakeFails, EngineIdle,
         engineVars, sessionVars, DecisionInv, TurnInv
<1>2. \A m \in Sent(toDaemon') : m.type = "ClientHello"
  <2> DEFINE h == [type |-> "ClientHello"]
  <2>1. Sent(<<>>) = {}
    BY SentFew
  <2>2. h.type = "ClientHello"
    OBVIOUS
  <2>3. CASE Connect
    <3>1. toDaemon' = <<>> \/ toDaemon' = <<h>>
      BY <2>3 DEF Connect
    <3> HIDE DEF h
    <3>2. Sent(<<h>>) = {h}
      BY SentFew
    <3> QED BY <2>1, <2>2, <3>1, <3>2
  <2>4. CASE SendHello
    <3>1. toDaemon' = Append(toDaemon, h) /\ toDaemon = <<>>
      BY <2>4 DEF SendHello, HelloInv
    <3>2. toDaemon' = <<h>>
      BY <3>1
    <3> HIDE DEF h
    <3>3. Sent(<<h>>) = {h}
      BY SentFew
    <3> QED BY <2>2, <3>2, <3>3
  <2>5. CASE Greeted \/ HandshakeFails
    <3>1. toDaemon' = toDaemon /\ link = "greeting"
      BY <2>5 DEF Greeted, HandshakeFails
    <3> QED BY <3>1 DEF DecisionInv, TurnInv
  <2> QED BY <2>3, <2>4, <2>5 DEF EngineConnects
<1>3. Sent(toEngine') \subseteq Sent(toEngine)
  <2>1. Sent(<<>>) = {}
    BY SentFew
  <2> QED BY <1>0, <1>1, <2>1, SentShortened
<1>4. MailInv'
  <2>1. ASSUME NEW m \in Sent(toEngine) PROVE ToEngineRight(m)'
    BY <1>0, <2>1 DEF DecisionInv, MailInv, ToEngineRight, OfActive, Undecided
  <2>2. \A m \in Sent(toDaemon') : ToDaemonRight(m)'
    BY <1>2 DEF ToDaemonRight
  <2> QED BY <1>3, <2>1, <2>2 DEF MailInv
<1>5. WindowInv' /\ DialogInv'
  BY <1>0, <1>1 DEF DecisionInv, WindowInv, DialogInv, OfActive, Reviewing
<1>6. TurnInv'
  <2>1. ASSUME NEW i \in DOMAIN toEngine', toEngine'[i].type = "Review"
        PROVE  i = 1 /\ Len(toEngine') > 1
    <3>1. CASE toEngine' = toEngine
      BY <2>1, <3>1 DEF DecisionInv, TurnInv
    <3>2. CASE toEngine' = <<>>
      <4>1. DOMAIN <<>> = {}
        OBVIOUS
      <4> QED BY <2>1, <3>2, <4>1
    <3>3. CASE toEngine # <<>> /\ toEngine' = Tail(toEngine)
      <4>1. i \in Nat /\ i + 1 \in DOMAIN toEngine /\ toEngine[i + 1].type = "Review"
        BY <1>0, <2>1, <3>3, SentShortened
      <4>2. i + 1 = 1
        BY <4>1 DEF DecisionInv, TurnInv
      <4>3. DOMAIN toEngine' \subseteq Nat \ {0}
        BY <1>0, <3>3, HeadTailProperties, LenProperties
      <4> QED BY <2>1, <4>1, <4>2, <4>3
    <3> QED BY <1>1, <3>1, <3>2, <3>3
  <2>2. \A m \in Sent(toDaemon') : m.type # "CommitPreedit"
    BY <1>2
  <2> QED BY <1>0, <1>1, <1>2, <2>1, <2>2 DEF TurnInv
<1>7. ToggleInv'
  BY <1>2 DEF ToggleInv, Sent
<1>8. RecordInv'
  BY <1>0 DEF DecisionInv, RecordInv, OwnWords, Uncommitted
<1> QED BY <1>4, <1>5, <1>6, <1>7, <1>8 DEF DecisionInv

-----------------------------------------------------------------------------
(* The engine reads one message, and may send a correction or a cancel.      *)

LEMMA CorrectionFits ==
    ASSUME TypeOK, DecisionInv
    PROVE  /\ Correction \in Seq(ClientMessage)
           /\ \A m \in Sent(Correction) :
                 m.type = "ReportCorrection" /\ ~review /\ OfActive(m.text.take)
<1>1. CASE window # None /\ window.corrected
  <2> DEFINE c == [type |-> "ReportCorrection", text |-> Edited(window.text)]
  <2>1. Correction = <<c>> /\ c.type = "ReportCorrection" /\ c.text = Edited(window.text)
    BY <1>1 DEF Correction
  <2>2. window.text \in Text
    BY <1>1 DEF TypeOK, EngineTypeOK, Review
  <2>3. c.text.take = window.text.take
    BY <2>1, <2>2 DEF Edited, Text
  <2>4. ~review /\ OfActive(window.text.take)
    BY <1>1 DEF DecisionInv, WindowInv
  <2> HIDE DEF c
  <2>5. Sent(<<c>>) = {c}
    BY SentFew
  <2> QED BY <2>1, <2>3, <2>4, <2>5, CorrectionType
<1>2. CASE ~(window # None /\ window.corrected)
  <2>1. Correction = <<>>
    BY <1>2 DEF Correction
  <2>2. Sent(<<>>) = {}
    BY SentFew
  <2> QED BY <2>1, <2>2
<1> QED BY <1>1, <1>2

(* What a reader may send while it handles message m. *)
ReaderSends(ms) ==
    /\ ms \in Seq(ClientMessage)
    /\ toDaemon' = IF Serving THEN toDaemon \o ms ELSE toDaemon
    /\ \A m \in Sent(ms) :
          \/ m.type = "CancelPreedit"
          \/ m.type = "ReportCorrection" /\ ~review /\ OfActive(m.text.take)

LEMMA ReaderSendings ==
    ASSUME TypeOK, DecisionInv, NEW ms,
           \/ ms = <<>> \/ ms = Correction \/ ms = <<[type |-> "CancelPreedit"]>>,
           Send(ms)
    PROVE  ReaderSends(ms)
<1> DEFINE c == [type |-> "CancelPreedit"]
<1>0. toDaemon' = IF Serving THEN toDaemon \o ms ELSE toDaemon
  BY DEF Send
<1>1. CASE ms = <<>>
  <2>1. Sent(<<>>) = {}
    BY SentFew
  <2> QED BY <1>0, <1>1, <2>1 DEF ReaderSends
<1>2. CASE ms = Correction
  BY <1>0, <1>2, CorrectionFits DEF ReaderSends
<1>3. CASE ms = <<c>>
  <2>1. <<c>> \in Seq(ClientMessage) /\ c.type = "CancelPreedit"
    BY ClientSends
  <2> HIDE DEF c
  <2>2. Sent(<<c>>) = {c}
    BY SentFew
  <2> QED BY <1>0, <1>3, <2>1, <2>2 DEF ReaderSends
<1> QED BY <1>1, <1>2, <1>3

(* What the reader does, by the message it reads, to its window and dialog.  *)
ReaderTurn(ms) ==
    LET m == Head(toEngine) IN
    /\ toEngine # <<>> /\ toEngine' = Tail(toEngine) /\ dialog = None
    /\ link \in {"up", "down"}
    /\ UNCHANGED <<link, daemonVars, confirmed>>
    /\ ReaderSends(ms)
    /\ m.type \in {"Partial", "Review"} => ms = <<>>
    /\ \/ window' = None
       \/ window' = window /\ ~(IsStatus(m) /\ m.recording = TRUE)
       \/ window' # None /\ m.type = "Reconcile" /\ window'.text = m.text
    /\ m.type = "Partial" => window' = window
    /\ \/ dialog' = None
       \/ /\ dialog' # None /\ m.type = "Review" /\ dialog'.kind = "review"
          /\ dialog'.id = m.text.take /\ dialog'.text = m.text
       \/ /\ m.type = "EditHistory" /\ dialog'.kind = "history"
          /\ dialog'.id = m.id /\ dialog'.text = m.text
    /\ \/ discarded' = discarded
       \/ m.type = "Reconcile"

LEMMA ReaderTurnKeeps ==
    ASSUME TypeOK, DecisionInv, NEW ms, ReaderTurn(ms)
    PROVE  DecisionInv'
<1> DEFINE m == Head(toEngine)
<1>0. /\ toEngine \in Seq(ServerMessage) /\ toDaemon \in Seq(ClientMessage)
      /\ toEngine # <<>> /\ toEngine' = Tail(toEngine)
      /\ UNCHANGED <<link, mic, active, review, ledger, learned, confirmed>>
      /\ dialog = None /\ ~Reviewing
  BY DEF ReaderTurn, daemonVars, micVars, storeVars, Reviewing, TypeOK, LinkTypeOK
<1>1. /\ m \in Sent(toEngine) /\ Sent(toEngine') \subseteq Sent(toEngine)
      /\ \A s \in Sent(toEngine) : s = m \/ s \in Sent(toEngine')
      /\ m = toEngine[1] /\ 1 \in DOMAIN toEngine
  BY <1>0, SentShortened, Shortened
<1>2. ToEngineRight(m)
  BY <1>1 DEF DecisionInv, MailInv
<1>3. /\ Sent(toDaemon') \subseteq Sent(toDaemon) \cup Sent(ms)
      /\ \A r \in Sent(ms) :
          \/ r.type = "CancelPreedit"
          \/ r.type = "ReportCorrection" /\ ~review /\ OfActive(r.text.take)
      /\ m.type \in {"Partial", "Review"} => toDaemon' = toDaemon
  <2>1. ms \in Seq(ClientMessage)
    BY DEF ReaderTurn, ReaderSends
  <2>2. toDaemon \o <<>> = toDaemon
    BY <1>0, ConcatEmptySeq
  <2> QED BY <1>0, <2>1, <2>2, SentJoined DEF ReaderTurn, ReaderSends
<1>4. m.type = "Reconcile" => ~review
  BY <1>2 DEF ToEngineRight
<1>5. ASSUME NEW i \in DOMAIN toEngine'
      PROVE  toEngine'[i].type # "Review"
  <2>1. i \in Nat /\ i + 1 \in DOMAIN toEngine /\ toEngine'[i] = toEngine[i + 1]
    BY <1>0, <1>5, SentShortened
  <2>2. DOMAIN toEngine' \subseteq Nat \ {0}
    BY <1>0, HeadTailProperties, LenProperties
  <2>3. i + 1 # 1
    BY <1>5, <2>1, <2>2
  <2> QED BY <2>1, <2>3 DEF DecisionInv, TurnInv
<1>6. MailInv'
  <2>1. ASSUME NEW s \in Sent(toEngine') PROVE ToEngineRight(s)'
    <3>1. ToEngineRight(s) /\ s.type # "Review"
      <4>1. s.type # "Review"
        BY <1>5, <2>1 DEF Sent
      <4> QED BY <1>1, <2>1, <4>1 DEF DecisionInv, MailInv
    <3> QED BY <1>0, <3>1 DEF ToEngineRight, OfActive
  <2>2. ASSUME NEW r \in Sent(toDaemon) PROVE ToDaemonRight(r)'
    <3>1. ToDaemonRight(r)
      BY <2>2 DEF DecisionInv, MailInv
    <3>2. r.type = "CommitPreedit" => discarded' = discarded
      BY <1>4, <3>1 DEF ToDaemonRight, ReaderTurn
    <3> QED BY <1>0, <3>1, <3>2 DEF ToDaemonRight, OfActive
  <2>3. ASSUME NEW r \in Sent(ms) PROVE ToDaemonRight(r)'
    BY <1>0, <1>3, <2>3 DEF ToDaemonRight, OfActive
  <2> QED BY <1>3, <2>1, <2>2, <2>3 DEF MailInv
<1>7. WindowInv'
  <2> SUFFICES ASSUME window' # None
               PROVE  /\ ~review /\ OfActive(window'.text.take)
                      /\ mic # 0 => Starts(toEngine')
    BY <1>0 DEF WindowInv, OfActive
  <2>1. CASE window' = window /\ ~(IsStatus(m) /\ m.recording = TRUE)
    <3>1. ~review /\ OfActive(window.text.take) /\ (mic # 0 => Starts(toEngine))
      BY <2>1 DEF DecisionInv, WindowInv
    <3>2. Starts(toEngine) => Starts(toEngine')
      BY <1>1, <2>1 DEF Starts
    <3> QED BY <2>1, <3>1, <3>2
  <2>2. CASE m.type = "Reconcile" /\ window'.text = m.text
    BY <1>2, <2>2 DEF ToEngineRight
  <2> QED BY <2>1, <2>2 DEF ReaderTurn
<1>8. CASE m.type = "Review" /\ dialog' # None
  <2>1. /\ dialog'.kind = "review" /\ dialog'.id = m.text.take /\ dialog'.text = m.text
        /\ toDaemon' = toDaemon /\ discarded' = discarded
    BY <1>3, <1>8 DEF ReaderTurn
  <2>2. /\ Len(toEngine) > 1 /\ \A r \in Sent(toDaemon) : r.type # "CommitPreedit"
    BY <1>1, <1>8 DEF DecisionInv, TurnInv
  <2>3. toEngine' # <<>>
    <3>1. Len(toEngine') = Len(toEngine) - 1 /\ Len(toEngine) \in Nat
      BY <1>0, SentShortened
    <3>2. Len(toEngine') # 0
      BY <2>2, <3>1
    <3> QED BY <3>2, EmptySeq
  <2>4. \A s \in Sent(toEngine') : s.type # "Review"
    BY <1>5 DEF Sent
  <2>5. review /\ mic = 0 /\ OfActive(m.text.take) /\ Undecided(m.text.take)
    BY <1>2, <1>8 DEF ToEngineRight
  <2>6. OfActive(dialog'.id) /\ Undecided(dialog'.id)
    BY <2>1, <2>5
  <2>7. DialogInv'
    BY <1>0, <2>1, <2>2, <2>3, <2>4, <2>5, <2>6 DEF DialogInv, OfActive, Undecided
  <2>8. ToggleInv'
    <3>1. ASSUME NEW i \in DOMAIN toDaemon, toDaemon[i].type = "ToggleRecording"
          PROVE  FALSE
      <4>1. m.type = "Partial"
        BY <1>1, <3>1 DEF DecisionInv, ToggleInv, PressedAlone
      <4> QED BY <1>8, <4>1
    <3> QED BY <2>1, <3>1 DEF ToggleInv
  <2>9. TurnInv'
    BY <1>0, <1>5 DEF ReaderTurn, DecisionInv, TurnInv
  <2>10. RecordInv'
    BY <1>0, <2>1 DEF DecisionInv, RecordInv, OwnWords, Uncommitted
  <2> QED BY <1>6, <1>7, <2>7, <2>8, <2>9, <2>10 DEF DecisionInv
<1>9. CASE ~(m.type = "Review" /\ dialog' # None)
  <2>1. /\ ~Reviewing'
        /\ dialog' # None => dialog'.text.take = dialog'.id
    BY <1>2, <1>9 DEF ReaderTurn, Reviewing, ToEngineRight
  <2>2. DialogInv'
    BY <2>1 DEF DialogInv
  <2>3. TurnInv'
    BY <1>0, <1>5 DEF ReaderTurn, DecisionInv, TurnInv
  <2>4. RecordInv'
    <3>1. review => discarded' = discarded
      BY <1>4 DEF ReaderTurn
    <3> QED BY <1>0, <3>1 DEF DecisionInv, RecordInv, OwnWords, Uncommitted
  <2>5. ToggleInv'
    <3>1. CASE \E i \in DOMAIN toDaemon : toDaemon[i].type = "ToggleRecording"
      <4>1. (\A s \in Sent(toEngine) : s.type = "Partial") /\ m.type = "Partial"
        BY <1>1, <3>1 DEF DecisionInv, ToggleInv, PressedAlone
      <4>2. toDaemon' = toDaemon /\ window' = window
        BY <1>3, <4>1 DEF ReaderTurn
      <4> QED BY <1>1, <2>1, <4>1, <4>2 DEF DecisionInv, ToggleInv, PressedAlone
    <3>2. CASE \A i \in DOMAIN toDaemon : toDaemon[i].type # "ToggleRecording"
      <4>1. \A r \in Sent(toDaemon') : r.type # "ToggleRecording"
        BY <1>3, <3>2 DEF Sent
      <4> QED BY <4>1 DEF ToggleInv, Sent
    <3> QED BY <3>1, <3>2
  <2> QED BY <1>6, <1>7, <2>2, <2>3, <2>4, <2>5 DEF DecisionInv
<1> QED BY <1>8, <1>9

LEMMA ReaderTurns ==
    ASSUME TypeOK, DecisionInv, EngineReads
    PROVE  \E ms : ReaderTurn(ms)
<1> DEFINE m == Head(toEngine)
           cancel == <<[type |-> "CancelPreedit"]>>
<1>0. /\ toEngine # <<>> /\ toEngine' = Tail(toEngine) /\ dialog = None
      /\ link \in {"up", "down"} /\ UNCHANGED <<link, daemonVars>>
  BY DEF EngineReads, ReadStatus, ReadPartial, ReadReconcile, ReadReconcileWithoutTarget,
         ReadReview, ReadEditHistory, ReadError, Read, Send
<1>1. CASE ReadStatus
  <2> DEFINE ms == IF estate = "reviewing" /\ m.recording THEN Correction ELSE <<>>
  <2>1. Send(ms) /\ m.type = "RecordingStatus" /\ UNCHANGED <<dialog, userVars>>
    BY <1>1 DEF ReadStatus, Read
  <2>2. ms = Correction \/ ms = <<>>
    OBVIOUS
  <2>3. window' = None \/ (window' = window /\ ~(m.recording = TRUE))
    BY <1>1 DEF ReadStatus
  <2> HIDE DEF ms, m
  <2>4. ReaderSends(ms)
    BY <2>1, <2>2, ReaderSendings
  <2>5. UNCHANGED <<confirmed, discarded>> /\ dialog' = None
    BY <1>0, <2>1 DEF userVars
  <2>6. ReaderTurn(ms)
    BY <1>0, <2>1, <2>3, <2>4, <2>5 DEF ReaderTurn, IsStatus, m
  <2> QED BY <2>6
<1>2. CASE ReadPartial \/ ReadError \/ ReadReview \/ ReadEditHistory
  <2>1. Send(<<>>) /\ UNCHANGED userVars
    BY <1>2 DEF ReadPartial, ReadError, ReadReview, ReadEditHistory
  <2>2. ReaderSends(<<>>)
    BY <2>1, ReaderSendings
  <2>3. m.type \in {"Partial", "Error", "Review", "EditHistory"}
    BY <1>2 DEF ReadPartial, ReadError, ReadReview, ReadEditHistory, Read
  <2>4. /\ window' = None \/ window' = window
        /\ m.type = "Partial" => window' = window
    BY <1>2 DEF ReadPartial, ReadError, ReadReview, ReadEditHistory, Read, sessionVars
  <2>5. \/ dialog' = None
        \/ /\ dialog' # None /\ m.type = "Review" /\ dialog'.kind = "review"
           /\ dialog'.id = m.text.take /\ dialog'.text = m.text
        \/ /\ m.type = "EditHistory" /\ dialog'.kind = "history"
           /\ dialog'.id = m.id /\ dialog'.text = m.text
    <3>1. CASE ReadPartial \/ ReadError
      BY <1>0, <3>1 DEF ReadPartial, ReadError
    <3>2. CASE ReadReview
      BY <3>2 DEF ReadReview, Read
    <3>3. CASE ReadEditHistory
      BY <3>3 DEF ReadEditHistory, Read
    <3> QED BY <1>2, <3>1, <3>2, <3>3
  <2>6. UNCHANGED <<confirmed, discarded>>
    BY <2>1 DEF userVars
  <2> HIDE DEF m
  <2>7. ReaderTurn(<<>>)
    BY <1>0, <2>2, <2>3, <2>4, <2>5, <2>6 DEF ReaderTurn, IsStatus, m
  <2> QED BY <2>7
<1>3. CASE ReadReconcile
  <2>1. /\ m.type = "Reconcile" /\ UNCHANGED <<dialog, confirmed, discarded>>
        /\ window' = window \/ window' = [text |-> m.text, corrected |-> FALSE]
    BY <1>3 DEF ReadReconcile, Read
  <2>2. PICK ms : (ms = Correction \/ ms = <<>>) /\ Send(ms)
    BY <1>3 DEF ReadReconcile
  <2>3. ReaderSends(ms)
    BY <2>2, ReaderSendings
  <2>4. window' = window \/ window' = None \/ (window' # None /\ window'.text = m.text)
    BY <2>1
  <2> HIDE DEF m
  <2>5. ReaderTurn(ms)
    BY <1>0, <2>1, <2>3, <2>4 DEF ReaderTurn, IsStatus, m
  <2> QED BY <2>5
<1>4. CASE ReadReconcileWithoutTarget
  <2>1. /\ m.type = "Reconcile" /\ UNCHANGED <<dialog, confirmed>>
        /\ window' = window \/ window' = None
    BY <1>4 DEF ReadReconcileWithoutTarget, Read
  <2>2. PICK ms : (ms = cancel \/ ms = <<>>) /\ Send(ms)
    BY <1>4 DEF ReadReconcileWithoutTarget
  <2>3. ReaderSends(ms)
    BY <2>2, ReaderSendings
  <2> HIDE DEF m
  <2>4. ReaderTurn(ms)
    BY <1>0, <2>1, <2>3 DEF ReaderTurn, IsStatus, m
  <2> QED BY <2>4
<1> QED BY <1>1, <1>2, <1>3, <1>4 DEF EngineReads

-----------------------------------------------------------------------------
(* The user acts on the engine when nothing is under way, or in a dialog.    *)

LEMMA KeysFindCalm ==
    ASSUME DecisionInv, ~Early, ~Hasty, UserKey
    PROVE  /\ link = "up" /\ toDaemon = <<>> /\ toEngine = <<>> /\ Serving
           /\ ~Reviewing
<1>1. link = "up" /\ toDaemon = <<>> /\ toEngine = <<>>
  BY DEF UserKey, Calm
<1> QED BY <1>1 DEF DecisionInv, DialogInv, Serving

LEMMA KeysDecide ==
    ASSUME TypeOK, DecisionInv, ~Early, ~Hasty,
           KeyTrigger \/ KeyEscape \/ KeyEdits \/ CloseWindow
    PROVE  DecisionInv'
<1>0. /\ link = "up" /\ toDaemon = <<>> /\ toEngine = <<>> /\ Serving /\ ~Reviewing
      /\ UNCHANGED <<link, toEngine, mic, active, review, ledger, learned>>
      /\ UNCHANGED <<dialog, confirmed, discarded>>
  BY KeysFindCalm
  DEF KeyTrigger, KeyEscape, KeyEdits, CloseWindow, Send, linkVars, daemonVars, micVars,
      storeVars, userVars
<1> DEFINE t == [type |-> "ToggleRecording"]
           c == [type |-> "CancelPreedit"]
<1>1. /\ Correction \in Seq(ClientMessage)
      /\ \A m \in Sent(Correction) :
            m.type = "ReportCorrection" /\ ~review /\ OfActive(m.text.take)
  BY CorrectionFits
<1>2. /\ t \in ClientMessage /\ t.type = "ToggleRecording" /\ c.type = "CancelPreedit"
  BY DEF ClientMessage
<1>3. Sent(<<>>) = {}
  BY SentFew
<1>4. \E before \in Seq(ClientMessage), after \in Seq(ClientMessage) :
         /\ toDaemon' = before \o after
         /\ before = Correction \/ before = <<>>
         /\ after = <<>> \/ after = <<c>> \/ (after = <<t>> /\ window' = None)
  <2>1. /\ <<>> \in Seq(ClientMessage) /\ <<c>> \in Seq(ClientMessage)
        /\ <<t>> \in Seq(ClientMessage)
    BY ClientSends
  <2>2. \A q \in Seq(ClientMessage) : <<>> \o q = q /\ q \o <<>> = q
    BY ConcatEmptySeq
  <2>3. CASE KeyTrigger
    <3>1. window' = None
      BY <2>3 DEF KeyTrigger, TypeOK, EngineTypeOK
    <3> DEFINE before == IF estate = "reviewing" THEN Correction ELSE <<>>
    <3>2. before \in Seq(ClientMessage) /\ (before = Correction \/ before = <<>>)
      BY <1>1, <2>1
    <3>3. toDaemon' = <<>> \o (before \o <<t>>)
      BY <1>0, <2>3 DEF KeyTrigger, Send
    <3> HIDE DEF before, t
    <3>4. before \o <<t>> \in Seq(ClientMessage)
      BY <2>1, <3>2, ConcatProperties
    <3>5. toDaemon' = before \o <<t>>
      BY <2>2, <3>3, <3>4
    <3> QED BY <2>1, <3>1, <3>2, <3>5
  <2>4. CASE KeyEscape
    <3>1. toDaemon' = <<>> \o <<c>>
      BY <1>0, <2>4 DEF KeyEscape, Send
    <3> HIDE DEF c, t
    <3> QED BY <2>1, <3>1
  <2>5. CASE KeyEdits
    <3>1. toDaemon' = <<>>
      BY <1>0, <2>5 DEF KeyEdits, linkVars
    <3> HIDE DEF c, t
    <3>2. toDaemon' = <<>> \o <<>>
      BY <2>1, <2>2, <3>1
    <3> QED BY <2>1, <3>2
  <2>6. CASE CloseWindow
    <3>1. toDaemon' = <<>> \o Correction
      BY <1>0, <2>6 DEF CloseWindow, Send
    <3> HIDE DEF c, t
    <3>2. toDaemon' = Correction \o <<>>
      BY <1>1, <2>2, <3>1
    <3> QED BY <1>1, <2>1, <3>2
  <2> HIDE DEF c, t
  <2> QED BY <2>3, <2>4, <2>5, <2>6
<1> HIDE DEF c, t
<1>5. PICK before \in Seq(ClientMessage), after \in Seq(ClientMessage) :
         /\ toDaemon' = before \o after
         /\ before = Correction \/ before = <<>>
         /\ after = <<>> \/ after = <<c>> \/ (after = <<t>> /\ window' = None)
  BY <1>4
<1>6. /\ Sent(toDaemon') = Sent(before) \cup Sent(after)
      /\ \A i \in DOMAIN toDaemon' :
            \/ toDaemon'[i] \in Sent(before)
            \/ i \in Nat /\ i > Len(before) /\ toDaemon'[i] \in Sent(after)
      /\ DOMAIN toDaemon' = 1..(Len(before) + Len(after))
      /\ Len(before) \in Nat /\ Len(after) \in Nat
  <2>1. DOMAIN toDaemon' = 1..(Len(before) + Len(after))
    BY <1>5, ClientJoined
  <2>2. /\ Sent(before \o after) = Sent(before) \cup Sent(after)
        /\ \A i \in DOMAIN (before \o after) :
              \/ i \in DOMAIN before /\ (before \o after)[i] = before[i]
              \/ i \in Nat /\ i > Len(before) /\ (before \o after)[i] \in Sent(after)
        /\ Len(before) \in Nat /\ Len(after) \in Nat
    BY SentJoined
  <2>3. \A i \in DOMAIN before : before[i] \in Sent(before)
    BY DEF Sent
  <2> QED BY <1>5, <2>1, <2>2, <2>3
<1>7. /\ \A m \in Sent(before) :
            m.type = "ReportCorrection" /\ ~review /\ OfActive(m.text.take)
      /\ \A m \in Sent(after) : m = c \/ (m = t /\ window' = None /\ after = <<t>>)
  <2>1. Sent(<<c>>) = {c} /\ Sent(<<t>>) = {t}
    BY SentFew
  <2> QED BY <1>1, <1>3, <1>5, <2>1
<1>9. MailInv'
  <2>1. \A m \in Sent(before) : ToDaemonRight(m)'
    BY <1>0, <1>7 DEF ToDaemonRight, OfActive
  <2>2. \A m \in Sent(after) : ToDaemonRight(m)'
    BY <1>2, <1>7 DEF ToDaemonRight
  <2>3. Sent(toEngine') = {}
    BY <1>0, <1>3
  <2> QED BY <1>6, <2>1, <2>2, <2>3 DEF MailInv
<1>10. WindowInv'
  <2>1. window' = window \/ window' = None
        \/ (window # None /\ window' # None /\ window'.text = window.text)
    <3>1. CASE KeyEdits
      <4>1. window \in Review /\ window' = [window EXCEPT !.corrected = TRUE]
        BY <3>1 DEF KeyEdits, TypeOK, EngineTypeOK
      <4>2. window' \in Review /\ window'.text = window.text
        BY <4>1 DEF Review
      <4>3. window # None /\ window' # None
        BY <4>1, <4>2, NoneAssumption
      <4> QED BY <4>2, <4>3
    <3>2. CASE KeyTrigger \/ KeyEscape \/ CloseWindow
      BY <3>2 DEF KeyTrigger, KeyEscape, CloseWindow
    <3> QED BY <3>1, <3>2
  <2> QED BY <1>0, <2>1 DEF DecisionInv, WindowInv, OfActive, Starts
<1>11. DialogInv' /\ ~Reviewing'
  BY <1>0 DEF DecisionInv, DialogInv, Reviewing
<1>12. TurnInv'
  <2>1. DOMAIN <<>> = {}
    OBVIOUS
  <2> QED BY <1>0, <2>1 DEF DecisionInv, TurnInv
<1>13. ToggleInv'
  <2> SUFFICES ASSUME NEW i \in DOMAIN toDaemon', toDaemon'[i].type = "ToggleRecording"
               PROVE  PressedAlone(i)'
    BY DEF ToggleInv
  <2>1. i > Len(before) /\ i \in Nat /\ toDaemon'[i] \in Sent(after)
    BY <1>6, <1>7
  <2>2. after = <<t>> /\ window' = None
    BY <1>2, <1>7, <2>1
  <2>3. Len(after) = 1 /\ Sent(after) = {t}
    BY <2>2, SentFew
  <2>4. \A m \in Sent(toDaemon') : m.type \in {"ReportCorrection", "ToggleRecording"}
    BY <1>2, <1>6, <1>7, <2>3
  <2>5. \A j \in DOMAIN toDaemon' : ~(j > i)
    BY <1>6, <2>1, <2>3
  <2>6. Sent(toEngine') = {}
    BY <1>0, <1>3
  <2> QED BY <1>11, <2>2, <2>4, <2>5, <2>6 DEF PressedAlone
<1>14. RecordInv'
  BY <1>0 DEF DecisionInv, RecordInv, OwnWords, Uncommitted
<1> QED BY <1>9, <1>10, <1>11, <1>12, <1>13, <1>14 DEF DecisionInv

(* The user answers a dialog with one message, which may find nobody.        *)
LEMMA AnswersDecide ==
    ASSUME TypeOK, HelloInv, DecisionInv,
           ConfirmReview \/ CancelReview \/ ConfirmHistoryEdit \/ CancelHistoryEdit
    PROVE  DecisionInv'
<1>0. /\ dialog # None /\ dialog' = None /\ dialog \in Dialog
      /\ link \notin {"swapped", "greeting"} /\ dialog.text.take = dialog.id
      /\ UNCHANGED <<link, toEngine, mic, active, review, ledger, learned>>
      /\ toDaemon \in Seq(ClientMessage)
  BY DEF ConfirmReview, CancelReview, ConfirmHistoryEdit, CancelHistoryEdit, Answer, Send,
         daemonVars, micVars, storeVars, DecisionInv, DialogInv, TurnInv, TypeOK,
         EngineTypeOK, LinkTypeOK
<1>1. dialog.id \in Take /\ dialog.text \in Text /\ Edited(dialog.text) \in Text
      /\ Edited(dialog.text).take = dialog.id
  <2>1. dialog.id \in Take /\ dialog.text \in Text
    BY <1>0 DEF Dialog
  <2>2. Edited(dialog.text).take = dialog.text.take
    BY <2>1 DEF Edited, Text
  <2> QED BY <1>0, <2>1, <2>2, Texts
<1>2. Sent(<<>>) = {}
  BY SentFew
<1>3. window' = window \/ window' = None
  BY DEF ConfirmReview, CancelReview, ConfirmHistoryEdit, CancelHistoryEdit, sessionVars
<1>4. ~Reviewing' /\ DialogInv'
  BY <1>0 DEF Reviewing, DialogInv
<1>5. WindowInv'
  BY <1>0, <1>3 DEF DecisionInv, WindowInv, OfActive
<1>6. ASSUME NEW q \in Seq(ClientMessage),
             toDaemon' = toDaemon \o q \/ toDaemon' = toDaemon,
             \A m \in Sent(q) :
                /\ ToDaemonRight(m)'
                /\ m.type = "HistoryEdited" \/ Reviewing
                /\ m.type \notin {"ToggleRecording", "ClientHello"}
                /\ m.type = "CommitPreedit" => Reviewing,
             confirmed \subseteq confirmed',
             \/ discarded' = discarded
             \/ Reviewing /\ discarded' = discarded \cup {dialog.id}
      PROVE  DecisionInv'
  <2>1. Sent(toDaemon') \subseteq Sent(toDaemon) \cup Sent(q)
    <3>1. CASE toDaemon' = toDaemon
      BY <3>1
    <3>2. CASE toDaemon' = toDaemon \o q
      <4>1. toDaemon \in Seq(ClientMessage)
        BY DEF TypeOK, LinkTypeOK
      <4>2. Sent(toDaemon \o q) = Sent(toDaemon) \cup Sent(q)
        BY <4>1, SentJoined
      <4> QED BY <3>2, <4>2
    <3> QED BY <1>6, <3>1, <3>2
  <2>2. Reviewing => /\ review /\ Undecided(dialog.id)
                     /\ \A m \in Sent(toEngine) : m.type # "Review"
                     /\ \A m \in Sent(toDaemon) : m.type # "CommitPreedit"
    BY DEF DecisionInv, DialogInv
  <2>3. MailInv'
    <3>1. ASSUME NEW m \in Sent(toEngine) PROVE ToEngineRight(m)'
      <4>1. ToEngineRight(m)
        BY <3>1 DEF DecisionInv, MailInv
      <4>2. m.type = "Review" => discarded' = discarded
        BY <1>6, <2>2, <3>1
      <4> QED BY <1>0, <4>1, <4>2 DEF ToEngineRight, OfActive, Undecided
    <3>2. ASSUME NEW m \in Sent(toDaemon) PROVE ToDaemonRight(m)'
      <4>1. ToDaemonRight(m)
        BY <3>2 DEF DecisionInv, MailInv
      <4>2. m.type = "CommitPreedit" => discarded' = discarded
        BY <1>6, <2>2, <3>2
      <4> QED BY <1>0, <1>6, <4>1, <4>2 DEF ToDaemonRight, OfActive
    <3> QED BY <1>0, <1>6, <2>1, <3>1, <3>2 DEF MailInv
  <2>4. TurnInv'
    <3>1. ASSUME NEW i \in DOMAIN toEngine, toEngine[i].type = "Review"
          PROVE  \A m \in Sent(toDaemon') : m.type # "CommitPreedit"
      <4>1. toEngine[i] \in Sent(toEngine)
        BY DEF Sent
      <4>2. ~Reviewing
        BY <2>2, <3>1, <4>1
      <4>3. \A m \in Sent(toDaemon) : m.type # "CommitPreedit"
        BY <3>1 DEF DecisionInv, TurnInv
      <4> QED BY <1>6, <2>1, <4>2, <4>3
    <3> QED BY <1>0, <3>1 DEF DecisionInv, TurnInv
  <2>5. ToggleInv'
    <3> SUFFICES ASSUME NEW i \in DOMAIN toDaemon', toDaemon'[i].type = "ToggleRecording"
                 PROVE  PressedAlone(i)'
      BY DEF ToggleInv
    <3>1. \A j \in DOMAIN toDaemon' :
             \/ j \in DOMAIN toDaemon /\ toDaemon'[j] = toDaemon[j]
             \/ toDaemon'[j] \in Sent(q)
      BY <1>0, <1>6, SentJoined
    <3>2. i \in DOMAIN toDaemon /\ toDaemon[i].type = "ToggleRecording"
      BY <1>6, <3>1
    <3>3. PressedAlone(i)
      BY <3>2 DEF DecisionInv, ToggleInv
    <3>4. \A m \in Sent(q) : m.type = "HistoryEdited"
      BY <1>6, <3>3 DEF PressedAlone
    <3>5. \A j \in DOMAIN toDaemon' : j > i => toDaemon'[j].type = "HistoryEdited"
      BY <3>1, <3>3, <3>4 DEF PressedAlone
    <3> QED BY <1>0, <1>3, <1>4, <2>1, <3>3, <3>4, <3>5 DEF PressedAlone
  <2>6. RecordInv'
    <3>1. review => \A k \in Take : ledger[k] = "committed" => k \in confirmed' \ discarded'
      BY <1>6, <2>2 DEF DecisionInv, RecordInv, Undecided
    <3>2. review => \A k \in discarded' : ledger[k] # "absent"
      BY <1>6, <2>2 DEF DecisionInv, RecordInv, Undecided
    <3> QED BY <1>0, <3>1, <3>2 DEF DecisionInv, RecordInv, OwnWords, Uncommitted
  <2> QED BY <1>4, <1>5, <2>3, <2>4, <2>5, <2>6 DEF DecisionInv
<1>7. CASE ConfirmReview
  <2>1. PICK t \in Text :
           /\ Send(<<[type |-> "CommitPreedit", text |-> t]>>)
           /\ t.take = dialog.id
    BY <1>0, <1>1, <1>7 DEF ConfirmReview
  <2>2. PICK m : m = [type |-> "CommitPreedit", text |-> t]
    OBVIOUS
  <2>3. /\ <<m>> \in Seq(ClientMessage)
        /\ m.type = "CommitPreedit" /\ m.text.take = dialog.id
        /\ toDaemon' = toDaemon \o <<m>> \/ toDaemon' = toDaemon
    BY <2>1, <2>2, ClientTextSends DEF Send
  <2>4. Sent(<<m>>) = {m}
    BY SentFew
  <2>5. Reviewing /\ confirmed' = confirmed \cup {dialog.id} /\ discarded' = discarded
    BY <1>7 DEF ConfirmReview, Answer, Reviewing
  <2>6. review /\ mic = 0 /\ OfActive(dialog.id) /\ Undecided(dialog.id)
    BY <2>5 DEF DecisionInv, DialogInv
  <2>7. ToDaemonRight(m)'
    BY <1>0, <2>3, <2>5, <2>6 DEF ToDaemonRight, OfActive, Undecided
  <2> QED BY <1>6, <2>3, <2>4, <2>5, <2>7
<1>8. CASE CancelReview
  <2>1. PICK m : m = [type |-> "CancelPreedit"]
    OBVIOUS
  <2>2. /\ <<m>> \in Seq(ClientMessage) /\ m.type = "CancelPreedit"
        /\ toDaemon' = toDaemon \o <<m>> \/ toDaemon' = toDaemon
    BY <1>8, <2>1, ClientSends DEF CancelReview, Send
  <2>3. Sent(<<m>>) = {m}
    BY SentFew
  <2>4. Reviewing /\ confirmed' = confirmed /\ discarded' = discarded \cup {dialog.id}
    BY <1>8 DEF CancelReview, Answer, Reviewing
  <2>5. ToDaemonRight(m)'
    BY <2>2 DEF ToDaemonRight
  <2> QED BY <1>6, <2>2, <2>3, <2>4, <2>5
<1>9. CASE ConfirmHistoryEdit
  <2>1. PICK m : m = [type |-> "HistoryEdited", id |-> dialog.id,
                      text |-> Edited(dialog.text)]
    OBVIOUS
  <2>2. /\ <<m>> \in Seq(ClientMessage) /\ m.type = "HistoryEdited" /\ m.text.take = m.id
        /\ toDaemon' = toDaemon \o <<m>> \/ toDaemon' = toDaemon
    BY <1>1, <1>9, <2>1, HistoryEditedSend DEF ConfirmHistoryEdit, Send
  <2>3. Sent(<<m>>) = {m}
    BY SentFew
  <2>4. confirmed' = confirmed /\ discarded' = discarded
    BY <1>9 DEF ConfirmHistoryEdit
  <2>5. ToDaemonRight(m)'
    BY <2>2 DEF ToDaemonRight
  <2> QED BY <1>6, <2>2, <2>3, <2>4, <2>5
<1>10. CASE CancelHistoryEdit
  <2>1. /\ confirmed' = confirmed /\ discarded' = discarded
        /\ toDaemon' = toDaemon \o <<>> \/ toDaemon' = toDaemon
    BY <1>10 DEF CancelHistoryEdit, Send
  <2>2. PICK q : q = <<>>
    OBVIOUS
  <2>3. q \in Seq(ClientMessage) /\ Sent(q) = {}
    BY <1>2, <2>2
  <2>4. /\ confirmed \subseteq confirmed'
        /\ toDaemon' = toDaemon \o q \/ toDaemon' = toDaemon
    BY <2>1, <2>2
  <2>5. discarded' = discarded
    BY <2>1
  <2> QED BY <1>6, <2>3, <2>4, <2>5
<1> QED BY <1>7, <1>8, <1>9, <1>10

-----------------------------------------------------------------------------

LEMMA DecisionStep ==
    ASSUME TypeOK, StoreInv, HelloInv, PreviewInv, DecisionInv,
           ~Early, ~Hasty, ~ModeSwitch, [Next]_vars
    PROVE  DecisionInv'
<1>1. CASE UNCHANGED vars
  <2>1. /\ UNCHANGED <<toEngine, toDaemon, link, window, dialog, mic, active, review>>
        /\ UNCHANGED <<ledger, learned, confirmed, discarded>>
    BY <1>1 DEF vars, linkVars, daemonVars, micVars, storeVars, engineVars, sessionVars,
                userVars
  <2>2. MailInv' /\ WindowInv' /\ DialogInv'
    BY <2>1
    DEF DecisionInv, MailInv, ToEngineRight, ToDaemonRight, OfActive, Undecided,
        WindowInv, DialogInv, Reviewing
  <2>3. TurnInv' /\ ToggleInv' /\ RecordInv'
    BY <2>1
    DEF DecisionInv, TurnInv, ToggleInv, PressedAlone, RecordInv, OwnWords, Uncommitted,
        Reviewing
  <2> QED BY <2>2, <2>3 DEF DecisionInv
<1>2. CASE DaemonReads \/ DaemonActs
  BY <1>2, DaemonDecides
<1>3. CASE EngineReads
  BY <1>3, ReaderTurns, ReaderTurnKeeps
<1>4. CASE EngineConnects
  BY <1>4, MeetingDecides
<1>5. CASE UserActs
  BY <1>5, KeysDecide, AnswersDecide DEF UserActs
<1>6. CASE ProcessDies
  BY <1>6, ProcessDecides
<1> QED BY <1>1, <1>2, <1>3, <1>4, <1>5, <1>6 DEF Next

DecidedInv == HelloInv /\ PreviewInv /\ DecisionInv

LEMMA DecisionCorrect ==
    ASSUME ~Early, ~Hasty, ~ModeSwitch
    PROVE  Spec => []DecidedInv
<1>1. Init => DecidedInv
  <2> SUFFICES ASSUME Init PROVE DecidedInv
    OBVIOUS
  <2>1. /\ link = "down" /\ ~hello /\ mic = 0 /\ last = FALSE /\ icon = FALSE
        /\ toEngine = <<>> /\ toDaemon = <<>> /\ preview = {} /\ dialog = None
        /\ window = None /\ active = None /\ discarded = {}
        /\ \A k \in Take : ledger[k] = "absent" /\ learned[k] = None
    BY DEF Init
  <2>2. HelloInv
    BY <2>1 DEF HelloInv, Serving
  <2>3. DOMAIN <<>> = {}
    OBVIOUS
  <2>4. PreviewInv
    BY <2>1, <2>3 DEF PreviewInv, Reviewing
  <2>5. Sent(toEngine) = {} /\ Sent(toDaemon) = {}
    BY <2>1, SentFew
  <2>6. MailInv /\ ToggleInv /\ TurnInv
    BY <2>1, <2>3, <2>5 DEF MailInv, ToggleInv, TurnInv
  <2>7. WindowInv /\ DialogInv /\ RecordInv
    BY <2>1 DEF WindowInv, DialogInv, RecordInv, Reviewing, OwnWords, Uncommitted
  <2> QED BY <2>2, <2>4, <2>6, <2>7 DEF DecidedInv, DecisionInv
<1>2. TypeOK /\ StoreInv /\ MirrorInv /\ DecidedInv /\ [Next]_vars => DecidedInv'
  BY HelloStep, PreviewStep, DecisionStep DEF DecidedInv
<1>3. Init => MirrorInv
  BY DEF Init, MirrorInv, Serving
<1>4. TypeOK /\ MirrorInv /\ [Next]_vars => MirrorInv'
  BY MirrorStep
<1> QED BY <1>1, <1>2, <1>3, <1>4, TypeCorrect, StoreCorrect, PTL DEF Spec

(* With "Review before insert" on, the dialog decides: no session is committed *)
(* that the user did not confirm there, and none the user threw away, if the   *)
(* user waits for each act to settle and leaves the setting alone.             *)
THEOREM ReviewIsObeyed ==
    ASSUME ~Early, ~Hasty, ~ModeSwitch
    PROVE  Spec => []ReviewDecides
<1>1. DecidedInv => ReviewDecides
  BY DEF DecidedInv, DecisionInv, RecordInv, ReviewDecides
<1> QED BY <1>1, DecisionCorrect, PTL

(* Under the same user a training pair holds the words of its own take: no     *)
(* correction, confirmation or edit of the history reaches another session.    *)
THEOREM PairsHoldOwnWords ==
    ASSUME ~Early, ~Hasty, ~ModeSwitch
    PROVE  Spec => []OwnWords
<1>1. DecidedInv => OwnWords
  BY DEF DecidedInv, DecisionInv, RecordInv
<1> QED BY <1>1, DecisionCorrect, PTL

=============================================================================
