--------------------------- MODULE DictationProof ---------------------------
(***************************************************************************)
(* Types of Dictation, for every number of takes, every bound and every    *)
(* user.  One lemma per handler; what the handlers have in common (a push, *)
(* a send, a lost client, the start and the end of a take) comes first.    *)
(***************************************************************************)
EXTENDS Dictation, SequenceTheorems, TLAPS

-----------------------------------------------------------------------------
(* Messages. *)

LEMMA TextPush ==
    ASSUME NEW t \in Text
    PROVE  /\ <<[type |-> "Reconcile", text |-> t]>> \in Seq(ServerMessage)
           /\ <<[type |-> "Review", text |-> t]>> \in Seq(ServerMessage)
<1>1. [type |-> "Reconcile", text |-> t] \in ServerMessage
  BY DEF ServerMessage
<1>2. [type |-> "Review", text |-> t] \in ServerMessage
  BY DEF ServerMessage
<1> QED BY <1>1, <1>2

LEMMA EditHistoryPush ==
    ASSUME NEW t \in Text, NEW k \in Take
    PROVE  <<[type |-> "EditHistory", id |-> k, text |-> t]>> \in Seq(ServerMessage)
<1>1. [type |-> "EditHistory", id |-> k, text |-> t] \in ServerMessage
  BY DEF ServerMessage
<1> QED BY <1>1

LEMMA PartialPush ==
    ASSUME NEW k \in Take
    PROVE  <<[type |-> "Partial", take |-> k]>> \in Seq(ServerMessage)
<1>1. [type |-> "Partial", take |-> k] \in ServerMessage
  BY DEF ServerMessage
<1> QED BY <1>1

LEMMA ErrorPush == <<ErrorMessage>> \in Seq(ServerMessage)
<1>1. ErrorMessage \in ServerMessage
  BY DEF ErrorMessage, ServerMessage
<1> QED BY <1>1

LEMMA HelloPush ==
    <<[type |-> "ServerHello"], [type |-> "RecordingStatus", recording |-> FALSE]>>
        \in Seq(ServerMessage)
<1>1. [type |-> "ServerHello"] \in ServerMessage
  BY DEF ServerMessage
<1>2. [type |-> "RecordingStatus", recording |-> FALSE] \in ServerMessage
  BY DEF ServerMessage
<1> QED BY <1>1, <1>2

LEMMA ClientSends ==
    /\ <<[type |-> "ClientHello"]>> \in Seq(ClientMessage)
    /\ <<[type |-> "ToggleRecording"]>> \in Seq(ClientMessage)
    /\ <<[type |-> "CancelPreedit"]>> \in Seq(ClientMessage)
<1>1. /\ [type |-> "ClientHello"] \in ClientMessage
      /\ [type |-> "ToggleRecording"] \in ClientMessage
      /\ [type |-> "CancelPreedit"] \in ClientMessage
  BY DEF ClientMessage
<1> QED BY <1>1

LEMMA ClientTextSends ==
    ASSUME NEW t \in Text
    PROVE  /\ <<[type |-> "CommitPreedit", text |-> t]>> \in Seq(ClientMessage)
           /\ <<[type |-> "ReportCorrection", text |-> t]>> \in Seq(ClientMessage)
<1>1. /\ [type |-> "CommitPreedit", text |-> t] \in ClientMessage
      /\ [type |-> "ReportCorrection", text |-> t] \in ClientMessage
  BY DEF ClientMessage
<1> QED BY <1>1

LEMMA HistoryEditedSend ==
    ASSUME NEW t \in Text, NEW k \in Take
    PROVE  <<[type |-> "HistoryEdited", id |-> k, text |-> t]>> \in Seq(ClientMessage)
<1>1. [type |-> "HistoryEdited", id |-> k, text |-> t] \in ClientMessage
  BY DEF ClientMessage
<1> QED BY <1>1

LEMMA PushType ==
    ASSUME LinkTypeOK, NEW messages \in Seq(ServerMessage), Push(messages)
    PROVE  toEngine' \in Seq(ServerMessage)
BY ConcatProperties DEF LinkTypeOK, Push

LEMMA ClientMessageFields ==
    ASSUME NEW m \in ClientMessage
    PROVE  /\ m.type \in {"CommitPreedit", "ReportCorrection", "HistoryEdited"}
                => m.text \in Text
           /\ m.type = "HistoryEdited" => m.id \in Take
BY DEF ClientMessage

LEMMA ServerMessageFields ==
    ASSUME NEW m \in ServerMessage
    PROVE  /\ m.type \in {"Reconcile", "Review", "EditHistory"} => m.text \in Text
           /\ m.type = "EditHistory" => m.id \in Take
           /\ m.type = "Partial" => m.take \in Take
           /\ m.type = "RecordingStatus" => m.recording \in BOOLEAN
BY DEF ServerMessage

LEMMA StatusPushType ==
    ASSUME NEW b \in BOOLEAN
    PROVE  StatusPush(b) \in Seq(ServerMessage)
<1>1. <<[type |-> "RecordingStatus", recording |-> b]>> \in Seq(ServerMessage)
  <2>1. [type |-> "RecordingStatus", recording |-> b] \in ServerMessage
    BY DEF ServerMessage
  <2> QED BY <2>1
<1> QED BY <1>1 DEF StatusPush

(* What a stop sends: the news, the messages of the take, the end.         *)
Ended == IF hello THEN <<[type |-> "RecordingStatus", recording |-> FALSE]>>
         ELSE <<>>

LEMMA EndedType == Ended \in Seq(ServerMessage)
<1>1. [type |-> "RecordingStatus", recording |-> FALSE] \in ServerMessage
  BY DEF ServerMessage
<1> QED BY <1>1 DEF Ended

LEMMA DecodingType ==
    ASSUME NEW messages \in Seq(ServerMessage)
    PROVE  Decoding(messages) \in Seq(ServerMessage)
<1>1. StatusPush(TRUE) \o messages \in Seq(ServerMessage)
  BY StatusPushType, ConcatProperties
<1>2. (StatusPush(TRUE) \o messages) \o Ended \in Seq(ServerMessage)
  BY <1>1, EndedType, ConcatProperties
<1> QED BY <1>2 DEF Decoding, Ended

LEMMA Texts ==
    /\ \A k \in Take : Raw(k) \in Text
    /\ \A t \in Text : Edited(t) \in Text
    /\ \A t \in Text : t.take \in Take
BY DEF Raw, Edited, Text

-----------------------------------------------------------------------------
(* The daemon's bookkeeping keeps the types. *)

LEMMA LedgerCancelledType ==
    ASSUME DaemonTypeOK
    PROVE  /\ LedgerCancelled \in
                [Take -> {"absent", "created", "committed", "cancelled"}]
           /\ ActiveCancelled \in ActiveSession \cup {None}
BY NoneAssumption
DEF DaemonTypeOK, LedgerCancelled, ActiveCancelled, ActiveSession, Uncommitted

LEMMA StartType ==
    ASSUME TypeOK, StartLiveCapture
    PROVE  DaemonTypeOK' /\ toEngine' \in Seq(ServerMessage)
<1> USE BoundsAssumption
<1>1. ledger' \in [Take -> {"absent", "created", "committed", "cancelled"}]
      /\ active' \in ActiveSession \cup {None}
  BY LedgerCancelledType DEF TypeOK, StartLiveCapture
<1>2. CASE takes < MaxTakes /\ takes' = takes + 1 /\ mic' = takes + 1
           /\ Publish(TRUE) /\ Push(StatusPush(TRUE))
  <2>1. mic' \in Take \cup {0} /\ takes' \in Take \cup {0}
    BY <1>2 DEF TypeOK, DaemonTypeOK, Take
  <2>2. toEngine' \in Seq(ServerMessage)
    BY <1>2, StatusPushType, PushType DEF TypeOK
  <2> QED
    BY <1>1, <1>2, <2>1, <2>2
    DEF TypeOK, DaemonTypeOK, StartLiveCapture, Publish
<1>3. CASE Push(<<ErrorMessage>>)
           /\ UNCHANGED <<micVars, statusVars, trayVars>>
  <2>1. toEngine' \in Seq(ServerMessage)
    BY <1>3, ErrorPush, PushType DEF TypeOK
  <2> QED
    BY <1>1, <1>3, <2>1
    DEF TypeOK, DaemonTypeOK, StartLiveCapture, micVars, statusVars, trayVars
<1> QED BY <1>2, <1>3 DEF StartLiveCapture

LEMMA StopType ==
    ASSUME TypeOK, StopLiveAndTranscribe
    PROVE  DaemonTypeOK' /\ toEngine' \in Seq(ServerMessage)
<1>1. mic \in Take
  BY DEF TypeOK, DaemonTypeOK, StopLiveAndTranscribe
<1>2. Raw(mic) \in Text
  BY <1>1, Texts
<1>3. StatusPush(FALSE) \in Seq(ServerMessage)
  BY StatusPushType
<1>4. LinkTypeOK
  BY DEF TypeOK
<1>5. toEngine' \in Seq(ServerMessage)
  <2>1. CASE StopFails
    <3>1. <<ErrorMessage>> \o StatusPush(FALSE) \in Seq(ServerMessage)
      BY <1>3, ErrorPush, ConcatProperties
    <3> QED BY <1>4, <2>1, <3>1, PushType DEF StopFails
  <2>2. CASE StopSilent
    <3> DEFINE none == <<>>
    <3>1. none \in Seq(ServerMessage)
      OBVIOUS
    <3>2. Push(Decoding(none))
      BY <2>2 DEF StopSilent
    <3> HIDE DEF none
    <3>3. Decoding(none) \in Seq(ServerMessage)
      BY <3>1, DecodingType
    <3> QED BY <1>4, <3>2, <3>3, PushType
  <2>3. CASE StopReview
    <3>1. Decoding(<<[type |-> "Review", text |-> Raw(mic)]>>)
            \in Seq(ServerMessage)
      BY <1>2, TextPush, DecodingType
    <3> QED BY <1>4, <2>3, <3>1, PushType DEF StopReview
  <2>4. CASE StopDirect
    <3> DEFINE final == IF hello THEN <<[type |-> "Reconcile", text |-> Raw(mic)]>>
                        ELSE <<>>
    <3>1. final \in Seq(ServerMessage)
      <4>1. CASE hello
        BY <1>2, <4>1, TextPush
      <4>2. CASE ~hello
        BY <4>2
      <4> QED BY <4>1, <4>2
    <3>2. Push(Decoding(final))
      BY <2>4 DEF StopDirect
    <3> HIDE DEF final
    <3>3. Decoding(final) \in Seq(ServerMessage)
      BY <3>1, DecodingType
    <3> QED BY <1>4, <3>2, <3>3, PushType
  <2> QED BY <2>1, <2>2, <2>3, <2>4 DEF StopLiveAndTranscribe
<1>6. /\ ledger' \in [Take -> {"absent", "created", "committed", "cancelled"}]
      /\ active' \in ActiveSession \cup {None}
      /\ learned' \in [Take -> Text \cup {None}]
  <2>1. CASE StopFails \/ StopSilent
    BY <2>1 DEF StopFails, StopSilent, TypeOK, DaemonTypeOK
  <2>2. CASE StopReview
    <3>1. active' \in ActiveSession
      BY <1>1, <1>2, <2>2 DEF StopReview, ActiveSession
    <3> QED
      BY <1>1, <2>2, <3>1, LedgerCancelledType
      DEF StopReview, TypeOK, DaemonTypeOK
  <2>3. CASE StopDirect
    <3>1. active' \in ActiveSession
      BY <1>1, <1>2, <2>3 DEF StopDirect, ActiveSession
    <3> QED
      BY <1>1, <1>2, <2>3, <3>1, LedgerCancelledType
      DEF StopDirect, TypeOK, DaemonTypeOK
  <2> QED BY <2>1, <2>2, <2>3 DEF StopLiveAndTranscribe
<1> QED
  BY <1>5, <1>6 DEF TypeOK, DaemonTypeOK, StopLiveAndTranscribe, Publish

LEMMA CancelTakeType ==
    ASSUME TypeOK, CancelTake
    PROVE  DaemonTypeOK' /\ toEngine' \in Seq(ServerMessage)
<1>1. toEngine' \in Seq(ServerMessage)
  BY StatusPushType, PushType DEF TypeOK, CancelTake
<1> QED
  BY <1>1, LedgerCancelledType DEF TypeOK, DaemonTypeOK, CancelTake, Publish

-----------------------------------------------------------------------------
(* The frames: what a group of actions leaves alone keeps its type. *)

LEMMA EngineFrame ==
    ASSUME TypeOK, UNCHANGED <<engineVars, userVars, faults>>
    PROVE  EngineTypeOK' /\ UserTypeOK'
<1>1. EngineTypeOK'
  BY DEF TypeOK, EngineTypeOK, engineVars, sessionVars
<1>2. UserTypeOK'
  BY DEF TypeOK, UserTypeOK, userVars
<1> QED BY <1>1, <1>2

LEMMA DaemonFrame ==
    ASSUME TypeOK, UNCHANGED daemonVars
    PROVE  DaemonTypeOK'
BY DEF TypeOK, DaemonTypeOK, daemonVars, micVars, statusVars, trayVars, storeVars

LEMMA ReceiveType ==
    ASSUME TypeOK, NEW type, Receive(type)
    PROVE  /\ Head(toDaemon) \in ClientMessage
           /\ Head(toDaemon).type = type
           /\ toDaemon' \in Seq(ClientMessage)
           /\ EngineTypeOK' /\ UserTypeOK'
<1>1. UNCHANGED <<engineVars, userVars, faults>>
  BY DEF Receive
<1>2. EngineTypeOK' /\ UserTypeOK'
  BY <1>1, EngineFrame
<1> QED
  BY <1>2, HeadTailProperties DEF TypeOK, LinkTypeOK, Receive

LEMMA DropClientType ==
    ASSUME TypeOK, DropClient,
           ledger' \in [Take -> {"absent", "created", "committed", "cancelled"}],
           learned' \in [Take -> Text \cup {None}]
    PROVE  TypeOK'
<1>1. EngineTypeOK' /\ UserTypeOK'
  BY EngineFrame DEF DropClient
<1>2. DaemonTypeOK'
  BY DEF DropClient, TypeOK, DaemonTypeOK
<1>3. LinkTypeOK'
  BY DEF DropClient, LinkTypeOK
<1> QED BY <1>1, <1>2, <1>3 DEF TypeOK

LEMMA SendType ==
    ASSUME TypeOK, NEW messages \in Seq(ClientMessage), Send(messages)
    PROVE  /\ link' \in {"down", "swapped", "greeting", "up", "gone"}
           /\ toDaemon' \in Seq(ClientMessage)
           /\ alive' \in BOOLEAN
           /\ faults' \in Nat
           /\ DaemonTypeOK'
<1>1. UNCHANGED daemonVars
  BY DEF Send
<1>2. DaemonTypeOK'
  BY <1>1, DaemonFrame
<1> QED
  BY <1>2, ConcatProperties
  DEF TypeOK, LinkTypeOK, EngineTypeOK, UserTypeOK, Send

LEMMA ReadType ==
    ASSUME TypeOK, NEW type, Read(type)
    PROVE  /\ Head(toEngine) \in ServerMessage
           /\ Head(toEngine).type = type
           /\ toEngine' \in Seq(ServerMessage)
BY HeadTailProperties DEF TypeOK, LinkTypeOK, Read

LEMMA CorrectionType ==
    ASSUME TypeOK
    PROVE  Correction \in Seq(ClientMessage)
<1>1. CASE window # None /\ window.corrected
  <2>1. window.text \in Text
    BY <1>1 DEF TypeOK, EngineTypeOK, Review
  <2>2. Edited(window.text) \in Text
    BY <2>1, Texts
  <2> QED BY <1>1, <2>2, ClientTextSends DEF Correction
<1>2. CASE ~(window # None /\ window.corrected)
  BY <1>2 DEF Correction
<1> QED BY <1>1, <1>2

-----------------------------------------------------------------------------
(* One lemma per process: its steps keep TypeOK. *)

LEMMA DaemonReadsType ==
    ASSUME TypeOK, DaemonReads
    PROVE  TypeOK'
<1>1. CASE OnClientHello
  <2>1. LinkTypeOK' /\ EngineTypeOK' /\ UserTypeOK'
    <3>1. toEngine' \in Seq(ServerMessage)
      BY <1>1, HelloPush, PushType DEF TypeOK, OnClientHello
    <3> QED BY <1>1, <3>1, ReceiveType DEF OnClientHello, TypeOK, LinkTypeOK
  <2>2. DaemonTypeOK'
    BY <1>1 DEF OnClientHello, TypeOK, DaemonTypeOK, micVars, trayVars, storeVars
  <2> QED BY <2>1, <2>2 DEF TypeOK
<1>2. CASE OnToggleRecording
  <2>1. DaemonTypeOK' /\ toEngine' \in Seq(ServerMessage)
    BY <1>2, StartType, StopType DEF OnToggleRecording
  <2> QED
    BY <1>2, <2>1, ReceiveType DEF OnToggleRecording, TypeOK, LinkTypeOK
<1>3. CASE OnCommitPreedit
  <2> DEFINE text == Head(toDaemon).text
  <2>1. text \in Text
    BY <1>3, ReceiveType, ClientMessageFields DEF OnCommitPreedit
  <2>2. toEngine' \in Seq(ServerMessage)
    BY <1>3, StatusPushType, PushType DEF OnCommitPreedit, TypeOK
  <2>3. /\ ledger' \in [Take -> {"absent", "created", "committed", "cancelled"}]
        /\ active' \in ActiveSession \cup {None}
        /\ learned' \in [Take -> Text \cup {None}]
    <3>1. CASE Uncommitted
      <4>1. active \in ActiveSession
        BY <3>1 DEF Uncommitted, TypeOK, DaemonTypeOK
      <4>2. /\ ledger' = [ledger EXCEPT ![active.id] = "committed"]
            /\ learned' = [learned EXCEPT ![active.id] = text]
            /\ active' = [active EXCEPT !.text = text, !.finalized = TRUE]
        BY <1>3, <3>1 DEF OnCommitPreedit
      <4> QED
        BY <2>1, <4>1, <4>2 DEF TypeOK, DaemonTypeOK, ActiveSession
    <3>2. CASE ~Uncommitted
      BY <1>3, <3>2 DEF OnCommitPreedit, TypeOK, DaemonTypeOK
    <3> QED BY <3>1, <3>2
  <2>4. DaemonTypeOK'
    BY <1>3, <2>3 DEF OnCommitPreedit, Publish, TypeOK, DaemonTypeOK, micVars
  <2> QED
    BY <1>3, <2>2, <2>4, ReceiveType DEF OnCommitPreedit, TypeOK, LinkTypeOK
<1>4. CASE OnReportCorrection
  <2> DEFINE text == Head(toDaemon).text
  <2>1. text \in Text
    BY <1>4, ReceiveType, ClientMessageFields DEF OnReportCorrection
  <2>2. /\ active' \in ActiveSession \cup {None}
        /\ learned' \in [Take -> Text \cup {None}]
        /\ menu' \in BOOLEAN /\ icon' \in BOOLEAN
    <3>1. CASE active # None /\ active.finalized /\ text # active.text
      <4>1. active \in ActiveSession
        BY <3>1 DEF TypeOK, DaemonTypeOK
      <4>2. /\ learned' = Amended(active.id, text)
            /\ active' = [active EXCEPT !.text = text]
            /\ RefreshTray
        BY <1>4, <3>1 DEF OnReportCorrection
      <4> QED
        BY <2>1, <4>1, <4>2
        DEF TypeOK, DaemonTypeOK, ActiveSession, Amended, RefreshTray
    <3>2. CASE ~(active # None /\ active.finalized /\ text # active.text)
      BY <1>4, <3>2 DEF OnReportCorrection, TypeOK, DaemonTypeOK, trayVars
    <3> QED BY <3>1, <3>2
  <2>3. DaemonTypeOK'
    BY <1>4, <2>2
    DEF OnReportCorrection, TypeOK, DaemonTypeOK, micVars, statusVars
  <2> QED
    BY <1>4, <2>3, ReceiveType DEF OnReportCorrection, TypeOK, LinkTypeOK
<1>5. CASE OnCancelPreedit
  <2>1. DaemonTypeOK' /\ toEngine' \in Seq(ServerMessage)
    BY <1>5, CancelTakeType DEF OnCancelPreedit
  <2> QED
    BY <1>5, <2>1, ReceiveType DEF OnCancelPreedit, TypeOK, LinkTypeOK
<1>6. CASE OnHistoryEdited
  <2> DEFINE edited == Head(toDaemon)
  <2>1. edited.text \in Text /\ edited.id \in Take
    BY <1>6, ReceiveType, ClientMessageFields DEF OnHistoryEdited
  <2>2. /\ active' \in ActiveSession \cup {None}
        /\ learned' \in [Take -> Text \cup {None}]
        /\ menu' \in BOOLEAN /\ icon' \in BOOLEAN
    <3>1. CASE ledger[edited.id] = "committed"
      <4>1. /\ learned' = Amended(edited.id, edited.text)
            /\ active' = IF active # None /\ active.id = edited.id
                         THEN [active EXCEPT !.text = edited.text]
                         ELSE active
            /\ RefreshTray
        BY <1>6, <3>1 DEF OnHistoryEdited
      <4> QED
        BY <2>1, <4>1
        DEF TypeOK, DaemonTypeOK, ActiveSession, Amended, RefreshTray
    <3>2. CASE ledger[edited.id] # "committed"
      BY <1>6, <3>2 DEF OnHistoryEdited, TypeOK, DaemonTypeOK, trayVars
    <3> QED BY <3>1, <3>2
  <2>3. DaemonTypeOK'
    BY <1>6, <2>2
    DEF OnHistoryEdited, TypeOK, DaemonTypeOK, micVars, statusVars
  <2> QED
    BY <1>6, <2>3, ReceiveType DEF OnHistoryEdited, TypeOK, LinkTypeOK
<1>7. CASE PeerGone
  <2>1. /\ ledger' \in [Take -> {"absent", "created", "committed", "cancelled"}]
        /\ learned' \in [Take -> Text \cup {None}]
    BY <1>7, LedgerCancelledType DEF PeerGone, TypeOK, DaemonTypeOK
  <2> QED BY <1>7, <2>1, DropClientType DEF PeerGone
<1> QED BY <1>1, <1>2, <1>3, <1>4, <1>5, <1>6, <1>7 DEF DaemonReads

LEMMA DaemonActsType ==
    ASSUME TypeOK, DaemonActs
    PROVE  TypeOK'
<1>1. ASSUME OwnStep, DaemonTypeOK', toEngine' \in Seq(ServerMessage)
      PROVE  TypeOK'
  BY <1>1, EngineFrame DEF OwnStep, TypeOK, LinkTypeOK
<1>2. CASE TrayStart
  BY <1>1, <1>2, StartType DEF TrayStart
<1>3. CASE TrayStop
  BY <1>1, <1>3, StopType DEF TrayStop
<1>4. CASE TrayCancel
  BY <1>1, <1>4, CancelTakeType DEF TrayCancel
<1>5. CASE TraySetting
  <2>1. DaemonTypeOK'
    BY <1>5
    DEF TraySetting, TypeOK, DaemonTypeOK, micVars, statusVars, storeVars
  <2>2. toEngine' \in Seq(ServerMessage)
    BY <1>5 DEF TraySetting, TypeOK, LinkTypeOK
  <2> QED BY <1>1, <1>5, <2>1, <2>2 DEF TraySetting
<1>6. CASE TrayEdit
  <2>1. PICK k \in Take :
          /\ learned[k] # None
          /\ Push(<<[type |-> "EditHistory", id |-> k, text |-> learned[k]]>>)
    BY <1>6 DEF TrayEdit
  <2>2. learned[k] \in Text
    BY <1>6, <2>1 DEF TrayEdit, TypeOK, DaemonTypeOK
  <2>3. toEngine' \in Seq(ServerMessage)
    BY <2>1, <2>2, EditHistoryPush, PushType DEF TypeOK
  <2>4. DaemonTypeOK'
    BY <1>6, DaemonFrame DEF TrayEdit
  <2> QED BY <1>1, <1>6, <2>3, <2>4 DEF TrayEdit
<1>7. CASE PumpPartial
  <2>1. mic \in Take
    BY <1>7 DEF PumpPartial, TypeOK, DaemonTypeOK
  <2>2. toEngine' \in Seq(ServerMessage)
    BY <1>7, <2>1, PartialPush, PushType DEF PumpPartial, TypeOK
  <2>3. DaemonTypeOK'
    BY <1>7, DaemonFrame DEF PumpPartial
  <2> QED BY <1>1, <1>7, <2>2, <2>3 DEF PumpPartial
<1>8. CASE AutoStop
  BY <1>1, <1>8, StopType DEF AutoStop
<1>9. CASE PeerGoneAfterStoring
  <2>1. mic \in Take
    BY <1>9 DEF PeerGoneAfterStoring, TypeOK, DaemonTypeOK
  <2>2. /\ ledger' \in [Take -> {"absent", "created", "committed", "cancelled"}]
        /\ learned' \in [Take -> Text \cup {None}]
    BY <1>9, <2>1, LedgerCancelledType, Texts
    DEF PeerGoneAfterStoring, TypeOK, DaemonTypeOK
  <2> QED BY <1>9, <2>2, DropClientType DEF PeerGoneAfterStoring
<1> QED
  BY <1>2, <1>3, <1>4, <1>5, <1>6, <1>7, <1>8, <1>9 DEF DaemonActs

LEMMA EngineReadsType ==
    ASSUME TypeOK, EngineReads
    PROVE  TypeOK'
<1> DEFINE m == Head(toEngine)
<1>0. <<>> \in Seq(ClientMessage)
  OBVIOUS
<1>1. CASE ReadStatus
  <2>1. m.recording \in BOOLEAN /\ toEngine' \in Seq(ServerMessage)
    BY <1>1, ReadType, ServerMessageFields DEF ReadStatus
  <2>2. PICK s \in Seq(ClientMessage) : Send(s)
    BY <1>0, <1>1, CorrectionType DEF ReadStatus
  <2>3. EngineTypeOK' /\ UserTypeOK'
    BY <1>1, <2>1, <2>2, SendType
    DEF ReadStatus, TypeOK, EngineTypeOK, UserTypeOK, userVars
  <2> QED BY <2>1, <2>2, <2>3, SendType DEF TypeOK, LinkTypeOK
<1>2. CASE ReadPartial
  <2>1. m.take \in Take /\ toEngine' \in Seq(ServerMessage)
    BY <1>2, ReadType, ServerMessageFields DEF ReadPartial
  <2>2. Send(<<>>)
    BY <1>2 DEF ReadPartial
  <2>3. EngineTypeOK' /\ UserTypeOK'
    BY <1>0, <1>2, <2>1, <2>2, SendType
    DEF ReadPartial, TypeOK, EngineTypeOK, UserTypeOK, userVars
  <2> QED BY <1>0, <2>1, <2>2, <2>3, SendType DEF TypeOK, LinkTypeOK
<1>3. CASE ReadReconcile
  <2>1. m.text \in Text /\ toEngine' \in Seq(ServerMessage)
    BY <1>3, ReadType, ServerMessageFields DEF ReadReconcile
  <2>2. PICK s \in Seq(ClientMessage) : Send(s)
    BY <1>0, <1>3, CorrectionType DEF ReadReconcile
  <2>3. CASE LiveTake
    <3>1. [text |-> m.text, corrected |-> FALSE] \in Review
      BY <2>1 DEF Review
    <3>2. m.text.take \in Take
      BY <2>1, Texts
    <3>3. /\ estate' = "reviewing"
          /\ window' = [text |-> m.text, corrected |-> FALSE]
          /\ preview' = {}
          /\ typed' = typed \cup {m.text.take}
          /\ UNCHANGED <<erec, dialog, confirmed, discarded>>
      BY <1>3, <2>3 DEF ReadReconcile
    <3>4. EngineTypeOK'
      BY <2>2, <3>1, <3>3, SendType, NoneAssumption DEF TypeOK, EngineTypeOK
    <3>5. UserTypeOK'
      BY <2>2, <3>2, <3>3, SendType DEF TypeOK, UserTypeOK
    <3> QED BY <2>1, <2>2, <3>4, <3>5, SendType DEF TypeOK, LinkTypeOK
  <2>4. CASE ~LiveTake
    <3>1. EngineTypeOK' /\ UserTypeOK'
      BY <1>3, <2>2, <2>4, SendType
      DEF ReadReconcile, TypeOK, EngineTypeOK, UserTypeOK
    <3> QED BY <2>1, <2>2, <3>1, SendType DEF TypeOK, LinkTypeOK
  <2> QED BY <2>3, <2>4
<1>4. CASE ReadReconcileWithoutTarget
  <2>1. m.text.take \in Take /\ toEngine' \in Seq(ServerMessage)
    BY <1>4, ReadType, ServerMessageFields, Texts DEF ReadReconcileWithoutTarget
  <2>2. PICK s \in Seq(ClientMessage) : Send(s)
    BY <1>0, <1>4, ClientSends DEF ReadReconcileWithoutTarget
  <2>3. EngineTypeOK' /\ UserTypeOK'
    BY <1>4, <2>1, <2>2, SendType
    DEF ReadReconcileWithoutTarget, TypeOK, EngineTypeOK, UserTypeOK
  <2> QED BY <2>1, <2>2, <2>3, SendType DEF TypeOK, LinkTypeOK
<1>5. CASE ReadReview
  <2>1. m.text \in Text /\ toEngine' \in Seq(ServerMessage)
    BY <1>5, ReadType, ServerMessageFields DEF ReadReview
  <2>2. Send(<<>>)
    BY <1>5 DEF ReadReview
  <2>3. [kind |-> "review", id |-> m.text.take, text |-> m.text] \in Dialog
    BY <2>1, Texts DEF Dialog
  <2>4. EngineTypeOK' /\ UserTypeOK'
    BY <1>0, <1>5, <2>2, <2>3, SendType
    DEF ReadReview, TypeOK, EngineTypeOK, UserTypeOK, userVars, sessionVars
  <2> QED BY <1>0, <2>1, <2>2, <2>4, SendType DEF TypeOK, LinkTypeOK
<1>6. CASE ReadEditHistory
  <2>1. m.text \in Text /\ m.id \in Take /\ toEngine' \in Seq(ServerMessage)
    BY <1>6, ReadType, ServerMessageFields DEF ReadEditHistory
  <2>2. Send(<<>>)
    BY <1>6 DEF ReadEditHistory
  <2>3. [kind |-> "history", id |-> m.id, text |-> m.text] \in Dialog
    BY <2>1 DEF Dialog
  <2>4. EngineTypeOK' /\ UserTypeOK'
    BY <1>0, <1>6, <2>2, <2>3, SendType
    DEF ReadEditHistory, TypeOK, EngineTypeOK, UserTypeOK, userVars, sessionVars
  <2> QED BY <1>0, <2>1, <2>2, <2>4, SendType DEF TypeOK, LinkTypeOK
<1>7. CASE ReadError
  <2>1. toEngine' \in Seq(ServerMessage)
    BY <1>7, ReadType DEF ReadError
  <2>2. Send(<<>>)
    BY <1>7 DEF ReadError
  <2>3. EngineTypeOK' /\ UserTypeOK'
    BY <1>0, <1>7, <2>2, SendType
    DEF ReadError, TypeOK, EngineTypeOK, UserTypeOK, userVars
  <2> QED BY <1>0, <2>1, <2>2, <2>3, SendType DEF TypeOK, LinkTypeOK
<1> QED
  BY <1>1, <1>2, <1>3, <1>4, <1>5, <1>6, <1>7 DEF EngineReads

LEMMA EngineConnectsType ==
    ASSUME TypeOK, EngineConnects
    PROVE  TypeOK'
<1>1. CASE Connect
  <2>1. EngineTypeOK' /\ UserTypeOK'
    BY <1>1, EngineFrame DEF Connect
  <2>2. DaemonTypeOK'
    BY <1>1, DaemonFrame DEF Connect
  <2>3. LinkTypeOK'
    BY <1>1, ClientSends DEF Connect, TypeOK, LinkTypeOK
  <2> QED BY <2>1, <2>2, <2>3 DEF TypeOK
<1>2. CASE SendHello
  <2>1. EngineTypeOK' /\ UserTypeOK'
    BY <1>2, EngineFrame DEF SendHello
  <2>2. DaemonTypeOK'
    BY <1>2, DaemonFrame DEF SendHello
  <2>3. LinkTypeOK'
    <3>1. [type |-> "ClientHello"] \in ClientMessage
      BY DEF ClientMessage
    <3> QED
      BY <1>2, <3>1, AppendProperties DEF SendHello, TypeOK, LinkTypeOK
  <2> QED BY <2>1, <2>2, <2>3 DEF TypeOK
<1>3. CASE Greeted
  <2>1. EngineTypeOK'
    BY <1>3 DEF Greeted, EngineIdle, TypeOK, EngineTypeOK
  <2>2. UserTypeOK'
    BY <1>3 DEF Greeted, TypeOK, UserTypeOK, userVars
  <2>3. DaemonTypeOK'
    BY <1>3, DaemonFrame DEF Greeted
  <2>4. LinkTypeOK'
    BY <1>3, HeadTailProperties DEF Greeted, TypeOK, LinkTypeOK
  <2> QED BY <2>1, <2>2, <2>3, <2>4 DEF TypeOK
<1>4. CASE HandshakeFails
  <2>1. EngineTypeOK' /\ UserTypeOK'
    BY <1>4, EngineFrame DEF HandshakeFails
  <2>2. DaemonTypeOK'
    BY <1>4, DaemonFrame DEF HandshakeFails
  <2>3. LinkTypeOK'
    BY <1>4 DEF HandshakeFails, TypeOK, LinkTypeOK
  <2> QED BY <2>1, <2>2, <2>3 DEF TypeOK
<1> QED BY <1>1, <1>2, <1>3, <1>4 DEF EngineConnects

(* A key or a dialog button sends something and moves the session.         *)
LEMMA UserSends ==
    ASSUME TypeOK, NEW s \in Seq(ClientMessage), Send(s),
           UNCHANGED toEngine, EngineTypeOK', UserTypeOK'
    PROVE  TypeOK'
BY SendType DEF TypeOK, LinkTypeOK

LEMMA UserActsType ==
    ASSUME TypeOK, UserActs
    PROVE  TypeOK'
<1>0. <<>> \in Seq(ClientMessage)
  OBVIOUS
<1>1. CASE KeyTrigger
  <2> DEFINE first == IF estate = "reviewing" THEN Correction ELSE <<>>
             s == first \o <<[type |-> "ToggleRecording"]>>
  <2>1. first \in Seq(ClientMessage)
    BY <1>0, CorrectionType
  <2>2. s \in Seq(ClientMessage)
    <3> HIDE DEF first
    <3> QED BY <2>1, ClientSends, ConcatProperties
  <2>3. Send(s)
    BY <1>1 DEF KeyTrigger
  <2> HIDE DEF s
  <2>4. EngineTypeOK' /\ UserTypeOK'
    BY <1>1, <2>2, <2>3, SendType
    DEF KeyTrigger, TypeOK, EngineTypeOK, UserTypeOK, userVars
  <2> QED BY <1>1, <2>2, <2>3, <2>4, UserSends DEF KeyTrigger
<1>2. CASE KeyEscape
  <2>1. PICK s \in Seq(ClientMessage) : Send(s)
    BY <1>2, ClientSends DEF KeyEscape
  <2>2. EngineTypeOK' /\ UserTypeOK'
    BY <1>2, <2>1, SendType
    DEF KeyEscape, TypeOK, EngineTypeOK, UserTypeOK, userVars
  <2> QED BY <1>2, <2>1, <2>2, UserSends DEF KeyEscape
<1>3. CASE KeyEdits
  <2>1. DaemonTypeOK'
    BY <1>3, DaemonFrame DEF KeyEdits
  <2>2. window # None
    BY <1>3 DEF KeyEdits, TypeOK, EngineTypeOK
  <2>3. window' \in Review
    BY <1>3, <2>2 DEF KeyEdits, TypeOK, EngineTypeOK, Review
  <2>4. EngineTypeOK'
    BY <1>3, <2>2, <2>3, NoneAssumption DEF KeyEdits, TypeOK, EngineTypeOK
  <2>5. UserTypeOK' /\ LinkTypeOK'
    BY <1>3 DEF KeyEdits, TypeOK, UserTypeOK, LinkTypeOK, userVars, linkVars
  <2> QED BY <2>1, <2>4, <2>5 DEF TypeOK
<1>4. CASE CloseWindow
  <2>1. PICK s \in Seq(ClientMessage) : Send(s)
    BY <1>4, CorrectionType DEF CloseWindow
  <2>2. EngineTypeOK' /\ UserTypeOK'
    BY <1>4, <2>1, SendType
    DEF CloseWindow, TypeOK, EngineTypeOK, UserTypeOK, userVars
  <2> QED BY <1>4, <2>1, <2>2, UserSends DEF CloseWindow
<1>5. CASE ConfirmReview
  <2>1. dialog \in Dialog
    BY <1>5 DEF ConfirmReview, Answer, TypeOK, EngineTypeOK
  <2>2. dialog.text \in Text /\ dialog.id \in Take
    BY <2>1 DEF Dialog
  <2>3. PICK s \in Seq(ClientMessage) : Send(s)
    <3>1. PICK text \in {dialog.text, Edited(dialog.text)} :
            Send(<<[type |-> "CommitPreedit", text |-> text]>>)
      BY <1>5 DEF ConfirmReview
    <3>2. text \in Text
      BY <2>2, <3>1, Texts
    <3> QED BY <3>1, <3>2, ClientTextSends
  <2>4. EngineTypeOK' /\ UserTypeOK'
    BY <1>5, <2>2, <2>3, SendType
    DEF ConfirmReview, Answer, TypeOK, EngineTypeOK, UserTypeOK
  <2> QED BY <1>5, <2>3, <2>4, UserSends DEF ConfirmReview, Answer
<1>6. CASE CancelReview
  <2>1. dialog \in Dialog
    BY <1>6 DEF CancelReview, Answer, TypeOK, EngineTypeOK
  <2>2. dialog.id \in Take
    BY <2>1 DEF Dialog
  <2>3. PICK s \in Seq(ClientMessage) : Send(s)
    BY <1>6, ClientSends DEF CancelReview
  <2>4. EngineTypeOK' /\ UserTypeOK'
    BY <1>6, <2>2, <2>3, SendType
    DEF CancelReview, Answer, TypeOK, EngineTypeOK, UserTypeOK
  <2> QED BY <1>6, <2>3, <2>4, UserSends DEF CancelReview, Answer
<1>7. CASE ConfirmHistoryEdit
  <2>1. dialog \in Dialog
    BY <1>7 DEF ConfirmHistoryEdit, Answer, TypeOK, EngineTypeOK
  <2>2. dialog.id \in Take /\ Edited(dialog.text) \in Text
    BY <2>1, Texts DEF Dialog
  <2>3. PICK s \in Seq(ClientMessage) : Send(s)
    BY <1>7, <2>2, HistoryEditedSend DEF ConfirmHistoryEdit
  <2>4. EngineTypeOK' /\ UserTypeOK'
    BY <1>7, <2>3, SendType
    DEF ConfirmHistoryEdit, Answer, TypeOK, EngineTypeOK, UserTypeOK, sessionVars
  <2> QED BY <1>7, <2>3, <2>4, UserSends DEF ConfirmHistoryEdit, Answer
<1>8. CASE CancelHistoryEdit
  <2>1. Send(<<>>)
    BY <1>8 DEF CancelHistoryEdit
  <2>2. EngineTypeOK' /\ UserTypeOK'
    BY <1>0, <1>8, <2>1, SendType
    DEF CancelHistoryEdit, Answer, TypeOK, EngineTypeOK, UserTypeOK, sessionVars
  <2> QED BY <1>0, <1>8, <2>1, <2>2, UserSends DEF CancelHistoryEdit, Answer
<1> QED
  BY <1>1, <1>2, <1>3, <1>4, <1>5, <1>6, <1>7, <1>8 DEF UserActs

LEMMA DaemonDiesType ==
    ASSUME TypeOK,
           NEW stored \in [Take -> {"absent", "created", "committed", "cancelled"}],
           NEW sent \in Seq(ServerMessage),
           DaemonDies(stored, sent),
           learned' \in [Take -> Text \cup {None}]
    PROVE  TypeOK'
<1>1. EngineTypeOK'
  BY DEF DaemonDies, TypeOK, EngineTypeOK, engineVars, sessionVars
<1>2. UserTypeOK'
  BY DEF DaemonDies, TypeOK, UserTypeOK, userVars
<1>3. DaemonTypeOK'
  BY DEF DaemonDies, TypeOK, DaemonTypeOK
<1>4. LinkTypeOK'
  BY DEF DaemonDies, TypeOK, LinkTypeOK
<1> QED BY <1>1, <1>2, <1>3, <1>4 DEF TypeOK

(* What a daemon that dies while it decodes had sent before.               *)
LEMMA AnnouncedType ==
    ASSUME TypeOK
    PROVE  toEngine \o StatusPush(TRUE) \in Seq(ServerMessage)
BY StatusPushType, ConcatProperties DEF TypeOK, LinkTypeOK

LEMMA ProcessDiesType ==
    ASSUME TypeOK, ProcessDies
    PROVE  TypeOK'
<1> DEFINE sent == toEngine \o StatusPush(TRUE)
<1>0. sent \in Seq(ServerMessage)
  BY AnnouncedType
<1>1. CASE EngineExit
  <2>1. EngineTypeOK'
    BY <1>1 DEF EngineExit, EngineIdle, TypeOK, EngineTypeOK
  <2>2. UserTypeOK'
    BY <1>1 DEF EngineExit, TypeOK, UserTypeOK, userVars
  <2>3. DaemonTypeOK'
    BY <1>1, DaemonFrame DEF EngineExit
  <2>4. LinkTypeOK'
    BY <1>1 DEF EngineExit, TypeOK, LinkTypeOK
  <2> QED BY <2>1, <2>2, <2>3, <2>4 DEF TypeOK
<1>2. CASE DaemonDiesBetweenHandlers
  BY <1>2, DaemonDiesType
  DEF DaemonDiesBetweenHandlers, TypeOK, DaemonTypeOK, LinkTypeOK
<1>3. CASE DaemonDiesAfterCreating
  <2> DEFINE stored == [LedgerCancelled EXCEPT ![mic] = "created"]
  <2>1. stored \in [Take -> {"absent", "created", "committed", "cancelled"}]
    BY LedgerCancelledType DEF TypeOK
  <2>2. DaemonDies(stored, sent) /\ learned' = learned
    BY <1>3 DEF DaemonDiesAfterCreating
  <2> HIDE DEF stored, sent
  <2> QED BY <1>0, <2>1, <2>2, DaemonDiesType DEF TypeOK, DaemonTypeOK
<1>4. CASE DaemonDiesAfterCommitting
  <2> DEFINE stored == [LedgerCancelled EXCEPT ![mic] = "committed"]
  <2>1. stored \in [Take -> {"absent", "created", "committed", "cancelled"}]
    BY LedgerCancelledType DEF TypeOK
  <2>2. DaemonDies(stored, sent) /\ learned' = [learned EXCEPT ![mic] = Raw(mic)]
    BY <1>4 DEF DaemonDiesAfterCommitting
  <2>3. Raw(mic) \in Text
    BY <1>4, Texts DEF DaemonDiesAfterCommitting, TypeOK, DaemonTypeOK
  <2>4. learned' \in [Take -> Text \cup {None}]
    BY <2>2, <2>3 DEF TypeOK, DaemonTypeOK
  <2> HIDE DEF stored, sent
  <2> QED BY <1>0, <2>1, <2>2, <2>4, DaemonDiesType
<1>5. CASE DaemonDiesDecoding
  <2>1. DaemonDies(ledger, sent) /\ learned' = learned
    BY <1>5 DEF DaemonDiesDecoding
  <2> HIDE DEF sent
  <2> QED BY <1>0, <2>1, DaemonDiesType DEF TypeOK, DaemonTypeOK
<1> QED BY <1>1, <1>2, <1>3, <1>4, <1>5 DEF ProcessDies

(* Every variable has its type in every state of every behaviour: the      *)
(* engine is reviewing exactly while it holds a window, and no message     *)
(* names a take that was never made.                                       *)
THEOREM TypeCorrect == Spec => []TypeOK
<1>1. Init => TypeOK
  <2> SUFFICES ASSUME Init PROVE TypeOK
    OBVIOUS
  <2>1. DaemonTypeOK
    BY BoundsAssumption DEF Init, DaemonTypeOK
  <2>2. LinkTypeOK
    BY DEF Init, LinkTypeOK
  <2>3. EngineTypeOK /\ UserTypeOK
    BY DEF Init, EngineTypeOK, UserTypeOK
  <2> QED BY <2>1, <2>2, <2>3 DEF TypeOK
<1>2. TypeOK /\ [Next]_vars => TypeOK'
  <2> SUFFICES ASSUME TypeOK, [Next]_vars PROVE TypeOK'
    OBVIOUS
  <2>1. CASE UNCHANGED vars
    <3>1. EngineTypeOK' /\ UserTypeOK'
      BY <2>1, EngineFrame DEF vars
    <3>2. DaemonTypeOK'
      BY <2>1, DaemonFrame DEF vars
    <3>3. LinkTypeOK'
      BY <2>1 DEF vars, linkVars, TypeOK, LinkTypeOK
    <3> QED BY <3>1, <3>2, <3>3 DEF TypeOK
  <2> QED
    BY <2>1, DaemonReadsType, DaemonActsType, EngineReadsType,
       EngineConnectsType, UserActsType, ProcessDiesType
    DEF Next
<1> QED BY <1>1, <1>2, PTL DEF Spec

-----------------------------------------------------------------------------
(***************************************************************************)
(* What the session store of Dictation holds in every reachable state, for *)
(* every number of takes and every bound: at most one session waits for a  *)
(* verdict, the microphone is open only for a client, what was typed is    *)
(* remembered, and the store keeps the promise of SessionLedger.           *)
(*                                                                         *)
(* OneOpenSession is not inductive.  That cancelling or committing `the    *)
(* active session' decides a session that is open in the store, and that a *)
(* finished take never overwrites another one's session, rest on StoreInv: *)
(* takes are numbered in order, a take that is being recorded has no       *)
(* session yet, and nothing is recorded while a session waits.             *)
(***************************************************************************)

(* A take has no session before it ends. *)
TakeNumbers ==
    /\ mic \in {0, takes}
    /\ \A k \in Take : k > takes => ledger[k] = "absent"
    /\ mic # 0 => ledger[mic] = "absent"

(* The session that Live waits for is open in the store, is not one an     *)
(* earlier daemon left, and no take is being recorded.                     *)
OpenSession ==
    Uncommitted => /\ mic = 0
                   /\ ledger[active.id] = "created"
                   /\ active.id \notin stranded

StoreInv == TakeNumbers /\ OpenSession /\ OneOpenSession

(* A step of the promise, or one that the promise does not see. *)
LedgerMove == [Ledger!LedgerNext]_(Ledger!ledgerVars)

LEMMA LedgerMoves ==
    ASSUME NEW k \in Take
    PROVE  /\ UNCHANGED <<ledger, learned>> => LedgerMove
           /\ Ledger!Open(k) => LedgerMove
           /\ Ledger!Abandon(k) => LedgerMove
           /\ \A t \in Text : Ledger!Record(k, t) \/ Ledger!Amend(k, t) => LedgerMove
BY DEF LedgerMove, Ledger!LedgerNext, Ledger!ledgerVars

LEMMA NothingStored ==
    ASSUME StoreInv, UNCHANGED daemonVars
    PROVE  StoreInv' /\ LedgerMove
<1>1. StoreInv'
  BY DEF StoreInv, TakeNumbers, OpenSession, OneOpenSession, Uncommitted,
         daemonVars, micVars, storeVars
<1>2. LedgerMove
  BY DEF LedgerMove, Ledger!ledgerVars, daemonVars, storeVars
<1> QED BY <1>1, <1>2

(* cancel_uncommitted_active_session closes the one session that may be    *)
(* open; while a take is recorded there is none, and it does nothing.      *)
LEMMA Cancelling ==
    ASSUME DaemonTypeOK, StoreInv
    PROVE  /\ mic # 0 => LedgerCancelled = ledger
           /\ {k \in Take : LedgerCancelled[k] = "created"} = stranded
           /\ \A k \in Take : k > takes => LedgerCancelled[k] = "absent"
           /\ \A k \in Take : LedgerCancelled[k] = "committed" <=> ledger[k] = "committed"
           /\ ~Uncommitted => LedgerCancelled = ledger
           /\ Uncommitted => /\ active \in ActiveSession
                             /\ active.id \in Take
                             /\ LedgerCancelled = [ledger EXCEPT ![active.id] = "cancelled"]
                             /\ ledger[active.id] = "created"
<1>1. CASE Uncommitted
  <2>1. active \in ActiveSession /\ active.id \in Take
    BY <1>1 DEF Uncommitted, DaemonTypeOK, ActiveSession
  <2>2. LedgerCancelled = [ledger EXCEPT ![active.id] = "cancelled"]
    BY <1>1 DEF LedgerCancelled
  <2>3. mic = 0 /\ ledger[active.id] = "created" /\ active.id \notin stranded
    BY <1>1 DEF StoreInv, OpenSession
  <2>4. {k \in Take : ledger[k] = "created"} = stranded \cup {active.id}
    BY <1>1 DEF StoreInv, OneOpenSession
  <2>5. {k \in Take : LedgerCancelled[k] = "created"} = stranded
    BY <2>1, <2>2, <2>3, <2>4 DEF DaemonTypeOK
  <2>6. \A k \in Take : k > takes => LedgerCancelled[k] = "absent"
    BY <2>1, <2>2, <2>3 DEF DaemonTypeOK, StoreInv, TakeNumbers
  <2>7. \A k \in Take : LedgerCancelled[k] = "committed" <=> ledger[k] = "committed"
    BY <2>1, <2>2, <2>3 DEF DaemonTypeOK
  <2> QED BY <1>1, <2>1, <2>2, <2>3, <2>5, <2>6, <2>7
<1>2. CASE ~Uncommitted
  <2>1. LedgerCancelled = ledger
    BY <1>2 DEF LedgerCancelled
  <2> QED BY <1>2, <2>1 DEF StoreInv, OneOpenSession, TakeNumbers
<1> QED BY <1>1, <1>2

LEMMA CancellingMoves ==
    ASSUME DaemonTypeOK, StoreInv, ledger' = LedgerCancelled, learned' = learned
    PROVE  LedgerMove
<1>1. CASE Uncommitted
  <2>1. Ledger!Abandon(active.id)
    BY <1>1, Cancelling DEF Ledger!Abandon, Ledger!Undecided
  <2> QED BY <1>1, <2>1, Cancelling, LedgerMoves
<1>2. CASE ~Uncommitted
  BY <1>2, Cancelling DEF LedgerMove, Ledger!ledgerVars
<1> QED BY <1>1, <1>2

(* A take that ends is the first to decide, or to open, its session.       *)
LEMMA TakeEnds ==
    ASSUME DaemonTypeOK, StoreInv, mic # 0
    PROVE  /\ mic \in Take
           /\ mic = takes
           /\ mic \notin stranded
           /\ ledger[mic] = "absent"
           /\ ~Uncommitted
           /\ LedgerCancelled = ledger
           /\ {k \in Take : ledger[k] = "created"} = stranded
<1>1. mic \in Take /\ mic = takes /\ ledger[mic] = "absent" /\ ~Uncommitted
  BY DEF DaemonTypeOK, StoreInv, TakeNumbers, OpenSession
<1>2. LedgerCancelled = ledger /\ {k \in Take : ledger[k] = "created"} = stranded
  BY <1>1, Cancelling
<1> QED BY <1>1, <1>2

LEMMA StartStore ==
    ASSUME DaemonTypeOK, StoreInv, StartLiveCapture
    PROVE  StoreInv' /\ LedgerMove
<1> USE BoundsAssumption
<1>1. ledger' = LedgerCancelled /\ active' = ActiveCancelled
      /\ UNCHANGED <<learned, stranded>>
  BY DEF StartLiveCapture
<1>2. ~Uncommitted'
  BY <1>1 DEF Uncommitted, ActiveCancelled, DaemonTypeOK, ActiveSession
<1>3. OneOpenSession'
  BY <1>1, <1>2, Cancelling DEF OneOpenSession
<1>4. TakeNumbers'
  <2>1. CASE takes < MaxTakes /\ takes' = takes + 1 /\ mic' = takes + 1
    <3>1. takes \in Nat /\ mic' \in Take
      BY <2>1 DEF DaemonTypeOK, Take
    <3>2. ledger'[mic'] = "absent"
      BY <1>1, <2>1, <3>1, Cancelling
    <3>3. \A k \in Take : k > takes' => ledger'[k] = "absent"
      BY <1>1, <2>1, <3>1, Cancelling DEF Take
    <3> QED BY <2>1, <3>2, <3>3 DEF TakeNumbers
  <2>2. CASE UNCHANGED micVars
    BY <1>1, <2>2, Cancelling DEF TakeNumbers, StartLiveCapture, micVars
  <2> QED BY <2>1, <2>2 DEF StartLiveCapture
<1> QED BY <1>1, <1>2, <1>3, <1>4, CancellingMoves DEF StoreInv, OpenSession

LEMMA StopStore ==
    ASSUME DaemonTypeOK, StoreInv, StopLiveAndTranscribe
    PROVE  StoreInv' /\ LedgerMove
<1>1. mic # 0 /\ mic' = 0 /\ takes' = takes /\ stranded' = stranded
  BY DEF StopLiveAndTranscribe
<1>2. Raw(mic) \in Text
  BY <1>1, TakeEnds, Texts
<1>3. CASE StopFails \/ StopSilent
  <2>1. UNCHANGED <<active, ledger, learned>>
    BY <1>3 DEF StopFails, StopSilent
  <2>2. TakeNumbers' /\ OneOpenSession' /\ OpenSession'
    BY <1>1, <2>1
    DEF StoreInv, TakeNumbers, OneOpenSession, OpenSession, Uncommitted
  <2> QED BY <1>1, <2>1, <2>2, TakeEnds, LedgerMoves DEF StoreInv
<1>4. CASE StopReview
  <2>1. /\ ledger' = [ledger EXCEPT ![mic] = "created"]
        /\ active' = [id |-> mic, text |-> Raw(mic), finalized |-> FALSE]
        /\ learned' = learned
    BY <1>1, <1>4, TakeEnds DEF StopReview
  <2>2. active' \in ActiveSession
    BY <1>1, <1>2, <2>1, TakeEnds DEF ActiveSession
  <2>3. Uncommitted' /\ active'.id = mic
    BY <2>1, <2>2, NoneAssumption DEF Uncommitted
  <2>4. \A k \in Take : ledger'[k] = IF k = mic THEN "created" ELSE ledger[k]
    BY <2>1 DEF DaemonTypeOK
  <2>5. TakeNumbers'
    <3>1. \A k \in Take : k > takes => k # mic
      BY <1>1, TakeEnds DEF Take
    <3> QED BY <1>1, <2>4, <3>1 DEF StoreInv, TakeNumbers
  <2>6. OpenSession'
    BY <1>1, <2>3, <2>4, TakeEnds DEF OpenSession
  <2>7. OneOpenSession'
    BY <1>1, <2>3, <2>4, TakeEnds DEF OneOpenSession
  <2>8. Ledger!Open(mic)
    BY <1>1, <2>1, TakeEnds DEF Ledger!Open
  <2> QED BY <1>1, <2>5, <2>6, <2>7, <2>8, TakeEnds, LedgerMoves DEF StoreInv
<1>5. CASE StopDirect
  <2>1. /\ ledger' = [ledger EXCEPT ![mic] = "committed"]
        /\ active' = [id |-> mic, text |-> Raw(mic), finalized |-> TRUE]
        /\ learned' = [learned EXCEPT ![mic] = Raw(mic)]
    BY <1>1, <1>5, TakeEnds DEF StopDirect
  <2>2. ~Uncommitted'
    BY <2>1 DEF Uncommitted
  <2>3. \A k \in Take : ledger'[k] = IF k = mic THEN "committed" ELSE ledger[k]
    BY <2>1 DEF DaemonTypeOK
  <2>4. TakeNumbers'
    <3>1. \A k \in Take : k > takes => k # mic
      BY <1>1, TakeEnds DEF Take
    <3> QED BY <1>1, <2>3, <3>1 DEF StoreInv, TakeNumbers
  <2>5. OneOpenSession'
    BY <1>1, <2>2, <2>3, TakeEnds DEF OneOpenSession
  <2>6. Ledger!Record(mic, Raw(mic))
    BY <1>1, <2>1, TakeEnds DEF Ledger!Record, Ledger!Undecided
  <2> QED
    BY <1>1, <1>2, <2>2, <2>4, <2>5, <2>6, TakeEnds, LedgerMoves
    DEF StoreInv, OpenSession
<1> QED BY <1>3, <1>4, <1>5 DEF StopLiveAndTranscribe

LEMMA CancelTakeStore ==
    ASSUME DaemonTypeOK, StoreInv, CancelTake
    PROVE  StoreInv' /\ LedgerMove
<1>1. /\ ledger' = LedgerCancelled /\ active' = None /\ mic' = 0
      /\ UNCHANGED <<takes, learned, stranded>>
  BY DEF CancelTake
<1>2. ~Uncommitted'
  BY <1>1 DEF Uncommitted
<1>3. TakeNumbers' /\ OneOpenSession'
  BY <1>1, <1>2, Cancelling DEF TakeNumbers, OneOpenSession
<1> QED BY <1>1, <1>2, <1>3, CancellingMoves DEF StoreInv, OpenSession

(* Only the text of a committed session, or the copy of it, changes. *)
LEMMA AmendStore ==
    ASSUME DaemonTypeOK, StoreInv, NEW k \in Take, NEW t \in Text,
           learned' = Amended(k, t) \/ learned' = learned,
           UNCHANGED <<micVars, ledger, stranded>>,
           Uncommitted' <=> Uncommitted, Uncommitted => active'.id = active.id
    PROVE  StoreInv' /\ LedgerMove
<1>1. StoreInv'
  BY DEF StoreInv, TakeNumbers, OpenSession, OneOpenSession, micVars
<1>2. CASE ledger[k] = "committed" /\ learned' = [learned EXCEPT ![k] = t]
  <2>1. Ledger!Amend(k, t)
    BY <1>2 DEF Ledger!Amend
  <2> QED BY <1>1, <2>1, LedgerMoves
<1>3. CASE learned' = learned
  BY <1>1, <1>3, LedgerMoves
<1> QED BY <1>2, <1>3 DEF Amended

-----------------------------------------------------------------------------

LEMMA DaemonReadsStore ==
    ASSUME TypeOK, StoreInv, DaemonReads
    PROVE  StoreInv' /\ LedgerMove
<1> DaemonTypeOK
  BY DEF TypeOK
<1>1. CASE OnClientHello
  <2>1. UNCHANGED <<micVars, active, storeVars>>
    BY <1>1 DEF OnClientHello
  <2>2. StoreInv'
    BY <2>1
    DEF StoreInv, TakeNumbers, OpenSession, OneOpenSession, Uncommitted,
        micVars, storeVars
  <2> QED BY <2>1, <2>2 DEF LedgerMove, Ledger!ledgerVars, storeVars
<1>2. CASE OnToggleRecording
  BY <1>2, StartStore, StopStore DEF OnToggleRecording
<1>3. CASE OnCommitPreedit
  <2> DEFINE text == Head(toDaemon).text
  <2>1. text \in Text
    BY <1>3, ReceiveType, ClientMessageFields DEF OnCommitPreedit
  <2>2. UNCHANGED <<mic, takes, stranded>>
    BY <1>3 DEF OnCommitPreedit, micVars
  <2>3. CASE Uncommitted
    <3>1. /\ active \in ActiveSession /\ active.id \in Take
          /\ ledger[active.id] = "created"
      BY <2>3, Cancelling
    <3>2. /\ ledger' = [ledger EXCEPT ![active.id] = "committed"]
          /\ learned' = [learned EXCEPT ![active.id] = text]
          /\ active' = [active EXCEPT !.text = text, !.finalized = TRUE]
      BY <1>3, <2>3 DEF OnCommitPreedit
    <3>3. ~Uncommitted'
      BY <3>1, <3>2 DEF Uncommitted, ActiveSession
    <3>4. \A k \in Take :
            ledger'[k] = IF k = active.id THEN "committed" ELSE ledger[k]
      BY <3>2 DEF DaemonTypeOK
    <3>5. TakeNumbers'
      BY <2>2, <2>3, <3>1, <3>4 DEF StoreInv, TakeNumbers, OpenSession
    <3>6. OneOpenSession'
      BY <2>2, <2>3, <3>1, <3>3, <3>4 DEF StoreInv, OneOpenSession, OpenSession
    <3>7. Ledger!Record(active.id, text)
      BY <3>1, <3>2 DEF Ledger!Record, Ledger!Undecided
    <3> QED
      BY <2>1, <3>1, <3>3, <3>5, <3>6, <3>7, LedgerMoves DEF StoreInv, OpenSession
  <2>4. CASE ~Uncommitted
    <3>1. UNCHANGED <<ledger, learned, active>>
      BY <1>3, <2>4 DEF OnCommitPreedit
    <3>2. StoreInv'
      BY <2>2, <3>1
      DEF StoreInv, TakeNumbers, OpenSession, OneOpenSession, Uncommitted
    <3> QED BY <3>1, <3>2 DEF LedgerMove, Ledger!ledgerVars
  <2> QED BY <2>3, <2>4
<1>4. CASE OnReportCorrection
  <2> DEFINE text == Head(toDaemon).text
  <2>1. text \in Text
    BY <1>4, ReceiveType, ClientMessageFields DEF OnReportCorrection
  <2>2. UNCHANGED <<micVars, ledger, stranded>>
    BY <1>4 DEF OnReportCorrection
  <2>3. CASE active # None /\ active.finalized /\ text # active.text
    <3>1. active \in ActiveSession /\ active.id \in Take
      BY <2>3 DEF DaemonTypeOK, ActiveSession
    <3>2. learned' = Amended(active.id, text) /\ active' = [active EXCEPT !.text = text]
      BY <1>4, <2>3 DEF OnReportCorrection
    <3>3. ~Uncommitted /\ ~Uncommitted'
      BY <2>3, <3>1, <3>2 DEF Uncommitted, ActiveSession
    <3> QED BY <2>1, <2>2, <3>1, <3>2, <3>3, AmendStore
  <2>4. CASE ~(active # None /\ active.finalized /\ text # active.text)
    <3>1. UNCHANGED <<micVars, ledger, stranded, learned, active>>
      BY <1>4, <2>2, <2>4 DEF OnReportCorrection
    <3>2. StoreInv'
      BY <3>1
      DEF StoreInv, TakeNumbers, OpenSession, OneOpenSession, Uncommitted, micVars
    <3> QED BY <3>1, <3>2 DEF LedgerMove, Ledger!ledgerVars
  <2> QED BY <2>3, <2>4
<1>5. CASE OnCancelPreedit
  BY <1>5, CancelTakeStore DEF OnCancelPreedit
<1>6. CASE OnHistoryEdited
  <2> DEFINE edited == Head(toDaemon)
  <2>1. edited.text \in Text /\ edited.id \in Take
    BY <1>6, ReceiveType, ClientMessageFields DEF OnHistoryEdited
  <2>2. UNCHANGED <<micVars, ledger, stranded>>
    BY <1>6 DEF OnHistoryEdited
  <2>3. learned' = Amended(edited.id, edited.text) \/ learned' = learned
    BY <1>6 DEF OnHistoryEdited
  <2>4. active' = active \/ (active # None /\ active' = [active EXCEPT !.text = edited.text])
    BY <1>6 DEF OnHistoryEdited
  <2>5. (Uncommitted' <=> Uncommitted) /\ (Uncommitted => active'.id = active.id)
    <3>1. CASE active' = active
      BY <3>1 DEF Uncommitted
    <3>2. CASE active # None /\ active' = [active EXCEPT !.text = edited.text]
      <4>1. active \in ActiveSession
        BY <3>2 DEF DaemonTypeOK
      <4>2. active' \in ActiveSession
        BY <2>1, <3>2, <4>1 DEF ActiveSession
      <4>3. active'.finalized = active.finalized /\ active'.id = active.id
        BY <3>2, <4>1 DEF ActiveSession
      <4> QED BY <3>2, <4>2, <4>3, NoneAssumption DEF Uncommitted
    <3> QED BY <2>4, <3>1, <3>2
  <2> QED BY <2>1, <2>2, <2>3, <2>5, AmendStore
<1>7. CASE PeerGone
  <2>1. /\ ledger' = LedgerCancelled /\ active' = None /\ mic' = 0
        /\ UNCHANGED <<takes, learned, stranded>>
    BY <1>7 DEF PeerGone, DropClient
  <2>2. ~Uncommitted'
    BY <2>1 DEF Uncommitted
  <2>3. TakeNumbers' /\ OneOpenSession'
    BY <2>1, <2>2, Cancelling DEF TakeNumbers, OneOpenSession
  <2> QED BY <2>1, <2>2, <2>3, CancellingMoves DEF StoreInv, OpenSession
<1> QED BY <1>1, <1>2, <1>3, <1>4, <1>5, <1>6, <1>7 DEF DaemonReads

LEMMA DaemonActsStore ==
    ASSUME TypeOK, StoreInv, DaemonActs
    PROVE  StoreInv' /\ LedgerMove
<1> DaemonTypeOK
  BY DEF TypeOK
<1>1. CASE TrayStart
  BY <1>1, StartStore DEF TrayStart
<1>2. CASE TrayStop \/ AutoStop
  BY <1>2, StopStore DEF TrayStop, AutoStop
<1>3. CASE TrayCancel
  BY <1>3, CancelTakeStore DEF TrayCancel
<1>4. CASE TraySetting
  <2>1. UNCHANGED <<micVars, active, storeVars>>
    BY <1>4 DEF TraySetting
  <2>2. StoreInv'
    BY <2>1
    DEF StoreInv, TakeNumbers, OpenSession, OneOpenSession, Uncommitted,
        micVars, storeVars
  <2> QED BY <2>1, <2>2 DEF LedgerMove, Ledger!ledgerVars, storeVars
<1>5. CASE TrayEdit \/ PumpPartial
  BY <1>5, NothingStored DEF TrayEdit, PumpPartial
<1>6. CASE PeerGoneAfterStoring
  <2>1. mic # 0 /\ mic' = 0 /\ active' = None /\ UNCHANGED <<takes, stranded>>
    BY <1>6 DEF PeerGoneAfterStoring, DropClient
  <2>2. mic \in Take /\ mic = takes /\ Raw(mic) \in Text
    BY <2>1, TakeEnds, Texts
  <2> DEFINE end == IF review THEN "cancelled" ELSE "committed"
  <2>3. ledger' = [ledger EXCEPT ![mic] = end]
    BY <1>6, <2>1, TakeEnds DEF PeerGoneAfterStoring
  <2>4. \A k \in Take : ledger'[k] = IF k = mic THEN end ELSE ledger[k]
    BY <2>3 DEF DaemonTypeOK
  <2>5. ~Uncommitted'
    BY <2>1 DEF Uncommitted
  <2>6. TakeNumbers'
    <3>1. \A k \in Take : k > takes => k # mic
      BY <2>2 DEF Take
    <3> QED BY <2>1, <2>4, <3>1 DEF StoreInv, TakeNumbers
  <2>7. OneOpenSession'
    BY <2>1, <2>4, <2>5, TakeEnds DEF OneOpenSession
  <2>8. LedgerMove
    <3>1. CASE review
      <4>1. ledger' = [ledger EXCEPT ![mic] = "cancelled"] /\ learned' = learned
        BY <1>6, <2>3, <3>1 DEF PeerGoneAfterStoring
      <4>2. Ledger!Abandon(mic)
        BY <2>1, <4>1, TakeEnds DEF Ledger!Abandon, Ledger!Undecided
      <4> QED BY <2>2, <4>2, LedgerMoves
    <3>2. CASE ~review
      <4>1. /\ ledger' = [ledger EXCEPT ![mic] = "committed"]
            /\ learned' = [learned EXCEPT ![mic] = Raw(mic)]
        BY <1>6, <2>3, <3>2 DEF PeerGoneAfterStoring
      <4>2. Ledger!Record(mic, Raw(mic))
        BY <2>1, <4>1, TakeEnds DEF Ledger!Record, Ledger!Undecided
      <4> QED BY <2>2, <4>2, LedgerMoves
    <3> QED BY <3>1, <3>2
  <2> QED BY <2>5, <2>6, <2>7, <2>8 DEF StoreInv, OpenSession
<1> QED BY <1>1, <1>2, <1>3, <1>4, <1>5, <1>6 DEF DaemonActs

(* The engine and the user reach the store only through the socket. *)
LEMMA EngineKeepsStore ==
    ASSUME EngineReads \/ EngineConnects \/ UserActs \/ EngineExit
    PROVE  UNCHANGED daemonVars
<1>1. CASE EngineReads
  BY <1>1
  DEF EngineReads, ReadStatus, ReadPartial, ReadReconcile,
      ReadReconcileWithoutTarget, ReadReview, ReadEditHistory, ReadError, Send
<1>2. CASE EngineConnects
  BY <1>2 DEF EngineConnects, Connect, SendHello, Greeted, HandshakeFails
<1>3. CASE UserActs
  BY <1>3
  DEF UserActs, KeyTrigger, KeyEscape, KeyEdits, CloseWindow, ConfirmReview,
      CancelReview, ConfirmHistoryEdit, CancelHistoryEdit, Send
<1>4. CASE EngineExit
  BY <1>4 DEF EngineExit
<1> QED BY <1>1, <1>2, <1>3, <1>4

(* Whatever a daemon that dies leaves open counts as stranded. *)
LEMMA DaemonDiesStore ==
    ASSUME DaemonTypeOK, StoreInv,
           NEW stored \in [Take -> {"absent", "created", "committed", "cancelled"}],
           \A k \in Take : k > takes => stored[k] = "absent",
           NEW sent, DaemonDies(stored, sent)
    PROVE  StoreInv'
<1>1. /\ mic' = 0 /\ takes' = takes /\ active' = None /\ ledger' = stored
      /\ stranded' = {k \in Take : stored[k] = "created"}
  BY DEF DaemonDies
<1>2. ~Uncommitted'
  BY <1>1 DEF Uncommitted
<1>3. TakeNumbers' /\ OneOpenSession'
  BY <1>1, <1>2 DEF TakeNumbers, OneOpenSession
<1> QED BY <1>2, <1>3 DEF StoreInv, OpenSession

LEMMA ProcessDiesStore ==
    ASSUME TypeOK, StoreInv, ProcessDies
    PROVE  StoreInv' /\ LedgerMove
<1> DaemonTypeOK
  BY DEF TypeOK
<1>1. CASE EngineExit
  BY <1>1, EngineKeepsStore, NothingStored
<1>2. CASE DaemonDiesBetweenHandlers \/ DaemonDiesDecoding
  <2>1. PICK sent : DaemonDies(ledger, sent) /\ UNCHANGED <<ledger, learned>>
    BY <1>2 DEF DaemonDiesBetweenHandlers, DaemonDiesDecoding, DaemonDies
  <2>2. StoreInv'
    BY <2>1, DaemonDiesStore DEF DaemonTypeOK, StoreInv, TakeNumbers
  <2> QED BY <2>1, <2>2 DEF LedgerMove, Ledger!ledgerVars
<1>3. CASE DaemonDiesAfterCreating
  <2> DEFINE stored == [ledger EXCEPT ![mic] = "created"]
  <2>1. mic # 0 /\ mic \in Take /\ mic = takes
    BY <1>3, TakeEnds DEF DaemonDiesAfterCreating
  <2>2. PICK sent :
          DaemonDies(stored, sent) /\ ledger' = stored /\ learned' = learned
    BY <1>3, <2>1, TakeEnds DEF DaemonDiesAfterCreating, DaemonDies
  <2>3. stored \in [Take -> {"absent", "created", "committed", "cancelled"}]
    BY DEF DaemonTypeOK
  <2>4. \A k \in Take : k > takes => stored[k] = "absent"
    <3>1. \A k \in Take : k > takes => k # mic
      BY <2>1 DEF Take
    <3> QED BY <3>1 DEF DaemonTypeOK, StoreInv, TakeNumbers
  <2>5. Ledger!Open(mic)
    BY <2>1, <2>2, TakeEnds DEF Ledger!Open
  <2>6. StoreInv'
    <3> HIDE DEF stored
    <3> QED BY <2>2, <2>3, <2>4, DaemonDiesStore
  <2> QED BY <2>1, <2>5, <2>6, LedgerMoves
<1>4. CASE DaemonDiesAfterCommitting
  <2> DEFINE stored == [ledger EXCEPT ![mic] = "committed"]
  <2>1. mic # 0 /\ mic \in Take /\ mic = takes /\ Raw(mic) \in Text
    BY <1>4, TakeEnds, Texts DEF DaemonDiesAfterCommitting
  <2>2. PICK sent :
        /\ DaemonDies(stored, sent) /\ ledger' = stored
        /\ learned' = [learned EXCEPT ![mic] = Raw(mic)]
    BY <1>4, <2>1, TakeEnds DEF DaemonDiesAfterCommitting, DaemonDies
  <2>3. stored \in [Take -> {"absent", "created", "committed", "cancelled"}]
    BY DEF DaemonTypeOK
  <2>4. \A k \in Take : k > takes => stored[k] = "absent"
    <3>1. \A k \in Take : k > takes => k # mic
      BY <2>1 DEF Take
    <3> QED BY <3>1 DEF DaemonTypeOK, StoreInv, TakeNumbers
  <2>5. Ledger!Record(mic, Raw(mic))
    BY <2>1, <2>2, TakeEnds DEF Ledger!Record, Ledger!Undecided
  <2>6. StoreInv'
    <3> HIDE DEF stored
    <3> QED BY <2>2, <2>3, <2>4, DaemonDiesStore
  <2> QED BY <2>1, <2>5, <2>6, LedgerMoves
<1> QED BY <1>1, <1>2, <1>3, <1>4 DEF ProcessDies

LEMMA StoreStep ==
    ASSUME TypeOK, StoreInv, [Next]_vars
    PROVE  StoreInv' /\ LedgerMove
<1>1. CASE UNCHANGED vars
  BY <1>1, NothingStored DEF vars
<1>2. CASE EngineReads \/ EngineConnects \/ UserActs
  BY <1>2, EngineKeepsStore, NothingStored
<1> QED
  BY <1>1, <1>2, DaemonReadsStore, DaemonActsStore, ProcessDiesStore DEF Next

LEMMA StoreStart == Init => StoreInv
BY DEF Init, StoreInv, TakeNumbers, OpenSession, OneOpenSession, Uncommitted

(* In every reachable state takes are numbered in order, the session that  *)
(* the daemon waits for is the one the store holds open, and there is no   *)
(* other one (repository.rs create_session, commit_session and             *)
(* cancel_session as run_loop.rs calls them).                              *)
THEOREM StoreCorrect == Spec => []StoreInv
<1>1. TypeOK /\ StoreInv /\ [Next]_vars => StoreInv'
  BY StoreStep
<1> QED BY <1>1, StoreStart, TypeCorrect, PTL DEF Spec

(* At most one session waits for the user's verdict: whatever is retried,  *)
(* cancelled or lost, every other session is decided, unless a daemon died *)
(* and left it open.                                                       *)
THEOREM OneSessionWaits == Spec => []OneOpenSession
<1>1. StoreInv => OneOpenSession
  BY DEF StoreInv
<1> QED BY <1>1, StoreCorrect, PTL

(* Every step of the two processes, crashes and lost clients included, is  *)
(* a step of SessionLedger or leaves the store alone.                      *)
THEOREM KeepsThePromise == Spec => LedgerRefined
<1>1. Init => Ledger!LedgerInit
  BY DEF Init, Ledger!LedgerInit
<1>2. TypeOK /\ StoreInv /\ [Next]_vars => LedgerMove
  BY StoreStep
<1> QED
  BY <1>1, <1>2, StoreCorrect, TypeCorrect, PTL
  DEF Spec, LedgerRefined, Ledger!LedgerSpec, LedgerMove

-----------------------------------------------------------------------------
(* The microphone opens while a client is being served; however a client   *)
(* is lost, the device is released with it.                                *)
THEOREM MicOnlyForClient == Spec => []MicNeedsClient
<1>1. Init => MicNeedsClient
  BY DEF Init, MicNeedsClient
<1>2. MicNeedsClient /\ [Next]_vars => MicNeedsClient'
  <2> SUFFICES ASSUME MicNeedsClient, [Next]_vars PROVE MicNeedsClient'
    OBVIOUS
  <2> USE DEF MicNeedsClient
  <2>1. CASE UNCHANGED vars
    BY <2>1 DEF vars, daemonVars, micVars, linkVars
  <2>2. CASE DaemonReads
    <3>1. CASE PeerGone
      BY <3>1 DEF PeerGone, DropClient
    <3>2. CASE ~PeerGone
      BY <2>2, <3>2
      DEF DaemonReads, OnClientHello, OnToggleRecording, OnCommitPreedit,
          OnReportCorrection, OnCancelPreedit, OnHistoryEdited, CancelTake,
          Serving, micVars
    <3> QED BY <3>1, <3>2
  <2>3. CASE DaemonActs
    <3>1. CASE PeerGoneAfterStoring
      BY <3>1 DEF PeerGoneAfterStoring, DropClient
    <3>2. CASE ~PeerGoneAfterStoring
      <4>1. UNCHANGED link
        BY <2>3, <3>2
        DEF DaemonActs, TrayStart, TrayStop, TrayCancel, TraySetting, TrayEdit,
            PumpPartial, AutoStop, OwnStep
      <4>2. Serving
        BY <2>3, <3>2
        DEF DaemonActs, TrayStart, TrayStop, TrayCancel, TraySetting, TrayEdit,
            PumpPartial, AutoStop, TrayClick
      <4> QED BY <4>1, <4>2 DEF Serving
    <3> QED BY <3>1, <3>2
  <2>4. CASE EngineReads \/ UserActs
    <3>1. UNCHANGED link
      <4>1. CASE EngineReads
        BY <4>1
        DEF EngineReads, ReadStatus, ReadPartial, ReadReconcile,
            ReadReconcileWithoutTarget, ReadReview, ReadEditHistory, ReadError, Send
      <4>2. CASE UserActs
        BY <4>2
        DEF UserActs, KeyTrigger, KeyEscape, KeyEdits, CloseWindow, ConfirmReview,
            CancelReview, ConfirmHistoryEdit, CancelHistoryEdit, Send, linkVars
      <4> QED BY <2>4, <4>1, <4>2
    <3>2. UNCHANGED mic
      BY <2>4, EngineKeepsStore DEF daemonVars, micVars
    <3> QED BY <3>1, <3>2
  <2>5. CASE EngineConnects
    <3>1. UNCHANGED mic
      BY <2>5, EngineKeepsStore DEF daemonVars, micVars
    <3>2. link' # "down"
      BY <2>5 DEF EngineConnects, Connect, SendHello, Greeted, HandshakeFails
    <3> QED BY <3>1, <3>2
  <2>6. CASE ProcessDies
    BY <2>6
    DEF ProcessDies, EngineExit, DaemonDiesBetweenHandlers, DaemonDiesDecoding,
        DaemonDiesAfterCreating, DaemonDiesAfterCommitting, DaemonDies,
        daemonVars, micVars
  <2> QED BY <2>1, <2>2, <2>3, <2>4, <2>5, <2>6 DEF Next
<1> QED BY <1>1, <1>2, PTL DEF Spec

-----------------------------------------------------------------------------
(* What is typed is remembered: a final text on its way to the engine      *)
(* belongs to a session that is committed, and committed sessions stay so. *)
FinalsCommitted ==
    \A i \in DOMAIN toEngine :
        toEngine[i].type = "Reconcile" => ledger[toEngine[i].text.take] = "committed"

TypedInv == FinalsCommitted /\ TypedIsRemembered

NoFinal(messages) == \A i \in DOMAIN messages : messages[i].type # "Reconcile"

LEMMA CommittedStays ==
    ASSUME DaemonTypeOK, LedgerMove
    PROVE  \A k \in Take : ledger[k] = "committed" => ledger'[k] = "committed"
BY DEF DaemonTypeOK, LedgerMove, Ledger!ledgerVars, Ledger!LedgerNext,
       Ledger!Open, Ledger!Abandon, Ledger!Record, Ledger!Amend, Ledger!Undecided

LEMMA FinalsPushed ==
    ASSUME TypeOK, FinalsCommitted, LedgerMove,
           NEW messages \in Seq(ServerMessage),
           \A i \in DOMAIN messages : messages[i].type = "Reconcile" =>
               ledger'[messages[i].text.take] = "committed",
           Push(messages)
    PROVE  FinalsCommitted'
<1>1. toEngine' = toEngine \o messages /\ toEngine \in Seq(ServerMessage)
  BY DEF Push, TypeOK, LinkTypeOK
<1>2. ASSUME NEW i \in DOMAIN toEngine', toEngine'[i].type = "Reconcile"
      PROVE  ledger'[toEngine'[i].text.take] = "committed"
  <2>1. CASE i <= Len(toEngine)
    <3>1. i \in DOMAIN toEngine /\ toEngine'[i] = toEngine[i]
      BY <1>1, <1>2, <2>1, ConcatProperties
    <3>2. ledger[toEngine[i].text.take] = "committed"
      BY <1>2, <3>1 DEF FinalsCommitted
    <3>3. toEngine[i] \in ServerMessage
      BY <1>1, <3>1
    <3>4. toEngine[i].text.take \in Take
      BY <1>2, <3>1, <3>3, ServerMessageFields, Texts
    <3> QED BY <3>1, <3>2, <3>4, CommittedStays DEF TypeOK
  <2>2. CASE ~(i <= Len(toEngine))
    <3>1. /\ i - Len(toEngine) \in DOMAIN messages
          /\ toEngine'[i] = messages[i - Len(toEngine)]
      BY <1>1, <1>2, <2>2, ConcatProperties
    <3> QED BY <1>2, <3>1
  <2> QED BY <2>1, <2>2
<1> QED BY <1>2 DEF FinalsCommitted

LEMMA FinalsKept ==
    ASSUME TypeOK, FinalsCommitted, LedgerMove,
           \/ toEngine' = toEngine
           \/ toEngine' = <<>>
           \/ toEngine # <<>> /\ toEngine' = Tail(toEngine)
    PROVE  FinalsCommitted'
<1>0. toEngine \in Seq(ServerMessage)
  BY DEF TypeOK, LinkTypeOK
<1>1. ASSUME NEW i \in DOMAIN toEngine'
      PROVE  \E j \in DOMAIN toEngine : toEngine'[i] = toEngine[j]
  <2>1. CASE toEngine' = toEngine
    BY <1>1, <2>1
  <2>2. CASE toEngine' = <<>>
    BY <1>1, <2>2
  <2>3. CASE toEngine # <<>> /\ toEngine' = Tail(toEngine)
    <3>1. i + 1 \in DOMAIN toEngine /\ toEngine'[i] = toEngine[i + 1]
      BY <1>0, <1>1, <2>3, HeadTailProperties
    <3> QED BY <3>1
  <2> QED BY <2>1, <2>2, <2>3
<1>2. ASSUME NEW j \in DOMAIN toEngine, toEngine[j].type = "Reconcile"
      PROVE  ledger'[toEngine[j].text.take] = "committed"
  <2>1. toEngine[j] \in ServerMessage
    BY <1>0, <1>2
  <2>2. toEngine[j].text.take \in Take
    BY <1>2, <2>1, ServerMessageFields, Texts
  <2> QED BY <1>2, <2>2, CommittedStays DEF TypeOK, FinalsCommitted
<1> QED BY <1>1, <1>2 DEF FinalsCommitted

LEMMA NoFinals ==
    /\ NoFinal(<<>>)
    /\ NoFinal(<<ErrorMessage>>)
    /\ \A b \in BOOLEAN : NoFinal(StatusPush(b))
    /\ NoFinal(<<[type |-> "ServerHello"],
                 [type |-> "RecordingStatus", recording |-> FALSE]>>)
    /\ \A k : NoFinal(<<[type |-> "Partial", take |-> k]>>)
    /\ \A k, t : NoFinal(<<[type |-> "EditHistory", id |-> k, text |-> t]>>)
BY DEF NoFinal, ErrorMessage, StatusPush

LEMMA NoFinalPushed ==
    ASSUME TypeOK, FinalsCommitted, LedgerMove,
           NEW messages \in Seq(ServerMessage), NoFinal(messages), Push(messages)
    PROVE  FinalsCommitted'
BY FinalsPushed DEF NoFinal

LEMMA StartFinals ==
    ASSUME TypeOK, FinalsCommitted, LedgerMove, StartLiveCapture
    PROVE  FinalsCommitted'
<1>1. CASE Push(StatusPush(TRUE))
  BY <1>1, StatusPushType, NoFinals, NoFinalPushed
<1>2. CASE Push(<<ErrorMessage>>)
  BY <1>2, ErrorPush, NoFinals, NoFinalPushed
<1> QED BY <1>1, <1>2 DEF StartLiveCapture

LEMMA FirstThen ==
    ASSUME NEW S, NEW x \in S, NEW s \in Seq(S)
    PROVE  /\ <<x>> \o s \in Seq(S)
           /\ DOMAIN (<<x>> \o s) = 1..(1 + Len(s))
           /\ \A i \in 1..(1 + Len(s)) :
                (<<x>> \o s)[i] = IF i <= 1 THEN x ELSE s[i - 1]
<1> DEFINE one == <<x>>
           all == one \o s
<1>1. one \in Seq(S) /\ Len(one) = 1 /\ one[1] = x
  OBVIOUS
<1> HIDE DEF one
<1>2. /\ one \o s \in Seq(S)
      /\ Len(one \o s) = Len(one) + Len(s)
      /\ \A i \in 1..(Len(one) + Len(s)) :
            (one \o s)[i] = IF i <= Len(one) THEN one[i] ELSE s[i - Len(one)]
  BY <1>1, ConcatProperties
<1> HIDE DEF all
<1>3. all \in Seq(S) /\ DOMAIN all = 1..(1 + Len(s))
  BY <1>1, <1>2 DEF all
<1>4. \A i \in 1..(1 + Len(s)) : all[i] = IF i <= 1 THEN x ELSE s[i - 1]
  BY <1>1, <1>2 DEF all
<1>5. all = <<x>> \o s
  BY DEF all, one
<1> QED BY <1>3, <1>4, <1>5

(* The finals of a sequence of messages are those of its two parts.        *)
FinalsHold(messages) ==
    \A i \in DOMAIN messages : messages[i].type = "Reconcile" =>
        ledger'[messages[i].text.take] = "committed"

LEMMA FinalsJoined ==
    ASSUME NEW s \in Seq(ServerMessage), NEW t \in Seq(ServerMessage),
           FinalsHold(s), FinalsHold(t)
    PROVE  FinalsHold(s \o t)
<1> DEFINE all == s \o t
<1>1. /\ all \in Seq(ServerMessage)
      /\ DOMAIN all = 1..(Len(s) + Len(t))
      /\ \A i \in 1..(Len(s) + Len(t)) :
            all[i] = IF i <= Len(s) THEN s[i] ELSE t[i - Len(s)]
  BY ConcatProperties
<1> HIDE DEF all
<1>2. ASSUME NEW i \in DOMAIN all, all[i].type = "Reconcile"
      PROVE  ledger'[all[i].text.take] = "committed"
  <2>1. CASE i <= Len(s)
    <3>1. i \in DOMAIN s /\ all[i] = s[i]
      BY <1>1, <1>2, <2>1
    <3> QED BY <1>2, <3>1 DEF FinalsHold
  <2>2. CASE ~(i <= Len(s))
    <3>1. i - Len(s) \in DOMAIN t /\ all[i] = t[i - Len(s)]
      BY <1>1, <1>2, <2>2
    <3> QED BY <1>2, <3>1 DEF FinalsHold
  <2> QED BY <2>1, <2>2
<1>3. FinalsHold(all)
  BY <1>2 DEF FinalsHold
<1> QED BY <1>3 DEF all

LEMMA FinalsDecoded ==
    ASSUME NEW messages \in Seq(ServerMessage), FinalsHold(messages)
    PROVE  FinalsHold(Decoding(messages))
<1>1. StatusPush(TRUE) \in Seq(ServerMessage) /\ FinalsHold(StatusPush(TRUE))
  BY StatusPushType, NoFinals DEF NoFinal, FinalsHold
<1>2. Ended \in Seq(ServerMessage) /\ FinalsHold(Ended)
  BY EndedType DEF Ended, FinalsHold
<1>3. /\ StatusPush(TRUE) \o messages \in Seq(ServerMessage)
      /\ FinalsHold(StatusPush(TRUE) \o messages)
  BY <1>1, FinalsJoined, ConcatProperties
<1>4. FinalsHold((StatusPush(TRUE) \o messages) \o Ended)
  BY <1>2, <1>3, FinalsJoined
<1> QED BY <1>4 DEF Decoding, Ended

LEMMA StopFinals ==
    ASSUME TypeOK, FinalsCommitted, LedgerMove, StopLiveAndTranscribe
    PROVE  FinalsCommitted'
<1>1. mic \in Take /\ Raw(mic) \in Text
  BY Texts DEF StopLiveAndTranscribe, TypeOK, DaemonTypeOK
<1>2. ASSUME NEW messages \in Seq(ServerMessage), FinalsHold(messages),
             Push(Decoding(messages))
      PROVE  FinalsCommitted'
  BY <1>2, DecodingType, FinalsDecoded, FinalsPushed DEF FinalsHold
<1>3. ASSUME Push(Decoding(<<>>))
      PROVE  FinalsCommitted'
  <2> DEFINE none == <<>>
  <2>1. none \in Seq(ServerMessage) /\ FinalsHold(none)
    BY DEF FinalsHold
  <2>2. Push(Decoding(none))
    BY <1>3
  <2> HIDE DEF none
  <2> QED BY <1>2, <2>1, <2>2
<1>4. CASE StopFails
  <2> DEFINE status == StatusPush(FALSE)
  <2>1. status \in Seq(ServerMessage) /\ FinalsHold(status)
    BY StatusPushType, NoFinals DEF NoFinal, FinalsHold
  <2>2. <<ErrorMessage>> \in Seq(ServerMessage) /\ FinalsHold(<<ErrorMessage>>)
    BY ErrorPush, NoFinals DEF NoFinal, FinalsHold
  <2>3. Push(<<ErrorMessage>> \o status)
    BY <1>4 DEF StopFails
  <2> HIDE DEF status
  <2>4. /\ <<ErrorMessage>> \o status \in Seq(ServerMessage)
        /\ FinalsHold(<<ErrorMessage>> \o status)
    BY <2>1, <2>2, FinalsJoined, ConcatProperties
  <2> QED BY <2>3, <2>4, FinalsPushed DEF FinalsHold
<1>5. CASE StopSilent
  BY <1>3, <1>5 DEF StopSilent
<1>6. CASE StopReview
  <2> DEFINE m == [type |-> "Review", text |-> Raw(mic)]
             messages == <<m>>
  <2>1. messages \in Seq(ServerMessage) /\ m.type = "Review"
    BY <1>1, TextPush
  <2>3. FinalsHold(messages)
    <3> HIDE DEF m
    <3> QED BY <2>1 DEF FinalsHold
  <2>2. Push(Decoding(messages))
    BY <1>6 DEF StopReview
  <2> HIDE DEF messages
  <2> QED BY <1>2, <2>1, <2>2, <2>3
<1>7. CASE StopDirect /\ hello
  <2> DEFINE messages == <<[type |-> "Reconcile", text |-> Raw(mic)]>>
  <2>1. messages \in Seq(ServerMessage)
    BY <1>1, TextPush
  <2>2. ledger'[mic] = "committed"
    BY <1>1, <1>7, LedgerCancelledType DEF StopDirect, TypeOK
  <2>3. FinalsHold(messages)
    BY <2>2 DEF FinalsHold, Raw
  <2>4. Push(Decoding(messages))
    BY <1>7 DEF StopDirect
  <2> HIDE DEF messages
  <2> QED BY <1>2, <2>1, <2>3, <2>4
<1>8. CASE StopDirect /\ ~hello
  BY <1>3, <1>8 DEF StopDirect
<1> QED BY <1>4, <1>5, <1>6, <1>7, <1>8 DEF StopLiveAndTranscribe

LEMMA FinalsStep ==
    ASSUME TypeOK, FinalsCommitted, LedgerMove, [Next]_vars
    PROVE  FinalsCommitted'
<1>1. CASE UNCHANGED vars
  BY <1>1, FinalsKept DEF vars, linkVars
<1>2. CASE DaemonReads
  <2>1. CASE OnClientHello
    BY <2>1, HelloPush, NoFinals, NoFinalPushed DEF OnClientHello
  <2>2. CASE OnToggleRecording
    BY <2>2, StartFinals, StopFinals DEF OnToggleRecording
  <2>3. CASE OnCommitPreedit
    <3>1. (mic # 0) \in BOOLEAN
      OBVIOUS
    <3>2. PICK b \in BOOLEAN : Push(StatusPush(b))
      BY <2>3, <3>1 DEF OnCommitPreedit
    <3> QED BY <3>2, StatusPushType, NoFinals, NoFinalPushed
  <2>4. CASE OnCancelPreedit
    BY <2>4, StatusPushType, NoFinals, NoFinalPushed DEF OnCancelPreedit, CancelTake
  <2>5. CASE OnReportCorrection \/ OnHistoryEdited \/ PeerGone
    BY <2>5, FinalsKept DEF OnReportCorrection, OnHistoryEdited, PeerGone, DropClient
  <2> QED BY <1>2, <2>1, <2>2, <2>3, <2>4, <2>5 DEF DaemonReads
<1>3. CASE DaemonActs
  <2>1. CASE TrayStart
    BY <2>1, StartFinals DEF TrayStart
  <2>2. CASE TrayStop \/ AutoStop
    BY <2>2, StopFinals DEF TrayStop, AutoStop
  <2>3. CASE TrayCancel
    BY <2>3, StatusPushType, NoFinals, NoFinalPushed DEF TrayCancel, CancelTake
  <2>4. CASE TraySetting \/ PeerGoneAfterStoring
    BY <2>4, FinalsKept DEF TraySetting, PeerGoneAfterStoring, DropClient
  <2>5. CASE TrayEdit
    <3>1. PICK k \in Take :
            /\ learned[k] # None
            /\ Push(<<[type |-> "EditHistory", id |-> k, text |-> learned[k]]>>)
      BY <2>5 DEF TrayEdit
    <3>2. learned[k] \in Text
      BY <3>1 DEF TypeOK, DaemonTypeOK
    <3> QED BY <3>1, <3>2, EditHistoryPush, NoFinals, NoFinalPushed
  <2>6. CASE PumpPartial
    <3>1. mic \in Take
      BY <2>6 DEF PumpPartial, TypeOK, DaemonTypeOK
    <3> QED BY <2>6, <3>1, PartialPush, NoFinals, NoFinalPushed DEF PumpPartial
  <2> QED BY <1>3, <2>1, <2>2, <2>3, <2>4, <2>5, <2>6 DEF DaemonActs
<1>4. CASE EngineReads
  <2>1. toEngine # <<>> /\ toEngine' = Tail(toEngine)
    BY <1>4
    DEF EngineReads, ReadStatus, ReadPartial, ReadReconcile,
        ReadReconcileWithoutTarget, ReadReview, ReadEditHistory, ReadError, Read
  <2> QED BY <2>1, FinalsKept
<1>5. CASE EngineConnects
  BY <1>5, FinalsKept
  DEF EngineConnects, Connect, SendHello, Greeted, HandshakeFails
<1>6. CASE UserActs
  <2>1. UNCHANGED toEngine
    BY <1>6
    DEF UserActs, KeyTrigger, KeyEscape, KeyEdits, CloseWindow, ConfirmReview,
        CancelReview, ConfirmHistoryEdit, CancelHistoryEdit, Answer, linkVars
  <2> QED BY <2>1, FinalsKept
<1>7. CASE ProcessDies
  <2>1. \/ toEngine' = toEngine \/ toEngine' = <<>>
        \/ Push(StatusPush(TRUE))
    BY <1>7
    DEF ProcessDies, EngineExit, DaemonDiesBetweenHandlers, DaemonDiesDecoding,
        DaemonDiesAfterCreating, DaemonDiesAfterCommitting, DaemonDies, Push
  <2>2. CASE Push(StatusPush(TRUE))
    BY <2>2, StatusPushType, NoFinals, NoFinalPushed
  <2> QED BY <2>1, <2>2, FinalsKept
<1> QED BY <1>1, <1>2, <1>3, <1>4, <1>5, <1>6, <1>7 DEF Next

(* Only a final text that replaces the preview is typed by the engine.     *)
LEMMA TypedGrows ==
    ASSUME [Next]_vars
    PROVE  typed' = typed \/ ReadReconcile
<1>1. CASE UNCHANGED vars
  BY <1>1 DEF vars, userVars
<1>2. CASE DaemonReads
  BY <1>2
  DEF DaemonReads, OnClientHello, OnToggleRecording, OnCommitPreedit,
      OnReportCorrection, OnCancelPreedit, OnHistoryEdited, PeerGone, DropClient,
      Receive, userVars
<1>3. CASE DaemonActs
  BY <1>3
  DEF DaemonActs, TrayStart, TrayStop, TrayCancel, TraySetting, TrayEdit,
      PumpPartial, AutoStop, PeerGoneAfterStoring, DropClient, OwnStep, userVars
<1>4. CASE EngineReads
  BY <1>4
  DEF EngineReads, ReadStatus, ReadPartial, ReadReconcileWithoutTarget,
      ReadReview, ReadEditHistory, ReadError, userVars
<1>5. CASE EngineConnects
  BY <1>5
  DEF EngineConnects, Connect, SendHello, Greeted, HandshakeFails, userVars
<1>6. CASE UserActs
  BY <1>6
  DEF UserActs, KeyTrigger, KeyEscape, KeyEdits, CloseWindow, ConfirmReview,
      CancelReview, ConfirmHistoryEdit, CancelHistoryEdit, Answer, userVars
<1>7. CASE ProcessDies
  BY <1>7
  DEF ProcessDies, EngineExit, DaemonDiesBetweenHandlers, DaemonDiesDecoding,
      DaemonDiesAfterCreating, DaemonDiesAfterCommitting, DaemonDies, userVars
<1> QED BY <1>1, <1>2, <1>3, <1>4, <1>5, <1>6, <1>7 DEF Next

LEMMA TypedStep ==
    ASSUME TypeOK, TypedInv, LedgerMove, [Next]_vars
    PROVE  TypedInv'
<1>1. FinalsCommitted'
  BY FinalsStep DEF TypedInv
<1>2. typed \in SUBSET Take
  BY DEF TypeOK, UserTypeOK
<1>3. \A k \in typed : ledger'[k] = "committed"
  BY <1>2, CommittedStays DEF TypedInv, TypedIsRemembered, TypeOK
<1>4. CASE typed' = typed
  BY <1>1, <1>3, <1>4 DEF TypedInv, TypedIsRemembered
<1>5. CASE ReadReconcile
  <2> DEFINE m == Head(toEngine)
  <2>1. toEngine # <<>> /\ m.type = "Reconcile"
    BY <1>5 DEF ReadReconcile, Read
  <2>2. m = toEngine[1] /\ 1 \in DOMAIN toEngine /\ m \in ServerMessage
    BY <2>1, HeadTailProperties DEF TypeOK, LinkTypeOK
  <2>3. ledger[m.text.take] = "committed" /\ m.text.take \in Take
    BY <2>1, <2>2, ServerMessageFields, Texts DEF TypedInv, FinalsCommitted
  <2>4. typed' \subseteq typed \cup {m.text.take}
    BY <1>5 DEF ReadReconcile
  <2> QED
    BY <1>1, <1>3, <2>3, <2>4, CommittedStays DEF TypedInv, TypedIsRemembered, TypeOK
<1> QED BY <1>4, <1>5, TypedGrows

(* Whatever a direct take typed into an application, the store holds as    *)
(* committed, for good.                                                    *)
THEOREM TypedRemembered == Spec => []TypedIsRemembered
<1>1. Init => TypedInv
  BY DEF Init, TypedInv, FinalsCommitted, TypedIsRemembered
<1>2. TypeOK /\ StoreInv /\ TypedInv /\ [Next]_vars => TypedInv'
  BY StoreStep, TypedStep
<1>3. TypedInv => TypedIsRemembered
  BY DEF TypedInv
<1> QED BY <1>1, <1>2, <1>3, StoreCorrect, TypeCorrect, PTL DEF Spec

=============================================================================
