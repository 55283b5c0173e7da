\* Every sequence of verdicts, drains and decodings of a short take.
CONSTANTS
    MinSpeech = 2
    PreRoll = 1
    PostRoll = 2
    MaxUtterance = 4
    AutoStop = 3
    Codes = {asr, translation}
    NoCode = NoCode
    MaxFrames = 10
SPECIFICATION Spec
INVARIANTS
    FramesInOrder
    NothingSkipped
    UtteranceBounded
    PreviewSurvives
    FailureIsTold
PROPERTIES
    StopsInSilence
