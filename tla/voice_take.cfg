\* The keyboard and two headless takes.
CONSTANTS
    MaxTakes = 2
    MaxGestures = 2
SPECIFICATION Spec
INVARIANTS
    AnsweredOnce
    SecretsStayOut
    NothingLeftBehind
CHECK_DEADLOCK FALSE
