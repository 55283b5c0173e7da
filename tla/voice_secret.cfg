\* The keyboard's mic is used while a headless take ends.
CONSTANTS
    MaxTakes = 1
    MaxGestures = 2
SPECIFICATION Spec
INVARIANT
    HeadlessNotLearned
CHECK_DEADLOCK FALSE
