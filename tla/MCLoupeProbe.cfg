SPECIFICATION ProbeFairSpec
CONSTANT N = 4
INVARIANTS ProbeTypeOK ExitSound
PROPERTIES Refines CaptureAnswered
CHECK_DEADLOCK FALSE
