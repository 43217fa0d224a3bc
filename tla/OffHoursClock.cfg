SPECIFICATION ClockSpec
INVARIANT StoppedIsCyclicWindow
