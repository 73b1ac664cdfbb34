SPECIFICATION MCSpec
CONSTANT NoRun = NoRun
PROPERTIES EveryTaskSettles CancellationCompletes
CHECK_DEADLOCK FALSE
