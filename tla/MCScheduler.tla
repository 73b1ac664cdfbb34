----------------------------- MODULE MCScheduler -----------------------------
EXTENDS Scheduler
CONSTANTS t1
OneTask == {t1}
NoDependencies == [t \in Tasks |-> {}]
OneRun == [t \in Tasks |-> "r"]
OneProject == [t \in Tasks |-> "p"]
AllResources == [t \in Tasks |-> Resources]
=============================================================================
