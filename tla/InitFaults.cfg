SPECIFICATION FairSpec
CONSTANT Allowed = {"initfail", "acceptfail", "giveup", "mismatch", "sendfail", "recvfail", "timeout", "loss", "threadfail", "crash"}
INVARIANTS TypeOK RanksAgree
PROPERTIES SurvivorDecides BothReady
CHECK_DEADLOCK FALSE
