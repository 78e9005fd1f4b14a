CONSTANTS
    PowerPrompts = TRUE
    Socs = {90, 94, 99}
    QMax = 2
    Worlds = {{"button", "cable", "status", "soc", "region"},
              {"button", "cable", "region", "handset", "link"}}
SPECIFICATION Spec
INVARIANTS TypeOK IdleTimerRuns  ActiveHasTopology  NoLimboTimerWhileLit
 
