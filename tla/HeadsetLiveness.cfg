CONSTANTS
    PowerPrompts = TRUE
    Socs = {94}
    QMax = 2
    Worlds = {{"button", "cable"}, {"button", "region"}, {"cable", "region"}}
SPECIFICATION Spec
PROPERTIES LimboEnds PowerOffCompletes 
