SPECIFICATION FairSpec
CONSTANTS
    ZoneIds = {"GATE_A", "E_PIER", "ANNEX"}
    GateA = "GATE_A"
    EPier = "E_PIER"
    ZoneOrder <- Order
    Readings <- ReadingsOf
    Answers <- Lists
    Bottleneck <- MCBottleneck
    Emergency <- MCEmergency
INVARIANTS TypeOK LeadIsWorst
PROPERTIES SameZoneTwice ButtonSettles
CHECK_DEADLOCK FALSE
