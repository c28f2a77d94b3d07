SPECIFICATION FairSpec
CONSTANT Pulsers = {p1, p2, p3, p4, p5}
INVARIANTS PulseInv NoLostWakeup
PROPERTY ImplementsEvent
