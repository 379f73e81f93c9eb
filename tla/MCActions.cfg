SPECIFICATION Spec
CONSTANTS Clocks <- Clocks3
INVARIANTS OutputTypeSound KnownPanics ActionLaws
