\* Every kind of getter, with texts in and out of bounds.
SPECIFICATION Spec
CONSTANT Texts <- MCTexts
INVARIANTS
    CoherentUnlessOverlap
    ArmedWithCurrentFrequency
PROPERTY
    ReturnsInBounds
