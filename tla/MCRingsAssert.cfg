CONSTANTS
    Cap <- MCCap
    NumTicks <- MCNumTicks
SPECIFICATION Spec
INVARIANTS
    AssertedOrder
