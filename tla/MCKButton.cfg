SPECIFICATION Spec
CONSTANT Keys <- MCKeys
INVARIANTS TypeOK NeverStuck
PROPERTIES PressIsSent MovesAsPromised
