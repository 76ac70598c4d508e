SPECIFICATION Spec
CONSTANT Keys <- MCKeys
PROPERTY StillUpNeverHappens
