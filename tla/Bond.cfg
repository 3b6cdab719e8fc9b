\* Three links wanted, room for a fourth so that exceeding the number shows.
CONSTANTS
    BondLinks = 3
    MaxLinks = 4
SPECIFICATION Spec
INVARIANTS LinksBounded
PROPERTIES  ToppedUp
