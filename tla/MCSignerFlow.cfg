SPECIFICATION Spec
CONSTANTS
    MaxSigners = 2
    MaxContracts = 2
    MaxGroups = 2
VIEW MCView
INVARIANTS
    TypeOK EverythingShownBeforeApproval
PROPERTIES
    BrowsesInOrder
