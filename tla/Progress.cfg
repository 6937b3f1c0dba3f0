SPECIFICATION Spec
CONSTANTS
    None = None
PROPERTIES
    ServicesAnswer
    WorkEnds
CHECK_DEADLOCK FALSE
