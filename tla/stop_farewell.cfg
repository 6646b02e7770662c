SPECIFICATION Spec
CONSTANTS
    Clients = {a, b}
    MaxFailures = 3
SYMMETRY ClientSymmetry
PROPERTY ClientsGetFarewell
CHECK_DEADLOCK FALSE
