SPECIFICATION Spec
CONSTANTS
    Units = {1, 2, 3, 4}
    Fleets <- MCFleets
    Maps = {1}
    Teams = {1, 2}
    C3I_NETWORK_SIZE = 2
    C3_NETWORK_SIZE = 3
    MaxSteps = 5
INVARIANTS ArraysSound NetworksAgree
CHECK_DEADLOCK FALSE
