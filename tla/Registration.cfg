CONSTANTS
    h1 = h1
    h2 = h2
    Hosts = {h1, h2}
    Taken <- MCTaken
    MaxId = 5
    MAX_FAILS1 = 2
    MAX_FAILS2 = 4
    MaxDisturbances = 2
    None = None
SPECIFICATION RegistrationSpec
INVARIANTS
    ShownAsItIs
PROPERTIES
    Registers
