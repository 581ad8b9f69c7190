CONSTANTS
    h1 = h1
    h2 = h2
    w1 = w1
    w2 = w2
    Hosts = {h1, h2}
    Settings <- MCSettings
    Writers = {w1, w2}
    None = None
SPECIFICATION Spec
INVARIANTS
    StaleOnlyIfForgotten
PROPERTIES
    OthersAlsoExit
    SettingsTakeEffect
