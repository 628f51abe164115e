SPECIFICATION Spec
CONSTANTS
    Ui = "NBGL"
    h1 = h1  h2 = h2  hp = hp
    neo1 = neo1  gas1 = gas1  vote1 = vote1  retract1 = retract1  neoPlus1 = neoPlus1  other1 = other1
    HeadsSent = {h1}
    ScriptsSent = {gas1, neoPlus1}
    Heads = {h1}
    HighPriority = {}
    Scripts = {gas1, neoPlus1}
    KindOf <- MCKindOf
    Junk = Junk
    None = None
    MaxLen = 3
    HashReadings = {0, 2}
    Switched = {"scriptsAllowed"}
    Commands <- MixedCommands
VIEW MCView
INVARIANTS
    AskingIffAwaited ReviewIsLive ReviewIsOfThisUpload SettingsShownAreStored
PROPERTIES
    FirstSignsWhatWasShown
