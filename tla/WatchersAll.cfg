SPECIFICATION FairFrom
CONSTANTS
    Device = {d1, d2}
    d1 = d1
    d2 = d2
    None = None
    AlwaysOutput = TRUE
    PromptStarts = TRUE
    MaxStarts = 2
    Window = {w1}
    w1 = w1
    Size = {small, large}
    small = small
    large = large
    Screen = {s1, s2}
    s1 = s1
    s2 = s2
    Source = {ac, battery}
    ac = ac
    battery = battery
    OneSpace = TRUE
    WindowsListed = FALSE
    MaxChanges = 3
    FirstDevice = d1
    FirstSize = small
    FirstScreen = s1
    FirstSource = ac
INVARIANTS
    NoDeviceLeft
    DefaultsWatched
    ChangesTold
    StatusNeverOverstates
PROPERTIES
    ClipboardEnds
    FramesPruned
CHECK_DEADLOCK FALSE
