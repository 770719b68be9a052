SPECIFICATION SpecFrom
CONSTANTS
    Device = {d1, d2}
    d1 = d1
    d2 = d2
    None = None
    AlwaysOutput = FALSE
    PromptStarts = TRUE
    MaxStarts = 2
    Window = {w1}
    w1 = w1
    Size = {small, large}
    small = small
    large = large
    Screen = {s1, s2}
    s1 = s1
    s2 = s2
    Source = {ac, battery}
    ac = ac
    battery = battery
    OneSpace = TRUE
    WindowsListed = TRUE
    MaxChanges = 2
    FirstDevice = d1
    FirstSize = small
    FirstScreen = s1
    FirstSource = ac
INVARIANTS
    DefaultsWatched
    DevicesReleased
    OneClipboardCallback
    ChangesTold
    StatusIsTracked
CHECK_DEADLOCK FALSE
