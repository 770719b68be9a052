SPECIFICATION Spec
CONSTANTS
    Screen = {s1, s2}
    s1 = s1
    s2 = s2
    None = None
    ScreenFrame <- TwoFrames
    CenterWidth = 60
    CenterHeight = 50
INVARIANTS
    AnswersFit
    EventsFitTypes
    RefusedDoesNothing
    MovedOnScreen
