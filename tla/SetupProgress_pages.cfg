SPECIFICATION FairSpec
CONSTANTS
    Stages = 2
    Pages = {p1, p2}
    NoPage = NoPage
    MaxSays = 1
CHECK_DEADLOCK FALSE
INVARIANT AlertIsTrue
PROPERTIES LastWordStands ActivePageLearns
