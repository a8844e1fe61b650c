\* Two threads, two users, two additions and one crash.
CONSTANTS
    t1 = t1
    t2 = t2
    Thread = {t1, t2}
    User = {"u", "v"}
    Password = {"p", "q"}
    Home = {"", "d:/a", "d", "/a"}
    Fields <- HomeFields
    Path = {"/a/x", "/b"}
    Covers <- TwoPaths
    Infos <- TwoInfos
    Calls <- TwoCalls
    NoUser = NoUser
    Nobody = Nobody
    MaxAdds = 2
    MaxCrashes = 1
SPECIFICATION FairSpec
INVARIANTS AnswersRight FileIsCurrent 
PROPERTY CallsAnswer
CHECK_DEADLOCK FALSE
