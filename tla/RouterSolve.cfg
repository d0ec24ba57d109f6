SPECIFICATION FairSpec
CONSTANTS
    s1 = s1  s2 = s2  NoRoute = NoRoute
    Solves = {s1}
    Routes <- FourRoutes
    Kinds = {"cross_check", "accept_unverified"}
    MaxAttempts = 2  MaxUnanswered = 1  MaxVerification = 2
    MaxLedgerFailures = 1
INVARIANTS CorroboratedWhenRequired BudgetsHold ReasonFitsLog
PROPERTIES StopWithholdsAnswers SolvesEnd
