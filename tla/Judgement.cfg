SPECIFICATION VerdictSpec
CONSTANTS
    NoReview = NoReview
    ReviewSets <- MCReviewSets
    Facts <- MCFacts
    Reviews <- MCReviews
    Requests <- MCRequests
    Answers <- MCAnswers
    Programs <- MCPrograms
    FunctionFailure <- validate_function
    PythonGives <- PythonValue
    Claims <- MCClaims
    Fields <- MCFields
    Cases <- MCCases
    Unstructured = {4}
    Thresholds <- MCThresholds
    MaxAnswers = 2
    Horizon = 1
    MaxSteps = 40
    MaxDepth = 6
    MaxIterations = 3
    MaxList = 3
    MaxInt = 4
INVARIANTS JudgementTypeOK AcceptedPassedAll ClaimsWeighed CodeAgrees CountIsCorroboration
PROPERTY CountEnds
CHECK_DEADLOCK FALSE
