SPECIFICATION FairSpec
CONSTANTS
    Call = {c1, c2}
    Token = {secret, wrong}
    Secret = secret
    MaxTokens = 2
INVARIANTS
    TypeOK
    OnlyCheckedRequestsServed
    LoggedAsAnswered
    SuccessIsPaid
    FailsForCause
PROPERTIES
    HandlersReturn
CHECK_DEADLOCK FALSE
