\* Three signers, two confirmations required, three blocks; the client
\* combines the latest value of each subscription.
CONSTANTS
    s1 = s1
    s2 = s2
    s3 = s3
    NoValue = NoValue
    Signers <- MCSigners
    SignsRequired = 2
    MaxBlocks = 3
SPECIFICATION Spec
INVARIANT DisplayedExecutionJustified
