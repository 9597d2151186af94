SPECIFICATION Spec
INVARIANT PublishedWhole
CONSTANTS
    d1 = d1
    d2 = d2
    Torn = Torn
    Whole = Whole
    Nothing = Nothing
    MaxAttempts = 3
    Digest <- MCDigest
    Images <- MCImages
CHECK_DEADLOCK FALSE
