SPECIFICATION Spec
INVARIANTS
    TypeOK
    IndexReachesEverything
    PublishedWholeUnlessBroken
    ArchiveIsWhole
PROPERTIES
    WholeBlobsStayWhole
    ExportEnds
CONSTANTS
    d1 = d1
    d2 = d2
    Torn = Torn
    Whole = Whole
    Nothing = Nothing
    MaxAttempts = 3
    Digest <- MCDigest
    Images <- MCImages
CHECK_DEADLOCK FALSE
