\* Two pages of one browser, two task identifiers, one edit and one failure:
\* tasks for the bag can run side by side, the edit can fall anywhere, and a
\* task can delete the bag that the other made.  No symmetry, because one of
\* the properties is a liveness property.
CONSTANTS
    Tab = {t1, t2}
    Task = {k1, k2}
    NoTask = none
    MaxEdits = 1
    MaxFailures = 1
SPECIFICATION FairSpec
INVARIANTS
    TypeOK
    CleanMeansCurrent
    ServedCurrent
    MissingOnlyByFailure
PROPERTIES
    DownloadEnds
