SPECIFICATION FairSpec
CONSTANTS
    Apps = {a1}
    Managed = {a1}
    Requests = {r1}
    Worker = Worker
    RequestKinds <- MCScaleKinds
    ScaleEnvs <- MCDevOnly
    Instants <- MCInstants
    DEV_SCALE_DOWN_HOUR = 20
    DEV_SCALE_UP_HOUR = 8
    DEV_SCALE_WEEKDAYS_ONLY = TRUE
PROPERTIES NightStops DayResumes
