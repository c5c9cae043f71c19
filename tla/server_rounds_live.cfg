SPECIFICATION FairSpec
CONSTANTS
    Esp = {e1}
    Stranger = {}
    MaxReports = 3
    Faults = {"break"}
PROPERTIES RoundOrStall EveryReportEnds
