\* One program with an asset, of two versions, and one configuration file.
SPECIFICATION SetupSpec
CONSTANTS
    Configs <- MCConfigs
    Ships <- Items
    Versions = {1, 2}
    Torn = Torn
    Shipped = Shipped
    Jobs <- MCJobs
    NoJob = NoJob
INVARIANT SetupTypeOK WhereItIs SuccessIsClean
PROPERTY ImplementsInstaller
