CONSTANTS
    Configs <- MCConfigs
    ModuleID <- MCModuleID
    Pages <- MCPages
    Words <- MCWords
    IOPorts = 2
    IOWidth = 34
    OffsetToModules = 64
    OffsetToPinDesc = 448
    RegStride0 = 1
    InstStride0 = 1
SPECIFICATION Spec
INVARIANTS
    OneAnswer
    AdvertisedReached
    DiscoveryMatches
