SPECIFICATION Spec
CONSTANTS
    Id <- MCId
    Platform <- MCPlatform
    Current <- Linux
    Rank <- MCRank
    MetadataLists <- MCMetadataLists
    Arguments <- MCArguments
    CommandLines <- MCCommandLines
INVARIANTS
    PackageIsHighest
    ReverseFindsAll
PROPERTIES
    InstallCloses
    RemoveCloses
