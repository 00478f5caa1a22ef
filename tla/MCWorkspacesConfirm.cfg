SPECIFICATION Spec
CONSTANTS
    Parts = {"commands"}
    Commits = 3
    Upstream = 1
    PageSize = 2
    OtherBranches <- MCOtherBranches
    PlanActions = {"pick", "squash", "drop", "edit"}
    RebaseWork <- MCRebaseWork
    Files <- MCFiles
    Parent <- MCParent
    Context = 1
    Plain <- MCPlain
    MaxRows = 4
    HunkWork <- MCHunkWork
    Paths <- MCPaths
    MergeOf <- MCMergeOf
    BlobOf <- MCBlobOf
    Elsewhere <- MCElsewhere
    ConflictWork <- MCConflictWork
    HubBranches = {"b1", "b2"}
    HubWork <- MCHubWork
    Listing <- MCListing
    RemoteWork <- MCRemoteWork
    PluginOrder <- MCPluginOrder
    Supported = {"table", "metadata", "action"}
    Manifests <- MCManifests
    Replies <- MCReplies
    PluginWork <- MCPluginWork
    Commands <- MCCommands
    Words = {"a", "b"}
    Places <- MCPlaces
    CommandWork <- MCCommandWork
PROPERTIES ConfirmedEachTime
CHECK_DEADLOCK FALSE
