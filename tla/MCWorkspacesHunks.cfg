SPECIFICATION Spec
CONSTANTS
    Parts = {"hunks"}
    Commits = 3
    Upstream = 1
    PageSize = 2
    OtherBranches <- MCOtherBranches
    PlanActions = {"pick", "squash", "drop", "edit"}
    RebaseWork <- MCRebaseWork
    Files <- MCShiftedFiles
    Parent <- MCShiftedParent
    Context = 1
    Plain <- MCPlain
    MaxRows = 9
    HunkWork <- MCHunkWork
    Paths <- MCPaths
    MergeOf <- MCMergeOf
    BlobOf <- MCBlobOf
    Elsewhere <- MCElsewhere
    ConflictWork <- MCConflictWork
    HubBranches = {"b1", "b2"}
    HubWork <- MCHubWork
    Listing <- MCListing
    RemoteWork <- MCRemoteWork
    PluginOrder <- MCPluginOrder
    Supported = {"table", "metadata", "action"}
    Manifests <- MCManifests
    Replies <- MCReplies
    PluginWork <- MCPluginWork
    Commands <- MCCommands
    Words = {"a", "b"}
    Places <- MCPlaces
    CommandWork <- MCCommandWork
INVARIANTS UnselectedUntouched
CHECK_DEADLOCK FALSE
