SPECIFICATION Spec
CONSTANTS
    Parts = {"recovery", "undo", "bisect", "branches", "stashes"}
    MaxGitSteps = 1
    MaxCommands = 1
    MaxTodo = 2
    Kinds = {"rebase", "cherry-pick", "revert", "merge"}
    Contents = {x, y}
    MaxCommits = 3
    MaxRuns = 2
    MaxOutside = 2
    Length = 3
    ChannelSize = 1
    BisectWork <- MCBisectWork
    Local <- MCLocal
    Remote <- MCRemote
    BranchWork <- MCBranchWork
    StashWork <- MCStashWork
INVARIANTS KindWasReal NamedIsDone
PROPERTIES ShownConverges OutputReadersEnd
CHECK_DEADLOCK FALSE
