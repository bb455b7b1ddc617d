SPECIFICATION DeploymentSpec
CONSTANTS
    i1 = i1
    i2 = i2
    Instances <- MCInstances
    Drift <- OneAhead
    Profiles <- KindsOfProfile
    MaxNow = 1
    MaxRevalidations = 3
    a = a
    b = b
    c = c
    none = none
    Builds <- MCBuilds
    NoBuild = none
    First = a
    AssetsOf <- MCAssetsOf
    Others <- MCOthers
    Prefix <- MCPrefix
    Stacks <- MCStacks
    MaxDeployments = 2
    MaxRetries = 1
    MaxUpdates = 2
    MaxFailures = 1
    MaxExtra = 1
    FirstAsked <- MCAsked
    Natives <- MCNatives
    MaxSynths = 2
INVARIANTS TypesOK HeardIsKnown CurrentStands OldGo StageKept
INVARIANTS FilesWhereAsked RefusedForCause EdgeReaches PrerendersKept
    BuildAnswers DoneIsAsAsked WiredAsUsed EdgeRunsAll
PROPERTY KnownNeverMovesBack
CHECK_DEADLOCK FALSE
CONSTRAINTS OnceTogether StageOnce
