CONSTANTS
    Handlers <- ThreeHandlers
    Clients <- TwoClients
    Configs <- ThreeConfigs
    Entries <- ThreeEntries
    Scenarios <- MCScenarios
SPECIFICATION Spec
INVARIANTS
    ConfigKeptForBuild
    FollowerFollows
    IdentityHonoured
    AnsweredStaysKnown
