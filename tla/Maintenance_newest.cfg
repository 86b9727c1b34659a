CONSTANTS
    Tasks <- TwoTasks
    Tags <- SomeTags
    Tuple <- ProfileOf
    Bases <- SomeBases
    Unscanned <- NoDash
    Versions <- SomeVersions
    NameRank <- TextRank
    Keep = 2
    Scenarios <- MCScenarios
SPECIFICATION Spec
PROPERTIES
    NewestKept
