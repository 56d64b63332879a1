SPECIFICATION Spec
CONSTANTS
    Base = 2
    Keys <- ThreeKeys
    Values = {"v", "w"}
    Big = {"w"}
    cachelimit = 0
    MaxCommits = 2
INVARIANT SubtreesAreOlder
INVARIANT GetReturnsLast
INVARIANT RootIsCanonical
