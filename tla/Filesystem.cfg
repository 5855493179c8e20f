CONSTANTS
    Name = {"a", "b"}
    MaxDepth = 2
    MaxQuery = 3
    MaxLinks = 2
    NotFound = NotFound
    TooManyLinks = TooManyLinks
SPECIFICATION Spec
INVARIANTS
    ReadsWhatWasResolved
    WritesWhatWasResolved
    ResolutionIdempotent
