SPECIFICATION Spec
CONSTANT Requests <- MCRequests
INVARIANT ResponseExact
INVARIANT MatchesModel
PROPERTY ImplementsPipeline
