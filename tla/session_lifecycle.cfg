CONSTANT Requests = {r1, r2}
SPECIFICATION FairSpec
INVARIANTS TypeOK Released OutcomeTruthful
PROPERTIES StopOrder SnapshotOfSetup SessionEnds
