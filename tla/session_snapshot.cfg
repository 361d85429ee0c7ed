CONSTANT Requests = {}
SPECIFICATION Spec
PROPERTY SnapshotOfStopped
