SPECIFICATION Spec
CONSTANT Services = {a, b}
INVARIANT HsvStopped
