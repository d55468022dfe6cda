SPECIFICATION Spec
CONSTANT Lines <- MCLines
INVARIANT HltIsSafe
