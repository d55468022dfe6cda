SPECIFICATION Spec
CONSTANT Lines <- MCLines
INVARIANT CurrentTaskRuns
