SPECIFICATION FairSpec
CONSTANT Lines <- MCLines
INVARIANTS ITypeOK HandlersRunAlone NoLineLeftInService KeyNotStranded
PROPERTIES MainKeepsPolling EveryKeyRead
