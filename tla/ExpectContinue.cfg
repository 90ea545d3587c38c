SPECIFICATION FairSpec
INVARIANTS FinalStopsBody SuccessIsFinal EndsQuiet
PROPERTY RequestEnds
