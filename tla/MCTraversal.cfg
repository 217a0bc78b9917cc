SPECIFICATION FairSpec
INVARIANTS TypeOK SuccessIsMutual EndsAfterSuccess
PROPERTY ProgramsSucceed
