SPECIFICATION ExecSpec
CONSTANTS
    None = None
    Programs <- Methods
    PhiMethods <- WithPhis
    StrayReturns <- OpenReturns
    MaxStructuredPhis = 256
    MaxStructuredBlocks = 10
INVARIANTS ProgramSimulatesMethod LabelsResolve StructureReturns
PROPERTY ProgramAnswers
