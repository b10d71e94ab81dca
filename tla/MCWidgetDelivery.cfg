CONSTANTS
    HistoryLimit = 2
    MaxMessages = 3
    MaxLoads = 2
    MaxFaults = 2
CHECK_DEADLOCK FALSE
SPECIFICATION Spec
INVARIANTS TypeOK NotesStayInside RenderedOnce UpToDate
