\* Process 1 of two: its application thread and message loop share the page
\* array; two pages, two write notice records.
CONSTANTS
    app = app
    loop = loop
    Callers = {app, loop}
    Ops <- HostOps
    Pages = {0, 1}
    NrProcs = 2
    Own = 1
    MaxRecords = 2
    Nil = Nil
SPECIFICATION Spec
INVARIANT TypeOK
\* A fatal error stops the process.
CHECK_DEADLOCK FALSE
