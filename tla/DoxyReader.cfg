CONSTANT Documents <- MCDocuments
SPECIFICATION Spec
INVARIANTS TypeOK ProseKept SurvivesExport LiteralIsWhole
CHECK_DEADLOCK FALSE
