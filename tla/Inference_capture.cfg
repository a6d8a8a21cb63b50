SPECIFICATION CaptureSpec
CONSTANT FieldNames <- MCFieldNames
INVARIANT AcceptedRuns
CHECK_DEADLOCK FALSE
