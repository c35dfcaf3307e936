SPECIFICATION Spec
CONSTANT MaxAttempts = 1
PROPERTY FirstReadOpens
CHECK_DEADLOCK FALSE
