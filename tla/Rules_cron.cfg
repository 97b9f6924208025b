SPECIFICATION CronSpec
CONSTANT None = None
INVARIANT CronDueIsQueued
CHECK_DEADLOCK FALSE
