SPECIFICATION Spec
INVARIANT ResumeIsNotLost
CHECK_DEADLOCK FALSE
