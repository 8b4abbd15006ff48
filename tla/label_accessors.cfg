\* The label accessors of labels.go return the groups their names promise.
CONSTANT Zero = Zero
SPECIFICATION Spec
INVARIANT AccessorsReturnTheirGroups
\* Each state is one finished call.
CHECK_DEADLOCK FALSE
