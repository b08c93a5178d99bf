CONSTANT Epochs <- MCEpochs
SPECIFICATION Spec
INVARIANTS TypeOK DateIsRight
\* the function returns
CHECK_DEADLOCK FALSE
