SPECIFICATION Spec
INVARIANT TransmitterAssertion
CHECK_DEADLOCK FALSE
