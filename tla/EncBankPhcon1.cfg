SPECIFICATION Spec
INVARIANT Phcon1Configured
