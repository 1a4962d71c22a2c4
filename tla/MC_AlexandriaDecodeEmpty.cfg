SPECIFICATION Spec
INVARIANT DecodeFailsCleanly
