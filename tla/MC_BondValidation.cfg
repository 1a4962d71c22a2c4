CONSTANTS
    Distances = {0, 1}
SPECIFICATION Spec
INVARIANT NeverFatal
