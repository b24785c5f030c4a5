SPECIFICATION Spec
CONSTANT
    Checks = {c1}
INVARIANT
    OkSaysReady
