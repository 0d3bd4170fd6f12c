SPECIFICATION Spec
CONSTANTS
    None = None
    Others = {o1, o2}
INVARIANT
    ReadyOnce
