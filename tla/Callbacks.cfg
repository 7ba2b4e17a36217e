SPECIFICATION CallbacksSpec
CONSTANTS
    Values = {closure, value}
    Callables = {closure}
    Futures = {f1, f2}
    Posted = {p1}
    Wrappers = {w1}
    None = None
    MaxHeld = 2
INVARIANTS
    ValuesAlive
    RefcountAccounted
CHECK_DEADLOCK FALSE
