\* One caller is enough: a stale entry and a resolver that hangs.
CONSTANTS
    Callers = {t1}
    Domains = {d1}
    MaxEntries = 1
    MaxAddrs = 1
SPECIFICATION Spec
INVARIANT StaleIsUsable
