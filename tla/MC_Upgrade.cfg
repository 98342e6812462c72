\* Three versions, the running one in the middle, so that a release can be
\* older, equal or newer; two processes, the fewest that share the
\* temporary file.
CONSTANTS
    Versions = {1, 2, 3}
    Current = 2
    Procs = {p1, p2}
SPECIFICATION SpecUpgrade
INVARIANT InstalledBinaryRunnable
CHECK_DEADLOCK FALSE
