\* A server and a CLI over one database: the CLI reconciles the runs of the server
\* as it boots, and both may then execute a run.
SPECIFICATION Spec
CONSTANTS
    Servers = {srv}
    Clis = {cli}
    NoInstance = NoInstance
    Sources = {s1, s2}
    Runs = {r1, r2}
    WriteResults = {"ok", "failed"}
SYMMETRY Symmetry
INVARIANTS VerdictExact VerdictSound RunningHasExecutor
