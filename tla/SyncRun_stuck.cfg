\* The close of a CLI run fails: no step is left that could end the run.
SPECIFICATION FairSpec
CONSTANTS
    Servers = {}
    Clis = {cli}
    NoInstance = NoInstance
    Sources = {s1}
    Runs = {r1}
    WriteResults = {"ok", "failed"}
PROPERTIES ClosesUnlessKilled
