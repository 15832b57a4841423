SPECIFICATION Spec
CONSTANTS
    Paths <- MCPaths
    Ops = {"upload", "delete", "delete_all", "list"}
    Tasks = {t1, t2}
SYMMETRY Symmetry
INVARIANTS DeletesWhatItNames ListIsComplete
