SPECIFICATION Spec
CONSTANTS
    MaxPid = 1
    CPUs = {c1}
    Nil = Nil
    AlgCorto = "SJF"
    AlgLargo = "PMCP"
    Tam <- MCTam
    CapMem = 2
    MaxEst = 1
    EstInicial = 1
    ALFA = 1
    Rafagas = 1
    Motivos = {"EXIT", "IO"}
    Suspende = TRUE
    MaxInterr = 1
    Fallas = {}
INVARIANT ListoEnMemoria
CHECK_DEADLOCK FALSE
