SPECIFICATION Spec
CONSTANTS
    MaxPid = 1
    CPUs = {c1, c2}
    Nil = Nil
    AlgCorto = "SRT"
    AlgLargo = "PMCP"
    Tam <- MCTam
    CapMem = 3
    MaxEst = 2
    EstInicial = 2
    ALFA = 1
    Rafagas = 1
    Motivos = {"EXIT", "IO"}
    Suspende = FALSE
    MaxInterr = 1
    Fallas = {}
INVARIANT EstadoSegunCola
CHECK_DEADLOCK FALSE
