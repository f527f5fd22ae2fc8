SPECIFICATION Spec
CONSTANTS
    MaxPid = 2
    CPUs = {c1}
    Nil = Nil
    AlgCorto = "SJF"
    AlgLargo = "PMCP"
    Tam <- MCTam
    CapMem = 2
    MaxEst = 1
    EstInicial = 1
    ALFA = 0
    Rafagas = 1
    Motivos = {"EXIT", "IO"}
    Suspende = TRUE
    MaxInterr = 1
    Fallas = {"io"}
INVARIANTS
    CandidatoEnCabeza EstadoSegunCola
PROPERTIES ExitEsFinal SoloBloqueadoSeSuspende CumpleDispositivo
CHECK_DEADLOCK FALSE
