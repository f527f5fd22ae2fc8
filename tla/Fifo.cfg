SPECIFICATION Spec
CONSTANTS
    MaxPid = 1
    CPUs = {c1, c2}
    Nil = Nil
    AlgCorto = "FIFO"
    AlgLargo = "FIFO"
    Tam <- MCTam
    CapMem = 3
    MaxEst = 1
    EstInicial = 1
    ALFA = 1
    Rafagas = 1
    Motivos = {"EXIT", "IO", "DUMP"}
    Suspende = TRUE
    MaxInterr = 1
    Fallas = {}
INVARIANTS
    TypeOK UnSoloLugar FichasDeCpu EstadoSegunCola BloqueadoConMotivo
    UnaCpuPorProceso
PROPERTY CumpleCiclo
SYMMETRY SimetriaCpus
CHECK_DEADLOCK FALSE
