SPECIFICATION Spec
CONSTANTS
    MaxPid = 1
    CPUs = {c1, c2}
    Nil = Nil
    AlgCorto = "SRT"
    AlgLargo = "FIFO"
    Tam <- MCTam
    CapMem = 3
    MaxEst = 2
    EstInicial = 2
    ALFA = 1
    Rafagas = 1
    Motivos = {"EXIT", "DUMP"}
    Suspende = FALSE
    MaxInterr = 1
    Fallas = {"cpu", "dump", "mem"}
INVARIANTS
    UnSoloLugar FichasDeListos FichasDeSalida CpuSincronizada
SYMMETRY SimetriaCpus
CHECK_DEADLOCK FALSE
