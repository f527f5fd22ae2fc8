SPECIFICATION FairSpec
CONSTANTS
    MaxPid = 1
    CPUs = {c1}
    Nil = Nil
    AlgCorto = "SJF"
    AlgLargo = "FIFO"
    Tam <- MCTam
    CapMem = 2
    MaxEst = 1
    EstInicial = 1
    ALFA = 1
    Rafagas = 1
    Motivos = {"EXIT", "IO", "DUMP", "ERROR"}
    Suspende = TRUE
    MaxInterr = 1
    Fallas = {"dump_con"}
INVARIANTS DormidoSoloSinLugar FichasDeSalida
PROPERTY TodosTerminan
CHECK_DEADLOCK FALSE
