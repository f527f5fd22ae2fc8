SPECIFICATION Spec
CONSTANTS
    p1 = p1 p2 = p2
    Pids <- MCPids
    NumPaginas <- MCNumPaginas
    NumMarcos = 2
    Entradas = 2
    Niveles = 2
    Datos = {0, 1}
    Cero = 0
    Nil = Nil
    BitsPorByte = 2
    MaxEscrituras = 1
    MaxFallos = 0
    MaxVigilias = 1
    LecturaFalla = FALSE
    SwapSeTrunca = FALSE
    Solapa = FALSE
INVARIANT DumpFiel
CHECK_DEADLOCK FALSE
