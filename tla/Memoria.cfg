SPECIFICATION Spec
CONSTANTS
    p1 = p1 p2 = p2
    Pids <- MCPids
    NumPaginas <- MCNumPaginas
    NumMarcos = 2
    Entradas = 2
    Niveles = 2
    Datos = {0, 1}
    Cero = 0
    Nil = Nil
    BitsPorByte = 2
    MaxEscrituras = 1
    MaxFallos = 1
    MaxVigilias = 1
    LecturaFalla = FALSE
    SwapSeTrunca = FALSE
    Solapa = FALSE
INVARIANTS TypeOK MarcosPropios SlotsPropios ListoCompleto AltaConLugar
PROPERTY CumpleAlmacen
CHECK_DEADLOCK FALSE
