SPECIFICATION FairSpec
CONSTANTS
    Pids = {p1, p2}
    Instancias = {i1, i2}
    MaxPedidos = 2
    Nil = Nil
    Fallas = {"io"}
INVARIANTS
    TypeOK UnPedidoPorBloqueado SinInstanciaOciosa InstanciaSincronizada
PROPERTIES
    OrdenDeLlegada TodoPedidoTermina CumpleDispositivo
CHECK_DEADLOCK FALSE
