SPECIFICATION Spec
CONSTANTS
    c1 = c1 c2 = c2 c3 = c3 p1 = p1 p2 = p2
    Largo = 4
    CPUs = {c1, c2, c3}
    Pids = {p1}
    MaxDesalojos = 1
    Nil = Nil
    Marcos = {m1, m2, m3, m4}
    Desplazamientos = {0, 1}
    Valores = {0, 1, 2, 3, 4, 5}
    NumPaginas <- MCNumPaginas
    Programas <- MCProgramas
    EntradasTlb <- MCEntradasTlb
    EntradasCache <- MCEntradasCache
    AlgTlb <- MCAlgTlb
    AlgCache <- MCAlgCache
INVARIANTS TypeOK Coherencia VueltaAMemoria ReanudaDondeCorresponde
SYMMETRY SimetriaMarcos
CHECK_DEADLOCK FALSE
