----------------------------- MODULE MCGruposIO -----------------------------
\* Instances of GruposIO for TLC.
EXTENDS GruposIO, TLC

=============================================================================
