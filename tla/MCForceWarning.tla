--------------------------- MODULE MCForceWarning ---------------------------
\* Loads: none; one that only the force makes too much; one that is too much
\* until the force relieves it.
EXTENDS ForceWarning
MCLoads == {0, 5, -8}
MCSlope == -1
=============================================================================
