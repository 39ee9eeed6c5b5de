------------------------------ MODULE MCExperiment ------------------------------
\* Three runs: one that is abandoned, one that follows it, and one more.
EXTENDS Experiment
=============================================================================
