--------------------------- MODULE MCGateExperiment ----------------------------
EXTENDS GateExperimentProps
=============================================================================
