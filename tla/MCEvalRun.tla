----------------------------- MODULE MCEvalRun -----------------------------
\* The control and both kinds of treatment.
EXTENDS EvalRun

ControlAndTreatments == <<"off", "wiki", "wiki-nocapture">>
=============================================================================
