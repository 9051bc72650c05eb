----------------------------- MODULE MC_Serving -----------------------------
\* Two requests for one worker and one model, one thread more than models.
EXTENDS Serving
=============================================================================
