------------------------------ MODULE OneText -------------------------------
\* The text of a call, of which each of the modules that EXTEND this one models
\* what becomes of it: in chunks, through a detector, a validator, a masker.
VARIABLE text
=============================================================================
