---------------------------- MODULE MC_LongText ----------------------------
EXTENDS LongText, LongTexts
=============================================================================
