---------------------------- MODULE MCKSession ----------------------------
\* KSession with the Config.in files of KExamples.
EXTENDS KSession, KExamples
==============================================================================
