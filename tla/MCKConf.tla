------------------------------ MODULE MCKConf ------------------------------
\* KConf and KAsk with the Config.in files of KExamples.
EXTENDS KAsk, KExamples
==============================================================================
