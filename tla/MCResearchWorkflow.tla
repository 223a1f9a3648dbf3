------------------------- MODULE MCResearchWorkflow -------------------------
EXTENDS ResearchWorkflow

MCCalling == {"multi_retriever"}
=============================================================================
