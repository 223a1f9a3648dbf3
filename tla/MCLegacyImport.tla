--------------------------- MODULE MCLegacyImport ---------------------------
EXTENDS LegacyImport

CONSTANTS i1, i2, d1, d2
=============================================================================
