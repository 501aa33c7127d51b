--------------------------- MODULE MCBaremetalBoot --------------------------
EXTENDS BaremetalBoot
=============================================================================
