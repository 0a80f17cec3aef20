---------------------------- MODULE MCDivisions ----------------------------
\* Divisions with pages of 32 bytes and words of 10 bits in the pool, and sizes of
\* 8 bits in the shared object.
EXTENDS Divisions

SomeSizes    == 1 .. 300
SomeShmSizes == 1 .. 48
=============================================================================
