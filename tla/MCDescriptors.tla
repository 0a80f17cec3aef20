--------------------------- MODULE MCDescriptors ---------------------------
\* Descriptors with file contexts that are all alike.
EXTENDS Descriptors, TLC

FilesAlike == Permutations(Files)
=============================================================================
