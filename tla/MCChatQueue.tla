---------------------------- MODULE MCChatQueue ----------------------------
\* Instances of ChatQueue for TLC.
EXTENDS ChatQueue, TLC

Symmetry == Permutations(Message \ Direct)
=============================================================================
