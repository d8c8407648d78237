---------------------------- MODULE MCSaveCommit ----------------------------
\* Instances of SaveCommit for TLC.
EXTENDS SaveCommit

\* Formatting turns y into x and leaves the other texts alone.
MCFmt == [t \in Text |-> IF t = "y" THEN "x" ELSE t]
=============================================================================
