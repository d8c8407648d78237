----------------------------- MODULE MCLspSync -----------------------------
\* Instances of LspSync for TLC.
EXTENDS LspSync
=============================================================================
