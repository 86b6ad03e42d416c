------------------------------ MODULE MCBundle ------------------------------
(* Bundle with the lengths of the program's own file names.                *)
EXTENDS Bundle

\* correlated-report.txt, correlated-report.json, resource-lifetimes.md,
\* run-model.json
Names == <<21, 22, 21, 14>>

\* A short directory, and those around which one name after the other fits.
Directories == {10, 4073, 4074, 4075, 4081, 4082}
=============================================================================
