------------------------------ MODULE MCSiteFiles ------------------------------
EXTENDS SiteFiles, TLC

CONSTANTS c1, c2

MCCallers == {c1, c2}
MCAssets == {"site.css", "app.js"}
MCFiles == {"photo"}

\* The goroutines may be exchanged: nothing orders them.
Symmetric == Permutations(MCCallers)
================================================================================
