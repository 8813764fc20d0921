------------------------------ MODULE MCEvidence -------------------------------
\* Two pairs qualified on one machine, and a run of the first pair on another one.
EXTENDS Evidence

MCPairOf(r) == IF r = "second" THEN "android" ELSE "desktop"
MCRootOf(r) == IF r = "elsewhere" THEN "pc" ELSE "laptop"
================================================================================
