------------------------------ MODULE MCDriver ------------------------------
\* An instance of Driver: two handles of one database, both with an inline
\* profile, share a cache key; one has a structure of an earlier process, and
\* the profile file of the other cannot be removed.
EXTENDS Driver, TLC

CONSTANTS h1, h2, k1

OneKey == (h1 :> k1) @@ (h2 :> k1)
FirstKept == (h1 :> 1) @@ (h2 :> 0)
=============================================================================
