----------------------------- MODULE MCFrontier -----------------------------
\* Frontier for TLC: a chain a <- b <- c, created in any order.
EXTENDS Frontier, TLC

CONSTANTS a, b, c

MCDeps == (a :> {}) @@ (b :> {a}) @@ (c :> {b})
=============================================================================
