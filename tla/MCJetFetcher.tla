---------------------------- MODULE MCJetFetcher ----------------------------
(* JetFetcher for TLC: the first routine asks for another jet than the rest.*)
EXTENDS JetFetcher

CONSTANTS r1, j1, j2

Targets == [r \in Routines |-> IF r = r1 THEN j1 ELSE j2]
=============================================================================
