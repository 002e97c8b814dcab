----------------------------- MODULE MC_Session -----------------------------
(* Session instantiated for TLC: two info hashes, one torrent per chunk so  *)
(* that ~Session runs several chunks.                                       *)
EXTENDS Session

CONSTANTS h1, h2

MCHashes == {h1, h2}

\* Added either as a plain torrent or auto-managed and paused.
MCAddFlags == {[am |-> FALSE, paused |-> FALSE], [am |-> TRUE, paused |-> TRUE]}
=============================================================================
