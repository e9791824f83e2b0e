-------------------------- MODULE MCBitcoinHandler --------------------------
(* Model-checking instance of BitcoinHandler: peers announce one start      *)
(* height within ten blocks of ours and one too far ahead.                  *)
EXTENDS BitcoinHandler

MCHeights == {5, 16}
=============================================================================
