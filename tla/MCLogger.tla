------------------------------ MODULE MCLogger ------------------------------
(* Model-checking instance of Logger: a store of three bytes and records    *)
(* that are smaller, as large, and larger.                                  *)
EXTENDS Logger

MCLens == {1, 2, 3, 4}
MCTwoLens == {2, 4}

=============================================================================
