--------------------------- MODULE MCLoadPredictor ---------------------------
(* Smoothing factors for LoadPredictor: the default 0.3 alone, or with 0.5. *)
EXTENDS LoadPredictor

MCAlphasDefault == {Frac(3, 10)}
MCAlphasTwo     == {Frac(3, 10), Frac(1, 2)}
=============================================================================
