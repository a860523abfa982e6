---------------------------- MODULE MCLoadMetrics ----------------------------
EXTENDS LoadMetrics

\* A negative, an in-range and a too-large ratio.
MCRatioInputs == {Frac(-1, 2), Frac(1, 2), Frac(3, 2)}

=============================================================================
