---------------------------- MODULE MCCritConfig ----------------------------
EXTENDS CritConfig, TLC

\* Generated tokens are random and nothing is ordered by them.
TokenSymmetry == Permutations(Token \ UserToken)
=============================================================================
