--------------------------- MODULE MCArbExecutor ---------------------------
(* Instance of ArbExecutor for TLC. *)
EXTENDS ArbExecutor, TLC

CONSTANTS a, b, router, camelot, aave, vault, d

TwoTokens == {a, b}
TwoVenues == {router, camelot}

NoneOrBoth == {<<None, None>>, <<a, b>>, <<b, a>>}

(* The tokens are interchangeable. *)
TokenSymmetry == Permutations(TwoTokens)
=============================================================================
