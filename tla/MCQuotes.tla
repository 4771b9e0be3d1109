------------------------------- MODULE MCQuotes -------------------------------
(* One quote under handlers that overlap. *)
EXTENDS Quotes, TLC

MCSymmetry == Permutations(Handlers)

=============================================================================
