------------------------------- MODULE Common -------------------------------
(* What the byte-level modules share.                                       *)

CONSTANT nullopt       \* std::nullopt

\* LET z == x IN F(z), with x computed once, also where TLC would not keep its value.
With(x, F(_)) == CHOOSE y \in {F(z) : z \in {x}} : TRUE

=============================================================================
