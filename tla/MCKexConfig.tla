---------------------------- MODULE MCKexConfig ----------------------------
(* One program and the template; two tools.                                  *)
EXTENDS KexConfig, TLC

CONSTANTS app, tmpl, d1, d2, u1, u2

OneDword == <<"KEX_WinVerSpoof">>

AskedFor ==
  { [enabled |-> TRUE, launch |-> TRUE, data |-> d1],
    [enabled |-> FALSE, launch |-> FALSE, data |-> d2] }

Symmetric == Permutations({u1, u2})
=============================================================================
