-------------------------- MODULE MCAccountMirror --------------------------
(* A user with two bank accounts; the bank may list both, one of them,     *)
(* or none.                                                                *)
EXTENDS AccountMirror

CONSTANTS main, extra

MCAnswers == {<< >>, <<main>>, <<extra>>, <<extra, main>>}
=============================================================================
