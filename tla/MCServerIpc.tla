---------------------------- MODULE MCServerIpc -----------------------------
(* An instance of ServerIpc for TLC.                                       *)
EXTENDS ServerIpc

CONSTANT a1

OneIP == {a1}
Hours == {-1, 0, 1}
=============================================================================
