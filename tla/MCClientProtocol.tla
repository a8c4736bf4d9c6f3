-------------------------- MODULE MCClientProtocol --------------------------
(* ClientProtocol for TLC. *)
EXTENDS ClientProtocol, TLC

Does(out, trans) == [out |-> out, trans |-> trans]

(* Single statements, and multi-statements that open a transaction before  *)
(* a result, that end with an OK, with a second result and with an error,  *)
(* and whose OK is not the last.                                           *)
QueriesMade ==
    { <<Does("ok", "begin")>>, <<Does("ok", "end")>>, <<Does("rows", "keep")>>,
      <<Does("broken_rows", "keep")>>,
      <<Does("ok", "begin"), Does("empty", "keep")>>,
      <<Does("rows", "keep"), Does("ok", "keep"), Does("empty", "keep")>>,
      <<Does("empty", "keep"), Does("rows", "begin"), Does("error", "keep")>> }

Symmetric == Permutations(Results)
=============================================================================
