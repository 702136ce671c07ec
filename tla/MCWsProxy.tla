----------------------------- MODULE MCWsProxy -----------------------------
(***************************************************************************)
(* Small instances of the proxy: headers of two bytes; a message longer    *)
(* than a header and one that is shorter.                                  *)
(***************************************************************************)
EXTENDS WsProxy

TwoMessages == {<<1, 2, 3, 4>>, <<5>>}
TwoAnswers  == {<<1>>, <<2, 3>>}
=============================================================================
