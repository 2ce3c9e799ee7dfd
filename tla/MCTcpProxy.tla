----------------------------- MODULE MCTcpProxy -----------------------------
(* Two connections on the one listener.                                    *)
EXTENDS TcpProxy, TLC

CONSTANTS c1, c2

BothOnOne == (c1 :> 1 @@ c2 :> 1)
=============================================================================
