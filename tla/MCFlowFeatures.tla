--------------------------- MODULE MCFlowFeatures ---------------------------
(* A client port used for one connection, or for two to different servers, *)
(* below or above the servers' endpoints in the canonical order.           *)
EXTENDS FlowFeatures, TLC

LowPort == [c \in Conns |-> 1]
HighPort == [c \in Conns |-> 9]
TwoServers == [c \in Conns |-> IF c \in Ssh THEN 5 ELSE 6]
=============================================================================
