--------------------------- MODULE MCClientStages ---------------------------
(***************************************************************************)
(* Ranks of the clients: one namespace, or one namespace for each client   *)
(* (option --ns-dist 1:1 of pmix_test).                                    *)
(***************************************************************************)
EXTENDS ClientStages

OneNamespace == [c \in Client |-> c - 1]
TwoNamespaces == [c \in Client |-> 0]
=============================================================================
