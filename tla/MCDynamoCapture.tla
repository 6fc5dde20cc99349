--------------------------- MODULE MCDynamoCapture ---------------------------
(* Instances of DynamoCapture: a rank that is not the scan order. *)
EXTENDS DynamoCapture

MCRank == [p \in Positions |-> (2 * p) % 3]

=============================================================================
