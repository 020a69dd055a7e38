------------------------- MODULE MCConnectorTransfer -------------------------
(* Constants for model checking ConnectorTransfer. *)
EXTENDS ConnectorTransfer

\* Each kind of source with a plain destination, each kind of destination with
\* a plain source.
EachKind == (SourceKinds \X {"bulk"}) \cup ({"keyset"} \X SinkKinds)

MostNegative == -4
\* Neighbours, a gap, and both ends of the IDs.
Few == SUBSET {-4, 1, 2, 3}
=============================================================================
