-------------------------- MODULE MCPubSubRecovery --------------------------
(* Model-checking instances of PubSubRecovery: a connection with a writer   *)
(* group and a reader group, and a data set writer.                         *)
EXTENDS PubSubRecovery, TLC

CONSTANTS conn, wg, rg, dsw

MCKind == (conn :> "connection") @@ (wg :> "writerGroup")
          @@ (rg :> "readerGroup") @@ (dsw :> "writer")
=============================================================================
