------------------------ MODULE MCPersistenceEngine ------------------------
(* Small instances of PersistenceEngine for TLC.                            *)
EXTENDS PersistenceEngine
=============================================================================
