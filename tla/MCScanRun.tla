----------------------------- MODULE MCScanRun -----------------------------
(* A source that moves between three chains of up to three blocks. *)
EXTENDS ScanRun

TheChains == {<<1, 1, 1>>, <<1, 2>>, <<2, 2>>}
TheRequests == {"status", "address", "unspent"}
=============================================================================
