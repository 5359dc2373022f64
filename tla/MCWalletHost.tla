---------------------------- MODULE MCWalletHost ----------------------------
(* Small instances of WalletHost. *)
EXTENDS WalletHost

CONSTANTS p1, p2

request(p, kind, size, signal) ==
    [port |-> p, kind |-> kind, size |-> size, signal |-> signal]

\* Abortable writes and plain reads of different sizes, and a close, on each port.
WorkRequests ==
    UNION {{request(p, "write", 1, TRUE), request(p, "read", 2, FALSE),
            request(p, "close", 0, FALSE)} : p \in Port}

\* The requests of the liveness run: work, an abortable write and a close, or
\* signers issued on one port and released over the other beside a full queue.
LiveRequests ==
    {request(p1, "write", 1, TRUE), request(p1, "read", 1, FALSE),
     request(p2, "read", 2, FALSE), request(p1, "close", 0, FALSE),
     request(p1, "issue", 1, FALSE), request(p2, "release", 1, FALSE),
     request(p2, "read", 1, FALSE)}

Symmetry == Permutations(Call) \cup Permutations(Port)

\* Liveness needs no symmetric choice of who makes which request.
CONSTANTS c1, c2, c3, c4
Work ==
    /\ req[c1] = request(p1, "write", 1, TRUE)
    /\ req[c2] = request(p1, "read", 1, FALSE)
    /\ req[c3] = request(p2, "read", 2, FALSE)
    /\ req[c4] = request(p1, "close", 0, FALSE)
Signers ==
    /\ req[c1] = request(p1, "issue", 1, FALSE)
    /\ req[c2] = request(p2, "release", 1, FALSE)
    /\ req[c3] = request(p1, "read", 1, FALSE)
    /\ req[c4] = request(p2, "read", 1, FALSE)
LiveInit == Init /\ (Work \/ Signers)
LiveSpec == LiveInit /\ [][Next]_vars /\ Fairness
=============================================================================
