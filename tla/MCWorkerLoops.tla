--------------------------- MODULE MCWorkerLoops ---------------------------
(* Instances of WorkerLoops.                                               *)
EXTENDS WorkerLoops

(* Nothing happens but what an instance adds.                              *)
Quiet == [height |-> 1, requests |-> 2, imports |-> 0, batches |-> 0, txs |-> 0, nonces |-> 1,
          stops |-> FALSE, closes |-> FALSE]

(* Feedback: three requests of two batches, nothing sealed.                *)
(* Uncles: two blocks are mined while one is imported.                     *)
(* Forks: two blocks are imported beside the mined one.                    *)
(* Alternating tasks: an empty and a full block, sealed more than once.    *)
(* Restarts: starts and stops.  Shutdown: close at any time.               *)
MCBounds ==
    {[Quiet EXCEPT !.height = 0, !.requests = 3, !.batches = 2, !.txs = 1],
     [Quiet EXCEPT !.height = 2, !.requests = 4, !.imports = 1],
     [Quiet EXCEPT !.requests = 3, !.imports = 2],
     [Quiet EXCEPT !.batches = 1, !.txs = 1, !.nonces = 2],
     [Quiet EXCEPT !.requests = 4, !.stops = TRUE],
     [Quiet EXCEPT !.batches = 1, !.closes = TRUE]}

=============================================================================
