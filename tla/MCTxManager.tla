---------------------------- MODULE MCTxManager ----------------------------
EXTENDS TxManager

Calm == [limit |-> 2, floor |-> 1, going |-> 1, bad |-> {}, kinds |-> {}]

\* one fault of any kind beside a reorganisation, without dearer attempts; a reorganisation
\* with them; faults without one, with them; a node that wants more than the estimate and rejects
MCWorlds ==
  { [Calm EXCEPT !.limit = 1, !.kinds = {"unknown", "stop", "evict", "stale", "noreceipt", "reorg"}],
    [Calm EXCEPT !.kinds = {"stale", "reorg"}],
    [Calm EXCEPT !.going = 2, !.kinds = {"unknown", "stop", "evict", "noreceipt", "insufficient", "checker"}],
    [Calm EXCEPT !.limit = 3, !.floor = 2, !.going = 2, !.bad = {1}, !.kinds = {"unknown", "stop"}] }

MCBroke == {[Calm EXCEPT !.kinds = {"insufficient", "evict", "reorg"}]}
=============================================================================
