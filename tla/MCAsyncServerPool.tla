-------------------------- MODULE MCAsyncServerPool --------------------------
(* Two servers; a list names both, not in their order, or an id the pool   *)
(* does not have after one that it has.                                    *)
EXTENDS AsyncServerPool

MCRequests == {<<1, 0>>, <<1, 2>>}
=============================================================================
