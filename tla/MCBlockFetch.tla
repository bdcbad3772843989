---------------------------- MODULE MCBlockFetch ----------------------------
(* Batches of at most two heights, every kind of error the code knows.     *)
EXTENDS BlockFetch

MCBatches == {<<>>, <<7>>, <<7, 8>>, <<9, 4>>}

MCCounts == {0, 1}

Failure(status, body, data, rest) ==
    [status |-> status, body |-> body, data |-> data, rest |-> rest]

MCFailures ==
    { Failure("timeout", "junk", {}, {}), Failure("disconnected", "junk", {}, {}),
      Failure("429", "junk", {}, {}), Failure("403", "junk", {}, {}),
      Failure("200", "error", {"pruned"}, {}), Failure("200", "error", {"large"}, {}),
      Failure("200", "junk", {}, {}) }

=============================================================================
