------------------------- MODULE UnfinalizedBlocks --------------------------
(***************************************************************************)
(* The headers by which the node would notice a fork: packages/node/src/   *)
(* indexer/unfinalizedBlocks.service.ts on the main thread, worker/        *)
(* worker.unfinalizedBlocks.service.ts in workers, and the heights that    *)
(* fetch.service.ts asks the chain for.  Cosmos finalizes at once and has  *)
(* no way to get a block by hash, so that headers are made from heights.   *)
(*                                                                         *)
(* The list of unfinalized headers, its storage and the comparison are     *)
(* those of BaseUnfinalizedBlocksService of @subql/node-core.              *)
(***************************************************************************)
EXTENDS Integers, TLC

CONSTANT MaxHead    \* bound on the height of the chain

VARIABLES
    best,           \* the height getBestHeight or getFinalizedHeight gave last
    finalized,      \* the finalized header registered last
    unfinalized,    \* headers of indexed blocks not known to be final
    forked          \* a fork was reported: blocks will be indexed again

unfinalizedVars == <<best, finalized, unfinalized, forked>>

(* Heights differ in decimal.                                              *)
ASSUME HashAssumption ==
    /\ MaxHead \in Nat
    /\ \A h, k \in -1..MaxHead : ToString(h) = ToString(k) => h = k

(* Faulty variant: the hash of the parent is that of the block.            *)
CosmosBlockToHeaderSame(h) ==
    [blockHeight |-> h, blockHash |-> ToString(h), parentHash |-> ToString(h)]

(* A hash is the height in decimal.                                        *)
CosmosBlockToHeader(h) ==
    [blockHeight |-> h, blockHash |-> ToString(h), parentHash |-> ToString(h - 1)]

(* parseInt(hash, 10)                                                      *)
ParseInt(hash) == CHOOSE h \in -1..MaxHead : ToString(h) = hash

GetHeaderForHash(hash) == CosmosBlockToHeader(ParseInt(hash))

(* getFinalizedHead, from what the endpoint of the moment reports: heights *)
(* of two endpoints differ.                                                *)
GetFinalizedHead(h) == CosmosBlockToHeader(h)

UnfinalizedInit ==
    /\ best \in 1..MaxHead /\ finalized = GetFinalizedHead(best)
    /\ unfinalized = {} /\ forked = FALSE

(* getFinalizedHeight; registerFinalizedBlock passes over a lower one.     *)
GetFinalizedHeight(h) ==
    /\ best' = h
    /\ finalized' = IF h > finalized.blockHeight THEN CosmosBlockToHeader(h) ELSE finalized
    /\ UNCHANGED <<unfinalized, forked>>

GetBestHeight(h) == best' = h /\ UNCHANGED <<finalized, unfinalized, forked>>

(* External, hasForked: the header reached from the finalized one, parent  *)
(* by parent, at the height of the closest record is another.              *)
Ancestor[n \in 0..finalized.blockHeight] ==
    IF n = 0 THEN finalized ELSE GetHeaderForHash(Ancestor[n - 1].parentHash)

HasForked(headers) ==
    LET known == {u \in headers : u.blockHeight <= finalized.blockHeight}
    IN  \E last \in known :
          /\ \A u \in known : u.blockHeight <= last.blockHeight
          /\ Ancestor[finalized.blockHeight - last.blockHeight] # last

(* The header of an indexed block, on the main thread (blockToHeader) and  *)
(* in a worker, which hands it to the host.                                *)
BlockToHeader(h) == CosmosBlockToHeader(h)
WorkerHeader(h) == CosmosBlockToHeader(h)

(* processUnfinalizedBlockHeader: the header is kept if it is above the    *)
(* finalized one, the list is compared and what is final leaves it.        *)
ProcessUnfinalizedBlock(header) ==
    LET kept == unfinalized \cup
                IF header.blockHeight > finalized.blockHeight THEN {header} ELSE {}
    IN  /\ forked' = (forked \/ HasForked(kept))
        /\ unfinalized' = {u \in kept : u.blockHeight > finalized.blockHeight}
        /\ UNCHANGED <<best, finalized>>

(* init after a restart: the head is asked for anew, the list is the       *)
(* stored one.                                                             *)
UnfinalizedRestart(h) ==
    /\ best' = h /\ finalized' = GetFinalizedHead(h)
    /\ UNCHANGED <<unfinalized, forked>>

(* No fork is ever reported, whichever thread made the headers and however *)
(* the heights of the endpoints differ: what is stored of a block is what  *)
(* the finalized head leads back to, so that nothing is indexed twice.     *)
NoForkReported == ~forked /\ ~HasForked(unfinalized)

=============================================================================
