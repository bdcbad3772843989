------------------------------ MODULE Indexing ------------------------------
(***************************************************************************)
(* Blocks are indexed (HandlerContext) while the heights of the chain are  *)
(* polled and the headers of indexed blocks compared with its finalized    *)
(* head (UnfinalizedBlocks): the dispatchers, the workers and the loop of  *)
(* the fetch service together.                                             *)
(***************************************************************************)
EXTENDS HandlerContext, UnfinalizedBlocks

CONSTANT Workers    \* the threads that are workers

ASSUME IndexingAssumption == Workers \subseteq Threads

indexingVars == <<contextVars, unfinalizedVars>>

IndexingInit == ContextInit /\ UnfinalizedInit

(* Only a height the chain is known to have is enqueued.                   *)
IndexKnownBlock ==
    /\ height <= best
    /\ \E t \in Threads : IndexBlock(t)
    /\ UNCHANGED unfinalizedVars

(* A block that was indexed is reported before the next is begun.          *)
FinishIndexing ==
    /\ ProcessUnfinalizedBlock(IF thread \in Workers THEN WorkerHeader(height)
                                                     ELSE BlockToHeader(height))
    /\ FinishBlock

Poll ==
    /\ up
    /\ \E h \in 1..MaxHead : GetFinalizedHeight(h) \/ GetBestHeight(h)
    /\ UNCHANGED contextVars

IndexingNext ==
    \/ IndexKnownBlock
    \/ HandleBlock /\ UNCHANGED unfinalizedVars
    \/ FinishIndexing
    \/ Poll
    \/ Crash /\ UNCHANGED unfinalizedVars
    \/ Restart /\ \E h \in 1..MaxHead : UnfinalizedRestart(h)

IndexingSpec == IndexingInit /\ [][IndexingNext]_indexingVars

=============================================================================
