------------------------------ MODULE LocsLoader ------------------------------
(***************************************************************************)
(* btcbklocs and bce2 one after the other: the table that the loader works *)
(* on is the one that the tool has made, or one that somebody else has.    *)
(***************************************************************************)
EXTENDS Loader, BkLocs

\* An offset that the tool lets through is one.
ASSUME LocsLoaderAssumption == MaxOffset < OffWrap

pipevars == <<lvars, tvars>>

PipeInit == LoaderInit /\ ToolInit

\* The tool is used, if at all, before bce2 is started.
ToolStep == step = "init" /\ ToolNext /\ UNCHANGED lvars

\* How much there is of an entry that was cut does not matter.
Made == [bytes |-> 8 * Len(locs) + (IF cut THEN 1 ELSE 0), table |-> locs]
TakeMade ==
    /\ tool \in {"ok", "failed"}
    /\ TakeTable(Made) \/ RefuseTable(Made)
    /\ UNCHANGED tvars

LoaderStep ==
    /\ tool = "off" \/ step # "init" \/ OPTS.fromcin
    /\ LoaderNext
    /\ UNCHANGED tvars

PipeNext == ToolStep \/ TakeMade \/ LoaderStep
PipeSpec == PipeInit /\ [][PipeNext]_pipevars

\* No step waits for anybody, so that the tool ends, and then bce2.
FairPipe == PipeSpec /\ WF_pipevars(PipeNext)
-----------------------------------------------------------------------------
\* Where the records say that a block is, there is a block.
Stored(h) == /\ h \in DOMAIN Places
             /\ Names([fileno |-> Places[h].fileno, offset |-> Places[h].offset])

\* The n-th block that bce2 is given is the one whose hash is on line
\* -f + n of the file that the tool was given, and of that height, however
\* far the tool came, whatever was lost of what it wrote, and whatever records are cut off or say that there is
\* no block.
LoadedAsAsked ==
    (tool # "off" /\ ~OPTS.fromcin) =>
        \A i \in DOMAIN loaded :
            From + i <= Qty =>
               LET h == hashes[From + i].hash
               IN  h \in DOMAIN Places =>
                      /\ Stored(h) /\ loaded[i] = Body(Places[h])
                      /\ Places[h].height = From + i - 1
=============================================================================
