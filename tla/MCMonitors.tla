------------------------------ MODULE MCMonitors ------------------------------
(* What watches the pipelines, for TLC: the sweep over artifacts, the reader  *)
(* of executions and the modules' health stamps.  They share nothing, so each *)
(* history looks at one of them; the others stay as they begin.               *)
EXTENDS MCArtifactFreshness, MCPipelineRead, MCHealthStamp

VARIABLE monitor    \* the part looked at

readSceneVars  == <<readVars, readScene>>
stampSceneVars == <<stampVars, cast>>

(* Where the parts not looked at rest.                                        *)
FreshnessRests == FreshInit /\ registry = <<Signals, Ranks, Weekly>>
ReaderRests    == ReadInit /\ readScene = "none"
StampsRest     == StampInit /\ cast = [runs |-> {}, what |-> "none"]

MonitorsInit ==
    \/ monitor = "freshness" /\ FreshInit /\ ReaderRests /\ StampsRest
    \/ monitor = "executions" /\ MCReadInit /\ FreshnessRests /\ StampsRest
    \/ monitor = "stamps" /\ MCStampInit /\ FreshnessRests /\ ReaderRests

MonitorsNext ==
    /\ UNCHANGED monitor
    /\ \/ monitor = "freshness" /\ FreshNext /\ UNCHANGED <<readSceneVars, stampSceneVars>>
       \/ monitor = "executions" /\ MCReadNext /\ UNCHANGED <<freshVars, stampSceneVars>>
       \/ monitor = "stamps" /\ MCStampNext /\ UNCHANGED <<freshVars, readSceneVars>>

MonitorsSpec ==
    MonitorsInit /\ [][MonitorsNext]_<<freshVars, readSceneVars, stampSceneVars, monitor>>
=============================================================================
