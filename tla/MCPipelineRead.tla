---------------------------- MODULE MCPipelineRead ----------------------------
(* Values for PipelineRead: a stage with a wait companion, a second stage and *)
(* a skip terminal, and the ways an execution goes through them.              *)
EXTENDS PipelineRead

MCSpine == {"Train", "Test"}
MCWait  == [WaitTrain |-> "Train"]
MCRegistry == {"Train", "Test", "Notify"}
Whole(s) == <<Entered(s), Exited(s)>>
MCServedBy == [m \in {} |-> {}]
Wait == Whole("WaitTrain")

MCScripts ==
    [good |-> [status |-> "SUCCEEDED", events |-> Whole("Train") \o Wait \o Whole("Test")],
     polled |-> [status |-> "SUCCEEDED", events |-> Whole("Train") \o Wait \o Wait \o Whole("Test")],
     dies |-> [status |-> "FAILED",
               events |-> <<Entered("Train"), Failed("Train", "e1"), RunFailed("e1")>>],
     waits |-> [status |-> "FAILED", events |-> Whole("Train") \o
                   <<Entered("WaitTrain"), Failed("WaitTrain", "e1"), RunFailed("e1")>>],
     late |-> [status |-> "FAILED", events |-> Whole("Train") \o Wait \o
                   <<Entered("Test"), Failed("Test", "e2"), RunFailed("e2")>>],
     caught |-> [status |-> "FAILED", events |-> <<Entered("Train"), Failed("Train", "e1"), Exited("Train"),
                    Entered("Test"), Failed("Test", "e2"), Exited("Test"), Passed("Fail"), RunFailed("e3")>>],
     branches |-> [status |-> "FAILED", events |-> <<Entered("Train"), Entered("Test"), Failed("Train", "e1"),
                      RunFailed("e1")>>],
     part |-> [status |-> "SUCCEEDED", events |-> Whole("Train")],
     skip |-> [status |-> "SUCCEEDED", events |-> <<Passed("Skip")>>]]

Short == {"good", "dies", "late"}

VARIABLE readScene      \* one history read closely, a walk over roles, or a window

MCReadInit == ReadInit /\ readScene \in {"history", "walk", "window"}

(* The executions of a scene, and what is asked in it.                       *)
Launchable(new) ==
    CASE readScene = "history" -> Len(runs) = 0 /\ new.role = "weekly" /\ new.day = 1 /\ new.stated = NoDay
      [] readScene = "walk" -> new.script = "dies" /\ new.day = 1 /\ new.stated = NoDay /\ new.role # "untagged"
      [] OTHER -> /\ Len(runs) < 3 /\ reader.pc = "idle"
                  /\ \A i \in DOMAIN runs : RunStatus(i) # "RUNNING"
                  /\ CASE new.role = "weekly" -> new.script \in Short /\ new.stated = NoDay
                       [] new.role = "untagged" -> new.script \in Short /\ new.stated = 1 /\ new.day = Latest
                       [] new.role = "exercise" -> new.script = "late" /\ new.stated = NoDay /\ new.day = Latest
                       [] OTHER -> FALSE

InScene ==
    /\ Len(runs') > Len(runs) => Launchable(runs'[Len(runs')])
    /\ readScene # "history" => \A i \in DOMAIN runs :
          runs'[i] # runs[i] => ~runs'[i].stopped /\ readScene = "window" /\ runs'[i].at = Len(Script(i).events)
    /\ reader'.ask \in (CASE readScene = "history" -> {"none", "state", "work"}
                          [] readScene = "walk" -> {"none", "state", "recent"}
                          [] OTHER -> {"none", "window"})
    /\ readScene = "history" => reader'.filter = {} /\ reader'.pc # "list"
    /\ readScene = "walk" /\ reader.pc = "idle" /\ reader'.pc = "list" => reader'.filter # {} \/ reader'.cap = 1
    /\ readScene = "window" => readBudget'.faults = readBudget.faults

MCReadNext == ReadNext /\ InScene /\ UNCHANGED readScene
MCReadSpec == MCReadInit /\ [][MCReadNext]_<<readVars, readScene>>
=============================================================================
