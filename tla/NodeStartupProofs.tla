-------------------------- MODULE NodeStartupProofs ---------------------------
(***************************************************************************)
(* The node's network opens last, and no other command opens it.  The      *)
(* invariant behind it says, for each stage, exactly what has been spawned.*)
(***************************************************************************)
EXTENDS NodeStartup, TLAPS

Base == PartialTasks \cup ImportQueueTasks
Networked == Base \cup {"relayNode", "networkWorker"}
Serving == Networked \cup Maybe(settings.offchain, "offchainWorkers") \cup {"rpc"}
Measured == Serving \cup Maybe(settings.benchmark /\ settings.telemetry, "telemetryHwbench")

\* What was spawned on the way to a stage.
Spawned(s) ==
    CASE s \in {"runner", "paraId", "relayConfig", "partial"} -> {}
      [] s = "operation" -> IF command \in {"asyncOp", "syncOp"} THEN Base ELSE {}
      [] s = "relayInterface" -> Base
      [] s = "network" -> Base \cup {"relayNode"}
      [] s = "offchain" -> Networked
      [] s = "spawnTasks" -> Networked \cup Maybe(settings.offchain, "offchainWorkers")
      [] s = "hardware" -> Serving
      [] s \in {"overseer", "relayTasks"} -> Measured
      [] s = "consensus" -> Measured \cup {"relayFollower"}
      [] s \in {"startNetwork", "up"} -> NodeTasks
      [] OTHER -> {}

NodeStages == {"relayInterface", "network", "offchain", "spawnTasks", "hardware", "overseer",
               "relayTasks", "consensus", "startNetwork", "up"}

Progress ==
    /\ command \in Commands /\ settings \in Settings
    /\ stage \in Stages \cup Ends
    /\ lost \subseteq NodeTasks
    /\ stage \notin {"done", "failed", "down"} => tasks \cup lost = Spawned(stage)
    /\ stage \in {"done", "failed", "down"} => tasks = {}
    /\ tasks \cap lost = {}
    /\ online = (stage = "up")
    /\ signalled \in BOOLEAN
    /\ stage \in NodeStages => command = "node"
    /\ stage = "partial" => command \in {"node", "asyncOp", "syncOp"}
    /\ stage \in {"paraId", "relayConfig"} => command \in {"node", "purge"}
    /\ stage = "operation" => command # "node"

----------------------------------------------------------------------------

LEMMA SpawnedAreNodeTasks == \A s : Spawned(s) \subseteq NodeTasks
BY DEF Spawned, Base, Networked, Serving, Measured, NodeTasks, PartialTasks,
   ImportQueueTasks, Maybe

\* A step leads to a stage if it spawns what that stage adds, and nothing twice.
LEMMA StepsKeepProgress ==
  ASSUME Progress, NEW here \in Stages, NEW new, NEW next \in Stages,
         Step(here, new, next),
         new \cap Spawned(here) = {}, Spawned(next) = Spawned(here) \cup new,
         next \in NodeStages => command = "node",
         next = "partial" => command \in {"node", "asyncOp", "syncOp"},
         next \in {"paraId", "relayConfig"} => command \in {"node", "purge"},
         next = "operation" => command # "node"
  PROVE  Progress'
<1>1. stage = here /\ stage' = next /\ tasks' = tasks \cup new
      /\ UNCHANGED <<command, settings, lost, online, signalled>>
  BY DEF Step
<1>2. "up" \notin Stages /\ Stages \cap {"done", "failed", "down"} = {}
  BY DEF Stages
<1>3. Spawned(next)' = Spawned(next) /\ NodeTasks' = NodeTasks
  BY <1>1 DEF Spawned, Base, Networked, Serving, Measured, NodeTasks, PartialTasks, Maybe
<1>4. tasks \cup lost = Spawned(here)
  BY <1>1, <1>2 DEF Progress
<1>5. tasks' \cup lost' = Spawned(next) /\ tasks' \cap lost' = {}
  BY <1>1, <1>4 DEF Progress
<1>6. (stage \notin {"done", "failed", "down"} => tasks \cup lost = Spawned(stage))'
  BY <1>1, <1>3, <1>5
<1> QED
  BY <1>1, <1>2, <1>3, <1>5, <1>6 DEF Progress

LEMMA ProgressInitially == Init => Progress
<1> SUFFICES ASSUME Init PROVE Progress
  OBVIOUS
<1>1. Spawned(stage) = {}
  BY DEF Init, Spawned
<1> QED
  BY <1>1 DEF Init, Progress, Stages, NodeStages

LEMMA ProgressKept == ASSUME Progress, [Next]_vars PROVE Progress'
<1> USE DEF Stages, NodeStages
<1>1. CASE CreateRunner
  <2>1. Spawned("runner") = {} /\ Spawned("paraId") = {} /\ Spawned("relayConfig") = {}
        /\ Spawned("partial") = {} /\ (command = "spec" => Spawned("operation") = {})
    BY DEF Spawned
  <2> QED
    BY <1>1, <2>1, StepsKeepProgress DEF CreateRunner
<1>2. CASE ReadParaId
  <2>1. Spawned("paraId") = {} /\ Spawned("relayConfig") = {} /\ command \in {"node", "purge"}
    BY <1>2 DEF Spawned, ReadParaId, Step, Progress
  <2> QED
    BY <1>2, <2>1, StepsKeepProgress DEF ReadParaId
<1>3. CASE ConfigureRelay
  <2>1. Spawned("relayConfig") = {} /\ Spawned("partial") = {}
        /\ (command = "purge" => Spawned("operation") = {}) /\ command \in {"node", "purge"}
    BY <1>3 DEF Spawned, ConfigureRelay, Step, Progress
  <2>2. CASE command = "purge"
    BY <1>3, <2>1, <2>2, StepsKeepProgress DEF ConfigureRelay
  <2>3. CASE command # "purge"
    BY <1>3, <2>1, <2>3, StepsKeepProgress DEF ConfigureRelay
  <2> QED
    BY <2>2, <2>3
<1>4. CASE NewPartial
  <2>1. Spawned("partial") = {} /\ Spawned("relayInterface") = Base
        /\ command \in {"node", "asyncOp", "syncOp"}
        /\ (command # "node" => Spawned("operation") = Base)
    BY <1>4 DEF Spawned, NewPartial, Step, Progress
  <2>2. CASE command = "node"
    BY <1>4, <2>1, <2>2, StepsKeepProgress DEF NewPartial, Base
  <2>3. CASE command # "node"
    BY <1>4, <2>1, <2>3, StepsKeepProgress DEF NewPartial, Base
  <2> QED
    BY <2>2, <2>3
<1>5. CASE BuildRelayInterface
  <2>1. Spawned("relayInterface") \cap {"relayNode"} = {}
        /\ Spawned("network") = Spawned("relayInterface") \cup {"relayNode"}
    BY DEF Spawned, Base, PartialTasks, ImportQueueTasks, Maybe
  <2> QED
    BY <1>5, <2>1, StepsKeepProgress DEF BuildRelayInterface, Step, Progress
<1>6. CASE BuildNetwork
  <2>1. Spawned("network") \cap {"networkWorker"} = {}
        /\ Spawned("offchain") = Spawned("network") \cup {"networkWorker"}
    BY DEF Spawned, Networked, Base, PartialTasks, ImportQueueTasks, Maybe
  <2> QED
    BY <1>6, <2>1, StepsKeepProgress DEF BuildNetwork, Step, Progress
<1>7. CASE StartOffchainWorkers
  <2> DEFINE new == Maybe(settings.offchain, "offchainWorkers")
  <2>1. Spawned("offchain") \cap new = {} /\ Spawned("spawnTasks") = Spawned("offchain") \cup new
    BY DEF Spawned, Networked, Base, PartialTasks, ImportQueueTasks, Maybe
  <2> QED
    BY <1>7, <2>1, StepsKeepProgress DEF StartOffchainWorkers, Step, Progress
<1>8. CASE SpawnTasks
  <2>1. Spawned("spawnTasks") \cap {"rpc"} = {}
        /\ Spawned("hardware") = Spawned("spawnTasks") \cup {"rpc"}
    BY DEF Spawned, Serving, Networked, Base, PartialTasks, ImportQueueTasks, Maybe
  <2> QED
    BY <1>8, <2>1, StepsKeepProgress DEF SpawnTasks, Step, Progress
<1>9. CASE ReportHardware
  <2> DEFINE new == Maybe(settings.benchmark /\ settings.telemetry, "telemetryHwbench")
  <2>1. Spawned("hardware") \cap new = {} /\ Spawned("overseer") = Spawned("hardware") \cup new
    BY DEF Spawned, Measured, Serving, Networked, Base, PartialTasks, ImportQueueTasks, Maybe
  <2> QED
    BY <1>9, <2>1, StepsKeepProgress DEF ReportHardware, Step, Progress
<1>10. CASE TakeOverseer
  <2>1. Spawned("relayTasks") = Spawned("overseer") \cup {}
    BY DEF Spawned
  <2> QED
    BY <1>10, <2>1, StepsKeepProgress DEF TakeOverseer, Step, Progress
<1>11. CASE StartRelayTasks
  <2>1. Spawned("relayTasks") \cap {"relayFollower"} = {}
        /\ Spawned("consensus") = Spawned("relayTasks") \cup {"relayFollower"}
    BY DEF Spawned, Measured, Serving, Networked, Base, PartialTasks, ImportQueueTasks, Maybe
  <2>2. Step("relayTasks", {"relayFollower"}, "consensus")
    BY <1>11 DEF StartRelayTasks
  <2>3. command = "node"
    BY <2>2 DEF Step, Progress
  <2>4. {"relayFollower"} \cap Spawned("relayTasks") = {}
    BY <2>1
  <2> QED
    BY <2>1, <2>2, <2>3, <2>4, StepsKeepProgress
<1>12. CASE StartConsensus
  <2> DEFINE new == Maybe(settings.authority, "aura")
  <2>1. Spawned("consensus") \cap new = {}
    BY DEF Spawned, Measured, Serving, Networked, Base, PartialTasks, ImportQueueTasks, Maybe
  <2>2. Spawned("startNetwork") = Spawned("consensus") \cup new
    BY DEF Spawned, Measured, Serving, Networked, Base, PartialTasks, ImportQueueTasks,
       NodeTasks, Maybe
  <2> QED
    BY <1>12, <2>1, <2>2, StepsKeepProgress DEF StartConsensus, Step, Progress
<1>13. CASE StartNetwork
  <2>1. Spawned(stage) = NodeTasks /\ command = "node"
    BY <1>13 DEF StartNetwork, Spawned, Progress
  <2>2. Spawned("up")' = NodeTasks /\ NodeTasks' = NodeTasks
    BY <1>13 DEF StartNetwork, Spawned, NodeTasks, Maybe
  <2> QED
    BY <1>13, <2>1, <2>2 DEF StartNetwork, Progress, Ends
<1>14. CASE \E how \in {"failed", "done", "down"} : End(how)
  <2>1. NodeTasks' = NodeTasks
    BY <1>14 DEF End, NodeTasks, Maybe
  <2> QED
    BY <1>14, <2>1 DEF End, Progress, Ends
<1>15. ASSUME NEW task \in NodeTasks, TaskEnds(task) PROVE Progress'
  <2>1. Spawned(stage)' = Spawned(stage) /\ NodeTasks' = NodeTasks
    BY <1>15 DEF TaskEnds, Spawned, Base, Networked, Serving, Measured, NodeTasks,
       PartialTasks, Maybe
  <2>2. tasks' \cup lost' = tasks \cup lost /\ tasks' \cap lost' = {}
    BY <1>15 DEF TaskEnds, Progress
  <2> QED
    BY <1>15, <2>1, <2>2 DEF TaskEnds, Progress
<1>16. CASE Signal \/ UNCHANGED vars
  <2>1. Spawned(stage)' = Spawned(stage) /\ NodeTasks' = NodeTasks
    BY <1>16 DEF Signal, vars, Spawned, Base, Networked, Serving, Measured, NodeTasks,
       PartialTasks, Maybe
  <2> QED
    BY <1>16, <2>1 DEF Signal, vars, Progress
<1> QED
  BY <1>1, <1>2, <1>3, <1>4, <1>5, <1>6, <1>7, <1>8, <1>9, <1>10, <1>11, <1>12, <1>13,
     <1>14, <1>15, <1>16 DEF Next, Proceed, Fail, Finish, Exit

LEMMA AlwaysProgress == Spec => []Progress
BY ProgressInitially, ProgressKept, PTL DEF Spec

----------------------------------------------------------------------------

\* A command other than the node's own spawns what opening the database needs and
\* stays off the network.
THEOREM NodeTypeCorrect == Spec => []TypeOK
<1>1. ASSUME Progress PROVE TypeOK
  <2>1. tasks \subseteq NodeTasks
    BY <1>1, SpawnedAreNodeTasks DEF Progress
  <2>2. ASSUME command # "node" PROVE tasks \subseteq Base /\ ~online
    BY <1>1, <2>2 DEF Progress, Spawned, Stages, Ends, NodeStages
  <2> QED
    BY <1>1, <2>1, <2>2 DEF Progress, TypeOK, Base
<1> QED
  BY <1>1, AlwaysProgress, PTL

\* The network opens after everything else was started, and authoring begins after
\* everything that it relies on.
THEOREM NetworkOpensLast == Spec => []OpensLast
<1>1. ASSUME Progress PROVE OpensLast
  <2>1. online => NodeTasks \subseteq tasks \cup lost
    BY <1>1 DEF Progress, Spawned
  <2>2. ASSUME "aura" \in tasks PROVE stage \in {"startNetwork", "up"}
    <3>1. stage \notin {"done", "failed", "down"} /\ "aura" \in Spawned(stage)
      BY <1>1, <2>2 DEF Progress
    <3>2. "aura" \notin Measured \cup {"relayFollower"}
      BY DEF Measured, Serving, Networked, Base, PartialTasks, ImportQueueTasks, Maybe
    <3> QED
      BY <3>1, <3>2 DEF Spawned, Measured, Serving, Networked
  <2>3. "aura" \in NodeTasks => settings.authority
    BY DEF NodeTasks, Maybe
  <2>4. stage \in {"startNetwork", "up"} => tasks \cup lost = NodeTasks
    BY <1>1 DEF Progress, Spawned
  <2> QED
    BY <2>1, <2>2, <2>3, <2>4 DEF OpensLast
<1> QED
  BY <1>1, AlwaysProgress, PTL
===============================================================================
