----------------------------- MODULE NodeStartup ------------------------------
(***************************************************************************)
(* The collator's process (polkadot-sdk/node/src): what run() does for each*)
(* kind of command, and the steps of start_parachain_node, each of which   *)
(* may fail and drop what the earlier ones started.  Tasks run from the    *)
(* moment they are spawned, and may end while the start goes on.           *)
(***************************************************************************)

VARIABLES
    command,    \* the kind of subcommand
    settings,   \* what command line and chain specification ask for
    stage,      \* the step run() is about to take, or how it ended
    tasks,      \* tasks of the task manager that run
    lost,       \* tasks that have ended by themselves
    online,     \* start_network was called
    signalled   \* SIGINT or SIGTERM has arrived

vars == <<command, settings, stage, tasks, lost, online, signalled>>

\* None; the commands that work on the database, run by async_run or by sync_run;
\* those that need a chain specification only; purge-chain.
Commands == {"node", "asyncOp", "syncOp", "spec", "purge"}

\* benchmark: asked for, and the database has a path to measure.
Settings == [authority : BOOLEAN, telemetry : BOOLEAN, offchain : BOOLEAN,
             benchmark : BOOLEAN]

Stages == {"runner", "paraId", "relayConfig", "partial", "relayInterface",
           "network", "offchain", "spawnTasks", "hardware", "overseer",
           "relayTasks", "consensus", "startNetwork", "operation"}
Ends == {"up", "done", "failed", "down"}

Maybe(wanted, task) == IF wanted THEN {task} ELSE {}

\* Spawned by new_partial; the import queue by its build_import_queue.
PartialTasks == {"transactionPool"} \cup Maybe(settings.telemetry, "telemetry")
ImportQueueTasks == {"importQueue"}

\* Their end ends the node.  The last two are spawned by cumulus.
Essential == {"transactionPool", "importQueue", "aura", "relayNode", "relayFollower"}

\* Everything this node is made of.
NodeTasks ==
    {"transactionPool", "importQueue", "relayNode", "networkWorker", "rpc",
     "relayFollower"}
    \cup Maybe(settings.telemetry, "telemetry")
    \cup Maybe(settings.offchain, "offchainWorkers")
    \cup Maybe(settings.benchmark /\ settings.telemetry, "telemetryHwbench")
    \cup Maybe(settings.authority, "aura")

Init ==
    /\ command \in Commands /\ settings \in Settings
    /\ stage = "runner"
    /\ tasks = {} /\ lost = {}
    /\ online = FALSE /\ signalled = FALSE

----------------------------------------------------------------------------
(* Steps.                                                                  *)

Step(here, spawned, next) ==
    /\ stage = here
    /\ stage' = next
    /\ tasks' = tasks \cup spawned
    /\ UNCHANGED <<command, settings, lost, online, signalled>>

\* create_runner, which loads the chain specification.
CreateRunner ==
    \/ command = "node" /\ Step("runner", {}, "paraId")
    \/ command = "purge" /\ Step("runner", {}, "relayConfig")
    \/ command \in {"asyncOp", "syncOp"} /\ Step("runner", {}, "partial")
    \/ command = "spec" /\ Step("runner", {}, "operation")

ReadParaId == Step("paraId", {}, "relayConfig")

ConfigureRelay ==
    Step("relayConfig", {}, IF command = "purge" THEN "operation" ELSE "partial")

Fault_OperationsStartRelay ==
    Step("partial", PartialTasks \cup ImportQueueTasks, "relayInterface")

NewPartial ==
    Step("partial", PartialTasks \cup ImportQueueTasks,
         IF command = "node" THEN "relayInterface" ELSE "operation")

\* Awaits a relay chain node or the connection to one.
BuildRelayInterface == Step("relayInterface", {"relayNode"}, "network")

\* The worker waits for start_network before it opens a connection.
BuildNetwork == Step("network", {"networkWorker"}, "offchain")

StartOffchainWorkers ==
    Step("offchain", Maybe(settings.offchain, "offchainWorkers"), "spawnTasks")

\* sc_service::spawn_tasks: the RPC server answers from here on.
SpawnTasks == Step("spawnTasks", {"rpc"}, "hardware")

\* Poor hardware is only a warning.
ReportHardware ==
    Step("hardware",
         Maybe(settings.benchmark /\ settings.telemetry, "telemetryHwbench"),
         "overseer")

TakeOverseer == Step("overseer", {}, "relayTasks")

Fault_NetworkBeforeConsensus ==
    /\ stage = "relayTasks"
    /\ stage' = "up"
    /\ tasks' = tasks \cup {"relayFollower"}
    /\ online' = TRUE
    /\ UNCHANGED <<command, settings, lost, signalled>>

StartRelayTasks == Step("relayTasks", {"relayFollower"}, "consensus")

\* Cumulus makes a collator key for every authority, so that expect on it holds.
StartConsensus ==
    Step("consensus", Maybe(settings.authority, "aura"), "startNetwork")

StartNetwork ==
    /\ stage = "startNetwork"
    /\ stage' = "up"
    /\ online' = TRUE
    /\ UNCHANGED <<command, settings, tasks, lost, signalled>>

\* The ? of a step: run() returns the error and the task manager is dropped.
CanFail == Stages \ {"hardware", "consensus", "startNetwork"}

End(how) ==
    /\ stage' = how
    /\ tasks' = {} /\ online' = FALSE
    /\ UNCHANGED <<command, settings, lost, signalled>>

Fail == stage \in CanFail /\ End("failed")

Finish == stage = "operation" /\ End("done")

\* The runner waits for a signal, and of the node's tasks it looks at the essential
\* ones, those that were lost during the start too.  async_run waits for its future
\* or a signal and leaves the tasks alone; sync_run and the start look at neither.
MustExit == signalled \/ lost \cap Essential # {}
Stopped == command = "asyncOp" /\ stage = "operation" /\ signalled

Fault_ExitOnSignalOnly == ((stage = "up" /\ signalled) \/ Stopped) /\ End("down")

Exit == ((stage = "up" /\ MustExit) \/ Stopped) /\ End("down")

TaskEnds(task) ==
    /\ task \in tasks
    /\ tasks' = tasks \ {task}
    /\ lost' = lost \cup {task}
    /\ UNCHANGED <<command, settings, stage, online, signalled>>

\* create_runner takes the signals over: an earlier one just kills the process.
Signal ==
    /\ stage \notin {"runner", "done", "failed", "down"} /\ ~signalled
    /\ signalled' = TRUE
    /\ UNCHANGED <<command, settings, stage, tasks, lost, online>>

----------------------------------------------------------------------------

\* The steps that await somebody else, and those that code runs to their end.
Awaits == {"relayInterface", "network"}

Proceed ==
    \/ CreateRunner \/ ReadParaId \/ ConfigureRelay \/ NewPartial
    \/ StartOffchainWorkers \/ SpawnTasks \/ ReportHardware \/ TakeOverseer
    \/ StartRelayTasks \/ StartConsensus \/ StartNetwork

Next ==
    \/ Proceed
    \/ BuildRelayInterface \/ BuildNetwork
    \/ Fail \/ Finish \/ Exit
    \/ \E task \in NodeTasks : TaskEnds(task)
    \/ Signal

Spec == Init /\ [][Next]_vars

\* Code that does not wait runs on, and the runtime polls what it watches.  Nothing
\* is assumed of a relay chain that is awaited, or of an operation's length.
WatchedSpec == Spec /\ WF_vars(Proceed) /\ WF_vars(Exit)

----------------------------------------------------------------------------
(* Properties.                                                             *)

\* Type invariant: a command other than the node's own stays off the network.
TypeOK ==
    /\ command \in Commands /\ settings \in Settings
    /\ stage \in Stages \cup Ends
    /\ tasks \in SUBSET NodeTasks /\ lost \in SUBSET NodeTasks
    /\ tasks \cap lost = {}
    /\ online \in BOOLEAN /\ signalled \in BOOLEAN
    /\ command # "node" => tasks \subseteq PartialTasks \cup ImportQueueTasks /\ ~online

\* The network opens after all that the configuration asks for was started, and
\* blocks are authored after all that authoring relies on was: what is missing
\* from an open node has ended by itself.
OpensLast ==
    /\ online => NodeTasks \subseteq tasks \cup lost
    /\ "aura" \in tasks =>
          settings.authority /\ NodeTasks \subseteq tasks \cup lost

\* A node that loses an essential task at any moment of its start, when nobody looks
\* yet, does not serve on without it: it fails or goes down, unless the start waits
\* for the relay chain for ever.
EssentialLossEndsNode ==
    ([]<>(stage \notin Awaits))
    => ((command = "node" /\ lost \cap Essential # {}) ~> stage \in {"failed", "down"})
===============================================================================
